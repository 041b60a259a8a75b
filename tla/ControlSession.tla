--------------------------- MODULE ControlSession ---------------------------
(***************************************************************************)
(* The device's end of the UART control plane: control_session::State, the *)
(* parts of control_protocol that change it, and the receive task that     *)
(* owns both.  Any host may send any frame at any time; TinyUSB callbacks  *)
(* move the authority epoch and report failed deliveries concurrently.     *)
(*                                                                         *)
(* A session token and its local owner are made together and never again,  *)
(* so one number is both; 0 is no active session.  The bytes of a request  *)
(* are its session, id and command, those of a hello its nonce and id.     *)
(* ble.pairing.respond is a report here: its digest stands for its bytes.  *)
(***************************************************************************)
EXTENDS Naturals

CONSTANTS
    MaxSession,     \* local owner identities are exhausted after this one
    MaxId,          \* requests have an id up to this
    MaxEpoch,       \* the runtime moves its authority epoch up to this
    Nonce,          \* nonces of the hosts
    Content,        \* what tells two responses to one request apart
    Command         \* kinds of request

ASSUME BoundAssumption == MaxSession \in Nat /\ MaxId \in Nat /\ MaxEpoch \in Nat
ASSUME ChoiceAssumption == Nonce /= {} /\ Content /= {}

VARIABLES
    epoch,              \* hid_runtime's authority epoch
    notified,           \* s_lifecycle_invalidation_pending
    session,            \* active_session_, current_session_, local_owner_id_
    session_epoch,      \* session_authority_epoch_
    next_owner,         \* next_local_owner_id_
    hello_cache,        \* hello_cache_
    retry_cache,        \* retry_cache_kind_ and the cache it selects
    failure,            \* s_pending_hid_failure
    pc, work,           \* control_rx_task, and the request it works on
    reply,              \* the machine frame just written
    retired,            \* history: owners the sequence engine heard are gone
    blamed,             \* history: the active owner, once a delivery failed for it
    runs, answered      \* history: what RequestOnce is about

authority == <<session, session_epoch, next_owner, hello_cache, retry_cache>>
history == <<retired, blamed, runs, answered>>
vars == <<epoch, notified, authority, failure, pc, work, reply, history>>

Session == 1 .. MaxSession
Id == 0 .. MaxId
Epoch == 0 .. MaxEpoch

Hello == [type : {"hello"}, nonce : Nonce, id : Id]

\* query: reads only.  report: hid.keyboard.report, hid.mouse.report and
\* hid.release_all.  transition: usb.attach, usb.detach, hid.route.set.
\* action: anything else with an effect (hid.sequence.start, ble.*).
\* invalid: a request whose params do not validate.
ASSUME CommandAssumption ==
    Command \subseteq {"query", "report", "action", "transition", "invalid"}

Request == [type : {"request"}, session : Session, id : Id, command : Command]
Frame == Hello \cup Request
Key == Session \X Id
KeyOf(f) == <<f.session, f.id>>

Code == {"ok", "failed", "SESSION_MISMATCH", "REQUEST_ID_STALE", "REQUEST_ID_CONFLICT",
         "INVALID_PARAMS", "CLIENT_NONCE_CONFLICT", "INTERNAL_ERROR"}

\* A machine frame: its id is about.id, its session 0 when it is null.
NoFrame == [type |-> "none"]
Response == [about : Frame \cup {NoFrame}, session : Session \cup {0}, code : Code,
             content : Content \cup {"none"}]

NoResponse == [about |-> NoFrame, session |-> 0, code |-> "ok", content |-> "none"]
NoHello == [valid |-> FALSE, epoch |-> 0, response |-> NoResponse]
NoRetry == [kind |-> "none", epoch |-> 0, response |-> NoResponse]
NoWork == [request |-> NoFrame, epoch |-> 0, outcome |-> "none"]

\* write_frame
Write(about, s, code, content) ==
    reply' = [about |-> about, session |-> s, code |-> code, content |-> content]

Answered(f) == answered' = answered \cup {<<KeyOf(f), <<reply'.code, reply'.content>>>>}
-----------------------------------------------------------------------------
(* Protocol.hello                                                          *)

Received(f) == pc = "receive" /\ pc' = "again" /\ UNCHANGED <<epoch, notified, failure, work>>

\* The cached hello has this nonce, and no lifecycle event came after it.
Repeated(f) ==
    hello_cache.valid /\ hello_cache.epoch = epoch /\ hello_cache.response.about.nonce = f.nonce

HelloRetry(f) ==
    /\ Received(f)
    /\ Repeated(f) /\ hello_cache.response.about = f
    /\ reply' = hello_cache.response
    /\ UNCHANGED <<authority, history>>

HelloConflict(f) ==
    /\ Received(f)
    /\ Repeated(f) /\ hello_cache.response.about /= f
    /\ Write(f, 0, "CLIENT_NONCE_CONFLICT", "none")
    /\ UNCHANGED <<authority, history>>

\* What failed for a session is forgotten with it.
Forget == blamed' = IF session' = session THEN blamed ELSE 0

\* The owner of the active session, if any, is told before it is replaced.
Retire == retired' = retired \cup ({session} \ {0})

\* Takeover, then activate_hello: session, caches and lease start afresh.
HelloFresh(f) ==
    /\ Received(f)
    /\ ~Repeated(f) /\ next_owner <= MaxSession
    /\ session' = next_owner
    /\ session_epoch' = epoch
    /\ next_owner' = next_owner + 1
    /\ Write(f, next_owner, "ok", "none")
    /\ hello_cache' = [valid |-> TRUE, epoch |-> epoch, response |-> reply']
    /\ retry_cache' = NoRetry
    /\ Retire /\ Forget
    /\ UNCHANGED <<runs, answered>>

\* clear_authority: the proof of an accepted transition outlives the session.
ClearAuthority ==
    /\ session' = 0 /\ session_epoch' = 0
    /\ hello_cache' = NoHello
    /\ retry_cache' = IF retry_cache.kind = "normal" THEN NoRetry ELSE retry_cache
    /\ UNCHANGED next_owner

\* activate_hello fails: the old session is gone all the same.
HelloExhausted(f) ==
    /\ Received(f)
    /\ ~Repeated(f) /\ next_owner > MaxSession
    /\ IF session /= 0 THEN ClearAuthority ELSE UNCHANGED authority
    /\ Retire /\ Forget
    /\ Write(f, 0, "INTERNAL_ERROR", "none")
    /\ UNCHANGED <<runs, answered>>
-----------------------------------------------------------------------------
(* A request: replay, inspection, the action, completion.                  *)

\* Mutant: the proof ends with the epoch, as a completed request does.
ProvenAtEpoch(f) ==
    /\ f.command = "transition"
    /\ retry_cache.kind = "transition" /\ retry_cache.epoch = epoch
    /\ retry_cache.response.about = f

\* inspect_transition_retry, before the authority epoch is looked at.
Proven(f) ==
    /\ f.command = "transition"
    /\ retry_cache.kind = "transition" /\ retry_cache.response.about = f

TransitionRetry(f) ==
    /\ Received(f)
    /\ Proven(f)
    /\ reply' = retry_cache.response
    /\ Answered(f)
    /\ UNCHANGED <<authority, retired, blamed, runs>>

Current(f) == session /= 0 /\ session_epoch = epoch /\ f.session = session

\* Mutant: only the completed request itself is recognised.
NewUnlessCompleted(f) ==
    ~(/\ retry_cache.kind = "normal" /\ retry_cache.epoch = epoch
      /\ f.id = retry_cache.response.about.id)

\* inspect_request: is it newer than the completed request of the cache?
New(f) ==
    ~(/\ retry_cache.kind = "normal" /\ retry_cache.epoch = epoch
      /\ f.id <= retry_cache.response.about.id)

SameBytes(f) ==
    f.id = retry_cache.response.about.id /\ f.command = retry_cache.response.about.command

Refuse(f) ==
    /\ Received(f)
    /\ ~Proven(f)
    /\ \/ ~Current(f) /\ Write(f, 0, "SESSION_MISMATCH", "none")
       \/ /\ Current(f) /\ ~New(f) /\ ~SameBytes(f)
          /\ Write(f, session, IF f.id < retry_cache.response.about.id
                                 THEN "REQUEST_ID_STALE" ELSE "REQUEST_ID_CONFLICT", "none")
    /\ UNCHANGED <<authority, history>>

Replay(f) ==
    /\ Received(f)
    /\ ~Proven(f) /\ Current(f) /\ ~New(f) /\ SameBytes(f)
    /\ reply' = retry_cache.response
    /\ Answered(f)
    /\ UNCHANGED <<authority, retired, blamed, runs>>

Accept(f) ==
    /\ pc = "receive"
    /\ ~Proven(f) /\ Current(f) /\ New(f)
    /\ work' = [request |-> f, epoch |-> epoch, outcome |-> "none"]
    /\ pc' = "perform"
    /\ UNCHANGED <<epoch, notified, authority, failure, reply, history>>

\* The providers' results, and how often the action took effect.  A report
\* whose ticket was claimed as it timed out fails and may still be sent; one
\* that lost its authority was not.
Outcome(command) ==
    CASE command = "query"      -> {<<"done", 0>>}
      [] command = "report"     -> {<<"done", 1>>, <<"failed", 0>>, <<"failed", 1>>, <<"lost", 0>>}
      [] command = "action"     -> {<<"done", 1>>, <<"failed", 0>>, <<"failed", 1>>}
      [] command = "transition" -> {<<"accepted", 1>>, <<"done", 0>>, <<"failed", 0>>}
      [] command = "invalid"    -> {<<"invalid", 0>>}

\* Mutant: the transition leaves the epoch, and so the session, as it was.
PerformKeepingEpoch ==
    /\ pc = "perform"
    /\ \E o \in Outcome(work.request.command) :
         /\ work' = [work EXCEPT !.outcome = o[1]]
         /\ runs' = [runs EXCEPT ![KeyOf(work.request)] = @ + o[2]]
    /\ pc' = "finish"
    /\ UNCHANGED <<epoch, notified, authority, failure, reply, retired, blamed, answered>>

\* An accepted transition moves the authority epoch before it returns.
Perform ==
    /\ pc = "perform"
    /\ \E o \in Outcome(work.request.command) :
         /\ work' = [work EXCEPT !.outcome = o[1]]
         /\ runs' = [runs EXCEPT ![KeyOf(work.request)] = @ + o[2]]
         /\ IF o[1] = "accepted" THEN epoch < MaxEpoch /\ epoch' = epoch + 1
                                 ELSE UNCHANGED epoch
    /\ pc' = "finish"
    /\ UNCHANGED <<notified, authority, failure, reply, retired, blamed, answered>>

Finished == pc = "finish" /\ pc' = "again" /\ work' = NoWork /\ UNCHANGED <<epoch, notified, failure>>

\* revoke_for_lifecycle_invalidation
Outdated ==
    \/ session /= 0 /\ session_epoch /= epoch
    \/ hello_cache.valid /\ hello_cache.epoch /= epoch
    \/ retry_cache.kind = "normal" /\ retry_cache.epoch /= epoch

\* The response is kept for an exact retry, then the session is revoked.
FinishAccepted ==
    /\ Finished
    /\ work.outcome = "accepted"
    /\ \E c \in Content : Write(work.request, session, "ok", c)
    /\ Answered(work.request)
    /\ retry_cache' = [kind |-> "transition", epoch |-> 0, response |-> reply']
    /\ IF session_epoch /= epoch
         THEN session' = 0 /\ session_epoch' = 0 /\ hello_cache' = NoHello
         ELSE UNCHANGED <<session, session_epoch, hello_cache>>
    /\ Retire /\ Forget
    /\ UNCHANGED <<next_owner, runs>>

\* A report whose authority went away while it ran is answered, not cached.
Lost == \/ work.outcome = "lost"
        \/ work.request.command = "report" /\ epoch /= work.epoch

FinishUncached ==
    /\ Finished
    /\ \/ Lost /\ Write(work.request, 0, "SESSION_MISMATCH", "none")
       \/ work.outcome = "invalid" /\ Write(work.request, session, "INVALID_PARAMS", "none")
    /\ UNCHANGED <<authority, history>>

FinishCached ==
    /\ Finished
    /\ work.outcome \in {"done", "failed"} /\ ~Lost
    /\ \E c \in Content :
         Write(work.request, session, IF work.outcome = "done" THEN "ok" ELSE "failed", c)
    /\ Answered(work.request)
    /\ retry_cache' = [kind |-> "normal", epoch |-> work.epoch, response |-> reply']
    /\ UNCHANGED <<session, session_epoch, next_owner, hello_cache, retired, blamed, runs>>
-----------------------------------------------------------------------------
(* control_rx_task: service_pending_notifications, Protocol.service, read. *)
(* The published copy of the owner lags only within these steps.           *)

Serviced ==
    /\ pc \in {"service", "again"}
    /\ pc' = IF pc = "service" THEN "lease" ELSE "service"
    /\ reply' = NoResponse
    /\ UNCHANGED <<epoch, next_owner, work, runs, answered>>

\* Mutant: the owner is read after it was revoked.
ServiceLifecycleTooLate ==
    /\ Serviced
    /\ notified /\ notified' = FALSE
    /\ IF Outdated THEN ClearAuthority ELSE UNCHANGED authority
    /\ retired' = retired \cup ({session'} \ {0})
    /\ failure' = IF failure.owner /= session' THEN [pending |-> FALSE, owner |-> 0] ELSE failure
    /\ Forget

\* Retires what belongs to an older epoch; failures of it are moot.
ServiceLifecycle ==
    /\ Serviced
    /\ notified /\ notified' = FALSE
    /\ IF Outdated THEN ClearAuthority ELSE UNCHANGED authority
    /\ retired' = IF session /= 0 /\ session_epoch /= epoch THEN retired \cup {session} ELSE retired
    /\ failure' = IF failure.owner /= session' THEN [pending |-> FALSE, owner |-> 0] ELSE failure
    /\ Forget

\* Mutant: whoever is the owner by now pays for it.
ServiceFailureOfAnyone ==
    /\ Serviced
    /\ ~notified /\ failure.pending
    /\ failure' = [pending |-> FALSE, owner |-> 0]
    /\ ClearAuthority
    /\ Retire
    /\ Forget
    /\ UNCHANGED notified

\* on_hid_safety_failure: only the owner that failed is retired.
ServiceFailure ==
    /\ Serviced
    /\ ~notified /\ failure.pending
    /\ failure' = [pending |-> FALSE, owner |-> 0]
    /\ IF session /= 0 /\ session = failure.owner THEN ClearAuthority ELSE UNCHANGED authority
    /\ retired' = retired \cup ({failure.owner} \ {0})
    /\ Forget
    /\ UNCHANGED notified

ServiceNothing ==
    /\ Serviced
    /\ ~notified /\ ~failure.pending
    /\ UNCHANGED <<notified, authority, failure, retired, blamed>>

\* Protocol.service: the epoch once more, then the lease, which may always
\* have run out.  retry_cache and session end together.
Lease ==
    /\ pc = "lease" /\ pc' = "receive"
    /\ \/ /\ Outdated \/ session /= 0
          /\ ClearAuthority
          /\ Retire
       \/ ~Outdated /\ UNCHANGED <<authority, retired>>
    /\ Forget
    /\ UNCHANGED <<epoch, notified, failure, work, reply, runs, answered>>

\* Nothing was read, or no complete frame.
Idle ==
    /\ pc = "receive" /\ pc' = "service"
    /\ UNCHANGED <<epoch, notified, authority, failure, work, reply, history>>
-----------------------------------------------------------------------------
(* Other contexts.                                                         *)

\* A lifecycle callback moves the epoch ...
Lifecycle ==
    /\ epoch < MaxEpoch
    /\ epoch' = epoch + 1
    /\ UNCHANGED <<notified, authority, failure, pc, work, reply, history>>

\* ... and then tells the receive task; so does one that moves nothing.
Notify ==
    /\ ~notified /\ notified' = TRUE
    /\ UNCHANGED <<epoch, authority, failure, pc, work, reply, history>>

\* Mutant: the first failure occupies the mailbox until it is taken.
ReportFailedFirstOnly(o) ==
    /\ failure' = IF failure.pending THEN failure ELSE [pending |-> TRUE, owner |-> o]
    /\ blamed' = IF o = session THEN o ELSE blamed
    /\ UNCHANGED <<epoch, notified, authority, pc, work, reply, retired, runs, answered>>

\* tud_hid_report_failed_cb, for a report of owner o (0: internal).
ReportFailed(o) ==
    /\ IF ~failure.pending \/ failure.owner = o \/ (o /= 0 /\ o = session)
         THEN failure' = [pending |-> TRUE, owner |-> o]
         ELSE UNCHANGED failure
    /\ blamed' = IF o = session THEN o ELSE blamed
    /\ UNCHANGED <<epoch, notified, authority, pc, work, reply, retired, runs, answered>>
-----------------------------------------------------------------------------
Init ==
    /\ epoch = 0 /\ notified = FALSE
    /\ session = 0 /\ session_epoch = 0 /\ next_owner = 1
    /\ hello_cache = NoHello /\ retry_cache = NoRetry
    /\ failure = [pending |-> FALSE, owner |-> 0]
    /\ pc = "service" /\ work = NoWork /\ reply = NoResponse
    /\ retired = {} /\ blamed = 0
    /\ runs = [k \in Key |-> 0] /\ answered = {}

Greet(f) == HelloRetry(f) \/ HelloConflict(f) \/ HelloFresh(f) \/ HelloExhausted(f)
Inspect(f) == TransitionRetry(f) \/ Refuse(f) \/ Replay(f) \/ Accept(f)
Service == ServiceLifecycle \/ ServiceFailure \/ ServiceNothing \/ Lease
Finish == FinishAccepted \/ FinishUncached \/ FinishCached

Receive == (\E f \in Hello : Greet(f)) \/ (\E f \in Request : Inspect(f))
Callback == Lifecycle \/ Notify \/ \E o \in 0 .. next_owner - 1 : ReportFailed(o)

Task == Service \/ Receive \/ Idle \/ Perform \/ Finish

Next == Task \/ Callback

Spec == Init /\ [][Next]_vars

\* The receive task never waits for more than a bounded time.
FairSpec == Spec /\ WF_vars(Task)
-----------------------------------------------------------------------------
Answer == {"ok", "failed"} \X Content

\* What a retry cache keeps, and what the task works on.
Completed == [about : Request, session : Session \cup {0}, code : {"ok", "failed"},
              content : Content]
Cached == [kind : {"normal", "transition"}, epoch : Epoch, response : Completed]
Work == [request : Request, epoch : Epoch,
         outcome : {"none", "done", "failed", "accepted", "lost", "invalid"}]

TypeOK ==
    /\ epoch \in Epoch /\ notified \in BOOLEAN
    /\ session \in 0 .. MaxSession /\ session_epoch \in Epoch
    /\ next_owner \in 1 .. MaxSession + 1
    /\ hello_cache \in [valid : BOOLEAN, epoch : Epoch, response : Response]
    /\ retry_cache \in Cached \cup {NoRetry}
    /\ failure \in [pending : BOOLEAN, owner : 0 .. MaxSession]
    /\ pc \in {"service", "lease", "receive", "again", "perform", "finish"}
    /\ work \in IF pc \in {"perform", "finish"} THEN Work ELSE {NoWork}
    /\ reply \in Response
    /\ retired \subseteq Session /\ blamed \in 0 .. MaxSession
    /\ runs \in [Key -> Nat] /\ answered \subseteq Key \X Answer

Once == INSTANCE RequestOnce WITH Response <- Answer

(* Every request is performed at most once and gets one answer, whatever   *)
(* is retransmitted, in which order, before or after takeovers, lease      *)
(* expiry, accepted transitions and moves of the authority epoch.          *)
PerformedOnce == Once!Spec

Later(k, than) == k[1] > than[1] \/ (k[1] = than[1] /\ k[2] > than[2])

(* A late retransmission is never performed behind what was asked after    *)
(* it: actions happen in the order of sessions and ids, across takeovers,  *)
(* expiries and transitions, with one completed request remembered.        *)
PerformedInOrder ==
    [][\A k \in Key : runs'[k] /= runs[k] => \A l \in Key : Later(l, k) => runs[l] = 0]_vars

(* A hello retry cannot resurrect authority: what the cache would replay   *)
(* names the active session, of the epoch it was established in.           *)
HelloNamesLiveSession ==
    hello_cache.valid => /\ session = hello_cache.response.session /\ session /= 0
                         /\ session_epoch = hello_cache.epoch

(* No owner goes away in silence: the sequence engine was told of each     *)
(* owner that is no longer the active one, however it lost the session.    *)
OwnersTold == \A s \in 1 .. next_owner - 1 : s = session \/ s \in retired

FailedDelivery(s) == failure = [pending |-> TRUE, owner |-> s]

(* A session ends for a cause of its own: a failure notified late, or a    *)
(* coalesced lifecycle notification served after a hello has captured the  *)
(* current epoch, does not cost a newer session its authority.             *)
NoStrayRevocation ==
    [][session' /= session /\ pc \in {"service", "again"}
         => (session_epoch /= epoch \/ FailedDelivery(session))]_vars

(* A failed delivery of the current owner is acted upon, once lifecycle    *)
(* notifications stop coming before every pass: the one-entry mailbox      *)
(* neither drops it nor keeps a stale failure in its place.                *)
FailureHonoured ==
    <>[](~notified) => \A s \in Session : blamed = s ~> session /= s
=============================================================================
