------------------------ MODULE ControlSessionProofs ------------------------
(***************************************************************************)
(* Theorems of ControlSession for every number of sessions, ids and epochs *)
(* and every set of nonces, response contents and commands.                *)
(***************************************************************************)
EXTENDS ControlSession, TLAPS

\* Every module-level assumption, cited as one fact.
LEMMA Assumptions ==
    /\ MaxSession \in Nat /\ MaxId \in Nat /\ MaxEpoch \in Nat
    /\ Nonce /= {} /\ Content /= {}
    /\ Command \subseteq {"query", "report", "action", "transition", "invalid"}
BY BoundAssumption, ChoiceAssumption, CommandAssumption

\* What the codes and the two ends of a response may be.
LEMMA WriteType ==
    ASSUME NEW about \in Frame, NEW s \in Session \cup {0}, NEW code \in Code,
           NEW content \in Content \cup {"none"}, Write(about, s, code, content)
    PROVE  reply' \in Response
BY DEF Write, Response

\* An action that is refused for lost authority or bad params had no effect.
LEMMA OutcomeType ==
    ASSUME NEW c \in Command, NEW o \in Outcome(c)
    PROVE  /\ o[1] \in {"done", "failed", "accepted", "lost", "invalid"}
           /\ o[2] \in {0, 1}
           /\ o[1] \in {"lost", "invalid"} => o[2] = 0
BY Assumptions DEF Outcome

\* Clearing the authority leaves every cache in a state of its type.
LEMMA ClearAuthorityType ==
    ASSUME TypeOK, ClearAuthority
    PROVE  /\ session' \in 0 .. MaxSession /\ session_epoch' \in Epoch
           /\ next_owner' \in 1 .. MaxSession + 1
           /\ hello_cache' \in [valid : BOOLEAN, epoch : Epoch, response : Response]
           /\ retry_cache' \in Cached \cup {NoRetry}
<1>1. 0 \in Epoch /\ 0 \in 0 .. MaxSession
  BY Assumptions DEF Epoch
<1>2. NoResponse \in Response
  BY DEF NoResponse, Response, Code
<1>3. QED
  BY <1>1, <1>2 DEF ClearAuthority, TypeOK, NoHello

\* Forgetting leaves a failure of a session or none.
LEMMA ForgetType ==
    ASSUME TypeOK, Forget
    PROVE  blamed' \in 0 .. MaxSession
BY Assumptions DEF Forget, TypeOK

-----------------------------------------------------------------------------
\* No step of any context leaves the types.
LEMMA TypeStep == TypeOK /\ [Next]_vars => TypeOK'
<1> SUFFICES ASSUME TypeOK, [Next]_vars PROVE TypeOK'
  OBVIOUS
<1>0. /\ 0 \in Epoch /\ 0 \in 0 .. MaxSession /\ 0 \in Session \cup {0}
      /\ Session \cup {0} = 0 .. MaxSession
  BY Assumptions DEF Epoch, Session
<1>n. NoResponse \in Response /\ NoWork.request = NoFrame
  BY DEF NoResponse, Response, Code, NoWork
<1>1. ASSUME NEW f \in Hello, HelloRetry(f) PROVE TypeOK'
  BY <1>1 DEF HelloRetry, Received, TypeOK, authority, history
<1>2. ASSUME NEW f \in Hello, HelloConflict(f) PROVE TypeOK'
  <2>1. reply' \in Response
    BY <1>2, WriteType, <1>0 DEF HelloConflict, Frame, Code
  <2>2. QED
    BY <1>2, <2>1 DEF HelloConflict, Received, TypeOK, authority, history
<1>3. ASSUME NEW f \in Hello, HelloFresh(f) PROVE TypeOK'
  <2>1. next_owner \in Session
    BY <1>3, Assumptions DEF HelloFresh, Session, TypeOK
  <2>2. reply' \in Response
    BY <1>3, <2>1, WriteType DEF HelloFresh, Frame, Code
  <2>3. next_owner' \in 1 .. MaxSession + 1
    BY <1>3, Assumptions DEF HelloFresh, TypeOK
  <2>4. retired' \subseteq Session
    BY <1>3, <1>0 DEF HelloFresh, Retire, TypeOK
  <2>5. QED
    BY <1>3, <1>0, <1>n, <2>1, <2>2, <2>3, <2>4, ForgetType
    DEF HelloFresh, Received, TypeOK
<1>4. ASSUME NEW f \in Hello, HelloExhausted(f) PROVE TypeOK'
  <2>1. reply' \in Response
    BY <1>4, WriteType, <1>0 DEF HelloExhausted, Frame, Code
  <2>2. retired' \subseteq Session
    BY <1>4, <1>0 DEF HelloExhausted, Retire, TypeOK
  <2>3. CASE session /= 0
    BY <1>4, <2>1, <2>2, <2>3, ClearAuthorityType, ForgetType DEF HelloExhausted, Received, TypeOK
  <2>4. CASE session = 0
    BY <1>4, <2>1, <2>2, <2>4, ForgetType DEF HelloExhausted, Received, TypeOK, authority
  <2>5. QED
    BY <2>3, <2>4
<1>5. ASSUME NEW f \in Request, TransitionRetry(f) \/ Replay(f) PROVE TypeOK'
  <2>1. retry_cache \in Cached
    BY <1>5 DEF TransitionRetry, Replay, Proven, New, NoRetry, TypeOK
  <2>2. retry_cache.response \in Completed
    BY <2>1 DEF Cached
  <2>3. reply' = retry_cache.response /\ Answered(f)
    BY <1>5 DEF TransitionRetry, Replay
  <2>4. reply' \in Response
    BY <2>2, <2>3 DEF Completed, Response, Frame, Code
  <2>5. answered' \subseteq Key \X Answer
    BY <2>2, <2>3 DEF Completed, Answered, KeyOf, Key, Request, Answer, TypeOK
  <2>6. QED
    BY <1>5, <2>4, <2>5 DEF TransitionRetry, Replay, Received, TypeOK, authority
<1>6. ASSUME NEW f \in Request, Refuse(f) PROVE TypeOK'
  <2>1. reply' \in Response
    BY <1>6, WriteType, <1>0 DEF Refuse, Frame, Code, TypeOK
  <2>2. QED
    BY <1>6, <2>1 DEF Refuse, Received, TypeOK, authority, history
<1>7. ASSUME NEW f \in Request, Accept(f) PROVE TypeOK'
  BY <1>7, Assumptions DEF Accept, TypeOK, Work, authority, history
<1>8. CASE Perform
  <2>1. work \in Work
    BY <1>8 DEF Perform, TypeOK
  <2>2. PICK o \in Outcome(work.request.command) :
          /\ work' = [work EXCEPT !.outcome = o[1]]
          /\ runs' = [runs EXCEPT ![KeyOf(work.request)] = @ + o[2]]
          /\ IF o[1] = "accepted" THEN epoch < MaxEpoch /\ epoch' = epoch + 1
                                  ELSE UNCHANGED epoch
    BY <1>8 DEF Perform
  <2>3. o[1] \in {"done", "failed", "accepted", "lost", "invalid"}
    BY <2>1, <2>2, OutcomeType DEF Work, Request
  <2>4. work' \in Work
    BY <2>1, <2>2, <2>3 DEF Work
  <2>5. runs' \in [Key -> Nat]
    <3>1. KeyOf(work.request) \in Key
      BY <2>1 DEF Work, Request, KeyOf, Key
    <3>2. o[2] \in {0, 1}
      BY <2>1, OutcomeType DEF Work, Request
    <3>3. QED
      BY <2>2, <3>1, <3>2 DEF TypeOK
  <2>6. epoch' \in Epoch
    BY <2>2, Assumptions DEF TypeOK, Epoch
  <2>7. QED
    BY <1>8, <2>4, <2>5, <2>6 DEF Perform, TypeOK, authority
<1>9. CASE FinishAccepted
  <2>1. work.request \in Request
    BY <1>9 DEF FinishAccepted, Finished, TypeOK, Work
  <2>2. PICK c \in Content : Write(work.request, session, "ok", c)
    BY <1>9 DEF FinishAccepted
  <2>3. reply' \in Completed
    BY <1>0, <2>1, <2>2 DEF Write, Completed, TypeOK
  <2>4. reply' \in Response
    BY <2>3 DEF Completed, Response, Frame, Code
  <2>5. retry_cache' \in Cached
    BY <1>0, <1>9, <2>3 DEF FinishAccepted, Cached
  <2>6. answered' \subseteq Key \X Answer
    BY <1>9, <2>1, <2>3
    DEF FinishAccepted, Completed, Answered, KeyOf, Key, Request, Answer, TypeOK
  <2>7. /\ session' \in 0 .. MaxSession /\ session_epoch' \in Epoch
        /\ hello_cache' \in [valid : BOOLEAN, epoch : Epoch, response : Response]
    <3>1. NoHello \in [valid : BOOLEAN, epoch : Epoch, response : Response]
      BY <1>0, <1>n DEF NoHello
    <3>2. CASE session_epoch = epoch
      BY <1>9, <3>2 DEF FinishAccepted, TypeOK
    <3>3. CASE session_epoch /= epoch
      BY <1>0, <1>9, <3>1, <3>3 DEF FinishAccepted
    <3>4. QED
      BY <3>2, <3>3
  <2>8. retired' \subseteq Session
    BY <1>0, <1>9 DEF FinishAccepted, Retire, TypeOK
  <2>9. QED
    BY <1>9, <2>4, <2>5, <2>6, <2>7, <2>8, ForgetType DEF FinishAccepted, Finished, TypeOK
<1>10. CASE FinishUncached
  <2>1. work.request \in Frame
    BY <1>10 DEF FinishUncached, Finished, TypeOK, Work, Frame
  <2>2. reply' \in Response
    BY <1>0, <1>10, <2>1, WriteType DEF FinishUncached, Code, TypeOK
  <2>3. QED
    BY <1>10, <2>2 DEF FinishUncached, Finished, TypeOK, authority, history
<1>11. CASE FinishCached
  <2>1. work \in Work
    BY <1>11 DEF FinishCached, Finished, TypeOK
  <2>2. PICK c \in Content :
          Write(work.request, session, IF work.outcome = "done" THEN "ok" ELSE "failed", c)
    BY <1>11 DEF FinishCached
  <2>3. reply' \in Completed
    BY <1>0, <2>1, <2>2 DEF Write, Completed, Work, TypeOK
  <2>4. reply' \in Response
    BY <2>3 DEF Completed, Response, Frame, Code
  <2>5. retry_cache' \in Cached
    BY <1>11, <2>1, <2>3 DEF FinishCached, Cached, Work
  <2>6. answered' \subseteq Key \X Answer
    BY <1>11, <2>1, <2>3
    DEF FinishCached, Completed, Answered, KeyOf, Key, Request, Answer, Work, TypeOK
  <2>7. QED
    BY <1>11, <2>4, <2>5, <2>6 DEF FinishCached, Finished, TypeOK
<1>12. CASE ServiceLifecycle
  <2>1. retired' \subseteq Session
    BY <1>0, <1>12 DEF ServiceLifecycle, TypeOK
  <2>2. failure' \in [pending : BOOLEAN, owner : 0 .. MaxSession]
    BY <1>0, <1>12 DEF ServiceLifecycle, TypeOK
  <2>3. CASE Outdated
    BY <1>n, <1>12, <2>1, <2>2, <2>3, ClearAuthorityType, ForgetType
    DEF ServiceLifecycle, Serviced, TypeOK
  <2>4. CASE ~Outdated
    BY <1>n, <1>12, <2>1, <2>2, <2>4, ForgetType DEF ServiceLifecycle, Serviced, TypeOK, authority
  <2>5. QED
    BY <2>3, <2>4
<1>13. CASE ServiceFailure
  <2>1. retired' \subseteq Session
    BY <1>0, <1>13 DEF ServiceFailure, TypeOK
  <2>2. failure' \in [pending : BOOLEAN, owner : 0 .. MaxSession]
    BY <1>0, <1>13 DEF ServiceFailure
  <2>3. CASE ClearAuthority
    BY <1>n, <1>13, <2>1, <2>2, <2>3, ClearAuthorityType, ForgetType
    DEF ServiceFailure, Serviced, TypeOK
  <2>4. CASE UNCHANGED authority
    BY <1>n, <1>13, <2>1, <2>2, <2>4, ForgetType DEF ServiceFailure, Serviced, TypeOK, authority
  <2>5. QED
    BY <1>13, <2>3, <2>4 DEF ServiceFailure
<1>14. CASE ServiceNothing
  BY <1>14, <1>n DEF ServiceNothing, Serviced, TypeOK, authority
<1>15. CASE Lease
  <2>1. retired' \subseteq Session
    BY <1>0, <1>15 DEF Lease, Retire, TypeOK
  <2>2. CASE ClearAuthority
    BY <1>15, <2>1, <2>2, ClearAuthorityType, ForgetType DEF Lease, TypeOK
  <2>3. CASE UNCHANGED authority
    BY <1>15, <2>1, <2>3, ForgetType DEF Lease, TypeOK, authority
  <2>4. QED
    BY <1>15, <2>2, <2>3 DEF Lease
<1>16. CASE Idle
  BY <1>16 DEF Idle, TypeOK, authority, history
<1>17. CASE Lifecycle
  BY <1>17, Assumptions DEF Lifecycle, TypeOK, Epoch, authority, history
<1>18. CASE Notify
  BY <1>18 DEF Notify, TypeOK, authority, history
<1>19. ASSUME NEW o \in 0 .. next_owner - 1, ReportFailed(o) PROVE TypeOK'
  <2>1. o \in 0 .. MaxSession
    BY Assumptions DEF TypeOK
  <2>2. failure' \in [pending : BOOLEAN, owner : 0 .. MaxSession]
    <3>1. failure' = [pending |-> TRUE, owner |-> o] \/ failure' = failure
      BY <1>19 DEF ReportFailed
    <3>2. failure \in [pending : BOOLEAN, owner : 0 .. MaxSession]
      BY DEF TypeOK
    <3>3. [pending |-> TRUE, owner |-> o] \in [pending : BOOLEAN, owner : 0 .. MaxSession]
      BY <2>1
    <3>4. QED
      BY <3>1, <3>2, <3>3
  <2>3. blamed' \in 0 .. MaxSession
    BY <1>19, <2>1 DEF ReportFailed, TypeOK
  <2>4. QED
    BY <1>19, <2>2, <2>3 DEF ReportFailed, TypeOK, authority
<1>20. CASE UNCHANGED vars
  BY <1>20 DEF vars, TypeOK, authority, history
<1>21. QED
  BY <1>1, <1>2, <1>3, <1>4, <1>5, <1>6, <1>7, <1>8, <1>9, <1>10, <1>11, <1>12, <1>13,
     <1>14, <1>15, <1>16, <1>17, <1>18, <1>19, <1>20
  DEF Next, Task, Service, Receive, Greet, Inspect, Finish, Callback

\* The first state is of its type.
LEMMA InitType == Init => TypeOK
<1> SUFFICES ASSUME Init PROVE TypeOK
  OBVIOUS
<1>1. 0 \in Epoch /\ 0 \in 0 .. MaxSession /\ 1 \in 1 .. MaxSession + 1
  BY Assumptions DEF Epoch
<1>2. NoResponse \in Response
  BY DEF NoResponse, Response, Code
<1>3. runs \in [Key -> Nat]
  BY DEF Init
<1>4. QED
  BY <1>1, <1>2, <1>3 DEF Init, TypeOK, NoHello

\* Every variable keeps its type: identities and epochs stay in range, and no
\* response carries a code or a content the protocol does not define.
THEOREM TypeCorrect == Spec => []TypeOK
<1>1. Init => TypeOK
  BY InitType
<1>2. TypeOK /\ [Next]_vars => TypeOK'
  BY TypeStep
<1>3. QED
  BY <1>1, <1>2, PTL DEF Spec
-----------------------------------------------------------------------------
\* A request whose action ran or that was answered.
Used(k) == runs[k] /= 0 \/ \E a \in answered : a[1] = k

Working == pc \in {"perform", "finish"}

\* The active session is the newest one, of an epoch that has been.
Newest ==
    /\ session /= 0 => session = next_owner - 1
    /\ session_epoch <= epoch

\* The caches of requests and hellos belong to the active session; the
\* cached response is an answer that was given.
CachesFollow ==
    /\ HelloNamesLiveSession
    /\ retry_cache.kind = "normal" =>
         /\ session /= 0 /\ retry_cache.epoch = session_epoch
         /\ retry_cache.response.about.session = session
    /\ retry_cache.kind /= "none" =>
         LET r == retry_cache.response IN
           <<KeyOf(r.about), <<r.code, r.content>>>> \in answered

OneAnswer == \A a, b \in answered : a[1] = b[1] => a[2] = b[2]

\* The request at work is new: of the active session, above every completed
\* one, not answered, and not performed before it was accepted.
WorkIsNew ==
    Working =>
      /\ work.request \in Request
      /\ session /= 0 /\ work.request.session = session
      /\ work.epoch = session_epoch
      /\ retry_cache.kind = "normal" =>
           work.request.id > retry_cache.response.about.id
      /\ \A a \in answered : a[1] /= KeyOf(work.request)
      /\ pc = "perform" \/ work.outcome \in {"lost", "invalid"} =>
           runs[KeyOf(work.request)] = 0
      /\ pc = "finish" /\ work.outcome = "accepted" => session_epoch /= epoch

\* Only sessions that exist have used requests, and while the active one can
\* act the cache is above all of them.
UsedAreCached ==
    /\ \A k \in Key : Used(k) => k[1] < next_owner
    /\ session /= 0 /\ (session_epoch = epoch \/ Working) =>
         \A i \in Id :
           Used(<<session, i>>) =>
             \/ Working /\ work.request.id = i
             \/ retry_cache.kind = "normal" /\ i <= retry_cache.response.about.id

Ledger == Newest /\ CachesFollow /\ OneAnswer /\ WorkIsNew /\ UsedAreCached

Promise == TypeOK /\ Ledger

\* What a key and a cache that is not empty are made of.
LEMMA Parts ==
    ASSUME TypeOK
    PROVE  /\ retry_cache.kind /= "none" => retry_cache \in Cached
           /\ \A f \in Request : KeyOf(f) \in Key /\ f.id \in Nat /\ f.session \in Session
           /\ epoch \in Nat /\ session \in Nat /\ session_epoch \in Nat /\ next_owner \in Nat
           /\ retry_cache.kind /= "none" => /\ retry_cache.response.about \in Request
                                            /\ retry_cache.response.about.id \in Nat
<1>1. retry_cache.kind /= "none" => retry_cache \in Cached
  BY DEF TypeOK, NoRetry
<1>2. \A f \in Request : KeyOf(f) \in Key /\ f.id \in Nat /\ f.session \in Session
  BY Assumptions DEF Request, KeyOf, Key, Id, Session
<1>3. epoch \in Nat /\ session \in Nat /\ session_epoch \in Nat /\ next_owner \in Nat
  BY Assumptions DEF TypeOK, Epoch
<1>4. retry_cache.kind /= "none" => retry_cache.response.about \in Request
  BY <1>1 DEF Cached, Completed
<1>5. QED
  BY <1>1, <1>2, <1>3, <1>4

\* A step that only moves the task, or works outside a request.
LEMMA Steady ==
    ASSUME Ledger, UNCHANGED <<authority, epoch, runs, answered>>,
           (~Working /\ ~Working') \/ UNCHANGED <<pc, work>>
    PROVE  Ledger'
<1>1. Newest' /\ CachesFollow' /\ OneAnswer'
  BY DEF Ledger, Newest, CachesFollow, HelloNamesLiveSession, OneAnswer, authority
<1>2. WorkIsNew'
  BY DEF Ledger, WorkIsNew, Working, authority
<1>3. UsedAreCached'
  BY DEF Ledger, UsedAreCached, Used, Working, authority
<1>4. QED
  BY <1>1, <1>2, <1>3 DEF Ledger

\* Every way to lose the session between requests.
LEMMA Cleared ==
    ASSUME TypeOK, Ledger, ClearAuthority, UNCHANGED <<epoch, runs, answered>>,
           ~Working, ~Working'
    PROVE  Ledger'
<1>1. Newest'
  BY Parts DEF Ledger, Newest, ClearAuthority
<1>2. CachesFollow'
  BY DEF Ledger, CachesFollow, HelloNamesLiveSession, ClearAuthority, NoHello, NoRetry
<1>3. OneAnswer' /\ WorkIsNew'
  BY DEF Ledger, OneAnswer, WorkIsNew
<1>4. UsedAreCached'
  BY DEF Ledger, UsedAreCached, Used, ClearAuthority
<1>5. QED
  BY <1>1, <1>2, <1>3, <1>4 DEF Ledger

\* The first answer to the request at work disputes no other.
LEMMA FirstAnswer ==
    ASSUME OneAnswer, NEW k, NEW r, \A a \in answered : a[1] /= k,
           answered' = answered \cup {<<k, r>>}
    PROVE  OneAnswer'
BY DEF OneAnswer

\* Answering the request at work uses no key of a session yet to come.
LEMMA AnsweredOnly ==
    ASSUME TypeOK, Ledger, Working, NEW r,
           answered' = answered \cup {<<KeyOf(work.request), r>>},
           UNCHANGED <<runs, next_owner>>
    PROVE  \A k \in Key : Used(k)' => k[1] < next_owner'
<1>1. KeyOf(work.request)[1] < next_owner
  BY Parts DEF Ledger, Newest, WorkIsNew, KeyOf
<1>2. QED
  BY <1>1 DEF Ledger, UsedAreCached, Used

\* Every step keeps the ledger: one step per kind of action.
LEMMA LedgerStep == TypeOK /\ Ledger /\ [Next]_vars => Ledger'
<1> SUFFICES ASSUME TypeOK, Ledger, [Next]_vars PROVE Ledger'
  OBVIOUS
<1>1. ASSUME NEW f \in Hello, HelloRetry(f) \/ HelloConflict(f) PROVE Ledger'
  BY <1>1, Steady DEF HelloRetry, HelloConflict, Received, Working, history
<1>2. ASSUME NEW f \in Hello, HelloFresh(f) PROVE Ledger'
  <2>1. next_owner \in Session
    BY <1>2, Assumptions DEF HelloFresh, Session, TypeOK
  <2>2. /\ session' = next_owner /\ session_epoch' = epoch /\ next_owner' = next_owner + 1
        /\ hello_cache'.response.session = next_owner /\ hello_cache'.epoch = epoch
        /\ retry_cache'.kind = "none"
        /\ UNCHANGED <<epoch, runs, answered>> /\ ~Working /\ ~Working'
    BY <1>2 DEF HelloFresh, Received, Write, NoRetry, Working
  <2>3. Newest' /\ CachesFollow'
    BY <2>1, <2>2, Parts, Assumptions DEF Newest, CachesFollow, HelloNamesLiveSession, Session
  <2>4. OneAnswer' /\ WorkIsNew'
    BY <2>2 DEF Ledger, OneAnswer, WorkIsNew
  <2>5. \A k \in Key : Used(k)' => k[1] < next_owner
    BY <2>2 DEF Ledger, UsedAreCached, Used
  <2>6. ASSUME NEW i \in Id PROVE ~Used(<<session, i>>)'
    <3>1. <<next_owner, i>> \in Key /\ ~(next_owner < next_owner)
      BY <2>1, Assumptions DEF Key, Session
    <3>2. ~Used(<<next_owner, i>>) 
      BY <3>1 DEF Ledger, UsedAreCached
    <3>3. QED
      BY <2>2, <3>2 DEF Used
  <2>7. \A k \in Key : Used(k)' => k[1] < next_owner + 1
    BY <2>5, Assumptions DEF Key, Session, TypeOK
  <2>8. UsedAreCached'
    BY <2>2, <2>6, <2>7 DEF UsedAreCached
  <2>9. QED
    BY <2>3, <2>4, <2>8 DEF Ledger
<1>3. ASSUME NEW f \in Hello, HelloExhausted(f) PROVE Ledger'
  <2>1. /\ UNCHANGED <<epoch, runs, answered>> /\ ~Working /\ ~Working'
        /\ ClearAuthority \/ UNCHANGED authority
    BY <1>3 DEF HelloExhausted, Received, Working
  <2>2. QED
    BY <2>1, Steady, Cleared
<1>4. ASSUME NEW f \in Request, TransitionRetry(f) \/ Replay(f) PROVE Ledger'
  <2>1. retry_cache.kind /= "none" /\ KeyOf(retry_cache.response.about) = KeyOf(f)
    BY <1>4
    DEF TransitionRetry, Replay, Proven, New, Current, SameBytes, KeyOf, Ledger, CachesFollow
  <2>2. answered' = answered
    BY <1>4, <2>1 DEF TransitionRetry, Replay, Answered, Ledger, CachesFollow
  <2>3. QED
    BY <1>4, <2>2, Steady DEF TransitionRetry, Replay, Received, Working
<1>5. ASSUME NEW f \in Request, Refuse(f) PROVE Ledger'
  BY <1>5, Steady DEF Refuse, Received, Working, history
<1>6. ASSUME NEW f \in Request, Accept(f) PROVE Ledger'
  <2>1. /\ f.session = session /\ session /= 0 /\ session_epoch = epoch
        /\ work'.request = f /\ work'.epoch = epoch /\ pc' = "perform" /\ ~Working
        /\ UNCHANGED <<epoch, authority, runs, answered>>
    BY <1>6 DEF Accept, Current, Working, history
  <2>2. KeyOf(f) \in Key /\ f.id \in Id /\ KeyOf(f) = <<session, f.id>>
    BY <2>1, Parts DEF Request, KeyOf
  <2>3. retry_cache.kind = "normal" =>
          /\ f.id > retry_cache.response.about.id
          /\ ~(f.id <= retry_cache.response.about.id)
    BY <1>6, <2>1, Parts DEF Accept, New, Ledger, CachesFollow
  <2>4. ~Used(KeyOf(f))
    BY <2>1, <2>2, <2>3 DEF Ledger, UsedAreCached
  <2>5. Newest' /\ CachesFollow' /\ OneAnswer'
    BY <2>1 DEF Ledger, Newest, CachesFollow, HelloNamesLiveSession, OneAnswer, authority
  <2>6. WorkIsNew'
    BY <2>1, <2>3, <2>4 DEF WorkIsNew, Used, authority
  <2>7. UsedAreCached'
    BY <2>1 DEF Ledger, UsedAreCached, Used, authority
  <2>8. QED
    BY <2>5, <2>6, <2>7 DEF Ledger
<1>7. CASE Perform
  <2>1. work \in Work /\ pc = "perform" /\ pc' = "finish" /\ UNCHANGED <<authority, answered>>
    BY <1>7 DEF Perform, TypeOK
  <2>2. PICK o \in Outcome(work.request.command) :
          /\ work' = [work EXCEPT !.outcome = o[1]]
          /\ runs' = [runs EXCEPT ![KeyOf(work.request)] = @ + o[2]]
          /\ IF o[1] = "accepted" THEN epoch < MaxEpoch /\ epoch' = epoch + 1
                                  ELSE UNCHANGED epoch
    BY <1>7 DEF Perform
  <2>3. o[2] \in {0, 1} /\ (o[1] \in {"lost", "invalid"} => o[2] = 0)
    BY <2>1, OutcomeType DEF Work, Request
  <2>4. /\ work'.request = work.request /\ work'.epoch = work.epoch /\ work'.outcome = o[1]
        /\ work.request \in Request
    BY <2>1, <2>2 DEF Work
  <2>5. KeyOf(work.request) \in Key /\ KeyOf(work.request) = <<session, work.request.id>>
    BY <2>1, <2>4, Parts DEF Ledger, WorkIsNew, Working, KeyOf
  <2>6. /\ \A k \in Key : k /= KeyOf(work.request) => runs'[k] = runs[k]
        /\ runs'[KeyOf(work.request)] = runs[KeyOf(work.request)] + o[2]
        /\ runs[KeyOf(work.request)] = 0
    BY <2>1, <2>2, <2>5 DEF TypeOK, Ledger, WorkIsNew, Working
  <2>7. Newest' /\ CachesFollow' /\ OneAnswer'
    BY <2>1, <2>2, Parts
    DEF Ledger, Newest, CachesFollow, HelloNamesLiveSession, OneAnswer, authority
  <2>8. WorkIsNew'
    <3>1. o[1] = "accepted" => session_epoch' /= epoch'
      BY <2>1, <2>2, Parts DEF Ledger, Newest, authority
    <3>2. QED
      BY <2>1, <2>3, <2>4, <2>6, <3>1 DEF Ledger, WorkIsNew, Working, KeyOf, authority
  <2>9. UsedAreCached'
    <3>1. ASSUME NEW k \in Key, Used(k)', k /= KeyOf(work.request) PROVE Used(k)
      BY <2>1, <2>6, <3>1 DEF Used
    <3>2. ASSUME NEW k \in Key, Used(k)' PROVE k[1] < next_owner'
      <4>1. CASE k = KeyOf(work.request)
        BY <2>1, <2>5, <4>1, Parts DEF Ledger, Newest, WorkIsNew, Working, authority
      <4>2. CASE k /= KeyOf(work.request)
        BY <2>1, <3>1, <3>2, <4>2 DEF Ledger, UsedAreCached, authority
      <4>3. QED
        BY <4>1, <4>2
    <3>4. ASSUME NEW i \in Id, session' /= 0, Used(<<session, i>>)',
                 work.request.id /= i
          PROVE  retry_cache.kind = "normal" /\ i <= retry_cache.response.about.id
      <4>1. <<session, i>> \in Key /\ <<session, i>> /= KeyOf(work.request)
        BY <2>1, <2>5, <3>4 DEF Key, Session, TypeOK, authority
      <4>2. Used(<<session, i>>)
        BY <2>1, <3>1, <3>4, <4>1 DEF authority, Used
      <4>3. QED
        BY <2>1, <3>4, <4>2 DEF Ledger, UsedAreCached, Working, authority
    <3>5. QED
      BY <2>1, <2>4, <3>2, <3>4 DEF UsedAreCached, Working, authority
  <2>10. QED
    BY <2>7, <2>8, <2>9 DEF Ledger
<1>8. CASE FinishAccepted
  <2>1. PICK c \in Content : Write(work.request, session, "ok", c)
    BY <1>8 DEF FinishAccepted
  <2>2. /\ Working /\ ~Working' /\ session_epoch /= epoch
        /\ session' = 0 /\ session_epoch' = 0 /\ hello_cache' = NoHello
        /\ retry_cache'.kind = "transition" /\ retry_cache'.response = reply'
        /\ answered' = answered \cup {<<KeyOf(work.request), <<reply'.code, reply'.content>>>>}
        /\ UNCHANGED <<epoch, runs, next_owner>>
    BY <1>8 DEF FinishAccepted, Finished, Answered, Ledger, WorkIsNew, Working
  <2>3. reply'.about = work.request
    BY <2>1 DEF Write
  <2>4. Newest' /\ CachesFollow' /\ WorkIsNew'
    BY <2>2, <2>3, Parts
    DEF Newest, CachesFollow, HelloNamesLiveSession, NoHello, WorkIsNew, KeyOf
  <2>5. OneAnswer'
    BY <2>2, FirstAnswer DEF Ledger, WorkIsNew
  <2>6. UsedAreCached'
    BY <2>2, AnsweredOnly DEF UsedAreCached
  <2>7. QED
    BY <2>4, <2>5, <2>6 DEF Ledger
<1>9. CASE FinishUncached
  <2>1. /\ UNCHANGED <<epoch, authority, runs, answered>> /\ Working /\ ~Working'
        /\ pc = "finish"
    BY <1>9 DEF FinishUncached, Finished, Working, history
  <2>2. Newest' /\ CachesFollow' /\ OneAnswer'
    BY <2>1 DEF Ledger, Newest, CachesFollow, HelloNamesLiveSession, OneAnswer, authority
  <2>3. WorkIsNew'
    BY <2>1 DEF WorkIsNew
  <2>4. session_epoch = epoch => work.outcome \in {"lost", "invalid"}
    BY <1>9, <2>1 DEF FinishUncached, Lost, Ledger, WorkIsNew
  <2>5. session_epoch = epoch => ~Used(KeyOf(work.request))
    BY <2>1, <2>4 DEF Ledger, WorkIsNew, Used
  <2>6. KeyOf(work.request) = <<session, work.request.id>>
    BY <2>1 DEF Ledger, WorkIsNew, KeyOf
  <2>7. UsedAreCached'
    BY <2>1, <2>5, <2>6 DEF Ledger, UsedAreCached, Used, authority
  <2>8. QED
    BY <2>2, <2>3, <2>7 DEF Ledger
<1>10. CASE FinishCached
  <2>1. PICK c \in Content :
          Write(work.request, session, IF work.outcome = "done" THEN "ok" ELSE "failed", c)
    BY <1>10 DEF FinishCached
  <2>2. /\ Working /\ ~Working'
        /\ retry_cache'.kind = "normal" /\ retry_cache'.response = reply'
        /\ retry_cache'.epoch = work.epoch
        /\ answered' = answered \cup {<<KeyOf(work.request), <<reply'.code, reply'.content>>>>}
        /\ UNCHANGED <<epoch, session, session_epoch, next_owner, hello_cache, runs>>
    BY <1>10 DEF FinishCached, Finished, Answered, Working
  <2>3. /\ reply'.about = work.request /\ work.request.session = session /\ session /= 0
        /\ work.epoch = session_epoch /\ work.request \in Request
    BY <2>1, <2>2 DEF Write, Ledger, WorkIsNew
  <2>4. Newest' /\ CachesFollow' /\ WorkIsNew'
    BY <2>2, <2>3
    DEF Ledger, Newest, CachesFollow, HelloNamesLiveSession, WorkIsNew, KeyOf
  <2>5. OneAnswer'
    BY <2>2, FirstAnswer DEF Ledger, WorkIsNew
  <2>6. ASSUME NEW i \in Id, session_epoch = epoch, Used(<<session, i>>)'
        PROVE  i <= work.request.id
    <3>1. work.request.id \in Nat /\ i \in Nat
      BY <2>3, Parts, Assumptions DEF Id
    <3>2. CASE i = work.request.id
      BY <3>1, <3>2
    <3>3. CASE i /= work.request.id
      <4>1. <<session, i>> /= KeyOf(work.request)
        BY <3>3 DEF KeyOf
      <4>2. Used(<<session, i>>)
        BY <2>2, <2>6, <4>1 DEF Used
      <4>3. retry_cache.kind = "normal" /\ i <= retry_cache.response.about.id
        BY <2>3, <2>6, <3>3, <4>2 DEF Ledger, UsedAreCached
      <4>4. work.request.id > retry_cache.response.about.id
        BY <2>2, <4>3 DEF Ledger, WorkIsNew
      <4>5. QED
        BY <3>1, <4>3, <4>4, Parts
    <3>4. QED
      BY <3>2, <3>3
  <2>7. UsedAreCached'
    BY <2>2, <2>3, <2>6, AnsweredOnly DEF UsedAreCached
  <2>8. QED
    BY <2>4, <2>5, <2>7 DEF Ledger
<1>11. CASE ServiceLifecycle \/ ServiceFailure \/ ServiceNothing
  <2>1. /\ UNCHANGED <<epoch, runs, answered>> /\ ~Working /\ ~Working'
        /\ ClearAuthority \/ UNCHANGED authority
    BY <1>11 DEF ServiceLifecycle, ServiceFailure, ServiceNothing, Serviced, Working
  <2>2. QED
    BY <2>1, Steady, Cleared
<1>12. CASE Lease
  <2>1. /\ UNCHANGED <<epoch, runs, answered>> /\ ~Working /\ ~Working'
        /\ ClearAuthority \/ UNCHANGED authority
    BY <1>12 DEF Lease, Working
  <2>2. QED
    BY <2>1, Steady, Cleared
<1>13. CASE Idle
  BY <1>13, Steady DEF Idle, Working, history
<1>14. CASE Lifecycle
  <2>1. epoch' = epoch + 1 /\ UNCHANGED <<authority, pc, work, runs, answered>>
    BY <1>14 DEF Lifecycle, history
  <2>2. session_epoch' /= epoch' /\ Newest'
    BY <2>1, Parts DEF Ledger, Newest, authority
  <2>3. CachesFollow' /\ OneAnswer'
    BY <2>1 DEF Ledger, CachesFollow, HelloNamesLiveSession, OneAnswer, authority
  <2>4. WorkIsNew'
    BY <2>1, <2>2 DEF Ledger, WorkIsNew, Working, authority
  <2>5. UsedAreCached'
    BY <2>1, <2>2 DEF Ledger, UsedAreCached, Used, Working, authority
  <2>6. QED
    BY <2>2, <2>3, <2>4, <2>5 DEF Ledger
<1>15. CASE Notify
  BY <1>15, Steady DEF Notify, history
<1>16. ASSUME NEW o \in 0 .. next_owner - 1, ReportFailed(o) PROVE Ledger'
  BY <1>16, Steady DEF ReportFailed
<1>17. CASE UNCHANGED vars
  BY <1>17, Steady DEF vars, history
<1>18. QED
  BY <1>1, <1>2, <1>3, <1>4, <1>5, <1>6, <1>7, <1>8, <1>9, <1>10, <1>11, <1>12, <1>13,
     <1>14, <1>15, <1>16, <1>17
  DEF Next, Task, Service, Receive, Greet, Inspect, Finish, Callback

(* What the device promises about requests holds in every reachable state: *)
(* the newest request, the caches, the answers and the work agree.         *)
THEOREM PromiseCorrect == Spec => []Promise
<1>1. Init => Ledger
  BY Assumptions DEF Init, Ledger, Newest, CachesFollow, HelloNamesLiveSession, OneAnswer,
     WorkIsNew, Working, UsedAreCached, Used, NoHello, NoRetry
<1>2. TypeOK /\ Ledger /\ [Next]_vars => Ledger'
  BY LedgerStep
<1>3. QED
  BY <1>1, <1>2, TypeCorrect, PTL DEF Spec, Promise

\* A hello retry cannot resurrect authority, for any number of sessions.
THEOREM HelloCacheCorrect == Spec => []HelloNamesLiveSession
<1>1. Promise => HelloNamesLiveSession
  BY DEF Promise, Ledger, CachesFollow
<1>2. QED
  BY <1>1, PromiseCorrect, PTL

\* What is of an older epoch is so together with the session.
LEMMA OutdatedSession ==
    ASSUME Ledger, Outdated
    PROVE  session_epoch /= epoch /\ session /= 0
BY DEF Ledger, CachesFollow, HelloNamesLiveSession, Outdated

\* At most once, and one answer: each step of the device is a step of
\* RequestOnce or leaves its variables alone.
THEOREM PerformedOnceCorrect == Spec => PerformedOnce
<1>1. Init => Once!Init
  BY DEF Init, Once!Init
<1>2. Promise /\ [Next]_vars => [Once!Next]_(Once!vars)
  <2> SUFFICES ASSUME Promise, [Next]_vars, ~(UNCHANGED <<runs, answered>>)
               PROVE  Once!Next
    BY DEF Once!vars
  <2>1. CASE Perform
    <3>1. work \in Work
      BY <2>1 DEF Perform, Promise, TypeOK
    <3>2. PICK o \in Outcome(work.request.command) :
            runs' = [runs EXCEPT ![KeyOf(work.request)] = @ + o[2]]
      BY <2>1 DEF Perform
    <3>3. KeyOf(work.request) \in Key
      BY <3>1, Parts DEF Work, Promise
    <3>4. o[2] \in {0, 1}
      BY <3>1, OutcomeType DEF Work, Request
    <3>5. runs[KeyOf(work.request)] = 0
      BY <2>1 DEF Perform, Promise, Ledger, WorkIsNew, Working
    <3>6. answered' = answered /\ o[2] /= 0
      BY <2>1, <3>2, <3>3, <3>4, <3>5 DEF Perform, Promise, TypeOK
    <3>7. Once!Perform(KeyOf(work.request))
      <4>1. o[2] = 1 /\ runs[KeyOf(work.request)] + o[2] = 1
        BY <3>4, <3>5, <3>6
      <4>2. runs' = [runs EXCEPT ![KeyOf(work.request)] = 1]
        BY <3>2, <3>3, <4>1 DEF Promise, TypeOK
      <4>3. QED
        BY <3>5, <3>6, <4>2 DEF Once!Perform
    <3>8. QED
      BY <3>3, <3>7 DEF Once!Next
  <2>2. ASSUME NEW f \in Request, TransitionRetry(f) \/ Replay(f) PROVE FALSE
    <3>1. retry_cache.kind /= "none" /\ KeyOf(retry_cache.response.about) = KeyOf(f)
      BY <2>2
      DEF TransitionRetry, Replay, Proven, New, Current, SameBytes, KeyOf, Promise, Ledger,
          CachesFollow
    <3>2. QED
      BY <2>2, <3>1 DEF TransitionRetry, Replay, Answered, Promise, Ledger, CachesFollow
  <2>3. CASE FinishAccepted \/ FinishCached
    <3>1. work \in Work /\ Working
      BY <2>3 DEF FinishAccepted, FinishCached, Finished, Working, Promise, TypeOK
    <3>2. PICK c \in Content, code \in {"ok", "failed"} : Write(work.request, session, code, c)
      BY <2>3 DEF FinishAccepted, FinishCached
    <3>3. /\ answered' = answered \cup {<<KeyOf(work.request), <<code, c>>>>}
          /\ runs' = runs
      BY <2>3, <3>2 DEF FinishAccepted, FinishCached, Answered, Write
    <3>4. KeyOf(work.request) \in Key /\ <<code, c>> \in Answer
      BY <3>1, Parts DEF Work, Promise, Answer
    <3>5. \A a \in answered : a[1] /= KeyOf(work.request)
      BY <3>1 DEF Promise, Ledger, WorkIsNew
    <3>6. Once!Answer(KeyOf(work.request), <<code, c>>)
      BY <3>3, <3>5 DEF Once!Answer
    <3>7. QED
      BY <3>4, <3>6 DEF Once!Next
  <2>4. QED
    BY <2>1, <2>2, <2>3
    DEF Next, Task, Service, Receive, Greet, Inspect, Finish, Callback, HelloRetry,
        HelloConflict, HelloFresh, HelloExhausted, Refuse, Accept, FinishUncached,
        ServiceLifecycle, ServiceFailure, ServiceNothing, Serviced, Lease, Idle, Lifecycle,
        Notify, ReportFailed, vars, history
<1>3. QED
  BY <1>1, <1>2, PromiseCorrect, PTL DEF Spec, PerformedOnce, Once!Spec

\* Takeover, lease expiry, an accepted transition, a lifecycle event and a
\* failed delivery each tell the sequence engine whose session they end.
THEOREM OwnersToldCorrect == Spec => []OwnersTold
<1>1. Init => OwnersTold
  BY DEF Init, OwnersTold
<1>2. Promise /\ OwnersTold /\ [Next]_vars => OwnersTold'
  <2> SUFFICES ASSUME Promise, OwnersTold, [Next]_vars PROVE OwnersTold'
    OBVIOUS
  <2>1. ASSUME NEW f \in Hello, HelloFresh(f) PROVE OwnersTold'
    BY <2>1, Parts DEF HelloFresh, Retire, OwnersTold, Promise
  <2>2. ASSUME Retire, UNCHANGED next_owner PROVE OwnersTold'
    BY <2>2 DEF Retire, OwnersTold
  <2>3. ASSUME NEW f \in Hello, HelloExhausted(f) PROVE OwnersTold'
    BY <2>2, <2>3 DEF HelloExhausted, ClearAuthority, authority
  <2>4. CASE FinishAccepted
    BY <2>2, <2>4 DEF FinishAccepted
  <2>5. CASE ServiceLifecycle
    <3>1. CASE Outdated
      BY <2>5, <3>1, OutdatedSession
      DEF ServiceLifecycle, Serviced, OwnersTold, Promise, ClearAuthority
    <3>2. CASE ~Outdated
      BY <2>5, <3>2 DEF ServiceLifecycle, Serviced, OwnersTold, authority
    <3>3. QED
      BY <3>1, <3>2
  <2>6. CASE ServiceFailure
    BY <2>6 DEF ServiceFailure, Serviced, OwnersTold, ClearAuthority, authority
  <2>7. CASE Lease
    <3>1. CASE Retire /\ ClearAuthority
      BY <2>2, <3>1 DEF ClearAuthority
    <3>2. CASE UNCHANGED <<authority, retired>>
      BY <3>2 DEF OwnersTold, authority
    <3>3. QED
      BY <2>7, <3>1, <3>2 DEF Lease
  <2>8. ASSUME UNCHANGED <<session, next_owner, retired>> PROVE OwnersTold'
    BY <2>8 DEF OwnersTold
  <2>9. QED
    BY <2>1, <2>3, <2>4, <2>5, <2>6, <2>7, <2>8
    DEF Next, Task, Service, Receive, Greet, Inspect, Finish, Callback, HelloRetry,
        HelloConflict, TransitionRetry, Refuse, Replay, Accept, Perform, FinishUncached,
        FinishCached, ServiceNothing, Idle, Lifecycle, Notify, ReportFailed, vars,
        authority, history
<1>3. QED
  BY <1>1, <1>2, PromiseCorrect, PTL DEF Spec

\* Neither a late failure nor a coalesced lifecycle notification revokes a
\* session it is not about.
THEOREM NoStrayRevocationCorrect == Spec => NoStrayRevocation
<1> DEFINE Cause == session' /= session /\ pc \in {"service", "again"}
                      => session_epoch /= epoch \/ FailedDelivery(session)
<1>1. Promise /\ [Next]_vars => Cause
  <2> SUFFICES ASSUME Promise, [Next]_vars, session' /= session, pc \in {"service", "again"}
               PROVE  session_epoch /= epoch \/ FailedDelivery(session)
    OBVIOUS
  <2>1. CASE ServiceLifecycle
    BY <2>1, OutdatedSession DEF ServiceLifecycle, Promise, authority
  <2>2. CASE ServiceFailure
    <3>1. failure.pending /\ session = failure.owner
      BY <2>2 DEF ServiceFailure, authority
    <3>2. failure \in [pending : BOOLEAN, owner : 0 .. MaxSession]
      BY DEF Promise, TypeOK
    <3>3. failure = [pending |-> TRUE, owner |-> session]
      BY <3>1, <3>2
    <3>4. QED
      BY <3>3 DEF FailedDelivery
  <2>3. QED
    BY <2>1, <2>2
    DEF Next, Task, Service, Receive, Greet, Inspect, Finish, Callback, HelloRetry,
        HelloConflict, HelloFresh, HelloExhausted, Received, TransitionRetry, Refuse, Replay,
        Accept, Perform, FinishAccepted, FinishUncached, FinishCached, Finished,
        ServiceNothing, Lease, Idle, Lifecycle, Notify, ReportFailed, vars, authority, history
<1>2. QED
  BY <1>1, PromiseCorrect, PTL DEF Spec, NoStrayRevocation

\* Remembering one completed request per session is enough for the order: a
\* later request that ran would be the completed one, or of a later session.
THEOREM PerformedInOrderCorrect == Spec => PerformedInOrder
<1> DEFINE InOrder ==
      \A k \in Key : runs'[k] /= runs[k] => \A l \in Key : Later(l, k) => runs[l] = 0
<1>1. Promise /\ [Next]_vars => InOrder
  <2> SUFFICES ASSUME Promise, [Next]_vars,
                      NEW k \in Key, runs'[k] /= runs[k], NEW l \in Key, Later(l, k)
               PROVE  runs[l] = 0
    OBVIOUS
  <2>1. Perform
    BY DEF Next, Task, Service, Receive, Greet, Inspect, Finish, Callback, HelloRetry,
       HelloConflict, HelloFresh, HelloExhausted, TransitionRetry, Refuse, Replay, Accept,
       FinishAccepted, FinishUncached, FinishCached, ServiceLifecycle, ServiceFailure,
       ServiceNothing, Serviced, Lease, Idle, Lifecycle, Notify, ReportFailed, vars, history
  <2>2. /\ work \in Work /\ pc = "perform" /\ work.request \in Request
    BY <2>1 DEF Perform, Promise, TypeOK, Work
  <2>3. k = KeyOf(work.request)
    BY <2>1, <2>2 DEF Perform, Promise, TypeOK
  <2>4. /\ k = <<session, work.request.id>> /\ session /= 0 /\ session = next_owner - 1
        /\ retry_cache.kind = "normal" => work.request.id > retry_cache.response.about.id
    BY <2>2, <2>3 DEF Promise, Ledger, Newest, WorkIsNew, Working, KeyOf
  <2>5. /\ l[1] \in Nat /\ l[2] \in Nat /\ l[2] \in Id /\ l = <<l[1], l[2]>>
        /\ work.request.id \in Nat
    BY <2>2, Assumptions DEF Key, Session, Id, Request
  <2>6. CASE l[1] > session
    BY <2>4, <2>5, <2>6, Parts DEF Promise, Ledger, UsedAreCached, Used
  <2>7. CASE l[1] = session /\ l[2] > work.request.id
    <3>1. SUFFICES ASSUME runs[l] /= 0 PROVE FALSE
      OBVIOUS
    <3>2. Used(<<session, l[2]>>) /\ work.request.id /= l[2]
      BY <2>5, <2>7, <3>1 DEF Used
    <3>3. retry_cache.kind = "normal" /\ l[2] <= retry_cache.response.about.id
      BY <2>2, <2>4, <2>5, <3>2 DEF Promise, Ledger, UsedAreCached, Working
    <3>4. QED
      BY <2>4, <2>5, <2>7, <3>3, Parts DEF Promise
  <2>8. QED
    BY <2>4, <2>6, <2>7 DEF Later
<1>2. QED
  BY <1>1, PromiseCorrect, PTL DEF Spec, PerformedInOrder
=============================================================================
