------------------------------ MODULE HidRuntime ------------------------------
(***************************************************************************)
(* The USB half of the HID runtime (hid_runtime.cpp): how a report travels *)
(* from a producer to the host, and how the firmware remembers that the    *)
(* host may still hold a key.                                              *)
(*                                                                         *)
(* Four contexts share it.  "control" is the UART task: it produces        *)
(* keyboard and mouse reports, asks for release-all, and accepts attach,   *)
(* detach and route changes.  "sequence" is the sequence task, a second    *)
(* producer.  "usb" is the TinyUSB task: one pass per start-of-frame, and  *)
(* the bus callbacks, one after the other.  "executor" runs the bounded    *)
(* waits for an all-up, tears the driver down and reports a stalled link.  *)
(* Sections under a metadata lock are one step; everything else that       *)
(* another context can come between is a step of its own.                  *)
(*                                                                         *)
(* A report is abstracted to whether it leaves something held.  The        *)
(* lifecycle word and the route are reduced to what the runtime reads of   *)
(* them (UsbExposure and HidRoute model how they move); the BLE half and   *)
(* the diagnostic mailbox producer of the boot button are left out.        *)
(***************************************************************************)
EXTENDS Naturals, FiniteSets

CONSTANT Instances  \* what one behaviour may do: its operations and its bounds

Possible == {"report", "mouse", "sequence", "request", "releaseAll", "detach",
             "route", "suspend", "unplug", "stall", "fail"}

ASSUME InstancesAssumption ==
  /\ IsFiniteSet(Instances)
  /\ \A n \in Instances :
       /\ n.can \subseteq Possible
       /\ {n.reports, n.sequences, n.cuts, n.requests} \subseteq Nat

Interfaces == {"keyboard", "mouse"}
Producers  == {"control", "sequence"}
Tasks      == Producers \union {"usb", "executor"}
None       == [kind |-> "none"]

VARIABLES
  inst,     \* the instance of this behaviour
  link,     \* usb_lifecycle word: exposure, generation, release bits
  bits,     \* status_bits_: mounted, suspended, ready endpoints
  route,    \* the USB route and its generation
  auth,     \* authority_epoch_
  rel,      \* release_epoch_
  seq,      \* sequence_generation_, 0 when no sequence is admitted
  req,      \* release_requested_ and the identity published before it
  iface,    \* per interface: slot, flags, confirmed report, report in flight
  ticket,   \* per interface: the public report ticket
  release,  \* the release-all transaction
  pc, loc,  \* where each task is and what it read; pc.queue: the executor's action
  wire,     \* per interface: the report the controller holds for the host
  host,     \* per interface: whether the host sees something held
  next,     \* next public ticket id, next sequence generation
  sent,     \* ids of the reports the controller accepted
  answer    \* per id: what its producer was told

shared == <<link, bits, route, auth, rel, seq, req, iface, ticket, release>>
env == <<wire, host, next, sent, answer>>
vars == <<shared, pc, loc, env, inst>>

-----------------------------------------------------------------------------
(* What the code reads.                                                    *)

Active       == {"writing", "published", "claimed"}
Terminal     == {"submitted", "notReady", "canceled"}
Outcomes     == {"none", "authorityLost", "safetyPending", "busy", "notReady"}
FreeTicket   == [st |-> "free", id |-> 0, out |-> "none", held |-> FALSE,
                 cut |-> <<>>, rel |-> 0, seq |-> 0]

\* The identity every piece of unsafe work carries.
Cut == <<link.gen, auth, route.gen>>

Routed(gen)  == route.on = "usb" /\ route.gen = gen
RoutedNow    == Routed(route.gen)
Unresolved   == link.unc /\ link.uncGen # link.gen
MountedAndActive(i) ==
  /\ ~Unresolved
  /\ link.at = "mounted"
  /\ bits.mounted /\ ~bits.suspended /\ i \in bits.ready
SafetyTransport(i) ==
  /\ bits.mounted /\ ~bits.suspended /\ i \in bits.ready
  /\ link.at \in {"mounted", "detaching"}
AnySafety    == \E i \in Interfaces : iface[i].safety
ReleaseActive == release.st \in {"admitting", "open", "failed"}
Blocked      == ReleaseActive \/ req.on \/ AnySafety
SeqActive    == seq # 0
\* Mutant: an admitted sequence stops nobody but other sequences.
SeqConflictOfOwn(mine) == mine # 0 /\ seq # mine
SeqConflict(mine) == IF mine = 0 THEN SeqActive ELSE seq # mine
WorkCurrent(i, k) ==
  k.cut = Cut /\ k.rel = rel /\ ~SeqConflict(k.seq) /\ RoutedNow /\ MountedAndActive(i)

\* known_all_up reads the ticket first, then the flags of the interface.
FlagsUp(i) ==
  /\ ~iface[i].held /\ iface[i].flight = None /\ ~iface[i].safety /\ ~iface[i].unc
  /\ iface[i].slot \notin {"ready", "executing"}
KnownAllUp(i) == ticket[i].st \notin Active /\ FlagsUp(i)

SafetyClean == \A i \in Interfaces :
                 ~iface[i].safety /\ iface[i].flight = None /\ ~iface[i].unc
UnavailableClean ==
  /\ link.at \in {"hidden", "disconnected"} /\ ~link.unc
  /\ ~bits.mounted /\ ~bits.suspended
  /\ \A i \in Interfaces : KnownAllUp(i)
RequestIs(gen, a, r) == req.gen = gen /\ req.auth = a /\ req.rel = r

-----------------------------------------------------------------------------
(* Pieces of handlers that several of them share.                          *)

At(k, from, to) == pc[k] = from /\ pc' = [pc EXCEPT ![k] = to]
Keep(k, v)      == loc' = [loc EXCEPT ![k] = v]
NoSequence      == [seq |-> 0, auth |-> 0, rel |-> 0, route |-> 0]
NoLocals        == [ret |-> "idle", i |-> "keyboard", k |-> FreeTicket, ok |-> FALSE,
                    cut |-> <<>>, rq |-> 0, s |-> NoSequence]

Canceled(k, out) ==
  CASE k.st = "writing"   -> [k EXCEPT !.st = "writingCanceled", !.out = out]
    [] k.st = "published" -> [k EXCEPT !.st = "canceled", !.out = out]
    [] OTHER              -> k
CancelTickets(out) == ticket' = [i \in Interfaces |-> Canceled(ticket[i], out)]
CancelRelease ==
  release' = IF release.st \in {"admitting", "open"}
             THEN [release EXCEPT !.st = "canceled"] ELSE release
CancelWork == CancelRelease /\ CancelTickets("authorityLost")
RetireAuthority == CancelWork /\ auth' = auth + 1 /\ rel' = rel + 1

InvalidateRoute ==
  route' = IF route.on = "none" THEN route ELSE [route EXCEPT !.on = "none"]
NoRequest == req' = [on |-> FALSE, gen |-> 0, auth |-> 0, rel |-> 0]
Confirm(l)   == [l EXCEPT !.pend = FALSE, !.unc = FALSE, !.uncGen = 0]
Doubt(l, g)  == [l EXCEPT !.pend = TRUE, !.unc = TRUE, !.uncGen = g]
Cleared      == [slot |-> "empty", flight |-> None, safety |-> FALSE, unc |-> FALSE,
                 held |-> FALSE, conf |-> FALSE]
\* Mutant: a release that is still in flight leaves no doubt.
DoubtfulUnlessFlying(f) == f.held \/ f.unc
Doubtful(f)  == f.held \/ f.flight # None \/ f.unc

\* preserve_suspend_safety.
Preserved(f) ==
  [f EXCEPT !.safety = @ \/ Doubtful(f),
            !.unc    = @ \/ f.flight # None,
            !.flight = None,
            !.slot   = IF @ = "ready" THEN "canceled" ELSE @]
\* What Stage A of a detach leaves on an interface; a route release goes by
\* known_all_up as well.
Staged(f, doubt) ==
  [f EXCEPT !.safety = @ \/ doubt, !.unc = @ \/ doubt, !.flight = None,
            !.slot = IF @ = "ready" THEN "canceled" ELSE @]
\* Mutant: the report in flight is dropped without a debt.
NeverSafeForgotten(f) == [f EXCEPT !.flight = None, !.slot = "empty"]
NeverSafe(f) == [f EXCEPT !.safety = TRUE, !.unc = TRUE, !.flight = None, !.slot = "empty"]

\* note_usb_release_outcome: only of the transaction the report was made for.
NoteOutcome(i, k, out) ==
  release' = IF k.rid # 0 /\ release.id = k.rid /\ release.st \in {"admitting", "open"}
                /\ release.cut = <<k.cut[1], k.cut[2]>> /\ release.rel = k.rel
             THEN IF out = "pending"
                  THEN [release EXCEPT !.out[i] = "pending", !.st = "failed"]
                  ELSE IF release.out[i] = "unresolved"
                       THEN [release EXCEPT !.out[i] = out] ELSE release
             ELSE release

-----------------------------------------------------------------------------
(* request_release_all: an identity, a barrier, and the flag that commits  *)
(* both.  Any task may be inside it; loc says where it goes on.            *)

ReleaseIdentity(k) ==
  /\ At(k, "identity", "barrier")
  /\ seq' = 0
  /\ req' = [req EXCEPT !.gen = link.gen, !.auth = auth]
  /\ UNCHANGED <<link, bits, route, auth, rel, iface, ticket, release,
                 loc, env>>

ReleaseBarrier(k) ==
  /\ At(k, "barrier", "flag")
  /\ release' = IF release.st \in {"admitting", "open"}
                THEN [release EXCEPT !.st = "failed"] ELSE release
  /\ rel' = rel + 1
  /\ req' = [req EXCEPT !.rel = rel + 1]
  /\ CancelTickets("safetyPending")
  /\ link' = [link EXCEPT !.pend = TRUE]
  /\ UNCHANGED <<bits, route, auth, seq, iface, loc, env>>

ReleaseFlag(k) ==
  /\ At(k, "flag", "unavailable")
  /\ req' = [req EXCEPT !.on = TRUE]
  /\ UNCHANGED <<link, bits, route, auth, rel, seq, iface, ticket, release,
                 loc, env>>

\* With no bus to send an all-up on and nothing to release, the request is
\* settled where it was made.
ReleaseUnavailable(k) ==
  /\ At(k, "unavailable", loc[k].ret)
  /\ IF req.on /\ UnavailableClean /\ RequestIs(link.gen, auth, rel)
     THEN /\ req' = [req EXCEPT !.on = FALSE]
          /\ link' = [link EXCEPT !.pend = FALSE]
     ELSE UNCHANGED <<req, link>>
  /\ UNCHANGED <<bits, route, auth, rel, seq, iface, ticket, release,
                 loc, env>>

RequestReleaseAll(k) == /\ ReleaseIdentity(k) \/ ReleaseBarrier(k)
                           \/ ReleaseFlag(k) \/ ReleaseUnavailable(k)

-----------------------------------------------------------------------------
(* Producers: begin_keyboard_report, begin_mouse_report and their waiters. *)

SequenceCurrent(s) ==
  /\ seq = s.seq /\ s.seq # 0 /\ auth = s.auth /\ rel = s.rel
  /\ ~Blocked /\ Routed(s.route)

\* The checks before a ticket is taken.  A refusal here changes nothing.
MayBegin(i, mine) ==
  /\ ~SeqConflict(mine)
  /\ ticket[i].st \in Terminal \union {"free"}
  /\ route.on = "usb" /\ bits.mounted /\ ~bits.suspended /\ i \in bits.ready
  /\ ~Blocked
  /\ iface[i].flight = None /\ iface[i].slot = "empty"

\* A report that would hold what the host already holds is not sent.
AlreadySet(i, held) == held /\ iface[i].conf /\ ~iface[i].unc /\ ~iface[i].safety

Begin(p, i, held) ==
  LET mine == IF p = "sequence" THEN loc.sequence.s.seq ELSE 0
      k == [st |-> "writing", id |-> next.id, out |-> "none", held |-> held,
            cut |-> Cut, rel |-> rel, seq |-> mine] IN
  /\ pc[p] = "idle" /\ next.id <= inst.reports
  /\ p = "sequence" => SequenceCurrent(loc.sequence.s)
  /\ MayBegin(i, mine) /\ ~AlreadySet(i, held)
  /\ ticket' = [ticket EXCEPT ![i] = k]
  /\ next' = [next EXCEPT !.id = @ + 1]
  /\ pc' = [pc EXCEPT ![p] = "fence"]
  /\ Keep(p, [loc[p] EXCEPT !.k = k, !.i = i])
  /\ UNCHANGED <<link, bits, route, auth, rel, seq, req, iface, release,
                 wire, host, sent, answer>>

\* The final fence, read without the lock.
Fence(p) ==
  LET i == loc[p].i IN
  /\ At(p, "fence", "publish")
  /\ Keep(p, [loc[p] EXCEPT !.ok = /\ WorkCurrent(i, loc[p].k) /\ ~Blocked
                                   /\ iface[i].flight = None /\ iface[i].slot = "empty"])
  /\ UNCHANGED <<shared, env>>

LostSince(k) == k.cut[2] # auth \/ ~Routed(k.cut[3])
FenceOutcome(k) ==
  CASE SeqConflict(k.seq) -> IF k.seq = 0 THEN "busy" ELSE "authorityLost"
    [] LostSince(k)       -> "authorityLost"
    [] Blocked            -> "safetyPending"
    [] OTHER              -> "notReady"

\* Under the ticket's lock: a cancellation that came first wins.
Publish(p) ==
  LET i == loc[p].i  k == ticket[i]
      out == IF k.st = "writingCanceled"
             THEN IF LostSince(k) THEN "authorityLost" ELSE k.out
             ELSE FenceOutcome(k) IN
  /\ pc[p] = "publish"
  /\ IF k.st = "writing" /\ loc[p].ok
     THEN /\ pc' = [pc EXCEPT ![p] = "wait"]
          /\ ticket' = [ticket EXCEPT ![i].st = "published"]
          /\ UNCHANGED answer
     ELSE /\ pc' = [pc EXCEPT ![p] = "idle"]
          /\ ticket' = [ticket EXCEPT ![i].st = "canceled", ![i].out = out]
          /\ answer' = [answer EXCEPT ![k.id] = out]
  /\ UNCHANGED <<link, bits, route, auth, rel, seq, req, iface, release, loc,
                 wire, host, next, sent>>

Answer(p, out) ==
  /\ pc' = [pc EXCEPT ![p] = "idle"]
  /\ Keep(p, [NoLocals EXCEPT !.s = loc[p].s])
  /\ answer' = [answer EXCEPT ![loc[p].k.id] = out]
  /\ UNCHANGED <<link, bits, route, auth, rel, seq, req, iface, release,
                 wire, host, next, sent>>

\* The ticket is this producer's and terminal: take the result, free the slot.
WaitTerminal(p) ==
  LET i == loc[p].i  k == ticket[i] IN
  /\ pc[p] = "wait" /\ k.id = loc[p].k.id /\ k.st \in Terminal
  /\ ticket' = [ticket EXCEPT ![i] = [FreeTicket EXCEPT !.id = k.id]]
  /\ Answer(p, IF k.st = "submitted" THEN "submitted" ELSE k.out)

\* Mutant: the cancellation does not look whether the ticket was claimed.
WaitTimeoutClaimed(p) ==
  LET i == loc[p].i  k == ticket[i] IN
  /\ pc[p] = "wait" /\ k.id = loc[p].k.id /\ k.st \in {"published", "claimed"}
  /\ ticket' = [ticket EXCEPT ![i] = [FreeTicket EXCEPT !.id = k.id]]
  /\ Answer(p, "notReady")

\* 100 ms passed and nobody has claimed the ticket: canceling it wins.
WaitTimeout(p) ==
  LET i == loc[p].i  k == ticket[i] IN
  /\ pc[p] = "wait" /\ k.id = loc[p].k.id /\ k.st = "published"
  /\ ticket' = [ticket EXCEPT ![i] = [FreeTicket EXCEPT !.id = k.id]]
  /\ Answer(p, "notReady")

\* 100 ms passed while the TinyUSB task holds the ticket.
WaitClaimed(p) ==
  LET k == ticket[loc[p].i] IN
  /\ pc[p] = "wait" /\ k.id = loc[p].k.id /\ k.st = "claimed"
  /\ Answer(p, "notReadyClaimed")
  /\ UNCHANGED ticket

\* The slot went to another producer: the result is out of reach.
WaitReplaced(p) ==
  /\ pc[p] = "wait" /\ ticket[loc[p].i].id # loc[p].k.id
  /\ Answer(p, "unknown")
  /\ UNCHANGED ticket

Wait(p) == WaitTerminal(p) \/ WaitTimeout(p) \/ WaitClaimed(p) \/ WaitReplaced(p)

-----------------------------------------------------------------------------
(* Sequences: admission runs in the control task, the reports are begun by *)
(* the sequence task under the authority it was given.                     *)

BothReady == /\ route.on = "usb" /\ bits.mounted /\ ~bits.suspended
             /\ bits.ready = Interfaces
Quiet == /\ ~Blocked
         /\ \A i \in Interfaces : /\ ~iface[i].unc /\ iface[i].flight = None
                                  /\ iface[i].slot = "empty"

\* The exchange comes first: no ordinary report begins behind the checks.
SequenceClaim ==
  /\ "sequence" \in inst.can /\ At("control", "idle", "sequenceAdmit")
  /\ seq = 0 /\ loc.sequence.s = NoSequence /\ next.seq <= inst.sequences
  /\ seq' = next.seq
  /\ next' = [next EXCEPT !.seq = @ + 1]
  /\ Keep("control", [loc.control EXCEPT !.rq = seq', !.cut = Cut])
  /\ UNCHANGED <<link, bits, route, auth, rel, req, iface, ticket, release,
                 wire, host, sent, answer>>

SequenceAdmit ==
  LET mine == loc.control.rq
      s == [seq |-> mine, auth |-> auth, rel |-> rel, route |-> route.gen]
      granted == /\ BothReady /\ Quiet /\ seq = mine /\ loc.control.cut = Cut
                 /\ \A i \in Interfaces :
                      ticket[i].st \notin Active \union {"writingCanceled"} IN
  /\ At("control", "sequenceAdmit", "idle")
  /\ seq' = IF ~granted /\ seq = mine THEN 0 ELSE seq
  /\ loc' = [loc EXCEPT !.control = NoLocals,
                        !.sequence.s = IF granted THEN s ELSE NoSequence]
  /\ UNCHANGED <<link, bits, route, auth, rel, req, iface, ticket, release,
                 env>>

EndSequence ==
  /\ pc.sequence = "idle" /\ loc.sequence.s # NoSequence
  /\ seq' = IF seq = loc.sequence.s.seq THEN 0 ELSE seq
  /\ Keep("sequence", NoLocals)
  /\ UNCHANGED <<link, bits, route, auth, rel, req, iface, ticket, release, pc,
                 env>>

-----------------------------------------------------------------------------
(* The rest of the control task.                                           *)

\* A lease expires, a session is taken over or a safety failure is deferred.
RequestRelease ==
  /\ "request" \in inst.can /\ rel < inst.requests
  /\ At("control", "idle", "identity")
  /\ UNCHANGED <<shared, loc, env>>

PublicRelease ==
  /\ "releaseAll" \in inst.can /\ rel < inst.requests /\ ~ReleaseActive
  /\ At("control", "idle", "identity")
  /\ Keep("control", [NoLocals EXCEPT !.ret = "admit"])
  /\ UNCHANGED <<shared, env>>

\* begin_release_all: the transaction takes the request's own epoch.
ReleaseAdmit ==
  /\ At("control", "admit", "scanTicket")
  /\ release' = [st |-> "admitting", id |-> release.id + 1, cut |-> <<link.gen, auth>>,
                 rel |-> req.rel, out |-> [i \in Interfaces |-> "unresolved"]]
  /\ Keep("control", NoLocals)
  /\ UNCHANGED <<link, bits, route, auth, rel, seq, req, iface, ticket,
                 env>>

\* Mutant: only the flags are looked at.
ScanTicketBlind ==
  /\ At("control", "scanTicket", "scanFlags")
  /\ Keep("control", [loc.control EXCEPT !.ok = TRUE])
  /\ UNCHANGED <<shared, env>>
\* known_all_up reads the ticket, then the flags; reports move in between.
ScanTicket ==
  /\ At("control", "scanTicket", "scanFlags")
  /\ Keep("control", [loc.control EXCEPT !.ok = ticket[loc.control.i].st \notin Active])
  /\ UNCHANGED <<shared, env>>

ScanFlags ==
  LET i == loc.control.i
      active == ticket[i].st \in Active
      up == loc.control.ok /\ FlagsUp(i)
      existing == \/ iface[i].safety \/ iface[i].flight # None
                  \/ iface[i].slot \in {"ready", "executing"} \/ active
      pending == existing \/ ~MountedAndActive(i)
      needs == active \/ (~MountedAndActive(i) /\ (iface[i].held \/ iface[i].unc)) IN
  /\ pc.control = "scanFlags"
  /\ IF release.st # "admitting" THEN UNCHANGED <<release, iface>>
     ELSE /\ release' = [release EXCEPT !.out[i] = IF up THEN "alreadyUp"
                                                  ELSE IF pending THEN "pending" ELSE @]
          /\ iface' = [iface EXCEPT ![i].safety = @ \/ (~up /\ pending /\ needs)]
  /\ IF i = "keyboard"
     THEN /\ pc' = [pc EXCEPT !.control = "scanTicket"]
          /\ Keep("control", [NoLocals EXCEPT !.i = "mouse"])
     ELSE /\ pc' = [pc EXCEPT !.control = "open"]
          /\ Keep("control", NoLocals)
  /\ UNCHANGED <<link, bits, route, auth, rel, seq, req, ticket,
                 env>>

ReleaseOpen ==
  /\ At("control", "open", "poll")
  /\ release' = IF release.st = "admitting" THEN [release EXCEPT !.st = "open"] ELSE release
  /\ UNCHANGED <<link, bits, route, auth, rel, seq, req, iface, ticket, loc,
                 env>>

\* finalize_release_all, when the outcome is in or after 100 ms.
ReleaseLost == release.cut # <<link.gen, auth>>
ReleaseFinish ==
  LET up == \A i \in Interfaces : release.out[i] \in {"alreadyUp", "submitted"} IN
  /\ At("control", "poll", "idle")
  /\ release' = [release EXCEPT !.st =
       CASE release.st = "failed" -> "finalizedFailure"
         [] release.st = "open" -> IF up THEN "finalizedSuccess" ELSE "timedOut"
         [] OTHER -> @]
  /\ UNCHANGED <<link, bits, route, auth, rel, seq, req, iface, ticket, loc,
                 env>>

\* usb.detach, Stage A.  The executor has the action before the rest is done.
DetachAccept ==
  /\ "detach" \in inst.can /\ auth < inst.cuts /\ pc.queue = "empty"
  /\ link.at \in {"disconnected", "mounted", "suspended"}
  /\ pc.control = "idle"
  /\ pc' = [pc EXCEPT !.control = "detachRetire", !.queue = "detach"]
  /\ link' = [link EXCEPT !.at = "detaching", !.pend = TRUE]
  /\ UNCHANGED <<bits, route, auth, rel, seq, req, iface, ticket, release, loc,
                 env>>

DetachRetire ==
  /\ At("control", "detachRetire", "detachKeep")
  /\ RetireAuthority
  /\ UNCHANGED <<link, bits, route, seq, req, iface, loc, env>>

DetachKeep ==
  /\ At("control", "detachKeep", "idle")
  /\ iface' = [i \in Interfaces |-> Staged(iface[i], Doubtful(iface[i]))]
  /\ UNCHANGED <<link, bits, route, auth, rel, seq, req, ticket, release, loc,
                 env>>

\* usb.attach, Stage A and the install: a fresh generation, nothing mounted.
Attach ==
  /\ "detach" \in inst.can /\ auth < inst.cuts
  /\ pc.control = "idle" /\ pc.queue = "empty" /\ link.at = "hidden"
  /\ link' = [link EXCEPT !.at = "disconnected", !.gen = @ + 1]
  /\ RetireAuthority
  /\ bits' = [mounted |-> FALSE, suspended |-> FALSE, ready |-> {}]
  /\ UNCHANGED <<route, seq, req, iface, pc, loc, env>>

\* hid.route usb: authority is retired, then the route published unless a
\* lifecycle event cut in (HidRoute).
RouteUsb ==
  /\ "route" \in inst.can /\ auth < inst.cuts /\ pc.queue = "empty"
  /\ At("control", "idle", "routeCommit")
  /\ route.on = "none" /\ ~link.pend /\ ~link.unc /\ ~AnySafety
  /\ link.at = "mounted" /\ bits.mounted /\ ~bits.suspended /\ bits.ready = Interfaces
  /\ RetireAuthority
  /\ Keep("control", [NoLocals EXCEPT !.rq = auth'])
  /\ UNCHANGED <<link, bits, route, seq, req, iface, env>>

RouteCommit ==
  /\ At("control", "routeCommit", "idle")
  /\ route' = IF auth = loc.control.rq /\ link.at = "mounted"
              THEN [on |-> "usb", gen |-> route.gen + 1] ELSE route
  /\ Keep("control", NoLocals)
  /\ UNCHANGED <<link, bits, auth, rel, seq, req, iface, ticket, release,
                 env>>

\* hid.route none.
RouteNone ==
  /\ "route" \in inst.can /\ auth < inst.cuts /\ pc.queue = "empty"
  /\ At("control", "idle", "noneRetire")
  /\ route.on = "usb"
  /\ route' = [route EXCEPT !.on = "releasing"]
  /\ UNCHANGED <<link, bits, auth, rel, seq, req, iface, ticket, release, loc,
                 env>>

NoneRetire ==
  /\ At("control", "noneRetire", "noneKeep")
  /\ RetireAuthority
  /\ UNCHANGED <<link, bits, route, seq, req, iface, loc, env>>

CompleteRoute == route' = IF route.on = "releasing" THEN [route EXCEPT !.on = "none"]
                          ELSE route

NoneKeep ==
  LET doubt == [i \in Interfaces |->
                  ~KnownAllUp(i) \/ iface[i].flight # None \/ iface[i].unc]
      work == \E i \in Interfaces : doubt[i] IN
  /\ pc.control = "noneKeep"
  /\ iface' = [i \in Interfaces |-> Staged(iface[i], doubt[i])]
  /\ pc' = [pc EXCEPT !.control = "idle", !.queue = IF work THEN "route" ELSE @]
  /\ IF work THEN UNCHANGED <<link, route>>
     ELSE link' = Confirm(link) /\ CompleteRoute
  /\ UNCHANGED <<bits, auth, rel, seq, req, ticket, release, loc,
                 env>>

-----------------------------------------------------------------------------
(* The TinyUSB task, one start-of-frame pass (service_sof, execute).       *)

SofStart ==
  /\ pc.usb = "idle" /\ bits.mounted /\ ~bits.suspended
  /\ link.at \in {"mounted", "detaching"}
  /\ bits' = [bits EXCEPT !.ready = {i \in Interfaces : wire[i] = None}]
  /\ pc' = [pc EXCEPT !.usb = "take"]
  /\ Keep("usb", [NoLocals EXCEPT !.cut = <<link.gen, auth>>])
  /\ UNCHANGED <<link, route, auth, rel, seq, req, iface, ticket, release, env>>

\* The flag is exchanged first, the identity read after it; ok: the request
\* is for this attach, this authority and this barrier.
SofTake ==
  LET current == req.on /\ <<req.gen, req.auth>> = loc.usb.cut /\ req.rel = rel IN
  /\ At("usb", "take", IF current THEN "mark" ELSE "ticket")
  /\ req' = [req EXCEPT !.on = FALSE]
  /\ Keep("usb", [loc.usb EXCEPT !.ok = current, !.rq = IF current THEN rel ELSE 0])
  /\ UNCHANGED <<link, bits, route, auth, rel, seq, iface, ticket, release, env>>

\* Every interface's debt is published before anything is submitted.
SofMark ==
  /\ At("usb", "mark", "ticket")
  /\ iface' = [i \in Interfaces |-> [iface[i] EXCEPT !.safety = @
       \/ iface[i].held \/ iface[i].unc
       \/ (iface[i].flight.kind = "unsafe" /\ iface[i].flight.held)]]
  /\ UNCHANGED <<link, bits, route, auth, rel, seq, req, ticket, release, loc, env>>

\* After the keyboard comes the mouse, first for tickets, then for all-ups.  An
\* interface with nothing to do is passed over.
From(i)      == IF i = "keyboard" THEN Interfaces ELSE {"mouse"}
First(i, S)  == i \in S /\ (i = "mouse" => "keyboard" \notin S)
AfterSlots   == IF loc.usb.ok THEN "settle" ELSE "idle"
Goto(to, i)  == /\ pc' = [pc EXCEPT !.usb = to]
                /\ Keep("usb", IF to = "idle" THEN NoLocals
                               ELSE [loc.usb EXCEPT !.k = FreeTicket, !.i = i])
NextTicket(i) == IF i = "keyboard" THEN Goto("ticket", "mouse") ELSE Goto("slot", "keyboard")
NextSlot(i)   == IF i = "keyboard" THEN Goto("slot", "mouse") ELSE Goto(AfterSlots, "mouse")

\* process_*_ticket: claim a published ticket under its lock.
Published == {i \in From(loc.usb.i) : ticket[i].st = "published"}
TicketClaim(i) ==
  /\ pc.usb = "ticket" /\ First(i, Published)
  /\ ticket' = [ticket EXCEPT ![i].st = "claimed"]
  /\ Keep("usb", [loc.usb EXCEPT !.k = ticket[i], !.i = i])
  /\ pc' = [pc EXCEPT !.usb = "check"]
  /\ UNCHANGED <<link, bits, route, auth, rel, seq, req, iface, release, env>>

TicketNone ==
  /\ pc.usb = "ticket" /\ Published = {}
  /\ Goto("slot", "keyboard")
  /\ UNCHANGED <<shared, env>>

\* The last look before the report leaves: authority, barrier, sequence,
\* route, endpoint, and every safety debt.
TicketCheck(i) ==
  LET k == loc.usb.k
      lost == <<k.cut[1], k.cut[2]>> # loc.usb.cut \/ loc.usb.cut # <<link.gen, auth>>
              \/ SeqConflict(k.seq)
      pending == k.rel # rel \/ Blocked
      busy == iface[i].flight # None \/ iface[i].slot # "empty"
      unready == ~MountedAndActive(i) \/ ~Routed(k.cut[3]) IN
  /\ pc.usb = "check" /\ loc.usb.i = i
  /\ IF lost \/ pending \/ busy \/ unready
     THEN /\ ticket' = [ticket EXCEPT ![i].st = "canceled", ![i].out =
               CASE lost -> "authorityLost" [] pending -> "safetyPending"
                 [] busy -> "busy" [] OTHER -> "notReady"]
          /\ NextTicket(i)
     ELSE /\ UNCHANGED <<ticket, loc>>
          /\ pc' = [pc EXCEPT !.usb = "submit"]
  /\ UNCHANGED <<link, bits, route, auth, rel, seq, req, iface, release, env>>

TicketSubmit(i) ==
  LET k == loc.usb.k IN
  /\ pc.usb = "submit" /\ loc.usb.i = i
  /\ \/ /\ wire[i] = None
        /\ wire' = [wire EXCEPT ![i] = [kind |-> "unsafe", held |-> k.held]]
        /\ sent' = sent \union {k.id}
        /\ iface' = [iface EXCEPT ![i].held = k.held, ![i].flight =
             [kind |-> "unsafe", held |-> k.held, cut |-> k.cut, rel |-> k.rel, rid |-> 0]]
        /\ pc' = [pc EXCEPT !.usb = "terminal"]
        /\ UNCHANGED <<ticket, loc>>
     \/ /\ ticket' = [ticket EXCEPT ![i].st = "notReady", ![i].out = "notReady"]
        /\ NextTicket(i)
        /\ UNCHANGED <<wire, sent, iface>>
  /\ UNCHANGED <<link, bits, route, auth, rel, seq, req, release, host, next, answer>>

\* Terminal only after the report is visible as in flight; the pass ends.
TicketTerminal(i) ==
  /\ pc.usb = "terminal" /\ loc.usb.i = i
  /\ ticket' = [ticket EXCEPT ![i].st = "submitted"]
  /\ pc' = [pc EXCEPT !.usb = "idle"] /\ Keep("usb", NoLocals)
  /\ UNCHANGED <<link, bits, route, auth, rel, seq, req, iface, release, env>>

\* Mutant: an all-up is only made while the route is.
SafetyWorkRouted == {i \in From(loc.usb.i) :
  iface[i].flight = None /\ iface[i].safety /\ iface[i].slot = "empty" /\ RoutedNow}
\* queue_safety: an all-up of the runtime's own, tied to the transaction it
\* is made for.
SafetyWork == {i \in From(loc.usb.i) :
                 \/ iface[i].slot = "canceled"
                 \/ /\ iface[i].flight = None /\ iface[i].safety
                    /\ iface[i].slot = "empty" /\ SafetyTransport(i)}
SafetyQueue(i) ==
  LET mine == /\ ReleaseActive /\ release.cut = <<link.gen, auth>> /\ release.rel = rel
      k == [FreeTicket EXCEPT !.id = IF mine THEN release.id ELSE 0,
                              !.cut = Cut, !.rel = rel] IN
  /\ pc.usb = "slot" /\ First(i, SafetyWork)
  /\ IF iface[i].slot = "canceled"
     THEN iface' = [iface EXCEPT ![i].slot = "empty"] /\ NextSlot(i)
     ELSE /\ iface' = [iface EXCEPT ![i].slot = "ready"]
          /\ Keep("usb", [loc.usb EXCEPT !.k = k, !.i = i])
          /\ pc' = [pc EXCEPT !.usb = "slotClaim"]
  /\ UNCHANGED <<link, bits, route, auth, rel, seq, req, ticket, release, env>>

SafetyNone ==
  /\ pc.usb = "slot" /\ SafetyWork = {}
  /\ Goto(AfterSlots, "mouse")
  /\ UNCHANGED <<shared, env>>

SafetyClaim(i) ==
  /\ pc.usb = "slotClaim" /\ loc.usb.i = i
  /\ IF iface[i].slot # "ready" THEN UNCHANGED iface /\ NextSlot(i)
     ELSE IF <<loc.usb.k.cut[1], loc.usb.k.cut[2]>> # loc.usb.cut \/ ~SafetyTransport(i)
     THEN iface' = [iface EXCEPT ![i].slot = "empty"] /\ NextSlot(i)
     ELSE /\ iface' = [iface EXCEPT ![i].slot = "executing"]
          /\ pc' = [pc EXCEPT !.usb = "slotSubmit"] /\ UNCHANGED loc
  /\ UNCHANGED <<link, bits, route, auth, rel, seq, req, ticket, release, env>>

SafetySubmit(i) ==
  LET k == loc.usb.k
      current == /\ loc.usb.cut = <<link.gen, auth>> /\ SafetyTransport(i)
                 /\ iface[i].slot = "executing"
      flight == [kind |-> "safety", held |-> FALSE, cut |-> k.cut, rel |-> k.rel,
                 rid |-> k.id] IN
  /\ pc.usb = "slotSubmit" /\ loc.usb.i = i
  /\ \/ /\ current /\ wire[i] = None
        /\ wire' = [wire EXCEPT ![i] = [kind |-> "safety", held |-> FALSE]]
        /\ iface' = [iface EXCEPT ![i].held = FALSE, ![i].flight = flight,
                                  ![i].slot = "empty"]
        /\ NoteOutcome(i, flight, "submitted")
        /\ Goto(AfterSlots, "mouse")
     \/ /\ ~current
        /\ iface' = [iface EXCEPT ![i].slot = "empty"]
        /\ NextSlot(i) /\ UNCHANGED <<wire, release>>
     \/ /\ current
        /\ iface' = [iface EXCEPT ![i].slot = "empty"]
        /\ NoteOutcome(i, flight, "pending")
        /\ NextSlot(i) /\ UNCHANGED wire
  /\ UNCHANGED <<link, bits, route, auth, rel, seq, req, ticket, host, next, sent, answer>>

\* reconcile_zero_work_release: nothing was to be released; the pending bit
\* goes, and comes back if a newer request was published meanwhile.
NothingToRelease == (\A i \in Interfaces : KnownAllUp(i)) /\ ~link.unc
Settle ==
  LET done == /\ ~req.on /\ RequestIs(link.gen, auth, rel)
              /\ loc.usb.cut = <<link.gen, auth>> /\ loc.usb.rq = rel
              /\ NothingToRelease IN
  /\ pc.usb = "settle"
  /\ IF done THEN /\ link' = [link EXCEPT !.pend = FALSE]
                  /\ pc' = [pc EXCEPT !.usb = "settleAgain"] /\ UNCHANGED loc
     ELSE /\ UNCHANGED link
          /\ pc' = [pc EXCEPT !.usb = "idle"] /\ Keep("usb", NoLocals)
  /\ UNCHANGED <<bits, route, auth, rel, seq, req, iface, ticket, release, env>>

SettleAgain ==
  /\ At("usb", "settleAgain", "idle") /\ Keep("usb", NoLocals)
  /\ link' = [link EXCEPT !.pend = @ \/ req.on \/ ~NothingToRelease]
  /\ UNCHANGED <<bits, route, auth, rel, seq, req, iface, ticket, release, env>>

-----------------------------------------------------------------------------
(* The TinyUSB task, the callbacks.                                        *)

BusLive == link.at \in {"mounted", "detaching"}
OwnFlight(i) ==
  LET f == iface[i].flight IN
  /\ f # None /\ <<f.cut[1], f.cut[2]>> = <<link.gen, auth>>
  /\ f.kind = "safety" \/ Routed(f.cut[3])
  /\ f.held = wire[i].held
Take(i, state) == /\ wire' = [wire EXCEPT ![i] = None]
                  /\ host' = [host EXCEPT ![i] = state]

\* report_complete: the flags first, the in-flight mark after them.
Complete(i) ==
  LET f == iface[i].flight IN
  /\ pc.usb = "idle" /\ wire[i] # None /\ BusLive
  /\ Take(i, wire[i].held)
  /\ IF OwnFlight(i)
     THEN /\ iface' = [iface EXCEPT ![i].unc = FALSE, ![i].conf = f.held,
               ![i].held   = IF f.kind = "safety" THEN FALSE ELSE @,
               ![i].safety = IF f.kind = "safety" THEN FALSE ELSE @]
          /\ pc' = [pc EXCEPT !.usb = "complete"]
          /\ Keep("usb", [NoLocals EXCEPT !.i = i, !.ok = f.kind = "safety"])
     ELSE UNCHANGED <<iface, pc, loc>>
  /\ UNCHANGED <<link, bits, route, auth, rel, seq, req, ticket, release,
                 next, sent, answer>>

CompleteClear ==
  /\ At("usb", "complete", IF loc.usb.ok /\ ~AnySafety THEN "confirm" ELSE "idle")
  /\ iface' = [iface EXCEPT ![loc.usb.i].flight = None]
  /\ Keep("usb", NoLocals)
  /\ UNCHANGED <<link, bits, route, auth, rel, seq, req, ticket, release, env>>

CompleteConfirm ==
  /\ At("usb", "confirm", "idle")
  /\ link' = Confirm(link)
  /\ UNCHANGED <<bits, route, auth, rel, seq, req, iface, ticket, release, loc, env>>

\* report_failed: the host may have taken the report all the same.
Fail(i) ==
  LET f == iface[i].flight IN
  /\ "fail" \in inst.can
  /\ pc.usb = "idle" /\ wire[i] # None /\ BusLive
  /\ \E state \in {host[i], wire[i].held} : Take(i, state)
  /\ IF OwnFlight(i)
     THEN /\ iface' = [iface EXCEPT ![i].unc = TRUE, ![i].safety = TRUE]
          /\ link' = Doubt(link, link.gen)
          /\ IF f.kind = "safety" THEN NoteOutcome(i, f, "pending") ELSE UNCHANGED release
          /\ pc' = [pc EXCEPT !.usb = "failed"]
          /\ Keep("usb", [NoLocals EXCEPT !.i = i])
     ELSE UNCHANGED <<iface, link, release, pc, loc>>
  /\ UNCHANGED <<bits, route, auth, rel, seq, req, ticket, next, sent, answer>>

FailClear ==
  /\ At("usb", "failed", "idle")
  /\ iface' = [iface EXCEPT ![loc.usb.i].flight = None]
  /\ Keep("usb", NoLocals)
  /\ UNCHANGED <<link, bits, route, auth, rel, seq, req, ticket, release, env>>

\* What the controller held is gone; the host may have had it.
LoseWire ==
  /\ wire' = [i \in Interfaces |-> None]
  /\ host' \in {h \in [Interfaces -> BOOLEAN] : \A i \in Interfaces :
                  h[i] = host[i] \/ (wire[i] # None /\ h[i] = wire[i].held)}
NoBits == [mounted |-> FALSE, suspended |-> FALSE, ready |-> {}]

Unmount ==
  /\ "unplug" \in inst.can /\ auth < inst.cuts
  /\ link.at \in {"mounted", "suspended"}
  /\ At("usb", "idle", "unmountKeep")
  /\ link' = [link EXCEPT !.at = "disconnected", !.gen = @ + 1]
  /\ InvalidateRoute /\ RetireAuthority /\ LoseWire
  /\ bits' = NoBits
  /\ Keep("usb", [NoLocals EXCEPT !.rq = link.gen])
  /\ UNCHANGED <<seq, req, iface, next, sent, answer>>

UnmountKeep ==
  LET doubt == {i \in Interfaces : Doubtful(iface[i])} IN
  /\ At("usb", "unmountKeep", "unmountClear")
  /\ iface' = [i \in Interfaces |->
       IF i \in doubt THEN [NeverSafe(iface[i]) EXCEPT !.held = FALSE] ELSE Cleared]
  /\ link' = IF doubt # {} THEN Doubt(link, loc.usb.rq) ELSE link
  /\ UNCHANGED <<bits, route, auth, rel, seq, req, ticket, release, loc, env>>

UnmountClear ==
  /\ At("usb", "unmountClear", "idle") /\ Keep("usb", NoLocals)
  /\ NoRequest
  /\ UNCHANGED <<link, bits, route, auth, rel, seq, iface, ticket, release, env>>

\* During a detach the callback is observational.
UnmountHidden ==
  /\ "unplug" \in inst.can
  /\ pc.usb = "idle" /\ link.at = "detaching" /\ bits.mounted
  /\ bits' = NoBits /\ LoseWire
  /\ UNCHANGED <<link, route, auth, rel, seq, req, iface, ticket, release, pc, loc,
                 next, sent, answer>>

Mount ==
  /\ link.at = "disconnected"
  /\ At("usb", "idle", "mountKeep")
  /\ link' = [link EXCEPT !.at = "mounted"]
  /\ RetireAuthority
  /\ UNCHANGED <<bits, route, seq, req, iface, loc, env>>

\* A doubt about an earlier generation is a fresh debt on both interfaces.
MountKeep ==
  LET retained == \E i \in Interfaces : Doubtful(iface[i]) \/ iface[i].safety
      kept(f) == [f EXCEPT !.slot = "empty", !.safety = @ \/ Doubtful(f), !.flight = None] IN
  /\ At("usb", "mountKeep", IF Unresolved THEN "identity" ELSE "mountClear")
  /\ iface' = [i \in Interfaces |->
       IF Unresolved THEN [NeverSafe(iface[i]) EXCEPT !.held = FALSE]
       ELSE IF retained THEN kept(iface[i]) ELSE Cleared]
  /\ Keep("usb", [NoLocals EXCEPT !.ret = "mountClear"])
  /\ UNCHANGED <<link, bits, route, auth, rel, seq, req, ticket, release, env>>

MountClear ==
  /\ At("usb", "mountClear", IF link.unc THEN "idle" ELSE "confirm")
  /\ NoRequest
  /\ bits' = [NoBits EXCEPT !.mounted = TRUE]
  /\ Keep("usb", NoLocals)
  /\ UNCHANGED <<link, route, auth, rel, seq, iface, ticket, release, env>>

Suspend ==
  /\ "suspend" \in inst.can /\ auth < inst.cuts /\ link.at = "mounted"
  /\ At("usb", "idle", "suspendKeep")
  /\ link' = [link EXCEPT !.at = "suspended"]
  /\ InvalidateRoute /\ RetireAuthority
  /\ UNCHANGED <<bits, seq, req, iface, loc, env>>

SuspendKeep ==
  /\ At("usb", "suspendKeep", "suspendBits")
  /\ iface' = [i \in Interfaces |-> Preserved(iface[i])]
  /\ UNCHANGED <<link, bits, route, auth, rel, seq, req, ticket, release, loc, env>>

SuspendBits ==
  /\ At("usb", "suspendBits", "idle")
  /\ bits' = [bits EXCEPT !.suspended = TRUE, !.ready = {}]
  /\ UNCHANGED <<link, route, auth, rel, seq, req, iface, ticket, release, loc, env>>

Resume ==
  /\ pc.usb = "idle" /\ link.at = "suspended"
  /\ link' = [link EXCEPT !.at = "mounted"]
  /\ CancelWork /\ auth' = auth + 1
  /\ bits' = [bits EXCEPT !.suspended = FALSE]
  /\ UNCHANGED <<route, rel, seq, req, iface, pc, loc, env>>

-----------------------------------------------------------------------------
(* The executor.                                                           *)

\* on_usb_link_stall, from the route's withdrawal on (HidRoute).  The heartbeat
\* has not moved, so no start-of-frame pass is under way.
Callbacks == {"idle", "complete", "confirm", "failed"}
Stall ==
  /\ "stall" \in inst.can /\ auth < inst.cuts /\ pc.queue = "empty"
  /\ link.at = "mounted" /\ route.on = "usb" /\ pc.usb \in Callbacks
  /\ At("executor", "idle", "stallKeep")
  /\ InvalidateRoute /\ RetireAuthority
  /\ UNCHANGED <<link, bits, seq, req, iface, loc, env>>

StallKeep ==
  /\ At("executor", "stallKeep", "stallBits")
  /\ iface' = [i \in Interfaces |-> Preserved(iface[i])]
  /\ UNCHANGED <<link, bits, route, auth, rel, seq, req, ticket, release, loc, env>>

StallBits ==
  /\ At("executor", "stallBits", "idle")
  /\ bits' = [bits EXCEPT !.ready = {}]
  /\ UNCHANGED <<link, route, auth, rel, seq, req, iface, ticket, release, loc, env>>

\* begin_lifecycle_detach_safety, begin_route_release_safety.
SafetyDoubts == {i \in Interfaces : ~KnownAllUp(i)}
SafetyBegin(action) ==
  /\ pc.executor = "idle" /\ pc.queue = action
  /\ action = "route" => route.on = "releasing" /\ link.at = "mounted"
  /\ iface' = [i \in Interfaces |-> [iface[i] EXCEPT !.safety = @ \/ i \in SafetyDoubts]]
  /\ IF SafetyDoubts = {}
     THEN link' = Confirm(link) /\ pc' = [pc EXCEPT !.executor = "safe"] /\ UNCHANGED loc
     ELSE /\ UNCHANGED link
          /\ pc' = [pc EXCEPT !.executor = "identity"]
          /\ Keep("executor", [NoLocals EXCEPT !.ret = "await", !.rq = link.gen])
  /\ UNCHANGED <<bits, route, auth, rel, seq, req, ticket, release, env>>

\* The release was overtaken: a lifecycle cut has the route, or the bus.
RouteOvertaken ==
  /\ pc.executor = "idle" /\ pc.queue = "route"
  /\ route.on # "releasing" \/ link.at # "mounted"
  /\ IF route.on = "releasing"
     THEN /\ pc' = [pc EXCEPT !.executor = "doubtFlags"]
          /\ Keep("executor", [NoLocals EXCEPT !.rq = link.gen])
     ELSE pc' = [pc EXCEPT !.queue = "empty"] /\ UNCHANGED loc
  /\ UNCHANGED <<shared, env>>

Await ==
  /\ At("executor", "await", "safe") /\ SafetyClean
  /\ UNCHANGED <<shared, loc, env>>

\* 250 ms passed: a report checked before the wait has been submitted by now,
\* and a completion that came before a debt confirmed.
AwaitTimeout ==
  /\ At("executor", "await", "doubtFlags") /\ ~SafetyClean
  /\ pc.usb # "submit" /\ (pc.usb = "confirm" => ~AnySafety)
  /\ UNCHANGED <<shared, loc, env>>

DoubtFlags ==
  /\ At("executor", "doubtFlags", "doubtWord")
  /\ iface' = [i \in Interfaces |-> NeverSafe(iface[i])]
  /\ UNCHANGED <<link, bits, route, auth, rel, seq, req, ticket, release, loc, env>>

DoubtWord ==
  /\ At("executor", "doubtWord", "safe")
  /\ link' = Doubt(link, loc.executor.rq)
  /\ UNCHANGED <<bits, route, auth, rel, seq, req, iface, ticket, release, loc, env>>

RouteDone ==
  /\ pc.executor = "safe" /\ pc.queue = "route"
  /\ CompleteRoute
  /\ pc' = [pc EXCEPT !.executor = "idle", !.queue = "empty"]
  /\ Keep("executor", NoLocals)
  /\ UNCHANGED <<link, bits, auth, rel, seq, req, iface, ticket, release, env>>

\* The driver goes between two passes of its task; on_driver_uninstalled.
Uninstall ==
  /\ pc.executor = "safe" /\ pc.queue = "detach" /\ pc.usb = "idle"
  /\ pc' = [pc EXCEPT !.executor = "uninstallClear"]
  /\ InvalidateRoute /\ CancelWork /\ LoseWire
  /\ bits' = NoBits
  /\ iface' = [i \in Interfaces |->
       IF link.unc THEN [NeverSafe(iface[i]) EXCEPT !.held = FALSE] ELSE Cleared]
  /\ UNCHANGED <<link, auth, rel, seq, req, loc, next, sent, answer>>

UninstallClear ==
  /\ pc.executor = "uninstallClear"
  /\ pc' = [pc EXCEPT !.executor = "idle", !.queue = "empty"]
  /\ NoRequest
  /\ link' = [link EXCEPT !.at = "hidden"]
  /\ Keep("executor", NoLocals)
  /\ UNCHANGED <<bits, route, auth, rel, seq, iface, ticket, release, env>>

-----------------------------------------------------------------------------
Init ==
  /\ inst \in Instances
  /\ link = [at |-> "mounted", gen |-> 1, pend |-> FALSE, unc |-> FALSE, uncGen |-> 0]
  /\ bits = [mounted |-> TRUE, suspended |-> FALSE, ready |-> Interfaces]
  /\ route = [on |-> "usb", gen |-> 1]
  /\ auth = 1 /\ rel = 1 /\ seq = 0
  /\ req = [on |-> FALSE, gen |-> 0, auth |-> 0, rel |-> 0]
  /\ iface = [i \in Interfaces |-> Cleared]
  /\ ticket = [i \in Interfaces |-> FreeTicket]
  /\ release = [st |-> "inactive", id |-> 0, cut |-> <<>>, rel |-> 0,
                out |-> [i \in Interfaces |-> "unresolved"]]
  /\ pc = [k \in Tasks \union {"queue"} |-> IF k = "queue" THEN "empty" ELSE "idle"]
  /\ loc = [k \in Tasks |-> NoLocals]
  /\ wire = [i \in Interfaces |-> None]
  /\ host = [i \in Interfaces |-> FALSE]
  /\ next = [id |-> 1, seq |-> 1]
  /\ sent = {}
  /\ answer = [n \in 1 .. inst.reports |-> "none"]

\* The two interfaces have a copy of every handler each.
KeyboardBegin(p)  == \E held \in BOOLEAN : Begin(p, "keyboard", held)
MouseBegin(p)     == "mouse" \in inst.can /\ \E held \in BOOLEAN : Begin(p, "mouse", held)
KeyboardFinish(p) == loc[p].i = "keyboard" /\ (Fence(p) \/ Publish(p))
MouseFinish(p)    == loc[p].i = "mouse" /\ (Fence(p) \/ Publish(p))
KeyboardWait(p)   == loc[p].i = "keyboard" /\ Wait(p)
MouseWait(p)      == loc[p].i = "mouse" /\ Wait(p)
Report(p) == KeyboardFinish(p) \/ MouseFinish(p) \/ KeyboardWait(p) \/ MouseWait(p)
Produce(p) == \/ ("report" \in inst.can /\ (KeyboardBegin(p) \/ MouseBegin(p)))
              \/ Report(p)

Control == \/ Produce("control") \/ SequenceClaim \/ SequenceAdmit
           \/ RequestRelease \/ PublicRelease \/ RequestReleaseAll("control")
           \/ ReleaseAdmit \/ ScanTicket \/ ScanFlags \/ ReleaseOpen \/ ReleaseFinish
           \/ DetachAccept \/ DetachRetire \/ DetachKeep \/ Attach
           \/ RouteUsb \/ RouteCommit \/ RouteNone \/ NoneRetire \/ NoneKeep
Sequence == Produce("sequence") \/ EndSequence

KeyboardTicket == \/ TicketClaim("keyboard") \/ TicketCheck("keyboard")
                  \/ TicketSubmit("keyboard") \/ TicketTerminal("keyboard")
MouseTicket == \/ TicketClaim("mouse") \/ TicketCheck("mouse")
               \/ TicketSubmit("mouse") \/ TicketTerminal("mouse")
Pass == \/ SofStart \/ SofTake \/ SofMark
        \/ TicketNone \/ KeyboardTicket \/ MouseTicket
        \/ SafetyNone
        \/ \E i \in Interfaces : SafetyQueue(i) \/ SafetyClaim(i) \/ SafetySubmit(i)
        \/ Settle \/ SettleAgain
Callback == \/ \E i \in Interfaces : Complete(i) \/ Fail(i)
            \/ CompleteClear \/ CompleteConfirm \/ FailClear
            \/ Unmount \/ UnmountKeep \/ UnmountClear \/ UnmountHidden
            \/ Mount \/ MountKeep \/ MountClear \/ RequestReleaseAll("usb")
            \/ Suspend \/ SuspendKeep \/ SuspendBits \/ Resume
Executor == \/ Stall \/ StallKeep \/ StallBits
            \/ SafetyBegin("detach") \/ SafetyBegin("route") \/ RouteOvertaken
            \/ Await \/ AwaitTimeout \/ DoubtFlags \/ DoubtWord \/ RouteDone
            \/ Uninstall \/ UninstallClear \/ RequestReleaseAll("executor")

Same == inst' = inst
Next == (Control \/ Sequence \/ Pass \/ Callback \/ Executor) /\ Same
Spec == Init /\ [][Next]_vars

\* What is under way goes on.  A pass or a callback of the TinyUSB task ends; the
\* bus keeps sending start-of-frames and takes what it is given, the controller
\* does not refuse a report for ever, and the task serves its events in order; the other tasks are scheduled.
UsbGoesOn == \/ SofTake \/ SofMark \/ TicketNone \/ KeyboardTicket \/ MouseTicket \/ SafetyNone
             \/ \E i \in Interfaces : SafetyQueue(i) \/ SafetyClaim(i) \/ SafetySubmit(i)
             \/ Settle \/ SettleAgain \/ CompleteClear \/ CompleteConfirm \/ FailClear
             \/ UnmountKeep \/ UnmountClear \/ MountKeep \/ MountClear
             \/ RequestReleaseAll("usb") \/ SuspendKeep \/ SuspendBits
ControlGoesOn == \/ Report("control") \/ SequenceAdmit
                 \/ RequestReleaseAll("control") \/ ReleaseAdmit \/ ScanTicket \/ ScanFlags
                 \/ ReleaseOpen \/ ReleaseFinish \/ DetachRetire \/ DetachKeep
                 \/ RouteCommit \/ NoneRetire \/ NoneKeep
ExecutorGoesOn == Executor /\ ~Stall
Fairness ==
  /\ WF_vars(UsbGoesOn /\ Same) /\ WF_vars(ControlGoesOn /\ Same)
  /\ WF_vars(ExecutorGoesOn /\ Same)
  /\ WF_vars(Report("sequence") /\ Same)
  /\ SF_vars(SofStart /\ Same) /\ \A i \in Interfaces : SF_vars(Complete(i) /\ Same)
  /\ \A i \in Interfaces : SF_vars(SafetySubmit(i) /\ wire'[i] # None /\ Same)
LiveSpec == Spec /\ Fairness

-----------------------------------------------------------------------------
\* The firmware never takes an interface for released while the host sees a
\* key or a button held on it, or is about to.
HeldIsKnown ==
  \A i \in Interfaces : host[i] \/ (wire[i] # None /\ wire[i].held) => ~KnownAllUp(i)

\* What a repeated report is compared with, and a sequence starts from, is
\* what the host holds.
ConfirmedTrue ==
  \A i \in Interfaces :
    /\ iface[i].flight = None /\ iface[i].slot = "empty"
    /\ ~iface[i].unc /\ ~iface[i].safety
    => iface[i].conf = host[i]

\* Told that a report was submitted, it was; told that it was refused, it
\* never leaves.
AnswerTrue ==
  \A n \in DOMAIN answer : /\ answer[n] = "submitted" => n \in sent
                 /\ answer[n] \in Outcomes \ {"none"} => n \notin sent

\* HID_NOT_READY is only ever said of a report that cannot leave any more.
NotReadyUnsent == \A n \in DOMAIN answer : answer[n] = "notReadyClaimed" => n \notin sent

\* The last thing the host was sent on an interface leaves nothing held.
EndsUp(i) == IF wire[i] # None THEN ~wire[i].held ELSE ~host[i]

\* While the bus is up, an interface that owes an all-up is given one.
DebtPaid ==
  \A i \in Interfaces : iface[i].safety ~> ~iface[i].safety \/ ~SafetyTransport(i)

\* A release-all that succeeds leaves nothing held that the firmware does not
\* still owe an all-up.
ReleaseSafe ==
  [][release'.st = "finalizedSuccess" /\ release.st # "finalizedSuccess" /\ ~ReleaseLost
     => \A i \in Interfaces : EndsUp(i) \/ iface[i].safety]_vars

\* A release-all that succeeds has released: no success with a report that
\* failed on the bus.
ReleaseTruth ==
  [][release'.st = "finalizedSuccess" /\ release.st # "finalizedSuccess" /\ ~ReleaseLost
     => \A i \in Interfaces : EndsUp(i)]_vars

\* While a sequence holds the route, only its reports leave.
SequenceAlone ==
  [][\A i \in Interfaces :
       sent' # sent /\ pc.usb = "submit" /\ loc.usb.i = i
       /\ loc.sequence.s.seq # 0 /\ loc.sequence.s.seq = seq
       => loc.usb.k.seq = seq]_vars
=============================================================================
