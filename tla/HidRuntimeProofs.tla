-------------------------- MODULE HidRuntimeProofs --------------------------
(***************************************************************************)
(* Proofs about HidRuntime, for any instances: any number of reports,      *)
(* lifecycle generations, requests and host behaviours in any combination. *)
(***************************************************************************)
EXTENDS HidRuntime, TLAPS

-----------------------------------------------------------------------------
(* The types.                                                              *)

Identity == {<<>>} \union (Nat \X Nat) \union (Nat \X Nat \X Nat)
Word     == [at : {"hidden", "disconnected", "mounted", "suspended", "detaching"},
             gen : Nat, pend : BOOLEAN, unc : BOOLEAN, uncGen : Nat]
Bits     == [mounted : BOOLEAN, suspended : BOOLEAN, ready : SUBSET Interfaces]
Route    == [on : {"usb", "none", "releasing"}, gen : Nat]
Request  == [on : BOOLEAN, gen : Nat, auth : Nat, rel : Nat]
Flight   == [kind : {"unsafe", "safety"}, held : BOOLEAN, cut : Identity, rel : Nat, rid : Nat]
Iface    == [slot : {"empty", "ready", "executing", "canceled"}, flight : Flight \union {None},
             safety : BOOLEAN, unc : BOOLEAN, held : BOOLEAN, conf : BOOLEAN]
Ticket   == [st : Active \union Terminal \union {"free", "writingCanceled"}, id : Nat,
             out : Outcomes, held : BOOLEAN, cut : Identity, rel : Nat, seq : Nat]
Release  == [st : {"inactive", "admitting", "open", "failed", "canceled", "timedOut",
                   "finalizedSuccess", "finalizedFailure"},
             id : Nat, cut : Identity, rel : Nat,
             out : [Interfaces -> {"unresolved", "pending", "alreadyUp", "submitted"}]]
Own      == [seq : Nat, auth : Nat, rel : Nat, route : Nat]
Local    == [ret : {"idle", "admit", "mountClear", "await"}, i : Interfaces, k : Ticket,
             ok : BOOLEAN, cut : Identity, rq : Nat, s : Own]
Wire     == [kind : {"unsafe", "safety"}, held : BOOLEAN]
Told     == Outcomes \union {"submitted", "notReadyClaimed", "unknown"}

Requesting   == {"identity", "barrier", "flag", "unavailable"}
Producing    == {"fence", "publish", "wait"}
ControlPoint == Requesting \union Producing \union
  {"idle", "sequenceAdmit", "admit", "scanTicket", "scanFlags", "open", "poll", "detachRetire",
   "detachKeep", "routeCommit", "noneRetire", "noneKeep"}
Claiming     == {"check", "submit", "terminal"}
UsbPoint == Requesting \union Claiming \union
  {"idle", "take", "mark", "ticket", "slot", "slotClaim", "slotSubmit", "settle", "settleAgain",
   "complete", "confirm", "failed", "unmountKeep", "unmountClear", "mountKeep", "mountClear",
   "suspendKeep", "suspendBits"}
ExecutorPoint == Requesting \union
  {"idle", "stallKeep", "stallBits", "await", "safe", "doubtFlags", "doubtWord",
   "uninstallClear"}
Points == [k \in Tasks \union {"queue"} |->
             CASE k = "control"  -> ControlPoint
               [] k = "sequence" -> Producing \union {"idle"}
               [] k = "usb"      -> UsbPoint
               [] k = "executor" -> ExecutorPoint
               [] OTHER          -> {"empty", "detach", "route"}]
AnyPoint == ControlPoint \union UsbPoint \union ExecutorPoint \union {"empty", "detach", "route"}
Returns == [k \in Tasks |->
             CASE k = "control"  -> {"idle", "admit"}
               [] k = "usb"      -> {"idle", "mountClear"}
               [] k = "executor" -> {"idle", "await"}
               [] OTHER          -> {"idle"}]

WordOK    == link \in Word
RouteOK   == bits \in Bits /\ route \in Route
CountsOK  == auth \in Nat /\ rel \in Nat /\ seq \in Nat /\ req \in Request
IfaceOK   == iface \in [Interfaces -> Iface]
TicketOK  == ticket \in [Interfaces -> Ticket]
ReleaseOK == release \in Release
PcOK      == pc \in [Tasks \union {"queue"} -> AnyPoint]
             /\ \A k \in Tasks \union {"queue"} : pc[k] \in Points[k]
LocOK     == loc \in [Tasks -> Local] /\ \A k \in Tasks : loc[k].ret \in Returns[k]
BusOK     == wire \in [Interfaces -> Wire \union {None}] /\ host \in [Interfaces -> BOOLEAN]
LedgerOK  == /\ inst \in Instances
             /\ next \in [id : Nat \ {0}, seq : Nat \ {0}]
             /\ sent \subseteq Nat
             /\ answer \in [1 .. inst.reports -> Told]

TypeOK == /\ WordOK /\ RouteOK /\ CountsOK /\ IfaceOK /\ TicketOK /\ ReleaseOK
          /\ PcOK /\ LocOK /\ BusOK /\ LedgerOK

-----------------------------------------------------------------------------
(* Operators and their types.                                              *)

\* What everything starts from.
LEMMA Blank ==
    /\ FreeTicket \in Ticket /\ Cleared \in Iface /\ NoLocals \in Local /\ NoSequence \in Own
    /\ NoLocals.ret = "idle" /\ \A k \in Tasks : "idle" \in Returns[k] /\ "idle" \in Points[k]
    /\ None.kind = "none"
<1>1. FreeTicket \in Ticket
  BY DEF FreeTicket, Ticket, Active, Terminal, Outcomes, Identity
<1>2. NoSequence \in Own
  BY DEF NoSequence, Own
<1>3. NoLocals \in Local
  BY <1>1, <1>2 DEF NoLocals, Local, Interfaces, Identity
<1>4. Cleared \in Iface
  BY DEF Cleared, Iface
<1>5. \A k \in Tasks : "idle" \in Returns[k] /\ "idle" \in Points[k]
  BY DEF Tasks, Producers, Returns, Points, ControlPoint, UsbPoint, ExecutorPoint
<1>6. QED
  BY <1>1, <1>2, <1>3, <1>4, <1>5 DEF NoLocals, None

\* The four contexts.
LEMMA Contexts ==
    /\ Tasks = {"control", "sequence", "usb", "executor"} /\ Producers = {"control", "sequence"}
BY DEF Tasks, Producers

\* Where each task may be, and go on to.
LEMMA Where ==
    /\ Points["control"] = ControlPoint /\ Points["sequence"] = Producing \union {"idle"}
    /\ Points["usb"] = UsbPoint /\ Points["executor"] = ExecutorPoint
    /\ Points["queue"] = {"empty", "detach", "route"}
    /\ Returns["control"] = {"idle", "admit"} /\ Returns["usb"] = {"idle", "mountClear"}
    /\ Returns["executor"] = {"idle", "await"} /\ Returns["sequence"] = {"idle"}
    /\ \A k \in Tasks : Points[k] \subseteq AnyPoint
BY DEF Points, Returns, Tasks, Producers, AnyPoint, ControlPoint, UsbPoint, ExecutorPoint

\* The identity of unsafe work.
LEMMA CutType ==
    ASSUME WordOK, RouteOK, CountsOK
    PROVE  Cut \in Identity /\ <<link.gen, auth>> \in Identity
BY DEF WordOK, RouteOK, CountsOK, Word, Route, Cut, Identity

\* An interface whose debt is published, or forgotten.
LEMMA IfaceTypes ==
    ASSUME NEW f \in Iface, NEW doubt \in BOOLEAN
    PROVE  /\ Doubtful(f) \in BOOLEAN
           /\ Preserved(f) \in Iface /\ Staged(f, doubt) \in Iface /\ NeverSafe(f) \in Iface
           /\ [NeverSafe(f) EXCEPT !.held = FALSE] \in Iface
           /\ [f EXCEPT !.slot = "empty", !.safety = @ \/ Doubtful(f), !.flight = None] \in Iface
BY DEF Iface, Preserved, Staged, NeverSafe, Doubtful

\* A cancellation keeps everything but the state and the reason.
LEMMA CanceledType ==
    ASSUME NEW k \in Ticket, NEW out \in Outcomes
    PROVE  Canceled(k, out) \in Ticket
BY DEF Canceled, Ticket, Terminal

LEMMA CancelTicketsType ==
    ASSUME TicketOK, NEW out \in Outcomes, CancelTickets(out)
    PROVE  TicketOK'
BY CanceledType DEF TicketOK, CancelTickets

LEMMA CancelReleaseType ==
    ASSUME ReleaseOK, CancelRelease
    PROVE  ReleaseOK'
BY DEF ReleaseOK, Release, CancelRelease

\* What a cut of authority touches.
LEMMA CancelWorkType ==
    ASSUME TicketOK, ReleaseOK, CancelWork
    PROVE  TicketOK' /\ ReleaseOK'
<1>1. "authorityLost" \in Outcomes
  BY DEF Outcomes
<1>2. QED
  BY <1>1, CancelTicketsType, CancelReleaseType DEF CancelWork

LEMMA RetireAuthorityType ==
    ASSUME TicketOK, ReleaseOK, CountsOK, RetireAuthority
    PROVE  TicketOK' /\ ReleaseOK' /\ auth' \in Nat /\ rel' \in Nat /\ auth' = auth + 1
BY CancelWorkType DEF RetireAuthority, CountsOK

LEMMA InvalidateRouteType ==
    ASSUME RouteOK, InvalidateRoute \/ CompleteRoute
    PROVE  route' \in Route
BY DEF RouteOK, Route, InvalidateRoute, CompleteRoute

LEMMA NoRequestType ==
    ASSUME NoRequest
    PROVE  req' \in Request
BY DEF NoRequest, Request

LEMMA WordTypes ==
    ASSUME WordOK, NEW g \in Nat
    PROVE  Confirm(link) \in Word /\ Doubt(link, g) \in Word
BY DEF WordOK, Word, Confirm, Doubt

LEMMA NoteOutcomeType ==
    ASSUME ReleaseOK, NEW i \in Interfaces, NEW k, NEW out \in {"pending", "submitted"},
           NoteOutcome(i, k, out)
    PROVE  ReleaseOK'
<1>1. [release EXCEPT !.out[i] = out] \in Release
  BY DEF ReleaseOK, Release
<1>2. [release EXCEPT !.out[i] = "pending", !.st = "failed"] \in Release
  BY DEF ReleaseOK, Release
<1>3. QED
  BY <1>1, <1>2 DEF ReleaseOK, NoteOutcome

LEMMA LoseWireType ==
    ASSUME BusOK, LoseWire
    PROVE  BusOK'
BY DEF BusOK, LoseWire

LEMMA TakeType ==
    ASSUME BusOK, NEW i \in Interfaces, NEW state \in BOOLEAN, Take(i, state)
    PROVE  BusOK'
BY DEF BusOK, Take

\* A task's next point, and what it carries.
LEMMA StepType ==
    ASSUME PcOK, NEW k \in Tasks, NEW to \in Points[k], pc' = [pc EXCEPT ![k] = to]
    PROVE  PcOK'
BY Where DEF PcOK

LEMMA QueueType ==
    ASSUME PcOK, NEW k \in Tasks, NEW to \in Points[k], NEW q \in {"empty", "detach", "route"},
           pc' = [pc EXCEPT ![k] = to, !.queue = q] \/ pc' = [pc EXCEPT !.queue = q]
    PROVE  PcOK'
<1>1. k # "queue" /\ to \in AnyPoint /\ q \in AnyPoint
  BY Contexts, Where DEF AnyPoint
<1>2. CASE pc' = [pc EXCEPT ![k] = to, !.queue = q]
  <2>1. pc' = [j \in Tasks \union {"queue"} |-> IF j = "queue" THEN q
                                             ELSE IF j = k THEN to ELSE pc[j]]
    BY <1>1, <1>2 DEF PcOK
  <2>2. QED
    BY <1>1, <2>1, Where DEF PcOK
<1>3. CASE pc' = [pc EXCEPT !.queue = q]
  BY <1>1, <1>3, Where DEF PcOK
<1>4. QED
  BY <1>2, <1>3

LEMMA AtType ==
    ASSUME PcOK, NEW k \in Tasks, NEW from, NEW to \in Points[k], At(k, from, to)
    PROVE  PcOK'
BY Where, StepType DEF At

LEMMA KeepType ==
    ASSUME LocOK, NEW k \in Tasks, NEW v \in Local, v.ret \in Returns[k], Keep(k, v)
    PROVE  LocOK'
BY DEF LocOK, Keep

\* What the tasks read.
LEMMA Reads ==
    ASSUME TypeOK
    PROVE  /\ \A k \in Tasks : /\ loc[k] \in Local /\ loc[k].i \in Interfaces /\ loc[k].k \in Ticket
                               /\ loc[k].rq \in Nat /\ loc[k].s \in Own /\ loc[k].ret \in Returns[k]
                               /\ loc[k].cut \in Identity /\ loc[k].ok \in BOOLEAN
           /\ \A i \in Interfaces : /\ ticket[i] \in Ticket /\ iface[i] \in Iface
                                    /\ ticket[i].id \in Nat /\ ticket[i].out \in Outcomes
           /\ link.gen \in Nat /\ route.gen \in Nat /\ auth \in Nat /\ rel \in Nat /\ seq \in Nat
           /\ link \in Word /\ next.id \in Nat /\ next.seq \in Nat /\ req.rel \in Nat
           /\ release.id \in Nat /\ release.st # "free"
BY DEF TypeOK, WordOK, Word, RouteOK, Route, CountsOK, Request, IfaceOK, TicketOK, Ticket,
       ReleaseOK, Release, LocOK, Local, LedgerOK

\* The walk over the interfaces ends where it should.
LEMMA GotoType ==
    ASSUME PcOK, LocOK, NEW to \in Points["usb"], NEW i \in Interfaces, Goto(to, i)
    PROVE  PcOK' /\ LocOK'
<1>0. loc.usb \in Local /\ loc.usb.ret \in Returns["usb"] /\ "usb" \in Tasks
  BY Contexts DEF LocOK
<1>1. /\ [loc.usb EXCEPT !.k = FreeTicket, !.i = i] \in Local
      /\ [loc.usb EXCEPT !.k = FreeTicket, !.i = i].ret = loc.usb.ret
  BY <1>0, Blank DEF Local
<1>2. PcOK'
  BY <1>0, Where, StepType DEF Goto
<1>3. LocOK'
  <2>1. CASE to = "idle"
    BY <1>0, <2>1, KeepType, Blank DEF Goto
  <2>2. CASE to # "idle"
    BY <1>0, <1>1, <2>2, KeepType DEF Goto
  <2>3. QED
    BY <2>1, <2>2
<1>4. QED
  BY <1>2, <1>3

LEMMA WalkType ==
    ASSUME PcOK, LocOK, NEW i \in Interfaces,
           NextTicket(i) \/ NextSlot(i) \/ Goto(AfterSlots, "mouse") \/ Goto("slot", "keyboard")
    PROVE  PcOK' /\ LocOK'
<1>1. /\ "ticket" \in Points["usb"] /\ "slot" \in Points["usb"] /\ AfterSlots \in Points["usb"]
      /\ "mouse" \in Interfaces /\ "keyboard" \in Interfaces
  BY Where DEF UsbPoint, AfterSlots, Interfaces
<1>2. QED
  BY <1>1, GotoType DEF NextTicket, NextSlot

-----------------------------------------------------------------------------
(* The steps.                                                              *)

\* A report's way through its producer.
ProducerStep(p) ==
  \/ (\E i \in Interfaces, held \in BOOLEAN : Begin(p, i, held)) \/ Fence(p) \/ Publish(p)
  \/ WaitTerminal(p) \/ WaitTimeout(p) \/ WaitClaimed(p) \/ WaitReplaced(p)

\* A release request, wherever it is made.
RequestStep(k) ==
  \/ ReleaseIdentity(k) \/ ReleaseBarrier(k) \/ ReleaseFlag(k) \/ ReleaseUnavailable(k)

\* The rest of the control task, and the end of a sequence.
ControlStep ==
  \/ SequenceClaim \/ SequenceAdmit \/ EndSequence \/ RequestRelease \/ PublicRelease
  \/ ReleaseAdmit \/ ScanTicket \/ ScanFlags \/ ReleaseOpen \/ ReleaseFinish \/ DetachAccept
  \/ DetachRetire \/ DetachKeep \/ Attach \/ RouteUsb \/ RouteCommit \/ RouteNone \/ NoneRetire
  \/ NoneKeep

\* A start-of-frame pass.
PassStep ==
  \/ SofStart \/ SofTake \/ SofMark \/ TicketNone \/ (\E i \in Interfaces : TicketClaim(i))
  \/ (\E i \in Interfaces : TicketCheck(i)) \/ (\E i \in Interfaces : TicketSubmit(i))
  \/ (\E i \in Interfaces : TicketTerminal(i)) \/ SafetyNone
  \/ (\E i \in Interfaces : SafetyQueue(i)) \/ (\E i \in Interfaces : SafetyClaim(i))
  \/ (\E i \in Interfaces : SafetySubmit(i)) \/ Settle \/ SettleAgain

\* The callbacks.
CallbackStep ==
  \/ (\E i \in Interfaces : Complete(i)) \/ (\E i \in Interfaces : Fail(i)) \/ CompleteClear
  \/ CompleteConfirm \/ FailClear \/ Unmount \/ UnmountKeep \/ UnmountClear \/ UnmountHidden
  \/ Mount \/ MountKeep \/ MountClear \/ Suspend \/ SuspendKeep \/ SuspendBits \/ Resume

\* The executor.
ExecutorStep ==
  \/ Stall \/ StallKeep \/ StallBits \/ (\E action \in {"detach", "route"} : SafetyBegin(action))
  \/ RouteOvertaken \/ Await \/ AwaitTimeout \/ DoubtFlags \/ DoubtWord \/ RouteDone \/ Uninstall
  \/ UninstallClear

LEMMA Steps ==
    ASSUME Next
    PROVE  /\ Same
           /\ \/ \E p \in Producers : ProducerStep(p)
              \/ \E k \in {"control", "usb", "executor"} : RequestStep(k)
              \/ ControlStep \/ PassStep \/ CallbackStep \/ ExecutorStep
<1>1. CASE Control
  BY <1>1, Contexts DEF Next, Control, Produce, Report, KeyboardBegin, MouseBegin, KeyboardFinish,
       MouseFinish, KeyboardWait, MouseWait, Wait, RequestReleaseAll, ProducerStep, RequestStep,
       ControlStep, Interfaces
<1>2. CASE Sequence
  BY <1>2, Contexts DEF Next, Sequence, Produce, Report, KeyboardBegin, MouseBegin,
       KeyboardFinish, MouseFinish, KeyboardWait, MouseWait, Wait, ProducerStep, ControlStep,
       Interfaces
<1>3. CASE Pass
  BY <1>3 DEF Next, Pass, KeyboardTicket, MouseTicket, PassStep, Interfaces
<1>4. CASE Callback
  BY <1>4 DEF Next, Callback, RequestReleaseAll, RequestStep, CallbackStep
<1>5. CASE Executor
  BY <1>5 DEF Next, Executor, RequestReleaseAll, RequestStep, ExecutorStep
<1>6. QED
  BY <1>1, <1>2, <1>3, <1>4, <1>5 DEF Next

-----------------------------------------------------------------------------
(* Every step keeps the types.                                             *)

LEMMA ProducerTypes ==
    ASSUME TypeOK, Same, NEW p \in Producers, ProducerStep(p)
    PROVE  TypeOK'
<1>1. CASE \E i \in Interfaces, held \in BOOLEAN : Begin(p, i, held)
  <2>0. PICK i \in Interfaces, held \in BOOLEAN : Begin(p, i, held)
    BY <1>1
  <2>1. TicketOK'
    <3>1. (IF p = "sequence" THEN loc.sequence.s.seq ELSE 0) \in Nat
      BY Contexts, Reads DEF Own
    <3>2. "writing" \in Active /\ "none" \in Outcomes
      BY DEF Active, Outcomes
    <3>3. [st |-> "writing", id |-> next.id, out |-> "none", held |-> held, cut |-> Cut,
           rel |-> rel, seq |-> IF p = "sequence" THEN loc.sequence.s.seq ELSE 0] \in Ticket
      BY <3>1, <3>2, CutType, Reads DEF TypeOK, Ticket
    <3>4. QED
      BY <2>0, <3>3 DEF Begin, TypeOK, TicketOK
  <2>2. PcOK'
    BY <2>0, StepType, Where, Contexts, Reads
      DEF Begin, TypeOK, ControlPoint, Producing
  <2>3. LocOK'
    <3>1. ticket'[i] \in Ticket /\ loc' = [loc EXCEPT ![p] = [loc[p] EXCEPT !.k = ticket'[i], !.i = i]]
      BY <2>0, <2>1, Reads DEF Begin, Keep, TicketOK, TypeOK
    <3>2. [loc[p] EXCEPT !.k = ticket'[i], !.i = i] \in Local
      BY <3>1, Contexts, Reads DEF Local
    <3>3. [loc[p] EXCEPT !.k = ticket'[i], !.i = i].ret = loc[p].ret
      BY <3>1, Contexts, Reads DEF Local
    <3>4. QED
      BY <3>1, <3>2, <3>3, Contexts, Reads DEF TypeOK, LocOK
  <2>4. LedgerOK'
    <3>1. next.id + 1 \in Nat \ {0}
      BY Reads
    <3>2. QED
      BY <2>0, <3>1 DEF Begin, TypeOK, LedgerOK, Same
  <2>5. QED
    BY <2>0, <2>1, <2>2, <2>3, <2>4
      DEF Begin, shared, env, Same, TypeOK, WordOK, RouteOK, CountsOK, IfaceOK, ReleaseOK, BusOK
<1>2. CASE Fence(p)
  <2>1. PcOK'
    BY <1>2, AtType, Where, Contexts, Reads
      DEF Fence, TypeOK, ControlPoint, Producing
  <2>2. LocOK'
    <3>1. /\ loc[p] \in Local /\ loc[p].ret \in Returns[p]
          /\ \E b \in BOOLEAN : Keep(p, [loc[p] EXCEPT !.ok = b])
      BY <1>2, Contexts, Reads DEF Fence
    <3>2. \A b \in BOOLEAN : /\ [loc[p] EXCEPT !.ok = b] \in Local
                             /\ [loc[p] EXCEPT !.ok = b].ret = loc[p].ret
      BY <3>1 DEF Local
    <3>3. QED
      BY <3>1, <3>2, KeepType, Contexts DEF TypeOK
  <2>3. QED
    BY <1>2, <2>1, <2>2
      DEF Fence, shared, env, Same, TypeOK, WordOK, RouteOK, CountsOK, IfaceOK, TicketOK,
          ReleaseOK, BusOK, LedgerOK
<1>3. CASE Publish(p)
  <2>1. TicketOK'
    BY <1>3, Contexts, Reads
      DEF Publish, FenceOutcome, TypeOK, TicketOK, Ticket, Outcomes, Active, Terminal
  <2>2. PcOK'
    <3>1. pc' = [pc EXCEPT ![p] = "wait"] \/ pc' = [pc EXCEPT ![p] = "idle"]
      BY <1>3 DEF Publish
    <3>2. p \in Tasks /\ "wait" \in Points[p] /\ "idle" \in Points[p]
      BY Where, Contexts DEF ControlPoint, Producing
    <3>3. QED
      BY <3>1, <3>2, StepType DEF TypeOK
  <2>3. LedgerOK'
    <3>1. \/ answer' = answer
          \/ \E out \in Outcomes : answer' = [answer EXCEPT ![ticket[loc[p].i].id] = out]
      BY <1>3, Contexts, Reads DEF Publish, FenceOutcome, Outcomes
    <3>2. answer' \in [1 .. inst.reports -> Told]
      BY <3>1 DEF TypeOK, LedgerOK, Told
    <3>3. QED
      BY <1>3, <3>2 DEF Publish, TypeOK, LedgerOK, Same
  <2>4. QED
    BY <1>3, <2>1, <2>2, <2>3
      DEF Publish, shared, env, Same, TypeOK, WordOK, RouteOK, CountsOK, IfaceOK, ReleaseOK,
          LocOK, BusOK
<1>4. CASE WaitTerminal(p)
  <2>1. TicketOK'
    BY <1>4, Blank, Contexts, Reads
      DEF WaitTerminal, Answer, TypeOK, TicketOK, Ticket, Outcomes, Active, Terminal
  <2>2. PcOK'
    BY <1>4, StepType, Where, Contexts, Reads
      DEF WaitTerminal, Answer, TypeOK, ControlPoint, Producing
  <2>3. LocOK'
    BY <1>4, Blank, KeepType, Where, Contexts, Reads
      DEF WaitTerminal, Answer, TypeOK, Local
  <2>4. LedgerOK'
    BY <1>4, Contexts, Reads
      DEF WaitTerminal, Answer, TypeOK, LedgerOK, Same, Told, Terminal
  <2>5. QED
    BY <1>4, <2>1, <2>2, <2>3, <2>4
      DEF WaitTerminal, Answer, shared, env, Same, TypeOK, WordOK, RouteOK, CountsOK, IfaceOK,
          ReleaseOK, BusOK
<1>5. CASE WaitTimeout(p)
  <2>1. TicketOK'
    BY <1>5, Blank, Contexts, Reads
      DEF WaitTimeout, Answer, TypeOK, TicketOK, Ticket, Outcomes, Active, Terminal
  <2>2. PcOK'
    BY <1>5, StepType, Where, Contexts, Reads
      DEF WaitTimeout, Answer, TypeOK, ControlPoint, Producing
  <2>3. LocOK'
    BY <1>5, Blank, KeepType, Where, Contexts, Reads
      DEF WaitTimeout, Answer, TypeOK, Local
  <2>4. LedgerOK'
    BY <1>5, Contexts, Reads DEF WaitTimeout, Answer, TypeOK, LedgerOK, Same, Told, Outcomes
  <2>5. QED
    BY <1>5, <2>1, <2>2, <2>3, <2>4
      DEF WaitTimeout, Answer, shared, env, Same, TypeOK, WordOK, RouteOK, CountsOK, IfaceOK,
          ReleaseOK, BusOK
<1>6. CASE WaitClaimed(p)
  <2>1. PcOK'
    BY <1>6, StepType, Where, Contexts, Reads
      DEF WaitClaimed, Answer, TypeOK, ControlPoint, Producing
  <2>2. LocOK'
    BY <1>6, Blank, KeepType, Where, Contexts, Reads
      DEF WaitClaimed, Answer, TypeOK, Local
  <2>3. LedgerOK'
    BY <1>6, Contexts, Reads
      DEF WaitClaimed, Answer, TypeOK, LedgerOK, Same, Told
  <2>4. QED
    BY <1>6, <2>1, <2>2, <2>3
      DEF WaitClaimed, Answer, shared, env, Same, TypeOK, WordOK, RouteOK, CountsOK, IfaceOK,
          TicketOK, ReleaseOK, BusOK
<1>7. CASE WaitReplaced(p)
  <2>1. PcOK'
    BY <1>7, StepType, Where, Contexts, Reads
      DEF WaitReplaced, Answer, TypeOK, ControlPoint, Producing
  <2>2. LocOK'
    BY <1>7, Blank, KeepType, Where, Contexts, Reads
      DEF WaitReplaced, Answer, TypeOK, Local
  <2>3. LedgerOK'
    BY <1>7, Contexts, Reads
      DEF WaitReplaced, Answer, TypeOK, LedgerOK, Same, Told
  <2>4. QED
    BY <1>7, <2>1, <2>2, <2>3
      DEF WaitReplaced, Answer, shared, env, Same, TypeOK, WordOK, RouteOK, CountsOK, IfaceOK,
          TicketOK, ReleaseOK, BusOK
<1>8. QED
  BY <1>1, <1>2, <1>3, <1>4, <1>5, <1>6, <1>7 DEF ProducerStep

LEMMA RequestTypes ==
    ASSUME TypeOK, Same, NEW k \in {"control", "usb", "executor"}, RequestStep(k)
    PROVE  TypeOK'
<1>1. CASE ReleaseIdentity(k)
  <2>1. CountsOK'
    BY <1>1, Contexts, Reads
      DEF ReleaseIdentity, TypeOK, CountsOK, Request
  <2>2. PcOK'
    BY <1>1, AtType, Where, Contexts, Reads
      DEF ReleaseIdentity, TypeOK, ControlPoint, UsbPoint, ExecutorPoint, Requesting
  <2>3. QED
    BY <1>1, <2>1, <2>2
      DEF ReleaseIdentity, shared, env, Same, TypeOK, WordOK, RouteOK, IfaceOK, TicketOK,
          ReleaseOK, LocOK, BusOK, LedgerOK
<1>2. CASE ReleaseBarrier(k)
  <2>1. WordOK'
    BY <1>2, Contexts, Reads
      DEF ReleaseBarrier, TypeOK, WordOK, Word
  <2>2. CountsOK'
    BY <1>2, Contexts, Reads
      DEF ReleaseBarrier, TypeOK, CountsOK, Request
  <2>3. TicketOK'
    BY <1>2, CancelTicketsType, Contexts, Reads
      DEF ReleaseBarrier, TypeOK, TicketOK, Ticket, Outcomes, Active, Terminal
  <2>4. ReleaseOK'
    BY <1>2, Contexts, Reads
      DEF ReleaseBarrier, TypeOK, ReleaseOK, Release
  <2>5. PcOK'
    BY <1>2, AtType, Where, Contexts, Reads
      DEF ReleaseBarrier, TypeOK, ControlPoint, UsbPoint, ExecutorPoint, Requesting
  <2>6. QED
    BY <1>2, <2>1, <2>2, <2>3, <2>4, <2>5
      DEF ReleaseBarrier, shared, env, Same, TypeOK, RouteOK, IfaceOK, LocOK, BusOK, LedgerOK
<1>3. CASE ReleaseFlag(k)
  <2>1. CountsOK'
    BY <1>3, Contexts, Reads
      DEF ReleaseFlag, TypeOK, CountsOK, Request
  <2>2. PcOK'
    BY <1>3, AtType, Where, Contexts, Reads
      DEF ReleaseFlag, TypeOK, ControlPoint, UsbPoint, ExecutorPoint, Requesting
  <2>3. QED
    BY <1>3, <2>1, <2>2
      DEF ReleaseFlag, shared, env, Same, TypeOK, WordOK, RouteOK, IfaceOK, TicketOK, ReleaseOK,
          LocOK, BusOK, LedgerOK
<1>4. CASE ReleaseUnavailable(k)
  <2>1. WordOK'
    BY <1>4, Contexts, Reads
      DEF ReleaseUnavailable, TypeOK, WordOK, Word
  <2>2. CountsOK'
    BY <1>4, Contexts, Reads
      DEF ReleaseUnavailable, TypeOK, CountsOK, Request
  <2>3. PcOK'
    BY <1>4, AtType, Where, Contexts, Reads
      DEF ReleaseUnavailable, TypeOK, ControlPoint, UsbPoint, ExecutorPoint, Requesting
  <2>4. QED
    BY <1>4, <2>1, <2>2, <2>3
      DEF ReleaseUnavailable, shared, env, Same, TypeOK, RouteOK, IfaceOK, TicketOK, ReleaseOK,
          LocOK, BusOK, LedgerOK
<1>5. QED
  BY <1>1, <1>2, <1>3, <1>4 DEF RequestStep

LEMMA ControlTypes ==
    ASSUME TypeOK, Same, ControlStep
    PROVE  TypeOK'
<1>1. CASE SequenceClaim
  <2>1. CountsOK'
    BY <1>1, Contexts, Reads
      DEF SequenceClaim, TypeOK, CountsOK, Request
  <2>2. PcOK'
    BY <1>1, AtType, Where, Contexts, Reads
      DEF SequenceClaim, TypeOK, ControlPoint, Requesting
  <2>3. LocOK'
    BY <1>1, Blank, CutType, KeepType, Where, Contexts, Reads
      DEF SequenceClaim, TypeOK, Local
  <2>4. LedgerOK'
    <3>1. next.seq + 1 \in Nat \ {0}
      BY Reads
    <3>2. QED
      BY <1>1, <3>1 DEF SequenceClaim, TypeOK, LedgerOK, Same
  <2>5. QED
    BY <1>1, <2>1, <2>2, <2>3, <2>4
      DEF SequenceClaim, shared, env, Same, TypeOK, WordOK, RouteOK, IfaceOK, TicketOK, ReleaseOK,
          BusOK
<1>2. CASE SequenceAdmit
  <2>1. CountsOK'
    BY <1>2, Contexts, Reads
      DEF SequenceAdmit, TypeOK, CountsOK, Request
  <2>2. PcOK'
    BY <1>2, AtType, Where, Contexts, Reads
      DEF SequenceAdmit, TypeOK, ControlPoint, Requesting
  <2>3. LocOK'
    <3>1. [seq |-> loc.control.rq, auth |-> auth, rel |-> rel, route |-> route.gen] \in Own
      BY Contexts, Reads DEF Own
    <3>2. PICK s \in Own : loc' = [loc EXCEPT !.control = NoLocals, !.sequence.s = s]
      BY <1>2, <3>1, Blank DEF SequenceAdmit
    <3>3. [loc.sequence EXCEPT !.s = s] \in Local /\ [loc.sequence EXCEPT !.s = s].ret = loc.sequence.ret
      BY <3>2, Contexts, Reads DEF Local
    <3>4. loc' = [k \in Tasks |-> IF k = "control" THEN NoLocals
                                  ELSE IF k = "sequence" THEN [loc.sequence EXCEPT !.s = s]
                                  ELSE loc[k]]
      BY <3>2, Contexts DEF TypeOK, LocOK
    <3>5. QED
      BY <3>3, <3>4, Contexts, Reads, Blank DEF TypeOK, LocOK
  <2>4. QED
    BY <1>2, <2>1, <2>2, <2>3
      DEF SequenceAdmit, shared, env, Same, TypeOK, WordOK, RouteOK, IfaceOK, TicketOK, ReleaseOK,
          BusOK, LedgerOK
<1>3. CASE EndSequence
  <2>1. CountsOK'
    BY <1>3, Contexts, Reads
      DEF EndSequence, TypeOK, CountsOK, Request
  <2>2. LocOK'
    BY <1>3, Blank, KeepType, Where, Contexts, Reads
      DEF EndSequence, TypeOK, Local
  <2>3. QED
    BY <1>3, <2>1, <2>2
      DEF EndSequence, shared, env, Same, TypeOK, WordOK, RouteOK, IfaceOK, TicketOK, ReleaseOK,
          PcOK, BusOK, LedgerOK
<1>4. CASE RequestRelease
  <2>1. PcOK'
    BY <1>4, AtType, Where, Contexts, Reads
      DEF RequestRelease, TypeOK, ControlPoint, Requesting
  <2>2. QED
    BY <1>4, <2>1
      DEF RequestRelease, shared, env, Same, TypeOK, WordOK, RouteOK, CountsOK, IfaceOK, TicketOK,
          ReleaseOK, LocOK, BusOK, LedgerOK
<1>5. CASE PublicRelease
  <2>1. PcOK'
    BY <1>5, AtType, Where, Contexts, Reads
      DEF PublicRelease, TypeOK, ControlPoint, Requesting
  <2>2. LocOK'
    BY <1>5, Blank, KeepType, Where, Contexts, Reads
      DEF PublicRelease, TypeOK, Local
  <2>3. QED
    BY <1>5, <2>1, <2>2
      DEF PublicRelease, shared, env, Same, TypeOK, WordOK, RouteOK, CountsOK, IfaceOK, TicketOK,
          ReleaseOK, BusOK, LedgerOK
<1>6. CASE ReleaseAdmit
  <2>1. ReleaseOK'
    BY <1>6, CutType, Contexts, Reads DEF ReleaseAdmit, TypeOK, ReleaseOK, Release
  <2>2. PcOK'
    BY <1>6, AtType, Where, Contexts, Reads
      DEF ReleaseAdmit, TypeOK, ControlPoint, Requesting
  <2>3. LocOK'
    BY <1>6, Blank, KeepType, Where, Contexts, Reads
      DEF ReleaseAdmit, TypeOK, Local
  <2>4. QED
    BY <1>6, <2>1, <2>2, <2>3
      DEF ReleaseAdmit, shared, env, Same, TypeOK, WordOK, RouteOK, CountsOK, IfaceOK, TicketOK,
          BusOK, LedgerOK
<1>7. CASE ScanTicket
  <2>1. PcOK'
    BY <1>7, AtType, Where, Contexts, Reads
      DEF ScanTicket, TypeOK, ControlPoint, Requesting
  <2>2. LocOK'
    BY <1>7, KeepType, Where, Contexts, Reads
      DEF ScanTicket, TypeOK, Local
  <2>3. QED
    BY <1>7, <2>1, <2>2
      DEF ScanTicket, shared, env, Same, TypeOK, WordOK, RouteOK, CountsOK, IfaceOK, TicketOK,
          ReleaseOK, BusOK, LedgerOK
<1>8. CASE ScanFlags
  <2>1. IfaceOK'
    <3>1. loc.control.i \in Interfaces
      BY Contexts, Reads
    <3>2. PICK b \in BOOLEAN : iface' = iface \/ iface' = [iface EXCEPT ![loc.control.i].safety = b]
      <4>1. CASE release.st # "admitting"
        BY <1>8, <4>1 DEF ScanFlags
      <4>2. CASE release.st = "admitting"
        <5>1. \E b \in BOOLEAN : iface' = [iface EXCEPT ![loc.control.i].safety = b]
          BY <1>8, <4>2, <3>1, Reads DEF ScanFlags, Iface
        <5>2. QED
          BY <5>1
      <4>3. QED
        BY <4>1, <4>2
    <3>3. QED
      BY <3>1, <3>2 DEF TypeOK, IfaceOK, Iface
  <2>2. ReleaseOK'
    BY <1>8, Contexts, Reads
      DEF ScanFlags, TypeOK, ReleaseOK, Release
  <2>3. PcOK'
    BY <1>8, StepType, Where, Contexts, Reads
      DEF ScanFlags, TypeOK, ControlPoint, Requesting
  <2>4. LocOK'
    <3>1. [NoLocals EXCEPT !.i = "mouse"] \in Local /\ [NoLocals EXCEPT !.i = "mouse"].ret = "idle"
      BY Blank DEF Local, Interfaces
    <3>2. Keep("control", NoLocals) \/ Keep("control", [NoLocals EXCEPT !.i = "mouse"])
      BY <1>8 DEF ScanFlags
    <3>3. QED
      BY <3>1, <3>2, KeepType, Blank, Contexts DEF TypeOK
  <2>5. QED
    BY <1>8, <2>1, <2>2, <2>3, <2>4
      DEF ScanFlags, shared, env, Same, TypeOK, WordOK, RouteOK, CountsOK, TicketOK, BusOK,
          LedgerOK
<1>9. CASE ReleaseOpen
  <2>1. ReleaseOK'
    BY <1>9, Contexts, Reads
      DEF ReleaseOpen, TypeOK, ReleaseOK, Release
  <2>2. PcOK'
    BY <1>9, AtType, Where, Contexts, Reads
      DEF ReleaseOpen, TypeOK, ControlPoint, Requesting
  <2>3. QED
    BY <1>9, <2>1, <2>2
      DEF ReleaseOpen, shared, env, Same, TypeOK, WordOK, RouteOK, CountsOK, IfaceOK, TicketOK,
          LocOK, BusOK, LedgerOK
<1>10. CASE ReleaseFinish
  <2>1. ReleaseOK'
    BY <1>10, Contexts, Reads
      DEF ReleaseFinish, TypeOK, ReleaseOK, Release
  <2>2. PcOK'
    BY <1>10, AtType, Where, Contexts, Reads
      DEF ReleaseFinish, TypeOK, ControlPoint, Requesting
  <2>3. QED
    BY <1>10, <2>1, <2>2
      DEF ReleaseFinish, shared, env, Same, TypeOK, WordOK, RouteOK, CountsOK, IfaceOK, TicketOK,
          LocOK, BusOK, LedgerOK
<1>11. CASE DetachAccept
  <2>1. WordOK'
    BY <1>11, Contexts, Reads
      DEF DetachAccept, TypeOK, WordOK, Word
  <2>2. PcOK'
    BY <1>11, QueueType, Where, Contexts, Reads
      DEF DetachAccept, TypeOK, ControlPoint, Requesting
  <2>3. QED
    BY <1>11, <2>1, <2>2
      DEF DetachAccept, shared, env, Same, TypeOK, RouteOK, CountsOK, IfaceOK, TicketOK,
          ReleaseOK, LocOK, BusOK, LedgerOK
<1>12. CASE DetachRetire
  <2>1. CountsOK'
    BY <1>12, RetireAuthorityType, Contexts, Reads
      DEF DetachRetire, TypeOK, CountsOK, Request
  <2>2. TicketOK'
    BY <1>12, RetireAuthorityType, Contexts, Reads
      DEF DetachRetire, TypeOK, TicketOK, Ticket, Outcomes, Active, Terminal
  <2>3. ReleaseOK'
    BY <1>12, RetireAuthorityType, Contexts, Reads
      DEF DetachRetire, TypeOK, ReleaseOK, Release
  <2>4. PcOK'
    BY <1>12, AtType, Where, Contexts, Reads
      DEF DetachRetire, TypeOK, ControlPoint, Requesting
  <2>5. QED
    BY <1>12, <2>1, <2>2, <2>3, <2>4
      DEF DetachRetire, shared, env, Same, TypeOK, WordOK, RouteOK, IfaceOK, LocOK, BusOK,
          LedgerOK
<1>13. CASE DetachKeep
  <2>1. IfaceOK'
    BY <1>13, IfaceTypes, Reads DEF DetachKeep, IfaceOK
  <2>2. PcOK'
    BY <1>13, AtType, Where, Contexts, Reads
      DEF DetachKeep, TypeOK, ControlPoint, Requesting
  <2>3. QED
    BY <1>13, <2>1, <2>2
      DEF DetachKeep, shared, env, Same, TypeOK, WordOK, RouteOK, CountsOK, TicketOK, ReleaseOK,
          LocOK, BusOK, LedgerOK
<1>14. CASE Attach
  <2>1. WordOK'
    <3>1. link.gen + 1 \in Nat
      BY Reads
    <3>2. QED
      BY <1>14, <3>1 DEF Attach, TypeOK, WordOK, Word
  <2>2. RouteOK'
    BY <1>14, Contexts, Reads
      DEF Attach, TypeOK, RouteOK, Bits, Route
  <2>3. CountsOK'
    BY <1>14, RetireAuthorityType, Contexts, Reads
      DEF Attach, TypeOK, CountsOK, Request
  <2>4. TicketOK'
    BY <1>14, RetireAuthorityType, Contexts, Reads
      DEF Attach, TypeOK, TicketOK, Ticket, Outcomes, Active, Terminal
  <2>5. ReleaseOK'
    BY <1>14, RetireAuthorityType, Contexts, Reads
      DEF Attach, TypeOK, ReleaseOK, Release
  <2>6. QED
    BY <1>14, <2>1, <2>2, <2>3, <2>4, <2>5
      DEF Attach, shared, env, Same, TypeOK, IfaceOK, PcOK, LocOK, BusOK, LedgerOK
<1>15. CASE RouteUsb
  <2>1. CountsOK'
    BY <1>15, RetireAuthorityType, Contexts, Reads
      DEF RouteUsb, TypeOK, CountsOK, Request
  <2>2. TicketOK'
    BY <1>15, RetireAuthorityType, Contexts, Reads
      DEF RouteUsb, TypeOK, TicketOK, Ticket, Outcomes, Active, Terminal
  <2>3. ReleaseOK'
    BY <1>15, RetireAuthorityType, Contexts, Reads
      DEF RouteUsb, TypeOK, ReleaseOK, Release
  <2>4. PcOK'
    BY <1>15, AtType, Where, Contexts, Reads
      DEF RouteUsb, TypeOK, ControlPoint, Requesting
  <2>5. LocOK'
    <3>1. auth' \in Nat
      BY <1>15, RetireAuthorityType DEF RouteUsb, TypeOK
    <3>2. [NoLocals EXCEPT !.rq = auth'] \in Local /\ [NoLocals EXCEPT !.rq = auth'].ret = "idle"
      BY <3>1, Blank DEF Local
    <3>3. QED
      BY <1>15, <3>2, KeepType, Blank, Contexts DEF RouteUsb, TypeOK
  <2>6. QED
    BY <1>15, <2>1, <2>2, <2>3, <2>4, <2>5
      DEF RouteUsb, shared, env, Same, TypeOK, WordOK, RouteOK, IfaceOK, BusOK, LedgerOK
<1>16. CASE RouteCommit
  <2>1. RouteOK'
    BY <1>16, Contexts, Reads
      DEF RouteCommit, TypeOK, RouteOK, Bits, Route
  <2>2. PcOK'
    BY <1>16, AtType, Where, Contexts, Reads
      DEF RouteCommit, TypeOK, ControlPoint, Requesting
  <2>3. LocOK'
    BY <1>16, Blank, KeepType, Where, Contexts, Reads
      DEF RouteCommit, TypeOK, Local
  <2>4. QED
    BY <1>16, <2>1, <2>2, <2>3
      DEF RouteCommit, shared, env, Same, TypeOK, WordOK, CountsOK, IfaceOK, TicketOK, ReleaseOK,
          BusOK, LedgerOK
<1>17. CASE RouteNone
  <2>1. RouteOK'
    BY <1>17, Contexts, Reads
      DEF RouteNone, TypeOK, RouteOK, Bits, Route
  <2>2. PcOK'
    BY <1>17, AtType, Where, Contexts, Reads
      DEF RouteNone, TypeOK, ControlPoint, Requesting
  <2>3. QED
    BY <1>17, <2>1, <2>2
      DEF RouteNone, shared, env, Same, TypeOK, WordOK, CountsOK, IfaceOK, TicketOK, ReleaseOK,
          LocOK, BusOK, LedgerOK
<1>18. CASE NoneRetire
  <2>1. CountsOK'
    BY <1>18, RetireAuthorityType, Contexts, Reads
      DEF NoneRetire, TypeOK, CountsOK, Request
  <2>2. TicketOK'
    BY <1>18, RetireAuthorityType, Contexts, Reads
      DEF NoneRetire, TypeOK, TicketOK, Ticket, Outcomes, Active, Terminal
  <2>3. ReleaseOK'
    BY <1>18, RetireAuthorityType, Contexts, Reads
      DEF NoneRetire, TypeOK, ReleaseOK, Release
  <2>4. PcOK'
    BY <1>18, AtType, Where, Contexts, Reads
      DEF NoneRetire, TypeOK, ControlPoint, Requesting
  <2>5. QED
    BY <1>18, <2>1, <2>2, <2>3, <2>4
      DEF NoneRetire, shared, env, Same, TypeOK, WordOK, RouteOK, IfaceOK, LocOK, BusOK, LedgerOK
<1>19. CASE NoneKeep
  <2>1. WordOK'
    BY <1>19, WordTypes, Contexts, Reads
      DEF NoneKeep, TypeOK, WordOK, Word
  <2>2. RouteOK'
    BY <1>19, InvalidateRouteType, Contexts, Reads
      DEF NoneKeep, TypeOK, RouteOK, Bits, Route
  <2>3. IfaceOK'
    <3>1. \A i \in Interfaces : \E b \in BOOLEAN : iface'[i] = Staged(iface[i], b)
      BY <1>19 DEF NoneKeep
    <3>2. iface' = [i \in Interfaces |-> iface'[i]]
      BY <1>19 DEF NoneKeep
    <3>3. QED
      BY <3>1, <3>2, IfaceTypes, Reads DEF IfaceOK
  <2>4. PcOK'
    <3>1. \/ pc' = [pc EXCEPT !.control = "idle", !.queue = "route"]
          \/ pc' = [pc EXCEPT !.control = "idle", !.queue = pc.queue]
      BY <1>19 DEF NoneKeep
    <3>2. pc.queue \in {"empty", "detach", "route"} /\ "control" \in Tasks /\ "idle" \in Points["control"]
      BY Where, Contexts DEF ControlPoint, TypeOK, PcOK
    <3>3. QED
      BY <3>1, <3>2, QueueType DEF TypeOK
  <2>5. QED
    BY <1>19, <2>1, <2>2, <2>3, <2>4
      DEF NoneKeep, shared, env, Same, TypeOK, CountsOK, TicketOK, ReleaseOK, LocOK, BusOK,
          LedgerOK
<1>20. QED
  BY <1>1, <1>2, <1>3, <1>4, <1>5, <1>6, <1>7, <1>8, <1>9, <1>10, <1>11, <1>12, <1>13,
     <1>14, <1>15, <1>16, <1>17, <1>18, <1>19 DEF ControlStep

LEMMA PassTypes ==
    ASSUME TypeOK, Same, PassStep
    PROVE  TypeOK'
<1>1. CASE SofStart
  <2>1. RouteOK'
    BY <1>1, Contexts, Reads
      DEF SofStart, TypeOK, RouteOK, Bits, Route
  <2>2. PcOK'
    BY <1>1, StepType, Where, Contexts, Reads
      DEF SofStart, TypeOK, UsbPoint, Claiming
  <2>3. LocOK'
    <3>1. LET v == [NoLocals EXCEPT !.cut = <<link.gen, auth>>] IN v \in Local /\ v.ret = "idle"
      BY Blank, CutType DEF TypeOK, Local
    <3>2. QED
      BY <1>1, <3>1, KeepType, Blank, Contexts DEF SofStart, TypeOK
  <2>4. QED
    BY <1>1, <2>1, <2>2, <2>3
      DEF SofStart, shared, env, Same, TypeOK, WordOK, CountsOK, IfaceOK, TicketOK, ReleaseOK,
          BusOK, LedgerOK
<1>2. CASE SofTake
  <2>1. CountsOK'
    BY <1>2, Contexts, Reads
      DEF SofTake, TypeOK, CountsOK, Request
  <2>2. PcOK'
    BY <1>2, AtType, Where, Contexts, Reads
      DEF SofTake, TypeOK, UsbPoint, Claiming
  <2>3. LocOK'
    BY <1>2, KeepType, Where, Contexts, Reads
      DEF SofTake, TypeOK, Local
  <2>4. QED
    BY <1>2, <2>1, <2>2, <2>3
      DEF SofTake, shared, env, Same, TypeOK, WordOK, RouteOK, IfaceOK, TicketOK, ReleaseOK,
          BusOK, LedgerOK
<1>3. CASE SofMark
  <2>1. IfaceOK'
    <3>1. \A i \in Interfaces, b \in BOOLEAN : [iface[i] EXCEPT !.safety = b] \in Iface
      BY Reads DEF Iface
    <3>2. \A i \in Interfaces : \E b \in BOOLEAN : iface'[i] = [iface[i] EXCEPT !.safety = b]
      BY <1>3 DEF SofMark
    <3>3. iface' = [i \in Interfaces |-> iface'[i]]
      BY <1>3 DEF SofMark
    <3>4. QED
      BY <3>1, <3>2, <3>3 DEF IfaceOK
  <2>2. PcOK'
    BY <1>3, AtType, Where, Contexts, Reads
      DEF SofMark, TypeOK, UsbPoint, Claiming
  <2>3. QED
    BY <1>3, <2>1, <2>2
      DEF SofMark, shared, env, Same, TypeOK, WordOK, RouteOK, CountsOK, TicketOK, ReleaseOK,
          LocOK, BusOK, LedgerOK
<1>4. CASE TicketNone
  <2>1. PcOK' /\ LocOK'
    BY <1>4, WalkType DEF TicketNone, Interfaces, TypeOK
  <2>2. QED
    BY <1>4, <2>1
      DEF TicketNone, shared, env, Same, TypeOK, WordOK, RouteOK, CountsOK, IfaceOK, TicketOK,
          ReleaseOK, BusOK, LedgerOK
<1>5. CASE \E i \in Interfaces : TicketClaim(i)
  <2>0. PICK i \in Interfaces : TicketClaim(i)
    BY <1>5
  <2>1. TicketOK'
    BY <2>0 DEF TicketClaim, TypeOK, TicketOK, Ticket, Active
  <2>2. PcOK'
    BY <2>0, StepType, Where, Contexts, Reads
      DEF TicketClaim, TypeOK, UsbPoint, Claiming
  <2>3. LocOK'
    BY <2>0, KeepType, Where, Contexts, Reads
      DEF TicketClaim, TypeOK, Local
  <2>4. QED
    BY <2>0, <2>1, <2>2, <2>3
      DEF TicketClaim, shared, env, Same, TypeOK, WordOK, RouteOK, CountsOK, IfaceOK, ReleaseOK,
          BusOK, LedgerOK
<1>6. CASE \E i \in Interfaces : TicketCheck(i)
  <2>0. PICK i \in Interfaces : TicketCheck(i)
    BY <1>6
  <2>1. TicketOK'
    BY <2>0, Contexts, Reads
      DEF TicketCheck, NextTicket, TypeOK, TicketOK, Ticket, Outcomes, Active, Terminal
  <2>2. PcOK' /\ LocOK'
    <3>1. CASE NextTicket(i)
      BY <2>0, <3>1, WalkType DEF TicketCheck, TypeOK
    <3>2. CASE ~(NextTicket(i))
      <4>1. pc' = [pc EXCEPT !.usb = "submit"] /\ loc' = loc
        BY <2>0, <3>2 DEF TicketCheck
      <4>2. PcOK'
        BY <4>1, StepType, Where, Contexts DEF TypeOK, UsbPoint, Claiming
      <4>3. QED
        BY <4>1, <4>2 DEF TypeOK, LocOK
    <3>3. QED
      BY <3>1, <3>2
  <2>3. QED
    BY <2>0, <2>1, <2>2
      DEF TicketCheck, shared, env, Same, TypeOK, WordOK, RouteOK, CountsOK, IfaceOK, ReleaseOK,
          BusOK, LedgerOK
<1>7. CASE \E i \in Interfaces : TicketSubmit(i)
  <2>0. PICK i \in Interfaces : TicketSubmit(i)
    BY <1>7
  <2>1. IfaceOK'
    <3>1. /\ [kind |-> "unsafe", held |-> loc.usb.k.held, cut |-> loc.usb.k.cut,
              rel |-> loc.usb.k.rel, rid |-> 0] \in Flight
          /\ loc.usb.k.held \in BOOLEAN
      BY Contexts, Reads DEF Flight, Ticket
    <3>2. QED
      BY <2>0, <3>1 DEF TicketSubmit, TypeOK, IfaceOK, Iface
  <2>2. TicketOK'
    BY <2>0, Contexts, Reads
      DEF TicketSubmit, NextTicket, TypeOK, TicketOK, Ticket, Outcomes, Active, Terminal
  <2>3. PcOK' /\ LocOK'
    <3>1. CASE NextTicket(i)
      BY <2>0, <3>1, WalkType DEF TicketSubmit, TypeOK
    <3>2. CASE ~(NextTicket(i))
      <4>1. pc' = [pc EXCEPT !.usb = "terminal"] /\ loc' = loc
        BY <2>0, <3>2 DEF TicketSubmit
      <4>2. PcOK'
        BY <4>1, StepType, Where, Contexts DEF TypeOK, UsbPoint, Claiming
      <4>3. QED
        BY <4>1, <4>2 DEF TypeOK, LocOK
    <3>3. QED
      BY <3>1, <3>2
  <2>4. BusOK'
    <3>1. [kind |-> "unsafe", held |-> loc.usb.k.held] \in Wire
      BY Contexts, Reads DEF Wire, Ticket
    <3>2. QED
      BY <2>0, <3>1 DEF TicketSubmit, TypeOK, BusOK
  <2>5. LedgerOK'
    <3>1. loc.usb.k.id \in Nat
      BY Contexts, Reads DEF Ticket
    <3>2. QED
      BY <2>0, <3>1 DEF TicketSubmit, TypeOK, LedgerOK, Same
  <2>6. QED
    BY <2>0, <2>1, <2>2, <2>3, <2>4, <2>5
      DEF TicketSubmit, shared, env, Same, TypeOK, WordOK, RouteOK, CountsOK, ReleaseOK
<1>8. CASE \E i \in Interfaces : TicketTerminal(i)
  <2>0. PICK i \in Interfaces : TicketTerminal(i)
    BY <1>8
  <2>1. TicketOK'
    BY <2>0, Contexts, Reads
      DEF TicketTerminal, TypeOK, TicketOK, Ticket, Outcomes, Active, Terminal
  <2>2. PcOK'
    BY <2>0, StepType, Where, Contexts, Reads
      DEF TicketTerminal, TypeOK, UsbPoint, Claiming
  <2>3. LocOK'
    BY <2>0, Blank, KeepType, Where, Contexts, Reads
      DEF TicketTerminal, TypeOK, Local
  <2>4. QED
    BY <2>0, <2>1, <2>2, <2>3
      DEF TicketTerminal, shared, env, Same, TypeOK, WordOK, RouteOK, CountsOK, IfaceOK,
          ReleaseOK, BusOK, LedgerOK
<1>9. CASE SafetyNone
  <2>1. PcOK' /\ LocOK'
    BY <1>9, WalkType DEF SafetyNone, Interfaces, TypeOK
  <2>2. QED
    BY <1>9, <2>1
      DEF SafetyNone, shared, env, Same, TypeOK, WordOK, RouteOK, CountsOK, IfaceOK, TicketOK,
          ReleaseOK, BusOK, LedgerOK
<1>10. CASE \E i \in Interfaces : SafetyQueue(i)
  <2>0. PICK i \in Interfaces : SafetyQueue(i)
    BY <1>10
  <2>1. IfaceOK'
    <3>1. iface' = [iface EXCEPT ![i].slot = "empty"] \/ iface' = [iface EXCEPT ![i].slot = "ready"]
      BY <2>0 DEF SafetyQueue
    <3>2. QED
      BY <3>1 DEF TypeOK, IfaceOK, Iface
  <2>2. PcOK' /\ LocOK'
    <3>1. CASE iface[i].slot = "canceled"
      BY <2>0, <3>1, WalkType DEF SafetyQueue, TypeOK
    <3>2. CASE iface[i].slot # "canceled"
      <4> DEFINE mine == ReleaseActive /\ release.cut = <<link.gen, auth>> /\ release.rel = rel
                 k == [FreeTicket EXCEPT !.id = IF mine THEN release.id ELSE 0,
                                         !.cut = Cut, !.rel = rel]
      <4>1. pc' = [pc EXCEPT !.usb = "slotClaim"] /\ Keep("usb", [loc.usb EXCEPT !.k = k, !.i = i])
        BY <2>0, <3>2 DEF SafetyQueue
      <4>2. k \in Ticket
        <5>1. (IF mine THEN release.id ELSE 0) \in Nat
          BY Reads
        <5> HIDE DEF mine
        <5>2. QED
          BY <5>1, Blank, CutType, Reads DEF TypeOK, Ticket
      <4> HIDE DEF k
      <4>3. LET v == [loc.usb EXCEPT !.k = k, !.i = i] IN v \in Local /\ v.ret = loc.usb.ret
        BY <4>2, Contexts, Reads DEF Local
      <4>4. PcOK'
        BY <4>1, StepType, Where, Contexts DEF TypeOK, UsbPoint
      <4>5. QED
        BY <4>1, <4>3, <4>4, KeepType, Contexts, Reads DEF TypeOK
    <3>3. QED
      BY <3>1, <3>2
  <2>3. QED
    BY <2>0, <2>1, <2>2
      DEF SafetyQueue, shared, env, Same, TypeOK, WordOK, RouteOK, CountsOK, TicketOK, ReleaseOK,
          BusOK, LedgerOK
<1>11. CASE \E i \in Interfaces : SafetyClaim(i)
  <2>0. PICK i \in Interfaces : SafetyClaim(i)
    BY <1>11
  <2>1. IfaceOK'
    <3>1. \/ iface' = iface \/ iface' = [iface EXCEPT ![i].slot = "empty"]
          \/ iface' = [iface EXCEPT ![i].slot = "executing"]
      BY <2>0 DEF SafetyClaim
    <3>2. QED
      BY <3>1 DEF TypeOK, IfaceOK, Iface
  <2>2. PcOK' /\ LocOK'
    <3>1. CASE NextSlot(i)
      BY <2>0, <3>1, WalkType DEF SafetyClaim, TypeOK
    <3>2. CASE ~(NextSlot(i))
      <4>1. pc' = [pc EXCEPT !.usb = "slotSubmit"] /\ loc' = loc
        BY <2>0, <3>2 DEF SafetyClaim
      <4>2. PcOK'
        BY <4>1, StepType, Where, Contexts DEF TypeOK, UsbPoint, Claiming
      <4>3. QED
        BY <4>1, <4>2 DEF TypeOK, LocOK
    <3>3. QED
      BY <3>1, <3>2
  <2>3. QED
    BY <2>0, <2>1, <2>2
      DEF SafetyClaim, shared, env, Same, TypeOK, WordOK, RouteOK, CountsOK, TicketOK, ReleaseOK,
          BusOK, LedgerOK
<1>12. CASE \E i \in Interfaces : SafetySubmit(i)
  <2>0. PICK i \in Interfaces : SafetySubmit(i)
    BY <1>12
  <2>1. IfaceOK'
    <3> DEFINE flight == [kind |-> "safety", held |-> FALSE, cut |-> loc.usb.k.cut,
                          rel |-> loc.usb.k.rel, rid |-> loc.usb.k.id]
    <3>1. flight \in Flight
      BY Contexts, Reads DEF Flight, Ticket
    <3>2. \/ iface' = [iface EXCEPT ![i].slot = "empty"]
          \/ iface' = [iface EXCEPT ![i].held = FALSE, ![i].flight = flight, ![i].slot = "empty"]
      BY <2>0 DEF SafetySubmit
    <3> HIDE DEF flight
    <3>3. [iface[i] EXCEPT !.held = FALSE, !.flight = flight, !.slot = "empty"] \in Iface
      BY <3>1, Reads DEF Iface
    <3>4. CASE iface' = [iface EXCEPT ![i].slot = "empty"]
      BY <3>4 DEF TypeOK, IfaceOK, Iface
    <3>5. CASE iface' = [iface EXCEPT ![i].held = FALSE, ![i].flight = flight, ![i].slot = "empty"]
      BY <3>3, <3>5 DEF TypeOK, IfaceOK
    <3>6. QED
      BY <3>2, <3>4, <3>5
  <2>2. ReleaseOK'
    BY <2>0, NoteOutcomeType, Contexts, Reads
      DEF SafetySubmit, AfterSlots, NextSlot, TypeOK, ReleaseOK, Release
  <2>3. PcOK' /\ LocOK'
    BY <2>0, WalkType DEF SafetySubmit, TypeOK
  <2>4. BusOK'
    <3>1. [kind |-> "safety", held |-> FALSE] \in Wire
      BY DEF Wire
    <3>2. /\ wire' = wire \/ wire' = [wire EXCEPT ![i] = [kind |-> "safety", held |-> FALSE]]
          /\ host' = host
      BY <2>0 DEF SafetySubmit
    <3>3. QED
      BY <3>1, <3>2 DEF TypeOK, BusOK
  <2>5. QED
    BY <2>0, <2>1, <2>2, <2>3, <2>4
      DEF SafetySubmit, shared, env, Same, TypeOK, WordOK, RouteOK, CountsOK, TicketOK, LedgerOK
<1>13. CASE Settle
  <2>1. WordOK'
    BY <1>13, Contexts, Reads
      DEF Settle, TypeOK, WordOK, Word
  <2>2. PcOK'
    BY <1>13, StepType, Where, Contexts, Reads
      DEF Settle, TypeOK, UsbPoint, Claiming
  <2>3. LocOK'
    <3>1. loc' = loc \/ Keep("usb", NoLocals)
      BY <1>13 DEF Settle
    <3>2. QED
      BY <3>1, KeepType, Blank, Contexts DEF TypeOK, LocOK
  <2>4. QED
    BY <1>13, <2>1, <2>2, <2>3
      DEF Settle, shared, env, Same, TypeOK, RouteOK, CountsOK, IfaceOK, TicketOK, ReleaseOK,
          BusOK, LedgerOK
<1>14. CASE SettleAgain
  <2>1. WordOK'
    BY <1>14, Contexts, Reads
      DEF SettleAgain, TypeOK, WordOK, Word
  <2>2. PcOK'
    BY <1>14, AtType, Where, Contexts, Reads
      DEF SettleAgain, TypeOK, UsbPoint, Claiming
  <2>3. LocOK'
    BY <1>14, Blank, KeepType, Where, Contexts, Reads
      DEF SettleAgain, TypeOK, Local
  <2>4. QED
    BY <1>14, <2>1, <2>2, <2>3
      DEF SettleAgain, shared, env, Same, TypeOK, RouteOK, CountsOK, IfaceOK, TicketOK, ReleaseOK,
          BusOK, LedgerOK
<1>15. QED
  BY <1>1, <1>2, <1>3, <1>4, <1>5, <1>6, <1>7, <1>8, <1>9, <1>10, <1>11, <1>12, <1>13,
     <1>14 DEF PassStep

LEMMA CallbackTypes ==
    ASSUME TypeOK, Same, CallbackStep
    PROVE  TypeOK'
<1>1. CASE \E i \in Interfaces : Complete(i)
  <2>0. PICK i \in Interfaces : Complete(i)
    BY <1>1
  <2>1. IfaceOK'
    <3>1. CASE ~OwnFlight(i)
      BY <2>0, <3>1 DEF Complete, TypeOK, IfaceOK
    <3>2. CASE OwnFlight(i)
      <4>1. iface[i].flight \in Flight
        BY <3>2, Reads DEF OwnFlight, Iface
      <4>2. iface[i].flight.held \in BOOLEAN /\ iface[i] \in Iface /\ iface \in [Interfaces -> Iface]
        BY <4>1, Reads DEF Flight, TypeOK, IfaceOK
      <4>3. PICK held, safety \in BOOLEAN :
              iface' = [iface EXCEPT ![i].unc = FALSE, ![i].conf = iface[i].flight.held,
                                     ![i].held = held, ![i].safety = safety]
        BY <2>0, <3>2, <4>2 DEF Complete, Iface
      <4>4. QED
        BY <4>2, <4>3 DEF IfaceOK, Iface
    <3>3. QED
      BY <3>1, <3>2
  <2>2. PcOK'
    <3>1. CASE ~OwnFlight(i)
      BY <2>0, <3>1 DEF Complete, TypeOK, PcOK
    <3>2. CASE OwnFlight(i)
      <4>1. pc' = [pc EXCEPT !.usb = "complete"]
        BY <2>0, <3>2 DEF Complete
      <4>2. QED
        BY <4>1, StepType, Where, Contexts DEF TypeOK, UsbPoint
    <3>3. QED
      BY <3>1, <3>2
  <2>3. LocOK'
    <3>1. CASE ~OwnFlight(i)
      BY <2>0, <3>1 DEF Complete, TypeOK, LocOK
    <3>2. CASE OwnFlight(i)
      <4>1. LET b == iface[i].flight.kind = "safety" IN
              Keep("usb", [NoLocals EXCEPT !.i = i, !.ok = b])
        BY <2>0, <3>2 DEF Complete
      <4>2. LET v == [NoLocals EXCEPT !.i = i, !.ok = (iface[i].flight.kind = "safety")] IN
              v \in Local /\ v.ret = "idle"
        BY Blank DEF Local
      <4>3. QED
        BY <4>1, <4>2, KeepType, Blank, Contexts DEF TypeOK
    <3>3. QED
      BY <3>1, <3>2
  <2>4. BusOK'
    BY <2>0, TakeType, Contexts, Reads
      DEF Complete, TypeOK, BusOK, Wire
  <2>5. QED
    BY <2>0, <2>1, <2>2, <2>3, <2>4
      DEF Complete, shared, env, Same, TypeOK, WordOK, RouteOK, CountsOK, TicketOK, ReleaseOK,
          LedgerOK
<1>2. CASE \E i \in Interfaces : Fail(i)
  <2>0. PICK i \in Interfaces : Fail(i)
    BY <1>2
  <2>1. WordOK'
    BY <2>0, WordTypes, Contexts, Reads
      DEF Fail, TypeOK, WordOK, Word
  <2>2. IfaceOK'
    <3>1. CASE ~OwnFlight(i)
      BY <2>0, <3>1 DEF Fail, TypeOK, IfaceOK
    <3>2. CASE OwnFlight(i)
      <4>1. iface' = [iface EXCEPT ![i].unc = TRUE, ![i].safety = TRUE]
        BY <2>0, <3>2 DEF Fail
      <4>2. [iface[i] EXCEPT !.unc = TRUE, !.safety = TRUE] \in Iface
        BY Reads DEF Iface
      <4>3. QED
        BY <4>1, <4>2 DEF TypeOK, IfaceOK
    <3>3. QED
      BY <3>1, <3>2
  <2>3. ReleaseOK'
    BY <2>0, NoteOutcomeType, Contexts, Reads
      DEF Fail, TypeOK, ReleaseOK, Release
  <2>4. PcOK'
    <3>1. CASE ~OwnFlight(i)
      BY <2>0, <3>1 DEF Fail, TypeOK, PcOK
    <3>2. CASE OwnFlight(i)
      <4>1. pc' = [pc EXCEPT !.usb = "failed"]
        BY <2>0, <3>2 DEF Fail
      <4>2. QED
        BY <4>1, StepType, Where, Contexts DEF TypeOK, UsbPoint
    <3>3. QED
      BY <3>1, <3>2
  <2>5. LocOK'
    <3>1. CASE ~OwnFlight(i)
      BY <2>0, <3>1 DEF Fail, TypeOK, LocOK
    <3>2. CASE OwnFlight(i)
      <4>1. Keep("usb", [NoLocals EXCEPT !.i = i])
        BY <2>0, <3>2 DEF Fail
      <4>2. LET v == [NoLocals EXCEPT !.i = i] IN v \in Local /\ v.ret = "idle"
        BY Blank DEF Local
      <4>3. QED
        BY <4>1, <4>2, KeepType, Blank, Contexts DEF TypeOK
    <3>3. QED
      BY <3>1, <3>2
  <2>6. BusOK'
    BY <2>0, TakeType, Contexts, Reads
      DEF Fail, TypeOK, BusOK, Wire
  <2>7. QED
    BY <2>0, <2>1, <2>2, <2>3, <2>4, <2>5, <2>6
      DEF Fail, shared, env, Same, TypeOK, RouteOK, CountsOK, TicketOK, LedgerOK
<1>3. CASE CompleteClear
  <2>1. IfaceOK'
    BY <1>3, Contexts, Reads
      DEF CompleteClear, TypeOK, IfaceOK, Iface
  <2>2. PcOK'
    BY <1>3, AtType, Where, Contexts, Reads
      DEF CompleteClear, TypeOK, UsbPoint, Requesting
  <2>3. LocOK'
    BY <1>3, Blank, KeepType, Where, Contexts, Reads
      DEF CompleteClear, TypeOK, Local
  <2>4. QED
    BY <1>3, <2>1, <2>2, <2>3
      DEF CompleteClear, shared, env, Same, TypeOK, WordOK, RouteOK, CountsOK, TicketOK,
          ReleaseOK, BusOK, LedgerOK
<1>4. CASE CompleteConfirm
  <2>1. WordOK'
    BY <1>4, WordTypes, Contexts, Reads
      DEF CompleteConfirm, TypeOK, WordOK, Word
  <2>2. PcOK'
    BY <1>4, AtType, Where, Contexts, Reads
      DEF CompleteConfirm, TypeOK, UsbPoint, Requesting
  <2>3. QED
    BY <1>4, <2>1, <2>2
      DEF CompleteConfirm, shared, env, Same, TypeOK, RouteOK, CountsOK, IfaceOK, TicketOK,
          ReleaseOK, LocOK, BusOK, LedgerOK
<1>5. CASE FailClear
  <2>1. IfaceOK'
    BY <1>5, Contexts, Reads
      DEF FailClear, TypeOK, IfaceOK, Iface
  <2>2. PcOK'
    BY <1>5, AtType, Where, Contexts, Reads
      DEF FailClear, TypeOK, UsbPoint, Requesting
  <2>3. LocOK'
    BY <1>5, Blank, KeepType, Where, Contexts, Reads
      DEF FailClear, TypeOK, Local
  <2>4. QED
    BY <1>5, <2>1, <2>2, <2>3
      DEF FailClear, shared, env, Same, TypeOK, WordOK, RouteOK, CountsOK, TicketOK, ReleaseOK,
          BusOK, LedgerOK
<1>6. CASE Unmount
  <2>1. WordOK'
    <3>1. link.gen + 1 \in Nat
      BY Reads
    <3>2. QED
      BY <1>6, <3>1 DEF Unmount, TypeOK, WordOK, Word
  <2>2. RouteOK'
    BY <1>6, InvalidateRouteType, Contexts, Reads
      DEF Unmount, NoBits, TypeOK, RouteOK, Bits, Route
  <2>3. CountsOK'
    BY <1>6, RetireAuthorityType, Contexts, Reads
      DEF Unmount, NoBits, TypeOK, CountsOK, Request
  <2>4. TicketOK'
    BY <1>6, RetireAuthorityType, Contexts, Reads
      DEF Unmount, NoBits, TypeOK, TicketOK, Ticket, Outcomes, Active, Terminal
  <2>5. ReleaseOK'
    BY <1>6, RetireAuthorityType, Contexts, Reads
      DEF Unmount, NoBits, TypeOK, ReleaseOK, Release
  <2>6. PcOK'
    BY <1>6, AtType, Where, Contexts, Reads
      DEF Unmount, NoBits, TypeOK, UsbPoint, Requesting
  <2>7. LocOK'
    BY <1>6, Blank, KeepType, Where, Contexts, Reads
      DEF Unmount, NoBits, TypeOK, Local
  <2>8. BusOK'
    BY <1>6, LoseWireType, Contexts, Reads
      DEF Unmount, NoBits, TypeOK, BusOK, Wire
  <2>9. QED
    BY <1>6, <2>1, <2>2, <2>3, <2>4, <2>5, <2>6, <2>7, <2>8
      DEF Unmount, shared, env, Same, TypeOK, IfaceOK, LedgerOK
<1>7. CASE UnmountKeep
  <2>1. WordOK'
    BY <1>7, WordTypes, Contexts, Reads
      DEF UnmountKeep, TypeOK, WordOK, Word
  <2>2. IfaceOK'
    BY <1>7, Blank, IfaceTypes, Reads DEF UnmountKeep, IfaceOK
  <2>3. PcOK'
    BY <1>7, AtType, Where, Contexts, Reads
      DEF UnmountKeep, TypeOK, UsbPoint, Requesting
  <2>4. QED
    BY <1>7, <2>1, <2>2, <2>3
      DEF UnmountKeep, shared, env, Same, TypeOK, RouteOK, CountsOK, TicketOK, ReleaseOK, LocOK,
          BusOK, LedgerOK
<1>8. CASE UnmountClear
  <2>1. CountsOK'
    BY <1>8, NoRequestType, Contexts, Reads
      DEF UnmountClear, TypeOK, CountsOK, Request
  <2>2. PcOK'
    BY <1>8, AtType, Where, Contexts, Reads
      DEF UnmountClear, TypeOK, UsbPoint, Requesting
  <2>3. LocOK'
    BY <1>8, Blank, KeepType, Where, Contexts, Reads
      DEF UnmountClear, TypeOK, Local
  <2>4. QED
    BY <1>8, <2>1, <2>2, <2>3
      DEF UnmountClear, shared, env, Same, TypeOK, WordOK, RouteOK, IfaceOK, TicketOK, ReleaseOK,
          BusOK, LedgerOK
<1>9. CASE UnmountHidden
  <2>1. RouteOK'
    BY <1>9, Contexts, Reads
      DEF UnmountHidden, NoBits, TypeOK, RouteOK, Bits, Route
  <2>2. BusOK'
    BY <1>9, LoseWireType, Contexts, Reads
      DEF UnmountHidden, NoBits, TypeOK, BusOK, Wire
  <2>3. QED
    BY <1>9, <2>1, <2>2
      DEF UnmountHidden, shared, env, Same, TypeOK, WordOK, CountsOK, IfaceOK, TicketOK,
          ReleaseOK, PcOK, LocOK, LedgerOK
<1>10. CASE Mount
  <2>1. WordOK'
    BY <1>10, Contexts, Reads
      DEF Mount, TypeOK, WordOK, Word
  <2>2. CountsOK'
    BY <1>10, RetireAuthorityType, Contexts, Reads
      DEF Mount, TypeOK, CountsOK, Request
  <2>3. TicketOK'
    BY <1>10, RetireAuthorityType, Contexts, Reads
      DEF Mount, TypeOK, TicketOK, Ticket, Outcomes, Active, Terminal
  <2>4. ReleaseOK'
    BY <1>10, RetireAuthorityType, Contexts, Reads
      DEF Mount, TypeOK, ReleaseOK, Release
  <2>5. PcOK'
    BY <1>10, AtType, Where, Contexts, Reads
      DEF Mount, TypeOK, UsbPoint, Requesting
  <2>6. QED
    BY <1>10, <2>1, <2>2, <2>3, <2>4, <2>5
      DEF Mount, shared, env, Same, TypeOK, RouteOK, IfaceOK, LocOK, BusOK, LedgerOK
<1>11. CASE MountKeep
  <2>1. IfaceOK'
    BY <1>11, Blank, IfaceTypes, Reads DEF MountKeep, IfaceOK
  <2>2. PcOK'
    BY <1>11, AtType, Where, Contexts, Reads
      DEF MountKeep, TypeOK, UsbPoint, Requesting
  <2>3. LocOK'
    BY <1>11, Blank, KeepType, Where, Contexts, Reads
      DEF MountKeep, TypeOK, Local
  <2>4. QED
    BY <1>11, <2>1, <2>2, <2>3
      DEF MountKeep, shared, env, Same, TypeOK, WordOK, RouteOK, CountsOK, TicketOK, ReleaseOK,
          BusOK, LedgerOK
<1>12. CASE MountClear
  <2>1. RouteOK'
    BY <1>12, Contexts, Reads
      DEF MountClear, NoBits, TypeOK, RouteOK, Bits, Route
  <2>2. CountsOK'
    BY <1>12, NoRequestType, Contexts, Reads
      DEF MountClear, NoBits, TypeOK, CountsOK, Request
  <2>3. PcOK'
    BY <1>12, AtType, Where, Contexts, Reads
      DEF MountClear, NoBits, TypeOK, UsbPoint, Requesting
  <2>4. LocOK'
    BY <1>12, Blank, KeepType, Where, Contexts, Reads
      DEF MountClear, NoBits, TypeOK, Local
  <2>5. QED
    BY <1>12, <2>1, <2>2, <2>3, <2>4
      DEF MountClear, shared, env, Same, TypeOK, WordOK, IfaceOK, TicketOK, ReleaseOK, BusOK,
          LedgerOK
<1>13. CASE Suspend
  <2>1. WordOK'
    BY <1>13, Contexts, Reads
      DEF Suspend, TypeOK, WordOK, Word
  <2>2. RouteOK'
    BY <1>13, InvalidateRouteType, Contexts, Reads
      DEF Suspend, TypeOK, RouteOK, Bits, Route
  <2>3. CountsOK'
    BY <1>13, RetireAuthorityType, Contexts, Reads
      DEF Suspend, TypeOK, CountsOK, Request
  <2>4. TicketOK'
    BY <1>13, RetireAuthorityType, Contexts, Reads
      DEF Suspend, TypeOK, TicketOK, Ticket, Outcomes, Active, Terminal
  <2>5. ReleaseOK'
    BY <1>13, RetireAuthorityType, Contexts, Reads
      DEF Suspend, TypeOK, ReleaseOK, Release
  <2>6. PcOK'
    BY <1>13, AtType, Where, Contexts, Reads
      DEF Suspend, TypeOK, UsbPoint, Requesting
  <2>7. QED
    BY <1>13, <2>1, <2>2, <2>3, <2>4, <2>5, <2>6
      DEF Suspend, shared, env, Same, TypeOK, IfaceOK, LocOK, BusOK, LedgerOK
<1>14. CASE SuspendKeep
  <2>1. IfaceOK'
    BY <1>14, IfaceTypes, Contexts, Reads
      DEF SuspendKeep, TypeOK, IfaceOK, Iface
  <2>2. PcOK'
    BY <1>14, AtType, Where, Contexts, Reads
      DEF SuspendKeep, TypeOK, UsbPoint, Requesting
  <2>3. QED
    BY <1>14, <2>1, <2>2
      DEF SuspendKeep, shared, env, Same, TypeOK, WordOK, RouteOK, CountsOK, TicketOK, ReleaseOK,
          LocOK, BusOK, LedgerOK
<1>15. CASE SuspendBits
  <2>1. RouteOK'
    BY <1>15, Contexts, Reads
      DEF SuspendBits, TypeOK, RouteOK, Bits, Route
  <2>2. PcOK'
    BY <1>15, AtType, Where, Contexts, Reads
      DEF SuspendBits, TypeOK, UsbPoint, Requesting
  <2>3. QED
    BY <1>15, <2>1, <2>2
      DEF SuspendBits, shared, env, Same, TypeOK, WordOK, CountsOK, IfaceOK, TicketOK, ReleaseOK,
          LocOK, BusOK, LedgerOK
<1>16. CASE Resume
  <2>1. WordOK'
    BY <1>16, Contexts, Reads
      DEF Resume, TypeOK, WordOK, Word
  <2>2. RouteOK'
    BY <1>16, Contexts, Reads
      DEF Resume, TypeOK, RouteOK, Bits, Route
  <2>3. CountsOK'
    BY <1>16, Contexts, Reads
      DEF Resume, TypeOK, CountsOK, Request
  <2>4. TicketOK'
    BY <1>16, CancelWorkType, Contexts, Reads
      DEF Resume, TypeOK, TicketOK, Ticket, Outcomes, Active, Terminal
  <2>5. ReleaseOK'
    BY <1>16, CancelWorkType, Contexts, Reads
      DEF Resume, TypeOK, ReleaseOK, Release
  <2>6. QED
    BY <1>16, <2>1, <2>2, <2>3, <2>4, <2>5
      DEF Resume, shared, env, Same, TypeOK, IfaceOK, PcOK, LocOK, BusOK, LedgerOK
<1>17. QED
  BY <1>1, <1>2, <1>3, <1>4, <1>5, <1>6, <1>7, <1>8, <1>9, <1>10, <1>11, <1>12, <1>13,
     <1>14, <1>15, <1>16 DEF CallbackStep

LEMMA ExecutorTypes ==
    ASSUME TypeOK, Same, ExecutorStep
    PROVE  TypeOK'
<1>1. CASE Stall
  <2>1. RouteOK'
    BY <1>1, InvalidateRouteType, Contexts, Reads
      DEF Stall, Callbacks, TypeOK, RouteOK, Bits, Route
  <2>2. CountsOK'
    BY <1>1, RetireAuthorityType, Contexts, Reads
      DEF Stall, Callbacks, TypeOK, CountsOK, Request
  <2>3. TicketOK'
    BY <1>1, RetireAuthorityType, Contexts, Reads
      DEF Stall, Callbacks, TypeOK, TicketOK, Ticket, Outcomes, Active, Terminal
  <2>4. ReleaseOK'
    BY <1>1, RetireAuthorityType, Contexts, Reads
      DEF Stall, Callbacks, TypeOK, ReleaseOK, Release
  <2>5. PcOK'
    BY <1>1, AtType, Where, Contexts, Reads
      DEF Stall, Callbacks, TypeOK, ExecutorPoint, Requesting
  <2>6. QED
    BY <1>1, <2>1, <2>2, <2>3, <2>4, <2>5
      DEF Stall, shared, env, Same, TypeOK, WordOK, IfaceOK, LocOK, BusOK, LedgerOK
<1>2. CASE StallKeep
  <2>1. IfaceOK'
    BY <1>2, IfaceTypes, Contexts, Reads
      DEF StallKeep, TypeOK, IfaceOK, Iface
  <2>2. PcOK'
    BY <1>2, AtType, Where, Contexts, Reads
      DEF StallKeep, TypeOK, ExecutorPoint, Requesting
  <2>3. QED
    BY <1>2, <2>1, <2>2
      DEF StallKeep, shared, env, Same, TypeOK, WordOK, RouteOK, CountsOK, TicketOK, ReleaseOK,
          LocOK, BusOK, LedgerOK
<1>3. CASE StallBits
  <2>1. RouteOK'
    BY <1>3, Contexts, Reads
      DEF StallBits, TypeOK, RouteOK, Bits, Route
  <2>2. PcOK'
    BY <1>3, AtType, Where, Contexts, Reads
      DEF StallBits, TypeOK, ExecutorPoint, Requesting
  <2>3. QED
    BY <1>3, <2>1, <2>2
      DEF StallBits, shared, env, Same, TypeOK, WordOK, CountsOK, IfaceOK, TicketOK, ReleaseOK,
          LocOK, BusOK, LedgerOK
<1>4. CASE \E action \in {"detach", "route"} : SafetyBegin(action)
  <2>0. PICK action \in {"detach", "route"} : SafetyBegin(action)
    BY <1>4
  <2>1. WordOK'
    BY <2>0, WordTypes, Contexts, Reads
      DEF SafetyBegin, TypeOK, WordOK, Word
  <2>2. IfaceOK'
    <3>1. \A i \in Interfaces, b \in BOOLEAN : [iface[i] EXCEPT !.safety = b] \in Iface
      BY Reads DEF Iface
    <3>2. \A i \in Interfaces : \E b \in BOOLEAN : iface'[i] = [iface[i] EXCEPT !.safety = b]
      BY <2>0 DEF SafetyBegin
    <3>3. iface' = [i \in Interfaces |-> iface'[i]]
      BY <2>0 DEF SafetyBegin
    <3>4. QED
      BY <3>1, <3>2, <3>3 DEF IfaceOK
  <2>3. PcOK'
    BY <2>0, StepType, Where, Contexts, Reads
      DEF SafetyBegin, TypeOK, ExecutorPoint, Requesting
  <2>4. LocOK'
    <3>1. /\ [NoLocals EXCEPT !.ret = "await", !.rq = link.gen] \in Local
          /\ [NoLocals EXCEPT !.ret = "await", !.rq = link.gen].ret = "await"
      BY Blank, Reads DEF Local
    <3>2. loc' = loc \/ Keep("executor", [NoLocals EXCEPT !.ret = "await", !.rq = link.gen])
      BY <2>0 DEF SafetyBegin
    <3>3. "executor" \in Tasks /\ "await" \in Returns["executor"]
      BY Where, Contexts
    <3>4. QED
      BY <3>1, <3>2, <3>3, KeepType DEF TypeOK, LocOK
  <2>5. QED
    BY <2>0, <2>1, <2>2, <2>3, <2>4
      DEF SafetyBegin, shared, env, Same, TypeOK, RouteOK, CountsOK, TicketOK, ReleaseOK, BusOK,
          LedgerOK
<1>5. CASE RouteOvertaken
  <2>1. PcOK'
    <3>1. pc' = [pc EXCEPT !.executor = "doubtFlags"] \/ pc' = [pc EXCEPT !.queue = "empty"]
      BY <1>5 DEF RouteOvertaken
    <3>2. "executor" \in Tasks /\ "doubtFlags" \in Points["executor"]
      BY Where, Contexts DEF ExecutorPoint
    <3>3. QED
      BY <3>1, <3>2, StepType, QueueType DEF TypeOK
  <2>2. LocOK'
    <3>1. /\ [NoLocals EXCEPT !.rq = link.gen] \in Local
          /\ [NoLocals EXCEPT !.rq = link.gen].ret = "idle"
      BY Blank, Reads DEF Local
    <3>2. loc' = loc \/ Keep("executor", [NoLocals EXCEPT !.rq = link.gen])
      BY <1>5 DEF RouteOvertaken
    <3>3. QED
      BY <3>1, <3>2, KeepType, Blank, Contexts DEF TypeOK, LocOK
  <2>3. QED
    BY <1>5, <2>1, <2>2
      DEF RouteOvertaken, shared, env, Same, TypeOK, WordOK, RouteOK, CountsOK, IfaceOK, TicketOK,
          ReleaseOK, BusOK, LedgerOK
<1>6. CASE Await
  <2>1. PcOK'
    BY <1>6, AtType, Where, Contexts, Reads
      DEF Await, TypeOK, ExecutorPoint, Requesting
  <2>2. QED
    BY <1>6, <2>1
      DEF Await, shared, env, Same, TypeOK, WordOK, RouteOK, CountsOK, IfaceOK, TicketOK,
          ReleaseOK, LocOK, BusOK, LedgerOK
<1>7. CASE AwaitTimeout
  <2>1. PcOK'
    BY <1>7, AtType, Where, Contexts, Reads
      DEF AwaitTimeout, TypeOK, ExecutorPoint, Requesting
  <2>2. QED
    BY <1>7, <2>1
      DEF AwaitTimeout, shared, env, Same, TypeOK, WordOK, RouteOK, CountsOK, IfaceOK, TicketOK,
          ReleaseOK, LocOK, BusOK, LedgerOK
<1>8. CASE DoubtFlags
  <2>1. IfaceOK'
    BY <1>8, IfaceTypes, Contexts, Reads
      DEF DoubtFlags, TypeOK, IfaceOK, Iface
  <2>2. PcOK'
    BY <1>8, AtType, Where, Contexts, Reads
      DEF DoubtFlags, TypeOK, ExecutorPoint, Requesting
  <2>3. QED
    BY <1>8, <2>1, <2>2
      DEF DoubtFlags, shared, env, Same, TypeOK, WordOK, RouteOK, CountsOK, TicketOK, ReleaseOK,
          LocOK, BusOK, LedgerOK
<1>9. CASE DoubtWord
  <2>1. WordOK'
    BY <1>9, WordTypes, Contexts, Reads
      DEF DoubtWord, TypeOK, WordOK, Word
  <2>2. PcOK'
    BY <1>9, AtType, Where, Contexts, Reads
      DEF DoubtWord, TypeOK, ExecutorPoint, Requesting
  <2>3. QED
    BY <1>9, <2>1, <2>2
      DEF DoubtWord, shared, env, Same, TypeOK, RouteOK, CountsOK, IfaceOK, TicketOK, ReleaseOK,
          LocOK, BusOK, LedgerOK
<1>10. CASE RouteDone
  <2>1. RouteOK'
    BY <1>10, InvalidateRouteType, Contexts, Reads
      DEF RouteDone, TypeOK, RouteOK, Bits, Route
  <2>2. PcOK'
    BY <1>10, QueueType, Where, Contexts, Reads
      DEF RouteDone, TypeOK, ExecutorPoint, Requesting
  <2>3. LocOK'
    BY <1>10, Blank, KeepType, Where, Contexts, Reads
      DEF RouteDone, TypeOK, Local
  <2>4. QED
    BY <1>10, <2>1, <2>2, <2>3
      DEF RouteDone, shared, env, Same, TypeOK, WordOK, CountsOK, IfaceOK, TicketOK, ReleaseOK,
          BusOK, LedgerOK
<1>11. CASE Uninstall
  <2>1. RouteOK'
    BY <1>11, InvalidateRouteType, Contexts, Reads
      DEF Uninstall, NoBits, TypeOK, RouteOK, Bits, Route
  <2>2. IfaceOK'
    BY <1>11, Blank, IfaceTypes, Reads DEF Uninstall, IfaceOK
  <2>3. TicketOK'
    BY <1>11, CancelWorkType, Contexts, Reads
      DEF Uninstall, NoBits, TypeOK, TicketOK, Ticket, Outcomes, Active, Terminal
  <2>4. ReleaseOK'
    BY <1>11, CancelWorkType, Contexts, Reads
      DEF Uninstall, NoBits, TypeOK, ReleaseOK, Release
  <2>5. PcOK'
    BY <1>11, StepType, Where, Contexts, Reads
      DEF Uninstall, NoBits, TypeOK, ExecutorPoint, Requesting
  <2>6. BusOK'
    BY <1>11, LoseWireType, Contexts, Reads
      DEF Uninstall, NoBits, TypeOK, BusOK, Wire
  <2>7. QED
    BY <1>11, <2>1, <2>2, <2>3, <2>4, <2>5, <2>6
      DEF Uninstall, shared, env, Same, TypeOK, WordOK, CountsOK, LocOK, LedgerOK
<1>12. CASE UninstallClear
  <2>1. WordOK'
    BY <1>12, Contexts, Reads
      DEF UninstallClear, TypeOK, WordOK, Word
  <2>2. CountsOK'
    BY <1>12, NoRequestType, Contexts, Reads
      DEF UninstallClear, TypeOK, CountsOK, Request
  <2>3. PcOK'
    BY <1>12, QueueType, Where, Contexts, Reads
      DEF UninstallClear, TypeOK, ExecutorPoint, Requesting
  <2>4. LocOK'
    BY <1>12, Blank, KeepType, Where, Contexts, Reads
      DEF UninstallClear, TypeOK, Local
  <2>5. QED
    BY <1>12, <2>1, <2>2, <2>3, <2>4
      DEF UninstallClear, shared, env, Same, TypeOK, RouteOK, IfaceOK, TicketOK, ReleaseOK, BusOK,
          LedgerOK
<1>13. QED
  BY <1>1, <1>2, <1>3, <1>4, <1>5, <1>6, <1>7, <1>8, <1>9, <1>10, <1>11, <1>12 DEF ExecutorStep

LEMMA TypeInit == Init => TypeOK
<1> SUFFICES ASSUME Init PROVE TypeOK
  OBVIOUS
<1>1. WordOK /\ RouteOK /\ CountsOK
  BY DEF Init, WordOK, Word, RouteOK, Bits, Route, CountsOK, Request
<1>2. IfaceOK /\ TicketOK /\ BusOK
  BY Blank DEF Init, IfaceOK, TicketOK, BusOK
<1>3. ReleaseOK
  BY DEF Init, ReleaseOK, Release, Identity
<1>4. PcOK /\ LocOK
  BY Blank, Where, Contexts DEF Init, PcOK, LocOK, AnyPoint
<1>5. LedgerOK
  BY DEF Init, LedgerOK, Told, Outcomes
<1>6. QED
  BY <1>1, <1>2, <1>3, <1>4, <1>5 DEF TypeOK

LEMMA TypeStep ==
    ASSUME TypeOK, [Next]_vars
    PROVE  TypeOK'
<1>1. CASE Next
  <2>1. Same
    BY <1>1, Steps
  <2>2. CASE \E p \in Producers : ProducerStep(p)
    BY <2>1, <2>2, ProducerTypes
  <2>3. CASE \E k \in {"control", "usb", "executor"} : RequestStep(k)
    BY <2>1, <2>3, RequestTypes
  <2>4. CASE ControlStep
    BY <2>1, <2>4, ControlTypes
  <2>5. CASE PassStep
    BY <2>1, <2>5, PassTypes
  <2>6. CASE CallbackStep
    BY <2>1, <2>6, CallbackTypes
  <2>7. CASE ExecutorStep
    BY <2>1, <2>7, ExecutorTypes
  <2>8. QED
    BY <1>1, <2>2, <2>3, <2>4, <2>5, <2>6, <2>7, Steps
<1>2. CASE UNCHANGED vars
  BY <1>2 DEF vars, shared, env, TypeOK, WordOK, RouteOK, CountsOK, IfaceOK, TicketOK, ReleaseOK,
       PcOK, LocOK, BusOK, LedgerOK
<1>3. QED
  BY <1>1, <1>2

\* The slots, tickets, release record and lifecycle words that the control,
\* sequence, TinyUSB and executor tasks share, and what each of them carries
\* between its steps, keep their types.
THEOREM TypeCorrect == Spec => []TypeOK
<1>1. QED
  BY TypeInit, TypeStep, PTL DEF Spec

-----------------------------------------------------------------------------
(* What is known of a report by its id.                                    *)

Live      == Active \union {"writingCanceled"}
Unsent    == {"writing", "published", "writingCanceled", "canceled", "notReady"}
Silent    == {"none", "notReadyClaimed", "unknown"}
AtHead(p) == pc[p] \in {"fence", "publish"}

\* An id is given out once.
Numbered ==
  /\ \A n \in DOMAIN answer : n >= next.id => answer[n] = "none"
  /\ \A n \in sent : n < next.id
  /\ \A i \in Interfaces : /\ ticket[i].id < next.id
                           /\ ticket[i].st # "free" => ticket[i].id \in 1 .. inst.reports
  /\ \A i, j \in Interfaces : ticket[i].id = ticket[j].id => i = j \/ ticket[i].id = 0
  /\ \A p \in Producers : pc[p] \in Producing => /\ loc[p].k.id \in 1 .. inst.reports
                                                 /\ loc[p].k.id < next.id

\* A ticket being written is its producer's ...
Written ==
  /\ \A p \in Producers : AtHead(p) => /\ ticket[loc[p].i].st \in {"writing", "writingCanceled"}
                                       /\ ticket[loc[p].i].id = loc[p].k.id
  /\ \A p, q \in Producers : AtHead(p) /\ AtHead(q) /\ loc[p].i = loc[q].i => p = q

\* ... and a claimed one the TinyUSB task's.
Claimed ==
  /\ pc.usb \in Claiming => LET k == ticket[loc.usb.i] IN
       k.st = "claimed" /\ k.id = loc.usb.k.id /\ k.seq = loc.usb.k.seq
  /\ \A i \in Interfaces : ticket[i].st = "claimed" => pc.usb \in Claiming /\ loc.usb.i = i

\* Where a ticket is says whether its report left.
Departed ==
  \A i \in Interfaces : LET k == ticket[i] IN
    /\ k.st \in Unsent => k.id \notin sent
    /\ k.st = "submitted" => k.id \in sent
    /\ k.st = "claimed" => (k.id \in sent <=> pc.usb = "terminal")

\* No result is out while the report may still leave.
Untold ==
  \A i \in Interfaces : ticket[i].st \in Live => answer[ticket[i].id] \in Silent

Ledger == Numbered /\ Written /\ Claimed /\ Departed /\ Untold /\ AnswerTrue

\* Once a sequence is admitted, what is under way is its own.
Owned ==
  loc.sequence.s.seq # 0 /\ seq = loc.sequence.s.seq =>
    \A i \in Interfaces : ticket[i].st \in Live => ticket[i].seq = seq

Inv == TypeOK /\ Ledger /\ Owned

-----------------------------------------------------------------------------
(* Steps beside the reports: at most they cancel a ticket.                 *)

\* How a ticket may change under its producer.
Withdrawn ==
  \A i \in Interfaces : LET k == ticket[i] k2 == ticket'[i] IN
    /\ k2.id = k.id /\ k2.seq = k.seq
    /\ \/ k2.st = k.st
       \/ k.st = "writing" /\ k2.st = "writingCanceled"
       \/ k.st = "published" /\ k2.st = "canceled"

LEMMA CancelTicketsWithdraw ==
    ASSUME TicketOK, NEW out, CancelTickets(out)
    PROVE  Withdrawn
<1>1. \A k \in Ticket : LET k2 == Canceled(k, out) IN
        /\ k2.id = k.id /\ k2.seq = k.seq
        /\ \/ k2.st = k.st
           \/ k.st = "writing" /\ k2.st = "writingCanceled"
           \/ k.st = "published" /\ k2.st = "canceled"
  BY DEF Canceled, Ticket
<1>2. QED
  BY <1>1 DEF TicketOK, CancelTickets, Withdrawn

LEMMA CancelWorkWithdraw ==
    ASSUME TicketOK, CancelWork \/ RetireAuthority
    PROVE  Withdrawn
BY CancelTicketsWithdraw DEF CancelWork, RetireAuthority

LEMMA KeptWithdraw ==
    ASSUME ticket' = ticket
    PROVE  Withdrawn
BY DEF Withdrawn

\* No report is begun, answered, claimed or sent.
Aside ==
  /\ next'.id = next.id /\ sent' = sent /\ answer' = answer
  /\ Withdrawn
  /\ \A p \in Producers : pc[p] \in Producing \/ pc'[p] \in Producing =>
       pc'[p] = pc[p] /\ loc'[p].i = loc[p].i /\ loc'[p].k = loc[p].k
  /\ pc.usb \in Claiming \/ pc'.usb \in Claiming => pc'.usb = pc.usb /\ loc'.usb = loc.usb

LEMMA AsideLedger ==
    ASSUME TypeOK, TypeOK', Ledger, Aside, Same
    PROVE  Ledger'
<1>0. /\ \A i \in Interfaces : /\ ticket'[i].id = ticket[i].id /\ ticket'[i].seq = ticket[i].seq
                               /\ \/ ticket'[i].st = ticket[i].st
                                  \/ /\ ticket[i].st = "writing"
                                     /\ ticket'[i].st = "writingCanceled"
                                  \/ ticket[i].st = "published" /\ ticket'[i].st = "canceled"
      /\ \A p \in Producers : pc'[p] \in Producing =>
           pc'[p] = pc[p] /\ loc'[p].i = loc[p].i /\ loc'[p].k = loc[p].k
      /\ \A p \in Producers : loc[p].i \in Interfaces
      /\ loc.usb.i \in Interfaces
  BY Contexts, Reads DEF Aside, Withdrawn
<1>1. Numbered'
  BY <1>0 DEF Ledger, Numbered, Aside, Same
<1>2. Written'
  BY <1>0 DEF Ledger, Written, AtHead, Producing
<1>3. Claimed'
  BY <1>0 DEF Ledger, Claimed, Aside
<1>4. Departed'
  BY <1>0 DEF Ledger, Departed, Claimed, Unsent, Aside, Claiming
<1>5. Untold'
  BY <1>0 DEF Ledger, Untold, Live, Active, Aside
<1>6. AnswerTrue'
  BY DEF Ledger, AnswerTrue, Aside
<1>7. QED
  BY <1>1, <1>2, <1>3, <1>4, <1>5, <1>6 DEF Ledger

\* And the sequence that holds the route keeps it, or loses it.
Entrusted ==
  \/ loc'.sequence.s.seq = 0
  \/ loc'.sequence.s = loc.sequence.s /\ seq' \in {seq, 0}

LEMMA AsideOwned ==
    ASSUME Owned, Withdrawn, Entrusted
    PROVE  Owned'
BY DEF Owned, Withdrawn, Entrusted, Live, Active

\* A release request.
LEMMA RequestAside ==
    ASSUME TypeOK, NEW k \in {"control", "usb", "executor"}, RequestStep(k)
    PROVE  Aside /\ Entrusted
<1> USE Contexts, Reads, Where
<1>1. CASE ReleaseIdentity(k)
  BY <1>1, KeptWithdraw
    DEF ReleaseIdentity, At, Aside, Entrusted, Producing, Claiming, TypeOK, PcOK, LocOK, env
<1>2. CASE ReleaseBarrier(k)
  BY <1>2, CancelTicketsWithdraw
    DEF ReleaseBarrier, At, Aside, Entrusted, Producing, Claiming, TypeOK, PcOK, LocOK, env
<1>3. CASE ReleaseFlag(k)
  BY <1>3, KeptWithdraw
    DEF ReleaseFlag, At, Aside, Entrusted, Producing, Claiming, TypeOK, PcOK, LocOK, env
<1>4. CASE ReleaseUnavailable(k)
  BY <1>4, KeptWithdraw
    DEF ReleaseUnavailable, At, Aside, Entrusted, Producing, Claiming, TypeOK, PcOK, LocOK, env
<1>5. QED
  BY <1>1, <1>2, <1>3, <1>4 DEF RequestStep

\* The rest of the control task.
LEMMA ControlAside ==
    ASSUME TypeOK, ControlStep
    PROVE  Aside /\ (Entrusted \/ SequenceAdmit)
<1> USE Contexts, Reads, Where
<1>1. CASE SequenceClaim
  BY <1>1, KeptWithdraw
    DEF SequenceClaim, At, Keep, NoSequence, Aside, Entrusted, Producing, Claiming, TypeOK, PcOK,
        LocOK, env
<1>2. CASE SequenceAdmit
  <2>1. pc' = [pc EXCEPT !.control = "idle"] /\ pc.control = "sequenceAdmit"
    BY <1>2 DEF SequenceAdmit, At
  <2>2. /\ loc'.usb = loc.usb
        /\ loc'.sequence.i = loc.sequence.i /\ loc'.sequence.k = loc.sequence.k
    BY <1>2 DEF SequenceAdmit, TypeOK, LocOK, Local
  <2>3. QED
    BY <1>2, <2>1, <2>2, KeptWithdraw
      DEF SequenceAdmit, Aside, Producing, TypeOK, PcOK, env
<1>3. CASE EndSequence
  BY <1>3, KeptWithdraw
    DEF EndSequence, Keep, NoLocals, NoSequence, Aside, Entrusted, Producing, Claiming, TypeOK,
        PcOK, LocOK, env
<1>4. CASE RequestRelease
  BY <1>4, KeptWithdraw
    DEF RequestRelease, At, Aside, Entrusted, Producing, Claiming, TypeOK, PcOK, LocOK, env,
        shared
<1>5. CASE PublicRelease
  BY <1>5, KeptWithdraw
    DEF PublicRelease, At, Keep, NoLocals, NoSequence, Aside, Entrusted, Producing, Claiming,
        TypeOK, PcOK, LocOK, env, shared
<1>6. CASE ReleaseAdmit
  BY <1>6, KeptWithdraw
    DEF ReleaseAdmit, At, Keep, NoLocals, NoSequence, Aside, Entrusted, Producing, Claiming,
        TypeOK, PcOK, LocOK, env
<1>7. CASE ScanTicket
  BY <1>7, KeptWithdraw
    DEF ScanTicket, At, Keep, Aside, Entrusted, Producing, Claiming, TypeOK, PcOK, LocOK, env,
        shared
<1>8. CASE ScanFlags
  <2>1. /\ pc' = [pc EXCEPT !.control = "scanTicket"] \/ pc' = [pc EXCEPT !.control = "open"]
        /\ pc.control = "scanFlags"
    BY <1>8 DEF ScanFlags
  <2>2. loc'.usb = loc.usb /\ loc'.sequence = loc.sequence
    BY <1>8 DEF ScanFlags, Keep, TypeOK, LocOK
  <2>3. ticket' = ticket /\ seq' = seq /\ next' = next /\ sent' = sent /\ answer' = answer
    BY <1>8 DEF ScanFlags, env
  <2>4. QED
    BY <2>1, <2>2, <2>3, KeptWithdraw DEF Aside, Entrusted, Producing, TypeOK, PcOK
<1>9. CASE ReleaseOpen
  BY <1>9, KeptWithdraw
    DEF ReleaseOpen, At, Aside, Entrusted, Producing, Claiming, TypeOK, PcOK, LocOK, env
<1>10. CASE ReleaseFinish
  BY <1>10, KeptWithdraw
    DEF ReleaseFinish, At, Aside, Entrusted, Producing, Claiming, TypeOK, PcOK, LocOK, env
<1>11. CASE DetachAccept
  BY <1>11, KeptWithdraw
    DEF DetachAccept, Aside, Entrusted, Producing, Claiming, TypeOK, PcOK, LocOK, env
<1>12. CASE DetachRetire
  BY <1>12, CancelWorkWithdraw
    DEF DetachRetire, At, Aside, Entrusted, Producing, Claiming, TypeOK, PcOK, LocOK, env
<1>13. CASE DetachKeep
  BY <1>13, KeptWithdraw
    DEF DetachKeep, At, Aside, Entrusted, Producing, Claiming, TypeOK, PcOK, LocOK, env
<1>14. CASE Attach
  BY <1>14, CancelWorkWithdraw
    DEF Attach, Aside, Entrusted, Producing, Claiming, TypeOK, PcOK, LocOK, env
<1>15. CASE RouteUsb
  BY <1>15, CancelWorkWithdraw
    DEF RouteUsb, At, Keep, NoLocals, NoSequence, Aside, Entrusted, Producing, Claiming, TypeOK,
        PcOK, LocOK, env
<1>16. CASE RouteCommit
  BY <1>16, KeptWithdraw
    DEF RouteCommit, At, Keep, NoLocals, NoSequence, Aside, Entrusted, Producing, Claiming,
        TypeOK, PcOK, LocOK, env
<1>17. CASE RouteNone
  BY <1>17, KeptWithdraw
    DEF RouteNone, At, Aside, Entrusted, Producing, Claiming, TypeOK, PcOK, LocOK, env
<1>18. CASE NoneRetire
  BY <1>18, CancelWorkWithdraw
    DEF NoneRetire, At, Aside, Entrusted, Producing, Claiming, TypeOK, PcOK, LocOK, env
<1>19. CASE NoneKeep
  BY <1>19, KeptWithdraw
    DEF NoneKeep, Aside, Entrusted, Producing, Claiming, TypeOK, PcOK, LocOK, env
<1>20. QED
  BY <1>1, <1>2, <1>3, <1>4, <1>5, <1>6, <1>7, <1>8, <1>9, <1>10, <1>11, <1>12, <1>13,
     <1>14, <1>15, <1>16, <1>17, <1>18, <1>19 DEF ControlStep

\* What the TinyUSB task does with a ticket.
TicketStep ==
  \E i \in Interfaces : TicketClaim(i) \/ TicketCheck(i) \/ TicketSubmit(i) \/ TicketTerminal(i)

\* A pass, outside its tickets.
LEMMA SlotAside ==
    ASSUME TypeOK, PassStep, ~TicketStep
    PROVE  Aside /\ Entrusted
<1> USE Contexts, Reads, Where
<1>1. CASE SofStart
  BY <1>1, KeptWithdraw
    DEF SofStart, Keep, NoLocals, NoSequence, Aside, Entrusted, Producing, Claiming, TypeOK, PcOK,
        LocOK, env
<1>2. CASE SofTake
  BY <1>2, KeptWithdraw
    DEF SofTake, At, Keep, Aside, Entrusted, Producing, Claiming, TypeOK, PcOK, LocOK, env
<1>3. CASE SofMark
  BY <1>3, KeptWithdraw
    DEF SofMark, At, Aside, Entrusted, Producing, Claiming, TypeOK, PcOK, LocOK, env
<1>4. CASE TicketNone
  BY <1>4, KeptWithdraw
    DEF TicketNone, Keep, NoLocals, NoSequence, Goto, Aside, Entrusted, Producing, Claiming,
        TypeOK, PcOK, LocOK, env, shared
<1>5. CASE SafetyNone
  BY <1>5, KeptWithdraw
    DEF SafetyNone, Keep, NoLocals, NoSequence, Goto, AfterSlots, Aside, Entrusted, Producing,
        Claiming, TypeOK, PcOK, LocOK, env, shared
<1>6. CASE \E i \in Interfaces : SafetyQueue(i)
  <2>0. PICK i \in Interfaces : SafetyQueue(i)
    BY <1>6
  <2>1. pc.usb \notin Claiming /\ pc'.usb \notin Claiming /\ \A p \in Producers : pc'[p] = pc[p]
    BY <2>0 DEF SafetyQueue, NextSlot, Goto, AfterSlots, Claiming, TypeOK, PcOK
  <2>2. loc'.control = loc.control /\ loc'.sequence = loc.sequence
    BY <2>0 DEF SafetyQueue, NextSlot, Goto, AfterSlots, Keep, TypeOK, LocOK
  <2>3. ticket' = ticket /\ seq' = seq /\ next' = next /\ sent' = sent /\ answer' = answer
    BY <2>0 DEF SafetyQueue, env
  <2>4. QED
    BY <2>1, <2>2, <2>3, KeptWithdraw DEF Aside, Entrusted
<1>7. CASE \E i \in Interfaces : SafetyClaim(i)
  <2>0. PICK i \in Interfaces : SafetyClaim(i)
    BY <1>7
  <2>1. pc.usb \notin Claiming /\ pc'.usb \notin Claiming /\ \A p \in Producers : pc'[p] = pc[p]
    BY <2>0 DEF SafetyClaim, NextSlot, Goto, AfterSlots, Claiming, TypeOK, PcOK
  <2>2. loc'.control = loc.control /\ loc'.sequence = loc.sequence
    BY <2>0 DEF SafetyClaim, NextSlot, Goto, AfterSlots, Keep, TypeOK, LocOK
  <2>3. ticket' = ticket /\ seq' = seq /\ next' = next /\ sent' = sent /\ answer' = answer
    BY <2>0 DEF SafetyClaim, env
  <2>4. QED
    BY <2>1, <2>2, <2>3, KeptWithdraw DEF Aside, Entrusted
<1>8. CASE \E i \in Interfaces : SafetySubmit(i)
  <2>0. PICK i \in Interfaces : SafetySubmit(i)
    BY <1>8
  <2>1. pc.usb \notin Claiming /\ pc'.usb \notin Claiming /\ \A p \in Producers : pc'[p] = pc[p]
    BY <2>0 DEF SafetySubmit, NextSlot, Goto, AfterSlots, Claiming, TypeOK, PcOK
  <2>2. loc'.control = loc.control /\ loc'.sequence = loc.sequence
    BY <2>0 DEF SafetySubmit, NextSlot, Goto, AfterSlots, Keep, TypeOK, LocOK
  <2>3. ticket' = ticket /\ seq' = seq /\ next' = next /\ sent' = sent /\ answer' = answer
    BY <2>0 DEF SafetySubmit
  <2>4. QED
    BY <2>1, <2>2, <2>3, KeptWithdraw DEF Aside, Entrusted
<1>9. CASE Settle
  <2>1. pc.usb = "settle" /\ (pc' = [pc EXCEPT !.usb = "settleAgain"] \/ pc' = [pc EXCEPT !.usb = "idle"])
    BY <1>9 DEF Settle
  <2>2. loc' = loc \/ loc' = [loc EXCEPT !.usb = NoLocals]
    BY <1>9 DEF Settle, Keep
  <2>3. ticket' = ticket /\ seq' = seq /\ next' = next /\ sent' = sent /\ answer' = answer
    BY <1>9 DEF Settle, env
  <2>4. QED
    BY <2>1, <2>2, <2>3, KeptWithdraw DEF Aside, Entrusted, Producing, Claiming, TypeOK, PcOK,
        LocOK
<1>10. CASE SettleAgain
  BY <1>10, KeptWithdraw
    DEF SettleAgain, At, Keep, NoLocals, NoSequence, Aside, Entrusted, Producing, Claiming,
        TypeOK, PcOK, LocOK, env
<1>11. QED
  BY <1>1, <1>2, <1>3, <1>4, <1>5, <1>6, <1>7, <1>8, <1>9, <1>10 DEF PassStep, TicketStep

\* The callbacks.
LEMMA CallbackAside ==
    ASSUME TypeOK, CallbackStep
    PROVE  Aside /\ Entrusted
<1> USE Contexts, Reads, Where
<1>1. CASE \E i \in Interfaces : Complete(i)
  <2>0. PICK i \in Interfaces : Complete(i)
    BY <1>1
  <2>1. pc.usb = "idle" /\ (pc' = pc \/ pc' = [pc EXCEPT !.usb = "complete"])
    BY <2>0 DEF Complete
  <2>2. pc.usb \notin Claiming /\ pc'.usb \notin Claiming /\ \A p \in Producers : pc'[p] = pc[p]
    BY <2>1 DEF Claiming, TypeOK, PcOK
  <2>3. loc'.control = loc.control /\ loc'.sequence = loc.sequence
    BY <2>0 DEF Complete, Keep, TypeOK, LocOK
  <2>4. ticket' = ticket /\ seq' = seq /\ next' = next /\ sent' = sent /\ answer' = answer
    BY <2>0 DEF Complete
  <2>5. QED
    BY <2>2, <2>3, <2>4, KeptWithdraw DEF Aside, Entrusted
<1>2. CASE \E i \in Interfaces : Fail(i)
  <2>0. PICK i \in Interfaces : Fail(i)
    BY <1>2
  <2>1. pc.usb = "idle" /\ (pc' = pc \/ pc' = [pc EXCEPT !.usb = "failed"])
    BY <2>0 DEF Fail
  <2>2. pc.usb \notin Claiming /\ pc'.usb \notin Claiming /\ \A p \in Producers : pc'[p] = pc[p]
    BY <2>1 DEF Claiming, TypeOK, PcOK
  <2>3. loc'.control = loc.control /\ loc'.sequence = loc.sequence
    BY <2>0 DEF Fail, Keep, TypeOK, LocOK
  <2>4. ticket' = ticket /\ seq' = seq /\ next' = next /\ sent' = sent /\ answer' = answer
    BY <2>0 DEF Fail
  <2>5. QED
    BY <2>2, <2>3, <2>4, KeptWithdraw DEF Aside, Entrusted
<1>3. CASE CompleteClear
  BY <1>3, KeptWithdraw
    DEF CompleteClear, At, Keep, NoLocals, NoSequence, Aside, Entrusted, Producing, Claiming,
        TypeOK, PcOK, LocOK, env
<1>4. CASE CompleteConfirm
  BY <1>4, KeptWithdraw
    DEF CompleteConfirm, At, Aside, Entrusted, Producing, Claiming, TypeOK, PcOK, LocOK, env
<1>5. CASE FailClear
  BY <1>5, KeptWithdraw
    DEF FailClear, At, Keep, NoLocals, NoSequence, Aside, Entrusted, Producing, Claiming, TypeOK,
        PcOK, LocOK, env
<1>6. CASE Unmount
  BY <1>6, CancelWorkWithdraw
    DEF Unmount, At, Keep, NoLocals, NoSequence, Aside, Entrusted, Producing, Claiming, TypeOK,
        PcOK, LocOK, env
<1>7. CASE UnmountKeep
  BY <1>7, KeptWithdraw
    DEF UnmountKeep, At, Aside, Entrusted, Producing, Claiming, TypeOK, PcOK, LocOK, env
<1>8. CASE UnmountClear
  BY <1>8, KeptWithdraw
    DEF UnmountClear, At, Keep, NoLocals, NoSequence, Aside, Entrusted, Producing, Claiming,
        TypeOK, PcOK, LocOK, env
<1>9. CASE UnmountHidden
  BY <1>9, KeptWithdraw
    DEF UnmountHidden, Aside, Entrusted, Producing, Claiming, TypeOK, PcOK, LocOK, env
<1>10. CASE Mount
  BY <1>10, CancelWorkWithdraw
    DEF Mount, At, Aside, Entrusted, Producing, Claiming, TypeOK, PcOK, LocOK, env
<1>11. CASE MountKeep
  BY <1>11, KeptWithdraw
    DEF MountKeep, At, Keep, NoLocals, NoSequence, Aside, Entrusted, Producing, Claiming, TypeOK,
        PcOK, LocOK, env
<1>12. CASE MountClear
  BY <1>12, KeptWithdraw
    DEF MountClear, At, Keep, NoLocals, NoSequence, Aside, Entrusted, Producing, Claiming, TypeOK,
        PcOK, LocOK, env
<1>13. CASE Suspend
  BY <1>13, CancelWorkWithdraw
    DEF Suspend, At, Aside, Entrusted, Producing, Claiming, TypeOK, PcOK, LocOK, env
<1>14. CASE SuspendKeep
  BY <1>14, KeptWithdraw
    DEF SuspendKeep, At, Aside, Entrusted, Producing, Claiming, TypeOK, PcOK, LocOK, env
<1>15. CASE SuspendBits
  BY <1>15, KeptWithdraw
    DEF SuspendBits, At, Aside, Entrusted, Producing, Claiming, TypeOK, PcOK, LocOK, env
<1>16. CASE Resume
  BY <1>16, CancelWorkWithdraw
    DEF Resume, Aside, Entrusted, Producing, Claiming, TypeOK, PcOK, LocOK, env
<1>17. QED
  BY <1>1, <1>2, <1>3, <1>4, <1>5, <1>6, <1>7, <1>8, <1>9, <1>10, <1>11, <1>12, <1>13,
     <1>14, <1>15, <1>16 DEF CallbackStep

\* The executor.
LEMMA ExecutorAside ==
    ASSUME TypeOK, ExecutorStep
    PROVE  Aside /\ Entrusted
<1> USE Contexts, Reads, Where
<1>1. CASE Stall
  BY <1>1, CancelWorkWithdraw
    DEF Stall, At, Aside, Entrusted, Producing, Claiming, TypeOK, PcOK, LocOK, env
<1>2. CASE StallKeep
  BY <1>2, KeptWithdraw
    DEF StallKeep, At, Aside, Entrusted, Producing, Claiming, TypeOK, PcOK, LocOK, env
<1>3. CASE StallBits
  BY <1>3, KeptWithdraw
    DEF StallBits, At, Aside, Entrusted, Producing, Claiming, TypeOK, PcOK, LocOK, env
<1>4. CASE \E action \in {"detach", "route"} : SafetyBegin(action)
  BY <1>4, KeptWithdraw
    DEF SafetyBegin, Keep, NoLocals, NoSequence, Aside, Entrusted, Producing, Claiming, TypeOK,
        PcOK, LocOK, env
<1>5. CASE RouteOvertaken
  <2>1. pc' = [pc EXCEPT !.executor = "doubtFlags"] \/ pc' = [pc EXCEPT !.queue = "empty"]
    BY <1>5 DEF RouteOvertaken
  <2>2. pc'.usb = pc.usb /\ \A p \in Producers : pc'[p] = pc[p]
    BY <2>1 DEF TypeOK, PcOK
  <2>3. loc'.usb = loc.usb /\ loc'.control = loc.control /\ loc'.sequence = loc.sequence
    BY <1>5 DEF RouteOvertaken, Keep, TypeOK, LocOK
  <2>4. ticket' = ticket /\ seq' = seq /\ next' = next /\ sent' = sent /\ answer' = answer
    BY <1>5 DEF RouteOvertaken, shared, env
  <2>5. QED
    BY <2>2, <2>3, <2>4, KeptWithdraw DEF Aside, Entrusted
<1>6. CASE Await
  BY <1>6, KeptWithdraw
    DEF Await, At, Aside, Entrusted, Producing, Claiming, TypeOK, PcOK, LocOK, env, shared
<1>7. CASE AwaitTimeout
  BY <1>7, KeptWithdraw
    DEF AwaitTimeout, At, Aside, Entrusted, Producing, Claiming, TypeOK, PcOK, LocOK, env, shared
<1>8. CASE DoubtFlags
  BY <1>8, KeptWithdraw
    DEF DoubtFlags, At, Aside, Entrusted, Producing, Claiming, TypeOK, PcOK, LocOK, env
<1>9. CASE DoubtWord
  BY <1>9, KeptWithdraw
    DEF DoubtWord, At, Aside, Entrusted, Producing, Claiming, TypeOK, PcOK, LocOK, env
<1>10. CASE RouteDone
  BY <1>10, KeptWithdraw
    DEF RouteDone, Keep, NoLocals, NoSequence, Aside, Entrusted, Producing, Claiming, TypeOK,
        PcOK, LocOK, env
<1>11. CASE Uninstall
  BY <1>11, CancelWorkWithdraw
    DEF Uninstall, Aside, Entrusted, Producing, Claiming, TypeOK, PcOK, LocOK, env
<1>12. CASE UninstallClear
  BY <1>12, KeptWithdraw
    DEF UninstallClear, Keep, NoLocals, NoSequence, Aside, Entrusted, Producing, Claiming, TypeOK,
        PcOK, LocOK, env
<1>13. QED
  BY <1>1, <1>2, <1>3, <1>4, <1>5, <1>6, <1>7, <1>8, <1>9, <1>10, <1>11, <1>12 DEF ExecutorStep

-----------------------------------------------------------------------------
(* The reports themselves.                                                 *)

\* A new report takes a slot nobody is using, under a number of its own.
LEMMA BeginKeeps ==
    ASSUME Inv, TypeOK', Same, NEW p \in Producers, NEW i \in Interfaces, NEW held \in BOOLEAN,
           Begin(p, i, held)
    PROVE  Ledger' /\ Owned'
<1>1. /\ next.id \in 1 .. inst.reports /\ next'.id = next.id + 1 /\ next.id \in Nat
      /\ sent' = sent /\ answer' = answer /\ seq' = seq /\ inst' = inst
  BY Reads DEF Begin, Inv, TypeOK, LedgerOK, Same
<1>2. /\ ticket[i].st \in Terminal \union {"free"}
      /\ ticket'[i].st = "writing" /\ ticket'[i].id = next.id
      /\ \A j \in Interfaces : j # i => ticket'[j] = ticket[j]
      /\ ticket'[i].seq # 0 => p = "sequence" /\ ticket'[i].seq = loc.sequence.s.seq
      /\ ~SeqConflict(ticket'[i].seq)
  BY DEF Begin, MayBegin, Inv, TypeOK, TicketOK
<1>3. /\ pc'[p] = "fence" /\ loc'[p].i = i /\ loc'[p].k.id = next.id
      /\ \A q \in Producers : q # p => pc'[q] = pc[q] /\ loc'[q] = loc[q]
      /\ pc'.usb = pc.usb /\ loc'.usb = loc.usb /\ loc'.sequence.s = loc.sequence.s
  BY Contexts, Reads DEF Begin, Keep, Inv, TypeOK, PcOK, LocOK, Local
<1>4. /\ loc.usb.i \in Interfaces
      /\ \A q \in Producers : loc[q].i \in Interfaces
      /\ \A j \in Interfaces : ticket[j].id \in Nat
  BY Contexts, Reads DEF Inv
<1>5. Numbered'
  <2>1. \A n \in DOMAIN answer' : n >= next'.id => answer'[n] = "none"
    BY <1>1 DEF Inv, Ledger, Numbered, TypeOK, LedgerOK
  <2>2. \A n \in sent' : n < next'.id
    BY <1>1 DEF Inv, Ledger, Numbered, TypeOK, LedgerOK
  <2>3. \A j \in Interfaces : /\ ticket'[j].id < next'.id
                              /\ ticket'[j].st # "free" => ticket'[j].id \in 1 .. inst'.reports
    BY <1>1, <1>2, <1>4 DEF Inv, Ledger, Numbered
  <2>4. \A j, l \in Interfaces : ticket'[j].id = ticket'[l].id => j = l \/ ticket'[j].id = 0
    BY <1>1, <1>2, <1>4 DEF Inv, Ledger, Numbered
  <2>5. \A q \in Producers : pc'[q] \in Producing => /\ loc'[q].k.id \in 1 .. inst'.reports
                                                     /\ loc'[q].k.id < next'.id
    BY <1>1, <1>3 DEF Inv, Ledger, Numbered
  <2>6. QED
    BY <2>1, <2>2, <2>3, <2>4, <2>5 DEF Numbered
<1>6. Written'
  BY <1>2, <1>3, <1>4 DEF Inv, Ledger, Written, AtHead, Terminal
<1>7. Claimed'
  BY <1>2, <1>3, <1>4 DEF Inv, Ledger, Claimed, Terminal
<1>8. Departed'
  BY <1>1, <1>2, <1>3 DEF Inv, Ledger, Departed, Numbered, Unsent
<1>9. Untold'
  BY <1>1, <1>2 DEF Inv, Ledger, Untold, Numbered, Live, Silent, TypeOK, LedgerOK
<1>10. Owned'
  BY <1>1, <1>2, <1>3 DEF Inv, Owned, SeqConflict, SeqActive
<1>11. QED
  BY <1>1, <1>5, <1>6, <1>7, <1>8, <1>9, <1>10 DEF Inv, Ledger, AnswerTrue

\* The fence only looks.
LEMMA FenceKeeps ==
    ASSUME Inv, TypeOK', Same, NEW p \in Producers, Fence(p)
    PROVE  Ledger' /\ Owned'
<1>1. /\ UNCHANGED <<ticket, next, sent, answer, seq, inst>>
      /\ pc[p] = "fence" /\ pc'[p] = "publish"
      /\ loc'[p].i = loc[p].i /\ loc'[p].k = loc[p].k /\ loc'[p].s = loc[p].s
      /\ \A q \in Producers : q # p => pc'[q] = pc[q] /\ loc'[q] = loc[q]
      /\ pc'.usb = pc.usb /\ loc'.usb = loc.usb
  BY Contexts, Reads DEF Fence, At, Keep, shared, env, Same, Inv, TypeOK, PcOK, LocOK, Local
<1>2. Numbered' /\ Untold' /\ Departed'
  BY <1>1 DEF Inv, Ledger, Numbered, Untold, Departed, Producing
<1>3. Written'
  BY <1>1 DEF Inv, Ledger, Written, AtHead
<1>4. Claimed'
  BY <1>1 DEF Inv, Ledger, Claimed
<1>5. Owned'
  BY <1>1, Contexts DEF Inv, Owned
<1>6. QED
  BY <1>1, <1>2, <1>3, <1>4, <1>5 DEF Inv, Ledger, AnswerTrue

\* Publishing gives the ticket away, or tells its producer why not.
LEMMA PublishKeeps ==
    ASSUME Inv, TypeOK', Same, NEW p \in Producers, Publish(p)
    PROVE  Ledger' /\ Owned'
<1> DEFINE i == loc[p].i
           n == ticket[i].id
<1>1. /\ UNCHANGED <<next, sent, seq, inst, loc>>
      /\ pc[p] = "publish"
      /\ \A q \in Producers : q # p => pc'[q] = pc[q]
      /\ pc'.usb = pc.usb /\ i \in Interfaces /\ loc.usb.i \in Interfaces
      /\ \A q \in Producers : loc[q].i \in Interfaces
      /\ \A j \in Interfaces : j # i => ticket'[j] = ticket[j]
      /\ ticket'[i].id = n /\ ticket'[i].seq = ticket[i].seq
  BY Contexts, Reads DEF Publish, Same, Inv, TypeOK, PcOK, TicketOK, Ticket
<1>2. /\ ticket[i].st \in {"writing", "writingCanceled"} /\ n = loc[p].k.id
      /\ n \in 1 .. inst.reports /\ n \notin sent /\ n \in DOMAIN answer
  BY <1>1 DEF Inv, Ledger, Written, Numbered, Departed, AtHead, Unsent, TypeOK, LedgerOK
<1>3. \/ /\ pc'[p] = "wait" /\ ticket'[i].st = "published" /\ answer' = answer
         /\ ticket[i].st = "writing"
      \/ /\ pc'[p] = "idle" /\ ticket'[i].st = "canceled"
         /\ \A m \in DOMAIN answer : m # n => answer'[m] = answer[m]
         /\ DOMAIN answer' = DOMAIN answer
  <2>1. \/ /\ ticket[i].st = "writing" /\ pc' = [pc EXCEPT ![p] = "wait"]
           /\ ticket' = [ticket EXCEPT ![i].st = "published"] /\ answer' = answer
        \/ \E out : /\ pc' = [pc EXCEPT ![p] = "idle"]
                    /\ ticket' = [ticket EXCEPT ![i].st = "canceled", ![i].out = out]
                    /\ answer' = [answer EXCEPT ![n] = out]
    BY DEF Publish
  <2>2. ticket \in [Interfaces -> Ticket] /\ i \in Interfaces /\ ticket[i] \in Ticket
    BY <1>1 DEF Inv, TypeOK, TicketOK
  <2>3. p \in DOMAIN pc
    BY Contexts DEF Inv, TypeOK, PcOK
  <2> HIDE DEF i, n
  <2>4. CASE /\ ticket[i].st = "writing" /\ pc' = [pc EXCEPT ![p] = "wait"]
             /\ ticket' = [ticket EXCEPT ![i].st = "published"] /\ answer' = answer
    <3>1. ticket'[i].st = "published"
      BY <2>2, <2>4 DEF Ticket
    <3>2. QED
      BY <2>3, <2>4, <3>1
  <2>5. ASSUME NEW out, pc' = [pc EXCEPT ![p] = "idle"],
               ticket' = [ticket EXCEPT ![i].st = "canceled", ![i].out = out],
               answer' = [answer EXCEPT ![n] = out]
        PROVE  /\ pc'[p] = "idle" /\ ticket'[i].st = "canceled"
               /\ \A m \in DOMAIN answer : m # n => answer'[m] = answer[m]
               /\ DOMAIN answer' = DOMAIN answer
    <3>1. ticket'[i].st = "canceled"
      BY <2>2, <2>5 DEF Ticket
    <3>2. QED
      BY <2>3, <2>5, <3>1
  <2>6. QED
    BY <2>1, <2>4, <2>5
<1> HIDE DEF n, i
<1>4. Numbered'
  <2>1. \A m \in DOMAIN answer' : m >= next'.id => answer'[m] = "none"
    BY <1>1, <1>2, <1>3 DEF Inv, Ledger, Numbered, AtHead, Producing, TypeOK, LedgerOK
  <2>2. /\ \A j \in Interfaces : ticket'[j].id = ticket[j].id
        /\ ticket[i].st # "free"
    BY <1>1, <1>2 DEF n
  <2>3. \A j \in Interfaces : /\ ticket'[j].id < next'.id
                              /\ ticket'[j].st # "free" => ticket'[j].id \in 1 .. inst'.reports
    BY <1>1, <2>2 DEF Inv, Ledger, Numbered
  <2>4. \A q \in Producers : pc'[q] \in Producing => /\ loc'[q].k.id \in 1 .. inst'.reports
                                                     /\ loc'[q].k.id < next'.id
    BY <1>1 DEF Inv, Ledger, Numbered, Producing
  <2>5. QED
    BY <1>1, <2>1, <2>2, <2>3, <2>4 DEF Inv, Ledger, Numbered
<1>5. Written'
  BY <1>1, <1>3 DEF Inv, Ledger, Written, AtHead, i
<1>6. Claimed'
  BY <1>1, <1>2, <1>3 DEF Inv, Ledger, Claimed
<1>7. Departed'
  BY <1>1, <1>2, <1>3 DEF Inv, Ledger, Departed, Unsent
<1>8. Untold'
  <2>1. \A j \in Interfaces : j # i => ticket[j].id # n
    BY <1>1, <1>2 DEF Inv, Ledger, Numbered, n
  <2>2. \A j \in Interfaces : ticket[j].st \in Live => ticket[j].id \in DOMAIN answer
    BY DEF Inv, Ledger, Numbered, Live, Active, TypeOK, LedgerOK
  <2>3. QED
    BY <1>1, <1>2, <1>3, <2>1, <2>2 DEF Inv, Ledger, Untold, Live, Active, n
<1>9. AnswerTrue'
  <2>1. answer'[n] # "submitted" \/ answer' = answer
    <3>1. \A k \in Ticket : FenceOutcome(k) \in Outcomes
      BY DEF FenceOutcome, Outcomes
    <3>2. ticket[i] \in Ticket /\ ticket[i].out \in Outcomes
      BY <1>1, Reads DEF Inv
    <3>3. answer' = answer \/ \E out \in Outcomes : answer' = [answer EXCEPT ![n] = out]
      BY <3>1, <3>2 DEF Publish, i, n, Outcomes
    <3>4. QED
      BY <1>2, <3>3 DEF Outcomes, Inv, TypeOK, LedgerOK
  <2>2. QED
    BY <1>1, <1>2, <1>3, <2>1 DEF Inv, Ledger, AnswerTrue
<1>10. Owned'
  BY <1>1, <1>2, <1>3 DEF Inv, Owned, Live, Active
<1>11. QED
  BY <1>4, <1>5, <1>6, <1>7, <1>8, <1>9, <1>10 DEF Ledger

\* What a wait that ends leaves.
LEMMA WaitFacts ==
    ASSUME Inv, Same, NEW p \in Producers, NEW out,
           pc[p] = "wait", Answer(p, out)
    PROVE  /\ UNCHANGED <<next, sent, seq, inst>>
           /\ pc'[p] = "idle" /\ loc'[p].s = loc[p].s
           /\ \A q \in Producers : q # p => pc'[q] = pc[q] /\ loc'[q] = loc[q]
           /\ pc'.usb = pc.usb /\ loc'.usb = loc.usb
           /\ loc[p].i \in Interfaces /\ loc.usb.i \in Interfaces
           /\ \A q \in Producers : loc[q].i \in Interfaces
           /\ loc[p].k.id \in 1 .. inst.reports /\ loc[p].k.id < next.id
           /\ answer' = [answer EXCEPT ![loc[p].k.id] = out]
           /\ answer \in [1 .. inst.reports -> Told]
<1>1. loc[p].k.id \in 1 .. inst.reports /\ loc[p].k.id < next.id
  BY DEF Inv, Ledger, Numbered, Producing
<1>2. loc'[p].s = loc[p].s
  BY Contexts DEF Answer, Keep, NoLocals, Inv, TypeOK, LocOK
<1>3. QED
  BY <1>1, <1>2, Contexts, Reads DEF Answer, Keep, Same, Inv, TypeOK, PcOK, LocOK, LedgerOK

\* An answer moves no number.
LEMMA AnsweredNumbered ==
    ASSUME TypeOK, Numbered, NEW p \in Producers, NEW n \in 1 .. inst.reports, n < next.id, NEW out,
           UNCHANGED <<next, sent, inst>>,
           answer' = [answer EXCEPT ![n] = out], pc'[p] = "idle",
           \A q \in Producers : q # p => pc'[q] = pc[q] /\ loc'[q] = loc[q],
           \A j \in Interfaces : ticket'[j].id = ticket[j].id,
           \A j \in Interfaces : ticket'[j].st # "free" => ticket[j].st # "free"
    PROVE  Numbered'
<1>1. \A m \in DOMAIN answer' : m >= next'.id => answer'[m] = "none"
  <2>1. /\ DOMAIN answer' = DOMAIN answer /\ DOMAIN answer = 1 .. inst.reports /\ next.id \in Nat
        /\ \A m \in DOMAIN answer : m # n => answer'[m] = answer[m]
    BY DEF TypeOK, LedgerOK
  <2>2. QED
    BY <2>1, Reads DEF Numbered, TypeOK
<1>2. \A m \in sent' : m < next'.id
  BY DEF Numbered
<1>3. \A j \in Interfaces : /\ ticket'[j].id < next'.id
                            /\ ticket'[j].st # "free" => ticket'[j].id \in 1 .. inst'.reports
  BY DEF Numbered
<1>4. \A j, l \in Interfaces : ticket'[j].id = ticket'[l].id => j = l \/ ticket'[j].id = 0
  BY DEF Numbered
<1>5. \A q \in Producers : pc'[q] \in Producing => /\ loc'[q].k.id \in 1 .. inst'.reports
                                                 /\ loc'[q].k.id < next'.id
  BY DEF Numbered, Producing
<1>6. QED
  BY <1>1, <1>2, <1>3, <1>4, <1>5 DEF Numbered

\* Told too early to know, or too late.
LEMMA WaitUnknown ==
    ASSUME Inv, TypeOK', Same, NEW p \in Producers, WaitClaimed(p) \/ WaitReplaced(p)
    PROVE  Ledger' /\ Owned'
<1> DEFINE n == loc[p].k.id
<1>0. PICK out \in {"notReadyClaimed", "unknown"} :
        pc[p] = "wait" /\ Answer(p, out) /\ ticket' = ticket
  BY DEF WaitClaimed, WaitReplaced
<1>1. /\ UNCHANGED <<next, sent, seq, inst>>
      /\ pc[p] = "wait" /\ pc'[p] = "idle" /\ loc'[p].s = loc[p].s
      /\ \A q \in Producers : q # p => pc'[q] = pc[q] /\ loc'[q] = loc[q]
      /\ pc'.usb = pc.usb /\ loc'.usb = loc.usb
      /\ n \in 1 .. inst.reports /\ n < next.id
      /\ answer' = [answer EXCEPT ![n] = out]
      /\ answer \in [1 .. inst.reports -> Told]
  BY <1>0, WaitFacts
<1> HIDE DEF n
<1>2. Numbered'
  <2>1. TypeOK /\ Numbered
    BY DEF Inv, Ledger
  <2>2. QED
    BY <1>0, <1>1, <2>1, AnsweredNumbered
<1>3. Written'
  BY <1>0, <1>1 DEF Inv, Ledger, Written, AtHead
<1>4. Claimed' /\ Departed'
  BY <1>0, <1>1 DEF Inv, Ledger, Claimed, Departed
<1>5. Untold'
  BY <1>0, <1>1 DEF Inv, Ledger, Untold, Silent
<1>6. AnswerTrue'
  BY <1>0, <1>1 DEF Inv, Ledger, AnswerTrue, Outcomes
<1>7. Owned'
  BY <1>0, <1>1, Contexts DEF Inv, Owned
<1>8. QED
  BY <1>2, <1>3, <1>4, <1>5, <1>6, <1>7 DEF Ledger

\* Told for good: the slot is free, and nobody else is under that number.
LEMMA WaitSettled ==
    ASSUME Inv, TypeOK', Same, NEW p \in Producers, WaitTerminal(p) \/ WaitTimeout(p)
    PROVE  Ledger' /\ Owned'
<1> DEFINE n == loc[p].k.id
           i == loc[p].i
<1>0. PICK out \in Outcomes \union {"submitted"} :
        /\ pc[p] = "wait" /\ Answer(p, out) /\ ticket[i].id = n
        /\ ticket' = [ticket EXCEPT ![i] = [FreeTicket EXCEPT !.id = n]]
        /\ ticket[i].st \in Terminal \union {"published"}
        /\ out = "submitted" <=> ticket[i].st = "submitted"
  <2>1. ticket[i].out \in Outcomes /\ "submitted" \notin Outcomes /\ "notReady" \in Outcomes
    BY Contexts, Reads DEF Inv, Outcomes
  <2>2. CASE WaitTimeout(p)
    BY <2>1, <2>2 DEF WaitTimeout
  <2>3. CASE WaitTerminal(p)
    BY <2>1, <2>3 DEF WaitTerminal
  <2>4. QED
    BY <2>2, <2>3
<1>1. /\ UNCHANGED <<next, sent, seq, inst>>
      /\ pc'[p] = "idle" /\ loc'[p].s = loc[p].s
      /\ \A q \in Producers : q # p => pc'[q] = pc[q] /\ loc'[q] = loc[q]
      /\ pc'.usb = pc.usb /\ loc'.usb = loc.usb
      /\ i \in Interfaces /\ loc.usb.i \in Interfaces
      /\ \A q \in Producers : loc[q].i \in Interfaces
      /\ n \in 1 .. inst.reports /\ n < next.id
      /\ answer' = [answer EXCEPT ![n] = out]
      /\ answer \in [1 .. inst.reports -> Told]
  BY <1>0, WaitFacts
<1>2. /\ ticket'[i].st = "free" /\ ticket'[i].id = n
      /\ \A j \in Interfaces : j # i => ticket'[j] = ticket[j] /\ ticket[j].id # n
  BY <1>0, <1>1 DEF FreeTicket, Inv, Ledger, Numbered, TypeOK, TicketOK
<1> HIDE DEF n, i
<1>3. Numbered'
  <2>1. ticket[i].id = n
    BY <1>0
  <2>2. /\ \A j \in Interfaces : ticket'[j].id = ticket[j].id
        /\ \A j \in Interfaces : ticket'[j].st # "free" => ticket[j].st # "free"
    BY <1>1, <1>2, <2>1
  <2>3. TypeOK /\ Numbered
    BY DEF Inv, Ledger
  <2>4. QED
    BY <1>0, <1>1, <2>2, <2>3, AnsweredNumbered
<1>4. Written'
  BY <1>0, <1>1, <1>2 DEF Inv, Ledger, Written, AtHead, Terminal
<1>5. Claimed'
  BY <1>0, <1>1, <1>2 DEF Inv, Ledger, Claimed, Terminal
<1>6. Departed'
  BY <1>0, <1>1, <1>2 DEF Inv, Ledger, Departed, Unsent
<1>7. Untold'
  BY <1>0, <1>1, <1>2 DEF Inv, Ledger, Untold, Live, Active
<1>8. AnswerTrue'
  BY <1>0, <1>1, <1>2 DEF Inv, Ledger, AnswerTrue, Outcomes, Departed, Unsent, Terminal
<1>9. Owned'
  BY <1>0, <1>1, <1>2, Contexts DEF Inv, Owned, Live, Active
<1>10. QED
  BY <1>3, <1>4, <1>5, <1>6, <1>7, <1>8, <1>9 DEF Ledger

-----------------------------------------------------------------------------
(* The TinyUSB task and a ticket.                                          *)

\* A step that only moves the task and, at most, one ticket's state.
TicketMove(i, st) ==
  /\ UNCHANGED <<next, seq, answer, inst>>
  /\ \A p \in Producers : pc'[p] = pc[p] /\ loc'[p] = loc[p]
  /\ ticket'[i].st = st /\ ticket'[i].id = ticket[i].id /\ ticket'[i].seq = ticket[i].seq
  /\ \A j \in Interfaces : j # i => ticket'[j] = ticket[j]

\* Numbers, answers and ownership only depend on how far a ticket has come.
LEMMA TicketMoveKeeps ==
    ASSUME Inv, NEW i \in Interfaces, NEW st \in {"claimed", "canceled", "notReady", "submitted"},
           TicketMove(i, st), ticket[i].st \in {"published", "claimed"},
           \A n \in sent' : n \in sent \/ n = ticket[i].id
    PROVE  Numbered' /\ Written' /\ Untold' /\ Owned'
<1>1. \A j \in Interfaces : ticket'[j].id = ticket[j].id /\ ticket'[j].seq = ticket[j].seq
  BY DEF TicketMove
<1>2. \A p \in Producers : loc[p].i \in Interfaces
  BY Contexts, Reads DEF Inv
<1>3. Numbered'
  BY <1>1 DEF TicketMove, Inv, Ledger, Numbered
<1>4. Written'
  BY <1>1, <1>2 DEF TicketMove, Inv, Ledger, Written, AtHead
<1>5. Untold'
  BY <1>1 DEF TicketMove, Inv, Ledger, Untold, Live, Active
<1>6. Owned'
  BY <1>1, Contexts DEF TicketMove, Inv, Owned, Live, Active
<1>7. QED
  BY <1>3, <1>4, <1>5, <1>6

LEMMA ClaimKeeps ==
    ASSUME Inv, TypeOK', Same, NEW i \in Interfaces, TicketClaim(i)
    PROVE  Ledger' /\ Owned'
<1>1. /\ ticket[i].st = "published" /\ pc.usb = "ticket" /\ pc'.usb = "check"
      /\ loc'.usb.i = i /\ loc'.usb.k = ticket[i] /\ sent' = sent
  BY Contexts, Reads DEF TicketClaim, First, Published, Keep, env, Inv, TypeOK, PcOK, LocOK, Local
<1>2. TicketMove(i, "claimed")
  BY Contexts DEF TicketClaim, Keep, env, Same, TicketMove, Inv, TypeOK, PcOK, LocOK, TicketOK,
      Ticket
<1>3. Numbered' /\ Written' /\ Untold' /\ Owned'
  BY <1>1, <1>2, TicketMoveKeeps
<1>4. Claimed'
  BY <1>1, <1>2 DEF TicketMove, Inv, Ledger, Claimed, Claiming
<1>5. Departed'
  BY <1>1, <1>2 DEF TicketMove, Inv, Ledger, Departed, Claimed, Unsent, Claiming
<1>6. QED
  BY <1>1, <1>2, <1>3, <1>4, <1>5 DEF TicketMove, Inv, Ledger, AnswerTrue

\* The walk goes on, and leaves the producers alone.
LEMMA WalkFacts ==
    ASSUME Inv, NEW i \in Interfaces, NextTicket(i)
    PROVE  /\ pc'.usb \notin Claiming
           /\ \A p \in Producers : pc'[p] = pc[p] /\ loc'[p] = loc[p]
BY Contexts DEF NextTicket, Goto, Keep, Claiming, Inv, TypeOK, PcOK, LocOK

\* A claimed ticket that is given up has not left.
LEMMA GivenUp ==
    ASSUME Inv, TypeOK', NEW i \in Interfaces, NEW st \in {"canceled", "notReady"},
           pc.usb \in {"check", "submit"}, loc.usb.i = i, TicketMove(i, st),
           pc'.usb \notin Claiming, sent' = sent
    PROVE  Ledger' /\ Owned'
<1>1. ticket[i].st = "claimed" /\ ticket[i].id \notin sent
  BY DEF Inv, Ledger, Claimed, Claiming, Departed
<1>2. Numbered' /\ Written' /\ Untold' /\ Owned'
  BY <1>1, TicketMoveKeeps
<1>3. Claimed'
  BY <1>1 DEF TicketMove, Inv, Ledger, Claimed
<1>4. Departed'
  BY <1>1 DEF TicketMove, Inv, Ledger, Departed, Claimed, Unsent
<1>5. QED
  BY <1>2, <1>3, <1>4 DEF TicketMove, Inv, Ledger, AnswerTrue

LEMMA CheckKeeps ==
    ASSUME Inv, TypeOK', Same, NEW i \in Interfaces, TicketCheck(i)
    PROVE  Ledger' /\ Owned'
<1>1. pc.usb = "check" /\ loc.usb.i = i /\ sent' = sent /\ UNCHANGED <<next, seq, answer, inst>>
  BY DEF TicketCheck, env, Same
<1>2. CASE pc' = [pc EXCEPT !.usb = "submit"] /\ loc' = loc /\ ticket' = ticket
  <2>1. pc'.usb = "submit" /\ \A p \in Producers : pc'[p] = pc[p]
    BY <1>2, Contexts DEF Inv, TypeOK, PcOK
  <2>2. Numbered' /\ Written' /\ Untold' /\ Owned'
    BY <1>1, <1>2, <2>1 DEF Inv, Ledger, Numbered, Written, AtHead, Untold, Owned
  <2>3. Claimed' /\ Departed'
    BY <1>1, <1>2, <2>1 DEF Inv, Ledger, Claimed, Claiming, Departed
  <2>4. QED
    BY <1>1, <2>2, <2>3 DEF Inv, Ledger, AnswerTrue
<1>3. CASE NextTicket(i) /\ \E out : ticket' = [ticket EXCEPT ![i].st = "canceled", ![i].out = out]
  <2>1. /\ ticket'[i].st = "canceled" /\ ticket'[i].id = ticket[i].id
        /\ ticket'[i].seq = ticket[i].seq
        /\ \A j \in Interfaces : j # i => ticket'[j] = ticket[j]
    BY <1>3 DEF Inv, TypeOK, TicketOK, Ticket
  <2>2. TicketMove(i, "canceled")
    BY <1>1, <1>3, <2>1, WalkFacts DEF TicketMove
  <2>3. QED
    BY <1>1, <1>3, <2>2, WalkFacts, GivenUp
<1>4. QED
  BY <1>2, <1>3 DEF TicketCheck

LEMMA SubmitKeeps ==
    ASSUME Inv, TypeOK', Same, NEW i \in Interfaces, TicketSubmit(i)
    PROVE  Ledger' /\ Owned'
<1>1. pc.usb = "submit" /\ loc.usb.i = i /\ UNCHANGED <<next, seq, answer, inst>>
  BY DEF TicketSubmit, Same
<1>2. ticket[i].st = "claimed" /\ ticket[i].id = loc.usb.k.id /\ ticket[i].id \notin sent
  BY <1>1 DEF Inv, Ledger, Claimed, Claiming, Departed
<1>3. CASE /\ pc' = [pc EXCEPT !.usb = "terminal"] /\ loc' = loc /\ ticket' = ticket
           /\ sent' = sent \union {ticket[i].id}
  <2>1. pc'.usb = "terminal" /\ \A p \in Producers : pc'[p] = pc[p]
    BY <1>3, Contexts DEF Inv, TypeOK, PcOK
  <2>2. Numbered'
    BY <1>1, <1>2, <1>3, <2>1 DEF Inv, Ledger, Numbered
  <2>3. Written' /\ Untold' /\ Owned'
    BY <1>1, <1>3, <2>1 DEF Inv, Ledger, Written, AtHead, Untold, Owned
  <2>4. Claimed'
    BY <1>1, <1>3, <2>1 DEF Inv, Ledger, Claimed, Claiming
  <2>5. \A j \in Interfaces : j # i /\ ticket[j].st # "free" => ticket[j].id # ticket[i].id
    BY <1>2 DEF Inv, Ledger, Numbered
  <2>6. Departed'
    BY <1>1, <1>2, <1>3, <2>1, <2>5 DEF Inv, Ledger, Departed, Claimed, Unsent
  <2>7. AnswerTrue'
    <3>1. answer[ticket[i].id] \in Silent
      BY <1>2 DEF Inv, Ledger, Untold, Live, Active
    <3>2. QED
      BY <1>1, <1>3, <3>1 DEF Inv, Ledger, AnswerTrue, Silent, Outcomes
  <2>8. QED
    BY <2>2, <2>3, <2>4, <2>6, <2>7 DEF Ledger
<1>4. CASE /\ NextTicket(i) /\ sent' = sent
           /\ ticket' = [ticket EXCEPT ![i].st = "notReady", ![i].out = "notReady"]
  <2>1. /\ ticket'[i].st = "notReady" /\ ticket'[i].id = ticket[i].id
        /\ ticket'[i].seq = ticket[i].seq
        /\ \A j \in Interfaces : j # i => ticket'[j] = ticket[j]
    BY <1>4 DEF Inv, TypeOK, TicketOK, Ticket
  <2>2. TicketMove(i, "notReady")
    BY <1>1, <1>4, <2>1, WalkFacts DEF TicketMove
  <2>3. QED
    BY <1>1, <1>4, <2>2, WalkFacts, GivenUp
<1>5. QED
  BY <1>2, <1>3, <1>4 DEF TicketSubmit

LEMMA TerminalKeeps ==
    ASSUME Inv, TypeOK', Same, NEW i \in Interfaces, TicketTerminal(i)
    PROVE  Ledger' /\ Owned'
<1>1. pc.usb = "terminal" /\ loc.usb.i = i /\ pc'.usb = "idle" /\ sent' = sent
  BY DEF TicketTerminal, env, Inv, TypeOK, PcOK, Tasks, Producers
<1>2. ticket[i].st = "claimed" /\ ticket[i].id \in sent
  BY <1>1 DEF Inv, Ledger, Claimed, Claiming, Departed
<1>3. TicketMove(i, "submitted")
  BY Contexts DEF TicketTerminal, Keep, env, Same, TicketMove, Inv, TypeOK, PcOK, LocOK, TicketOK,
      Ticket
<1>4. Numbered' /\ Written' /\ Untold' /\ Owned'
  BY <1>1, <1>2, <1>3, TicketMoveKeeps
<1>5. Claimed'
  BY <1>1, <1>3 DEF TicketMove, Inv, Ledger, Claimed, Claiming
<1>6. Departed'
  BY <1>1, <1>2, <1>3, <1>5 DEF TicketMove, Inv, Ledger, Departed, Claimed, Unsent
<1>7. QED
  BY <1>1, <1>3, <1>4, <1>5, <1>6 DEF TicketMove, Inv, Ledger, AnswerTrue

-----------------------------------------------------------------------------
(* What a producer is told, and the sequence's reports.                    *)

\* A sequence is admitted when nothing is under way.
LEMMA AdmitOwned ==
    ASSUME TypeOK, SequenceAdmit
    PROVE  Owned'
<1>1. /\ ticket' = ticket
      /\ \/ loc'.sequence.s = NoSequence
         \/ \A i \in Interfaces : ticket[i].st \notin Live
  BY DEF SequenceAdmit, Live, TypeOK, LocOK, Local, Tasks, Producers
<1>2. NoSequence.seq = 0
  BY DEF NoSequence
<1>3. QED
  BY <1>1, <1>2 DEF Owned

LEMMA InvInit == Init => Inv
<1> SUFFICES ASSUME Init PROVE Inv
  OBVIOUS
<1>1. TypeOK
  BY TypeInit
<1>2. /\ \A p \in Producers : pc[p] = "idle"
      /\ pc.usb = "idle"
      /\ \A i \in Interfaces : ticket[i].st = "free" /\ ticket[i].id = 0
      /\ \A n \in DOMAIN answer : answer[n] = "none"
      /\ sent = {} /\ next.id = 1 /\ seq = 0
  BY Contexts DEF Init, FreeTicket
<1>3. Ledger
  BY <1>2 DEF Ledger, Numbered, Written, Claimed, Departed, Untold, AnswerTrue, AtHead, Producing,
       Claiming, Unsent, Live, Active
<1>4. Owned
  BY <1>2 DEF Owned
<1>5. QED
  BY <1>1, <1>3, <1>4 DEF Inv

\* A step beside the reports keeps what is known of them.
LEMMA AsideKeeps ==
    ASSUME Inv, TypeOK', Same, Aside, Entrusted \/ SequenceAdmit
    PROVE  Ledger' /\ Owned'
<1>1. TypeOK /\ Ledger /\ Owned
  BY DEF Inv
<1>2. Ledger'
  BY <1>1, AsideLedger
<1>3. CASE Entrusted
  <2>1. Withdrawn
    BY DEF Aside
  <2>2. QED
    BY <1>1, <1>2, <1>3, <2>1, AsideOwned
<1>4. CASE SequenceAdmit
  BY <1>1, <1>2, <1>4, AdmitOwned
<1>5. QED
  BY <1>3, <1>4

LEMMA InvStep ==
    ASSUME Inv, [Next]_vars
    PROVE  Inv'
<1>1. TypeOK'
  BY TypeStep DEF Inv
<1>2. CASE Next
  <2>1. Same
    BY <1>2, Steps
  <2>2. ASSUME NEW p \in Producers, ProducerStep(p)
        PROVE  Ledger' /\ Owned'
    BY <1>1, <2>1, <2>2, BeginKeeps, FenceKeeps, PublishKeeps, WaitUnknown, WaitSettled
      DEF ProducerStep
  <2>3. ASSUME NEW k \in {"control", "usb", "executor"}, RequestStep(k)
        PROVE  Ledger' /\ Owned'
    <3>1. TypeOK
      BY DEF Inv
    <3>2. Aside /\ Entrusted
      BY <2>3, <3>1, RequestAside
    <3>3. QED
      BY <1>1, <2>1, <3>2, AsideKeeps
  <2>4. TicketStep => Ledger' /\ Owned'
    <3>1. SUFFICES ASSUME NEW i \in Interfaces,
                          \/ TicketClaim(i) \/ TicketCheck(i)
                          \/ TicketSubmit(i) \/ TicketTerminal(i)
                   PROVE  Ledger' /\ Owned'
      BY DEF TicketStep
    <3>2. CASE TicketClaim(i)
      BY <1>1, <2>1, <3>2, ClaimKeeps
    <3>3. CASE TicketCheck(i)
      BY <1>1, <2>1, <3>3, CheckKeeps
    <3>4. CASE TicketSubmit(i)
      BY <1>1, <2>1, <3>4, SubmitKeeps
    <3>5. CASE TicketTerminal(i)
      BY <1>1, <2>1, <3>5, TerminalKeeps
    <3>6. QED
      BY <3>1, <3>2, <3>3, <3>4, <3>5
  <2>5. ControlStep \/ (PassStep /\ ~TicketStep) \/ CallbackStep \/ ExecutorStep =>
          Aside /\ (Entrusted \/ SequenceAdmit)
    <3>1. TypeOK
      BY DEF Inv
    <3>2. ControlStep => Aside /\ (Entrusted \/ SequenceAdmit)
      BY <3>1, ControlAside
    <3>3. PassStep /\ ~TicketStep => Aside /\ Entrusted
      BY <3>1, SlotAside
    <3>4. CallbackStep => Aside /\ Entrusted
      BY <3>1, CallbackAside
    <3>5. ExecutorStep => Aside /\ Entrusted
      BY <3>1, ExecutorAside
    <3>6. QED
      BY <3>2, <3>3, <3>4, <3>5
  <2>6. ControlStep \/ PassStep \/ CallbackStep \/ ExecutorStep => Ledger' /\ Owned'
    BY <1>1, <2>1, <2>4, <2>5, AsideKeeps
  <2>7. Ledger' /\ Owned'
    BY <1>2, <2>2, <2>3, <2>6, Steps
  <2>8. QED
    BY <1>1, <2>7 DEF Inv
<1>3. CASE UNCHANGED vars
  BY <1>1, <1>3 DEF vars, shared, env, Inv, Ledger, Numbered, Written, AtHead, Claimed, Departed,
       Untold, AnswerTrue, Owned
<1>4. QED
  BY <1>2, <1>3

\* submit() answers "submitted" only of a report tud_hid_n_report() took, and
\* refuses for good only one that never leaves, however its ticket, its
\* deadline and a cancellation race.
THEOREM AnswerTrueCorrect == Spec => []AnswerTrue
<1>1. Inv => AnswerTrue
  BY DEF Inv, Ledger
<1>2. QED
  BY <1>1, InvInit, InvStep, PTL DEF Spec

\* What is submitted is the claimed ticket's, and that one the sequence's.
LEMMA SequenceAloneStep ==
    ASSUME Inv
    PROVE  \A i \in Interfaces :
             sent' # sent /\ pc.usb = "submit" /\ loc.usb.i = i
             /\ loc.sequence.s.seq # 0 /\ loc.sequence.s.seq = seq
             => loc.usb.k.seq = seq
BY DEF Inv, Ledger, Claimed, Claiming, Owned, Live, Active

\* From its admission until it is retired or revoked a sequence's reports are
\* the only ones service_usb() submits: none taken earlier is still on its way.
THEOREM SequenceAloneCorrect == Spec => SequenceAlone
<1>1. Spec => []Inv
  BY InvInit, InvStep, PTL DEF Spec
<1>2. Inv /\ [Next]_vars =>
        [\A i \in Interfaces :
           sent' # sent /\ pc.usb = "submit" /\ loc.usb.i = i
           /\ loc.sequence.s.seq # 0 /\ loc.sequence.s.seq = seq
           => loc.usb.k.seq = seq]_vars
  BY SequenceAloneStep
<1>3. QED
  BY <1>1, <1>2, PTL DEF Spec, SequenceAlone

-----------------------------------------------------------------------------
(* What the host holds.                                                    *)

Presses(i) == host[i] \/ (wire[i] # None /\ wire[i].held)
AllUp      == \A i \in Interfaces : ~Presses(i)
NoFlight   == \A i \in Interfaces : iface[i].flight = None
WiresDown  == \A i \in Interfaces : wire[i] = None

Resting   == {"idle", "unmountKeep", "unmountClear"}
Mounting  == Requesting \union {"mountKeep", "mountClear"}
Late      == {"doubtFlags", "doubtWord", "safe"}
Waiting   == Requesting \union Late \union {"await"}
Unplugged == link.at \in {"hidden", "disconnected"} \/ pc.executor = "uninstallClear"

\* Where the tasks may be while there is no bus, or a command is under way.
Attached ==
  /\ Unplugged => pc.usb \in Resting /\ (pc.usb # "unmountKeep" => NoFlight)
  /\ pc.executor = "uninstallClear" => ~bits.mounted /\ WiresDown /\ pc.queue = "detach"
  /\ pc.usb = "mountKeep" => NoFlight
  /\ pc.usb = "unmountKeep" => WiresDown
  /\ pc.queue = "detach" => link.at = "detaching"
  /\ pc.control \in {"noneRetire", "noneKeep"} => pc.queue = "empty"
  /\ pc.executor \in Waiting => pc.queue # "empty"

\* A report in flight, an all-up that is due, and what the completion leaves
\* until the mark is gone.
Flown ==
  /\ \A i \in Interfaces : LET f == iface[i].flight IN f # None =>
       /\ f.kind = "safety" => ~f.held
       /\ f.kind = "unsafe" => f.held = iface[i].held
  /\ pc.usb \in {"slotClaim", "slotSubmit"} => iface[loc.usb.i].safety
  /\ pc.usb = "failed" => iface[loc.usb.i].unc
  /\ pc.usb = "complete" => LET f == iface[loc.usb.i] IN
       /\ wire[loc.usb.i] = None
       /\ host[loc.usb.i] => f.held \/ f.unc
       /\ loc.usb.ok /\ ~f.safety => ~f.held /\ ~f.unc

\* What the host holds, the firmware knows or doubts.
Owed == \A i \in Interfaces : Presses(i) => Doubtful(iface[i])

\* What is neither in doubt nor in flight is confirmed.
Landed(i) == iface[i].flight = None \/ (pc.usb = "complete" /\ loc.usb.i = i)
Confirmed ==
  \A i \in Interfaces : ~iface[i].unc /\ ~iface[i].safety /\ Landed(i) =>
    iface[i].conf = host[i] /\ wire[i] = None

\* A detach turns every doubt into a debt; what it leaves is all-up or doubted.
Leaving == pc.queue = "detach" /\ pc.executor \in Waiting
Left    == pc.queue = "detach" /\ pc.executor \in Late
Detached ==
  /\ Leaving => \A i \in Interfaces : Doubtful(iface[i]) =>
       iface[i].safety \/ (pc.usb = "complete" /\ loc.usb.i = i /\ loc.usb.ok)
  /\ Leaving /\ pc.usb = "submit" => iface[loc.usb.i].safety
  /\ Left => pc.usb # "submit"
  /\ Left /\ pc.usb = "confirm" => AllUp
  /\ pc.queue = "detach" /\ pc.executor = "safe" /\ ~link.unc => AllUp

\* Unplugged, and until the next mount is done, the lifecycle word owns up to
\* what may be held.
Doubted ==
  (Unplugged \/ pc.usb \in Mounting) /\ pc.usb # "unmountKeep" /\ ~link.unc => AllUp

\* What is known of interfaces, wires and host, wherever the tasks are.
Held == Attached /\ Flown /\ Owed /\ Confirmed /\ Detached /\ Doubted

-----------------------------------------------------------------------------
(* Steps that at most add to the doubts.                                   *)

\* What may become of an interface: a mark that goes leaves doubt and debt.
Worse(f, f2) ==
  /\ f2.held = f.held /\ f2.conf = f.conf
  /\ f.safety => f2.safety
  /\ f.unc => f2.unc
  /\ f2.unc => f.unc \/ f2.safety
  /\ f2.flight = f.flight \/ (f2.flight = None /\ f2.unc /\ f2.safety)

\* Where the TinyUSB task goes on by itself, or stays.
Special == {"slotClaim", "slotSubmit", "submit", "failed", "complete", "confirm", "mountKeep",
            "unmountKeep"}
UsbCalm ==
  \/ pc'.usb = pc.usb /\ loc'.usb = loc.usb
  \/ /\ pc'.usb \notin Special /\ pc.usb \notin {"complete", "unmountKeep"}
     /\ pc'.usb \in Resting \/ pc.usb \notin Resting \/ ~Unplugged
     /\ pc'.usb \in Mounting => pc.usb \in Mounting

\* The words, and where command and executor are.
LinkCalm ==
  /\ link'.at \in {"hidden", "disconnected"} => link.at \in {"hidden", "disconnected"}
  /\ link.unc /\ ~link'.unc => AllUp
QueueCalm ==
  /\ pc'.executor = "uninstallClear" =>
       pc.executor = "uninstallClear" /\ pc'.queue = "detach" /\ (bits'.mounted => bits.mounted)
  /\ pc'.queue = "detach" => link'.at = "detaching"
  /\ pc'.control \in {"noneRetire", "noneKeep"} => pc'.queue = "empty"
  /\ pc'.executor \in Waiting => pc'.queue # "empty"
  /\ Leaving' => Leaving
  /\ Left' => Left
  /\ pc'.queue = "detach" /\ pc'.executor = "safe" => pc.executor = "safe" \/ link'.unc

Calm ==
  /\ \A i \in Interfaces : Worse(iface[i], iface'[i])
  /\ wire' = wire /\ host' = host
  /\ UsbCalm /\ LinkCalm /\ QueueCalm

LEMMA CalmKeeps ==
    ASSUME TypeOK, TypeOK', Held, Calm
    PROVE  Held'
<1>0. loc.usb.i \in Interfaces /\ loc'.usb.i \in Interfaces
  BY Contexts DEF TypeOK, LocOK, Local
<1>1. /\ \A i \in Interfaces : /\ Presses(i)' <=> Presses(i)
                               /\ iface'[i].flight # None => iface'[i].flight = iface[i].flight
                               /\ Doubtful(iface[i]) => Doubtful(iface'[i])
                               /\ Doubtful(iface'[i]) => Doubtful(iface[i]) \/ iface'[i].safety
      /\ AllUp => AllUp'
      /\ NoFlight => NoFlight'
      /\ WiresDown => WiresDown'
  BY DEF Calm, Worse, Presses, Doubtful, AllUp, NoFlight, WiresDown
<1>2. pc'.usb \in Special => pc'.usb = pc.usb /\ loc'.usb = loc.usb
  BY DEF Calm, UsbCalm
<1>3. Unplugged' => Unplugged
  BY DEF Calm, LinkCalm, QueueCalm, Unplugged
<1>4. Attached'
  <2>1. Unplugged' => pc'.usb \in Resting /\ (pc'.usb # "unmountKeep" => NoFlight')
    <3>1. CASE pc'.usb = pc.usb
      BY <1>1, <1>3, <3>1 DEF Held, Attached
    <3>2. CASE pc'.usb # pc.usb
      BY <1>1, <1>3, <3>2 DEF Held, Attached, Calm, UsbCalm
    <3>3. QED
      BY <3>1, <3>2
  <2>2. pc'.executor = "uninstallClear" => ~bits'.mounted /\ WiresDown' /\ pc'.queue = "detach"
    BY <1>1 DEF Held, Attached, Calm, QueueCalm
  <2>3. /\ pc'.usb = "mountKeep" => NoFlight'
        /\ pc'.usb = "unmountKeep" => WiresDown'
    BY <1>1, <1>2 DEF Held, Attached, Special
  <2>4. QED
    BY <2>1, <2>2, <2>3 DEF Attached, Calm, QueueCalm
<1>5. Flown'
  <2>1. \A i \in Interfaces : LET f == iface'[i].flight IN f # None =>
          /\ f.kind = "safety" => ~f.held
          /\ f.kind = "unsafe" => f.held = iface'[i].held
    BY <1>1 DEF Held, Flown, Calm, Worse
  <2>2. /\ pc'.usb \in {"slotClaim", "slotSubmit"} => iface'[loc'.usb.i].safety
        /\ pc'.usb = "failed" => iface'[loc'.usb.i].unc
    BY <1>0, <1>2 DEF Held, Flown, Calm, Worse, Special
  <2>3. pc'.usb = "complete" => LET f == iface'[loc'.usb.i] IN
          /\ wire'[loc'.usb.i] = None
          /\ host'[loc'.usb.i] => f.held \/ f.unc
          /\ loc'.usb.ok /\ ~f.safety => ~f.held /\ ~f.unc
    BY <1>0, <1>2 DEF Held, Flown, Calm, Worse, Special
  <2>4. QED
    BY <2>1, <2>2, <2>3 DEF Flown
<1>6. Owed'
  BY <1>1 DEF Held, Owed
<1>7. Confirmed'
  <2>1. \A i \in Interfaces : ~iface'[i].unc /\ Landed(i)' => Landed(i)
    BY <1>2 DEF Calm, Worse, Landed, Special
  <2>2. QED
    BY <2>1 DEF Held, Confirmed, Calm, Worse
<1>8. Detached'
  <2>1. Leaving' => \A i \in Interfaces : Doubtful(iface'[i]) =>
          iface'[i].safety \/ (pc'.usb = "complete" /\ loc'.usb.i = i /\ loc'.usb.ok)
    <3>1. pc.usb = "complete" => pc'.usb = pc.usb /\ loc'.usb = loc.usb
      BY DEF Calm, UsbCalm
    <3>2. QED
      BY <1>1, <3>1 DEF Held, Detached, Calm, QueueCalm, Worse
  <2>2. Leaving' /\ pc'.usb = "submit" => iface'[loc'.usb.i].safety
    BY <1>0, <1>2 DEF Held, Detached, Calm, QueueCalm, Worse, Special
  <2>3. /\ Left' => pc'.usb # "submit"
        /\ Left' /\ pc'.usb = "confirm" => AllUp'
    BY <1>1, <1>2 DEF Held, Detached, Calm, QueueCalm, Special
  <2>4. pc'.queue = "detach" /\ pc'.executor = "safe" /\ ~link'.unc => AllUp'
    BY <1>1 DEF Held, Detached, Calm, QueueCalm, LinkCalm, Leaving, Waiting, Late
  <2>5. QED
    BY <2>1, <2>2, <2>3, <2>4 DEF Detached
<1>9. Doubted'
  <2>1. CASE link.unc
    BY <1>1, <2>1 DEF Doubted, Calm, LinkCalm
  <2>2. CASE ~link.unc
    <3>1. pc.usb = "unmountKeep" => pc'.usb = "unmountKeep"
      BY DEF Calm, UsbCalm
    <3>2. pc'.usb \in Mounting => pc.usb \in Mounting
      BY DEF Calm, UsbCalm
    <3>3. QED
      BY <1>1, <1>3, <2>2, <3>1, <3>2 DEF Held, Doubted
  <2>3. QED
    BY <2>1, <2>2
<1>10. QED
  BY <1>4, <1>5, <1>6, <1>7, <1>8, <1>9 DEF Held

\* What a suspend, a stall, a detach and a timeout leave behind.
LEMMA WorseFlags ==
    ASSUME NEW f \in Iface
    PROVE  /\ Worse(f, Preserved(f)) /\ Worse(f, NeverSafe(f))
           /\ Worse(f, Staged(f, Doubtful(f)))
<1>1. Worse(f, Preserved(f))
  BY DEF Worse, Preserved, Doubtful, Iface
<1>2. Worse(f, NeverSafe(f))
  BY DEF Worse, NeverSafe, Iface
<1>3. Worse(f, Staged(f, Doubtful(f)))
  BY DEF Worse, Staged, Doubtful, Iface
<1>4. QED
  BY <1>1, <1>2, <1>3

\* Flags, words and phases that a step leaves alone.
LEMMA SameFlags ==
    ASSUME iface' = iface
    PROVE  \A i \in Interfaces : Worse(iface[i], iface'[i])
BY DEF Worse

LEMMA SameWord ==
    ASSUME link' = link \/ \E b \in BOOLEAN : link' = [link EXCEPT !.pend = b], link \in Word
    PROVE  LinkCalm /\ link'.at = link.at
BY DEF LinkCalm, Word

LEMMA SamePhase ==
    ASSUME Held, pc'.queue = pc.queue, pc'.executor = pc.executor,
           pc'.control \in {"noneRetire", "noneKeep"} => pc.control \in {"noneRetire", "noneKeep"},
           link'.at = link.at, pc.executor = "uninstallClear" => (bits'.mounted => bits.mounted)
    PROVE  QueueCalm
BY DEF QueueCalm, Held, Attached, Leaving, Left

-----------------------------------------------------------------------------
(* Each task's steps that only add doubts.                                 *)

\* A report's way through its producer.
LEMMA ProducerCalm ==
    ASSUME TypeOK, TypeOK', Held, NEW p \in Producers, ProducerStep(p)
    PROVE  Calm
<1>1. /\ link' = link /\ iface' = iface /\ wire' = wire /\ host' = host /\ bits' = bits
      /\ \E to \in Producing \union {"idle"} : pc' = [pc EXCEPT ![p] = to] \/ pc' = pc
      /\ \E v : loc' = [loc EXCEPT ![p] = v] \/ loc' = loc
  BY DEF ProducerStep, Begin, Fence, Publish, WaitTerminal, WaitTimeout, WaitClaimed, WaitReplaced,
         Answer, At, Keep, Producing, shared, env
<1>2. /\ pc'.usb = pc.usb /\ loc'.usb = loc.usb /\ pc'.queue = pc.queue
      /\ pc'.executor = pc.executor
      /\ pc'.control \in {"noneRetire", "noneKeep"} => pc.control \in {"noneRetire", "noneKeep"}
  BY <1>1, Contexts DEF TypeOK, PcOK, LocOK, Producing
<1>3. UsbCalm
  BY <1>2 DEF UsbCalm
<1>4. QED
  BY <1>1, <1>2, <1>3, Reads, SameFlags, SameWord, SamePhase DEF Calm

\* A release request, wherever it is made.
LEMMA RequestCalm ==
    ASSUME TypeOK, TypeOK', Held, NEW k \in {"control", "usb", "executor"}, RequestStep(k)
    PROVE  Calm
<1>1. /\ iface' = iface /\ wire' = wire /\ host' = host /\ bits' = bits /\ loc' = loc
      /\ link' = link \/ \E b \in BOOLEAN : link' = [link EXCEPT !.pend = b]
  BY DEF RequestStep, ReleaseIdentity, ReleaseBarrier, ReleaseFlag, ReleaseUnavailable, env
<1>2. /\ pc[k] \in Requesting
      /\ \E to \in Requesting \union Returns[k] : pc' = [pc EXCEPT ![k] = to]
  BY Contexts, Reads
     DEF RequestStep, ReleaseIdentity, ReleaseBarrier, ReleaseFlag, ReleaseUnavailable, At,
         Requesting
<1>3. LinkCalm /\ link'.at = link.at
  BY <1>1, Reads, SameWord
<1>4. CASE k = "control"
  <2>1. /\ pc'.usb = pc.usb /\ pc'.queue = pc.queue /\ pc'.executor = pc.executor
        /\ pc'.control \in Requesting \union {"idle", "admit"}
    BY <1>2, <1>4, Where DEF TypeOK, PcOK, Tasks, Producers
  <2>2. UsbCalm
    BY <1>1, <2>1 DEF UsbCalm
  <2>3. QueueCalm
    BY <1>1, <1>3, <2>1, SamePhase DEF Requesting
  <2>4. QED
    BY <1>1, <1>3, <2>2, <2>3, SameFlags DEF Calm
<1>5. CASE k = "usb"
  <2>1. /\ pc'.control = pc.control /\ pc'.queue = pc.queue /\ pc'.executor = pc.executor
        /\ pc'.usb \in Requesting \union {"idle", "mountClear"} /\ pc.usb \in Requesting
    BY <1>2, <1>5, Where DEF TypeOK, PcOK, Tasks, Producers
  <2>2. UsbCalm
    BY <2>1 DEF UsbCalm, Special, Resting, Mounting, Requesting
  <2>3. QueueCalm
    BY <1>1, <1>3, <2>1, SamePhase
  <2>4. QED
    BY <1>1, <1>3, <2>2, <2>3, SameFlags DEF Calm
<1>6. CASE k = "executor"
  <2>1. /\ pc'.usb = pc.usb /\ pc'.control = pc.control /\ pc'.queue = pc.queue
        /\ pc'.executor \in Requesting \union {"idle", "await"} /\ pc.executor \in Requesting
    BY <1>2, <1>6, Where DEF TypeOK, PcOK, Tasks, Producers
  <2>2. UsbCalm
    BY <1>1, <2>1 DEF UsbCalm
  <2>3. QueueCalm
    BY <1>3, <2>1 DEF QueueCalm, Held, Attached, Leaving, Left, Waiting, Late, Requesting
  <2>4. QED
    BY <1>1, <1>3, <2>2, <2>3, SameFlags DEF Calm
<1>7. QED
  BY <1>4, <1>5, <1>6

\* Nothing is held where everything is known to be up.
LEMMA NothingHeld ==
    ASSUME Held
    PROVE  (\A i \in Interfaces : KnownAllUp(i) \/ ~Doubtful(iface[i])) => AllUp
BY DEF Held, Owed, AllUp, KnownAllUp, FlagsUp, Doubtful

\* The rest of the control task.
LEMMA ControlCalm ==
    ASSUME TypeOK, TypeOK', Held, ControlStep
    PROVE  Calm
<1>1. CASE SequenceClaim
  BY <1>1, Contexts, Reads, Where, SameFlags, SameWord, SamePhase
    DEF SequenceClaim, At, Keep, Calm, UsbCalm, TypeOK, PcOK, LocOK, env
<1>2. CASE SequenceAdmit
  BY <1>2, Contexts, Reads, Where, SameFlags, SameWord, SamePhase
    DEF SequenceAdmit, At, Calm, UsbCalm, TypeOK, PcOK, LocOK, env
<1>3. CASE EndSequence
  BY <1>3, Contexts, Reads, Where, SameFlags, SameWord, SamePhase
    DEF EndSequence, Keep, Calm, UsbCalm, TypeOK, PcOK, LocOK, env
<1>4. CASE RequestRelease
  BY <1>4, Contexts, Reads, Where, SameFlags, SameWord, SamePhase
    DEF RequestRelease, At, Calm, UsbCalm, TypeOK, PcOK, LocOK, env, shared
<1>5. CASE PublicRelease
  BY <1>5, Contexts, Reads, Where, SameFlags, SameWord, SamePhase
    DEF PublicRelease, At, Keep, Calm, UsbCalm, TypeOK, PcOK, LocOK, env, shared
<1>6. CASE ReleaseAdmit
  BY <1>6, Contexts, Reads, Where, SameFlags, SameWord, SamePhase
    DEF ReleaseAdmit, At, Keep, Calm, UsbCalm, TypeOK, PcOK, LocOK, env
<1>7. CASE ScanTicket
  BY <1>7, Contexts, Reads, Where, SameFlags, SameWord, SamePhase
    DEF ScanTicket, At, Keep, Calm, UsbCalm, TypeOK, PcOK, LocOK, env, shared
<1>8. CASE ScanFlags
  <2>0. /\ pc' = [pc EXCEPT !.control = "scanTicket"] \/ pc' = [pc EXCEPT !.control = "open"]
        /\ \E v : loc' = [loc EXCEPT !.control = v]
    BY <1>8 DEF ScanFlags, Keep
  <2>1. /\ pc'.usb = pc.usb
        /\ pc'.executor = pc.executor
        /\ pc'.queue = pc.queue
        /\ pc'.control \in {"scanTicket", "open"}
        /\ loc'.usb = loc.usb
    BY <2>0, Contexts DEF TypeOK, PcOK, LocOK
  <2>2. \A i \in Interfaces : Worse(iface[i], iface'[i])
    <3>1. \/ iface' = iface
          \/ \E i \in Interfaces, b \in BOOLEAN :
               iface' = [iface EXCEPT ![i].safety = iface[i].safety \/ b]
      BY <1>8, Reads, Contexts DEF ScanFlags
    <3>2. QED
      BY <3>1, Reads DEF Worse, Iface, TypeOK, IfaceOK
  <2>3. UsbCalm
    BY <2>1 DEF UsbCalm
  <2>4. LinkCalm
    BY <1>8, SameWord, Reads
      DEF ScanFlags
  <2>5. QueueCalm
    BY <1>8, <2>1, SameWord, SamePhase, Reads
      DEF ScanFlags
  <2>6. QED
    BY <1>8, <2>2, <2>3, <2>4, <2>5 DEF ScanFlags, Calm, env
<1>9. CASE ReleaseOpen
  BY <1>9, Contexts, Reads, Where, SameFlags, SameWord, SamePhase
    DEF ReleaseOpen, At, Calm, UsbCalm, TypeOK, PcOK, LocOK, env
<1>10. CASE ReleaseFinish
  BY <1>10, Contexts, Reads, Where, SameFlags, SameWord, SamePhase
    DEF ReleaseFinish, At, Calm, UsbCalm, TypeOK, PcOK, LocOK, env
<1>11. CASE DetachAccept
  <2>1. /\ pc'.usb = pc.usb
        /\ pc'.executor = pc.executor
        /\ pc'.control = "detachRetire"
        /\ pc.queue = "empty"
        /\ loc'.usb = loc.usb
    BY <1>11 DEF DetachAccept, TypeOK, PcOK, LocOK
  <2>2. \A i \in Interfaces : Worse(iface[i], iface'[i])
    BY <1>11, SameFlags DEF DetachAccept
  <2>3. UsbCalm
    BY <2>1 DEF UsbCalm
  <2>4. LinkCalm
    BY <1>11, Reads
      DEF DetachAccept, LinkCalm, Word
  <2>5. QueueCalm
    BY <1>11, <2>1, Reads
      DEF DetachAccept, QueueCalm, Held, Attached, Leaving, Left, Waiting, Late, Requesting, Word
  <2>6. QED
    BY <1>11, <2>2, <2>3, <2>4, <2>5 DEF DetachAccept, Calm, env
<1>12. CASE DetachRetire
  BY <1>12, Contexts, Reads, Where, SameFlags, SameWord, SamePhase
    DEF DetachRetire, At, Calm, UsbCalm, TypeOK, PcOK, LocOK, env
<1>13. CASE DetachKeep
  <2>1. /\ pc'.usb = pc.usb
        /\ pc'.executor = pc.executor
        /\ pc'.queue = pc.queue
        /\ pc'.control = "idle"
        /\ loc'.usb = loc.usb
    BY <1>13 DEF DetachKeep, At, TypeOK, PcOK, LocOK
  <2>2. \A i \in Interfaces : Worse(iface[i], iface'[i])
    BY <1>13, Reads, WorseFlags DEF DetachKeep
  <2>3. UsbCalm
    BY <2>1 DEF UsbCalm
  <2>4. LinkCalm
    BY <1>13, SameWord, Reads
      DEF DetachKeep
  <2>5. QueueCalm
    BY <1>13, <2>1, SameWord, SamePhase, Reads
      DEF DetachKeep
  <2>6. QED
    BY <1>13, <2>2, <2>3, <2>4, <2>5 DEF DetachKeep, Calm, env
<1>14. CASE Attach
  <2>1. /\ pc' = pc
        /\ pc.queue = "empty"
        /\ loc'.usb = loc.usb
    BY <1>14 DEF Attach, TypeOK, PcOK, LocOK
  <2>2. \A i \in Interfaces : Worse(iface[i], iface'[i])
    BY <1>14, SameFlags DEF Attach
  <2>3. UsbCalm
    BY <2>1 DEF UsbCalm
  <2>4. LinkCalm
    BY <1>14, Reads
      DEF Attach, LinkCalm, Word
  <2>5. QueueCalm
    BY <1>14, <2>1, Reads
      DEF Attach, QueueCalm, Held, Attached, Leaving, Left, Waiting, Late, Requesting, Word
  <2>6. QED
    BY <1>14, <2>2, <2>3, <2>4, <2>5 DEF Attach, Calm, env
<1>15. CASE RouteUsb
  BY <1>15, Contexts, Reads, Where, SameFlags, SameWord, SamePhase
    DEF RouteUsb, At, Keep, Calm, UsbCalm, TypeOK, PcOK, LocOK, env
<1>16. CASE RouteCommit
  BY <1>16, Contexts, Reads, Where, SameFlags, SameWord, SamePhase
    DEF RouteCommit, At, Keep, Calm, UsbCalm, TypeOK, PcOK, LocOK, env
<1>17. CASE RouteNone
  <2>1. /\ pc'.usb = pc.usb
        /\ pc'.executor = pc.executor
        /\ pc'.queue = pc.queue
        /\ pc.queue = "empty"
        /\ loc'.usb = loc.usb
    BY <1>17 DEF RouteNone, At, TypeOK, PcOK, LocOK
  <2>2. \A i \in Interfaces : Worse(iface[i], iface'[i])
    BY <1>17, SameFlags DEF RouteNone
  <2>3. UsbCalm
    BY <2>1 DEF UsbCalm
  <2>4. LinkCalm
    BY <1>17, SameWord, Reads
      DEF RouteNone
  <2>5. QueueCalm
    BY <1>17, <2>1, Reads
      DEF RouteNone, QueueCalm, Held, Attached, Leaving, Left, Waiting, Late, Requesting, Word
  <2>6. QED
    BY <1>17, <2>2, <2>3, <2>4, <2>5 DEF RouteNone, Calm, env
<1>18. CASE NoneRetire
  BY <1>18, Contexts, Reads, Where, SameFlags, SameWord, SamePhase
    DEF NoneRetire, At, Calm, UsbCalm, TypeOK, PcOK, LocOK, env
<1>19. CASE NoneKeep
  <2>1. /\ pc'.usb = pc.usb /\ pc'.executor = pc.executor /\ pc'.control = "idle"
        /\ pc.control = "noneKeep" /\ loc'.usb = loc.usb
    <3>1. \E q : pc' = [pc EXCEPT !.control = "idle", !.queue = q]
      BY <1>19 DEF NoneKeep
    <3>2. QED
      BY <1>19, <3>1, Contexts DEF NoneKeep, TypeOK, PcOK
  <2>2. \A i \in Interfaces : Worse(iface[i], iface'[i])
    <3>1. SUFFICES ASSUME NEW i \in Interfaces PROVE Worse(iface[i], iface'[i])
      OBVIOUS
    <3>2. PICK doubt \in BOOLEAN : /\ iface'[i] = Staged(iface[i], doubt)
                                   /\ iface[i].flight # None => doubt
      BY <1>19 DEF NoneKeep
    <3>3. QED
      BY <3>2, Reads DEF Staged, Worse, Iface
  <2>3. UsbCalm
    BY <2>1 DEF UsbCalm
  <2>4. LinkCalm
    <3>1. CASE \E i \in Interfaces : ~KnownAllUp(i)
      BY <1>19, <3>1, Reads, SameWord DEF NoneKeep
    <3>2. CASE \A i \in Interfaces : KnownAllUp(i)
      BY <1>19, <3>2, Reads, NothingHeld DEF NoneKeep, Confirm, LinkCalm, Word
    <3>3. QED
      BY <3>1, <3>2
  <2>5. QueueCalm
    BY <1>19, <2>1, Reads
      DEF NoneKeep, QueueCalm, Held, Attached, Leaving, Left, Waiting, Late, Requesting, TypeOK,
          PcOK
  <2>6. QED
    BY <1>19, <2>2, <2>3, <2>4, <2>5 DEF NoneKeep, Calm, env
<1>20. QED
  BY <1>1, <1>2, <1>3, <1>4, <1>5, <1>6, <1>7, <1>8, <1>9, <1>10, <1>11, <1>12, <1>13,
     <1>14, <1>15, <1>16, <1>17, <1>18, <1>19 DEF ControlStep

\* A pass, until something is submitted.
LEMMA PassCalm ==
    ASSUME TypeOK, TypeOK', Held, 
           \/ SofStart \/ SofTake \/ SofMark \/ TicketNone
           \/ (\E i \in Interfaces : TicketClaim(i))
           \/ (\E i \in Interfaces : TicketTerminal(i)) \/ SafetyNone \/ Settle
           \/ SettleAgain
    PROVE  Calm
<1>1. CASE SofStart
  <2>1. /\ pc.usb = "idle"
        /\ pc'.usb = "take"
        /\ pc'.control = pc.control
        /\ pc'.executor = pc.executor
        /\ pc'.queue = pc.queue
    BY <1>1 DEF SofStart, Keep, TypeOK, PcOK, LocOK
  <2>2. \A i \in Interfaces : Worse(iface[i], iface'[i])
    BY <1>1, SameFlags DEF SofStart
  <2>3. UsbCalm
    BY <2>1, <1>1 DEF UsbCalm, SofStart, Held, Attached, Unplugged, TypeOK, RouteOK, Bits,
        Special, Resting, Mounting, Requesting
  <2>4. LinkCalm
    BY <1>1, SameWord, Reads
      DEF SofStart
  <2>5. QueueCalm
    BY <1>1, <2>1, SameWord, SamePhase, Reads
      DEF SofStart, TypeOK, RouteOK, Bits
  <2>6. QED
    BY <1>1, <2>2, <2>3, <2>4, <2>5 DEF SofStart, Calm, env
<1>2. CASE SofTake
  BY <1>2, Contexts, Reads, Where, SameFlags, SameWord, SamePhase
    DEF SofTake, At, Keep, Special, Resting, Mounting, Requesting, Calm, UsbCalm, TypeOK, PcOK,
        LocOK, env
<1>3. CASE SofMark
  <2>1. /\ pc.usb = "mark"
        /\ pc'.usb = "ticket"
        /\ pc'.control = pc.control
        /\ pc'.executor = pc.executor
        /\ pc'.queue = pc.queue
    BY <1>3 DEF SofMark, At, TypeOK, PcOK, LocOK
  <2>2. \A i \in Interfaces : Worse(iface[i], iface'[i])
    BY <1>3, Reads
      DEF SofMark, Worse, Iface
  <2>3. UsbCalm
    BY <2>1 DEF UsbCalm, Special, Resting, Mounting, Requesting
  <2>4. LinkCalm
    BY <1>3, SameWord, Reads
      DEF SofMark
  <2>5. QueueCalm
    BY <1>3, <2>1, SameWord, SamePhase, Reads
      DEF SofMark
  <2>6. QED
    BY <1>3, <2>2, <2>3, <2>4, <2>5 DEF SofMark, Calm, env
<1>4. CASE TicketNone
  <2>1. /\ pc.usb = "ticket" /\ pc'.usb \in {"slot"}
        /\ pc'.control = pc.control /\ pc'.queue = pc.queue /\ pc'.executor = pc.executor
    BY <1>4, Contexts DEF TicketNone, Goto, AfterSlots, TypeOK, PcOK
  <2>2. link' = link /\ bits' = bits /\ iface' = iface /\ wire' = wire /\ host' = host
    BY <1>4 DEF TicketNone, shared, env
  <2>3. UsbCalm
    BY <2>1 DEF UsbCalm, Special, Resting, Mounting, Requesting
  <2>4. QED
    BY <2>1, <2>2, <2>3, Reads, SameFlags, SameWord, SamePhase DEF Calm
<1>5. CASE \E i \in Interfaces : TicketClaim(i)
  <2>1. /\ pc.usb = "ticket" /\ pc'.usb = "check"
        /\ pc'.control = pc.control /\ pc'.queue = pc.queue /\ pc'.executor = pc.executor
    BY <1>5, Contexts DEF TicketClaim, TypeOK, PcOK
  <2>2. link' = link /\ bits' = bits /\ iface' = iface /\ wire' = wire /\ host' = host
    BY <1>5 DEF TicketClaim, env
  <2>3. UsbCalm
    BY <2>1 DEF UsbCalm, Special, Resting, Mounting, Requesting
  <2>4. QED
    BY <2>1, <2>2, <2>3, Reads, SameFlags, SameWord, SamePhase DEF Calm
<1>6. CASE \E i \in Interfaces : TicketTerminal(i)
  <2>1. /\ pc.usb = "terminal" /\ pc'.usb = "idle"
        /\ pc'.control = pc.control /\ pc'.queue = pc.queue /\ pc'.executor = pc.executor
    BY <1>6, Contexts DEF TicketTerminal, TypeOK, PcOK
  <2>2. link' = link /\ bits' = bits /\ iface' = iface /\ wire' = wire /\ host' = host
    BY <1>6 DEF TicketTerminal, env
  <2>3. UsbCalm
    BY <2>1 DEF UsbCalm, Special, Resting, Mounting, Requesting
  <2>4. QED
    BY <2>1, <2>2, <2>3, Reads, SameFlags, SameWord, SamePhase DEF Calm
<1>7. CASE SafetyNone
  <2>1. /\ pc.usb = "slot" /\ pc'.usb \in {"settle", "idle"}
        /\ pc'.control = pc.control /\ pc'.queue = pc.queue /\ pc'.executor = pc.executor
    BY <1>7, Contexts DEF SafetyNone, Goto, AfterSlots, TypeOK, PcOK
  <2>2. link' = link /\ bits' = bits /\ iface' = iface /\ wire' = wire /\ host' = host
    BY <1>7 DEF SafetyNone, shared, env
  <2>3. UsbCalm
    BY <2>1 DEF UsbCalm, Special, Resting, Mounting, Requesting
  <2>4. QED
    BY <2>1, <2>2, <2>3, Reads, SameFlags, SameWord, SamePhase DEF Calm
<1>8. CASE Settle
  <2>0. /\ pc.usb = "settle"
        /\ pc' = [pc EXCEPT !.usb = "settleAgain"] \/ pc' = [pc EXCEPT !.usb = "idle"]
    BY <1>8 DEF Settle, Keep
  <2>1. /\ pc.usb = "settle"
        /\ pc'.usb \in {"settleAgain", "idle"}
        /\ pc'.control = pc.control
        /\ pc'.executor = pc.executor
        /\ pc'.queue = pc.queue
    BY <2>0, Contexts DEF TypeOK, PcOK, LocOK
  <2>2. \A i \in Interfaces : Worse(iface[i], iface'[i])
    BY <1>8, SameFlags DEF Settle
  <2>3. UsbCalm
    BY <2>1 DEF UsbCalm, Special, Resting, Mounting, Requesting
  <2>4. LinkCalm
    BY <1>8, SameWord, Reads
      DEF Settle
  <2>5. QueueCalm
    BY <1>8, <2>1, SameWord, SamePhase, Reads
      DEF Settle
  <2>6. QED
    BY <1>8, <2>2, <2>3, <2>4, <2>5 DEF Settle, Calm, env
<1>9. CASE SettleAgain
  BY <1>9, Contexts, Reads, Where, SameFlags, SameWord, SamePhase
    DEF SettleAgain, At, Keep, Special, Resting, Mounting, Requesting, Calm, UsbCalm, TypeOK,
        PcOK, LocOK, env
<1>10. QED
  BY <1>1, <1>2, <1>3, <1>4, <1>5, <1>6, <1>7, <1>8, <1>9

\* Callbacks that only add doubts.
LEMMA CallbackCalm ==
    ASSUME TypeOK, TypeOK', Held, 
           \/ UnmountClear \/ Suspend \/ SuspendKeep \/ SuspendBits \/ Resume
    PROVE  Calm
<1>1. CASE UnmountClear
  BY <1>1, Contexts, Reads, Where, SameFlags, SameWord, SamePhase
    DEF UnmountClear, At, Keep, Special, Resting, Mounting, Requesting, Calm, UsbCalm, TypeOK,
        PcOK, LocOK, env
<1>2. CASE Suspend
  <2>1. /\ pc.usb = "idle"
        /\ pc'.usb = "suspendKeep"
        /\ pc'.control = pc.control
        /\ pc'.executor = pc.executor
        /\ pc'.queue = pc.queue
    BY <1>2 DEF Suspend, At, TypeOK, PcOK, LocOK
  <2>2. \A i \in Interfaces : Worse(iface[i], iface'[i])
    BY <1>2, SameFlags DEF Suspend
  <2>3. UsbCalm
    BY <2>1, <1>2 DEF UsbCalm, Suspend, Held, Attached, Unplugged, Special, Resting, Mounting,
        Requesting
  <2>4. LinkCalm
    BY <1>2, Reads
      DEF Suspend, LinkCalm, Word
  <2>5. QueueCalm
    BY <1>2, <2>1, Reads
      DEF Suspend, QueueCalm, Held, Attached, Leaving, Left, Waiting, Late, Requesting, Word
  <2>6. QED
    BY <1>2, <2>2, <2>3, <2>4, <2>5 DEF Suspend, Calm, env
<1>3. CASE SuspendKeep
  <2>1. /\ pc.usb = "suspendKeep"
        /\ pc'.usb = "suspendBits"
        /\ pc'.control = pc.control
        /\ pc'.executor = pc.executor
        /\ pc'.queue = pc.queue
    BY <1>3 DEF SuspendKeep, At, TypeOK, PcOK, LocOK
  <2>2. \A i \in Interfaces : Worse(iface[i], iface'[i])
    BY <1>3, Reads, WorseFlags DEF SuspendKeep
  <2>3. UsbCalm
    BY <2>1 DEF UsbCalm, Special, Resting, Mounting, Requesting
  <2>4. LinkCalm
    BY <1>3, SameWord, Reads
      DEF SuspendKeep
  <2>5. QueueCalm
    BY <1>3, <2>1, SameWord, SamePhase, Reads
      DEF SuspendKeep
  <2>6. QED
    BY <1>3, <2>2, <2>3, <2>4, <2>5 DEF SuspendKeep, Calm, env
<1>4. CASE SuspendBits
  BY <1>4, Contexts, Reads, Where, SameFlags, SameWord, SamePhase
    DEF SuspendBits, At, Special, Resting, Mounting, Requesting, Calm, UsbCalm, TypeOK, PcOK,
        LocOK, env
<1>5. CASE Resume
  <2>1. /\ pc' = pc
        /\ loc'.usb = loc.usb
    BY <1>5 DEF Resume, TypeOK, PcOK, LocOK
  <2>2. \A i \in Interfaces : Worse(iface[i], iface'[i])
    BY <1>5, SameFlags DEF Resume
  <2>3. UsbCalm
    BY <2>1 DEF UsbCalm
  <2>4. LinkCalm
    BY <1>5, Reads
      DEF Resume, LinkCalm, Word
  <2>5. QueueCalm
    BY <1>5, <2>1, Reads
      DEF Resume, QueueCalm, Held, Attached, Leaving, Left, Waiting, Late, Requesting, Word
  <2>6. QED
    BY <1>5, <2>2, <2>3, <2>4, <2>5 DEF Resume, Calm, env
<1>6. QED
  BY <1>1, <1>2, <1>3, <1>4, <1>5

\* The executor, outside a detach.
LEMMA ExecutorCalm ==
    ASSUME TypeOK, TypeOK', Held, 
           \/ Stall \/ StallKeep \/ StallBits \/ RouteOvertaken \/ DoubtFlags \/ DoubtWord
           \/ RouteDone
    PROVE  Calm
<1>1. CASE Stall
  <2>1. /\ pc'.usb = pc.usb
        /\ pc'.control = pc.control
        /\ pc'.queue = pc.queue
        /\ pc.executor = "idle" /\ pc'.executor = "stallKeep"
        /\ loc'.usb = loc.usb
    BY <1>1 DEF Stall, At, TypeOK, PcOK, LocOK
  <2>2. \A i \in Interfaces : Worse(iface[i], iface'[i])
    BY <1>1, SameFlags DEF Stall
  <2>3. UsbCalm
    BY <2>1 DEF UsbCalm
  <2>4. LinkCalm
    BY <1>1, SameWord, Reads
      DEF Stall
  <2>5. QueueCalm
    BY <1>1, <2>1, Reads
      DEF Stall, QueueCalm, Held, Attached, Leaving, Left, Waiting, Late, Requesting, Word
  <2>6. QED
    BY <1>1, <2>2, <2>3, <2>4, <2>5 DEF Stall, Calm, env
<1>2. CASE StallKeep
  <2>1. /\ pc'.usb = pc.usb
        /\ pc'.control = pc.control
        /\ pc'.queue = pc.queue
        /\ pc.executor = "stallKeep" /\ pc'.executor = "stallBits"
        /\ loc'.usb = loc.usb
    BY <1>2 DEF StallKeep, At, TypeOK, PcOK, LocOK
  <2>2. \A i \in Interfaces : Worse(iface[i], iface'[i])
    BY <1>2, Reads, WorseFlags DEF StallKeep
  <2>3. UsbCalm
    BY <2>1 DEF UsbCalm
  <2>4. LinkCalm
    BY <1>2, SameWord, Reads
      DEF StallKeep
  <2>5. QueueCalm
    BY <1>2, <2>1, Reads
      DEF StallKeep, QueueCalm, Held, Attached, Leaving, Left, Waiting, Late, Requesting, Word
  <2>6. QED
    BY <1>2, <2>2, <2>3, <2>4, <2>5 DEF StallKeep, Calm, env
<1>3. CASE StallBits
  <2>1. /\ pc'.usb = pc.usb
        /\ pc'.control = pc.control
        /\ pc'.queue = pc.queue
        /\ pc.executor = "stallBits" /\ pc'.executor = "idle"
        /\ loc'.usb = loc.usb
    BY <1>3 DEF StallBits, At, TypeOK, PcOK, LocOK
  <2>2. \A i \in Interfaces : Worse(iface[i], iface'[i])
    BY <1>3, SameFlags DEF StallBits
  <2>3. UsbCalm
    BY <2>1 DEF UsbCalm
  <2>4. LinkCalm
    BY <1>3, SameWord, Reads
      DEF StallBits
  <2>5. QueueCalm
    BY <1>3, <2>1, Reads
      DEF StallBits, QueueCalm, Held, Attached, Leaving, Left, Waiting, Late, Requesting, Word
  <2>6. QED
    BY <1>3, <2>2, <2>3, <2>4, <2>5 DEF StallBits, Calm, env
<1>4. CASE RouteOvertaken
  <2>0. /\ pc.executor = "idle" /\ pc.queue = "route"
        /\ pc' = [pc EXCEPT !.executor = "doubtFlags"] \/ pc' = [pc EXCEPT !.queue = "empty"]
        /\ loc' = loc \/ \E v : loc' = [loc EXCEPT !.executor = v]
    BY <1>4 DEF RouteOvertaken, Keep, shared
  <2>1. /\ pc'.usb = pc.usb
        /\ pc'.control = pc.control
        /\ \/ pc'.executor = pc.executor /\ pc'.queue = "empty"
           \/ pc'.executor = "doubtFlags" /\ pc'.queue = "route"
        /\ pc.executor = "idle" /\ pc.queue = "route"
        /\ loc'.usb = loc.usb
    BY <2>0, Contexts DEF TypeOK, PcOK, LocOK
  <2>2. \A i \in Interfaces : Worse(iface[i], iface'[i])
    BY <1>4, SameFlags DEF RouteOvertaken, shared
  <2>3. UsbCalm
    BY <2>1 DEF UsbCalm
  <2>4. LinkCalm
    BY <1>4, SameWord, Reads
      DEF RouteOvertaken, shared
  <2>5. QueueCalm
    BY <1>4, <2>1, Reads
      DEF RouteOvertaken, QueueCalm, Held, Attached, Leaving, Left, Waiting, Late, Requesting,
          Word, shared
  <2>6. QED
    BY <1>4, <2>2, <2>3, <2>4, <2>5 DEF RouteOvertaken, Calm, env, shared
<1>5. CASE DoubtFlags
  <2>1. /\ pc'.usb = pc.usb
        /\ pc'.control = pc.control
        /\ pc'.queue = pc.queue
        /\ pc.executor = "doubtFlags" /\ pc'.executor = "doubtWord"
        /\ loc'.usb = loc.usb
    BY <1>5 DEF DoubtFlags, At, TypeOK, PcOK, LocOK
  <2>2. \A i \in Interfaces : Worse(iface[i], iface'[i])
    BY <1>5, Reads, WorseFlags DEF DoubtFlags
  <2>3. UsbCalm
    BY <2>1 DEF UsbCalm
  <2>4. LinkCalm
    BY <1>5, SameWord, Reads
      DEF DoubtFlags
  <2>5. QueueCalm
    BY <1>5, <2>1, Reads
      DEF DoubtFlags, QueueCalm, Held, Attached, Leaving, Left, Waiting, Late, Requesting, Word
  <2>6. QED
    BY <1>5, <2>2, <2>3, <2>4, <2>5 DEF DoubtFlags, Calm, env
<1>6. CASE DoubtWord
  <2>1. /\ pc'.usb = pc.usb
        /\ pc'.control = pc.control
        /\ pc'.queue = pc.queue
        /\ pc.executor = "doubtWord" /\ pc'.executor = "safe"
        /\ loc'.usb = loc.usb
    BY <1>6 DEF DoubtWord, At, TypeOK, PcOK, LocOK
  <2>2. \A i \in Interfaces : Worse(iface[i], iface'[i])
    BY <1>6, SameFlags DEF DoubtWord
  <2>3. UsbCalm
    BY <2>1 DEF UsbCalm
  <2>4. LinkCalm
    BY <1>6, Reads
      DEF DoubtWord, Doubt, LinkCalm, Word
  <2>5. QueueCalm
    BY <1>6, <2>1, Reads
      DEF DoubtWord, QueueCalm, Held, Attached, Leaving, Left, Waiting, Late, Requesting, Word,
          Doubt
  <2>6. QED
    BY <1>6, <2>2, <2>3, <2>4, <2>5 DEF DoubtWord, Calm, env
<1>7. CASE RouteDone
  <2>1. /\ pc'.usb = pc.usb
        /\ pc'.control = pc.control
        /\ pc'.queue = "empty" /\ pc'.executor = "idle"
        /\ loc'.usb = loc.usb
    BY <1>7 DEF RouteDone, Keep, TypeOK, PcOK, LocOK
  <2>2. \A i \in Interfaces : Worse(iface[i], iface'[i])
    BY <1>7, SameFlags DEF RouteDone
  <2>3. UsbCalm
    BY <2>1 DEF UsbCalm
  <2>4. LinkCalm
    BY <1>7, SameWord, Reads
      DEF RouteDone
  <2>5. QueueCalm
    BY <1>7, <2>1, Reads
      DEF RouteDone, QueueCalm, Held, Attached, Leaving, Left, Waiting, Late, Requesting, Word
  <2>6. QED
    BY <1>7, <2>2, <2>3, <2>4, <2>5 DEF RouteDone, Calm, env
<1>8. QED
  BY <1>1, <1>2, <1>3, <1>4, <1>5, <1>6, <1>7

-----------------------------------------------------------------------------
(* A pass, from the check to the submission.                               *)

\* A slot that changes hands changes nothing else of its interface.
SameMarks(f, f2) ==
  /\ f2.held = f.held /\ f2.conf = f.conf /\ f2.safety = f.safety /\ f2.unc = f.unc
  /\ f2.flight = f.flight

\* A report that was checked is about to be submitted.
LEMMA CheckHeld ==
    ASSUME TypeOK, TypeOK', Held, NEW i \in Interfaces, TicketCheck(i), pc'.usb = "submit"
    PROVE  Held'
<1>1. /\ pc.usb = "check" /\ link.at = "mounted" /\ loc'.usb = loc.usb
      /\ pc'.control = pc.control /\ pc'.queue = pc.queue /\ pc'.executor = pc.executor
      /\ link' = link /\ bits' = bits /\ iface' = iface /\ wire' = wire /\ host' = host
  BY Contexts
    DEF TicketCheck, MountedAndActive, NextTicket, Goto, env, TypeOK, PcOK, LocOK
<1>2. Attached'
  BY <1>1 DEF Held, Attached, Unplugged, Resting, WiresDown, NoFlight
<1>3. Flown'
  BY <1>1 DEF Held, Flown
<1>4. Owed'
  BY <1>1 DEF Held, Owed, Presses, Doubtful
<1>5. Confirmed'
  BY <1>1 DEF Held, Confirmed, Landed
<1>6. Detached'
  BY <1>1 DEF Held, Detached, Leaving, Left, Waiting, Late, Requesting, Attached
<1>7. Doubted'
  BY <1>1 DEF Held, Doubted, Unplugged, Mounting, Requesting, AllUp, Presses
<1>8. QED
  BY <1>2, <1>3, <1>4, <1>5, <1>6, <1>7 DEF Held

\* A report has left.
LEMMA SubmitHeld ==
    ASSUME TypeOK, TypeOK', Held, NEW i \in Interfaces, TicketSubmit(i), pc'.usb = "terminal"
    PROVE  Held'
<1>1. /\ pc.usb = "submit" /\ loc.usb.i = i
      /\ pc'.control = pc.control /\ pc'.queue = pc.queue /\ pc'.executor = pc.executor
      /\ link' = link /\ bits' = bits /\ host' = host
  BY Contexts
    DEF TicketSubmit, NextTicket, Goto, TypeOK, PcOK, LocOK
<1>2. /\ iface'[i].held = loc.usb.k.held /\ iface'[i].safety = iface[i].safety
      /\ iface'[i].unc = iface[i].unc
      /\ iface'[i].flight # None /\ iface'[i].flight.kind = "unsafe"
      /\ iface'[i].flight.held = loc.usb.k.held
      /\ wire'[i].held = loc.usb.k.held
      /\ \A j \in Interfaces : j # i => iface'[j] = iface[j] /\ wire'[j] = wire[j]
  BY Contexts, Reads
    DEF TicketSubmit, NextTicket, Goto, Iface, TypeOK, IfaceOK, BusOK, PcOK, None
<1>3. ~Unplugged /\ ~Left
  BY <1>1
    DEF Held, Attached, Detached, Resting
<1>4. Attached'
  BY <1>1, <1>2, <1>3 DEF Held, Attached, Unplugged, Resting, WiresDown, NoFlight
<1>5. Flown'
  BY <1>1, <1>2, <1>3 DEF Held, Flown
<1>6. Owed'
  BY <1>1, <1>2, <1>3 DEF Held, Owed, Presses, Doubtful
<1>7. Confirmed'
  BY <1>1, <1>2, <1>3 DEF Held, Confirmed, Landed
<1>8. Detached'
  BY <1>1, <1>2, <1>3 DEF Held, Detached, Leaving, Left, Waiting, Late, Requesting
<1>9. Doubted'
  BY <1>1, <1>2, <1>3 DEF Held, Doubted, Unplugged, Mounting, Requesting, AllUp, Presses
<1>10. QED
  BY <1>4, <1>5, <1>6, <1>7, <1>8, <1>9 DEF Held

\* An all-up gets its slot.
LEMMA QueueHeld ==
    ASSUME TypeOK, TypeOK', Held, NEW i \in Interfaces, SafetyQueue(i), pc'.usb = "slotClaim"
    PROVE  Held'
<1>1. /\ pc.usb = "slot"
      /\ pc'.control = pc.control /\ pc'.queue = pc.queue /\ pc'.executor = pc.executor
      /\ link' = link /\ bits' = bits /\ wire' = wire /\ host' = host
  BY Contexts
    DEF SafetyQueue, NextSlot, Goto, AfterSlots, env, TypeOK, PcOK, LocOK
<1>2. loc'.usb.i = i
  <2>1. PICK k : loc' = [loc EXCEPT !.usb = [loc.usb EXCEPT !.k = k, !.i = i]]
    BY Contexts DEF SafetyQueue, NextSlot, Goto, AfterSlots, Keep, TypeOK, PcOK
  <2>2. QED
    BY <2>1, Contexts, Reads DEF TypeOK, LocOK, Local
<1>3. iface' = [iface EXCEPT ![i].slot = "ready"] /\ iface[i].safety
  BY Contexts
    DEF SafetyQueue, First, SafetyWork, NextSlot, Goto, AfterSlots, TypeOK, PcOK, LocOK
<1>4. \A j \in Interfaces : SameMarks(iface[j], iface'[j])
  BY <1>3, Reads
    DEF Iface, TypeOK, IfaceOK, SameMarks
<1>5. Attached'
  BY <1>1, <1>2, <1>3, <1>4 DEF Held, Attached, Unplugged, Resting, WiresDown, NoFlight, SameMarks
<1>6. Flown'
  BY <1>1, <1>2, <1>3, <1>4 DEF Held, Flown, SameMarks
<1>7. Owed'
  BY <1>1, <1>2, <1>3, <1>4 DEF Held, Owed, Presses, Doubtful, SameMarks
<1>8. Confirmed'
  BY <1>1, <1>2, <1>3, <1>4 DEF Held, Confirmed, Landed, SameMarks
<1>9. Detached'
  BY <1>1, <1>2, <1>3, <1>4 DEF Held, Detached, Leaving, Left, Waiting, Late, Requesting,
      SameMarks, Doubtful, AllUp, Presses
<1>10. Doubted'
  BY <1>1, <1>2, <1>3, <1>4 DEF Held, Doubted, Unplugged, Mounting, Requesting, AllUp, Presses
<1>11. QED
  BY <1>5, <1>6, <1>7, <1>8, <1>9, <1>10 DEF Held

\* It is claimed.
LEMMA SafetyClaimHeld ==
    ASSUME TypeOK, TypeOK', Held, NEW i \in Interfaces, SafetyClaim(i), pc'.usb = "slotSubmit"
    PROVE  Held'
<1>1. /\ pc.usb = "slotClaim" /\ loc'.usb = loc.usb
      /\ pc'.control = pc.control /\ pc'.queue = pc.queue /\ pc'.executor = pc.executor
      /\ link' = link /\ bits' = bits /\ wire' = wire /\ host' = host
  BY Contexts
    DEF SafetyClaim, NextSlot, Goto, AfterSlots, env, TypeOK, PcOK, LocOK
<1>2. iface' = [iface EXCEPT ![i].slot = "executing"]
  BY Contexts
    DEF SafetyClaim, NextSlot, Goto, AfterSlots, TypeOK, PcOK, LocOK
<1>3. /\ \A j \in Interfaces : SameMarks(iface[j], iface'[j])
      /\ loc.usb.i \in Interfaces
  BY <1>2, Reads, Contexts
    DEF Iface, TypeOK, IfaceOK, SameMarks
<1>4. Attached'
  BY <1>1, <1>2, <1>3 DEF Held, Attached, Unplugged, Resting, WiresDown, NoFlight, SameMarks
<1>5. Flown'
  BY <1>1, <1>2, <1>3 DEF Held, Flown, SameMarks
<1>6. Owed'
  BY <1>1, <1>2, <1>3 DEF Held, Owed, Presses, Doubtful, SameMarks
<1>7. Confirmed'
  BY <1>1, <1>2, <1>3 DEF Held, Confirmed, Landed, SameMarks
<1>8. Detached'
  BY <1>1, <1>2, <1>3 DEF Held, Detached, Leaving, Left, Waiting, Late, Requesting, SameMarks,
      Doubtful, AllUp, Presses
<1>9. Doubted'
  BY <1>1, <1>2, <1>3 DEF Held, Doubted, Unplugged, Mounting, Requesting, AllUp, Presses
<1>10. QED
  BY <1>4, <1>5, <1>6, <1>7, <1>8, <1>9 DEF Held

\* An all-up has left.
LEMMA SafetySubmitHeld ==
    ASSUME TypeOK, TypeOK', Held, NEW i \in Interfaces, SafetySubmit(i), wire' # wire
    PROVE  Held'
<1>1. /\ pc.usb = "slotSubmit" /\ loc.usb.i = i /\ pc'.usb \in {"settle", "idle"}
      /\ pc'.control = pc.control /\ pc'.queue = pc.queue /\ pc'.executor = pc.executor
      /\ link' = link /\ bits' = bits /\ host' = host
  BY Contexts
    DEF SafetySubmit, NextSlot, Goto, AfterSlots, TypeOK, PcOK, LocOK
<1>2. /\ iface'[i].held = FALSE /\ iface'[i].safety = iface[i].safety
      /\ iface'[i].unc = iface[i].unc
      /\ iface'[i].flight # None /\ iface'[i].flight.kind = "safety" /\ ~iface'[i].flight.held
      /\ ~wire'[i].held
      /\ \A j \in Interfaces : j # i => iface'[j] = iface[j] /\ wire'[j] = wire[j]
  BY Reads
    DEF SafetySubmit, Iface, TypeOK, IfaceOK, BusOK, None, env
<1>3. ~Unplugged /\ iface[i].safety
  BY <1>1
    DEF Held, Attached, Flown, Resting
<1>4. AllUp => AllUp'
  BY <1>1, <1>2
    DEF AllUp, Presses
<1>5. Attached'
  BY <1>1, <1>2, <1>3, <1>4 DEF Held, Attached, Unplugged, Resting, WiresDown, NoFlight
<1>6. Flown'
  BY <1>1, <1>2, <1>3, <1>4 DEF Held, Flown
<1>7. Owed'
  BY <1>1, <1>2, <1>3, <1>4 DEF Held, Owed, Presses, Doubtful
<1>8. Confirmed'
  BY <1>1, <1>2, <1>3, <1>4 DEF Held, Confirmed, Landed
<1>9. Detached'
  BY <1>1, <1>2, <1>3, <1>4 DEF Held, Detached, Leaving, Left, Waiting, Late, Requesting
<1>10. Doubted'
  BY <1>1, <1>2, <1>3, <1>4 DEF Held, Doubted, Unplugged, Mounting, Requesting
<1>11. QED
  BY <1>5, <1>6, <1>7, <1>8, <1>9, <1>10 DEF Held

\* Whatever is refused or passed over only moves the task on.
LEMMA WalkCalm ==
    ASSUME TypeOK, TypeOK', Held, NEW i \in Interfaces,
           \/ TicketCheck(i) /\ pc'.usb # "submit"
           \/ TicketSubmit(i) /\ pc'.usb # "terminal"
           \/ SafetyQueue(i) /\ pc'.usb # "slotClaim"
           \/ SafetyClaim(i) /\ pc'.usb # "slotSubmit"
           \/ SafetySubmit(i) /\ wire' = wire
    PROVE  Calm
<1> DEFINE Refused == /\ pc.usb \in {"check", "submit", "slot", "slotClaim", "slotSubmit"}
                      /\ \/ NextTicket(i) \/ NextSlot(i)
                      /\ wire' = wire /\ host' = host /\ link' = link /\ bits' = bits
                      /\ iface' = iface \/ iface' = [iface EXCEPT ![i].slot = "empty"]
<1>1. Refused
  <2>1. CASE TicketCheck(i) /\ pc'.usb # "submit"
    BY <2>1, Contexts DEF TicketCheck, TypeOK, PcOK, env
  <2>2. CASE TicketSubmit(i) /\ pc'.usb # "terminal"
    BY <2>2, Contexts DEF TicketSubmit, TypeOK, PcOK
  <2>3. CASE SafetyQueue(i) /\ pc'.usb # "slotClaim"
    BY <2>3, Contexts DEF SafetyQueue, TypeOK, PcOK, env
  <2>4. CASE SafetyClaim(i) /\ pc'.usb # "slotSubmit"
    BY <2>4, Contexts DEF SafetyClaim, TypeOK, PcOK, env
  <2>5. CASE SafetySubmit(i) /\ wire' = wire
    <3>1. wire[i] = None => wire' # [wire EXCEPT ![i] = [kind |-> "safety", held |-> FALSE]]
      BY <2>5 DEF None, TypeOK, BusOK
    <3>2. QED
      BY <2>5, <3>1 DEF SafetySubmit
  <2>6. QED
    BY <2>1, <2>2, <2>3, <2>4, <2>5
<1> HIDE DEF Refused
<1>2. /\ pc.usb \in {"check", "submit", "slot", "slotClaim", "slotSubmit"}
      /\ pc'.usb \in {"ticket", "slot", "settle", "idle"}
      /\ pc'.control = pc.control /\ pc'.queue = pc.queue /\ pc'.executor = pc.executor
  <2>1. \E to \in {"ticket", "slot", "settle", "idle"} : pc' = [pc EXCEPT !.usb = to]
    BY <1>1 DEF Refused, NextTicket, NextSlot, Goto, AfterSlots
  <2>2. QED
    BY <1>1, <2>1, Contexts DEF Refused, TypeOK, PcOK
<1>3. UsbCalm
  BY <1>2 DEF UsbCalm, Special, Resting, Mounting, Requesting
<1>4. \A j \in Interfaces : Worse(iface[j], iface'[j])
  <2>1. CASE iface' = iface
    BY <2>1, SameFlags
  <2>2. CASE iface' = [iface EXCEPT ![i].slot = "empty"]
    BY <2>2, Reads DEF Worse, Iface, TypeOK, IfaceOK
  <2>3. QED
    BY <1>1, <2>1, <2>2 DEF Refused
<1>5. LinkCalm /\ QueueCalm
  BY <1>1, <1>2, Reads, SameWord, SamePhase DEF Refused
<1>6. QED
  BY <1>1, <1>3, <1>4, <1>5 DEF Calm, Refused

-----------------------------------------------------------------------------
(* The callbacks.                                                          *)

\* A report arrived that is the firmware's own.
LEMMA CompleteHeld ==
    ASSUME TypeOK, TypeOK', Held, NEW i \in Interfaces, Complete(i), OwnFlight(i)
    PROVE  Held'
<1>1. /\ pc.usb = "idle" /\ pc'.usb = "complete" /\ loc'.usb.i = i
      /\ pc'.control = pc.control /\ pc'.queue = pc.queue /\ pc'.executor = pc.executor
      /\ link' = link /\ bits' = bits
      /\ loc'.usb.ok = (iface[i].flight.kind = "safety")
  <2>1. /\ pc.usb = "idle" /\ pc' = [pc EXCEPT !.usb = "complete"] /\ link' = link /\ bits' = bits
        /\ loc' = [loc EXCEPT !.usb = [NoLocals EXCEPT !.i = i,
                                                       !.ok = iface[i].flight.kind = "safety"]]
    BY DEF Complete, Keep
  <2>2. QED
    BY <2>1, Contexts DEF NoLocals, TypeOK, PcOK, LocOK
<1>2. /\ wire[i] # None /\ wire'[i] = None /\ host'[i] = iface[i].flight.held
      /\ iface[i].flight # None /\ iface'[i].flight = iface[i].flight
      /\ iface'[i].unc = FALSE /\ iface'[i].conf = iface[i].flight.held
      /\ iface[i].flight.kind = "safety" => ~iface'[i].held /\ ~iface'[i].safety
      /\ iface[i].flight.kind # "safety" => iface'[i].held = iface[i].held
                                             /\ iface'[i].safety = iface[i].safety
      /\ iface[i].flight.kind \in {"safety", "unsafe"}
      /\ iface[i].flight.held = wire[i].held
      /\ \A j \in Interfaces : j # i => /\ iface'[j] = iface[j] /\ wire'[j] = wire[j]
                                        /\ host'[j] = host[j]
  <2>1. /\ iface' = [iface EXCEPT ![i].unc = FALSE, ![i].conf = iface[i].flight.held,
               ![i].held   = IF iface[i].flight.kind = "safety" THEN FALSE ELSE @,
               ![i].safety = IF iface[i].flight.kind = "safety" THEN FALSE ELSE @]
        /\ wire[i] # None /\ wire' = [wire EXCEPT ![i] = None]
        /\ host' = [host EXCEPT ![i] = wire[i].held]
    BY DEF Complete, Take
  <2>2. iface[i].flight \in Flight /\ iface[i].flight # None /\ iface[i].flight.held = wire[i].held
    BY Reads DEF OwnFlight, Iface
  <2>3. /\ wire'[i] = None /\ host'[i] = wire[i].held
        /\ \A j \in Interfaces : j # i => /\ iface'[j] = iface[j] /\ wire'[j] = wire[j]
                                          /\ host'[j] = host[j]
    BY <2>1 DEF TypeOK, IfaceOK, BusOK
  <2>4. iface'[i] = [iface[i] EXCEPT !.unc = FALSE, !.conf = iface[i].flight.held,
               !.held   = IF iface[i].flight.kind = "safety" THEN FALSE ELSE @,
               !.safety = IF iface[i].flight.kind = "safety" THEN FALSE ELSE @]
    BY <2>1 DEF TypeOK, IfaceOK
  <2>5. iface[i] \in Iface
    BY Reads
  <2>6. /\ iface'[i].flight = iface[i].flight /\ iface'[i].unc = FALSE
        /\ iface'[i].conf = iface[i].flight.held
        /\ iface'[i].held = IF iface[i].flight.kind = "safety" THEN FALSE ELSE iface[i].held
        /\ iface'[i].safety = IF iface[i].flight.kind = "safety" THEN FALSE ELSE iface[i].safety
    BY <2>4, <2>5 DEF Iface
  <2>7. QED
    BY <2>1, <2>2, <2>3, <2>6 DEF Flight
<1>3. ~Unplugged
  BY <1>1, <1>2
    DEF Complete, BusLive, Held, Attached, WiresDown, Unplugged
<1>4. AllUp => AllUp'
  BY <1>2
    DEF AllUp, Presses
<1>5. Attached'
  BY <1>1, <1>2, <1>3, <1>4 DEF Held, Attached, Unplugged, Resting, WiresDown, NoFlight
<1>6. Flown'
  <2>1. \A j \in Interfaces : LET f == iface'[j].flight IN f # None =>
          /\ f.kind = "safety" => ~f.held
          /\ f.kind = "unsafe" => f.held = iface'[j].held
    BY <1>2 DEF Held, Flown
  <2>2. iface[i].flight.kind = "unsafe" => iface[i].flight.held = iface[i].held
    BY <1>2 DEF Held, Flown
  <2>3. LET f == iface'[i] IN
          /\ wire'[i] = None
          /\ host'[i] => f.held \/ f.unc
          /\ loc'.usb.ok /\ ~f.safety => ~f.held /\ ~f.unc
    <3>1. CASE iface[i].flight.kind = "safety"
      BY <1>2, <2>1, <3>1
    <3>2. CASE iface[i].flight.kind = "unsafe"
      BY <1>1, <1>2, <2>2, <3>2
    <3>3. QED
      BY <1>2, <3>1, <3>2
  <2>4. QED
    BY <1>1, <2>1, <2>3 DEF Flown
<1>7. Owed'
  BY <1>1, <1>2, <1>3, <1>4 DEF Held, Owed, Presses, Doubtful
<1>8. Confirmed'
  BY <1>1, <1>2, <1>3, <1>4 DEF Held, Confirmed, Landed
<1>9. Detached'
  BY <1>1, <1>2, <1>3, <1>4 DEF Held, Detached, Leaving, Left, Waiting, Late, Requesting, Doubtful
<1>10. Doubted'
  BY <1>1, <1>2, <1>3, <1>4 DEF Held, Doubted, Unplugged, Mounting, Requesting
<1>11. QED
  BY <1>5, <1>6, <1>7, <1>8, <1>9, <1>10 DEF Held

\* Any other report arrived.
LEMMA CompleteOtherHeld ==
    ASSUME TypeOK, TypeOK', Held, NEW i \in Interfaces, Complete(i), ~OwnFlight(i)
    PROVE  Held'
<1>1. pc' = pc /\ loc' = loc /\ link' = link /\ bits' = bits /\ iface' = iface /\ pc.usb = "idle"
  BY DEF Complete
<1>2. /\ wire[i] # None /\ wire'[i] = None /\ host'[i] = wire[i].held
      /\ \A j \in Interfaces : j # i => wire'[j] = wire[j] /\ host'[j] = host[j]
  BY DEF Complete, Take, TypeOK, BusOK
<1>3. \A j \in Interfaces : Presses(j)' => Presses(j)
  BY <1>2
    DEF Presses
<1>4. Attached'
  BY <1>1, <1>2, <1>3 DEF Held, Attached, Unplugged, Resting, WiresDown, NoFlight
<1>5. Flown'
  BY <1>1, <1>2, <1>3 DEF Held, Flown
<1>6. Owed'
  BY <1>1, <1>2, <1>3 DEF Held, Owed, Presses, Doubtful
<1>7. Confirmed'
  BY <1>1, <1>2, <1>3 DEF Held, Confirmed, Landed
<1>8. Detached'
  BY <1>1, <1>2, <1>3 DEF Held, Detached, Leaving, Left, Waiting, Late, Requesting, AllUp
<1>9. Doubted'
  BY <1>1, <1>2, <1>3 DEF Held, Doubted, Unplugged, Mounting, Requesting, AllUp
<1>10. QED
  BY <1>4, <1>5, <1>6, <1>7, <1>8, <1>9 DEF Held

\* The firmware's own report failed.
LEMMA FailHeld ==
    ASSUME TypeOK, TypeOK', Held, NEW i \in Interfaces, Fail(i), OwnFlight(i)
    PROVE  Held'
<1>1. /\ pc.usb = "idle" /\ pc'.usb = "failed" /\ loc'.usb.i = i
      /\ pc'.control = pc.control /\ pc'.queue = pc.queue /\ pc'.executor = pc.executor
      /\ link'.at = link.at /\ link'.unc /\ bits' = bits
  <2>1. /\ pc.usb = "idle" /\ pc' = [pc EXCEPT !.usb = "failed"] /\ bits' = bits
        /\ link' = Doubt(link, link.gen) /\ loc' = [loc EXCEPT !.usb = [NoLocals EXCEPT !.i = i]]
    BY DEF Fail, Keep
  <2>2. QED
    BY <2>1, Contexts, Reads DEF NoLocals, Doubt, Word, TypeOK, PcOK, LocOK
<1>2. /\ wire[i] # None /\ wire'[i] = None /\ iface[i].flight # None
      /\ iface'[i].unc /\ iface'[i].safety /\ iface'[i].flight = iface[i].flight
      /\ iface'[i].held = iface[i].held
      /\ \A j \in Interfaces : j # i => /\ iface'[j] = iface[j] /\ wire'[j] = wire[j]
                                        /\ host'[j] = host[j]
  <2>1. /\ iface' = [iface EXCEPT ![i].unc = TRUE, ![i].safety = TRUE]
        /\ wire[i] # None /\ wire' = [wire EXCEPT ![i] = None] /\ iface[i].flight # None
        /\ \E state : host' = [host EXCEPT ![i] = state]
    BY DEF Fail, Take, OwnFlight
  <2>2. iface'[i] = [iface[i] EXCEPT !.unc = TRUE, !.safety = TRUE]
    BY <2>1 DEF TypeOK, IfaceOK
  <2>3. QED
    BY <2>1, <2>2, Reads DEF Iface, TypeOK, IfaceOK, BusOK
<1>3. ~Unplugged
  BY <1>1, <1>2
    DEF Fail, BusLive, Held, Attached, WiresDown, Unplugged
<1>4. Attached'
  BY <1>1, <1>2, <1>3 DEF Held, Attached, Unplugged, Resting, WiresDown, NoFlight
<1>5. Flown'
  BY <1>1, <1>2, <1>3 DEF Held, Flown
<1>6. Owed'
  BY <1>1, <1>2, <1>3 DEF Held, Owed, Presses, Doubtful
<1>7. Confirmed'
  BY <1>1, <1>2, <1>3 DEF Held, Confirmed, Landed
<1>8. Detached'
  BY <1>1, <1>2, <1>3 DEF Held, Detached, Leaving, Left, Waiting, Late, Requesting, Doubtful
<1>9. Doubted'
  BY <1>1, <1>2, <1>3 DEF Held, Doubted, Unplugged, Mounting, Requesting, AllUp
<1>10. QED
  BY <1>4, <1>5, <1>6, <1>7, <1>8, <1>9 DEF Held

\* Any other report failed.
LEMMA FailOtherHeld ==
    ASSUME TypeOK, TypeOK', Held, NEW i \in Interfaces, Fail(i), ~OwnFlight(i)
    PROVE  Held'
<1>1. pc' = pc /\ loc' = loc /\ link' = link /\ bits' = bits /\ iface' = iface /\ pc.usb = "idle"
  BY DEF Fail
<1>2. /\ wire[i] # None /\ wire'[i] = None /\ host'[i] \in {host[i], wire[i].held}
      /\ \A j \in Interfaces : j # i => wire'[j] = wire[j] /\ host'[j] = host[j]
  BY DEF Fail, Take, TypeOK, BusOK
<1>3. \A j \in Interfaces : Presses(j)' => Presses(j)
  BY <1>2
    DEF Presses
<1>4. Attached'
  BY <1>1, <1>2, <1>3 DEF Held, Attached, Unplugged, Resting, WiresDown, NoFlight
<1>5. Flown'
  BY <1>1, <1>2, <1>3 DEF Held, Flown
<1>6. Owed'
  BY <1>1, <1>2, <1>3 DEF Held, Owed, Presses, Doubtful
<1>7. Confirmed'
  BY <1>1, <1>2, <1>3 DEF Held, Confirmed, Landed
<1>8. Detached'
  BY <1>1, <1>2, <1>3 DEF Held, Detached, Leaving, Left, Waiting, Late, Requesting, AllUp
<1>9. Doubted'
  BY <1>1, <1>2, <1>3 DEF Held, Doubted, Unplugged, Mounting, Requesting, AllUp
<1>10. QED
  BY <1>4, <1>5, <1>6, <1>7, <1>8, <1>9 DEF Held

\* The mark of a report in flight goes.
LEMMA ClearHeld ==
    ASSUME TypeOK, TypeOK', Held, CompleteClear
    PROVE  Held'
<1>1. /\ pc.usb = "complete" /\ pc'.usb \in {"confirm", "idle"}
      /\ pc'.control = pc.control /\ pc'.queue = pc.queue /\ pc'.executor = pc.executor
      /\ link' = link /\ bits' = bits /\ wire' = wire /\ host' = host
      /\ pc'.usb = "confirm" => loc.usb.ok /\ ~AnySafety
  BY Contexts
    DEF CompleteClear, At, env, TypeOK, PcOK, LocOK
<1>2. /\ loc.usb.i \in Interfaces /\ iface'[loc.usb.i].flight = None
      /\ iface'[loc.usb.i].held = iface[loc.usb.i].held
      /\ iface'[loc.usb.i].unc = iface[loc.usb.i].unc
      /\ iface'[loc.usb.i].safety = iface[loc.usb.i].safety
      /\ iface'[loc.usb.i].conf = iface[loc.usb.i].conf
      /\ \A j \in Interfaces : j # loc.usb.i => iface'[j] = iface[j]
  BY Contexts, Reads
    DEF CompleteClear, Iface, TypeOK, IfaceOK
<1>3. ~Unplugged /\ \A j \in Interfaces : Presses(j)' <=> Presses(j)
  BY <1>1
    DEF Held, Attached, Resting, Presses
<1>4. Attached'
  BY <1>1, <1>2, <1>3 DEF Held, Attached, Unplugged, Resting, WiresDown, NoFlight
<1>5. Flown'
  BY <1>1, <1>2, <1>3 DEF Held, Flown
<1>6. Owed'
  BY <1>1, <1>2, <1>3 DEF Held, Owed, Presses, Doubtful, Flown
<1>7. Confirmed'
  BY <1>1, <1>2, <1>3 DEF Held, Confirmed, Landed
<1>8. Detached'
  <2>1. Leaving' /\ loc.usb.ok /\ ~iface[loc.usb.i].safety => ~Doubtful(iface'[loc.usb.i])
    BY <1>1, <1>2 DEF Held, Flown, Doubtful
  <2>2. Leaving' => \A j \in Interfaces : Doubtful(iface'[j]) => iface'[j].safety
    BY <1>1, <1>2, <2>1 DEF Held, Detached, Leaving, Doubtful
  <2>3. Left' /\ pc'.usb = "confirm" => AllUp'
    BY <1>1, <1>2, <1>6, <2>2
      DEF Owed, AllUp, AnySafety, Leaving, Left, Waiting, Late, Requesting
  <2>4. QED
    BY <1>1, <1>3, <2>2, <2>3 DEF Held, Detached, Leaving, Left, Waiting, AllUp
<1>9. Doubted'
  BY <1>1, <1>2, <1>3 DEF Held, Doubted, Unplugged, Mounting, Requesting, AllUp
<1>10. QED
  BY <1>4, <1>5, <1>6, <1>7, <1>8, <1>9 DEF Held

\* So does that of a failed one.
LEMMA FailClearHeld ==
    ASSUME TypeOK, TypeOK', Held, FailClear
    PROVE  Held'
<1>1. /\ pc.usb = "failed" /\ pc'.usb = "idle"
      /\ pc'.control = pc.control /\ pc'.queue = pc.queue /\ pc'.executor = pc.executor
      /\ link' = link /\ bits' = bits /\ wire' = wire /\ host' = host
  BY Contexts
    DEF FailClear, At, env, TypeOK, PcOK, LocOK
<1>2. /\ loc.usb.i \in Interfaces /\ iface'[loc.usb.i].flight = None
      /\ iface'[loc.usb.i].held = iface[loc.usb.i].held
      /\ iface'[loc.usb.i].unc = iface[loc.usb.i].unc
      /\ iface'[loc.usb.i].safety = iface[loc.usb.i].safety
      /\ iface'[loc.usb.i].conf = iface[loc.usb.i].conf
      /\ \A j \in Interfaces : j # loc.usb.i => iface'[j] = iface[j]
  BY Contexts, Reads
    DEF FailClear, Iface, TypeOK, IfaceOK
<1>3. ~Unplugged /\ iface[loc.usb.i].unc /\ \A j \in Interfaces : Presses(j)' <=> Presses(j)
  BY <1>1
    DEF Held, Attached, Flown, Resting, Presses
<1>4. Attached'
  BY <1>1, <1>2, <1>3 DEF Held, Attached, Unplugged, Resting, WiresDown, NoFlight
<1>5. Flown'
  BY <1>1, <1>2, <1>3 DEF Held, Flown
<1>6. Owed'
  BY <1>1, <1>2, <1>3 DEF Held, Owed, Presses, Doubtful
<1>7. Confirmed'
  BY <1>1, <1>2, <1>3 DEF Held, Confirmed, Landed
<1>8. Detached'
  BY <1>1, <1>2, <1>3 DEF Held, Detached, Leaving, Left, Waiting, Late, Requesting, AllUp,
      Doubtful
<1>9. Doubted'
  BY <1>1, <1>2, <1>3 DEF Held, Doubted, Unplugged, Mounting, Requesting, AllUp
<1>10. QED
  BY <1>4, <1>5, <1>6, <1>7, <1>8, <1>9 DEF Held

\* The word is confirmed.
LEMMA ConfirmHeld ==
    ASSUME TypeOK, TypeOK', Held, CompleteConfirm
    PROVE  Held'
<1>1. /\ pc.usb = "confirm" /\ pc'.usb = "idle"
      /\ pc'.control = pc.control /\ pc'.queue = pc.queue /\ pc'.executor = pc.executor
      /\ link'.at = link.at /\ bits' = bits /\ wire' = wire /\ host' = host /\ iface' = iface
  BY Contexts, Reads
    DEF CompleteConfirm, Confirm, Word, At, env, TypeOK, PcOK, LocOK
<1>2. ~Unplugged /\ \A j \in Interfaces : Presses(j)' <=> Presses(j)
  BY <1>1
    DEF Held, Attached, Resting, Presses
<1>3. Attached'
  BY <1>1, <1>2 DEF Held, Attached, Unplugged, Resting, WiresDown, NoFlight
<1>4. Flown'
  BY <1>1, <1>2 DEF Held, Flown
<1>5. Owed'
  BY <1>1, <1>2 DEF Held, Owed, Presses, Doubtful
<1>6. Confirmed'
  BY <1>1, <1>2 DEF Held, Confirmed, Landed
<1>7. Detached'
  BY <1>1, <1>2 DEF Held, Detached, Leaving, Left, Waiting, Late, Requesting, AllUp
<1>8. Doubted'
  BY <1>1, <1>2 DEF Held, Doubted, Unplugged, Mounting, Requesting, AllUp
<1>9. QED
  BY <1>3, <1>4, <1>5, <1>6, <1>7, <1>8 DEF Held

\* The bus goes.
LEMMA UnmountHeld ==
    ASSUME TypeOK, TypeOK', Held, Unmount
    PROVE  Held'
<1>1. /\ pc.usb = "idle" /\ pc'.usb = "unmountKeep"
      /\ pc'.control = pc.control /\ pc'.queue = pc.queue /\ pc'.executor = pc.executor
      /\ iface' = iface /\ link.at # "detaching" /\ pc.queue # "detach"
  BY Contexts, Reads
    DEF Unmount, At, Word, Held, Attached, TypeOK, PcOK, LocOK
<1>2. /\ WiresDown' /\ \A j \in Interfaces : Presses(j)' => Presses(j)
      /\ \A j \in Interfaces : wire[j] = None => host'[j] = host[j]
  BY DEF Unmount, LoseWire, WiresDown, Presses, TypeOK, BusOK, None
<1>3. Attached'
  BY <1>1, <1>2 DEF Held, Attached, Unplugged, Resting, NoFlight
<1>4. Flown'
  BY <1>1, <1>2 DEF Held, Flown
<1>5. Owed'
  BY <1>1, <1>2 DEF Held, Owed, Presses, Doubtful
<1>6. Confirmed'
  BY <1>1, <1>2 DEF Held, Confirmed, Landed, WiresDown
<1>7. Detached'
  BY <1>1, <1>2 DEF Held, Detached, Leaving, Left, Waiting, Late, Requesting
<1>8. Doubted'
  BY <1>1, <1>2 DEF Held, Doubted, Unplugged, Mounting, Requesting
<1>9. QED
  BY <1>3, <1>4, <1>5, <1>6, <1>7, <1>8 DEF Held

\* What may be held is in doubt from now on.
LEMMA UnmountKeepHeld ==
    ASSUME TypeOK, TypeOK', Held, UnmountKeep
    PROVE  Held'
<1>1. /\ pc.usb = "unmountKeep" /\ pc'.usb = "unmountClear"
      /\ pc'.control = pc.control /\ pc'.queue = pc.queue /\ pc'.executor = pc.executor
      /\ bits' = bits /\ wire' = wire /\ host' = host
  BY Contexts
    DEF UnmountKeep, At, env, TypeOK, PcOK, LocOK
<1>2. /\ link'.at = link.at
      /\ (\E j \in Interfaces : Doubtful(iface[j])) => link'.unc
      /\ (\A j \in Interfaces : ~Doubtful(iface[j])) => link' = link
  BY Reads
    DEF UnmountKeep, Doubt, Word
<1>3. \A j \in Interfaces :
           /\ iface'[j].flight = None
           /\ Doubtful(iface[j]) => iface'[j].unc /\ iface'[j].safety
           /\ ~Doubtful(iface[j]) => ~Doubtful(iface'[j]) /\ iface'[j].conf = FALSE
  <2>1. \A j \in Interfaces : iface'[j] = IF Doubtful(iface[j])
                                            THEN [NeverSafe(iface[j]) EXCEPT !.held = FALSE]
                                            ELSE Cleared
    BY DEF UnmountKeep
  <2>2. SUFFICES ASSUME NEW j \in Interfaces
                 PROVE  /\ iface'[j].flight = None
                        /\ Doubtful(iface[j]) => iface'[j].unc /\ iface'[j].safety
                        /\ ~Doubtful(iface[j]) => /\ ~Doubtful(iface'[j])
                                                  /\ iface'[j].conf = FALSE
    OBVIOUS
  <2>3. CASE Doubtful(iface[j])
    <3>1. iface'[j] = [NeverSafe(iface[j]) EXCEPT !.held = FALSE]
      BY <2>1, <2>3
    <3>2. QED
      BY <2>3, <3>1, Reads DEF NeverSafe, Iface
  <2>4. CASE ~Doubtful(iface[j])
    <3>1. iface'[j] = Cleared
      BY <2>1, <2>4
    <3>2. QED
      BY <2>4, <3>1 DEF Cleared, Doubtful
  <2>5. QED
    BY <2>3, <2>4
<1>4. \A j \in Interfaces : host[j] \in BOOLEAN
  BY DEF TypeOK, BusOK
<1>5. WiresDown /\ (AllUp => AllUp') /\ \A j \in Interfaces : Presses(j)' <=> Presses(j)
  BY <1>1
    DEF Held, Attached, AllUp, Presses
<1>6. Attached'
  BY <1>1, <1>2, <1>3, <1>4, <1>5 DEF Held, Attached, Unplugged, Resting, WiresDown, NoFlight
<1>7. Flown'
  BY <1>1, <1>2, <1>3, <1>4, <1>5 DEF Held, Flown
<1>8. Owed'
  BY <1>1, <1>2, <1>3, <1>4, <1>5 DEF Held, Owed, Presses, Doubtful
<1>9. Confirmed'
  BY <1>1, <1>2, <1>3, <1>4, <1>5 DEF Held, Confirmed, Landed, Owed, WiresDown, Presses
<1>10. Detached'
  BY <1>1, <1>2, <1>3, <1>4, <1>5 DEF Held, Detached, Leaving, Left, Waiting, Late, Requesting,
      Owed, AllUp
<1>11. Doubted'
  BY <1>1, <1>2, <1>3, <1>4, <1>5 DEF Held, Doubted, Unplugged, Mounting, Requesting, Owed, AllUp
<1>12. QED
  BY <1>6, <1>7, <1>8, <1>9, <1>10, <1>11 DEF Held

\* It goes while a detach is under way.
LEMMA UnmountHiddenHeld ==
    ASSUME TypeOK, TypeOK', Held, UnmountHidden
    PROVE  Held'
<1>1. /\ pc' = pc /\ loc' = loc /\ link' = link /\ iface' = iface
      /\ bits.mounted /\ ~bits'.mounted /\ pc.usb = "idle" /\ link.at = "detaching"
  BY DEF UnmountHidden, NoBits
<1>2. /\ WiresDown' /\ \A j \in Interfaces : Presses(j)' => Presses(j)
      /\ \A j \in Interfaces : wire[j] = None => host'[j] = host[j]
  BY DEF UnmountHidden, LoseWire, WiresDown, Presses, TypeOK, BusOK, None
<1>3. Attached'
  BY <1>1, <1>2 DEF Held, Attached, Unplugged, Resting, NoFlight
<1>4. Flown'
  BY <1>1, <1>2 DEF Held, Flown
<1>5. Owed'
  BY <1>1, <1>2 DEF Held, Owed, Presses, Doubtful
<1>6. Confirmed'
  BY <1>1, <1>2 DEF Held, Confirmed, Landed, WiresDown
<1>7. Detached'
  BY <1>1, <1>2 DEF Held, Detached, Leaving, Left, Waiting, Late, Requesting, AllUp
<1>8. Doubted'
  BY <1>1, <1>2 DEF Held, Doubted, Unplugged, Mounting, Requesting, AllUp
<1>9. QED
  BY <1>3, <1>4, <1>5, <1>6, <1>7, <1>8 DEF Held

\* The bus is back.
LEMMA MountHeld ==
    ASSUME TypeOK, TypeOK', Held, Mount
    PROVE  Held'
<1>1. /\ pc.usb = "idle" /\ pc'.usb = "mountKeep"
      /\ pc'.control = pc.control /\ pc'.queue = pc.queue /\ pc'.executor = pc.executor
      /\ iface' = iface /\ wire' = wire /\ host' = host /\ bits' = bits
      /\ link.at = "disconnected" /\ link'.at = "mounted" /\ link'.unc = link.unc
  BY Contexts, Reads
    DEF Mount, At, Word, env, TypeOK, PcOK, LocOK
<1>2. (AllUp => AllUp') /\ \A j \in Interfaces : Presses(j)' <=> Presses(j)
  BY <1>1
    DEF AllUp, Presses
<1>3. Attached'
  BY <1>1, <1>2 DEF Held, Attached, Unplugged, Resting, WiresDown, NoFlight
<1>4. Flown'
  BY <1>1, <1>2 DEF Held, Flown
<1>5. Owed'
  BY <1>1, <1>2 DEF Held, Owed, Presses, Doubtful
<1>6. Confirmed'
  BY <1>1, <1>2 DEF Held, Confirmed, Landed
<1>7. Detached'
  BY <1>1, <1>2 DEF Held, Detached, Leaving, Left, Waiting, Late, Requesting, Attached
<1>8. Doubted'
  BY <1>1, <1>2 DEF Held, Doubted, Unplugged, Mounting, Requesting
<1>9. QED
  BY <1>3, <1>4, <1>5, <1>6, <1>7, <1>8 DEF Held

\* A new mount takes over what the last one left.
LEMMA MountKeepHeld ==
    ASSUME TypeOK, TypeOK', Held, MountKeep
    PROVE  Held'
<1>1. /\ pc.usb = "mountKeep" /\ pc'.usb \in {"identity", "mountClear"}
      /\ pc'.control = pc.control /\ pc'.queue = pc.queue /\ pc'.executor = pc.executor
      /\ link' = link /\ bits' = bits /\ wire' = wire /\ host' = host
  BY Contexts
    DEF MountKeep, At, env, TypeOK, PcOK, LocOK
<1>2. \A j \in Interfaces : host[j] \in BOOLEAN
  BY DEF TypeOK, BusOK
<1>3. /\ NoFlight /\ ~Unplugged /\ (AllUp => AllUp')
      /\ \A j \in Interfaces : Presses(j)' <=> Presses(j)
  BY <1>1
    DEF Held, Attached, Resting, AllUp, Presses
<1>4. \A j \in Interfaces :
           /\ iface'[j].flight = None
           /\ \/ iface'[j].unc /\ iface'[j].safety
              \/ /\ iface'[j].unc = iface[j].unc /\ iface'[j].conf = iface[j].conf
                 /\ iface'[j].safety = (iface[j].safety \/ Doubtful(iface[j]))
                 /\ Doubtful(iface'[j]) <=> Doubtful(iface[j])
              \/ /\ ~Doubtful(iface[j]) /\ ~iface[j].safety
                 /\ ~Doubtful(iface'[j]) /\ iface'[j].conf = FALSE
  <2>1. SUFFICES ASSUME NEW j \in Interfaces
                 PROVE  /\ iface'[j].flight = None
                        /\ \/ iface'[j].unc /\ iface'[j].safety
                           \/ /\ iface'[j].unc = iface[j].unc /\ iface'[j].conf = iface[j].conf
                              /\ iface'[j].safety = (iface[j].safety \/ Doubtful(iface[j]))
                              /\ Doubtful(iface'[j]) <=> Doubtful(iface[j])
                           \/ /\ ~Doubtful(iface[j]) /\ ~iface[j].safety
                              /\ ~Doubtful(iface'[j]) /\ iface'[j].conf = FALSE
    OBVIOUS
  <2>2. CASE iface'[j] = [NeverSafe(iface[j]) EXCEPT !.held = FALSE]
    BY <2>2, Reads DEF NeverSafe, Iface
  <2>3. CASE iface'[j] = [iface[j] EXCEPT !.slot = "empty", !.safety = @ \/ Doubtful(iface[j]),
                                          !.flight = None]
    <3>1. iface[j].flight = None
      BY <1>3 DEF NoFlight
    <3>2. QED
      BY <2>3, <3>1, Reads DEF Doubtful, Iface
  <2>4. CASE iface'[j] = Cleared /\ ~Doubtful(iface[j]) /\ ~iface[j].safety
    <3>1. /\ iface'[j].flight = None /\ iface'[j].conf = FALSE
          /\ iface'[j].held = FALSE /\ iface'[j].unc = FALSE
      BY <2>4 DEF Cleared
    <3>2. ~Doubtful(iface'[j])
      BY <3>1 DEF Doubtful
    <3>3. QED
      BY <2>4, <3>1, <3>2
  <2>5. \/ iface'[j] = [NeverSafe(iface[j]) EXCEPT !.held = FALSE]
        \/ iface'[j] = [iface[j] EXCEPT !.slot = "empty", !.safety = @ \/ Doubtful(iface[j]),
                                        !.flight = None]
        \/ iface'[j] = Cleared /\ ~Doubtful(iface[j]) /\ ~iface[j].safety
    BY DEF MountKeep
  <2>6. QED
    BY <2>2, <2>3, <2>4, <2>5
<1>5. Attached'
  BY <1>1, <1>2, <1>3, <1>4 DEF Held, Attached, Unplugged, Resting, WiresDown, NoFlight
<1>6. Flown'
  BY <1>1, <1>2, <1>3, <1>4 DEF Held, Flown
<1>7. Owed'
  BY <1>1, <1>2, <1>3, <1>4 DEF Held, Owed, Presses, Doubtful
<1>8. Confirmed'
  BY <1>1, <1>2, <1>3, <1>4 DEF Held, Confirmed, Landed, Owed, NoFlight, Presses, Doubtful
<1>9. Detached'
  BY <1>1, <1>2, <1>3, <1>4 DEF Held, Detached, Leaving, Left, Waiting, Late, Requesting, Doubtful
<1>10. Doubted'
  BY <1>1, <1>2, <1>3, <1>4 DEF Held, Doubted, Unplugged, Mounting, Requesting, AllUp
<1>11. QED
  BY <1>5, <1>6, <1>7, <1>8, <1>9, <1>10 DEF Held

\* The mount is done.
LEMMA MountClearHeld ==
    ASSUME TypeOK, TypeOK', Held, MountClear
    PROVE  Held'
<1>1. /\ pc.usb = "mountClear" /\ pc'.usb \in {"idle", "confirm"}
      /\ pc'.control = pc.control /\ pc'.queue = pc.queue /\ pc'.executor = pc.executor
      /\ link' = link /\ iface' = iface /\ wire' = wire /\ host' = host
      /\ pc'.usb = "confirm" => ~link.unc
  BY Contexts
    DEF MountClear, At, env, TypeOK, PcOK, LocOK
<1>2. /\ ~Unplugged /\ (AllUp => AllUp')
      /\ \A j \in Interfaces : Presses(j)' <=> Presses(j)
  BY <1>1
    DEF Held, Attached, Resting, AllUp, Presses
<1>3. Attached'
  BY <1>1, <1>2 DEF Held, Attached, Unplugged, Resting, WiresDown, NoFlight
<1>4. Flown'
  BY <1>1, <1>2 DEF Held, Flown
<1>5. Owed'
  BY <1>1, <1>2 DEF Held, Owed, Presses, Doubtful
<1>6. Confirmed'
  BY <1>1, <1>2 DEF Held, Confirmed, Landed
<1>7. Detached'
  BY <1>1, <1>2 DEF Held, Detached, Leaving, Left, Waiting, Late, Requesting, Doubted, Mounting,
      AllUp, Doubtful
<1>8. Doubted'
  BY <1>1, <1>2 DEF Held, Doubted, Unplugged, Mounting, Requesting
<1>9. QED
  BY <1>3, <1>4, <1>5, <1>6, <1>7, <1>8 DEF Held

-----------------------------------------------------------------------------
(* A detach.                                                               *)

\* A detach or a route release looks, and confirms or asks.
LEMMA BeginHeld ==
    ASSUME TypeOK, TypeOK', Held, Ledger,
           NEW action \in {"detach", "route"}, SafetyBegin(action)
    PROVE  Held'
<1>1. /\ pc'.usb = pc.usb /\ loc'.usb = loc.usb /\ pc'.control = pc.control
      /\ pc.executor = "idle" /\ pc.queue = action /\ pc'.queue = action
      /\ pc'.executor \in {"safe", "identity"}
      /\ pc'.executor = "safe" => SafetyDoubts = {}
      /\ pc'.executor # "safe" => link' = link
      /\ bits' = bits /\ wire' = wire /\ host' = host
  <2>1. /\ pc.executor = "idle" /\ pc.queue = action
        /\ \E to \in {"safe", "identity"} :
             /\ pc' = [pc EXCEPT !.executor = to]
             /\ to = "safe" => SafetyDoubts = {}
             /\ to = "identity" => link' = link
        /\ \E v : loc' = loc \/ loc' = [loc EXCEPT !.executor = v]
    BY DEF SafetyBegin, Keep
  <2>2. bits' = bits /\ wire' = wire /\ host' = host
    BY DEF SafetyBegin, env
  <2>3. QED
    BY <2>1, <2>2, Contexts DEF TypeOK, PcOK, LocOK
<1>2. /\ link'.at = link.at
      /\ \A j \in Interfaces :
           /\ iface'[j].held = iface[j].held /\ iface'[j].conf = iface[j].conf
           /\ iface'[j].unc = iface[j].unc /\ iface'[j].flight = iface[j].flight
           /\ iface[j].safety \/ ~KnownAllUp(j) => iface'[j].safety
  <2>1. link' = link \/ link' = Confirm(link)
    BY DEF SafetyBegin
  <2>2. \A j \in Interfaces :
          iface'[j] = [iface[j] EXCEPT !.safety = iface[j].safety \/ ~KnownAllUp(j)]
    BY DEF SafetyBegin, SafetyDoubts
  <2>3. link'.at = link.at
    BY <2>1, Reads DEF Confirm, Word
  <2>4. ASSUME NEW j \in Interfaces, NEW b \in BOOLEAN,
               iface'[j] = [iface[j] EXCEPT !.safety = b]
        PROVE  /\ iface'[j].held = iface[j].held /\ iface'[j].conf = iface[j].conf
               /\ iface'[j].unc = iface[j].unc /\ iface'[j].flight = iface[j].flight
               /\ iface'[j].safety = b
    BY <2>4, Reads DEF Iface
  <2>5. QED
    BY <2>2, <2>3, <2>4
<1>3. (AllUp => AllUp') /\ \A j \in Interfaces : Presses(j)' <=> Presses(j)
  BY <1>1
    DEF AllUp, Presses
<1>4. /\ \A j \in Interfaces : Doubtful(iface[j]) => ~KnownAllUp(j)
      /\ pc.usb = "submit" => ~KnownAllUp(loc.usb.i) /\ loc.usb.i \in Interfaces
  <2>1. pc.usb = "submit" => ticket[loc.usb.i].st = "claimed"
    BY DEF Ledger, Claimed, Claiming
  <2>2. QED
    BY <2>1, Contexts, Reads DEF Doubtful, KnownAllUp, FlagsUp, Active
<1>5. pc'.executor = "safe" => AllUp /\ pc.usb # "submit"
  BY <1>1, <1>4, NothingHeld
    DEF SafetyDoubts
<1>6. Attached'
  BY <1>1, <1>2, <1>3, <1>4, <1>5 DEF Held, Attached, Unplugged, Resting, WiresDown, NoFlight
<1>7. Flown'
  <2>1. loc.usb.i \in Interfaces
    BY Contexts, Reads
  <2>2. QED
    BY <1>1, <1>2, <2>1 DEF Held, Flown
<1>8. Owed'
  BY <1>1, <1>2, <1>3, <1>4, <1>5 DEF Held, Owed, Presses, Doubtful
<1>9. Confirmed'
  BY <1>1, <1>2, <1>3, <1>4, <1>5 DEF Held, Confirmed, Landed
<1>10. Detached'
  BY <1>1, <1>2, <1>3, <1>4, <1>5 DEF Held, Detached, Leaving, Left, Waiting, Late, Requesting,
      Doubtful
<1>11. Doubted'
  <2>1. CASE pc'.executor = "safe"
    BY <1>3, <1>5, <2>1 DEF Doubted
  <2>2. CASE pc'.executor # "safe"
    BY <1>1, <1>2, <1>3, <2>2 DEF Held, Doubted, Unplugged, Mounting, Requesting
  <2>3. QED
    BY <2>1, <2>2
<1>12. QED
  BY <1>6, <1>7, <1>8, <1>9, <1>10, <1>11 DEF Held

\* Everything is clean within 250 ms.
LEMMA AwaitHeld ==
    ASSUME TypeOK, TypeOK', Held, Await
    PROVE  Held'
<1>1. /\ pc'.usb = pc.usb /\ loc'.usb = loc.usb /\ pc'.control = pc.control
      /\ pc.executor = "await" /\ pc'.executor = "safe" /\ pc'.queue = pc.queue
      /\ link' = link /\ iface' = iface
      /\ bits' = bits /\ wire' = wire /\ host' = host
  BY Contexts
    DEF Await, At, shared, env, TypeOK, PcOK, LocOK
<1>2. (AllUp => AllUp') /\ \A j \in Interfaces : Presses(j)' <=> Presses(j)
  BY <1>1
    DEF AllUp, Presses
<1>3. pc.queue = "detach" => AllUp /\ pc.usb # "submit"
  <2>1. \A j \in Interfaces : ~iface[j].safety /\ iface[j].flight = None /\ ~iface[j].unc
    BY DEF Await, SafetyClean
  <2>2. loc.usb.i \in Interfaces
    BY Contexts, Reads
  <2>3. pc.queue = "detach" => \A j \in Interfaces : ~Doubtful(iface[j])
    BY <1>1, <2>1 DEF Held, Flown, Detached, Leaving, Waiting, Doubtful
  <2>4. pc.queue = "detach" => pc.usb # "submit"
    BY <1>1, <2>1, <2>2 DEF Held, Detached, Leaving, Waiting
  <2>5. QED
    BY <2>3, <2>4, NothingHeld
<1>4. Attached'
  BY <1>1, <1>2, <1>3 DEF Held, Attached, Unplugged, Resting, WiresDown, NoFlight, Waiting, Late,
      Requesting
<1>5. Flown'
  BY <1>1, <1>2, <1>3 DEF Held, Flown
<1>6. Owed'
  BY <1>1, <1>2, <1>3 DEF Held, Owed, Presses, Doubtful
<1>7. Confirmed'
  BY <1>1, <1>2, <1>3 DEF Held, Confirmed, Landed
<1>8. Detached'
  BY <1>1, <1>2, <1>3 DEF Held, Detached, Leaving, Left, Waiting, Late, Requesting
<1>9. Doubted'
  BY <1>1, <1>2, <1>3 DEF Held, Doubted, Unplugged, Mounting, Requesting
<1>10. QED
  BY <1>4, <1>5, <1>6, <1>7, <1>8, <1>9 DEF Held

\* They have passed.
LEMMA AwaitTimeoutHeld ==
    ASSUME TypeOK, TypeOK', Held, AwaitTimeout
    PROVE  Held'
<1>1. /\ pc'.usb = pc.usb /\ loc'.usb = loc.usb /\ pc'.control = pc.control
      /\ pc.executor = "await" /\ pc'.executor = "doubtFlags" /\ pc'.queue = pc.queue
      /\ pc.usb # "submit"
      /\ link' = link /\ iface' = iface
      /\ bits' = bits /\ wire' = wire /\ host' = host
  BY Contexts
    DEF AwaitTimeout, At, shared, env, TypeOK, PcOK, LocOK
<1>2. (AllUp => AllUp') /\ \A j \in Interfaces : Presses(j)' <=> Presses(j)
  BY <1>1
    DEF AllUp, Presses
<1>3. pc.queue = "detach" /\ pc.usb = "confirm" => AllUp
  <2>1. pc.usb = "confirm" => \A j \in Interfaces : ~iface[j].safety
    BY DEF AwaitTimeout, AnySafety
  <2>2. pc.queue = "detach" /\ pc.usb = "confirm" => \A j \in Interfaces : ~Doubtful(iface[j])
    BY <1>1, <2>1 DEF Held, Detached, Leaving, Waiting
  <2>3. QED
    BY <2>2, NothingHeld
<1>4. Attached'
  BY <1>1, <1>2, <1>3 DEF Held, Attached, Unplugged, Resting, WiresDown, NoFlight, Waiting, Late,
      Requesting
<1>5. Flown'
  BY <1>1, <1>2, <1>3 DEF Held, Flown
<1>6. Owed'
  BY <1>1, <1>2, <1>3 DEF Held, Owed, Presses, Doubtful
<1>7. Confirmed'
  BY <1>1, <1>2, <1>3 DEF Held, Confirmed, Landed
<1>8. Detached'
  BY <1>1, <1>2, <1>3 DEF Held, Detached, Leaving, Left, Waiting, Late, Requesting
<1>9. Doubted'
  BY <1>1, <1>2, <1>3 DEF Held, Doubted, Unplugged, Mounting, Requesting
<1>10. QED
  BY <1>4, <1>5, <1>6, <1>7, <1>8, <1>9 DEF Held

\* The driver goes, and with it what it held.
LEMMA UninstallHeld ==
    ASSUME TypeOK, TypeOK', Held, Uninstall
    PROVE  Held'
<1>1. /\ pc'.usb = pc.usb /\ loc'.usb = loc.usb /\ pc'.control = pc.control
      /\ pc.executor = "safe" /\ pc'.executor = "uninstallClear" /\ pc.queue = "detach"
      /\ pc'.queue = "detach" /\ pc.usb = "idle" /\ link' = link /\ ~bits'.mounted
  BY Contexts
    DEF Uninstall, NoBits, TypeOK, PcOK, LocOK
<1>2. /\ WiresDown' /\ \A j \in Interfaces : Presses(j)' => Presses(j)
      /\ \A j \in Interfaces : wire[j] = None => host'[j] = host[j]
  BY DEF Uninstall, LoseWire, WiresDown, Presses, TypeOK, BusOK, None
<1>3. \A j \in Interfaces :
           /\ iface'[j].flight = None
           /\ link.unc => iface'[j].unc
           /\ ~link.unc => iface'[j].conf = FALSE
  <2>1. CASE link.unc
    <3>1. \A j \in Interfaces : iface'[j] = [NeverSafe(iface[j]) EXCEPT !.held = FALSE]
      BY <2>1 DEF Uninstall
    <3>2. ASSUME NEW f \in Iface
          PROVE  /\ [NeverSafe(f) EXCEPT !.held = FALSE].flight = None
                 /\ [NeverSafe(f) EXCEPT !.held = FALSE].unc
      BY DEF NeverSafe, Iface
    <3>3. QED
      BY <2>1, <3>1, <3>2, Reads
  <2>2. CASE ~link.unc
    <3>1. \A j \in Interfaces : iface'[j] = Cleared
      BY <2>2 DEF Uninstall
    <3>2. QED
      BY <2>2, <3>1 DEF Cleared
  <2>3. QED
    BY <2>1, <2>2
<1>4. /\ ~link.unc => AllUp
      /\ AllUp => AllUp'
      /\ \A j \in Interfaces : host'[j] \in BOOLEAN
  BY <1>1, <1>2
    DEF Held, Detached, AllUp, TypeOK, BusOK
<1>5. Attached'
  BY <1>1, <1>2, <1>3, <1>4 DEF Held, Attached, Unplugged, Resting, NoFlight
<1>6. Flown'
  BY <1>1, <1>2, <1>3, <1>4 DEF Held, Flown
<1>7. Owed'
  BY <1>1, <1>2, <1>3, <1>4 DEF Held, Owed, Presses, Doubtful, AllUp
<1>8. Confirmed'
  BY <1>1, <1>2, <1>3, <1>4 DEF Held, Confirmed, Landed, AllUp, Presses, WiresDown
<1>9. Detached'
  BY <1>1, <1>2, <1>3, <1>4 DEF Held, Detached, Leaving, Left, Waiting, Late, Requesting
<1>10. Doubted'
  BY <1>1, <1>2, <1>3, <1>4 DEF Held, Doubted, Unplugged, Mounting, Requesting
<1>11. QED
  BY <1>5, <1>6, <1>7, <1>8, <1>9, <1>10 DEF Held

\* HID is hidden.
LEMMA UninstallClearHeld ==
    ASSUME TypeOK, TypeOK', Held, UninstallClear
    PROVE  Held'
<1>1. /\ pc'.usb = pc.usb /\ loc'.usb = loc.usb /\ pc'.control = pc.control
      /\ pc.executor = "uninstallClear" /\ pc'.executor = "idle" /\ pc'.queue = "empty"
      /\ link'.at = "hidden" /\ link'.unc = link.unc /\ iface' = iface
      /\ bits' = bits /\ wire' = wire /\ host' = host
  BY Contexts, Reads
    DEF UninstallClear, Keep, Word, env, TypeOK, PcOK, LocOK
<1>2. (AllUp => AllUp') /\ \A j \in Interfaces : Presses(j)' <=> Presses(j)
  BY <1>1
    DEF AllUp, Presses
<1>3. Attached'
  BY <1>1, <1>2 DEF Held, Attached, Unplugged, Resting, WiresDown, NoFlight, Waiting, Late,
      Requesting
<1>4. Flown'
  BY <1>1, <1>2 DEF Held, Flown
<1>5. Owed'
  BY <1>1, <1>2 DEF Held, Owed, Presses, Doubtful
<1>6. Confirmed'
  BY <1>1, <1>2 DEF Held, Confirmed, Landed
<1>7. Detached'
  BY <1>1, <1>2 DEF Held, Detached, Leaving, Left, Waiting, Late, Requesting
<1>8. Doubted'
  BY <1>1, <1>2 DEF Held, Doubted, Unplugged, Mounting, Requesting
<1>9. QED
  BY <1>3, <1>4, <1>5, <1>6, <1>7, <1>8 DEF Held

-----------------------------------------------------------------------------
(* What the host holds is known.                                           *)

LEMMA HeldInit == Init => Held
<1> SUFFICES ASSUME Init PROVE Held
  OBVIOUS
<1>1. /\ link.at = "mounted" /\ pc.usb = "idle" /\ pc.executor = "idle" /\ pc.queue = "empty"
      /\ pc.control = "idle"
  BY Contexts DEF Init
<1>2. \A i \in Interfaces : /\ iface[i].flight = None /\ iface[i].conf = FALSE /\ wire[i] = None
                            /\ host[i] = FALSE
  BY DEF Init, Cleared
<1>3. QED
  BY <1>1, <1>2 DEF Held, Attached, Flown, Owed, Confirmed, Detached, Doubted, Unplugged, Leaving,
       Left, Waiting, Late, Mounting, Requesting, Presses

LEMMA PassHeld ==
    ASSUME TypeOK, TypeOK', Held, PassStep
    PROVE  Held'
<1>1. CASE \/ SofStart \/ SofTake \/ SofMark \/ TicketNone \/ (\E i \in Interfaces : TicketClaim(i))
           \/ (\E i \in Interfaces : TicketTerminal(i)) \/ SafetyNone \/ Settle \/ SettleAgain
  BY <1>1, PassCalm, CalmKeeps
<1>2. ASSUME NEW i \in Interfaces, TicketCheck(i)
      PROVE  Held'
  BY <1>2, CheckHeld, WalkCalm, CalmKeeps
<1>3. ASSUME NEW i \in Interfaces, TicketSubmit(i)
      PROVE  Held'
  BY <1>3, SubmitHeld, WalkCalm, CalmKeeps
<1>4. ASSUME NEW i \in Interfaces, SafetyQueue(i)
      PROVE  Held'
  BY <1>4, QueueHeld, WalkCalm, CalmKeeps
<1>5. ASSUME NEW i \in Interfaces, SafetyClaim(i)
      PROVE  Held'
  BY <1>5, SafetyClaimHeld, WalkCalm, CalmKeeps
<1>6. ASSUME NEW i \in Interfaces, SafetySubmit(i)
      PROVE  Held'
  BY <1>6, SafetySubmitHeld, WalkCalm, CalmKeeps
<1>7. QED
  BY <1>1, <1>2, <1>3, <1>4, <1>5, <1>6 DEF PassStep

LEMMA CallbackHeld ==
    ASSUME TypeOK, TypeOK', Held, CallbackStep
    PROVE  Held'
<1>1. CASE UnmountClear \/ Suspend \/ SuspendKeep \/ SuspendBits \/ Resume
  BY <1>1, CallbackCalm, CalmKeeps
<1>2. ASSUME NEW i \in Interfaces, Complete(i)
      PROVE  Held'
  BY <1>2, CompleteHeld, CompleteOtherHeld
<1>3. ASSUME NEW i \in Interfaces, Fail(i)
      PROVE  Held'
  BY <1>3, FailHeld, FailOtherHeld
<1>4. QED
  BY <1>1, <1>2, <1>3, ClearHeld, ConfirmHeld, FailClearHeld, UnmountHeld, UnmountKeepHeld,
     UnmountHiddenHeld, MountHeld, MountKeepHeld, MountClearHeld DEF CallbackStep

LEMMA ExecutorHeld ==
    ASSUME TypeOK, TypeOK', Ledger, Held, ExecutorStep
    PROVE  Held'
<1>1. CASE \/ Stall \/ StallKeep \/ StallBits \/ RouteOvertaken \/ DoubtFlags \/ DoubtWord
           \/ RouteDone
  BY <1>1, ExecutorCalm, CalmKeeps
<1>2. ASSUME NEW action \in {"detach", "route"}, SafetyBegin(action)
      PROVE  Held'
  BY <1>2, BeginHeld
<1>3. QED
  BY <1>1, <1>2, AwaitHeld, AwaitTimeoutHeld, UninstallHeld, UninstallClearHeld DEF ExecutorStep

LEMMA HeldStep ==
    ASSUME Inv, Held, [Next]_vars
    PROVE  Held'
<1>1. TypeOK /\ TypeOK' /\ Ledger
  BY TypeStep DEF Inv
<1>2. CASE Next
  <2>1. ASSUME NEW p \in Producers, ProducerStep(p)
        PROVE  Held'
    BY <1>1, <2>1, ProducerCalm, CalmKeeps
  <2>2. ASSUME NEW k \in {"control", "usb", "executor"}, RequestStep(k)
        PROVE  Held'
    BY <1>1, <2>2, RequestCalm, CalmKeeps
  <2>3. CASE ControlStep
    BY <1>1, <2>3, ControlCalm, CalmKeeps
  <2>4. QED
    BY <1>1, <1>2, <2>1, <2>2, <2>3, Steps, PassHeld, CallbackHeld, ExecutorHeld
<1>3. CASE UNCHANGED vars
  BY <1>3 DEF vars, shared, env, Held, Attached, Flown, Owed, Confirmed, Detached, Doubted,
       Unplugged, Leaving, Left, Landed, Presses, AllUp, NoFlight, WiresDown
<1>4. QED
  BY <1>2, <1>3

LEMMA HeldAlways == Spec => [](Inv /\ Held)
<1>1. Init => Inv /\ Held
  BY InvInit, HeldInit
<1>2. Inv /\ Held /\ [Next]_vars => Inv' /\ Held'
  BY InvStep, HeldStep
<1>3. QED
  BY <1>1, <1>2, PTL DEF Spec

\* known_all_up() is never true of an interface the host holds something on, or
\* is about to: a release may skip it, a detach let the driver go.
THEOREM HeldIsKnownCorrect == Spec => []HeldIsKnown
<1>1. Held => HeldIsKnown
  BY DEF Held, Owed, HeldIsKnown, Presses, Doubtful, KnownAllUp, FlagsUp
<1>2. QED
  BY <1>1, HeldAlways, PTL

\* The confirmed report a repeated one is compared with is what the host holds,
\* through failed transfers, unplugging and a new mount.
THEOREM ConfirmedTrueCorrect == Spec => []ConfirmedTrue
<1>1. Held => ConfirmedTrue
  BY DEF Held, Confirmed, ConfirmedTrue, Landed
<1>2. QED
  BY <1>1, HeldAlways, PTL

-----------------------------------------------------------------------------
(* A release-all.                                                          *)

\* While a transaction is open, an all-up may be noted as its own.
Open == release.st \in {"admitting", "open"}

\* A command that moves the route is under way.
Moving == {"routeCommit", "noneRetire", "noneKeep"}

\* The route is not used while the executor has to release it, nor is a command
\* on the way while it does anything else.
Routing ==
  /\ pc.control = "routeCommit" => pc.queue = "empty"
  /\ pc.control \in {"noneRetire", "noneKeep"} \/ pc.queue = "route" => route.on # "usb"

\* A step that moves no route, and takes at most a command away.
RouteStill ==
  /\ route'.on = "usb" => route.on = "usb"
  /\ pc'.queue \in {pc.queue, "empty"}
  /\ pc'.control \in Moving => pc'.control = pc.control

LEMMA RouteStillKeeps == ASSUME Routing, RouteStill PROVE Routing'
BY DEF Routing, RouteStill, Moving

\* Whose step it is says what stays.  The TinyUSB task, in a pass ...
ByUsb == /\ pc'.control = pc.control /\ pc'.executor = pc.executor /\ pc'.queue = pc.queue
         /\ loc'.control = loc.control

LEMMA PassFrame ==
    ASSUME TypeOK, PassStep
    PROVE  /\ ByUsb
           /\ route' = route /\ auth' = auth /\ link'.gen = link.gen /\ link'.at = link.at
           /\ host' = host
<1> DEFINE same == route' = route /\ auth' = auth /\ link'.gen = link.gen /\ link'.at = link.at
                   /\ host' = host
<1>1. ASSUME SofStart PROVE ByUsb /\ same
  <2>1. \E to, v : /\ pc' = [pc EXCEPT !.usb = to] \/ pc' = pc
                   /\ loc' = [loc EXCEPT !.usb = v] \/ loc' = loc
    BY <1>1 DEF SofStart, Keep
  <2>2. ByUsb
    BY <2>1, Contexts DEF ByUsb, TypeOK, PcOK, LocOK
  <2>3. same
    BY <1>1, Reads DEF SofStart, Keep, env, Word
  <2>4. QED
    BY <2>2, <2>3
<1>2. ASSUME SofTake PROVE ByUsb /\ same
  <2>1. \E to, v : /\ pc' = [pc EXCEPT !.usb = to] \/ pc' = pc
                   /\ loc' = [loc EXCEPT !.usb = v] \/ loc' = loc
    BY <1>2 DEF SofTake, At, Keep
  <2>2. ByUsb
    BY <2>1, Contexts DEF ByUsb, TypeOK, PcOK, LocOK
  <2>3. same
    BY <1>2, Reads DEF SofTake, At, Keep, env, Word
  <2>4. QED
    BY <2>2, <2>3
<1>3. ASSUME SofMark PROVE ByUsb /\ same
  <2>1. \E to, v : /\ pc' = [pc EXCEPT !.usb = to] \/ pc' = pc
                   /\ loc' = [loc EXCEPT !.usb = v] \/ loc' = loc
    BY <1>3 DEF SofMark, At
  <2>2. ByUsb
    BY <2>1, Contexts DEF ByUsb, TypeOK, PcOK, LocOK
  <2>3. same
    BY <1>3, Reads DEF SofMark, At, env, Word
  <2>4. QED
    BY <2>2, <2>3
<1>4. ASSUME TicketNone PROVE ByUsb /\ same
  <2>1. \E to, v : /\ pc' = [pc EXCEPT !.usb = to] \/ pc' = pc
                   /\ loc' = [loc EXCEPT !.usb = v] \/ loc' = loc
    BY <1>4 DEF TicketNone, Goto, shared, Keep
  <2>2. ByUsb
    BY <2>1, Contexts DEF ByUsb, TypeOK, PcOK, LocOK
  <2>3. same
    BY <1>4, Reads DEF TicketNone, Goto, shared, env, Word
  <2>4. QED
    BY <2>2, <2>3
<1>5. ASSUME NEW i \in Interfaces, TicketClaim(i) PROVE ByUsb /\ same
  <2>1. \E to, v : /\ pc' = [pc EXCEPT !.usb = to] \/ pc' = pc
                   /\ loc' = [loc EXCEPT !.usb = v] \/ loc' = loc
    BY <1>5 DEF TicketClaim, Keep
  <2>2. ByUsb
    BY <2>1, Contexts DEF ByUsb, TypeOK, PcOK, LocOK
  <2>3. same
    BY <1>5, Reads DEF TicketClaim, Keep, env, Word
  <2>4. QED
    BY <2>2, <2>3
<1>6. ASSUME NEW i \in Interfaces, TicketCheck(i) PROVE ByUsb /\ same
  <2>1. \E to, v : /\ pc' = [pc EXCEPT !.usb = to] \/ pc' = pc
                   /\ loc' = [loc EXCEPT !.usb = v] \/ loc' = loc
    BY <1>6 DEF TicketCheck, NextTicket, Goto, Keep
  <2>2. ByUsb
    BY <2>1, Contexts DEF ByUsb, TypeOK, PcOK, LocOK
  <2>3. same
    BY <1>6, Reads DEF TicketCheck, NextTicket, Goto, env, Word
  <2>4. QED
    BY <2>2, <2>3
<1>7. ASSUME NEW i \in Interfaces, TicketSubmit(i) PROVE ByUsb /\ same
  <2>1. \E to, v : /\ pc' = [pc EXCEPT !.usb = to] \/ pc' = pc
                   /\ loc' = [loc EXCEPT !.usb = v] \/ loc' = loc
    BY <1>7 DEF TicketSubmit, NextTicket, Goto, Keep
  <2>2. ByUsb
    BY <2>1, Contexts DEF ByUsb, TypeOK, PcOK, LocOK
  <2>3. same
    BY <1>7, Reads DEF TicketSubmit, NextTicket, Goto, env, Word
  <2>4. QED
    BY <2>2, <2>3
<1>8. ASSUME NEW i \in Interfaces, TicketTerminal(i) PROVE ByUsb /\ same
  <2>1. \E to, v : /\ pc' = [pc EXCEPT !.usb = to] \/ pc' = pc
                   /\ loc' = [loc EXCEPT !.usb = v] \/ loc' = loc
    BY <1>8 DEF TicketTerminal, Keep
  <2>2. ByUsb
    BY <2>1, Contexts DEF ByUsb, TypeOK, PcOK, LocOK
  <2>3. same
    BY <1>8, Reads DEF TicketTerminal, Keep, env, Word
  <2>4. QED
    BY <2>2, <2>3
<1>9. ASSUME SafetyNone PROVE ByUsb /\ same
  <2>1. \E to, v : /\ pc' = [pc EXCEPT !.usb = to] \/ pc' = pc
                   /\ loc' = [loc EXCEPT !.usb = v] \/ loc' = loc
    BY <1>9 DEF SafetyNone, Goto, shared, Keep
  <2>2. ByUsb
    BY <2>1, Contexts DEF ByUsb, TypeOK, PcOK, LocOK
  <2>3. same
    BY <1>9, Reads DEF SafetyNone, Goto, shared, env, Word
  <2>4. QED
    BY <2>2, <2>3
<1>10. ASSUME NEW i \in Interfaces, SafetyQueue(i) PROVE ByUsb /\ same
  <2>1. \E to, v : /\ pc' = [pc EXCEPT !.usb = to] \/ pc' = pc
                   /\ loc' = [loc EXCEPT !.usb = v] \/ loc' = loc
    BY <1>10 DEF SafetyQueue, Keep, NextSlot, Goto
  <2>2. ByUsb
    BY <2>1, Contexts DEF ByUsb, TypeOK, PcOK, LocOK
  <2>3. same
    BY <1>10, Reads DEF SafetyQueue, Keep, NextSlot, Goto, env, Word
  <2>4. QED
    BY <2>2, <2>3
<1>11. ASSUME NEW i \in Interfaces, SafetyClaim(i) PROVE ByUsb /\ same
  <2>1. \E to, v : /\ pc' = [pc EXCEPT !.usb = to] \/ pc' = pc
                   /\ loc' = [loc EXCEPT !.usb = v] \/ loc' = loc
    BY <1>11 DEF SafetyClaim, NextSlot, Goto, Keep
  <2>2. ByUsb
    BY <2>1, Contexts DEF ByUsb, TypeOK, PcOK, LocOK
  <2>3. same
    BY <1>11, Reads DEF SafetyClaim, NextSlot, Goto, env, Word
  <2>4. QED
    BY <2>2, <2>3
<1>12. ASSUME NEW i \in Interfaces, SafetySubmit(i) PROVE ByUsb /\ same
  <2>1. \E to, v : /\ pc' = [pc EXCEPT !.usb = to] \/ pc' = pc
                   /\ loc' = [loc EXCEPT !.usb = v] \/ loc' = loc
    BY <1>12 DEF SafetySubmit, NextSlot, Goto, Keep
  <2>2. ByUsb
    BY <2>1, Contexts DEF ByUsb, TypeOK, PcOK, LocOK
  <2>3. same
    BY <1>12, Reads DEF SafetySubmit, NextSlot, Goto, env, Word
  <2>4. QED
    BY <2>2, <2>3
<1>13. ASSUME Settle PROVE ByUsb /\ same
  <2>1. \E to, v : /\ pc' = [pc EXCEPT !.usb = to] \/ pc' = pc
                   /\ loc' = [loc EXCEPT !.usb = v] \/ loc' = loc
    BY <1>13 DEF Settle, Keep
  <2>2. ByUsb
    BY <2>1, Contexts DEF ByUsb, TypeOK, PcOK, LocOK
  <2>3. same
    BY <1>13, Reads DEF Settle, Keep, env, Word
  <2>4. QED
    BY <2>2, <2>3
<1>14. ASSUME SettleAgain PROVE ByUsb /\ same
  <2>1. \E to, v : /\ pc' = [pc EXCEPT !.usb = to] \/ pc' = pc
                   /\ loc' = [loc EXCEPT !.usb = v] \/ loc' = loc
    BY <1>14 DEF SettleAgain, At, Keep
  <2>2. ByUsb
    BY <2>1, Contexts DEF ByUsb, TypeOK, PcOK, LocOK
  <2>3. same
    BY <1>14, Reads DEF SettleAgain, At, Keep, env, Word
  <2>4. QED
    BY <2>2, <2>3
<1>15. QED
  BY <1>1, <1>2, <1>3, <1>4, <1>5, <1>6, <1>7, <1>8, <1>9, <1>10, <1>11, <1>12, <1>13, <1>14 DEF PassStep

\* ... and in a callback.
LEMMA CallbackFrame ==
    ASSUME TypeOK, CallbackStep
    PROVE  ByUsb /\ (route'.on = "usb" => route.on = "usb")
<1> DEFINE same == route'.on = "usb" => route.on = "usb"
<1>1. ASSUME NEW i \in Interfaces, Complete(i) PROVE ByUsb /\ same
  <2>1. \E to, v : /\ pc' = [pc EXCEPT !.usb = to] \/ pc' = pc
                   /\ loc' = [loc EXCEPT !.usb = v] \/ loc' = loc
    <3>1. CASE OwnFlight(i)
      BY <1>1, <3>1 DEF Complete, Keep
    <3>2. CASE ~OwnFlight(i)
      BY <1>1, <3>2 DEF Complete
    <3>3. QED
      BY <3>1, <3>2
  <2>2. ByUsb
    BY <2>1, Contexts DEF ByUsb, TypeOK, PcOK, LocOK
  <2>3. same
    BY <1>1 DEF Complete, Keep, env, TypeOK, RouteOK, Route
  <2>4. QED
    BY <2>2, <2>3
<1>2. ASSUME NEW i \in Interfaces, Fail(i) PROVE ByUsb /\ same
  <2>1. \E to, v : /\ pc' = [pc EXCEPT !.usb = to] \/ pc' = pc
                   /\ loc' = [loc EXCEPT !.usb = v] \/ loc' = loc
    BY <1>2 DEF Fail, Keep, Doubt
  <2>2. ByUsb
    BY <2>1, Contexts DEF ByUsb, TypeOK, PcOK, LocOK
  <2>3. same
    BY <1>2 DEF Fail, Keep, Doubt, env, TypeOK, RouteOK, Route
  <2>4. QED
    BY <2>2, <2>3
<1>3. ASSUME CompleteClear PROVE ByUsb /\ same
  <2>1. \E to, v : /\ pc' = [pc EXCEPT !.usb = to] \/ pc' = pc
                   /\ loc' = [loc EXCEPT !.usb = v] \/ loc' = loc
    BY <1>3 DEF CompleteClear, At, Keep
  <2>2. ByUsb
    BY <2>1, Contexts DEF ByUsb, TypeOK, PcOK, LocOK
  <2>3. same
    BY <1>3 DEF CompleteClear, At, Keep, env, TypeOK, RouteOK, Route
  <2>4. QED
    BY <2>2, <2>3
<1>4. ASSUME CompleteConfirm PROVE ByUsb /\ same
  <2>1. \E to, v : /\ pc' = [pc EXCEPT !.usb = to] \/ pc' = pc
                   /\ loc' = [loc EXCEPT !.usb = v] \/ loc' = loc
    BY <1>4 DEF CompleteConfirm, At
  <2>2. ByUsb
    BY <2>1, Contexts DEF ByUsb, TypeOK, PcOK, LocOK
  <2>3. same
    BY <1>4 DEF CompleteConfirm, At, env, TypeOK, RouteOK, Route
  <2>4. QED
    BY <2>2, <2>3
<1>5. ASSUME FailClear PROVE ByUsb /\ same
  <2>1. \E to, v : /\ pc' = [pc EXCEPT !.usb = to] \/ pc' = pc
                   /\ loc' = [loc EXCEPT !.usb = v] \/ loc' = loc
    BY <1>5 DEF FailClear, At, Keep
  <2>2. ByUsb
    BY <2>1, Contexts DEF ByUsb, TypeOK, PcOK, LocOK
  <2>3. same
    BY <1>5 DEF FailClear, At, Keep, env, TypeOK, RouteOK, Route
  <2>4. QED
    BY <2>2, <2>3
<1>6. ASSUME Unmount PROVE ByUsb /\ same
  <2>1. \E to, v : /\ pc' = [pc EXCEPT !.usb = to] \/ pc' = pc
                   /\ loc' = [loc EXCEPT !.usb = v] \/ loc' = loc
    BY <1>6 DEF Unmount, At, Keep, InvalidateRoute
  <2>2. ByUsb
    BY <2>1, Contexts DEF ByUsb, TypeOK, PcOK, LocOK
  <2>3. same
    BY <1>6 DEF Unmount, At, Keep, InvalidateRoute, env, TypeOK, RouteOK, Route
  <2>4. QED
    BY <2>2, <2>3
<1>7. ASSUME UnmountKeep PROVE ByUsb /\ same
  <2>1. \E to, v : /\ pc' = [pc EXCEPT !.usb = to] \/ pc' = pc
                   /\ loc' = [loc EXCEPT !.usb = v] \/ loc' = loc
    BY <1>7 DEF UnmountKeep, At
  <2>2. ByUsb
    BY <2>1, Contexts DEF ByUsb, TypeOK, PcOK, LocOK
  <2>3. same
    BY <1>7 DEF UnmountKeep, At, env, TypeOK, RouteOK, Route
  <2>4. QED
    BY <2>2, <2>3
<1>8. ASSUME UnmountClear PROVE ByUsb /\ same
  <2>1. \E to, v : /\ pc' = [pc EXCEPT !.usb = to] \/ pc' = pc
                   /\ loc' = [loc EXCEPT !.usb = v] \/ loc' = loc
    BY <1>8 DEF UnmountClear, At, Keep
  <2>2. ByUsb
    BY <2>1, Contexts DEF ByUsb, TypeOK, PcOK, LocOK
  <2>3. same
    BY <1>8 DEF UnmountClear, At, Keep, env, TypeOK, RouteOK, Route
  <2>4. QED
    BY <2>2, <2>3
<1>9. ASSUME UnmountHidden PROVE ByUsb /\ same
  <2>1. \E to, v : /\ pc' = [pc EXCEPT !.usb = to] \/ pc' = pc
                   /\ loc' = [loc EXCEPT !.usb = v] \/ loc' = loc
    BY <1>9 DEF UnmountHidden
  <2>2. ByUsb
    BY <2>1, Contexts DEF ByUsb, TypeOK, PcOK, LocOK
  <2>3. same
    BY <1>9 DEF UnmountHidden, env, TypeOK, RouteOK, Route
  <2>4. QED
    BY <2>2, <2>3
<1>10. ASSUME Mount PROVE ByUsb /\ same
  <2>1. \E to, v : /\ pc' = [pc EXCEPT !.usb = to] \/ pc' = pc
                   /\ loc' = [loc EXCEPT !.usb = v] \/ loc' = loc
    BY <1>10 DEF Mount, At
  <2>2. ByUsb
    BY <2>1, Contexts DEF ByUsb, TypeOK, PcOK, LocOK
  <2>3. same
    BY <1>10 DEF Mount, At, env, TypeOK, RouteOK, Route
  <2>4. QED
    BY <2>2, <2>3
<1>11. ASSUME MountKeep PROVE ByUsb /\ same
  <2>1. \E to, v : /\ pc' = [pc EXCEPT !.usb = to] \/ pc' = pc
                   /\ loc' = [loc EXCEPT !.usb = v] \/ loc' = loc
    BY <1>11 DEF MountKeep, At, Keep
  <2>2. ByUsb
    BY <2>1, Contexts DEF ByUsb, TypeOK, PcOK, LocOK
  <2>3. same
    BY <1>11 DEF MountKeep, At, Keep, env, TypeOK, RouteOK, Route
  <2>4. QED
    BY <2>2, <2>3
<1>12. ASSUME MountClear PROVE ByUsb /\ same
  <2>1. \E to, v : /\ pc' = [pc EXCEPT !.usb = to] \/ pc' = pc
                   /\ loc' = [loc EXCEPT !.usb = v] \/ loc' = loc
    BY <1>12 DEF MountClear, At, Keep
  <2>2. ByUsb
    BY <2>1, Contexts DEF ByUsb, TypeOK, PcOK, LocOK
  <2>3. same
    BY <1>12 DEF MountClear, At, Keep, env, TypeOK, RouteOK, Route
  <2>4. QED
    BY <2>2, <2>3
<1>13. ASSUME Suspend PROVE ByUsb /\ same
  <2>1. \E to, v : /\ pc' = [pc EXCEPT !.usb = to] \/ pc' = pc
                   /\ loc' = [loc EXCEPT !.usb = v] \/ loc' = loc
    BY <1>13 DEF Suspend, At, InvalidateRoute
  <2>2. ByUsb
    BY <2>1, Contexts DEF ByUsb, TypeOK, PcOK, LocOK
  <2>3. same
    BY <1>13 DEF Suspend, At, InvalidateRoute, env, TypeOK, RouteOK, Route
  <2>4. QED
    BY <2>2, <2>3
<1>14. ASSUME SuspendKeep PROVE ByUsb /\ same
  <2>1. \E to, v : /\ pc' = [pc EXCEPT !.usb = to] \/ pc' = pc
                   /\ loc' = [loc EXCEPT !.usb = v] \/ loc' = loc
    BY <1>14 DEF SuspendKeep, At
  <2>2. ByUsb
    BY <2>1, Contexts DEF ByUsb, TypeOK, PcOK, LocOK
  <2>3. same
    BY <1>14 DEF SuspendKeep, At, env, TypeOK, RouteOK, Route
  <2>4. QED
    BY <2>2, <2>3
<1>15. ASSUME SuspendBits PROVE ByUsb /\ same
  <2>1. \E to, v : /\ pc' = [pc EXCEPT !.usb = to] \/ pc' = pc
                   /\ loc' = [loc EXCEPT !.usb = v] \/ loc' = loc
    BY <1>15 DEF SuspendBits, At
  <2>2. ByUsb
    BY <2>1, Contexts DEF ByUsb, TypeOK, PcOK, LocOK
  <2>3. same
    BY <1>15 DEF SuspendBits, At, env, TypeOK, RouteOK, Route
  <2>4. QED
    BY <2>2, <2>3
<1>16. ASSUME Resume PROVE ByUsb /\ same
  <2>1. \E to, v : /\ pc' = [pc EXCEPT !.usb = to] \/ pc' = pc
                   /\ loc' = [loc EXCEPT !.usb = v] \/ loc' = loc
    BY <1>16 DEF Resume
  <2>2. ByUsb
    BY <2>1, Contexts DEF ByUsb, TypeOK, PcOK, LocOK
  <2>3. same
    BY <1>16 DEF Resume, env, TypeOK, RouteOK, Route
  <2>4. QED
    BY <2>2, <2>3
<1>17. QED
  BY <1>1, <1>2, <1>3, <1>4, <1>5, <1>6, <1>7, <1>8, <1>9, <1>10, <1>11, <1>12, <1>13, <1>14, <1>15, <1>16 DEF CallbackStep

\* The executor.
ByExecutor == /\ pc'.control = pc.control /\ pc'.usb = pc.usb /\ loc'.usb = loc.usb
              /\ loc'.control = loc.control
              /\ pc'.queue = pc.queue \/ (pc'.queue = "empty" /\ pc'.executor = "idle")

LEMMA ExecutorFrame ==
    ASSUME TypeOK, ExecutorStep
    PROVE  ByExecutor /\ (route'.on = "usb" => route.on = "usb")
<1> DEFINE same == route'.on = "usb" => route.on = "usb"
<1>1. ASSUME Stall PROVE ByExecutor /\ same
  <2>1. \E to, v : /\ \/ pc' = [pc EXCEPT !.executor = to] \/ pc' = pc
                      \/ pc' = [pc EXCEPT !.executor = "idle", !.queue = "empty"]
                      \/ pc' = [pc EXCEPT !.queue = "empty"] /\ pc.executor = "idle"
                   /\ loc' = [loc EXCEPT !.executor = v] \/ loc' = loc
    BY <1>1 DEF Stall, At, InvalidateRoute
  <2>2. ByExecutor
    BY <2>1, Contexts DEF ByExecutor, TypeOK, PcOK, LocOK
  <2>3. same
    BY <1>1 DEF Stall, At, InvalidateRoute, env, TypeOK, RouteOK, Route
  <2>4. QED
    BY <2>2, <2>3
<1>2. ASSUME StallKeep PROVE ByExecutor /\ same
  <2>1. \E to, v : /\ \/ pc' = [pc EXCEPT !.executor = to] \/ pc' = pc
                      \/ pc' = [pc EXCEPT !.executor = "idle", !.queue = "empty"]
                      \/ pc' = [pc EXCEPT !.queue = "empty"] /\ pc.executor = "idle"
                   /\ loc' = [loc EXCEPT !.executor = v] \/ loc' = loc
    BY <1>2 DEF StallKeep, At
  <2>2. ByExecutor
    BY <2>1, Contexts DEF ByExecutor, TypeOK, PcOK, LocOK
  <2>3. same
    BY <1>2 DEF StallKeep, At, env, TypeOK, RouteOK, Route
  <2>4. QED
    BY <2>2, <2>3
<1>3. ASSUME StallBits PROVE ByExecutor /\ same
  <2>1. \E to, v : /\ \/ pc' = [pc EXCEPT !.executor = to] \/ pc' = pc
                      \/ pc' = [pc EXCEPT !.executor = "idle", !.queue = "empty"]
                      \/ pc' = [pc EXCEPT !.queue = "empty"] /\ pc.executor = "idle"
                   /\ loc' = [loc EXCEPT !.executor = v] \/ loc' = loc
    BY <1>3 DEF StallBits, At
  <2>2. ByExecutor
    BY <2>1, Contexts DEF ByExecutor, TypeOK, PcOK, LocOK
  <2>3. same
    BY <1>3 DEF StallBits, At, env, TypeOK, RouteOK, Route
  <2>4. QED
    BY <2>2, <2>3
<1>4. ASSUME NEW action \in {"detach", "route"}, SafetyBegin(action) PROVE ByExecutor /\ same
  <2>1. \E to, v : /\ \/ pc' = [pc EXCEPT !.executor = to] \/ pc' = pc
                      \/ pc' = [pc EXCEPT !.executor = "idle", !.queue = "empty"]
                      \/ pc' = [pc EXCEPT !.queue = "empty"] /\ pc.executor = "idle"
                   /\ loc' = [loc EXCEPT !.executor = v] \/ loc' = loc
    BY <1>4 DEF SafetyBegin, Keep
  <2>2. ByExecutor
    BY <2>1, Contexts DEF ByExecutor, TypeOK, PcOK, LocOK
  <2>3. same
    BY <1>4 DEF SafetyBegin, Keep, env, TypeOK, RouteOK, Route
  <2>4. QED
    BY <2>2, <2>3
<1>5. ASSUME RouteOvertaken PROVE ByExecutor /\ same
  <2>1. \E to, v : /\ \/ pc' = [pc EXCEPT !.executor = to] \/ pc' = pc
                      \/ pc' = [pc EXCEPT !.executor = "idle", !.queue = "empty"]
                      \/ pc' = [pc EXCEPT !.queue = "empty"] /\ pc.executor = "idle"
                   /\ loc' = [loc EXCEPT !.executor = v] \/ loc' = loc
    BY <1>5 DEF RouteOvertaken, Keep, shared
  <2>2. ByExecutor
    BY <2>1, Contexts DEF ByExecutor, TypeOK, PcOK, LocOK
  <2>3. same
    BY <1>5 DEF RouteOvertaken, Keep, shared, env, TypeOK, RouteOK, Route
  <2>4. QED
    BY <2>2, <2>3
<1>6. ASSUME Await PROVE ByExecutor /\ same
  <2>1. \E to, v : /\ \/ pc' = [pc EXCEPT !.executor = to] \/ pc' = pc
                      \/ pc' = [pc EXCEPT !.executor = "idle", !.queue = "empty"]
                      \/ pc' = [pc EXCEPT !.queue = "empty"] /\ pc.executor = "idle"
                   /\ loc' = [loc EXCEPT !.executor = v] \/ loc' = loc
    BY <1>6 DEF Await, At, shared
  <2>2. ByExecutor
    BY <2>1, Contexts DEF ByExecutor, TypeOK, PcOK, LocOK
  <2>3. same
    BY <1>6 DEF Await, At, shared, env, TypeOK, RouteOK, Route
  <2>4. QED
    BY <2>2, <2>3
<1>7. ASSUME AwaitTimeout PROVE ByExecutor /\ same
  <2>1. \E to, v : /\ \/ pc' = [pc EXCEPT !.executor = to] \/ pc' = pc
                      \/ pc' = [pc EXCEPT !.executor = "idle", !.queue = "empty"]
                      \/ pc' = [pc EXCEPT !.queue = "empty"] /\ pc.executor = "idle"
                   /\ loc' = [loc EXCEPT !.executor = v] \/ loc' = loc
    BY <1>7 DEF AwaitTimeout, At, shared
  <2>2. ByExecutor
    BY <2>1, Contexts DEF ByExecutor, TypeOK, PcOK, LocOK
  <2>3. same
    BY <1>7 DEF AwaitTimeout, At, shared, env, TypeOK, RouteOK, Route
  <2>4. QED
    BY <2>2, <2>3
<1>8. ASSUME DoubtFlags PROVE ByExecutor /\ same
  <2>1. \E to, v : /\ \/ pc' = [pc EXCEPT !.executor = to] \/ pc' = pc
                      \/ pc' = [pc EXCEPT !.executor = "idle", !.queue = "empty"]
                      \/ pc' = [pc EXCEPT !.queue = "empty"] /\ pc.executor = "idle"
                   /\ loc' = [loc EXCEPT !.executor = v] \/ loc' = loc
    BY <1>8 DEF DoubtFlags, At
  <2>2. ByExecutor
    BY <2>1, Contexts DEF ByExecutor, TypeOK, PcOK, LocOK
  <2>3. same
    BY <1>8 DEF DoubtFlags, At, env, TypeOK, RouteOK, Route
  <2>4. QED
    BY <2>2, <2>3
<1>9. ASSUME DoubtWord PROVE ByExecutor /\ same
  <2>1. \E to, v : /\ \/ pc' = [pc EXCEPT !.executor = to] \/ pc' = pc
                      \/ pc' = [pc EXCEPT !.executor = "idle", !.queue = "empty"]
                      \/ pc' = [pc EXCEPT !.queue = "empty"] /\ pc.executor = "idle"
                   /\ loc' = [loc EXCEPT !.executor = v] \/ loc' = loc
    BY <1>9 DEF DoubtWord, At, Doubt
  <2>2. ByExecutor
    BY <2>1, Contexts DEF ByExecutor, TypeOK, PcOK, LocOK
  <2>3. same
    BY <1>9 DEF DoubtWord, At, Doubt, env, TypeOK, RouteOK, Route
  <2>4. QED
    BY <2>2, <2>3
<1>10. ASSUME RouteDone PROVE ByExecutor /\ same
  <2>1. \E to, v : /\ \/ pc' = [pc EXCEPT !.executor = to] \/ pc' = pc
                      \/ pc' = [pc EXCEPT !.executor = "idle", !.queue = "empty"]
                      \/ pc' = [pc EXCEPT !.queue = "empty"] /\ pc.executor = "idle"
                   /\ loc' = [loc EXCEPT !.executor = v] \/ loc' = loc
    BY <1>10 DEF RouteDone, Keep, CompleteRoute
  <2>2. ByExecutor
    BY <2>1, Contexts DEF ByExecutor, TypeOK, PcOK, LocOK
  <2>3. same
    BY <1>10 DEF RouteDone, Keep, CompleteRoute, env, TypeOK, RouteOK, Route
  <2>4. QED
    BY <2>2, <2>3
<1>11. ASSUME Uninstall PROVE ByExecutor /\ same
  <2>1. \E to, v : /\ \/ pc' = [pc EXCEPT !.executor = to] \/ pc' = pc
                      \/ pc' = [pc EXCEPT !.executor = "idle", !.queue = "empty"]
                      \/ pc' = [pc EXCEPT !.queue = "empty"] /\ pc.executor = "idle"
                   /\ loc' = [loc EXCEPT !.executor = v] \/ loc' = loc
    BY <1>11 DEF Uninstall, InvalidateRoute
  <2>2. ByExecutor
    BY <2>1, Contexts DEF ByExecutor, TypeOK, PcOK, LocOK
  <2>3. same
    BY <1>11 DEF Uninstall, InvalidateRoute, env, TypeOK, RouteOK, Route
  <2>4. QED
    BY <2>2, <2>3
<1>12. ASSUME UninstallClear PROVE ByExecutor /\ same
  <2>1. \E to, v : /\ \/ pc' = [pc EXCEPT !.executor = to] \/ pc' = pc
                      \/ pc' = [pc EXCEPT !.executor = "idle", !.queue = "empty"]
                      \/ pc' = [pc EXCEPT !.queue = "empty"] /\ pc.executor = "idle"
                   /\ loc' = [loc EXCEPT !.executor = v] \/ loc' = loc
    BY <1>12 DEF UninstallClear, Keep
  <2>2. ByExecutor
    BY <2>1, Contexts DEF ByExecutor, TypeOK, PcOK, LocOK
  <2>3. same
    BY <1>12 DEF UninstallClear, Keep, env, TypeOK, RouteOK, Route
  <2>4. QED
    BY <2>2, <2>3
<1>13. QED
  BY <1>1, <1>2, <1>3, <1>4, <1>5, <1>6, <1>7, <1>8, <1>9, <1>10, <1>11, <1>12 DEF ExecutorStep

\* A producer: the control task's own place is among the producers' ones.
ByProducer(p) == /\ pc'.usb = pc.usb /\ loc'.usb = loc.usb /\ pc'.executor = pc.executor
                 /\ pc'.queue = pc.queue
                 /\ p = "control" => pc.control \in Producing \union {"idle"}
                                     /\ pc'.control \in Producing \union {"idle"}
                 /\ p # "control" => pc'.control = pc.control /\ loc'.control = loc.control

LEMMA ProducerFrame ==
    ASSUME TypeOK, NEW p \in Producers, ProducerStep(p)
    PROVE  /\ ByProducer(p)
           /\ route' = route /\ auth' = auth /\ link' = link /\ iface' = iface
           /\ release' = release /\ wire' = wire /\ host' = host
<1>1. /\ \E to \in Producing \union {"idle"} : pc' = [pc EXCEPT ![p] = to]
      /\ \E v : loc' = [loc EXCEPT ![p] = v] \/ loc' = loc
      /\ pc[p] \in Producing \union {"idle"}
  BY DEF ProducerStep, Begin, Fence, Publish, WaitTerminal, WaitTimeout, WaitClaimed, WaitReplaced,
         Answer, At, Keep, Producing
<1>2. /\ route' = route /\ auth' = auth /\ link' = link /\ iface' = iface
      /\ release' = release /\ wire' = wire /\ host' = host
  BY DEF ProducerStep, Begin, Fence, Publish, WaitTerminal, WaitTimeout, WaitClaimed, WaitReplaced,
         Answer, shared, env
<1>3. ByProducer(p)
  BY <1>1, Contexts DEF ByProducer, TypeOK, PcOK, LocOK
<1>4. QED
  BY <1>2, <1>3

\* A release request: it opens nothing.
ByRequest(k) == /\ k # "usb" => pc'.usb = pc.usb
                /\ k = "usb" => pc'.usb \in Requesting \union {"idle", "mountClear"}
                /\ k = "usb" => pc.usb \in Requesting
                /\ k # "executor" => pc'.executor = pc.executor
                /\ k = "control" => pc.control \in Requesting
                                    /\ pc'.control \in Requesting \union {"idle", "admit"}
                /\ k # "control" => pc'.control = pc.control
                /\ pc'.queue = pc.queue /\ loc' = loc

LEMMA RequestFrame ==
    ASSUME TypeOK, NEW k \in {"control", "usb", "executor"}, RequestStep(k)
    PROVE  /\ ByRequest(k)
           /\ route' = route /\ auth' = auth /\ link'.gen = link.gen /\ link'.at = link.at
           /\ iface' = iface /\ wire' = wire /\ host' = host
           /\ Open' => Open /\ release' = release
<1>1. /\ pc[k] \in Requesting
      /\ \E to \in Requesting \union Returns[k] : pc' = [pc EXCEPT ![k] = to]
  BY Contexts, Reads
     DEF RequestStep, ReleaseIdentity, ReleaseBarrier, ReleaseFlag, ReleaseUnavailable, At,
         Requesting
<1>2. /\ loc' = loc /\ route' = route /\ auth' = auth /\ iface' = iface /\ wire' = wire
      /\ host' = host /\ (Open' => Open /\ release' = release)
      /\ link' = link \/ \E b \in BOOLEAN : link' = [link EXCEPT !.pend = b]
  BY DEF RequestStep, ReleaseIdentity, ReleaseBarrier, ReleaseFlag, ReleaseUnavailable, env, Open,
         TypeOK, ReleaseOK, Release
<1>3. link'.gen = link.gen /\ link'.at = link.at
  BY <1>2, Reads DEF Word
<1>4. ByRequest(k)
  BY <1>1, <1>2, Contexts, Where DEF ByRequest, TypeOK, PcOK
<1>5. QED
  BY <1>2, <1>3, <1>4

\* The rest of the control task, and the end of a sequence.
ByControl == pc'.usb = pc.usb /\ loc'.usb = loc.usb /\ pc'.executor = pc.executor

LEMMA ControlFrame ==
    ASSUME TypeOK, ControlStep
    PROVE  ByControl /\ wire' = wire /\ host' = host
<1>1. ASSUME SequenceClaim PROVE ByControl /\ wire' = wire /\ host' = host
  <2>1. /\ \E to, v : /\ pc' = [pc EXCEPT !.control = to] \/ pc' = pc
                      /\ loc' = [loc EXCEPT !.control = v] \/ loc' = loc
        /\ wire' = wire /\ host' = host
    BY <1>1 DEF SequenceClaim, At, Keep, env
  <2>2. ByControl
    BY <2>1, Contexts DEF ByControl, TypeOK, PcOK, LocOK
  <2>3. QED
    BY <2>1, <2>2
<1>2. ASSUME SequenceAdmit PROVE ByControl /\ wire' = wire /\ host' = host
  <2>1. /\ \E to, v : /\ pc' = [pc EXCEPT !.control = to] \/ pc' = pc
                      /\ loc' = [loc EXCEPT !.control = NoLocals, !.sequence.s = v]
        /\ wire' = wire /\ host' = host
    BY <1>2 DEF SequenceAdmit, At, env
  <2>2. ByControl
    BY <2>1, Contexts DEF ByControl, TypeOK, PcOK, LocOK
  <2>3. QED
    BY <2>1, <2>2
<1>3. ASSUME EndSequence PROVE ByControl /\ wire' = wire /\ host' = host
  <2>1. /\ \E to, v : /\ pc' = [pc EXCEPT !.control = to] \/ pc' = pc
                      /\ loc' = [loc EXCEPT !.sequence = v]
        /\ wire' = wire /\ host' = host
    BY <1>3 DEF EndSequence, Keep, env
  <2>2. ByControl
    BY <2>1, Contexts DEF ByControl, TypeOK, PcOK, LocOK
  <2>3. QED
    BY <2>1, <2>2
<1>4. ASSUME RequestRelease PROVE ByControl /\ wire' = wire /\ host' = host
  <2>1. /\ \E to, v : /\ pc' = [pc EXCEPT !.control = to] \/ pc' = pc
                      /\ loc' = [loc EXCEPT !.control = v] \/ loc' = loc
        /\ wire' = wire /\ host' = host
    BY <1>4 DEF RequestRelease, At, shared, env
  <2>2. ByControl
    BY <2>1, Contexts DEF ByControl, TypeOK, PcOK, LocOK
  <2>3. QED
    BY <2>1, <2>2
<1>5. ASSUME PublicRelease PROVE ByControl /\ wire' = wire /\ host' = host
  <2>1. /\ \E to, v : /\ pc' = [pc EXCEPT !.control = to] \/ pc' = pc
                      /\ loc' = [loc EXCEPT !.control = v] \/ loc' = loc
        /\ wire' = wire /\ host' = host
    BY <1>5 DEF PublicRelease, At, Keep, shared, env
  <2>2. ByControl
    BY <2>1, Contexts DEF ByControl, TypeOK, PcOK, LocOK
  <2>3. QED
    BY <2>1, <2>2
<1>6. ASSUME ReleaseAdmit PROVE ByControl /\ wire' = wire /\ host' = host
  <2>1. /\ \E to, v : /\ pc' = [pc EXCEPT !.control = to] \/ pc' = pc
                      /\ loc' = [loc EXCEPT !.control = v] \/ loc' = loc
        /\ wire' = wire /\ host' = host
    BY <1>6 DEF ReleaseAdmit, At, Keep, env
  <2>2. ByControl
    BY <2>1, Contexts DEF ByControl, TypeOK, PcOK, LocOK
  <2>3. QED
    BY <2>1, <2>2
<1>7. ASSUME ScanTicket PROVE ByControl /\ wire' = wire /\ host' = host
  <2>1. /\ \E to, v : /\ pc' = [pc EXCEPT !.control = to] \/ pc' = pc
                      /\ loc' = [loc EXCEPT !.control = v] \/ loc' = loc
        /\ wire' = wire /\ host' = host
    BY <1>7 DEF ScanTicket, At, Keep, shared, env
  <2>2. ByControl
    BY <2>1, Contexts DEF ByControl, TypeOK, PcOK, LocOK
  <2>3. QED
    BY <2>1, <2>2
<1>8. ASSUME ScanFlags PROVE ByControl /\ wire' = wire /\ host' = host
  <2>1. /\ \E to, v : /\ pc' = [pc EXCEPT !.control = to] \/ pc' = pc
                      /\ loc' = [loc EXCEPT !.control = v] \/ loc' = loc
        /\ wire' = wire /\ host' = host
    BY <1>8 DEF ScanFlags, Keep, env
  <2>2. ByControl
    BY <2>1, Contexts DEF ByControl, TypeOK, PcOK, LocOK
  <2>3. QED
    BY <2>1, <2>2
<1>9. ASSUME ReleaseOpen PROVE ByControl /\ wire' = wire /\ host' = host
  <2>1. /\ \E to, v : /\ pc' = [pc EXCEPT !.control = to] \/ pc' = pc
                      /\ loc' = [loc EXCEPT !.control = v] \/ loc' = loc
        /\ wire' = wire /\ host' = host
    BY <1>9 DEF ReleaseOpen, At, env
  <2>2. ByControl
    BY <2>1, Contexts DEF ByControl, TypeOK, PcOK, LocOK
  <2>3. QED
    BY <2>1, <2>2
<1>10. ASSUME ReleaseFinish PROVE ByControl /\ wire' = wire /\ host' = host
  <2>1. /\ \E to, v : /\ pc' = [pc EXCEPT !.control = to] \/ pc' = pc
                      /\ loc' = [loc EXCEPT !.control = v] \/ loc' = loc
        /\ wire' = wire /\ host' = host
    BY <1>10 DEF ReleaseFinish, At, env
  <2>2. ByControl
    BY <2>1, Contexts DEF ByControl, TypeOK, PcOK, LocOK
  <2>3. QED
    BY <2>1, <2>2
<1>11. ASSUME DetachAccept PROVE ByControl /\ wire' = wire /\ host' = host
  <2>1. /\ \E to, q, v : /\ pc' = [pc EXCEPT !.control = to, !.queue = q]
                         /\ loc' = [loc EXCEPT !.control = v] \/ loc' = loc
        /\ wire' = wire /\ host' = host
    BY <1>11 DEF DetachAccept, env
  <2>2. ByControl
    BY <2>1, Contexts DEF ByControl, TypeOK, PcOK, LocOK
  <2>3. QED
    BY <2>1, <2>2
<1>12. ASSUME DetachRetire PROVE ByControl /\ wire' = wire /\ host' = host
  <2>1. /\ \E to, v : /\ pc' = [pc EXCEPT !.control = to] \/ pc' = pc
                      /\ loc' = [loc EXCEPT !.control = v] \/ loc' = loc
        /\ wire' = wire /\ host' = host
    BY <1>12 DEF DetachRetire, At, env
  <2>2. ByControl
    BY <2>1, Contexts DEF ByControl, TypeOK, PcOK, LocOK
  <2>3. QED
    BY <2>1, <2>2
<1>13. ASSUME DetachKeep PROVE ByControl /\ wire' = wire /\ host' = host
  <2>1. /\ \E to, v : /\ pc' = [pc EXCEPT !.control = to] \/ pc' = pc
                      /\ loc' = [loc EXCEPT !.control = v] \/ loc' = loc
        /\ wire' = wire /\ host' = host
    BY <1>13 DEF DetachKeep, At, env
  <2>2. ByControl
    BY <2>1, Contexts DEF ByControl, TypeOK, PcOK, LocOK
  <2>3. QED
    BY <2>1, <2>2
<1>14. ASSUME Attach PROVE ByControl /\ wire' = wire /\ host' = host
  <2>1. /\ \E to, v : /\ pc' = [pc EXCEPT !.control = to] \/ pc' = pc
                      /\ loc' = [loc EXCEPT !.control = v] \/ loc' = loc
        /\ wire' = wire /\ host' = host
    BY <1>14 DEF Attach, env
  <2>2. ByControl
    BY <2>1, Contexts DEF ByControl, TypeOK, PcOK, LocOK
  <2>3. QED
    BY <2>1, <2>2
<1>15. ASSUME RouteUsb PROVE ByControl /\ wire' = wire /\ host' = host
  <2>1. /\ \E to, v : /\ pc' = [pc EXCEPT !.control = to] \/ pc' = pc
                      /\ loc' = [loc EXCEPT !.control = v] \/ loc' = loc
        /\ wire' = wire /\ host' = host
    BY <1>15 DEF RouteUsb, At, Keep, env
  <2>2. ByControl
    BY <2>1, Contexts DEF ByControl, TypeOK, PcOK, LocOK
  <2>3. QED
    BY <2>1, <2>2
<1>16. ASSUME RouteCommit PROVE ByControl /\ wire' = wire /\ host' = host
  <2>1. /\ \E to, v : /\ pc' = [pc EXCEPT !.control = to] \/ pc' = pc
                      /\ loc' = [loc EXCEPT !.control = v] \/ loc' = loc
        /\ wire' = wire /\ host' = host
    BY <1>16 DEF RouteCommit, At, Keep, env
  <2>2. ByControl
    BY <2>1, Contexts DEF ByControl, TypeOK, PcOK, LocOK
  <2>3. QED
    BY <2>1, <2>2
<1>17. ASSUME RouteNone PROVE ByControl /\ wire' = wire /\ host' = host
  <2>1. /\ \E to, v : /\ pc' = [pc EXCEPT !.control = to] \/ pc' = pc
                      /\ loc' = [loc EXCEPT !.control = v] \/ loc' = loc
        /\ wire' = wire /\ host' = host
    BY <1>17 DEF RouteNone, At, env
  <2>2. ByControl
    BY <2>1, Contexts DEF ByControl, TypeOK, PcOK, LocOK
  <2>3. QED
    BY <2>1, <2>2
<1>18. ASSUME NoneRetire PROVE ByControl /\ wire' = wire /\ host' = host
  <2>1. /\ \E to, v : /\ pc' = [pc EXCEPT !.control = to] \/ pc' = pc
                      /\ loc' = [loc EXCEPT !.control = v] \/ loc' = loc
        /\ wire' = wire /\ host' = host
    BY <1>18 DEF NoneRetire, At, env
  <2>2. ByControl
    BY <2>1, Contexts DEF ByControl, TypeOK, PcOK, LocOK
  <2>3. QED
    BY <2>1, <2>2
<1>19. ASSUME NoneKeep PROVE ByControl /\ wire' = wire /\ host' = host
  <2>1. /\ \E to, q, v : /\ pc' = [pc EXCEPT !.control = to, !.queue = q]
                         /\ loc' = [loc EXCEPT !.control = v] \/ loc' = loc
        /\ wire' = wire /\ host' = host
    BY <1>19 DEF NoneKeep, env
  <2>2. ByControl
    BY <2>1, Contexts DEF ByControl, TypeOK, PcOK, LocOK
  <2>3. QED
    BY <2>1, <2>2
<1>20. QED
  BY <1>1, <1>2, <1>3, <1>4, <1>5, <1>6, <1>7, <1>8, <1>9, <1>10, <1>11, <1>12, <1>13, <1>14, <1>15, <1>16, <1>17, <1>18, <1>19 DEF ControlStep

LEMMA RoutingStep ==
    ASSUME TypeOK, TypeOK', Held, Routing, [Next]_vars
    PROVE  Routing'
<1>1. CASE Next
  <2>1. ASSUME NEW p \in Producers, ProducerStep(p) PROVE Routing'
    BY <2>1, ProducerFrame, RouteStillKeeps DEF ByProducer, RouteStill, Moving, Producing
  <2>2. ASSUME NEW k \in {"control", "usb", "executor"}, RequestStep(k) PROVE Routing'
    BY <2>2, RequestFrame, RouteStillKeeps DEF ByRequest, RouteStill, Moving, Requesting
  <2>3. CASE ControlStep
    <3>1. CASE SequenceClaim \/ RequestRelease \/ PublicRelease \/ ReleaseAdmit \/ ScanTicket
               \/ ReleaseOpen \/ ReleaseFinish \/ DetachRetire \/ DetachKeep \/ SequenceAdmit
      <4>1. \E to \in ControlPoint \ Moving : pc' = [pc EXCEPT !.control = to]
        BY <3>1 DEF SequenceClaim, RequestRelease, PublicRelease, ReleaseAdmit, ScanTicket,
             ReleaseOpen, ReleaseFinish, DetachRetire, DetachKeep, SequenceAdmit, At, ControlPoint,
             Requesting, Moving
      <4>2. route' = route
        BY <3>1 DEF SequenceClaim, RequestRelease, PublicRelease, ReleaseAdmit, ScanTicket,
             ReleaseOpen, ReleaseFinish, DetachRetire, DetachKeep, SequenceAdmit, shared
      <4>3. QED
        BY <4>1, <4>2, Contexts, RouteStillKeeps DEF RouteStill, TypeOK, PcOK
    <3>2. CASE EndSequence \/ Attach
      <4>1. pc' = pc /\ route' = route
        BY <3>2 DEF EndSequence, Attach
      <4>2. QED
        BY <4>1, RouteStillKeeps DEF RouteStill
    <3>3. CASE ScanFlags
      <4>1. (\E to \in {"scanTicket", "open"} : pc' = [pc EXCEPT !.control = to]) /\ route' = route
        BY <3>3 DEF ScanFlags
      <4>2. QED
        BY <4>1, Contexts, RouteStillKeeps DEF RouteStill, TypeOK, PcOK, Moving
    <3>4. CASE DetachAccept
      <4>1. pc'.control = "detachRetire" /\ pc'.queue = "detach"
        BY <3>4, Contexts DEF DetachAccept, TypeOK, PcOK
      <4>2. QED
        BY <4>1 DEF Routing
    <3>5. CASE RouteUsb
      <4>1. pc'.control = "routeCommit" /\ pc'.queue = "empty"
        BY <3>5, Contexts DEF RouteUsb, At, TypeOK, PcOK
      <4>2. QED
        BY <4>1 DEF Routing
    <3>6. CASE RouteCommit
      <4>1. pc.control = "routeCommit" /\ pc'.control = "idle" /\ pc'.queue = pc.queue
        BY <3>6, Contexts DEF RouteCommit, At, TypeOK, PcOK
      <4>2. QED
        BY <4>1 DEF Routing
    <3>7. CASE RouteNone
      <4>1. pc'.control = "noneRetire" /\ route'.on = "releasing"
        BY <3>7, Contexts DEF RouteNone, At, TypeOK, PcOK, RouteOK, Route
      <4>2. QED
        BY <4>1 DEF Routing
    <3>8. CASE NoneRetire
      <4>1. pc.control = "noneRetire" /\ pc'.control = "noneKeep" /\ route' = route
        BY <3>8, Contexts DEF NoneRetire, At, TypeOK, PcOK
      <4>2. QED
        BY <4>1 DEF Routing
    <3>9. CASE NoneKeep
      <4>1. /\ pc.control = "noneKeep" /\ pc'.control = "idle"
            /\ route.on # "usb" => route'.on # "usb"
        <5>1. /\ \E q : pc' = [pc EXCEPT !.control = "idle", !.queue = q]
              /\ pc.control = "noneKeep" /\ (route' = route \/ CompleteRoute)
          BY <3>9 DEF NoneKeep
        <5>2. QED
          BY <5>1, Contexts DEF CompleteRoute, TypeOK, PcOK, RouteOK, Route
      <4>2. QED
        BY <4>1 DEF Routing
    <3>10. QED
      BY <2>3, <3>1, <3>2, <3>3, <3>4, <3>5, <3>6, <3>7, <3>8, <3>9 DEF ControlStep
  <2>4. CASE PassStep
    BY <2>4, PassFrame, RouteStillKeeps DEF ByUsb, RouteStill
  <2>5. CASE CallbackStep
    BY <2>5, CallbackFrame, RouteStillKeeps DEF ByUsb, RouteStill
  <2>6. CASE ExecutorStep
    BY <2>6, ExecutorFrame, RouteStillKeeps DEF ByExecutor, RouteStill
  <2>7. QED
    BY <1>1, <2>1, <2>2, <2>3, <2>4, <2>5, <2>6, Steps
<1>2. CASE UNCHANGED vars
  BY <1>2 DEF vars, shared, Routing
<1>3. QED
  BY <1>1, <1>2

\* An uncertain interface owes an all-up, and a report that failed is off the wire.
Marked == /\ \A i \in Interfaces : iface[i].unc => iface[i].safety
          /\ pc.usb = "failed" => wire[loc.usb.i] = None

LEMMA CalmMarked == ASSUME TypeOK, Marked, Calm PROVE Marked'
<1>1. loc.usb.i \in Interfaces
  BY Reads, Contexts
<1>2. QED
  BY <1>1 DEF Calm, Worse, UsbCalm, Special, Marked

\* What the remaining steps leave of an interface.
LEMMA FlagsMarked ==
    ASSUME NEW f \in Iface, f.unc => f.safety, NEW g,
           \/ g = Cleared \/ g = NeverSafe(f) \/ g = [NeverSafe(f) EXCEPT !.held = FALSE]
           \/ g = [f EXCEPT !.slot = "empty", !.safety = @ \/ Doubtful(f), !.flight = None]
    PROVE  g.unc => g.safety
<1>1. CASE g = Cleared
  BY <1>1 DEF Cleared
<1>2. CASE g = NeverSafe(f)
  BY <1>2 DEF NeverSafe, Iface
<1>3. CASE g = [NeverSafe(f) EXCEPT !.held = FALSE]
  <2>1. NeverSafe(f) \in Iface
    BY IfaceTypes
  <2>3. NeverSafe(f).safety
    BY DEF NeverSafe, Iface
  <2>2. QED
    BY <1>3, <2>1, <2>3 DEF Iface
<1>4. CASE g = [f EXCEPT !.slot = "empty", !.safety = @ \/ Doubtful(f), !.flight = None]
  BY <1>4 DEF Doubtful, Iface
<1>5. QED
  BY <1>1, <1>2, <1>3, <1>4

LEMMA PassMarked ==
    ASSUME TypeOK, TypeOK', Held, Marked, PassStep
    PROVE  Marked'
<1>1. CASE \/ SofStart \/ SofTake \/ SofMark \/ TicketNone \/ (\E i \in Interfaces : TicketClaim(i))
           \/ (\E i \in Interfaces : TicketTerminal(i)) \/ SafetyNone \/ Settle \/ SettleAgain
  BY <1>1, PassCalm, CalmMarked
<1>2. ASSUME NEW i \in Interfaces, TicketCheck(i) PROVE Marked'
  <2>1. CASE pc'.usb = "submit"
    BY <1>2, <2>1 DEF TicketCheck, Marked
  <2>2. QED
    BY <1>2, <2>1, WalkCalm, CalmMarked
<1>3. ASSUME NEW i \in Interfaces, TicketSubmit(i) PROVE Marked'
  <2>1. CASE pc'.usb = "terminal"
    <3>1. \A j \in Interfaces : iface'[j].unc = iface[j].unc /\ iface'[j].safety = iface[j].safety
      BY <1>3, Reads DEF TicketSubmit, TypeOK, IfaceOK, Iface
    <3>2. QED
      BY <2>1, <3>1 DEF Marked
  <2>2. QED
    BY <1>3, <2>1, WalkCalm, CalmMarked
<1>4. ASSUME NEW i \in Interfaces, SafetyQueue(i) PROVE Marked'
  <2>1. CASE pc'.usb = "slotClaim"
    <3>1. \A j \in Interfaces : iface'[j].unc = iface[j].unc /\ iface'[j].safety = iface[j].safety
      BY <1>4, Reads DEF SafetyQueue, TypeOK, IfaceOK, Iface
    <3>2. QED
      BY <2>1, <3>1 DEF Marked
  <2>2. QED
    BY <1>4, <2>1, WalkCalm, CalmMarked
<1>5. ASSUME NEW i \in Interfaces, SafetyClaim(i) PROVE Marked'
  <2>1. CASE pc'.usb = "slotSubmit"
    <3>1. \A j \in Interfaces : iface'[j].unc = iface[j].unc /\ iface'[j].safety = iface[j].safety
      BY <1>5, Reads DEF SafetyClaim, TypeOK, IfaceOK, Iface
    <3>2. QED
      BY <2>1, <3>1 DEF Marked
  <2>2. QED
    BY <1>5, <2>1, WalkCalm, CalmMarked
<1>6. ASSUME NEW i \in Interfaces, SafetySubmit(i) PROVE Marked'
  <2>1. CASE wire' # wire
    <3>1. \A j \in Interfaces : iface'[j].unc = iface[j].unc /\ iface'[j].safety = iface[j].safety
      BY <1>6, Reads DEF SafetySubmit, TypeOK, IfaceOK, Iface
    <3>2. pc'.usb \in {"settle", "idle"}
      BY <1>6, <2>1, Contexts DEF SafetySubmit, Goto, AfterSlots, TypeOK, PcOK
    <3>3. QED
      BY <3>1, <3>2 DEF Marked
  <2>2. QED
    BY <1>6, <2>1, WalkCalm, CalmMarked
<1>7. QED
  BY <1>1, <1>2, <1>3, <1>4, <1>5, <1>6 DEF PassStep

LEMMA CallbackMarked ==
    ASSUME TypeOK, TypeOK', Held, Marked, CallbackStep
    PROVE  Marked'
<1>0. \A i \in Interfaces : iface[i] \in Iface /\ (iface[i].unc => iface[i].safety)
  BY Reads DEF Marked
<1>1. CASE UnmountClear \/ Suspend \/ SuspendKeep \/ SuspendBits \/ Resume
  BY <1>1, CallbackCalm, CalmMarked
<1>2. ASSUME NEW i \in Interfaces, Complete(i) PROVE Marked'
  <2>1. \A j \in Interfaces : iface'[j].unc => iface'[j].safety
    <3>1. CASE OwnFlight(i)
      BY <1>0, <1>2, <3>1 DEF Complete, TypeOK, IfaceOK, Iface
    <3>2. CASE ~OwnFlight(i)
      BY <1>0, <1>2, <3>2 DEF Complete
    <3>3. QED
      BY <3>1, <3>2
  <2>2. pc'.usb # "failed"
    BY <1>2, Contexts DEF Complete, TypeOK, PcOK
  <2>3. QED
    BY <2>1, <2>2 DEF Marked
<1>3. ASSUME NEW i \in Interfaces, Fail(i) PROVE Marked'
  <2>1. \A j \in Interfaces : iface'[j].unc => iface'[j].safety
    <3>1. CASE OwnFlight(i)
      BY <1>0, <1>3, <3>1 DEF Fail, TypeOK, IfaceOK, Iface
    <3>2. CASE ~OwnFlight(i)
      BY <1>0, <1>3, <3>2 DEF Fail
    <3>3. QED
      BY <3>1, <3>2
  <2>2. pc'.usb = "failed" => wire'[loc'.usb.i] = None
    <3>1. CASE OwnFlight(i)
      <4>1. loc' = [loc EXCEPT !.usb = [NoLocals EXCEPT !.i = i]] /\ wire' = [wire EXCEPT ![i] = None]
        BY <1>3, <3>1 DEF Fail, Keep, Take
      <4>2. QED
        BY <4>1, Contexts DEF NoLocals, TypeOK, LocOK, BusOK
    <3>2. CASE ~OwnFlight(i)
      BY <1>3, <3>2 DEF Fail
    <3>3. QED
      BY <3>1, <3>2
  <2>3. QED
    BY <2>1, <2>2 DEF Marked
<1>4. CASE CompleteClear \/ FailClear
  <2>1. \A j \in Interfaces : iface'[j].unc = iface[j].unc /\ iface'[j].safety = iface[j].safety
    BY <1>4, Reads DEF CompleteClear, FailClear, TypeOK, IfaceOK, Iface
  <2>2. pc'.usb # "failed"
    BY <1>4, Contexts DEF CompleteClear, FailClear, At, TypeOK, PcOK
  <2>3. QED
    BY <2>1, <2>2 DEF Marked
<1>5. CASE CompleteConfirm \/ Unmount \/ UnmountHidden \/ Mount \/ MountClear
  <2>1. iface' = iface
    BY <1>5 DEF CompleteConfirm, Unmount, UnmountHidden, Mount, MountClear
  <2>2. pc'.usb # "failed"
    BY <1>5, Contexts
      DEF CompleteConfirm, Unmount, UnmountHidden, Mount, MountClear, At, TypeOK, PcOK
  <2>3. QED
    BY <2>1, <2>2 DEF Marked
<1>6. CASE UnmountKeep
  <2>1. \A j \in Interfaces : iface'[j] = [NeverSafe(iface[j]) EXCEPT !.held = FALSE] \/ iface'[j] = Cleared
    BY <1>6 DEF UnmountKeep
  <2>2. pc'.usb # "failed"
    BY <1>6, Contexts DEF UnmountKeep, At, TypeOK, PcOK
  <2>3. \A j \in Interfaces : iface'[j].unc => iface'[j].safety
    BY <1>0, <2>1, FlagsMarked
  <2>4. QED
    BY <2>2, <2>3 DEF Marked
<1>7. CASE MountKeep
  <2>1. \A j \in Interfaces : \/ iface'[j] = [NeverSafe(iface[j]) EXCEPT !.held = FALSE] \/ iface'[j] = Cleared
                              \/ iface'[j] = [iface[j] EXCEPT !.slot = "empty",
                                    !.safety = @ \/ Doubtful(iface[j]), !.flight = None]
    BY <1>7 DEF MountKeep
  <2>2. pc'.usb # "failed"
    BY <1>7, Contexts DEF MountKeep, At, TypeOK, PcOK
  <2>3. \A j \in Interfaces : iface'[j].unc => iface'[j].safety
    BY <1>0, <2>1, FlagsMarked
  <2>4. QED
    BY <2>2, <2>3 DEF Marked
<1>8. QED
  BY <1>1, <1>2, <1>3, <1>4, <1>5, <1>6, <1>7 DEF CallbackStep

LEMMA ExecutorMarked ==
    ASSUME TypeOK, TypeOK', Held, Marked, ExecutorStep
    PROVE  Marked'
<1>0. \A i \in Interfaces : iface[i] \in Iface /\ (iface[i].unc => iface[i].safety)
  BY Reads DEF Marked
<1>1. CASE \/ Stall \/ StallKeep \/ StallBits \/ RouteOvertaken \/ DoubtFlags \/ DoubtWord
           \/ RouteDone
  BY <1>1, ExecutorCalm, CalmMarked
<1>2. ASSUME NEW action \in {"detach", "route"}, SafetyBegin(action) PROVE Marked'
  <2>1. \A j \in Interfaces : iface'[j].unc => iface'[j].safety
    BY <1>0, <1>2 DEF SafetyBegin, Iface
  <2>2. QED
    BY <1>2, <2>1, ExecutorFrame DEF ExecutorStep, ByExecutor, SafetyBegin, env, Marked
<1>3. CASE Await \/ AwaitTimeout \/ UninstallClear
  <2>1. iface' = iface /\ wire' = wire
    BY <1>3 DEF Await, AwaitTimeout, UninstallClear, shared, env
  <2>2. QED
    BY <1>3, <2>1, ExecutorFrame DEF ExecutorStep, ByExecutor, Marked
<1>4. CASE Uninstall
  <2>1. \A j \in Interfaces : iface'[j] = [NeverSafe(iface[j]) EXCEPT !.held = FALSE] \/ iface'[j] = Cleared
    BY <1>4 DEF Uninstall
  <2>2. pc'.usb # "failed"
    BY <1>4, ExecutorFrame DEF ExecutorStep, ByExecutor, Uninstall
  <2>3. \A j \in Interfaces : iface'[j].unc => iface'[j].safety
    BY <1>0, <2>1, FlagsMarked
  <2>4. QED
    BY <2>2, <2>3 DEF Marked
<1>5. QED
  BY <1>1, <1>2, <1>3, <1>4 DEF ExecutorStep

LEMMA MarkedStep ==
    ASSUME TypeOK, TypeOK', Held, Marked, [Next]_vars
    PROVE  Marked'
<1>1. CASE Next
  <2>1. ASSUME NEW p \in Producers, ProducerStep(p) PROVE Marked'
    BY <2>1, ProducerCalm, CalmMarked
  <2>2. ASSUME NEW k \in {"control", "usb", "executor"}, RequestStep(k) PROVE Marked'
    BY <2>2, RequestCalm, CalmMarked
  <2>3. CASE ControlStep
    BY <2>3, ControlCalm, CalmMarked
  <2>4. QED
    BY <1>1, <2>1, <2>2, <2>3, Steps, PassMarked, CallbackMarked, ExecutorMarked
<1>2. CASE UNCHANGED vars
  BY <1>2 DEF vars, shared, env, Marked
<1>3. QED
  BY <1>1, <1>2

-----------------------------------------------------------------------------
(* What a transaction that is open may count on.                           *)

\* The control task has looked at the interface; the TinyUSB task is about to
\* send a report on it; an all-up of the transaction's own is on the wire.
Scanned(i) == pc.control \in {"open", "poll"} \/ (i = "keyboard" /\ loc.control.i = "mouse")
Sending(i) == pc.usb = "submit" /\ loc.usb.i = i
Carries(i) ==
  LET f == iface[i].flight IN
  /\ wire[i] # None /\ ~wire[i].held
  /\ f # None /\ f.kind = "safety" /\ f.rid = release.id /\ release.id # 0
  /\ <<f.cut[1], f.cut[2]>> = release.cut /\ f.rel = release.rel

\* Half-way through a lifecycle event that takes the marks of what is in flight.
Marking == {"suspendKeep", "unmountKeep", "mountKeep"}

\* It is open under one authority, and only while the control task is at it.
Asked ==
  Open => /\ release.cut = <<link.gen, auth>>
          /\ release.st = "admitting" => pc.control \in {"scanTicket", "scanFlags", "open"}
          /\ release.st = "open" => pc.control = "poll"

\* No report begins to leave between the two looks at an interface, nor on one
\* that was found all-up, or got its all-up; what may still be held after that is
\* owed an all-up.
Seen == Open /\ pc.control = "scanFlags" /\ loc.control.ok => ~Sending(loc.control.i)
Up(i) == Open /\ release.out[i] = "alreadyUp" => ~Presses(i) /\ ~Sending(i)
Out(i) ==
  Open /\ release.out[i] = "submitted" =>
    /\ ~Sending(i) /\ ~iface[i].held /\ pc.usb \notin Marking
    /\ Scanned(i) => ~Presses(i) \/ Carries(i) \/ iface[i].safety

\* A detach that is under way leaves nothing to be sent, and a route that is
\* released leaves what may be held with a debt.
Going(i) ==
  Open /\ link.at = "detaching" /\ Scanned(i) => release.out[i] \in {"alreadyUp", "pending"}
Indebted(i) == pc.queue = "route" /\ (Presses(i) \/ Sending(i)) => iface[i].safety
Withheld(i) ==
  pc.queue = "route" /\ Open /\ Scanned(i) /\ release.out[i] # "pending"
    => ~Presses(i) /\ ~Sending(i)

Sound(i) == Up(i) /\ Out(i) /\ Going(i) /\ Indebted(i) /\ Withheld(i)
Releasing == Asked /\ Seen /\ \A i \in Interfaces : Sound(i)

\* A step opens no transaction, and leaves an open one and the control task where
\* they are.
Steady ==
  /\ Open' => /\ Open /\ release' = release
              /\ pc'.control = pc.control /\ loc'.control = loc.control
              /\ link'.gen = link.gen /\ auth' = auth
              /\ link'.at = "detaching" => link.at = "detaching"
              /\ pc'.usb \in Marking => pc.usb \in Marking
  /\ pc'.queue = "route" => pc.queue = "route"

\* Nothing more is held, or about to be; a debt goes when nothing is held; an
\* all-up of the transaction's own stays on the wire until it has arrived, or
\* leaves a debt.
Mild(i) ==
  /\ Presses(i)' => Presses(i)
  /\ Sending(i)' => Sending(i)
  /\ pc'.queue = "route" /\ (Presses(i)' \/ Sending(i)') /\ iface[i].safety => iface'[i].safety
  /\ Open' /\ release.out[i] = "submitted" =>
       /\ iface'[i].held => iface[i].held
       /\ Scanned(i) /\ (Carries(i) \/ iface[i].safety)
            => Carries(i)' \/ ~Presses(i)' \/ iface'[i].safety

LEMMA MildKeeps ==
    ASSUME TypeOK, Releasing, Steady, \A i \in Interfaces : Mild(i)
    PROVE  Releasing'
<1>1. Asked'
  BY DEF Releasing, Asked, Steady, Open
<1>2. Seen'
  <2>1. Open' => Open /\ pc'.control = pc.control /\ loc'.control = loc.control
    BY DEF Steady
  <2>2. loc.control.i \in Interfaces
    BY Reads, Contexts
  <2>3. QED
    BY <2>1, <2>2 DEF Releasing, Seen, Mild
<1>3. ASSUME NEW i \in Interfaces PROVE Sound(i)'
  <2>1. Open' => Open /\ release' = release /\ (Scanned(i)' => Scanned(i))
    BY DEF Steady, Scanned
  <2>2. Sound(i)
    BY DEF Releasing
  <2>3. Up(i)' /\ Withheld(i)' /\ Going(i)' /\ Indebted(i)'
    BY <1>3, <2>1, <2>2 DEF Sound, Up, Withheld, Going, Indebted, Mild, Steady
  <2>4. Out(i)'
    BY <1>3, <2>1, <2>2 DEF Sound, Out, Mild, Steady
  <2>5. QED
    BY <2>3, <2>4 DEF Sound
<1>4. QED
  BY <1>1, <1>2, <1>3 DEF Releasing

\* Most steps leave the wire and what is known of it.
Still ==
  /\ wire' = wire /\ host' = host
  /\ \A i \in Interfaces : /\ iface'[i].held = iface[i].held /\ iface'[i].flight = iface[i].flight
                           /\ iface[i].safety => iface'[i].safety
  /\ pc'.usb = "submit" => pc.usb = "submit" /\ loc'.usb = loc.usb

LEMMA StillKeeps ==
    ASSUME TypeOK, Releasing, Steady, Still
    PROVE  Releasing'
<1>1. ASSUME NEW i \in Interfaces PROVE Mild(i)
  <2>1. (Presses(i)' <=> Presses(i)) /\ (Sending(i)' => Sending(i))
    BY DEF Still, Presses, Sending
  <2>2. Open' /\ Carries(i) => Carries(i)'
    BY <1>1 DEF Still, Steady, Carries
  <2>3. QED
    BY <1>1, <2>1, <2>2 DEF Mild, Still
<1>2. QED
  BY <1>1, MildKeeps

\* A report's way through its producer, and a release request.
LEMMA ProducerReleasing ==
    ASSUME TypeOK, Releasing, NEW p \in Producers, ProducerStep(p)
    PROVE  Releasing'
<1>1. /\ ByProducer(p)
      /\ auth' = auth /\ link' = link /\ iface' = iface
      /\ release' = release /\ wire' = wire /\ host' = host
  BY ProducerFrame
<1>2. Open' => Open /\ pc.control \notin Producing \union {"idle"}
  BY <1>1 DEF Open, Releasing, Asked, Producing
<1>3. Steady
  BY <1>1, <1>2 DEF Steady, ByProducer
<1>4. Still
  BY <1>1 DEF Still, ByProducer
<1>5. QED
  BY <1>3, <1>4, StillKeeps

LEMMA RequestReleasing ==
    ASSUME TypeOK, Releasing, NEW k \in {"control", "usb", "executor"}, RequestStep(k)
    PROVE  Releasing'
<1>1. /\ ByRequest(k)
      /\ auth' = auth /\ link'.gen = link.gen /\ link'.at = link.at
      /\ iface' = iface /\ wire' = wire /\ host' = host
      /\ Open' => Open /\ release' = release
  BY RequestFrame
<1>2. Open' => Open /\ pc.control \notin Requesting
  BY <1>1 DEF Open, Releasing, Asked, Requesting
<1>3. Steady
  BY <1>1, <1>2 DEF Steady, ByRequest, Requesting, Marking
<1>4. Still
  BY <1>1 DEF Still, ByRequest, Requesting
<1>5. QED
  BY <1>3, <1>4, StillKeeps

\* With no transaction open, only the debts of a route release are at stake.
LEMMA ClosedKeeps ==
    ASSUME ~Open',
           \A i \in Interfaces : pc'.queue = "route" /\ (Presses(i)' \/ Sending(i)') =>
             iface'[i].safety
    PROVE  Releasing'
BY DEF Releasing, Asked, Seen, Sound, Up, Out, Going, Indebted, Withheld

LEMMA CancelCloses == ASSUME CancelRelease PROVE ~Open'
BY DEF CancelRelease, Open

-----------------------------------------------------------------------------
(* The control task.                                                       *)

\* It leaves the TinyUSB task and the wire alone, and takes no debt away.
LEMMA ControlSpares ==
    ASSUME TypeOK, TypeOK', Held, ControlStep
    PROVE  /\ \A i \in Interfaces : /\ Presses(i)' <=> Presses(i)
                                    /\ Sending(i)' <=> Sending(i)
                                    /\ iface[i].safety => iface'[i].safety
           /\ wire' = wire /\ host' = host /\ pc'.usb = pc.usb /\ loc'.usb = loc.usb
<1>1. wire' = wire /\ host' = host /\ pc'.usb = pc.usb /\ loc'.usb = loc.usb
  BY ControlFrame DEF ByControl
<1>2. \A i \in Interfaces : iface[i].safety => iface'[i].safety
  BY ControlCalm DEF Calm, Worse
<1>3. QED
  BY <1>1, <1>2 DEF Presses, Sending

\* Most of what it does, it does with no transaction open.
LEMMA ElsewhereReleasing ==
    ASSUME TypeOK, TypeOK', Held, Releasing, ControlStep,
           \/ SequenceClaim \/ SequenceAdmit \/ RequestRelease \/ PublicRelease \/ ReleaseFinish
           \/ DetachAccept \/ DetachRetire \/ DetachKeep \/ Attach \/ RouteUsb \/ RouteCommit
           \/ RouteNone \/ NoneRetire
    PROVE  Releasing'
<1>1. ~Open'
  <2>1. CASE \/ SequenceClaim \/ SequenceAdmit \/ RequestRelease \/ PublicRelease
             \/ DetachAccept \/ DetachKeep \/ RouteCommit \/ RouteNone
    <3>1. release' = release /\ pc.control \notin {"scanTicket", "scanFlags", "open", "poll"}
      BY <2>1 DEF SequenceClaim, SequenceAdmit, RequestRelease, PublicRelease, DetachAccept,
           DetachKeep, RouteCommit, RouteNone, At, shared
    <3>2. QED
      BY <3>1 DEF Open, Releasing, Asked
  <2>2. CASE DetachRetire \/ Attach \/ RouteUsb \/ NoneRetire
    BY <2>2, CancelCloses DEF DetachRetire, Attach, RouteUsb, NoneRetire, RetireAuthority, CancelWork
  <2>3. CASE ReleaseFinish
    <3>1. release.st # "admitting"
      BY <2>3 DEF Releasing, Asked, Open, ReleaseFinish, At
    <3>2. QED
      BY <2>3, <3>1 DEF ReleaseFinish, Open, TypeOK, ReleaseOK, Release
  <2>4. QED
    BY <2>1, <2>2, <2>3
<1>2. pc'.queue = "route" => pc.queue = "route"
  <2>1. CASE DetachAccept
    BY <2>1, Contexts DEF DetachAccept, TypeOK, PcOK
  <2>2. CASE Attach
    BY <2>2 DEF Attach
  <2>3. CASE ~DetachAccept /\ ~Attach
    <3>1. \E to : pc' = [pc EXCEPT !.control = to]
      BY <2>3 DEF SequenceClaim, SequenceAdmit, RequestRelease, PublicRelease, ReleaseFinish,
           DetachRetire, DetachKeep, RouteUsb, RouteCommit, RouteNone, NoneRetire, At
    <3>2. QED
      BY <3>1, Contexts DEF TypeOK, PcOK
  <2>4. QED
    BY <2>1, <2>2, <2>3
<1>3. QED
  BY <1>1, <1>2, ClosedKeeps, ControlSpares DEF Releasing, Sound, Indebted

\* The end of a sequence, and the last look but one.
LEMMA AsideReleasing ==
    ASSUME TypeOK, TypeOK', Held, Releasing, ControlStep, EndSequence
    PROVE  Releasing'
<1>1. /\ pc' = pc /\ release' = release /\ auth' = auth /\ link' = link /\ iface' = iface
      /\ loc'.control = loc.control
  BY Contexts DEF EndSequence, Keep, TypeOK, LocOK
<1>2. Steady /\ Still
  BY <1>1, ControlSpares DEF Steady, Still, Open
<1>3. QED
  BY <1>2, StillKeeps

LEMMA NoneKeepReleasing ==
    ASSUME TypeOK, TypeOK', Ledger, Held, Releasing, ControlStep, NoneKeep
    PROVE  Releasing'
<1>1. ~Open'
  BY DEF NoneKeep, Open, Releasing, Asked
<1>2. ASSUME NEW i \in Interfaces, pc'.queue = "route", Presses(i) \/ Sending(i)
      PROVE  iface'[i].safety
  <2>1. ~KnownAllUp(i)
    <3>1. CASE Presses(i)
      BY <3>1 DEF Held, Owed, Doubtful, KnownAllUp, FlagsUp
    <3>2. CASE Sending(i)
      BY <3>2 DEF Sending, Ledger, Claimed, Claiming, Active, KnownAllUp
    <3>3. QED
      BY <1>2, <3>1, <3>2
  <2>2. iface'[i] = Staged(iface[i], TRUE)
    BY <2>1 DEF NoneKeep
  <2>3. QED
    BY <2>2, Reads DEF Staged, Iface
<1>3. QED
  BY <1>1, <1>2, ClosedKeeps, ControlSpares

\* A transaction begins: nothing has been looked at.
LEMMA AdmitReleasing ==
    ASSUME TypeOK, TypeOK', Held, Releasing, ControlStep, ReleaseAdmit
    PROVE  Releasing'
<1>1. /\ release'.cut = <<link'.gen, auth'>> /\ release'.st = "admitting"
      /\ \A i \in Interfaces : release'.out[i] = "unresolved"
      /\ pc'.control = "scanTicket" /\ loc'.control.i = "keyboard" /\ pc'.queue = pc.queue
  BY Contexts DEF ReleaseAdmit, At, Keep, NoLocals, TypeOK, PcOK, LocOK
<1>2. \A i \in Interfaces : ~Scanned(i)'
  BY <1>1 DEF Scanned
<1>3. Asked' /\ Seen'
  BY <1>1 DEF Asked, Seen
<1>4. ASSUME NEW i \in Interfaces PROVE Sound(i)'
  <2>1. Up(i)' /\ Out(i)' /\ Going(i)' /\ Withheld(i)'
    BY <1>1, <1>2, <1>4 DEF Up, Out, Going, Withheld
  <2>2. Indebted(i)'
    BY <1>1, <1>4, ControlSpares DEF Indebted, Releasing, Sound
  <2>3. QED
    BY <2>1, <2>2 DEF Sound
<1>5. QED
  BY <1>3, <1>4 DEF Releasing

\* A report that is on its way has its ticket.
LEMMA ScanTicketReleasing ==
    ASSUME TypeOK, TypeOK', Ledger, Held, Releasing, ControlStep, ScanTicket
    PROVE  Releasing'
<1>1. /\ pc.control = "scanTicket" /\ pc'.control = "scanFlags" /\ pc'.queue = pc.queue
      /\ loc'.control.i = loc.control.i
      /\ loc'.control.ok = (ticket[loc.control.i].st \notin Active)
      /\ release' = release /\ auth' = auth /\ link' = link /\ iface' = iface
  <2>1. loc.control \in Local
    BY Reads, Contexts
  <2>2. QED
    BY <2>1, Contexts DEF ScanTicket, At, Keep, shared, Local, TypeOK, PcOK, LocOK
<1>2. \A i \in Interfaces : Scanned(i)' <=> Scanned(i)
  BY <1>1 DEF Scanned
<1>3. Asked'
  BY <1>1 DEF Asked, Open, Releasing
<1>4. Seen'
  BY <1>1, ControlSpares DEF Seen, Sending, Ledger, Claimed, Claiming, Active
<1>5. ASSUME NEW i \in Interfaces PROVE Sound(i)'
  <2>1. /\ (Presses(i)' <=> Presses(i)) /\ (Sending(i)' <=> Sending(i))
        /\ (Carries(i)' <=> Carries(i)) /\ (Open' <=> Open)
    BY <1>1, <1>5, ControlSpares DEF Carries, Open
  <2>2. Sound(i)
    BY <1>5 DEF Releasing
  <2>3. QED
    BY <1>1, <1>2, <1>5, <2>1, <2>2, ControlSpares DEF Sound, Up, Out, Going, Indebted, Withheld
<1>6. QED
  BY <1>3, <1>4, <1>5 DEF Releasing

LEMMA OpenReleasing ==
    ASSUME TypeOK, TypeOK', Held, Releasing, ControlStep, ReleaseOpen
    PROVE  Releasing'
<1>1. /\ pc.control = "open" /\ pc'.control = "poll" /\ pc'.queue = pc.queue
      /\ loc' = loc /\ auth' = auth /\ link' = link /\ iface' = iface
  BY Contexts DEF ReleaseOpen, At, TypeOK, PcOK
<1>2. /\ release'.out = release.out /\ release'.id = release.id /\ release'.cut = release.cut
      /\ release'.rel = release.rel /\ release'.st # "admitting"
      /\ Open' => Open
  BY DEF ReleaseOpen, Open, TypeOK, ReleaseOK, Release
<1>3. \A i \in Interfaces : Scanned(i)' <=> Scanned(i)
  BY <1>1 DEF Scanned
<1>4. Asked' /\ Seen'
  BY <1>1, <1>2 DEF Asked, Seen, Open, Releasing
<1>5. ASSUME NEW i \in Interfaces PROVE Sound(i)'
  <2>1. /\ (Presses(i)' <=> Presses(i)) /\ (Sending(i)' <=> Sending(i))
        /\ (Carries(i)' <=> Carries(i))
    BY <1>1, <1>2, <1>5, ControlSpares DEF Carries
  <2>2. Sound(i)
    BY <1>5 DEF Releasing
  <2>3. QED
    BY <1>1, <1>2, <1>3, <1>5, <2>1, <2>2, ControlSpares DEF Sound, Up, Out, Going, Indebted, Withheld
<1>6. QED
  BY <1>4, <1>5 DEF Releasing

\* Both looks are done: what is found all-up is, and what is left for its all-up
\* owes nothing that is not on the wire.
LEMMA ScanFlagsReleasing ==
    ASSUME TypeOK, TypeOK', Held, Marked, Releasing, ControlStep, ScanFlags
    PROVE  Releasing'
<1> DEFINE at == loc.control.i
           up == loc.control.ok /\ FlagsUp(at)
           idle == /\ ~iface[at].safety /\ iface[at].flight = None /\ MountedAndActive(at)
<1>0. at \in Interfaces /\ Sound(at)
  BY Reads, Contexts DEF Releasing
<1>1. /\ pc.control = "scanFlags" /\ pc'.control \in {"scanTicket", "open"} /\ pc'.queue = pc.queue
      /\ auth' = auth /\ link' = link
      /\ \A i \in Interfaces : iface'[i].held = iface[i].held /\ iface'[i].flight = iface[i].flight
  <2>1. /\ pc' = [pc EXCEPT !.control = "scanTicket"] \/ pc' = [pc EXCEPT !.control = "open"]
        /\ pc.control = "scanFlags" /\ auth' = auth /\ link' = link
    BY DEF ScanFlags
  <2>2. \/ iface' = iface
        \/ \E i \in Interfaces, b \in BOOLEAN :
             iface' = [iface EXCEPT ![i].safety = iface[i].safety \/ b]
    BY Reads, Contexts DEF ScanFlags
  <2>3. \A i \in Interfaces : iface'[i].held = iface[i].held /\ iface'[i].flight = iface[i].flight
    BY <2>2, Reads DEF TypeOK, IfaceOK, Iface
  <2>4. QED
    BY <2>1, <2>3, Contexts DEF TypeOK, PcOK
<1>2. CASE release.st # "admitting"
  <2>1. ~Open'
    BY <1>1, <1>2 DEF ScanFlags, Open, Releasing, Asked
  <2>2. QED
    BY <1>1, <2>1, ClosedKeeps, ControlSpares DEF Releasing, Sound, Indebted
<1>3. CASE release.st = "admitting"
  <2>1. /\ release'.st = "admitting" /\ release'.cut = release.cut
        /\ release'.id = release.id /\ release'.rel = release.rel
        /\ \A i \in Interfaces : i # at => release'.out[i] = release.out[i]
        /\ \/ up /\ release'.out[at] = "alreadyUp"
           \/ ~up /\ release'.out[at] = "pending"
           \/ ~up /\ idle /\ release'.out[at] = release.out[at]
    <3>1. \E o \in {"alreadyUp", "pending", release.out[at]} :
            /\ release' = [release EXCEPT !.out[at] = o]
            /\ \/ up /\ o = "alreadyUp"
               \/ ~up /\ o = "pending"
               \/ ~up /\ idle /\ o = release.out[at]
      BY <1>3 DEF ScanFlags
    <3>2. QED
      BY <1>0, <1>3, <3>1 DEF TypeOK, ReleaseOK, Release
  <2>2. \A i \in Interfaces : Scanned(i)' => i = at \/ Scanned(i)
    <3>1. CASE at = "keyboard"
      <4>1. loc'.control.i = "mouse" /\ pc'.control = "scanTicket"
        BY <3>1, Contexts DEF ScanFlags, Keep, NoLocals, TypeOK, PcOK, LocOK
      <4>2. QED
        BY <3>1, <4>1 DEF Scanned
    <3>2. CASE at = "mouse"
      BY <3>2 DEF Scanned, Interfaces
    <3>3. QED
      BY <1>0, <3>1, <3>2 DEF Interfaces
  <2>3. up => ~Presses(at) /\ ~Sending(at)
    BY <1>0, <1>1, <1>3 DEF Held, Owed, Doubtful, FlagsUp, Releasing, Seen, Open
  <2>4. idle => /\ ~iface[at].held => ~Presses(at)
                /\ link.at # "detaching"
    BY <1>0 DEF Held, Owed, Doubtful, Marked, MountedAndActive
  <2>5. Asked' /\ Seen'
    BY <1>1, <1>3, <2>1 DEF Asked, Seen, Open, Releasing
  <2>6. ASSUME NEW i \in Interfaces PROVE Sound(i)'
    <3>1. /\ (Presses(i)' <=> Presses(i)) /\ (Sending(i)' <=> Sending(i))
          /\ (Carries(i)' <=> Carries(i)) /\ Open /\ Open'
      BY <1>1, <1>3, <2>1, <2>6, ControlSpares DEF Carries, Open
    <3>2. Sound(i)
      BY <2>6 DEF Releasing
    <3>3. Up(i)'
      BY <2>1, <2>3, <2>6, <3>1, <3>2 DEF Sound, Up
    <3>4. Out(i)'
      BY <1>0, <1>1, <2>1, <2>2, <2>4, <2>6, <3>1, <3>2, ControlSpares DEF Sound, Out
    <3>5. Going(i)' /\ Indebted(i)'
      BY <1>1, <2>1, <2>2, <2>4, <2>6, <3>1, <3>2, ControlSpares DEF Sound, Going, Indebted
    <3>6. Withheld(i)'
      <4>1. Withheld(i)
        BY <3>2 DEF Sound
      <4>2. pc.queue = "route" /\ idle => ~Presses(at) /\ ~Sending(at)
        BY <1>0 DEF Sound, Indebted
      <4>3. QED
        BY <1>1, <2>1, <2>2, <2>3, <2>6, <3>1, <4>1, <4>2 DEF Withheld
    <3>7. QED
      BY <3>3, <3>4, <3>5, <3>6 DEF Sound
  <2>7. QED
    BY <2>5, <2>6 DEF Releasing
<1>4. QED
  BY <1>2, <1>3

LEMMA ControlReleasing ==
    ASSUME TypeOK, TypeOK', Ledger, Held, Marked, Releasing, ControlStep
    PROVE  Releasing'
BY ElsewhereReleasing, AsideReleasing, NoneKeepReleasing, AdmitReleasing, ScanTicketReleasing,
   OpenReleasing, ScanFlagsReleasing DEF ControlStep

-----------------------------------------------------------------------------
(* A start-of-frame pass.                                                  *)

LEMMA PassSteady ==
    ASSUME TypeOK, PassStep, pc'.usb \notin Marking, Open' => Open /\ release' = release
    PROVE  Steady
BY PassFrame DEF Steady, ByUsb

LEMMA NotePending ==
    ASSUME NEW i, NEW k, NoteOutcome(i, k, "pending")
    PROVE  /\ Open' => Open /\ release' = release
           /\ k.rid # 0 /\ release.id = k.rid /\ release.cut = <<k.cut[1], k.cut[2]>>
              /\ release.rel = k.rel => ~Open'
BY DEF NoteOutcome, Open

\* What is not a submission leaves wire and marks alone.
LEMMA WalkReleasing ==
    ASSUME TypeOK, Releasing, PassStep,
           wire' = wire, pc'.usb \notin Marking \union {"submit"}, host' = host,
           Open' => Open /\ release' = release,
           \A i \in Interfaces :
             /\ iface'[i].held = iface[i].held /\ iface'[i].flight = iface[i].flight
             /\ iface[i].safety => iface'[i].safety
    PROVE  Releasing'
BY PassSteady, StillKeeps DEF Still

LEMMA FrameReleasing ==
    ASSUME TypeOK, TypeOK', Releasing, PassStep,
           \/ SofStart \/ SofTake \/ SofMark \/ TicketNone \/ (\E i \in Interfaces : TicketClaim(i))
           \/ (\E i \in Interfaces : TicketTerminal(i)) \/ SafetyNone \/ Settle \/ SettleAgain
    PROVE  Releasing'
<1>1. release' = release /\ wire' = wire /\ host' = host
  BY DEF SofStart, SofTake, SofMark, TicketNone, TicketClaim, TicketTerminal, SafetyNone, Settle,
       SettleAgain, shared, env
<1>2. pc'.usb \notin Marking \union {"submit"}
  <2>1. \E to \in {"take", "mark", "ticket", "check", "slot", "settle", "settleAgain", "idle"} :
          pc' = [pc EXCEPT !.usb = to]
    BY DEF SofStart, SofTake, SofMark, TicketNone, TicketClaim, TicketTerminal, SafetyNone, Settle,
         SettleAgain, At, Goto, AfterSlots
  <2>2. QED
    BY <2>1, Contexts DEF Marking, TypeOK, PcOK
<1>3. \A i \in Interfaces : /\ iface'[i].held = iface[i].held /\ iface'[i].flight = iface[i].flight
                            /\ iface[i].safety => iface'[i].safety
  <2>1. CASE SofMark
    BY <2>1, Reads DEF SofMark, Iface
  <2>2. CASE ~SofMark
    BY <2>2 DEF SofStart, SofTake, TicketNone, TicketClaim, TicketTerminal, SafetyNone, Settle,
         SettleAgain, shared
  <2>3. QED
    BY <2>1, <2>2
<1>4. QED
  BY <1>1, <1>2, <1>3, WalkReleasing DEF Open

\* Refused, passed over, or not yet sent.
LEMMA RefusedReleasing ==
    ASSUME TypeOK, TypeOK', Releasing, PassStep, NEW i \in Interfaces,
           \/ TicketCheck(i) /\ pc'.usb # "submit"
           \/ TicketSubmit(i) /\ pc'.usb # "terminal"
           \/ SafetyQueue(i) \/ SafetyClaim(i)
           \/ SafetySubmit(i) /\ wire' = wire
    PROVE  Releasing'
<1>1. /\ wire' = wire /\ host' = host /\ (Open' => Open /\ release' = release)
      /\ iface' = iface \/ \E s : iface' = [iface EXCEPT ![i].slot = s]
      /\ \E to \in {"ticket", "slot", "settle", "idle", "slotClaim", "slotSubmit"} :
           pc' = [pc EXCEPT !.usb = to]
  <2>1. CASE TicketCheck(i) /\ pc'.usb # "submit"
    BY <2>1, Contexts DEF TicketCheck, NextTicket, Goto, TypeOK, PcOK, env, Open
  <2>2. CASE TicketSubmit(i) /\ pc'.usb # "terminal"
    BY <2>2, Contexts DEF TicketSubmit, NextTicket, Goto, TypeOK, PcOK, Open
  <2>3. CASE SafetyQueue(i)
    BY <2>3 DEF SafetyQueue, NextSlot, Goto, AfterSlots, env, Open
  <2>4. CASE SafetyClaim(i)
    BY <2>4 DEF SafetyClaim, NextSlot, Goto, AfterSlots, env, Open
  <2>5. CASE SafetySubmit(i) /\ wire' = wire
    <3>1. wire[i] = None => wire' # [wire EXCEPT ![i] = [kind |-> "safety", held |-> FALSE]]
      BY <2>5 DEF None, TypeOK, BusOK
    <3>2. /\ host' = host /\ iface' = [iface EXCEPT ![i].slot = "empty"] /\ NextSlot(i)
          /\ release' = release \/ \E k : NoteOutcome(i, k, "pending")
      BY <2>5, <3>1 DEF SafetySubmit
    <3>3. Open' => Open /\ release' = release
      BY <3>2, NotePending DEF Open
    <3>4. QED
      BY <2>5, <3>2, <3>3 DEF NextSlot, Goto, AfterSlots
  <2>6. QED
    BY <2>1, <2>2, <2>3, <2>4, <2>5
<1>2. pc'.usb \notin Marking \union {"submit"}
  BY <1>1, Contexts DEF Marking, TypeOK, PcOK
<1>3. \A j \in Interfaces : /\ iface'[j].held = iface[j].held /\ iface'[j].flight = iface[j].flight
                            /\ iface[j].safety => iface'[j].safety
  BY <1>1, Reads DEF TypeOK, IfaceOK, Iface
<1>4. QED
  BY <1>1, <1>2, <1>3, WalkReleasing

\* The last look before a report leaves: no transaction is open, and the route is
\* not being released.
LEMMA CheckReleasing ==
    ASSUME TypeOK, TypeOK', Routing, Releasing, PassStep, NEW i \in Interfaces,
           TicketCheck(i), pc'.usb = "submit"
    PROVE  Releasing'
<1>1. /\ ~Blocked /\ route.on = "usb" /\ release' = release
  BY Contexts DEF TicketCheck, NextTicket, Goto, Routed, TypeOK, PcOK
<1>2. ~Open' /\ pc'.queue # "route"
  BY <1>1, PassFrame DEF Blocked, ReleaseActive, Open, Routing, ByUsb
<1>3. QED
  BY <1>2, ClosedKeeps

\* It leaves: an interface that was looked at, or released, is not about to send.
LEMMA SubmitReleasing ==
    ASSUME TypeOK, TypeOK', Releasing, PassStep, NEW i \in Interfaces,
           TicketSubmit(i), pc'.usb = "terminal"
    PROVE  Releasing'
<1>1. /\ Sending(i) /\ release' = release /\ host' = host
      /\ \A j \in Interfaces : iface'[j].safety = iface[j].safety
      /\ \A j \in Interfaces : j # i => iface'[j] = iface[j] /\ wire'[j] = wire[j]
  <2> DEFINE k == loc.usb.k
             w == [kind |-> "unsafe", held |-> k.held]
             f == [kind |-> "unsafe", held |-> k.held, cut |-> k.cut, rel |-> k.rel, rid |-> 0]
  <2>1. pc'.usb # "terminal" \/ ~NextTicket(i)
    BY Contexts DEF NextTicket, Goto, TypeOK, PcOK
  <2>2. /\ Sending(i) /\ release' = release /\ host' = host
        /\ wire' = [wire EXCEPT ![i] = w]
        /\ iface' = [iface EXCEPT ![i].held = k.held, ![i].flight = f]
    BY <2>1 DEF TicketSubmit, Sending
  <2> HIDE DEF k, w, f
  <2>3. \A j \in Interfaces : j # i => iface'[j] = iface[j] /\ wire'[j] = wire[j]
    BY <2>2 DEF TypeOK, IfaceOK, BusOK
  <2>4. iface'[i].safety = iface[i].safety
    <3>1. iface'[i] = [iface[i] EXCEPT !.held = k.held, !.flight = f]
      BY <2>2 DEF TypeOK, IfaceOK
    <3>2. QED
      BY <3>1, Reads DEF Iface
  <2>5. QED
    BY <2>2, <2>3, <2>4
<1>2. /\ ByUsb /\ auth' = auth /\ link'.gen = link.gen /\ link'.at = link.at
  BY PassFrame
<1>3. /\ \A j \in Interfaces : ~Sending(j)' /\ (Scanned(j)' <=> Scanned(j))
      /\ Open' <=> Open
  BY <1>1, <1>2 DEF Sending, Scanned, ByUsb, Open
<1>4. Asked' /\ Seen'
  BY <1>1, <1>2, <1>3 DEF Asked, Seen, Open, Releasing, ByUsb, Sending
<1>5. ASSUME NEW j \in Interfaces PROVE Sound(j)'
  <2>1. Sound(j)
    BY <1>5 DEF Releasing
  <2>2. CASE j = i
    BY <1>1, <1>2, <1>3, <2>1, <2>2
       DEF Sound, Up, Out, Going, Indebted, Withheld, ByUsb
  <2>3. CASE j # i
    <3>1. (Presses(j)' <=> Presses(j)) /\ (Carries(j)' <=> Carries(j))
      BY <1>1, <1>5, <2>3 DEF Presses, Carries
    <3>2. QED
      BY <1>1, <1>2, <1>3, <1>5, <2>1, <2>3, <3>1
         DEF Sound, Up, Out, Going, Indebted, Withheld, ByUsb, Marking
  <2>4. QED
    BY <2>2, <2>3
<1>6. QED
  BY <1>4, <1>5 DEF Releasing

\* An all-up leaves; if it is the transaction's, it is noted as submitted.
LEMMA NoteSubmitted ==
    ASSUME ReleaseOK, NEW i \in Interfaces, NEW k, NoteOutcome(i, k, "submitted")
    PROVE  /\ release'.st = release.st /\ release'.cut = release.cut
           /\ release'.id = release.id /\ release'.rel = release.rel
           /\ \A j \in Interfaces : j # i => release'.out[j] = release.out[j]
           /\ \/ release'.out[i] = release.out[i]
              \/ /\ release.out[i] = "unresolved" /\ release'.out[i] = "submitted"
                 /\ k.rid # 0 /\ release.id = k.rid
                 /\ release.cut = <<k.cut[1], k.cut[2]>> /\ release.rel = k.rel
<1>1. \/ release' = release
      \/ /\ k.rid # 0 /\ release.id = k.rid /\ release.cut = <<k.cut[1], k.cut[2]>>
         /\ release.rel = k.rel /\ release.out[i] = "unresolved"
         /\ release' = [release EXCEPT !.out[i] = "submitted"]
  BY DEF NoteOutcome
<1>2. QED
  BY <1>1 DEF ReleaseOK, Release

LEMMA AllUpReleasing ==
    ASSUME TypeOK, TypeOK', Releasing, PassStep, NEW i \in Interfaces,
           SafetySubmit(i), wire' # wire
    PROVE  Releasing'
<1> DEFINE k == loc.usb.k
           f == [kind |-> "safety", held |-> FALSE, cut |-> k.cut, rel |-> k.rel, rid |-> k.id]
           w == [kind |-> "safety", held |-> FALSE]
<1>1. /\ pc.usb = "slotSubmit" /\ pc'.usb \in {"settle", "idle"}
      /\ wire[i] = None /\ wire' = [wire EXCEPT ![i] = w] /\ host' = host
      /\ iface' = [iface EXCEPT ![i].held = FALSE, ![i].flight = f, ![i].slot = "empty"]
      /\ NoteOutcome(i, f, "submitted")
  BY Contexts DEF SafetySubmit, Goto, AfterSlots, TypeOK, PcOK
<1>2. /\ f.kind = "safety" /\ f.rid = k.id /\ f.cut = k.cut /\ f.rel = k.rel /\ f # None
      /\ w # None /\ w.held = FALSE
  BY DEF None
<1>3. /\ release'.st = release.st /\ release'.cut = release.cut
      /\ release'.id = release.id /\ release'.rel = release.rel
      /\ \A j \in Interfaces : j # i => release'.out[j] = release.out[j]
      /\ \/ release'.out[i] = release.out[i]
         \/ /\ release.out[i] = "unresolved" /\ release'.out[i] = "submitted"
            /\ f.rid # 0 /\ release.id = f.rid
            /\ release.cut = <<f.cut[1], f.cut[2]>> /\ release.rel = f.rel
  <2> HIDE DEF f
  <2>1. QED
    BY <1>1, NoteSubmitted DEF TypeOK
<1> HIDE DEF k, f, w
<1>4. /\ wire'[i] = w
      /\ \A j \in Interfaces : j # i => iface'[j] = iface[j] /\ wire'[j] = wire[j]
  BY <1>1 DEF TypeOK, IfaceOK, BusOK
<1>5. iface'[i].held = FALSE /\ iface'[i].flight = f /\ iface'[i].safety = iface[i].safety
  <2>1. iface'[i] = [iface[i] EXCEPT !.held = FALSE, !.flight = f, !.slot = "empty"]
    BY <1>1 DEF TypeOK, IfaceOK
  <2>2. QED
    BY <2>1, Reads DEF Iface
<1>6. /\ ByUsb /\ auth' = auth /\ link'.gen = link.gen /\ link'.at = link.at
  BY PassFrame
<1>7. /\ \A j \in Interfaces : ~Sending(j)' /\ (Scanned(j)' <=> Scanned(j))
      /\ Open' <=> Open
  BY <1>1, <1>3, <1>6 DEF Sending, Scanned, ByUsb, Open
<1>8. Asked' /\ Seen'
  BY <1>3, <1>6, <1>7, Reads, Contexts DEF Asked, Seen, Open, Releasing, ByUsb, Sending
<1>9. ASSUME NEW j \in Interfaces PROVE Sound(j)'
  <2>1. Sound(j)
    BY <1>9 DEF Releasing
  <2>2. Presses(j)' => Presses(j)
    BY <1>1, <1>2, <1>4, <1>9 DEF Presses
  <2>3. Carries(j) => j # i /\ Carries(j)'
    BY <1>1, <1>3, <1>4, <1>9 DEF Carries
  <2>4. release'.out[j] # release.out[j] => j = i /\ release.out[j] = "unresolved" /\ Carries(j)'
    BY <1>2, <1>3, <1>4, <1>5, <1>9 DEF Carries
  <2>5. iface'[j].safety = iface[j].safety /\ (iface'[j].held => iface[j].held)
    BY <1>4, <1>5, <1>9
  <2>6. Up(j)' /\ Going(j)' /\ Indebted(j)' /\ Withheld(j)'
    BY <1>3, <1>6, <1>7, <1>9, <2>1, <2>2, <2>4, <2>5
       DEF Sound, Up, Going, Indebted, Withheld, ByUsb
  <2>7. Out(j)'
    <3>1. pc'.usb \notin Marking
      BY <1>1 DEF Marking
    <3>2. CASE release'.out[j] # release.out[j]
      BY <1>5, <1>7, <1>9, <2>4, <3>1, <3>2 DEF Out
    <3>3. CASE release'.out[j] = release.out[j]
      BY <1>7, <1>9, <2>1, <2>2, <2>3, <2>5, <3>1, <3>3 DEF Sound, Out
    <3>4. QED
      BY <3>2, <3>3
  <2>8. QED
    BY <2>6, <2>7 DEF Sound
<1>10. QED
  BY <1>8, <1>9 DEF Releasing

LEMMA PassReleasing ==
    ASSUME TypeOK, TypeOK', Routing, Releasing, PassStep
    PROVE  Releasing'
BY FrameReleasing, RefusedReleasing, CheckReleasing, SubmitReleasing, AllUpReleasing DEF PassStep

-----------------------------------------------------------------------------
(* The callbacks.                                                          *)

\* A lifecycle event closes the transaction; the rest leaves it as it is.
LEMMA CallbackSteady ==
    ASSUME TypeOK, TypeOK', CallbackStep,
           \/ CompleteClear \/ CompleteConfirm \/ FailClear \/ Unmount \/ UnmountKeep
           \/ UnmountClear \/ UnmountHidden \/ Mount \/ MountKeep \/ MountClear \/ Suspend
           \/ SuspendKeep \/ SuspendBits \/ Resume
    PROVE  Steady
<1>1. ByUsb
  BY CallbackFrame
<1>2. CASE Unmount \/ Mount \/ Suspend \/ Resume
  BY <1>1, <1>2, CancelCloses
     DEF Unmount, Mount, Suspend, Resume, RetireAuthority, CancelWork, Steady, ByUsb
<1>3. CASE \/ CompleteClear \/ CompleteConfirm \/ FailClear \/ UnmountKeep \/ UnmountClear
           \/ UnmountHidden \/ MountKeep \/ MountClear \/ SuspendKeep \/ SuspendBits
  <2>1. release' = release /\ auth' = auth
    BY <1>3 DEF CompleteClear, CompleteConfirm, FailClear, UnmountKeep, UnmountClear,
         UnmountHidden, MountKeep, MountClear, SuspendKeep, SuspendBits
  <2>2. link'.gen = link.gen /\ link'.at = link.at
    BY <1>3, Reads DEF CompleteClear, CompleteConfirm, FailClear, UnmountKeep, UnmountClear,
         UnmountHidden, MountKeep, MountClear, SuspendKeep, SuspendBits, Confirm, Doubt, Word
  <2>3. pc'.usb \notin Marking
    <3>1. CASE UnmountHidden
      BY <3>1 DEF UnmountHidden, Marking
    <3>2. CASE ~UnmountHidden
      <4>1. \E to \in {"confirm", "idle", "unmountClear", "identity", "mountClear", "suspendBits"} :
              pc' = [pc EXCEPT !.usb = to]
        BY <1>3, <3>2 DEF CompleteClear, CompleteConfirm, FailClear, UnmountKeep, UnmountClear,
             MountKeep, MountClear, SuspendKeep, SuspendBits, At
      <4>2. QED
        BY <4>1, Contexts DEF Marking, TypeOK, PcOK
    <3>3. QED
      BY <3>1, <3>2
  <2>4. QED
    BY <1>1, <2>1, <2>2, <2>3 DEF Steady, ByUsb, Open
<1>4. QED
  BY <1>2, <1>3

\* Nothing is about to be sent before or after a callback.
LEMMA CallbackSends ==
    ASSUME TypeOK, TypeOK', CallbackStep
    PROVE  pc.usb # "submit" /\ pc'.usb # "submit"
<1>1. ASSUME NEW i \in Interfaces, Complete(i) \/ Fail(i)
      PROVE  pc.usb # "submit" /\ pc'.usb # "submit"
  <2>1. /\ pc.usb = "idle"
        /\ pc' = pc \/ \E to \in {"complete", "failed"} : pc' = [pc EXCEPT !.usb = to]
    <3>1. CASE OwnFlight(i)
      BY <1>1, <3>1 DEF Complete, Fail
    <3>2. CASE ~OwnFlight(i)
      BY <1>1, <3>2 DEF Complete, Fail
    <3>3. QED
      BY <3>1, <3>2
  <2>2. QED
    BY <2>1, Contexts DEF TypeOK, PcOK
<1>2. CASE UnmountHidden \/ Resume
  BY <1>2 DEF UnmountHidden, Resume
<1>3. CASE \/ CompleteClear \/ CompleteConfirm \/ FailClear \/ Unmount \/ UnmountKeep
           \/ UnmountClear \/ Mount \/ MountKeep \/ MountClear \/ Suspend \/ SuspendKeep
           \/ SuspendBits
  <2>1. /\ pc.usb # "submit"
        /\ \E to \in UsbPoint \ {"submit"} : pc' = [pc EXCEPT !.usb = to]
    BY <1>3 DEF CompleteClear, CompleteConfirm, FailClear, Unmount, UnmountKeep, UnmountClear,
         Mount, MountKeep, MountClear, Suspend, SuspendKeep, SuspendBits, At, UsbPoint, Requesting
  <2>2. QED
    BY <2>1, Contexts DEF TypeOK, PcOK
<1>4. QED
  BY <1>1, <1>2, <1>3 DEF CallbackStep

LEMMA LifecycleReleasing ==
    ASSUME TypeOK, TypeOK', Releasing, CallbackStep,
           \/ CompleteConfirm \/ UnmountClear \/ Mount \/ MountClear \/ Suspend \/ SuspendBits
           \/ Resume
    PROVE  Releasing'
<1>1. iface' = iface /\ wire' = wire /\ host' = host
  BY DEF CompleteConfirm, UnmountClear, Mount, MountClear, Suspend, SuspendBits, Resume, env
<1>2. QED
  BY <1>1, CallbackSteady, CallbackSends, StillKeeps DEF Still

\* What can no longer be told is owed.
LEMMA NeverSafeOwes ==
    ASSUME NEW f \in Iface, NEW g, g = [NeverSafe(f) EXCEPT !.held = FALSE] \/ g = NeverSafe(f)
    PROVE  g.safety
<1>1. NeverSafe(f) \in Iface
  BY IfaceTypes
<1>2. NeverSafe(f).safety
  BY DEF NeverSafe, Iface
<1>3. QED
  BY <1>1, <1>2 DEF Iface

\* Half-way through a suspend, an unplugging or a mount no all-up of the
\* transaction's own is left to be remembered; what is held stays owed.
LEMMA MarkReleasing ==
    ASSUME TypeOK, TypeOK', Held, Releasing, CallbackStep,
           UnmountKeep \/ MountKeep \/ SuspendKeep
    PROVE  Releasing'
<1>1. pc.usb \in Marking /\ wire' = wire /\ host' = host
  BY DEF UnmountKeep, MountKeep, SuspendKeep, At, Marking, env
<1>2. ASSUME NEW i \in Interfaces, Presses(i), iface[i].safety PROVE iface'[i].safety
  <2>1. Doubtful(iface[i]) /\ iface[i] \in Iface
    BY <1>2, Reads DEF Held, Owed
  <2>2. CASE UnmountKeep
    <3>1. iface'[i] = [NeverSafe(iface[i]) EXCEPT !.held = FALSE]
      BY <1>2, <2>1, <2>2 DEF UnmountKeep
    <3>2. QED
      BY <2>1, <3>1, NeverSafeOwes
  <2>3. CASE MountKeep
    <3>1. \/ iface'[i] = [NeverSafe(iface[i]) EXCEPT !.held = FALSE]
          \/ iface'[i] = [iface[i] EXCEPT !.slot = "empty", !.safety = @ \/ Doubtful(iface[i]),
                                          !.flight = None]
      BY <1>2, <2>1, <2>3 DEF MountKeep
    <3>2. CASE iface'[i] = [NeverSafe(iface[i]) EXCEPT !.held = FALSE]
      BY <2>1, <3>2, NeverSafeOwes
    <3>3. CASE iface'[i] = [iface[i] EXCEPT !.slot = "empty", !.safety = @ \/ Doubtful(iface[i]),
                                            !.flight = None]
      BY <1>2, <2>1, <3>3 DEF Iface
    <3>4. QED
      BY <3>1, <3>2, <3>3
  <2>4. CASE SuspendKeep
    BY <1>2, <2>1, <2>4, WorseFlags DEF SuspendKeep, Worse
  <2>5. QED
    BY <2>2, <2>3, <2>4
<1>3. Steady
  BY CallbackSteady
<1>4. ASSUME NEW i \in Interfaces PROVE Mild(i)
  <2>1. (Presses(i)' <=> Presses(i)) /\ ~Sending(i)'
    BY <1>1, CallbackSends DEF Presses, Sending
  <2>2. ~(Open' /\ release.out[i] = "submitted")
    BY <1>1, <1>3, <1>4 DEF Steady, Releasing, Sound, Out
  <2>3. QED
    BY <1>2, <1>4, <2>1, <2>2 DEF Mild
<1>5. QED
  BY <1>3, <1>4, MildKeeps

\* The bus goes: what may be held is at most what was.
LEMMA LoseHeld ==
    ASSUME LoseWire, NEW i \in Interfaces
    PROVE  Presses(i)' => Presses(i)
BY DEF LoseWire, Presses, None

LEMMA UnplugReleasing ==
    ASSUME TypeOK, TypeOK', Releasing, CallbackStep, Unmount \/ UnmountHidden
    PROVE  Releasing'
<1>1. iface' = iface /\ LoseWire /\ (Open' => release' = release /\ link.at = "detaching")
  BY CancelCloses DEF Unmount, UnmountHidden, RetireAuthority, CancelWork
<1>2. Steady
  BY CallbackSteady
<1>3. ASSUME NEW i \in Interfaces PROVE Mild(i)
  <2>1. (Presses(i)' => Presses(i)) /\ ~Sending(i)'
    BY <1>1, <1>3, LoseHeld, CallbackSends DEF Sending
  <2>2. ~(Open' /\ release.out[i] = "submitted" /\ Scanned(i))
    BY <1>1, <1>2, <1>3 DEF Steady, Releasing, Sound, Going
  <2>3. QED
    BY <1>1, <2>1, <2>2 DEF Mild
<1>4. QED
  BY <1>2, <1>3, MildKeeps

\* The mark of a report that has arrived, or failed, is taken off the wire first.
LEMMA ClearReleasing ==
    ASSUME TypeOK, TypeOK', Held, Marked, Releasing, CallbackStep, CompleteClear \/ FailClear
    PROVE  Releasing'
<1> DEFINE at == loc.usb.i
<1>1. /\ wire' = wire /\ host' = host /\ release' = release /\ at \in Interfaces
      /\ wire[at] = None /\ iface' = [iface EXCEPT ![at].flight = None]
  BY Reads, Contexts DEF CompleteClear, FailClear, At, env, Held, Flown, Marked
<1>2. \A i \in Interfaces : /\ iface'[i].held = iface[i].held /\ iface'[i].safety = iface[i].safety
                            /\ i # at => iface'[i] = iface[i]
  BY <1>1, Reads DEF TypeOK, IfaceOK, Iface
<1>3. Steady
  BY CallbackSteady
<1>4. ASSUME NEW i \in Interfaces PROVE Mild(i)
  <2>1. (Presses(i)' <=> Presses(i)) /\ ~Sending(i)'
    BY <1>1, CallbackSends DEF Presses, Sending
  <2>2. Carries(i) => Carries(i)'
    BY <1>1, <1>2, <1>4 DEF Carries
  <2>3. QED
    BY <1>2, <1>4, <2>1, <2>2 DEF Mild
<1>5. QED
  BY <1>3, <1>4, MildKeeps

\* A report arrives: an all-up leaves nothing held.
LEMMA CompleteReleasing ==
    ASSUME TypeOK, TypeOK', Held, Releasing, CallbackStep, NEW i \in Interfaces, Complete(i)
    PROVE  Releasing'
<1>1. /\ wire[i] # None /\ wire'[i] = None /\ host'[i] = wire[i].held
      /\ release' = release /\ auth' = auth /\ link' = link
      /\ \A j \in Interfaces : j # i => wire'[j] = wire[j] /\ host'[j] = host[j]
  BY DEF Complete, Take, TypeOK, BusOK
<1>2. /\ \A j \in Interfaces : j # i => iface'[j] = iface[j]
      /\ iface'[i].held => iface[i].held
      /\ wire[i].held => iface'[i].safety = iface[i].safety
  <2>1. CASE OwnFlight(i)
    <3>1. iface' = [iface EXCEPT ![i].unc = FALSE, ![i].conf = iface[i].flight.held,
               ![i].held   = IF iface[i].flight.kind = "safety" THEN FALSE ELSE @,
               ![i].safety = IF iface[i].flight.kind = "safety" THEN FALSE ELSE @]
      BY <2>1 DEF Complete
    <3>2. /\ iface'[i] = [iface[i] EXCEPT !.unc = FALSE, !.conf = iface[i].flight.held,
                !.held   = IF iface[i].flight.kind = "safety" THEN FALSE ELSE @,
                !.safety = IF iface[i].flight.kind = "safety" THEN FALSE ELSE @]
          /\ \A j \in Interfaces : j # i => iface'[j] = iface[j]
      BY <3>1 DEF TypeOK, IfaceOK
    <3>3. /\ iface'[i].held = IF iface[i].flight.kind = "safety" THEN FALSE ELSE iface[i].held
          /\ iface'[i].safety = IF iface[i].flight.kind = "safety" THEN FALSE ELSE iface[i].safety
      BY <3>2, Reads DEF Iface
    <3>4. iface[i].flight.kind = "safety" => ~wire[i].held
      BY <2>1 DEF OwnFlight, Held, Flown
    <3>5. QED
      BY <3>2, <3>3, <3>4
  <2>2. CASE ~OwnFlight(i)
    BY <2>2 DEF Complete
  <2>3. QED
    BY <2>1, <2>2
<1>3. Steady
  <2>1. ByUsb /\ (pc'.usb = pc.usb \/ pc'.usb = "complete")
    <3>1. CASE OwnFlight(i)
      BY <3>1, CallbackFrame, Contexts DEF Complete, TypeOK, PcOK
    <3>2. CASE ~OwnFlight(i)
      BY <3>2, CallbackFrame DEF Complete
    <3>3. QED
      BY <3>1, <3>2
  <2>2. QED
    BY <1>1, <2>1 DEF Steady, ByUsb, Open, Marking
<1>4. ASSUME NEW j \in Interfaces PROVE Mild(j)
  <2>1. (Presses(j)' => Presses(j)) /\ ~Sending(j)'
    BY <1>1, <1>4, CallbackSends DEF Presses, Sending
  <2>2. CASE j = i
    BY <1>1, <1>2, <2>1, <2>2 DEF Mild, Presses, Carries
  <2>3. CASE j # i
    <3>1. Open' => (Carries(j)' <=> Carries(j))
      BY <1>1, <1>2, <1>4, <2>3 DEF Carries
    <3>2. QED
      BY <1>2, <1>4, <2>1, <2>3, <3>1 DEF Mild
  <2>4. QED
    BY <2>2, <2>3
<1>5. QED
  BY <1>3, <1>4, MildKeeps

\* A report fails: if it is the transaction's all-up, so does the transaction.
LEMMA FailReleasing ==
    ASSUME TypeOK, TypeOK', Held, Releasing, CallbackStep, NEW i \in Interfaces, Fail(i)
    PROVE  Releasing'
<1> DEFINE f == iface[i].flight
<1>1. /\ wire[i] # None /\ wire'[i] = None /\ auth' = auth
      /\ host'[i] = host[i] \/ host'[i] = wire[i].held
      /\ \A j \in Interfaces : j # i => wire'[j] = wire[j] /\ host'[j] = host[j]
  <2>1. /\ wire[i] # None /\ wire' = [wire EXCEPT ![i] = None] /\ auth' = auth
        /\ \E state \in {host[i], wire[i].held} : host' = [host EXCEPT ![i] = state]
    BY DEF Fail, Take
  <2>2. QED
    BY <2>1 DEF TypeOK, BusOK
<1>2. /\ \A j \in Interfaces : iface'[j].held = iface[j].held /\ (iface[j].safety => iface'[j].safety)
      /\ \A j \in Interfaces : j # i => iface'[j] = iface[j]
  <2>1. CASE OwnFlight(i)
    <3>1. iface' = [iface EXCEPT ![i].unc = TRUE, ![i].safety = TRUE]
      BY <2>1 DEF Fail
    <3>2. QED
      BY <3>1, Reads DEF TypeOK, IfaceOK, Iface
  <2>2. CASE ~OwnFlight(i)
    BY <2>2 DEF Fail
  <2>3. QED
    BY <2>1, <2>2
<1>3. /\ Open' => Open /\ release' = release
      /\ OwnFlight(i) /\ f.kind = "safety" => NoteOutcome(i, f, "pending")
  <2>1. CASE OwnFlight(i)
    BY <2>1, NotePending DEF Fail, Open
  <2>2. CASE ~OwnFlight(i)
    BY <2>2 DEF Fail, Open
  <2>3. QED
    BY <2>1, <2>2
<1>4. link'.gen = link.gen /\ link'.at = link.at /\ (pc'.usb = pc.usb \/ pc'.usb = "failed")
  <2>1. CASE OwnFlight(i)
    BY <2>1, Reads, Contexts DEF Fail, Doubt, Word, TypeOK, PcOK
  <2>2. CASE ~OwnFlight(i)
    BY <2>2 DEF Fail
  <2>3. QED
    BY <2>1, <2>2
<1>5. Steady
  BY <1>1, <1>3, <1>4, CallbackFrame DEF Steady, ByUsb, Marking
<1>6. ~(Open' /\ Carries(i))
  <2>1. SUFFICES ASSUME Open', Carries(i) PROVE FALSE
    OBVIOUS
  <2>2. OwnFlight(i) /\ f.kind = "safety"
    <3>1. <<f.cut[1], f.cut[2]>> = <<link.gen, auth>>
      BY <1>3, <2>1 DEF Releasing, Asked, Carries
    <3>2. QED
      BY <2>1, <3>1 DEF OwnFlight, Carries, Held, Flown, TypeOK, BusOK, Wire, IfaceOK, Iface, Flight
  <2>3. QED
    BY <1>3, <2>1, <2>2, NotePending DEF Carries
<1>7. ASSUME NEW j \in Interfaces PROVE Mild(j)
  <2>1. (Presses(j)' => Presses(j)) /\ ~Sending(j)'
    BY <1>1, <1>7, CallbackSends DEF Presses, Sending
  <2>2. Open' /\ Carries(j) => Carries(j)'
    BY <1>1, <1>2, <1>3, <1>6, <1>7 DEF Carries
  <2>3. QED
    BY <1>2, <1>7, <2>1, <2>2 DEF Mild
<1>8. QED
  BY <1>5, <1>7, MildKeeps

LEMMA CallbackReleasing ==
    ASSUME TypeOK, TypeOK', Held, Marked, Releasing, CallbackStep
    PROVE  Releasing'
BY LifecycleReleasing, MarkReleasing, UnplugReleasing, ClearReleasing, CompleteReleasing,
   FailReleasing DEF CallbackStep

-----------------------------------------------------------------------------
(* The executor.                                                           *)

LEMMA ExecutorSteady ==
    ASSUME TypeOK, TypeOK', Held, ExecutorStep
    PROVE  Steady
<1>1. ByExecutor
  BY ExecutorFrame
<1>2. CASE Stall \/ Uninstall
  <2>1. ~Open'
    BY <1>2, CancelCloses DEF Stall, Uninstall, RetireAuthority, CancelWork
  <2>2. QED
    BY <1>1, <2>1 DEF Steady, ByExecutor
<1>3. CASE \/ StallKeep \/ StallBits \/ (\E action \in {"detach", "route"} : SafetyBegin(action))
           \/ RouteOvertaken \/ Await \/ AwaitTimeout \/ DoubtFlags \/ DoubtWord \/ RouteDone
           \/ UninstallClear
  <2>1. release' = release /\ auth' = auth
    BY <1>3 DEF StallKeep, StallBits, SafetyBegin, RouteOvertaken, Await, AwaitTimeout, DoubtFlags,
         DoubtWord, RouteDone, UninstallClear, shared
  <2>2. link'.gen = link.gen /\ (link'.at = link.at \/ link'.at = "hidden")
    BY <1>3, Reads DEF StallKeep, StallBits, SafetyBegin, RouteOvertaken, Await, AwaitTimeout,
         DoubtFlags, DoubtWord, RouteDone, UninstallClear, shared, Confirm, Doubt, Word
  <2>3. QED
    BY <1>1, <2>1, <2>2 DEF Steady, ByExecutor, Open
<1>4. QED
  BY <1>2, <1>3 DEF ExecutorStep

LEMMA ServeReleasing ==
    ASSUME TypeOK, TypeOK', Held, Releasing, ExecutorStep,
           \/ Stall \/ StallBits \/ (\E action \in {"detach", "route"} : SafetyBegin(action))
           \/ RouteOvertaken \/ Await \/ AwaitTimeout \/ DoubtWord \/ RouteDone \/ UninstallClear
    PROVE  Releasing'
<1>1. ByExecutor /\ wire' = wire /\ host' = host
  BY ExecutorFrame DEF Stall, StallBits, SafetyBegin, RouteOvertaken, Await, AwaitTimeout,
     DoubtWord, RouteDone, UninstallClear, env
<1>2. \A i \in Interfaces : /\ iface'[i].held = iface[i].held /\ iface'[i].flight = iface[i].flight
                            /\ iface[i].safety => iface'[i].safety
  <2>1. CASE \E action \in {"detach", "route"} : SafetyBegin(action)
    BY <2>1, Reads DEF SafetyBegin, Iface
  <2>2. CASE ~\E action \in {"detach", "route"} : SafetyBegin(action)
    BY <2>2 DEF Stall, StallBits, RouteOvertaken, Await, AwaitTimeout, DoubtWord, RouteDone,
         UninstallClear, shared
  <2>3. QED
    BY <2>1, <2>2
<1>3. QED
  BY <1>1, <1>2, ExecutorSteady, StillKeeps DEF Still, ByExecutor

\* A stalled bus takes the mark of an all-up that may still fail, and leaves a
\* debt for it.
LEMMA StallReleasing ==
    ASSUME TypeOK, TypeOK', Held, Releasing, ExecutorStep, StallKeep
    PROVE  Releasing'
<1>1. /\ ByExecutor /\ wire' = wire /\ host' = host /\ release' = release
      /\ pc.executor = "stallKeep"
  BY ExecutorFrame DEF StallKeep, At, env
<1>2. \A i \in Interfaces :
        /\ iface'[i].held => iface[i].held
        /\ iface[i].safety => iface'[i].safety
        /\ iface[i].flight # None => iface'[i].safety
  <2>1. ASSUME NEW f \in Iface
        PROVE  /\ Preserved(f).held = f.held
               /\ f.safety \/ f.flight # None => Preserved(f).safety
    BY <2>1 DEF Preserved, Doubtful, Iface
  <2>2. QED
    BY <2>1, Reads DEF StallKeep, TypeOK, IfaceOK
<1>3. ASSUME NEW i \in Interfaces PROVE Mild(i)
  <2>1. (Presses(i)' <=> Presses(i)) /\ (Sending(i)' <=> Sending(i))
    BY <1>1 DEF Presses, Sending, ByExecutor
  <2>2. Carries(i) => iface'[i].safety
    BY <1>2, <1>3 DEF Carries
  <2>3. QED
    BY <1>2, <1>3, <2>1, <2>2 DEF Mild
<1>4. QED
  BY <1>3, ExecutorSteady, MildKeeps

\* The time is up: on a detach no all-up was left to be sent, on a route release
\* nothing is held that does not owe one.
LEMMA DoubtReleasing ==
    ASSUME TypeOK, TypeOK', Held, Releasing, ExecutorStep, DoubtFlags
    PROVE  Releasing'
<1>1. /\ ByExecutor /\ wire' = wire /\ host' = host /\ release' = release
      /\ pc.executor = "doubtFlags"
  BY ExecutorFrame DEF DoubtFlags, At, env
<1>2. \A i \in Interfaces : iface'[i].held = iface[i].held /\ iface'[i].safety
  BY Reads, WorseFlags, NeverSafeOwes DEF DoubtFlags, Worse
<1>3. pc.queue = "route" \/ link.at = "detaching"
  BY <1>1, Where DEF Held, Attached, Waiting, Late, TypeOK, PcOK
<1>4. ASSUME NEW i \in Interfaces PROVE Mild(i)
  <2>1. (Presses(i)' <=> Presses(i)) /\ (Sending(i)' <=> Sending(i))
    BY <1>1 DEF Presses, Sending, ByExecutor
  <2>2. Open' /\ release.out[i] = "submitted" /\ Scanned(i) => ~Presses(i)
    BY <1>1, <1>3, <1>4 DEF Releasing, Sound, Going, Withheld, Open
  <2>3. QED
    BY <1>2, <1>4, <2>1, <2>2 DEF Mild
<1>5. QED
  BY <1>4, ExecutorSteady, MildKeeps

LEMMA UninstallReleasing ==
    ASSUME TypeOK, TypeOK', ExecutorStep, Uninstall
    PROVE  Releasing'
<1>1. ~Open'
  BY CancelCloses DEF Uninstall, CancelWork
<1>2. pc'.queue = "detach"
  BY Contexts DEF Uninstall, TypeOK, PcOK
<1>3. QED
  BY <1>1, <1>2, ClosedKeeps

LEMMA ExecutorReleasing ==
    ASSUME TypeOK, TypeOK', Held, Releasing, ExecutorStep
    PROVE  Releasing'
BY ServeReleasing, StallReleasing, DoubtReleasing, UninstallReleasing DEF ExecutorStep

-----------------------------------------------------------------------------
(* A release-all that succeeds has released, or owes.                      *)

LEMMA ReleasingInit == Init => Routing /\ Marked /\ Releasing
<1>1. SUFFICES ASSUME Init PROVE Routing /\ Marked /\ Releasing
  OBVIOUS
<1>2. /\ pc.queue = "empty" /\ pc.control = "idle" /\ pc.usb = "idle"
      /\ \A i \in Interfaces : iface[i].unc = FALSE
      /\ ~Open
  BY <1>1, Contexts DEF Init, Cleared, Open
<1>3. QED
  BY <1>2 DEF Routing, Marked, Releasing, Asked, Seen, Sound, Up, Out, Going, Indebted, Withheld

LEMMA ReleasingStep ==
    ASSUME Inv, Inv', Held, Routing, Marked, Releasing, [Next]_vars
    PROVE  Releasing'
<1>1. TypeOK /\ TypeOK' /\ Ledger
  BY DEF Inv
<1>2. CASE Next
  BY <1>1, <1>2, Steps, ProducerReleasing, RequestReleasing, ControlReleasing, PassReleasing,
     CallbackReleasing, ExecutorReleasing
<1>3. CASE UNCHANGED vars
  BY <1>3 DEF vars, shared, env, Releasing, Asked, Seen, Sound, Up, Out, Going, Indebted, Withheld,
       Open, Scanned, Sending, Presses, Carries
<1>4. QED
  BY <1>2, <1>3

\* What a step may make of a transaction, apart from its end.
LEMMA ReleaseMoves ==
    ASSUME TypeOK, Next, ~ReleaseFinish
    PROVE  /\ release'.st = "finalizedSuccess" => release.st = "finalizedSuccess"
           /\ release'.st # "inactive" => release.st # "inactive" \/ pc.control = "admit"
<1> DEFINE kept == /\ release'.st = "finalizedSuccess" => release.st = "finalizedSuccess"
                   /\ release'.st # "inactive" => release.st # "inactive" \/ pc.control = "admit"
<1>0. release \in Release
  BY DEF TypeOK, ReleaseOK
<1>1. ASSUME CancelRelease PROVE kept
  BY <1>0, <1>1 DEF CancelRelease, Release
<1>2. ASSUME release' = release PROVE kept
  BY <1>2
<1>3. ASSUME NEW i, NEW k, NEW out, NoteOutcome(i, k, out) PROVE kept
  <2>1. \/ release' = release
        \/ release' = [release EXCEPT !.out[i] = out]
        \/ Open /\ release' = [release EXCEPT !.out[i] = "pending", !.st = "failed"]
    BY <1>3 DEF NoteOutcome, Open
  <2>2. release'.st = release.st \/ (release'.st = "failed" /\ Open)
    BY <1>0, <2>1 DEF Release
  <2>3. QED
    BY <2>2 DEF Open
<1>4. ASSUME NEW p \in Producers, ProducerStep(p) PROVE kept
  BY <1>4, ProducerFrame
<1>5. ASSUME NEW k \in {"control", "usb", "executor"}, RequestStep(k) PROVE kept
  BY <1>0, <1>5 DEF RequestStep, ReleaseIdentity, ReleaseBarrier, ReleaseFlag, ReleaseUnavailable, Release
<1>6. CASE ControlStep
  <2>1. CASE \/ SequenceClaim \/ SequenceAdmit \/ EndSequence \/ RequestRelease \/ PublicRelease
             \/ ScanTicket \/ DetachAccept \/ DetachKeep \/ RouteCommit \/ RouteNone \/ NoneKeep
    BY <1>2, <2>1 DEF SequenceClaim, SequenceAdmit, EndSequence, RequestRelease, PublicRelease,
         ScanTicket, DetachAccept, DetachKeep, RouteCommit, RouteNone, NoneKeep, shared
  <2>2. CASE DetachRetire \/ Attach \/ RouteUsb \/ NoneRetire
    BY <1>1, <2>2 DEF DetachRetire, Attach, RouteUsb, NoneRetire, RetireAuthority, CancelWork
  <2>3. CASE ReleaseAdmit
    BY <2>3 DEF ReleaseAdmit, At
  <2>4. CASE ScanFlags
    <3>1. release' = release \/ \E out : release' = [release EXCEPT !.out[loc.control.i] = out]
      BY <2>4 DEF ScanFlags
    <3>2. release'.st = release.st
      BY <1>0, <3>1 DEF Release
    <3>3. QED
      BY <3>2
  <2>5. CASE ReleaseOpen
    BY <1>0, <2>5 DEF ReleaseOpen, Release
  <2>6. QED
    BY <1>6, <2>1, <2>2, <2>3, <2>4, <2>5 DEF ControlStep
<1>7. CASE PassStep
  <2>1. ASSUME NEW i \in Interfaces, SafetySubmit(i) PROVE kept
    BY <1>2, <1>3, <2>1 DEF SafetySubmit
  <2>2. CASE \A i \in Interfaces : ~SafetySubmit(i)
    BY <1>2, <1>7, <2>2 DEF PassStep, SofStart, SofTake, SofMark, TicketNone, TicketClaim,
         TicketCheck, TicketSubmit, TicketTerminal, SafetyNone, SafetyQueue, SafetyClaim, Settle,
         SettleAgain, shared
  <2>3. QED
    BY <2>1, <2>2
<1>8. CASE CallbackStep
  <2>1. ASSUME NEW i \in Interfaces, Fail(i) PROVE kept
    <3>1. release' = release \/ NoteOutcome(i, iface[i].flight, "pending")
      BY <2>1 DEF Fail
    <3>2. QED
      BY <1>2, <1>3, <3>1
  <2>2. CASE Unmount \/ Mount \/ Suspend \/ Resume
    BY <1>1, <2>2 DEF Unmount, Mount, Suspend, Resume, RetireAuthority, CancelWork
  <2>3. CASE \/ (\E i \in Interfaces : Complete(i)) \/ CompleteClear \/ CompleteConfirm \/ FailClear
             \/ UnmountKeep \/ UnmountClear \/ UnmountHidden \/ MountKeep \/ MountClear
             \/ SuspendKeep \/ SuspendBits
    BY <1>2, <2>3 DEF Complete, CompleteClear, CompleteConfirm, FailClear, UnmountKeep,
         UnmountClear, UnmountHidden, MountKeep, MountClear, SuspendKeep, SuspendBits
  <2>4. QED
    BY <1>8, <2>1, <2>2, <2>3 DEF CallbackStep
<1>9. CASE ExecutorStep
  <2>1. CASE Stall \/ Uninstall
    BY <1>1, <2>1 DEF Stall, Uninstall, RetireAuthority, CancelWork
  <2>2. CASE ~Stall /\ ~Uninstall
    BY <1>2, <1>9, <2>2 DEF ExecutorStep, StallKeep, StallBits, SafetyBegin, RouteOvertaken, Await,
         AwaitTimeout, DoubtFlags, DoubtWord, RouteDone, UninstallClear, shared
  <2>3. QED
    BY <2>1, <2>2
<1>10. QED
  BY <1>4, <1>5, <1>6, <1>7, <1>8, <1>9, Steps

LEMMA ReleaseSafeStep ==
    ASSUME TypeOK, Releasing, [Next]_vars
    PROVE  [release'.st = "finalizedSuccess" /\ release.st # "finalizedSuccess" /\ ~ReleaseLost
              => \A i \in Interfaces : EndsUp(i) \/ iface[i].safety]_vars
<1>1. SUFFICES ASSUME Next, release'.st = "finalizedSuccess", release.st # "finalizedSuccess",
                      NEW i \in Interfaces
               PROVE  EndsUp(i) \/ iface[i].safety
  OBVIOUS
<1>2. ReleaseFinish
  BY <1>1, ReleaseMoves
<1>3. release.st = "open" /\ release.out[i] \in {"alreadyUp", "submitted"}
  BY <1>1, <1>2 DEF ReleaseFinish, TypeOK, ReleaseOK, Release
<1>4. Scanned(i) /\ Sound(i)
  BY <1>1, <1>2, <1>3 DEF Releasing, ReleaseFinish, At, Scanned
<1>5. ~Presses(i) \/ Carries(i) \/ iface[i].safety
  BY <1>3, <1>4 DEF Sound, Up, Out, Open
<1>6. QED
  BY <1>5 DEF Presses, Carries, EndsUp

\* A release-all is answered success only with the last thing the host was sent
\* on each interface leaving nothing held, or with an all-up still owed to it, or
\* with its authority gone since: over any order of reports, refused and failed
\* transfers, resets, stalls and commands.
THEOREM ReleaseSafeCorrect == Spec => ReleaseSafe
<1> DEFINE All == Inv /\ Held /\ Routing /\ Marked /\ Releasing
<1>1. Init => All
  BY InvInit, HeldInit, ReleasingInit
<1>2. All /\ [Next]_vars => All'
  <2>1. SUFFICES ASSUME All, [Next]_vars PROVE All'
    OBVIOUS
  <2>2. Inv' /\ TypeOK /\ TypeOK'
    BY <2>1, InvStep DEF Inv
  <2>3. Held' /\ Routing' /\ Marked'
    BY <2>1, <2>2, HeldStep, RoutingStep, MarkedStep
  <2>4. QED
    BY <2>1, <2>2, <2>3, ReleasingStep
<1>3. All /\ [Next]_vars =>
        [release'.st = "finalizedSuccess" /\ release.st # "finalizedSuccess" /\ ~ReleaseLost
           => \A i \in Interfaces : EndsUp(i) \/ iface[i].safety]_vars
  BY ReleaseSafeStep DEF Inv
<1> HIDE DEF All
<1>4. QED
  BY <1>1, <1>2, <1>3, PTL DEF Spec, ReleaseSafe
=============================================================================
