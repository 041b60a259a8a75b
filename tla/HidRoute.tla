------------------------------ MODULE HidRoute ------------------------------
(***************************************************************************)
(* The output route: hid_route::StateMachine and the contexts that call    *)
(* it without a lock they could wait for.                                  *)
(*                                                                         *)
(*   ctl  the UART control task: route.usb, route.none, usb.detach         *)
(*   ex   the control executor: SOF watchdog, detach, fault shutdown,      *)
(*        deferred route release                                           *)
(*   cb   a TinyUSB callback: mount/resume, unmount/suspend, runtime fault *)
(*                                                                         *)
(* Only the holder of writer_active_ changes the route, and nobody waits   *)
(* for it: who finds it taken leaves a durable or conditional invalidation *)
(* behind, or a moved publication cut, for the holder to honour.           *)
(*                                                                         *)
(* desired_, active_ and transition_ change together while the publication *)
(* sequence is odd, so one variable holds them: "usb" is (usb, usb,        *)
(* stable), "releasing" is (none, usb, releasing).  snapshot() is one      *)
(* step, incoherent while the sequence is odd.  The BLE route is left out. *)
(***************************************************************************)
EXTENDS Naturals, FiniteSets

CONSTANTS
    MaxGeneration,  \* no route.usb is accepted from this generation on
    RuntimeFaults,  \* may the TinyUSB stack report a runtime fault?
    Watchdog        \* may the SOF watchdog find the link stalled?

ASSUME GenerationAssumption == MaxGeneration \in Nat
ASSUME SwitchAssumption == RuntimeFaults \in BOOLEAN /\ Watchdog \in BOOLEAN

VARIABLES
    route, generation,
    publishing,         \* the publication sequence is odd
    writer,             \* holder of writer_active_, "none", or "lost" with its task
    durable,            \* durable_state_, durable_generation_
    conditional,        \* conditional_token_, conditional_generation_
    cut,                \* usb_publication_state_
    lifecycle,          \* what usb_lifecycle says of the link
    active_operation,   \* the Controller's guard: one command at a time
    queued,             \* action left to the executor, with its payload.route
    pc, op, seen,       \* per context: program counter, operation, Snapshot
    watch,              \* usb_sof_watchdog_: identity (and whether the attachment
                        \* is still that one), token held (pending)
    fresh               \* history: was the link cut since it was validated?

shared == <<route, generation, publishing, writer, durable, conditional, cut>>
proc == <<pc, op, seen>>
vars == <<shared, lifecycle, active_operation, queued, proc, watch, fresh>>

Process == {"ctl", "ex", "cb"}
Route == {"none", "usb", "releasing"}
Generation == 0 .. MaxGeneration + 2
Snapshot == [route : Route, generation : Generation]
NoSnapshot == [route |-> "none", generation |-> 0]
Link == {"absent", "down", "up", "detaching", "faulted"}

Nothing == <<lifecycle, active_operation, queued, watch, fresh>>

\* A token is compared only by the executor that published it, a serial only
\* by the command that captured it: "held" and "moved" say they (mis)match.
Pending == cut.active \/ conditional.state /= "none" \/ durable.state /= "none"

Seen(s) == ~publishing /\ s = [route |-> route, generation |-> generation]

\* A mailbox that asks for the retirement of generation g.
Request(g) == [state |-> "active", generation |-> g]

Goto(p, to) == pc' = [pc EXCEPT ![p] = to] /\ UNCHANGED <<op, seen>>
Start(p, what, to, s) ==
    /\ pc' = [pc EXCEPT ![p] = to]
    /\ op' = [op EXCEPT ![p] = what]
    /\ seen' = [seen EXCEPT ![p] = s]
At(p, where, what) == pc[p] = where /\ op[p] = what

\* release_operation, when the command p works for ends here.
Finished(p) ==
    active_operation' =
        IF p = "ctl" \/ (p = "ex" /\ op[p] = "complete")
          THEN "none" ELSE active_operation
-----------------------------------------------------------------------------
(* The writer section: enter, publications, leave with handoff.            *)

\* Mutant: the flag is set without looking at it.
EnterUnguarded(p) ==
    /\ pc[p] = "enter"
    /\ writer' = p
    /\ Goto(p, "check")
    /\ UNCHANGED <<route, generation, publishing, durable, conditional, cut, Nothing>>

Enter(p) ==
    /\ pc[p] = "enter"
    /\ writer = "none"
    /\ writer' = p
    /\ Goto(p, "check")
    /\ UNCHANGED <<route, generation, publishing, durable, conditional, cut, Nothing>>

\* Where p goes when there is nothing (more) to invalidate: a detach and a
\* fault shutdown uninstall the driver, everyone else is done.
Onward(p) == IF op[p] \in {"detach", "fault"} THEN "uninstall" ELSE "idle"

\* try_enter_writer failed.  The watchdog keeps its token.
EnterBusy(p) ==
    /\ pc[p] = "enter"
    /\ writer /= "none"
    /\ Goto(p, Onward(p))
    /\ Finished(p)
    /\ UNCHANGED <<shared, lifecycle, queued, watch, fresh>>

\* cancel_conditional_invalidation(watch identity), by the executor.
Cancel == IF watch.held /\ conditional = Request(watch.generation)
            THEN [conditional EXCEPT !.state = "none"] ELSE conditional

\* The stores of commit_none_locked, and of complete_release.
Retire(p) ==
    /\ pc[p] = "retire"
    /\ route' = "none"
    /\ generation' = generation + 1
    /\ publishing' = FALSE
    /\ IF op[p] = "claim"
         THEN conditional' = Cancel /\ watch' = [watch EXCEPT !.held = FALSE]
         ELSE UNCHANGED <<conditional, watch>>
    /\ Goto(p, IF op[p] = "usb" THEN "clear" ELSE "leave")
    /\ UNCHANGED <<writer, durable, cut, lifecycle, active_operation, queued, fresh>>

\* process_durable_invalidation_locked
LeaveDurable(p) ==
    /\ pc[p] = "leave"
    /\ LET hit == /\ durable.state = "active"
                  /\ durable.generation = generation /\ route /= "none"
       IN  /\ publishing' = hit
           /\ durable' = IF durable.state = "active" /\ ~hit
                           THEN [durable EXCEPT !.state = "none"] ELSE durable
           /\ Goto(p, IF hit THEN "leave_retire" ELSE "leave_conditional")
    /\ UNCHANGED <<route, generation, writer, conditional, cut, Nothing>>

LeaveRetire(p) ==
    /\ pc[p] = "leave_retire"
    /\ route' = "none"
    /\ generation' = generation + 1
    /\ publishing' = FALSE
    /\ durable' = [durable EXCEPT !.state = "none"]
    /\ Goto(p, "leave_conditional")
    /\ UNCHANGED <<writer, conditional, cut, Nothing>>

\* clear_superseded_conditional_invalidation_locked
LeaveConditional(p) ==
    /\ pc[p] = "leave_conditional"
    /\ conditional' = IF /\ conditional.state = "active"
                         /\ ~(route = "usb" /\ generation = conditional.generation)
                        THEN [conditional EXCEPT !.state = "none"] ELSE conditional
    /\ Goto(p, "leave_writer")
    /\ UNCHANGED <<route, generation, publishing, writer, durable, cut, Nothing>>

LeaveWriter(p) ==
    /\ pc[p] = "leave_writer"
    /\ writer' = "none"
    /\ IF op[p] = "begin"
         THEN Goto(p, "confirm") /\ UNCHANGED active_operation
         ELSE /\ Goto(p, Onward(p))
              /\ Finished(p)
    /\ UNCHANGED <<route, generation, publishing, durable, conditional, cut,
                   lifecycle, queued, watch, fresh>>
-----------------------------------------------------------------------------
(* ctl: request_route_usb and commit_usb_if_none                           *)

Claimed(what) == active_operation = "none" /\ active_operation' = what

\* The publication cut is captured before anything is validated.
UsbCapture ==
    /\ pc["ctl"] = "idle" /\ generation < MaxGeneration
    /\ Claimed("route")
    /\ cut' = [cut EXCEPT !.moved = FALSE]
    /\ Start("ctl", "usb", "validate", NoSnapshot)
    /\ UNCHANGED <<route, generation, publishing, writer, durable, conditional,
                   lifecycle, queued, watch, fresh>>

UsbValidate ==
    /\ pc["ctl"] = "validate"
    /\ IF ~publishing /\ ~Pending /\ route = "none" /\ lifecycle = "up"
         THEN /\ fresh' = [fresh EXCEPT !.validated = TRUE]
              /\ Goto("ctl", "enter")
              /\ UNCHANGED active_operation
         ELSE Goto("ctl", "idle") /\ Finished("ctl") /\ UNCHANGED fresh
    /\ UNCHANGED <<shared, lifecycle, queued, watch>>

\* Under the writer: still none, and the cut registers (begin_usb_publication).
UsbCheck ==
    /\ At("ctl", "check", "usb")
    /\ IF ~Pending /\ route = "none" /\ ~cut.moved
         THEN cut' = [active |-> TRUE, moved |-> FALSE] /\ Goto("ctl", "publish")
         ELSE Goto("ctl", "leave") /\ UNCHANGED cut
    /\ UNCHANGED <<route, generation, publishing, writer, durable, conditional, Nothing>>

\* The new authority epoch comes before the route, and is never rolled back.
UsbPublish ==
    /\ pc["ctl"] = "publish"
    /\ publishing' = TRUE
    /\ generation' = generation + 1
    /\ Goto("ctl", "recheck")
    /\ UNCHANGED <<route, writer, durable, conditional, cut, Nothing>>

UsbRecheck ==
    /\ pc["ctl"] = "recheck"
    /\ Goto("ctl", IF durable.state /= "none" \/ conditional.state /= "none" \/ cut.moved
                     THEN "abort" ELSE "store")
    /\ UNCHANGED <<shared, Nothing>>

UsbAbort ==
    /\ pc["ctl"] = "abort"
    /\ publishing' = FALSE
    /\ Goto("ctl", "clear")
    /\ UNCHANGED <<route, generation, writer, durable, conditional, cut, Nothing>>

UsbStore ==
    /\ At("ctl", "store", "usb")
    /\ route' = "usb"
    /\ publishing' = FALSE
    /\ fresh' = [fresh EXCEPT !.route = fresh.validated]
    /\ Goto("ctl", "finish")
    /\ UNCHANGED <<generation, writer, durable, conditional, cut, lifecycle,
                   active_operation, queued, watch>>

\* Mutant: the gate opens even if the link was cut during the publication.
UsbFinishIgnoringVeto ==
    /\ pc["ctl"] = "finish"
    /\ cut' = [active |-> FALSE, moved |-> TRUE]
    /\ Goto("ctl", "leave")
    /\ UNCHANGED <<route, generation, publishing, writer, durable, conditional, Nothing>>

\* finish_usb_publication opens the gate, or the route is taken back.
UsbFinish ==
    /\ pc["ctl"] = "finish"
    /\ IF ~cut.moved
         THEN /\ cut' = [active |-> FALSE, moved |-> TRUE]
              /\ Goto("ctl", "leave")
              /\ UNCHANGED publishing
         ELSE /\ publishing' = TRUE
              /\ Goto("ctl", "retire")
              /\ UNCHANGED cut
    /\ UNCHANGED <<route, generation, writer, durable, conditional, Nothing>>

\* clear_usb_publication
UsbClear ==
    /\ pc["ctl"] = "clear"
    /\ cut' = [active |-> FALSE, moved |-> TRUE]
    /\ Goto("ctl", "leave")
    /\ UNCHANGED <<route, generation, publishing, writer, durable, conditional, Nothing>>
-----------------------------------------------------------------------------
(* ctl: request_route_none, begin_release / complete_release; usb.detach    *)

NoneRequest ==
    /\ pc["ctl"] = "idle"
    /\ ~publishing /\ ~Pending /\ route = "usb"
    /\ Claimed("route")
    /\ Start("ctl", "begin", "enter", NoSnapshot)
    /\ UNCHANGED <<shared, lifecycle, queued, watch, fresh>>

BeginCheck ==
    /\ At("ctl", "check", "begin")
    /\ IF ~Pending /\ route = "usb"
         THEN publishing' = TRUE /\ Goto("ctl", "store")
         ELSE Start("ctl", "refused", "leave", NoSnapshot) /\ UNCHANGED publishing
    /\ UNCHANGED <<route, generation, writer, durable, conditional, cut, Nothing>>

\* Stage A, and the Snapshot of it that completion must match.
BeginStore ==
    /\ At("ctl", "store", "begin")
    /\ route' = "releasing"
    /\ publishing' = FALSE
    /\ Start("ctl", "begin", "leave", [route |-> "releasing", generation |-> generation])
    /\ UNCHANGED <<generation, writer, durable, conditional, cut, Nothing>>

\* begin_release's last look: Stage A stands, or the caller answers busy.
\* With all keys up it completes here, otherwise the executor does it.
Confirm ==
    /\ pc["ctl"] = "confirm"
    /\ \/ /\ Seen(seen["ctl"]) /\ ~Pending
          /\ Start("ctl", "complete", "enter", seen["ctl"])
          /\ UNCHANGED <<active_operation, queued>>
       \/ /\ Seen(seen["ctl"]) /\ ~Pending
          /\ queued' = queued \cup {[op |-> "complete", seen |-> seen["ctl"]]}
          /\ Goto("ctl", "idle")
          /\ UNCHANGED active_operation
       \/ /\ ~(Seen(seen["ctl"]) /\ ~Pending)
          /\ Goto("ctl", "idle")
          /\ Finished("ctl")
          /\ UNCHANGED queued
    /\ UNCHANGED <<shared, lifecycle, watch, fresh>>

CompleteCheck(p) ==
    /\ At(p, "check", "complete")
    /\ publishing' = (route = "releasing" /\ Seen(seen[p]) /\ ~Pending)
    /\ Goto(p, IF publishing' THEN "retire" ELSE "leave")
    /\ UNCHANGED <<route, generation, writer, durable, conditional, cut, Nothing>>

\* Stage A of usb.detach, then schedule() with the route as it is by then.
Detach ==
    /\ pc["ctl"] = "idle" /\ lifecycle \in {"up", "down"}
    /\ Claimed("detach")
    /\ lifecycle' = "detaching"
    /\ fresh' = [route |-> FALSE, validated |-> FALSE]
    /\ Start("ctl", "detach", "schedule", NoSnapshot)
    /\ UNCHANGED <<shared, queued, watch>>

Schedule ==
    /\ pc["ctl"] = "schedule"
    /\ queued' = queued \cup
           {[op |-> "detach",
             seen |-> IF publishing THEN NoSnapshot
                                    ELSE [route |-> route, generation |-> generation]]}
    /\ Goto("ctl", "idle")
    /\ UNCHANGED <<shared, lifecycle, active_operation, watch, fresh>>

\* usb.attach and its installation, as far as the route can tell.
Attach ==
    /\ pc["ctl"] = "idle" /\ lifecycle = "absent"
    /\ active_operation = "none"
    /\ lifecycle' = "down"
    /\ UNCHANGED <<shared, active_operation, queued, proc, watch, fresh>>
-----------------------------------------------------------------------------
(* invalidate_if_matches, in a callback or in the executor.                *)

Invalidating(p) == op[p] \in {"invalidate", "detach", "fault"}

\* The caller's Snapshot must still be the route ...
Match(p) ==
    /\ pc[p] = "match"
    /\ Goto(p, IF seen[p].route /= "none" /\ Seen(seen[p])
                 THEN "durable" ELSE Onward(p))
    /\ UNCHANGED <<shared, Nothing>>

\* ... then the request is published (publish_durable_invalidation).
PublishDurable(p) ==
    /\ pc[p] = "durable"
    /\ IF durable.state = "none"
         THEN durable' = [durable EXCEPT !.state = "publishing"] /\ Goto(p, "durable_store")
         ELSE /\ Goto(p, IF durable = Request(seen[p].generation)
                           THEN "enter" ELSE Onward(p))
              /\ UNCHANGED durable
    /\ UNCHANGED <<route, generation, publishing, writer, conditional, cut, Nothing>>

StoreDurable(p) ==
    /\ pc[p] = "durable_store"
    /\ durable' = Request(seen[p].generation)
    /\ Goto(p, "enter")
    /\ UNCHANGED <<route, generation, publishing, writer, conditional, cut, Nothing>>

InvalidateCheck(p) ==
    /\ pc[p] = "check" /\ Invalidating(p)
    /\ LET hit == route /= "none" /\ generation = seen[p].generation
       IN  publishing' = hit /\ Goto(p, IF hit THEN "retire" ELSE "leave")
    /\ UNCHANGED <<route, generation, writer, durable, conditional, cut, Nothing>>
-----------------------------------------------------------------------------
(* cb: on_unmount, on_suspend; on_mount, on_resume; begin_usb_runtime_fault *)

\* Any observed loss of the link; Detach is the command's.
LinkCut(to) ==
    /\ lifecycle' = to
    /\ fresh' = [route |-> FALSE, validated |-> FALSE]

CbDown ==
    /\ pc["cb"] = "idle" /\ lifecycle \in {"up", "down"}
    /\ LinkCut("down")
    /\ Start("cb", "invalidate", "veto", NoSnapshot)
    /\ UNCHANGED <<shared, active_operation, queued, watch>>

\* publish_usb_lifecycle_veto.  The veto flag adds nothing to a moved serial.
CbVeto ==
    /\ pc["cb"] = "veto"
    /\ cut' = [cut EXCEPT !.moved = TRUE]
    /\ Goto("cb", IF op["cb"] = "fault" THEN "idle" ELSE "snapshot")
    /\ UNCHANGED <<route, generation, publishing, writer, durable, conditional, Nothing>>

\* The veto stands in for a Snapshot that is incoherent.
CbSnapshot ==
    /\ pc["cb"] = "snapshot"
    /\ IF ~publishing /\ route /= "none"
         THEN Start("cb", "invalidate", "match", [route |-> route, generation |-> generation])
         ELSE Goto("cb", "idle")
    /\ UNCHANGED <<shared, Nothing>>

CbUp ==
    /\ pc["cb"] = "idle" /\ lifecycle = "down"
    /\ lifecycle' = "up"
    /\ UNCHANGED <<shared, active_operation, queued, proc, watch, fresh>>

CbFault ==
    /\ RuntimeFaults
    /\ pc["cb"] = "idle" /\ lifecycle \notin {"absent", "faulted", "shut"}
    /\ LinkCut("faulted")
    /\ Start("cb", "fault", "veto", NoSnapshot)
    /\ UNCHANGED <<shared, active_operation, queued, watch>>
-----------------------------------------------------------------------------
(* ex: queued actions and the runtime fault.                               *)

\* process(): a release must find its Stage A; a detach just goes on.
ExProcess ==
    /\ pc["ex"] = "idle"
    /\ \E a \in queued :
         /\ queued' = queued \ {a}
         /\ IF a.op = "complete"
              THEN IF Seen(a.seen) /\ ~Pending
                     THEN Start("ex", "complete", "enter", a.seen) /\ UNCHANGED active_operation
                     ELSE active_operation' = "none" /\ UNCHANGED proc
              ELSE IF lifecycle = "detaching"
                     THEN Start("ex", "detach", "match", a.seen) /\ UNCHANGED active_operation
                     ELSE active_operation' = "none" /\ UNCHANGED proc
    /\ UNCHANGED <<shared, lifecycle, watch, fresh>>

\* backend_->uninstall() ends the TinyUSB task, inside a callback or not.  What
\* the callback held is then held by nobody, and stays as the callback left it.
\* A failure may come before or after the end of the task.
Uninstall ==
    /\ pc["ex"] = "uninstall"
    /\ \E success, ended \in BOOLEAN :
         /\ success => ended
         /\ lifecycle' = IF success /\ lifecycle = "detaching" THEN "absent" ELSE lifecycle
         /\ writer' = IF ended /\ writer = "cb" THEN "lost" ELSE writer
         /\ pc' = [pc EXCEPT !["ex"] = "idle", !["cb"] = IF ended THEN "idle" ELSE @]
    /\ active_operation' = IF op["ex"] = active_operation THEN "none" ELSE active_operation
    /\ watch' = [watch EXCEPT !.attached = FALSE]
    /\ UNCHANGED <<route, generation, publishing, durable, conditional, cut, op, seen,
                   queued, fresh>>

\* commit_usb_runtime_fault_shutdown, once, as soon as the fault is seen.
FaultShutdown ==
    /\ pc["ex"] = "idle" /\ lifecycle = "faulted"
    /\ lifecycle' = "shut"
    /\ active_operation' = "none"
    /\ IF ~publishing /\ route /= "none"
         THEN Start("ex", "fault", "match", [route |-> route, generation |-> generation])
         ELSE Start("ex", "fault", "uninstall", NoSnapshot)
    /\ UNCHANGED <<shared, queued, watch, fresh>>
-----------------------------------------------------------------------------
(* ex: the SOF watchdog and claim_invalidation_if_matches.                 *)

WatchdogSnapshot == ~publishing /\ ~Pending /\ route = "usb" /\ lifecycle = "up"

\* No SOF for kUsbSofStallTimeoutMs on the link and route of this identity.
WatchStall ==
    /\ Watchdog
    /\ pc["ex"] = "idle" /\ WatchdogSnapshot
    /\ watch' = [held |-> FALSE, generation |-> generation, attached |-> TRUE]
    /\ Start("ex", "claim", "stall", NoSnapshot)
    /\ UNCHANGED <<shared, lifecycle, active_operation, queued, fresh>>

\* Mutant: a token held on a link that went down is forgotten about.
WatchAgainWhileUp ==
    /\ pc["ex"] = "idle" /\ watch.held /\ ~WatchdogSnapshot /\ lifecycle = "up"
    /\ Start("ex", "claim", "stall", NoSnapshot)
    /\ UNCHANGED <<shared, Nothing>>

\* A token is held: the stall is evaluated again on every pass.
WatchAgain ==
    /\ pc["ex"] = "idle" /\ watch.held /\ ~WatchdogSnapshot
    /\ Start("ex", "claim", "stall", NoSnapshot)
    /\ UNCHANGED <<shared, Nothing>>

Withdraw ==
    /\ conditional' = Cancel
    /\ watch' = [watch EXCEPT !.held = FALSE]

\* on_usb_link_stall up to the claim.  The SOF heartbeat or the authority
\* epoch may have moved on at any time: the stall may always be stale.
StallStale ==
    /\ pc["ex"] = "stall"
    /\ Withdraw
    /\ Goto("ex", "idle")
    /\ UNCHANGED <<route, generation, publishing, writer, durable, cut,
                   lifecycle, active_operation, queued, fresh>>

\* The link and the attachment still are what the identity says.
SameLink == lifecycle = "up" /\ watch.attached

StallPending ==
    /\ pc["ex"] = "stall" /\ SameLink
    /\ publishing /\ watch.held
    /\ Goto("ex", "idle")
    /\ UNCHANGED <<shared, Nothing>>

Watched == [route |-> "usb", generation |-> watch.generation]

StallCurrent ==
    /\ pc["ex"] = "stall" /\ SameLink
    /\ Seen(Watched)
    /\ Goto("ex", "claim")
    /\ UNCHANGED <<shared, Nothing>>

\* The claim's own Snapshot: another route, or an occupied mailbox, is stale.
ClaimPublish ==
    /\ pc["ex"] = "claim"
    /\ LET current == publishing \/ Seen(Watched)
           mine == watch.held /\ conditional = Request(watch.generation)
       IN  \/ /\ current /\ mine
              /\ Goto("ex", "enter")
              /\ UNCHANGED <<conditional, watch>>
           \/ /\ current /\ ~watch.held /\ conditional.state = "none"
              /\ conditional' = [conditional EXCEPT !.state = "publishing"]
              /\ Goto("ex", "conditional_store")
              /\ UNCHANGED watch
           \/ /\ ~(current /\ (mine \/ (~watch.held /\ conditional.state = "none")))
              /\ Withdraw
              /\ Goto("ex", "idle")
    /\ UNCHANGED <<route, generation, publishing, writer, durable, cut,
                   lifecycle, active_operation, queued, fresh>>

ClaimStore ==
    /\ pc["ex"] = "conditional_store"
    /\ conditional' = Request(watch.generation)
    /\ watch' = [watch EXCEPT !.held = TRUE]
    /\ Goto("ex", "enter")
    /\ UNCHANGED <<route, generation, publishing, writer, durable, cut,
                   lifecycle, active_operation, queued, fresh>>

\* Mutant: the writer is taken to mean that the route is the watched one.
ClaimCheckAny ==
    /\ At("ex", "check", "claim")
    /\ Goto("ex", "claimed")
    /\ UNCHANGED <<shared, Nothing>>

\* Under the writer: exactly the watched route, or nothing.
ClaimCheck ==
    /\ At("ex", "check", "claim")
    /\ IF route = "usb" /\ generation = watch.generation
         THEN Goto("ex", "claimed") /\ UNCHANGED <<conditional, watch>>
         ELSE Withdraw /\ Goto("ex", "leave")
    /\ UNCHANGED <<route, generation, publishing, writer, durable, cut,
                   lifecycle, active_operation, queued, fresh>>

\* The link is looked at once more before the route is retired.
ClaimRetire ==
    /\ pc["ex"] = "claimed" /\ SameLink
    /\ publishing' = TRUE
    /\ Goto("ex", "retire")
    /\ UNCHANGED <<route, generation, writer, durable, conditional, cut, Nothing>>

ClaimRelease ==
    /\ pc["ex"] = "claimed"
    /\ Withdraw
    /\ Goto("ex", "leave")
    /\ UNCHANGED <<route, generation, publishing, writer, durable, cut,
                   lifecycle, active_operation, queued, fresh>>
-----------------------------------------------------------------------------
Init ==
    /\ route = "none" /\ generation = 0 /\ publishing = FALSE /\ writer = "none"
    /\ durable = [state |-> "none", generation |-> 0]
    /\ conditional = [state |-> "none", generation |-> 0]
    /\ cut = [active |-> FALSE, moved |-> TRUE]
    /\ lifecycle = "down"
    /\ active_operation = "none" /\ queued = {}
    /\ pc = [p \in Process |-> "idle"] /\ op = [p \in Process |-> "none"]
    /\ seen = [p \in Process |-> NoSnapshot]
    /\ watch = [held |-> FALSE, generation |-> 0, attached |-> FALSE]
    /\ fresh = [route |-> FALSE, validated |-> FALSE]

WriterStep(p) ==
    \/ Enter(p) \/ EnterBusy(p) \/ Retire(p)
    \/ LeaveDurable(p) \/ LeaveRetire(p) \/ LeaveConditional(p) \/ LeaveWriter(p)

InvalidateStep(p) ==
    \/ Match(p) \/ PublishDurable(p) \/ StoreDurable(p) \/ InvalidateCheck(p)

CtlStep ==
    \/ WriterStep("ctl")
    \/ UsbValidate \/ UsbCheck \/ UsbPublish \/ UsbRecheck \/ UsbAbort \/ UsbStore
    \/ UsbFinish \/ UsbClear
    \/ BeginCheck \/ BeginStore \/ Confirm \/ CompleteCheck("ctl") \/ Schedule

Command == UsbCapture \/ NoneRequest \/ Detach \/ Attach

ExStep ==
    \/ WriterStep("ex") \/ InvalidateStep("ex") \/ CompleteCheck("ex")
    \/ ExProcess \/ Uninstall \/ FaultShutdown
    \/ WatchAgain \/ StallStale \/ StallPending \/ StallCurrent
    \/ ClaimPublish \/ ClaimStore \/ ClaimCheck \/ ClaimRetire \/ ClaimRelease

CbStep ==
    \/ WriterStep("cb") \/ InvalidateStep("cb") \/ CbVeto \/ CbSnapshot

LinkEvent == CbDown \/ CbUp \/ CbFault

Next == CtlStep \/ Command \/ ExStep \/ WatchStall \/ CbStep \/ LinkEvent

Spec == Init /\ [][Next]_vars

\* The tasks run; every pass of task_loop evaluates a pending stall again.
FairSpec ==
    /\ Spec
    /\ WF_vars(CtlStep) /\ WF_vars(ExStep) /\ WF_vars(CbStep) /\ SF_vars(WatchAgain)
-----------------------------------------------------------------------------
ControlPoint ==
    {"idle", "enter", "check", "retire", "leave", "leave_retire", "leave_conditional",
     "leave_writer", "validate", "publish", "recheck", "abort", "store", "finish", "clear",
     "confirm", "schedule", "match", "durable", "durable_store", "uninstall", "veto",
     "snapshot", "stall", "claim", "conditional_store", "claimed"}

Operation == {"none", "usb", "begin", "refused", "complete", "detach", "invalidate",
              "fault", "claim"}

Mailbox == [state : {"none", "publishing", "active"}, generation : Generation]

TypeOK ==
    /\ route \in Route /\ generation \in Generation /\ publishing \in BOOLEAN
    /\ writer \in Process \cup {"none", "lost"}
    /\ durable \in Mailbox /\ conditional \in Mailbox
    /\ cut \in [active : BOOLEAN, moved : BOOLEAN]
    /\ lifecycle \in Link \cup {"shut"}
    /\ active_operation \in {"none", "route", "detach"}
    /\ queued \subseteq [op : Operation, seen : Snapshot]
    /\ pc \in [Process -> ControlPoint] /\ op \in [Process -> Operation]
    /\ seen \in [Process -> Snapshot]
    /\ watch \in [held : BOOLEAN, generation : Generation, attached : BOOLEAN]
    /\ fresh \in [route : BOOLEAN, validated : BOOLEAN]

\* Control points inside the writer section.
Writing(p) ==
    pc[p] \in {"check", "publish", "recheck", "abort", "store", "finish", "clear",
                    "retire", "leave", "leave_retire", "leave_conditional",
                    "leave_writer", "claimed"}

\* HID reports are admitted (route_.matches and accepts_hid).
Usable == route = "usb" /\ ~publishing /\ ~Pending /\ lifecycle = "up"

(* writer_active_ is a lock nobody waits for: exactly its holder is inside *)
(* a writer section, and no Snapshot is incoherent without one.            *)
SoleWriter ==
    /\ \A p \in Process : Writing(p) <=> writer = p
    /\ publishing => writer /= "none"

(* A flag that an uninstall left behind with the callback that held it     *)
(* keeps everyone out for good: no report is ever admitted on what that    *)
(* callback left half done.                                                *)
LeftClosed == writer = "lost" => ~Usable

(* A route on which reports are admitted was validated after the last      *)
(* unmount, suspend, detach or fault: a suspend/resume inside the          *)
(* publication window cannot resurrect the route it overlapped, although   *)
(* its callback never waits and may find the Snapshot incoherent.          *)
NoStaleRoute == Usable => fresh.route

(* Who retires a route retires the one it means: the watchdog the route it *)
(* watched, a completion the Stage A it began, an invalidation the         *)
(* generation it named, whatever replaced the route in between.            *)
RetiresExactly ==
    \A p \in Process : pc[p] = "retire" =>
        /\ route /= "none"
        /\ CASE op[p] = "claim"    -> Watched = [route |-> route, generation |-> generation]
             [] op[p] = "complete" -> seen[p] = [route |-> route, generation |-> generation]
             [] op[p] = "usb"      -> route = "usb"
             [] OTHER                   -> seen[p].generation = generation

(* The admission gate is never left closed without an owner who will open  *)
(* it: a registered publication belongs to route.usb inside its writer     *)
(* section, a conditional request to an executor that holds its token.     *)
GateOwned ==
    /\ cut.active => Writing("ctl")
    /\ conditional.state /= "none" => watch.held \/ pc["ex"] = "conditional_store"

(* What keeps others out: the writer flag is its one holder's, or was left *)
(* behind on a route that admits nothing; the closed gate is a             *)
(* publication's or the watchdog's, which will open it.                    *)
Owned == SoleWriter /\ LeftClosed /\ GateOwned

(* Once the link no longer changes, a conditional request of the watchdog  *)
(* is resolved: it retires its route or is withdrawn, however often the    *)
(* writer was busy when it was tried.                                      *)
GateReopens ==
    <>[](pc["cb"] = "idle") =>
        (conditional.state /= "none" ~> conditional.state = "none")

\* Every context is done, and nothing is left to be picked up later.
Quiet ==
    /\ \A p \in Process : pc[p] = "idle"
    /\ queued = {} /\ active_operation = "none" /\ ~watch.held

(* "Suspend/unmount immediately close unsafe authority and terminalize     *)
(* none without waiting for the control task."  The code disagrees: a      *)
(* durable request published after a writer processed it, by a callback    *)
(* that then finds the writer busy, is left active with nobody to act.     *)
SuspendTerminalizes == Quiet /\ lifecycle = "down" => route = "none"

(* A release that published Stage A ends in stable none, "after clean or   *)
(* fail-closed terminalization".  The code disagrees: when a watchdog      *)
(* claim is pending as Stage A is confirmed, the command answers busy and  *)
(* nobody completes what it began.                                         *)
ReleaseCompletes == Quiet /\ durable.state = "none" => route /= "releasing"

(* "Runtime fail-close requests are independently durable."  The code      *)
(* disagrees: the executor may run the shutdown between the lifecycle cut  *)
(* and the veto, while route.usb is publishing: it finds no coherent       *)
(* route, and the publication then opens the gate before the veto.         *)
FaultRetires == Quiet /\ lifecycle = "shut" => route = "none"
=============================================================================
