---------------------------- MODULE UsbExposure ----------------------------
(***************************************************************************)
(* USB exposure: usb_lifecycle::StateMachine, the USB half of              *)
(* hid_control_executor::Controller, and the contexts that call them.      *)
(*                                                                         *)
(*   rx   the UART control task: usb.attach / usb.detach, Stage A          *)
(*   ex   the control executor task: install, detach, runtime fault        *)
(*   cb   a TinyUSB callback (TinyUSB task; executor during an uninstall)  *)
(*   sg   signal_usb_runtime_fault, in the TinyUSB task and in an ISR      *)
(*                                                                         *)
(* A step is one atomic access of the code, or a run of accesses that no   *)
(* other context can tell apart.  The lifecycle byte state_ is one record, *)
(* so a compare-exchange on it is one step; a load that decides and a      *)
(* store that acts are two steps wherever the code makes them two.  The    *)
(* byte's safety-pending and uncertain bits say nothing here and are left  *)
(* out.  The TinyUSB driver and the bus are external: any host that keeps  *)
(* mount, suspend, resume and unmount in order.                            *)
(***************************************************************************)
EXTENDS Naturals, Sequences

CONSTANTS
    GenerationModulus,  \* generations wrap (std::uint32_t: 2^32)
    QueueDepth,         \* action-queue slots left for USB actions
    FaultReason,        \* runtime faults the run raises
    FaultContext,       \* contexts they are raised from
    Command,            \* USB commands the host issues
    StopsMidCallback    \* may an uninstall end the TinyUSB task inside a callback?

ASSUME GenerationAssumption == GenerationModulus \in Nat /\ GenerationModulus > 1
ASSUME QueueAssumption == QueueDepth \in Nat
ASSUME FaultAssumption == /\ FaultReason \subseteq {"diagnostic", "overflow"}
                          /\ FaultContext \subseteq {"task", "isr"}
ASSUME CommandAssumption == Command \subseteq {"attach", "detach"}
ASSUME StopAssumption == StopsMidCallback \in BOOLEAN

VARIABLES
    word,                       \* state_: desired, observed, recovery required
    generation,
    last_error,
    teardown_boundary_started,
    runtime_fault_pending,
    active_operation,           \* the Controller's cross-domain guard
    action_queue, wake,         \* FIFO of actions; the task notification
    fault_reason, fault_committed,
    driver, bus,                \* external: TinyUSB driver, host connection
    rx, ex, cb, sg              \* program counters and locals

lifecycle == <<word, generation, last_error, teardown_boundary_started,
               runtime_fault_pending>>
control == <<active_operation, action_queue, wake, fault_reason, fault_committed>>
external == <<driver, bus>>
vars == <<lifecycle, control, external, rx, ex, cb, sg>>

Generation == 0 .. GenerationModulus - 1
DesiredExposure == {"hidden", "exposed"}
ObservedState == {"driver_not_installed", "disconnected", "attaching",
                  "mounted", "suspended", "detaching"}
ControlOperation == {"attach", "detach"}
Word == [desired : DesiredExposure, observed : ObservedState, recovery : BOOLEAN]
Action == [operation : ControlOperation, desired : DesiredExposure,
           observed : ObservedState, generation : Generation]
Event == {"mount", "unmount", "suspend", "resume"}
InstallResult == {"install_ok", "install_clean", "install_ambiguous"}
UninstallResult == {"uninstall_ok", "uninstall_failed"}

NextGeneration(g) == (g + 1) % GenerationModulus
-----------------------------------------------------------------------------
(* The lifecycle byte.                                                     *)

Hidden == word.desired = "hidden"
Detaching == Hidden /\ word.observed = "detaching"
Attaching == word.desired = "exposed" /\ word.observed = "attaching"

\* request_detach and begin_runtime_fault close exposure in one CAS.
StageAHidden == [word EXCEPT !.desired = "hidden", !.observed = "detaching"]
StageAExposed == [word EXCEPT !.desired = "exposed", !.observed = "attaching",
                              !.recovery = FALSE]

accepts_hid == word.desired = "exposed" /\ word.observed = "mounted" /\ ~word.recovery

\* observe_*: is the callback's observation current?
ObserveAllowed(e) ==
    /\ word.desired = "exposed"
    /\ ~word.recovery
    /\ CASE e = "suspend" -> word.observed = "mounted"
         [] e = "resume"  -> word.observed = "suspended"
         [] OTHER         -> word.observed /= "detaching"

\* The load half of the CAS loops of request_attach and request_detach.
AttachAccepted ==
    word.observed = "driver_not_installed" /\ ~word.recovery
DetachAccepted ==
    /\ word.desired = "exposed" /\ ~word.recovery
    /\ word.observed \notin {"attaching", "driver_not_installed"}
-----------------------------------------------------------------------------
(* rx: Controller::request_attach / request_detach                         *)

RxGoto(pc) == rx' = [rx EXCEPT !.pc = pc]

\* Mutant: the command does not ask for the guard, it takes it.
RxClaimUnguarded(o) ==
    /\ rx.pc = "idle"
    /\ active_operation' = o
    /\ rx' = [pc |-> "stage_a", operation |-> o]
    /\ UNCHANGED <<lifecycle, action_queue, wake, fault_reason, fault_committed,
                   external, ex, cb, sg>>

RxClaim(o) ==
    /\ rx.pc = "idle"
    /\ active_operation = "none"
    /\ active_operation' = o
    /\ rx' = [pc |-> "stage_a", operation |-> o]
    /\ UNCHANGED <<lifecycle, action_queue, wake, fault_reason, fault_committed,
                   external, ex, cb, sg>>

\* Busy and no-op answers change nothing and hand the guard back.
RxStageA ==
    /\ rx.pc = "stage_a"
    /\ IF IF rx.operation = "attach" THEN AttachAccepted ELSE DetachAccepted
         THEN /\ word' = IF rx.operation = "attach" THEN StageAExposed ELSE StageAHidden
              /\ RxGoto("publish")
         ELSE RxGoto("release") /\ UNCHANGED word
    /\ UNCHANGED <<generation, last_error, teardown_boundary_started,
                   runtime_fault_pending, control, external, ex, cb, sg>>

\* After the CAS: clear_last_error, and for attach the new generation.
RxPublish ==
    /\ rx.pc = "publish"
    /\ last_error' = "none"
    /\ IF rx.operation = "attach"
         THEN /\ teardown_boundary_started' = FALSE
              /\ generation' = NextGeneration(generation)
         ELSE UNCHANGED <<teardown_boundary_started, generation>>
    /\ RxGoto("schedule")
    /\ UNCHANGED <<word, runtime_fault_pending, control, external, ex, cb, sg>>

\* snapshot() and Controller::schedule: inherited ownership, bounded queue.
RxSchedule ==
    /\ rx.pc = "schedule"
    /\ active_operation = rx.operation
    /\ Len(action_queue) < QueueDepth
    /\ action_queue' = Append(action_queue,
           [operation |-> rx.operation, desired |-> word.desired,
            observed |-> word.observed, generation |-> generation])
    /\ wake' = TRUE
    /\ RxGoto("idle")
    /\ UNCHANGED <<lifecycle, active_operation, fault_reason, fault_committed,
                   external, ex, cb, sg>>

\* Refused: ownership lost, or the queue is full (of any domain's actions).
RxScheduleRefused ==
    /\ rx.pc = "schedule"
    /\ last_error' = IF rx.operation = "attach" THEN "install" ELSE "uninstall"
    /\ word' = [word EXCEPT !.recovery = TRUE]
    /\ RxGoto("release")
    /\ UNCHANGED <<generation, teardown_boundary_started, runtime_fault_pending,
                   control, external, ex, cb, sg>>

ReleaseOperation(o) ==
    active_operation' = IF active_operation = o THEN "none" ELSE active_operation

RxRelease ==
    /\ rx.pc = "release"
    /\ ReleaseOperation(rx.operation)
    /\ RxGoto("idle")
    /\ UNCHANGED <<lifecycle, action_queue, wake, fault_reason, fault_committed,
                   external, ex, cb, sg>>
-----------------------------------------------------------------------------
(* ex: Controller::task_loop                                               *)

ExGoto(pc) == ex' = [ex EXCEPT !.pc = pc]

ExWake ==
    /\ ex.pc = "wait" /\ wake
    /\ wake' = FALSE
    /\ ex' = [ex EXCEPT !.pc = "reconcile", !.drained = FALSE]
    /\ UNCHANGED <<lifecycle, active_operation, action_queue, fault_reason,
                   fault_committed, external, rx, cb, sg>>

\* reconcile_usb_runtime_fault up to its one-shot test.
ExReconcile ==
    /\ ex.pc = "reconcile"
    /\ last_error' = IF fault_reason /= "none" /\ runtime_fault_pending
                       THEN fault_reason ELSE last_error
    /\ ExGoto(IF fault_reason /= "none" /\ ~fault_committed THEN "commit_fault"
              ELSE IF ex.drained THEN "wait" ELSE "drain")
    /\ UNCHANGED <<word, generation, teardown_boundary_started, runtime_fault_pending,
                   control, external, rx, cb, sg>>

ExCommitFault ==
    /\ ex.pc = "commit_fault"
    /\ fault_committed' = TRUE
    /\ active_operation' = "none"
    /\ ExGoto("safety")
    /\ UNCHANGED <<lifecycle, action_queue, wake, fault_reason, external, rx, cb, sg>>

\* process(): an action runs only in exactly the state it was accepted in.
Current(a) ==
    /\ active_operation = a.operation
    /\ IF a.operation = "attach" THEN Attaching ELSE Detaching
    /\ word.desired = a.desired /\ word.observed = a.observed
    /\ generation = a.generation

\* Mutant: a stale action is dropped without handing the guard back.
ExProcessKeepingGuard ==
    /\ ex.pc = "drain" /\ action_queue /= <<>>
    /\ action_queue' = Tail(action_queue)
    /\ LET a == Head(action_queue)
       IN  ex' = IF Current(a)
                   THEN [ex EXCEPT !.operation = a.operation,
                                   !.pc = IF a.operation = "attach" THEN "install"
                                                                    ELSE "safety"]
                   ELSE ex
    /\ UNCHANGED <<lifecycle, active_operation, wake, fault_reason, fault_committed,
                   external, rx, cb, sg>>

ExProcess ==
    /\ ex.pc = "drain" /\ action_queue /= <<>>
    /\ action_queue' = Tail(action_queue)
    /\ LET a == Head(action_queue)
       IN  ex' = [ex EXCEPT !.operation = a.operation,
                            !.pc = IF ~Current(a) THEN "release"
                                   ELSE IF a.operation = "attach" THEN "install"
                                                                  ELSE "safety"]
    /\ UNCHANGED <<lifecycle, active_operation, wake, fault_reason, fault_committed,
                   external, rx, cb, sg>>

ExDrained ==
    /\ ex.pc = "drain" /\ action_queue = <<>>
    /\ ex' = [ex EXCEPT !.pc = "reconcile", !.drained = TRUE]
    /\ UNCHANGED <<lifecycle, control, external, rx, cb, sg>>

\* TinyUsbLifecycleBackend::install; the TinyUSB task runs from here on.
ExInstall ==
    /\ ex.pc = "install"
    /\ \E r \in InstallResult :
         /\ driver' = CASE r = "install_ok"    -> "installed"
                        [] r = "install_clean" -> "absent"
                        [] OTHER               -> "partial"
         /\ ex' = [ex EXCEPT !.pc = "complete", !.result = r]
    /\ UNCHANGED <<lifecycle, control, bus, rx, cb, sg>>

\* run_lifecycle_detach_safety takes up to 250 ms; others run meanwhile.
ExSafety ==
    /\ ex.pc = "safety"
    /\ ExGoto("boundary")
    /\ UNCHANGED <<lifecycle, control, external, rx, cb, sg>>

\* begin_uninstall: the Stage-B cut, once per accepted detach.
ExBoundary ==
    /\ ex.pc = "boundary"
    /\ teardown_boundary_started' = (teardown_boundary_started \/ Detaching)
    /\ generation' = IF Detaching /\ ~teardown_boundary_started
                       THEN NextGeneration(generation) ELSE generation
    /\ ExGoto("uninstall")
    /\ UNCHANGED <<word, last_error, runtime_fault_pending, control, external,
                   rx, cb, sg>>

\* The TinyUSB task is in no callback (an ISR may still be running).
TaskIdle == cb.pc = "idle" /\ ("task" \in FaultContext => sg["task"].pc = "idle")

\* TinyUsbLifecycleBackend::uninstall ends the TinyUSB task; tearing down a
\* configured device runs the unmount callback in the caller.
ExUninstall ==
    /\ ex.pc = "uninstall"
    /\ driver = "installed"
    /\ StopsMidCallback \/ TaskIdle
    /\ driver' = "absent"
    /\ bus' = "off"
    /\ cb' = [pc |-> IF bus = "off" THEN "idle" ELSE "check", event |-> "unmount"]
    /\ sg' = [c \in FaultContext |-> IF c = "task" THEN [sg[c] EXCEPT !.pc = "idle"]
                                                  ELSE sg[c]]
    /\ ex' = [ex EXCEPT !.pc = "complete", !.result = "uninstall_ok"]
    /\ UNCHANGED <<lifecycle, control, rx>>

ExUninstallFailed ==
    /\ ex.pc = "uninstall"
    /\ driver' = IF driver = "absent" THEN "absent" ELSE "partial"
    /\ ex' = [ex EXCEPT !.pc = "complete", !.result = "uninstall_failed"]
    /\ UNCHANGED <<lifecycle, control, bus, rx, cb, sg>>

TeardownReturned == ex.result = "uninstall_ok" => cb.pc = "idle"

\* complete_install_* / complete_uninstall_*: the test ...
ExComplete ==
    /\ ex.pc = "complete" /\ ex.operation /= "none" /\ TeardownReturned
    /\ ExGoto(IF IF ex.result \in InstallResult THEN Attaching ELSE Detaching
                THEN "apply" ELSE "release")
    /\ UNCHANGED <<lifecycle, control, external, rx, cb, sg>>

\* Mutant: a failed uninstall is taken for a finished one.
ExApplyIgnoringFailure ==
    /\ ex.pc = "apply"
    /\ word' = CASE ex.result = "install_ok" ->
                      [word EXCEPT !.recovery = FALSE, !.observed = "disconnected"]
                 [] ex.result = "install_ambiguous" -> [word EXCEPT !.recovery = TRUE]
                 [] OTHER -> [word EXCEPT !.recovery = FALSE,
                                          !.observed = "driver_not_installed"]
    /\ ExGoto("release")
    /\ UNCHANGED <<generation, last_error, teardown_boundary_started,
                   runtime_fault_pending, control, external, rx, cb, sg>>

\* ... and the stores it allows.
ExApply ==
    /\ ex.pc = "apply"
    /\ word' = CASE ex.result = "install_ok" ->
                      [word EXCEPT !.recovery = FALSE, !.observed = "disconnected"]
                 [] ex.result \in {"install_clean", "uninstall_ok"} ->
                      [word EXCEPT !.recovery = FALSE, !.observed = "driver_not_installed"]
                 [] OTHER -> [word EXCEPT !.recovery = TRUE]
    /\ last_error' = CASE ex.result \in {"install_clean", "install_ambiguous"} -> "install"
                       [] ex.result = "uninstall_failed" -> "uninstall"
                       [] OTHER -> last_error
    /\ ExGoto("release")
    /\ UNCHANGED <<generation, teardown_boundary_started, runtime_fault_pending,
                   control, external, rx, cb, sg>>

ExRelease ==
    /\ ex.pc = "release"
    /\ ReleaseOperation(ex.operation)
    /\ ex' = [ex EXCEPT !.pc = "drain", !.operation = "none"]
    /\ UNCHANGED <<lifecycle, action_queue, wake, fault_reason, fault_committed,
                   external, rx, cb, sg>>

\* complete_runtime_fault
ExFaultComplete ==
    /\ ex.pc = "complete" /\ ex.operation = "none" /\ TeardownReturned
    /\ word' = IF ~runtime_fault_pending THEN word
               ELSE [word EXCEPT !.recovery = TRUE,
                        !.observed = IF ex.result = "uninstall_ok"
                                       THEN "driver_not_installed" ELSE @]
    /\ ExGoto(IF ex.drained THEN "wait" ELSE "drain")
    /\ UNCHANGED <<generation, last_error, teardown_boundary_started,
                   runtime_fault_pending, control, external, rx, cb, sg>>
-----------------------------------------------------------------------------
(* cb: usb_event_handler with hid_runtime's on_mount / on_unmount /        *)
(* on_suspend / on_resume, as far as they reach the lifecycle.             *)

BusStep(e) ==
    CASE e = "mount"   -> bus = "off"       /\ bus' = "mounted"
      [] e = "unmount" -> bus /= "off"      /\ bus' = "off"
      [] e = "suspend" -> bus = "mounted"   /\ bus' = "suspended"
      [] OTHER         -> bus = "suspended" /\ bus' = "mounted"

CbStart(e) ==
    /\ driver /= "absent" /\ TaskIdle
    /\ BusStep(e)
    /\ cb' = [pc |-> "check", event |-> e]
    /\ UNCHANGED <<lifecycle, control, driver, rx, ex, sg>>

CbGoto(pc) == cb' = [cb EXCEPT !.pc = pc]

CbCheck ==
    /\ cb.pc = "check"
    /\ CbGoto(IF ~ObserveAllowed(cb.event) THEN "signal"
              ELSE IF cb.event = "unmount" THEN "advance" ELSE "observe")
    /\ UNCHANGED <<lifecycle, control, external, rx, ex, sg>>

\* observe_unmount opens a new generation unless already disconnected.
CbAdvance ==
    /\ cb.pc = "advance"
    /\ generation' = IF word.observed /= "disconnected"
                       THEN NextGeneration(generation) ELSE generation
    /\ CbGoto("observe")
    /\ UNCHANGED <<word, last_error, teardown_boundary_started, runtime_fault_pending,
                   control, external, rx, ex, sg>>

\* set_observed keeps whatever the other bits have become since the check.
CbObserve ==
    /\ cb.pc = "observe"
    /\ word' = [word EXCEPT !.observed = CASE cb.event = "unmount" -> "disconnected"
                                           [] cb.event = "suspend" -> "suspended"
                                           [] OTHER                -> "mounted"]
    /\ CbGoto("signal")
    /\ UNCHANGED <<generation, last_error, teardown_boundary_started,
                   runtime_fault_pending, control, external, rx, ex, sg>>

\* signal_usb_lifecycle_event
CbSignal ==
    /\ cb.pc = "signal"
    /\ wake' = TRUE
    /\ CbGoto("idle")
    /\ UNCHANGED <<lifecycle, active_operation, action_queue, fault_reason,
                   fault_committed, external, rx, ex, sg>>
-----------------------------------------------------------------------------
(* sg: Controller::signal_usb_runtime_fault, one signaller per context.    *)
(* Both cores run: an ISR interrupts the TinyUSB task and runs beside the  *)
(* other tasks.                                                            *)

SgGoto(c, pc) == sg' = [sg EXCEPT ![c].pc = pc]

\* An overflow replaces a diagnostic, never the reverse.
Retained(r) == IF r = "overflow" \/ fault_reason = "none" THEN r ELSE fault_reason

SgRaise(c, r) ==
    /\ driver /= "absent" /\ sg[c].pc = "idle"
    /\ c = "task" => TaskIdle
    /\ fault_reason' = Retained(r)
    /\ sg' = [sg EXCEPT ![c] = [pc |-> "begin", code |-> Retained(r)]]
    /\ UNCHANGED <<lifecycle, active_operation, action_queue, wake, fault_committed,
                   external, rx, ex, cb>>

\* begin_runtime_fault: the first caller owns Stage A; later ones update.
SgBegin(c) ==
    /\ sg[c].pc = "begin"
    /\ runtime_fault_pending' = TRUE
    /\ SgGoto(c, IF runtime_fault_pending THEN "update" ELSE "record")
    /\ UNCHANGED <<word, generation, last_error, teardown_boundary_started,
                   control, external, rx, ex, cb>>

SgUpdate(c) ==
    /\ sg[c].pc = "update"
    /\ last_error' = sg[c].code
    /\ SgGoto(c, "wake")
    /\ UNCHANGED <<word, generation, runtime_fault_pending, teardown_boundary_started,
                   control, external, rx, ex, cb>>

SgRecord(c) ==
    /\ sg[c].pc = "record"
    /\ last_error' = sg[c].code
    /\ teardown_boundary_started' = FALSE
    /\ SgGoto(c, "hide")
    /\ UNCHANGED <<word, generation, runtime_fault_pending, control, external, rx, ex, cb>>

SgHide(c) ==
    /\ sg[c].pc = "hide"
    /\ word' = StageAHidden
    /\ SgGoto(c, "wake")
    /\ UNCHANGED <<generation, last_error, teardown_boundary_started,
                   runtime_fault_pending, control, external, rx, ex, cb>>

SgWake(c) ==
    /\ sg[c].pc = "wake"
    /\ wake' = TRUE
    /\ SgGoto(c, "idle")
    /\ UNCHANGED <<lifecycle, active_operation, action_queue, fault_reason,
                   fault_committed, external, rx, ex, cb>>
-----------------------------------------------------------------------------
\* initialize_hidden_boot_policy and Controller::initialize
Init ==
    /\ word = [desired |-> "hidden", observed |-> "driver_not_installed",
               recovery |-> FALSE]
    /\ generation = 0
    /\ last_error = "none"
    /\ teardown_boundary_started = FALSE /\ runtime_fault_pending = FALSE
    /\ active_operation = "none" /\ action_queue = <<>> /\ wake = FALSE
    /\ fault_reason = "none" /\ fault_committed = FALSE
    /\ driver = "absent" /\ bus = "off"
    /\ rx = [pc |-> "idle", operation |-> "attach"]
    /\ ex = [pc |-> "wait", drained |-> FALSE, operation |-> "none",
             result |-> "install_ok"]
    /\ cb = [pc |-> "idle", event |-> "mount"]
    /\ sg = [c \in FaultContext |-> [pc |-> "idle", code |-> "none"]]

RxStep == RxStageA \/ RxPublish \/ RxSchedule \/ RxScheduleRefused \/ RxRelease
ExStep == \/ ExWake \/ ExReconcile \/ ExCommitFault \/ ExProcess \/ ExDrained
          \/ ExInstall \/ ExSafety \/ ExBoundary \/ ExUninstall \/ ExUninstallFailed
          \/ ExComplete \/ ExApply \/ ExRelease \/ ExFaultComplete
CbStep == CbCheck \/ CbAdvance \/ CbObserve \/ CbSignal
SgStep(c) == SgBegin(c) \/ SgUpdate(c) \/ SgRecord(c) \/ SgHide(c) \/ SgWake(c)

Next ==
    \/ \E o \in Command : RxClaim(o)
    \/ RxStep
    \/ ExStep
    \/ \E e \in Event : CbStart(e)
    \/ CbStep
    \/ \E c \in FaultContext : (\E r \in FaultReason : SgRaise(c, r)) \/ SgStep(c)

Spec == Init /\ [][Next]_vars

\* FreeRTOS runs every ready task eventually; callbacks and ISRs return.
Fairness == /\ WF_vars(RxStep) /\ WF_vars(ExStep) /\ WF_vars(CbStep)
            /\ \A c \in FaultContext : WF_vars(SgStep(c))
FairSpec == Spec /\ Fairness
-----------------------------------------------------------------------------
RxState == [pc : {"idle", "stage_a", "publish", "schedule", "release"},
            operation : ControlOperation]
ExState == [pc : {"wait", "reconcile", "commit_fault", "drain", "install", "safety",
                  "boundary", "uninstall", "complete", "apply", "release"},
            drained : BOOLEAN, operation : ControlOperation \cup {"none"},
            result : InstallResult \cup UninstallResult]
CbState == [pc : {"idle", "check", "advance", "observe", "signal"}, event : Event]
SgState == [pc : {"idle", "begin", "update", "record", "hide", "wake"},
            code : FaultReason \cup {"none"}]
LastError == {"none", "install", "uninstall"} \cup FaultReason

\* Every component has its type: no handler stores a state, an operation or a
\* fault cause the code does not define, and generations wrap.
TypeOK ==
    /\ word \in Word
    /\ generation \in Generation
    /\ last_error \in LastError
    /\ teardown_boundary_started \in BOOLEAN
    /\ runtime_fault_pending \in BOOLEAN
    /\ active_operation \in ControlOperation \cup {"none"}
    /\ action_queue \in Seq(Action)
    /\ wake \in BOOLEAN
    /\ fault_reason \in FaultReason \cup {"none"}
    /\ fault_committed \in BOOLEAN
    /\ driver \in {"absent", "installed", "partial"}
    /\ bus \in {"off", "mounted", "suspended"}
    /\ rx \in RxState
    /\ ex \in ExState
    /\ cb \in CbState
    /\ sg \in [FaultContext -> SgState]
-----------------------------------------------------------------------------
(* Safety                                                                  *)

\* Where an accepted command is: with rx, in the queue, or being executed.
RxHolds == rx.pc \in {"publish", "schedule"}
ExHolds == ex.operation /= "none" /\ ex.pc /= "release"
Pending == Len(action_queue) + (IF RxHolds THEN 1 ELSE 0) + (IF ExHolds THEN 1 ELSE 0)

\* driver_not_installed without recovery_required is what admits an attach, so
\* it is shown only when the driver really is gone, whatever install and
\* uninstall returned and whichever callback or fault came in between.
NotInstalledAbsent == AttachAccepted => driver = "absent"

\* The active_operation guard admits one USB command at a time, from its
\* Stage A to the end of its execution; a fault commit takes the guard away.
OneCommand == ~fault_committed => Pending <= 1

\* Nothing is running or about to: the state an operator sees afterwards.
Quiet == /\ rx.pc = "idle" /\ ex.pc = "wait" /\ ~wake /\ cb.pc = "idle"
         /\ \A c \in FaultContext : sg[c].pc = "idle"

\* A runtime fault fail-closes exposure for good: once all is quiet after one,
\* HID is not accepted, though the executor's commit and the two-step signal
\* may interleave with an attach in any order.
FaultFailClosed == Quiet /\ fault_reason /= "none" => ~accepts_hid

\* The cause the operator reads is the retained fault: neither a completion
\* nor an earlier, weaker signal that arrives late replaces it.
FaultCause == Quiet /\ fault_reason /= "none" => last_error = fault_reason

\* A runtime fault ends hidden, with recovery required.
FaultNeedsRecovery == Quiet /\ fault_reason /= "none" => Hidden /\ word.recovery

\* An accepted detach ends with the driver uninstalled, or asks for recovery.
DetachCompletes ==
    Quiet /\ Hidden => word.observed = "driver_not_installed" \/ word.recovery

\* A completed install keeps the `mounted` a mount callback has observed.
MountKept == Quiet /\ bus = "mounted" /\ word.desired = "exposed" /\ ~word.recovery
                => word.observed = "mounted"
-----------------------------------------------------------------------------
(* Liveness                                                                *)

\* Every path of a command, accepted, refused, stale or failed, hands the
\* guard back: the control plane never stays Busy for other commands.
GuardReleased == active_operation /= "none" ~> active_operation = "none"
=============================================================================
