---------------------------- MODULE BleExposure ----------------------------
(***************************************************************************)
(* BLE enable and disable: ble_lifecycle::StateMachine, the BLE lifecycle  *)
(* half of hid_control_executor::Controller, and the lifecycle part of     *)
(* ble_transport::Backend with its one watchdog.  Four tasks act without a *)
(* lock: the UART control task publishes Stage A, the executor performs    *)
(* actions and events, the NimBLE host task and the timer task signal.     *)
(*                                                                         *)
(* A mutator of the state machine loads a snapshot and publishes from it   *)
(* later: two steps here, the generation moving with the publication.      *)
(* One connection is configured, so a handle is only attached or not.      *)
(* Pairing, bonds, GATT, the route and profile selection are left out.     *)
(***************************************************************************)
EXTENDS Naturals, Sequences

CONSTANTS
    QueueDepth,     \* slots of the action queue other domains leave
    MaxCommands,    \* commands there are
    MaxEvents,      \* resets, peer actions and failures there are
    MaxExpiries,    \* times the watchdog runs out
    MaxGeneration,  \* no peer connects in a later generation
    Initiates       \* the profile starts security when a peer connects

ASSUME BoundAssumption ==
    /\ QueueDepth \in Nat \ {0} /\ {MaxCommands, MaxEvents} \subseteq Nat
    /\ {MaxExpiries, MaxGeneration} \subseteq Nat /\ Initiates \in BOOLEAN

VARIABLES
    state, generation,  \* state_, generation_
    attached,           \* connection_handle_ is not kNoConnection
    reset_used,         \* reset_recovery_used_
    guard,              \* active_operation_, of these two operations
    queue,              \* s_action_queue
    token,              \* overflow_authority_, 0 when none
    handoff, committed, \* ble_lifecycle_handoff_failure_, .._committed_
    terminal,           \* pairing_terminal_committed_
    deadline,           \* ble_disable_generation_ while it has a deadline, or 0
    backend_generation, \* Backend::generation_
    watchdog, running,  \* timeout_ownership_, and the esp_timer it stands for
    hidden,             \* hidden_exposure_*_
    host, adv, link,    \* external: the NimBLE host, advertising, the link
    rx, ex, task, alarm, \* control task, executor, host task, timer task
    orders, left, expiries \* of MaxCommands, MaxEvents and MaxExpiries

lifecycle == <<state, generation, attached, reset_used>>
fallback == <<token, handoff, committed>>
timer == <<watchdog, running>>
radio == <<host, adv, link>>
executor == <<terminal, deadline, ex>>
vars == <<lifecycle, guard, queue, fallback, executor, backend_generation, timer,
          hidden, radio, rx, task, alarm, orders, left, expiries>>

Lifecycle == [desired : {"hidden", "exposed"},
              observed : {"uninitialized", "enabling", "idle", "advertising",
                          "connected", "disabling", "fault"},
              ready : BOOLEAN, connected : BOOLEAN, recovery : BOOLEAN]

Published(desired, observed, ready) ==
    [desired |-> desired, observed |-> observed, ready |-> ready,
     connected |-> observed = "connected", recovery |-> observed = "fault"]
Is(s, desired, observed) == s.desired = desired /\ s.observed \in observed

Command == {"enable", "disable"}
Event == {"sync", "connect", "disconnect", "security", "complete", "reset", "timeout"}
Act(kind, g) == [kind |-> kind, generation |-> g]
NoAct == Act("none", 0)

Owned(phase, purpose) == [phase |-> phase, purpose |-> purpose]
Unowned == Owned("none", "none")
\* An exchange that gives the watchdog back if it is still the owner's.
GivesBack(phase, purpose) ==
    watchdog' = IF watchdog = Owned(phase, purpose) THEN Unowned ELSE watchdog

Released(operation) == IF guard = operation THEN "none" ELSE guard
Enqueue(a) == Len(queue) < QueueDepth /\ queue' = Append(queue, a)
Full == Len(queue) >= QueueDepth
-----------------------------------------------------------------------------
(* The executor's local state: what it does (act), the mutator it is in,   *)
(* the snapshot loaded, the generation and guard to fail with, and who     *)
(* asked for the failure or disconnection under way (why).                 *)

NoEx == [pc |-> "idle", act |-> NoAct, m |-> "none", gen |-> 0, owner |-> "none",
         seen |-> Published("hidden", "uninitialized", FALSE), why |-> "none"]

Go(pc) == ex' = [ex EXCEPT !.pc = pc]
Rest == ex' = NoEx
Enter(m, g, owner) ==
    ex' = [ex EXCEPT !.pc = "load", !.m = m, !.gen = g, !.owner = owner, !.act = NoAct]
Mutate(m, g) == Enter(m, g, ex.owner)
Fail(g, owner) == Enter("fault", g, owner)
Advertise(g, owner) ==
    ex' = [ex EXCEPT !.pc = "advertise", !.gen = g, !.owner = owner, !.act.generation = 0]

\* Mutant: a Sync completes whatever is exposed.
AdmitsAnySync(m, g) ==
    /\ g = generation
    /\ CASE m = "sync" -> state.desired = "exposed"
         [] m = "hidden_sync" ->
                ~state.recovery /\ Is(state, "hidden", {"idle"}) /\ reset_used
         [] m = "advertising" -> Is(state, "exposed", {"enabling", "advertising"})
         [] m = "connect" -> Is(state, "exposed", {"advertising"})
         [] m = "disconnect" -> attached
         [] m = "hide" -> Is(state, "hidden", {"disabling"})
         [] m = "reset" -> ~state.recovery
         [] m = "fault" -> TRUE
\* The checks a mutator makes on its snapshot, with generation g.
Admits(m, g) ==
    /\ g = generation
    /\ CASE m = "sync" -> Is(state, "exposed", {"enabling"})
         [] m = "hidden_sync" ->
                ~state.recovery /\ Is(state, "hidden", {"idle"}) /\ reset_used
         [] m = "advertising" -> Is(state, "exposed", {"enabling", "advertising"})
         [] m = "connect" -> Is(state, "exposed", {"advertising"})
         [] m = "disconnect" -> attached
         [] m = "hide" -> Is(state, "hidden", {"disabling"})
         [] m = "reset" -> ~state.recovery
         [] m = "fault" -> TRUE

\* What it publishes from the snapshot.
Publication(m, seen) ==
    CASE m = "sync" -> Published("exposed", "enabling", TRUE)
      [] m = "hidden_sync" -> Published("hidden", "idle", TRUE)
      [] m = "advertising" -> Published("exposed", "advertising", TRUE)
      [] m = "connect" -> Published("exposed", "connected", TRUE)
      [] m = "disconnect" ->
            IF Is(seen, "exposed", {"connected"})
              THEN Published("exposed", "enabling", TRUE) ELSE state
      [] m = "hide" -> Published("hidden", "idle", seen.ready)
      [] m = "reset" ->
            IF reset_used THEN Published(seen.desired, "fault", FALSE)
            ELSE Published(seen.desired,
                           IF seen.desired = "exposed" THEN "enabling" ELSE "idle", FALSE)
      [] m = "fault" -> Published(seen.desired, "fault", seen.ready)

Advances(m, seen) ==
    m = "reset" \/ (m = "disconnect" /\ Is(seen, "exposed", {"connected"}))

\* observe_disconnect retires its handle before it looks whether to go on.
Publish(m, seen) ==
    /\ state' = Publication(m, seen)
    /\ generation' = IF Advances(m, seen) THEN generation + 1 ELSE generation
    /\ attached' = CASE m = "connect" -> TRUE
                     [] m \in {"disconnect", "hide", "reset", "fault"} -> FALSE
                     [] OTHER -> attached
    /\ reset_used' = (reset_used \/ m = "reset")
-----------------------------------------------------------------------------
(* Stage A on the control task: request_ble_enable, request_ble_disable.   *)

others == <<fallback, executor, backend_generation, timer, hidden, radio, task, alarm,
            left, expiries>>

NoRx == [pc |-> "idle", operation |-> "none", generation |-> 0,
         seen |-> Published("hidden", "uninitialized", FALSE)]

RxClaim(operation) ==
    /\ rx.pc = "idle" /\ guard = "none" /\ orders > 0
    /\ guard' = operation
    /\ rx' = [rx EXCEPT !.pc = "load", !.operation = operation]
    /\ orders' = orders - 1
    /\ UNCHANGED <<lifecycle, queue, others>>

\* begin_enable, begin_disable; what they do not accept is a no-op or busy.
Accepts ==
    /\ ~state.recovery
    /\ IF rx.operation = "enable"
         THEN Is(state, "hidden", {"uninitialized", "idle"})
         ELSE Is(state, "exposed", {"advertising", "connected"})

RxLoad ==
    /\ rx.pc = "load"
    /\ IF Accepts
         THEN rx' = [rx EXCEPT !.pc = "publish", !.seen = state] /\ UNCHANGED guard
         ELSE rx' = NoRx /\ guard' = Released(rx.operation)
    /\ UNCHANGED <<lifecycle, queue, orders, others>>

RxPublish ==
    /\ rx.pc = "publish"
    /\ generation' = generation + 1
    /\ IF rx.operation = "enable"
         THEN /\ state' = Published("exposed", "enabling", rx.seen.ready)
              /\ reset_used' = FALSE
         ELSE /\ state' = [Published("hidden", "disabling", rx.seen.ready)
                             EXCEPT !.connected = rx.seen.connected]
              /\ UNCHANGED reset_used
    /\ rx' = [rx EXCEPT !.pc = "enqueue", !.generation = generation', !.seen = NoRx.seen]
    /\ UNCHANGED <<attached, guard, queue, orders, others>>

RxEnqueue ==
    /\ rx.pc = "enqueue"
    /\ Enqueue(Act(rx.operation, 0))
    /\ rx' = NoRx
    /\ UNCHANGED <<lifecycle, guard, orders, others>>

\* complete_fault on the control task, which then gives the guard back.
RxQueueFull ==
    /\ rx.pc = "enqueue" /\ Full
    /\ IF generation = rx.generation
         THEN state' = Published(state.desired, "fault", state.ready) /\ attached' = FALSE
         ELSE UNCHANGED <<state, attached>>
    /\ guard' = Released(rx.operation)
    /\ rx' = NoRx
    /\ UNCHANGED <<generation, reset_used, queue, orders, others>>

RxStart == \E operation \in Command : RxClaim(operation)
Rx == RxLoad \/ RxPublish \/ RxEnqueue \/ RxQueueFull
-----------------------------------------------------------------------------
(* The executor, hid_control_executor::Controller::task_loop and process.  *)

callers == <<rx, task, alarm, orders, expiries>>

\* physical_exposure_hidden.
\* Mutant: the barrier alone.
PhysicallyHiddenByBarrier ==
    host # "off" /\ hidden.requested /\ hidden.passed /\ ~adv
PhysicallyHidden ==
    host # "off" /\ hidden.requested /\ hidden.passed /\ link = "none" /\ ~adv
\* drive_ble_disable no longer finds its own transition.
Superseded ==
    guard # "disable" \/ deadline # generation \/ state.recovery
        \/ ~Is(state, "hidden", {"disabling"})

\* Take an action, or wake for a fallback or for the disable's samples (only
\* the sample that finds something is a step), and start reconcile_ble_fallbacks:
\* the handoff latch first, then consume_ble_overflow, which reads the
\* generation before it looks at the token.
Take ==
    /\ ex.pc = "idle"
    /\ LET unhonoured == handoff /\ ~committed
           begin(act, why) ==
               ex' = [ex EXCEPT !.pc = IF unhonoured THEN "fail" ELSE "overflow", !.act = act,
                                !.why = IF unhonoured THEN "handoff" ELSE why,
                                !.gen = generation]
       IN \/ /\ queue # <<>>
             /\ begin(Head(queue), "none")
             /\ queue' = Tail(queue)
          \/ /\ queue = <<>> /\ (unhonoured \/ token # 0 \/ deadline # 0)
             /\ begin(NoAct, IF token = 0 THEN "sample" ELSE "none")
             /\ UNCHANGED queue
    /\ UNCHANGED <<lifecycle, guard, fallback, terminal, deadline, backend_generation,
                   timer, hidden, radio, callers, left>>

Drops == ex.act.kind \in Event
Perform == ex' = [ex EXCEPT !.pc = IF ex.act.kind = "none" THEN "drive" ELSE "act",
                            !.gen = 0,
                            !.why = IF @ = "overflow" THEN "none" ELSE @]
Suppress == IF Drops THEN Rest ELSE Perform

Overflow ==
    /\ ex.pc = "overflow"
    /\ \/ /\ token = ex.gen /\ ex.gen = generation
          /\ IF committed
               THEN Suppress /\ token' = 0
               ELSE ex' = [ex EXCEPT !.pc = "fail", !.why = "overflow"] /\ UNCHANGED token
       \/ /\ token = ex.gen /\ ex.gen # generation
          /\ ex' = [ex EXCEPT !.gen = generation] /\ UNCHANGED token
       \/ /\ token \notin {0, ex.gen}
          /\ ex' = [ex EXCEPT !.gen = generation] /\ token' = 0
       \/ /\ token = 0
          /\ IF committed THEN Suppress ELSE Perform
          /\ UNCHANGED token
    /\ UNCHANGED <<lifecycle, guard, queue, handoff, committed, terminal, deadline,
                   backend_generation, timer, hidden, radio, callers, left>>

\* fail_current_ble_queue_overflow and consume_ble_overflow take down the link
\* and fail with the guard of the BLE command under way.
FailCurrent ==
    /\ ex.pc = "fail"
    /\ ex' = [ex EXCEPT !.gen = generation, !.seen = state,
                        !.pc = IF state.connected THEN "arm" ELSE "owner"]
    /\ UNCHANGED <<lifecycle, guard, queue, fallback, terminal, deadline,
                   backend_generation, timer, hidden, radio, callers, left>>

FailOwner ==
    /\ ex.pc = "owner"
    /\ ex' = [ex EXCEPT !.pc = "load", !.m = "fault", !.seen = NoEx.seen,
                        !.owner = IF \/ guard = "enable" /\ ex.seen.observed = "enabling"
                                     \/ guard = "disable" /\ ex.seen.observed = "disabling"
                                    THEN guard ELSE "none"]
    /\ UNCHANGED <<lifecycle, guard, queue, fallback, terminal, deadline,
                   backend_generation, timer, hidden, radio, callers, left>>

\* The end of fail_ble: the guard, then what its caller goes on with.
\* Mutant: commits the handoff whether or not the fault was published.
AfterFaultAnyhow ==
    /\ ex.pc = "failed"
    /\ guard' = Released(ex.owner)
    /\ IF ex.why = "handoff"
         THEN committed' = TRUE /\ ex' = [ex EXCEPT !.pc = "overflow", !.why = "none"]
              /\ UNCHANGED token
         ELSE IF ex.why = "overflow"
                THEN /\ token' = IF token = ex.gen THEN 0 ELSE token
                     /\ Suppress
                     /\ UNCHANGED committed
                ELSE Rest /\ UNCHANGED <<token, committed>>
    /\ UNCHANGED <<lifecycle, queue, handoff, terminal, deadline, backend_generation,
                   timer, hidden, radio, callers, left>>
AfterFault ==
    /\ ex.pc = "failed"
    /\ guard' = Released(ex.owner)
    /\ IF ex.why = "handoff"
         THEN IF generation = ex.gen /\ state.recovery
                THEN /\ committed' = TRUE
                     /\ ex' = [ex EXCEPT !.pc = "overflow", !.why = "none"]
                     /\ UNCHANGED token
                ELSE Go("fail") /\ UNCHANGED <<token, committed>>
         ELSE IF ex.why = "overflow"
                THEN /\ token' = IF token = ex.gen THEN 0 ELSE token
                     /\ Suppress
                     /\ UNCHANGED committed
                ELSE Rest /\ UNCHANGED <<token, committed>>
    /\ UNCHANGED <<lifecycle, queue, handoff, terminal, deadline, backend_generation,
                   timer, hidden, radio, callers, left>>

\* Every mutator: load, and later publish.
Load ==
    /\ ex.pc = "load"
    /\ \/ /\ Admits(ex.m, ex.gen)
          /\ ex' = [ex EXCEPT !.pc = "publish", !.seen = state]
       \/ /\ ~Admits(ex.m, ex.gen)
          /\ CASE ex.m = "fault" -> Go("failed")
               [] ex.m = "advertising" -> Go("failed")
               [] ex.m = "hidden_sync" -> Fail(ex.gen, guard)
               [] ex.m = "reset" -> Fail(generation, guard)
               [] OTHER -> Rest
    /\ UNCHANGED <<lifecycle, guard, queue, fallback, terminal, deadline,
                   backend_generation, timer, hidden, radio, callers, left>>

\* `failed` also serves the two that end by giving the guard of an enable back.
Store ==
    /\ ex.pc = "publish"
    /\ Publish(ex.m, ex.seen)
    /\ terminal' = (terminal /\ ex.m # "connect")
    /\ deadline' = IF ex.m = "hide" THEN 0 ELSE deadline
    /\ CASE ex.m \in {"fault", "advertising"} -> Go("failed")
         [] ex.m = "sync" -> Advertise(ex.gen, "enable")
         [] ex.m = "hide" -> ex' = [ex EXCEPT !.pc = "failed", !.owner = "disable"]
         [] ex.m = "connect" ->
                IF Initiates /\ link = "none" THEN Go("security") ELSE Rest
         [] ex.m = "disconnect" -> Go("disconnected")
         [] ex.m = "reset" ->
                IF reset_used THEN Fail(generation', guard) ELSE Go("renumber")
         [] OTHER -> Rest
    /\ UNCHANGED <<guard, queue, fallback, backend_generation, timer, hidden, radio,
                   callers, left>>
-----------------------------------------------------------------------------
(* process and process_ble_event, one disjunct per kind.                   *)

Current == ex.act.generation = generation

\* The first initialization arms the watchdog while there is no host task, and
\* nothing that could come between its two halves.
BeginEnable ==
    /\ ex.act.kind = "enable"
    /\ IF guard # "enable" \/ ~Is(state, "exposed", {"enabling"})
         THEN /\ guard' = Released("enable") /\ Rest
              /\ UNCHANGED <<backend_generation, timer, host, left>>
         ELSE /\ backend_generation' = generation
              /\ \/ /\ state.ready /\ Advertise(generation, "enable")
                    /\ UNCHANGED <<timer, host, left>>
                 \/ /\ ~state.ready /\ host # "off"     \* already initialized
                    /\ Rest /\ UNCHANGED <<timer, host, left>>
                 \/ /\ ~state.ready /\ host = "off" /\ watchdog = Unowned
                    /\ watchdog' = Owned("armed", "sync") /\ running' = TRUE
                    /\ host' = "starting" /\ Rest /\ UNCHANGED left
                 \/ /\ ~state.ready /\ host = "off" /\ left > 0
                    /\ left' = left - 1 /\ Fail(generation, "enable")
                    /\ UNCHANGED <<timer, host>>
              /\ UNCHANGED guard
    /\ UNCHANGED <<deadline, terminal>>

BeginDisable ==
    /\ ex.act.kind = "disable"
    /\ IF guard # "disable" \/ ~Is(state, "hidden", {"disabling"})
         THEN /\ guard' = Released("disable") /\ Rest
              /\ UNCHANGED <<backend_generation, deadline>>
         ELSE /\ backend_generation' = generation /\ deadline' = generation
              /\ Go("hide") /\ UNCHANGED guard
    /\ UNCHANGED <<timer, host, terminal, left>>

\* Steps of events that only choose what comes next.
Judge ==
    /\ \/ /\ ex.act.kind = "sync"
          /\ IF state.desired = "exposed" THEN Mutate("sync", ex.act.generation)
             ELSE IF /\ Current /\ ~state.recovery /\ ~state.ready
                     /\ state.observed \in {"enabling", "idle"}
                    THEN Mutate("hidden_sync", ex.act.generation)
                    ELSE Rest
       \/ ex.act.kind = "connect" /\ Mutate("connect", ex.act.generation)
       \/ /\ ex.act.kind = "disconnect"
          /\ Enter("disconnect", ex.act.generation,
                   IF guard = "disable" THEN guard ELSE "none")
       \/ /\ ex.act.kind = "security"
          /\ IF Current /\ attached THEN Go("security") ELSE Rest
       \/ /\ ex.act.kind = "complete"
          /\ IF Current /\ state.desired = "exposed" /\ ~state.connected
               THEN Advertise(ex.act.generation, "none") ELSE Rest
       \/ /\ ex.act.kind = "reset"
          /\ IF Current /\ ~state.recovery
               THEN Mutate("reset", ex.act.generation) ELSE Rest
       \/ ex.act.kind = "timeout" /\ Fail(ex.act.generation, guard)
    /\ terminal' = (terminal /\ ~(ex.act.kind = "reset" /\ ex'.pc = "load"))
    /\ UNCHANGED <<guard, backend_generation, timer, host, deadline, left>>

Dispatch ==
    /\ ex.pc = "act"
    /\ BeginEnable \/ BeginDisable \/ Judge
    /\ UNCHANGED <<lifecycle, queue, fallback, hidden, adv, link, callers>>

\* set_generation after a reset or a disconnect that goes on advertising.
Renumber ==
    /\ ex.pc \in {"renumber", "disconnected"}
    /\ IF ex.pc = "renumber"
         THEN backend_generation' = generation /\ Rest /\ UNCHANGED terminal
         ELSE \/ /\ ex.owner = "disable"
                 /\ ex.seen.observed \in {"disabling", "connected"}
                 /\ Go("drive") /\ terminal' = FALSE
                 /\ UNCHANGED backend_generation
              \/ /\ ex.owner # "disable" /\ Is(ex.seen, "exposed", {"connected"})
                 /\ backend_generation' = generation /\ terminal' = FALSE
                 /\ Advertise(generation, "none")
              \/ /\ ~Is(ex.seen, "exposed", {"connected"})
                 /\ ~(ex.owner = "disable" /\ Is(ex.seen, "hidden", {"disabling"}))
                 /\ Rest /\ UNCHANGED <<backend_generation, terminal>>
    /\ UNCHANGED <<lifecycle, guard, queue, fallback, deadline, timer, hidden, radio,
                   callers, left>>

\* start_advertising forgets a hidden exposure first; the stack refuses while
\* it is not synchronized, advertises already or has its one connection.
StartAdvertising ==
    /\ ex.pc = "advertise"
    /\ hidden' = [hidden EXCEPT !.requested = FALSE, !.passed = FALSE, !.claimed = FALSE]
    /\ IF host = "synced" /\ ~adv /\ link = "none"
         THEN /\ adv' = TRUE
              /\ IF ex.act.kind = "complete" THEN Rest ELSE Mutate("advertising", ex.gen)
         ELSE Fail(ex.gen, ex.owner) /\ UNCHANGED adv
    /\ UNCHANGED <<lifecycle, guard, queue, fallback, terminal, deadline,
                   backend_generation, timer, host, link, callers, left>>

\* begin_hidden_exposure: stop advertising, then take down the connection
\* there is and queue the barrier behind what the host task is handling.
HideFails ==
    /\ hidden' = [hidden EXCEPT !.requested = FALSE, !.passed = FALSE, !.claimed = FALSE]
    /\ Fail(generation, "disable") /\ deadline' = 0
    /\ UNCHANGED <<adv, link>>

Hide ==
    /\ ex.pc = "hide"
    /\ \/ /\ hidden' = [hidden EXCEPT !.requested = TRUE, !.passed = FALSE, !.claimed = FALSE]
          /\ adv' = FALSE
          /\ Go("sweep")
          /\ UNCHANGED <<deadline, link, left>>
       \/ HideFails /\ left > 0 /\ left' = left - 1
    /\ UNCHANGED <<lifecycle, guard, queue, fallback, terminal, backend_generation,
                   timer, host, callers>>

Sweep ==
    /\ ex.pc = "sweep"
    /\ LET claims == link \in {"up", "closing"} /\ ~hidden.claimed
       IN \/ /\ link' = IF claims THEN "closing" ELSE link
             /\ hidden' = [hidden EXCEPT !.claimed = @ \/ claims]
             /\ Go("barrier") /\ UNCHANGED <<deadline, left>>
          \/ /\ claims /\ left > 0 /\ left' = left - 1
             /\ hidden' = [hidden EXCEPT !.claimed = TRUE, !.requested = FALSE]
             /\ Fail(generation, "disable") /\ deadline' = 0 /\ UNCHANGED link
    /\ UNCHANGED <<lifecycle, guard, queue, fallback, terminal, backend_generation,
                   timer, host, adv, callers>>

QueueBarrier ==
    /\ ex.pc = "barrier"
    /\ hidden' = [hidden EXCEPT !.queued = TRUE, !.requested = ~hidden.queued]
    /\ IF hidden.queued
         THEN Fail(generation, "disable") /\ deadline' = 0
         ELSE Go("drive") /\ UNCHANGED deadline
    /\ UNCHANGED <<lifecycle, guard, queue, fallback, terminal, backend_generation,
                   timer, radio, callers, left>>

\* Mutant: no deadline.
DrivePatiently ==
    /\ ex.pc = "drive"
    /\ IF guard # "disable" \/ deadline = 0
         THEN deadline' = 0 /\ Rest
         ELSE /\ IF Superseded THEN deadline' = 0 /\ Fail(generation, "disable")
                 ELSE /\ IF PhysicallyHidden THEN Mutate("hide", deadline) ELSE Rest
                      /\ UNCHANGED deadline
    /\ UNCHANGED <<lifecycle, guard, queue, fallback, terminal, backend_generation,
                   timer, hidden, radio, callers, left>>
Drive ==
    /\ ex.pc = "drive"
    /\ \/ (guard # "disable" \/ deadline = 0) /\ deadline' = 0 /\ Rest
       \/ /\ guard = "disable" /\ deadline # 0
          /\ \/ deadline' = 0 /\ Fail(generation, "disable")
             \/ /\ ~Superseded /\ ~PhysicallyHidden /\ ex.why # "sample"
                /\ Rest /\ UNCHANGED deadline
             \/ /\ ~Superseded /\ PhysicallyHidden
                /\ Mutate("hide", deadline) /\ UNCHANGED deadline
    /\ UNCHANGED <<lifecycle, guard, queue, fallback, terminal, backend_generation,
                   timer, hidden, radio, callers, left>>

\* terminate_security_connection, for the first failure of a connection.
Security ==
    /\ ex.pc = "security"
    /\ IF state.connected /\ ~terminal
         THEN /\ terminal' = TRUE
              /\ ex' = [ex EXCEPT !.pc = "arm", !.gen = generation, !.why = "security",
                                  !.act = NoAct]
         ELSE Rest /\ UNCHANGED terminal
    /\ UNCHANGED <<lifecycle, guard, queue, fallback, deadline, backend_generation,
                   timer, hidden, radio, callers, left>>

\* Backend::disconnect: the watchdog, then the request.
AfterDisconnect(result) ==
    IF ex.why # "security" THEN Go("owner")
    ELSE CASE result = "started" -> Rest
           [] result = "absent" ->
                IF Is(state, "exposed", {"connected"}) /\ generation = ex.gen
                  THEN ex' = [ex EXCEPT !.pc = "load", !.m = "disconnect", !.owner = "none",
                                        !.why = "none"]
                  ELSE Rest
           [] result = "error" -> ex' = [ex EXCEPT !.pc = "load", !.m = "fault",
                                                   !.owner = "none", !.why = "none"]

Arm ==
    /\ ex.pc = "arm"
    /\ IF watchdog = Unowned
         THEN watchdog' = Owned("armed", "disconnect") /\ Go("start")
         ELSE AfterDisconnect("error") /\ UNCHANGED watchdog
    /\ UNCHANGED <<lifecycle, guard, queue, fallback, terminal, deadline,
                   backend_generation, running, hidden, radio, callers, left>>

\* esp_timer_start_once refuses a timer that runs.
Start ==
    /\ ex.pc = "start"
    /\ running' = TRUE /\ Go(IF running THEN "disarm" ELSE "terminate")
    /\ UNCHANGED <<lifecycle, guard, queue, fallback, terminal, deadline,
                   backend_generation, watchdog, hidden, radio, callers, left>>

Disarm ==
    /\ ex.pc = "disarm"
    /\ GivesBack("armed", "disconnect") /\ AfterDisconnect("error")
    /\ UNCHANGED <<lifecycle, guard, queue, fallback, terminal, deadline,
                   backend_generation, running, hidden, radio, callers, left>>

Terminate ==
    /\ ex.pc = "terminate"
    /\ LET known == link \in {"up", "closing"}
       IN \/ /\ known /\ link' = "closing" /\ AfterDisconnect("started")
             /\ UNCHANGED left
          \/ /\ known => left > 0
             /\ left' = IF known THEN left - 1 ELSE left
             /\ ex' = [ex EXCEPT !.pc = "withdraw",
                                 !.owner = IF known THEN "error" ELSE "absent"]
             /\ UNCHANGED link
    /\ UNCHANGED <<lifecycle, guard, queue, fallback, terminal, deadline,
                   backend_generation, timer, hidden, host, adv, callers>>

\* cancel_timeout of a disconnect that was not initiated.
Withdraw ==
    /\ ex.pc = "withdraw"
    /\ IF watchdog = Owned("armed", "disconnect")
         THEN watchdog' = Owned("cancelling", "disconnect") /\ Go("cancel")
         ELSE AfterDisconnect(ex.owner) /\ UNCHANGED watchdog
    /\ UNCHANGED <<lifecycle, guard, queue, fallback, terminal, deadline,
                   backend_generation, running, hidden, radio, callers, left>>

CancelDisconnect ==
    /\ ex.pc = "cancel"
    /\ GivesBack("cancelling", "disconnect") /\ running' = FALSE
    /\ AfterDisconnect(ex.owner)
    /\ UNCHANGED <<lifecycle, guard, queue, fallback, terminal, deadline,
                   backend_generation, hidden, radio, callers, left>>

Work == Overflow \/ FailCurrent \/ FailOwner \/ AfterFault \/ Load
            \/ Store \/ Dispatch \/ Renumber \/ StartAdvertising \/ Hide \/ Sweep
            \/ QueueBarrier \/ Drive \/ Security \/ Arm \/ Start \/ Disarm \/ Terminate
            \/ Withdraw \/ CancelDisconnect
Executor == Take \/ Work
-----------------------------------------------------------------------------
(* ble_transport::Backend on the NimBLE host task: ev is the event being   *)
(* signalled, then what follows it; a handler runs to its end before the   *)
(* next one starts.                                                        *)

control == <<rx, executor, committed, guard, orders, expiries>>
NoTask == [pc |-> "idle", ev |-> NoAct]
Signal(kind) == task' = [pc |-> "stamp", ev |-> Act(kind, 0)]

\* event_targets_current_ble_authority.
Targets(ev) ==
    /\ ev.generation = generation
    /\ CASE ev.kind = "connect" -> Is(state, "exposed", {"advertising"})
         [] ev.kind \in {"disconnect", "security"} -> state.connected /\ attached
         [] OTHER -> TRUE

\* After the controller accepted a peer: the host knows the connection, takes
\* it down when a hide is under way, and signals it.
Accept ==
    /\ adv /\ generation <= MaxGeneration
    /\ adv' = FALSE /\ link' = "establishing"
    /\ UNCHANGED <<lifecycle, control, queue, token, handoff, backend_generation, timer,
                   hidden, host, task, alarm, left>>

Insert ==
    /\ link = "establishing" /\ task.pc = "idle"
    /\ link' = "up"
    /\ task' = [NoTask EXCEPT !.pc = "inserted"]
    /\ UNCHANGED <<lifecycle, control, queue, token, handoff, backend_generation, timer,
                   hidden, host, adv, alarm, left>>

Connected ==
    /\ task.pc = "inserted"
    /\ LET claims == hidden.requested /\ ~hidden.claimed
       IN /\ hidden' = [hidden EXCEPT !.claimed = @ \/ claims]
          /\ link' = IF claims THEN "closing" ELSE link
    /\ Signal("connect")
    /\ UNCHANGED <<lifecycle, control, queue, token, handoff, backend_generation, timer,
                   host, adv, alarm, left>>

\* The connection leaves NimBLE's table before its callback.
Disconnected ==
    /\ link \in {"up", "closing"} /\ task.pc = "idle"
    /\ left' = IF link = "up" THEN left - 1 ELSE left
    /\ link = "up" => left > 0
    /\ link' = "none"
    /\ Signal("disconnect")
    /\ UNCHANGED <<lifecycle, control, queue, token, handoff, backend_generation, timer,
                   hidden, host, adv, alarm>>

\* A failed pairing or encryption, and advertising that ended by itself.
PeerEvent ==
    /\ task.pc = "idle" /\ left > 0
    /\ \/ link = "up" /\ Signal("security") /\ UNCHANGED adv
       \/ adv /\ adv' = FALSE /\ Signal("complete")
    /\ left' = left - 1
    /\ UNCHANGED <<lifecycle, control, queue, token, handoff, backend_generation, timer,
                   hidden, host, link, alarm>>

\* on_sync; a failed address or database look-up is signalled as a timeout.
Synchronize ==
    /\ host \in {"starting", "resetting"} /\ task.pc = "idle"
    /\ host' = "synced"
    /\ \/ Signal("sync") /\ UNCHANGED left
       \/ Signal("timeout") /\ left > 0 /\ left' = left - 1
    /\ UNCHANGED <<lifecycle, control, queue, token, handoff, backend_generation, timer,
                   hidden, adv, link, alarm>>

\* The controller resets: the stack has no link and does not advertise any
\* more, and may report the broken connection before it calls on_reset.
Reset ==
    /\ host = "synced" /\ task.pc = "idle" /\ left > 0
    /\ host' = "resetting" /\ adv' = FALSE /\ link' = "none"
    /\ left' = left - 1
    /\ \/ task' = [NoTask EXCEPT !.pc = "reset"]
       \/ /\ link \in {"up", "closing"}
          /\ Signal("disconnect")
    /\ UNCHANGED <<lifecycle, control, queue, token, handoff, backend_generation, timer,
                   hidden, alarm>>

\* on_reset: the new identity at once, the watchdog, then the old one's event.
OnReset ==
    /\ task.pc = "reset"
    /\ backend_generation' = backend_generation + 1
    /\ task' = [pc |-> "rearm", ev |-> Act("reset", backend_generation)]
    /\ UNCHANGED <<lifecycle, control, queue, token, handoff, timer, hidden, radio,
                   alarm, left>>

Rearm ==
    /\ task.pc = "rearm"
    /\ IF watchdog = Unowned
         THEN watchdog' = Owned("armed", "sync") /\ task' = [task EXCEPT !.pc = "start"]
              /\ UNCHANGED handoff
         ELSE handoff' = TRUE /\ task' = [task EXCEPT !.pc = "signal"] /\ UNCHANGED watchdog
    /\ UNCHANGED <<lifecycle, control, queue, token, backend_generation, running, hidden,
                   radio, alarm, left>>

StartSync ==
    /\ task.pc = "start"
    /\ running' = TRUE
    /\ task' = [task EXCEPT !.pc = IF running THEN "disarm" ELSE "signal"]
    /\ UNCHANGED <<lifecycle, control, queue, token, handoff, backend_generation, watchdog,
                   hidden, radio, alarm, left>>

DisarmSync ==
    /\ task.pc = "disarm"
    /\ GivesBack("armed", "sync")
    /\ handoff' = TRUE /\ task' = [task EXCEPT !.pc = "signal"]
    /\ UNCHANGED <<lifecycle, control, queue, token, backend_generation, running, hidden,
                   radio, alarm, left>>

Barrier ==
    /\ hidden.queued /\ task.pc = "idle"
    /\ hidden' = [hidden EXCEPT !.queued = FALSE, !.passed = @ \/ hidden.requested]
    /\ UNCHANGED <<lifecycle, control, queue, token, handoff, backend_generation, timer,
                   radio, task, alarm, left>>

\* A handler cancels its own watchdog once its event is safe: a disconnect
\* that is not queued leaves it armed, the others have the handoff latch.
Ended(ev) == [pc |-> IF ev.kind = "disconnect" /\ host = "resetting" THEN "reset" ELSE "idle",
              ev |-> NoAct]
AfterSignal(ev, published) ==
    task' = IF ev.kind \in {"sync", "timeout"} \/ (ev.kind = "disconnect" /\ published)
              THEN [pc |-> "cancel", ev |-> Act(ev.kind, 0)] ELSE Ended(ev)

\* Events whose loss sets the handoff latch.
Latched(ev) == ev.kind \in {"sync", "timeout", "reset"}

\* Backend::signal reads the generation, signal_ble_event takes it from there.
Stamp ==
    /\ task.pc = "stamp"
    /\ task' = [pc |-> "signal", ev |-> Act(task.ev.kind, backend_generation)]
    /\ UNCHANGED <<lifecycle, control, queue, token, handoff, backend_generation, timer,
                   hidden, radio, alarm, left>>

SignalQueued ==
    /\ task.pc = "signal"
    /\ Enqueue(task.ev)
    /\ AfterSignal(task.ev, TRUE)
    /\ UNCHANGED <<lifecycle, control, token, handoff, backend_generation, timer, hidden,
                   radio, alarm, left>>

SignalFull ==
    /\ task.pc = "signal" /\ Full
    /\ token' = IF Targets(task.ev) THEN task.ev.generation ELSE token
    /\ link' = IF task.ev.kind = "connect" /\ link = "up" THEN "closing" ELSE link
    /\ task' = [task EXCEPT !.pc = "lost"]
    /\ UNCHANGED <<lifecycle, control, queue, handoff, backend_generation, timer, hidden,
                   host, adv, alarm, left>>

SignalLost ==
    /\ task.pc = "lost"
    /\ handoff' = (handoff \/ Latched(task.ev))
    /\ AfterSignal(task.ev, FALSE)
    /\ UNCHANGED <<lifecycle, control, queue, token, backend_generation, timer, hidden,
                   radio, alarm, left>>

\* cancel_timeout: cancelling until the timer has stopped.
CancelPurpose == IF task.ev.kind = "disconnect" THEN "disconnect" ELSE "sync"
BeginCancel ==
    /\ task.pc = "cancel"
    /\ IF watchdog = Owned("armed", CancelPurpose)
         THEN watchdog' = Owned("cancelling", CancelPurpose)
              /\ task' = [task EXCEPT !.pc = "stop"]
         ELSE task' = Ended(task.ev) /\ UNCHANGED watchdog
    /\ UNCHANGED <<lifecycle, control, queue, token, handoff, backend_generation, running,
                   hidden, radio, alarm, left>>

\* Mutant: returns early when the timer has expired already.
CompleteCancelOfActive ==
    /\ task.pc = "stop"
    /\ IF running THEN GivesBack("cancelling", CancelPurpose) ELSE UNCHANGED watchdog
    /\ running' = FALSE
    /\ task' = Ended(task.ev)
    /\ UNCHANGED <<lifecycle, control, queue, token, handoff, backend_generation, hidden,
                   radio, alarm, left>>
CompleteCancel ==
    /\ task.pc = "stop"
    /\ GivesBack("cancelling", CancelPurpose) /\ running' = FALSE
    /\ task' = Ended(task.ev)
    /\ UNCHANGED <<lifecycle, control, queue, token, handoff, backend_generation, hidden,
                   radio, alarm, left>>

HostStarts == Accept \/ Synchronize \/ Disconnected \/ PeerEvent \/ Reset
HostTask == Insert \/ Connected \/ OnReset \/ Rearm \/ StartSync \/ DisarmSync \/ Barrier
                \/ Stamp \/ SignalQueued \/ SignalFull \/ SignalLost \/ BeginCancel
                \/ CompleteCancel
-----------------------------------------------------------------------------
(* timeout_callback on the timer task.                                     *)

NoAlarm == [pc |-> "idle", purpose |-> "none", ev |-> NoAct]

Expire ==
    /\ running /\ alarm.pc = "idle" /\ expiries > 0
    /\ running' = FALSE /\ expiries' = expiries - 1
    /\ alarm' = [NoAlarm EXCEPT !.pc = "due"]
    /\ UNCHANGED <<lifecycle, guard, queue, fallback, executor, backend_generation, watchdog,
                   hidden, radio, rx, task, orders, left>>

\* Whoever is armed by now is claimed.
BeginTimeout ==
    /\ alarm.pc = "due"
    /\ IF watchdog.phase = "armed"
         THEN /\ watchdog' = [watchdog EXCEPT !.phase = "firing"]
              /\ alarm' = [NoAlarm EXCEPT !.pc = "stamp", !.purpose = watchdog.purpose]
         ELSE alarm' = NoAlarm /\ UNCHANGED watchdog
    /\ UNCHANGED <<lifecycle, control, queue, token, handoff, backend_generation, running,
                   hidden, radio, task, left>>

StampTimeout ==
    /\ alarm.pc = "stamp"
    /\ alarm' = [alarm EXCEPT !.pc = "signal", !.ev = Act("timeout", backend_generation)]
    /\ UNCHANGED <<lifecycle, control, queue, token, handoff, backend_generation, timer,
                   hidden, radio, task, left>>

TimeoutQueued ==
    /\ alarm.pc = "signal"
    /\ Enqueue(alarm.ev)
    /\ alarm' = [alarm EXCEPT !.pc = "complete", !.ev = NoAct]
    /\ UNCHANGED <<lifecycle, control, token, handoff, backend_generation, timer, hidden,
                   radio, task, left>>

TimeoutFull ==
    /\ alarm.pc = "signal" /\ Full
    /\ token' = IF Targets(alarm.ev) THEN alarm.ev.generation ELSE token
    /\ alarm' = [alarm EXCEPT !.pc = "lost", !.ev = NoAct]
    /\ UNCHANGED <<lifecycle, control, queue, handoff, backend_generation, timer, hidden,
                   radio, task, left>>

TimeoutLost ==
    /\ alarm.pc = "lost"
    /\ handoff' = TRUE
    /\ alarm' = [alarm EXCEPT !.pc = "complete"]
    /\ UNCHANGED <<lifecycle, control, queue, token, backend_generation, timer, hidden,
                   radio, task, left>>

CompleteTimeout ==
    /\ alarm.pc = "complete"
    /\ GivesBack("firing", alarm.purpose)
    /\ alarm' = NoAlarm
    /\ UNCHANGED <<lifecycle, control, queue, token, handoff, backend_generation, running,
                   hidden, radio, task, left>>

Alarm == BeginTimeout \/ StampTimeout \/ TimeoutQueued \/ TimeoutFull \/ TimeoutLost
             \/ CompleteTimeout
-----------------------------------------------------------------------------
Init ==
    /\ state = Published("hidden", "uninitialized", FALSE) /\ generation = 0
    /\ attached = FALSE /\ reset_used = FALSE
    /\ guard = "none" /\ queue = <<>>
    /\ token = 0 /\ handoff = FALSE /\ committed = FALSE
    /\ terminal = FALSE /\ deadline = 0 /\ backend_generation = 0
    /\ watchdog = Unowned /\ running = FALSE
    /\ hidden = [requested |-> FALSE, passed |-> FALSE, claimed |-> FALSE, queued |-> FALSE]
    /\ host = "off" /\ adv = FALSE /\ link = "none"
    /\ rx = NoRx /\ ex = NoEx /\ task = NoTask /\ alarm = NoAlarm
    /\ orders = MaxCommands /\ left = MaxEvents /\ expiries = MaxExpiries

Next == RxStart \/ Rx \/ Executor \/ Alarm \/ HostStarts \/ HostTask \/ Expire
Spec == Init /\ [][Next]_vars

\* The tasks do not all stop while one of them can go on, and a running timer
\* expires; nothing outside has to happen, neither a synchronization nor the
\* end of a connection.
Fairness == WF_vars(Rx \/ Executor \/ HostTask \/ Alarm \/ Expire)
FairSpec == Spec /\ Fairness
-----------------------------------------------------------------------------
\* A disable publishes hidden idle only when nothing is on the air, and while the
\* state machine shows hidden idle nothing comes on the air: not the advertising
\* that a Sync or a Disconnect of the time before restarts, nor a peer that the
\* stack was still establishing when the disable looked.
HiddenQuiet ==
    [][/\ Store /\ ex.m = "hide" => ~adv /\ link = "none"
       /\ Is(state, "hidden", {"idle"}) /\ ~adv /\ link = "none" => ~adv' /\ link' = "none"]_vars

\* Whoever owns the watchdog lets it go: an armed owner has a timer that runs, an
\* expiry under way or the arming still to complete, a firing one the alarm, a
\* cancelling one the task that is stopping the timer.  With no owner left behind
\* every later connection and reset can arm it again.
WatchdogHeld ==
    /\ watchdog.phase = "armed" =>
         \/ running \/ alarm.pc = "due"
         \/ watchdog.purpose = "disconnect" /\ ex.pc \in {"start", "disarm"}
         \/ watchdog.purpose = "sync" /\ task.pc \in {"start", "disarm"}
    /\ watchdog.phase = "firing" =>
         /\ alarm.pc \in {"stamp", "signal", "lost", "complete"}
         /\ alarm.purpose = watchdog.purpose
    /\ watchdog.phase = "cancelling" =>
         \/ watchdog.purpose = "disconnect" /\ ex.pc = "cancel"
         \/ task.pc = "stop" /\ watchdog.purpose = CancelPurpose

\* No event, command or half-done mutator that has seen a recovery-required fault
\* clears it: what undoes one published from a snapshot older than the fault.
FaultKept ==
    [][state.recovery /\ ~state'.recovery
         => (RxPublish /\ ~rx.seen.recovery) \/ (Store /\ ~ex.seen.recovery)]_vars

\* The handoff latch of a Reset, a Sync or a Timeout that found the queue full
\* is honoured: the executor ends in the fault, though the generation moves.
HandoffHonoured == handoff /\ ~committed ~> state.recovery

\* A disable gives its guard back, by a hidden exposure or by a fault: a peer
\* or a synchronization that never ends cannot keep it.
GuardReturned == guard = "disable" ~> guard # "disable"
-----------------------------------------------------------------------------
(* Statements of the comments and the documents that the code does not     *)
(* keep: TLC finds each one violated.                                      *)

\* The disconnect watchdog and the sync watchdog never hold the one esp_timer at
\* the same time: while it runs it has an owner.  An expiry dispatched before a
\* cancel claims the next owner, and the start of that one comes after.
TimerOwned == running => watchdog # Unowned

\* The state owner advances with the generation of the backend when it consumes
\* a Reset: a Reset it looks at outside a fault is never stale.  One that Stage A
\* has overtaken is dropped.
ResetCurrent == ex.pc = "act" /\ ex.act.kind = "reset" /\ ~state.recovery => Current

\* A fault that requires recovery stays until the restart.  A publication that a
\* task prepared before the fault takes it back.
FaultTerminal == [][state.recovery => state'.recovery]_vars

\* Hidden idle is neither advertising nor connected.  A Reset consumed by a
\* disable under way publishes it with the advertising restarted before.
HiddenTruth == Is(state, "hidden", {"idle"}) => ~adv /\ link = "none"
-----------------------------------------------------------------------------
Action == [kind : Command \cup Event \cup {"none"}, generation : Nat]
Mutator == {"sync", "hidden_sync", "advertising", "connect", "disconnect", "hide",
            "reset", "fault"}
ExPoint == {"idle", "fail", "overflow", "owner", "arm", "failed", "load", "publish",
            "advertise", "security", "disconnected", "renumber", "act", "hide", "sweep",
            "barrier", "drive", "start", "disarm", "terminate", "withdraw", "cancel"}

Guard == Command \cup {"none"}
Watchdog == [phase : {"none", "armed", "firing", "cancelling"},
             purpose : {"none", "sync", "disconnect"}]
Hidden == [requested : BOOLEAN, passed : BOOLEAN, claimed : BOOLEAN, queued : BOOLEAN]
Host == {"off", "starting", "synced", "resetting"}
Link == {"none", "establishing", "up", "closing"}
RxState == [pc : {"idle", "load", "publish", "enqueue"}, operation : Guard,
            generation : Nat, seen : Lifecycle]
ExState == [pc : ExPoint, act : Action, m : Mutator \cup {"none"}, gen : Nat,
            owner : Guard \cup {"absent", "error"}, seen : Lifecycle,
            why : {"none", "handoff", "overflow", "sample", "security"}]
TaskState == [pc : {"idle", "inserted", "stamp", "signal", "lost", "cancel", "stop", "reset",
                    "rearm", "start", "disarm"},
              ev : Action]
AlarmState == [pc : {"idle", "due", "stamp", "signal", "lost", "complete"},
               purpose : {"none", "sync", "disconnect"}, ev : Action]

\* The types, and what two points of the executor rest on.
TypeOK ==
    /\ state \in Lifecycle /\ generation \in Nat
    /\ attached \in BOOLEAN /\ reset_used \in BOOLEAN
    /\ guard \in Guard /\ queue \in Seq(Action)
    /\ token \in Nat /\ handoff \in BOOLEAN /\ committed \in BOOLEAN
    /\ terminal \in BOOLEAN /\ deadline \in Nat /\ backend_generation \in Nat
    /\ watchdog \in Watchdog /\ running \in BOOLEAN /\ hidden \in Hidden
    /\ host \in Host /\ adv \in BOOLEAN /\ link \in Link
    /\ orders \in Nat /\ left \in Nat /\ expiries \in Nat
    /\ rx \in RxState /\ ex \in ExState /\ task \in TaskState /\ alarm \in AlarmState
    /\ ex.pc \in {"load", "publish"} => ex.m # "none"
    /\ ex.pc \in {"withdraw", "cancel"} => ex.owner \in {"absent", "error"}

-----------------------------------------------------------------------------
(* Two more that TLC finds violated.                                       *)

\* `enabling` ends: by advertising, by a fault or by a disable.  A stale Timeout
\* releases whatever guard it finds, so the next enable may be dropped unseen.
EnablingEnds == state.observed = "enabling" ~> state.observed # "enabling"

Quiet == rx.pc = "idle" /\ ex.pc = "idle" /\ task.pc = "idle" /\ alarm.pc = "idle"
             /\ queue = <<>> /\ (handoff => committed)
\* At rest, `connected` means that there is a link.  A Disconnect lost before the
\* executor has published its Connect targets no connection and leaves no token.
NotPhantom == Quiet /\ state.observed = "connected" => link # "none"
=============================================================================
