# s3-hidbot: models, checks and proofs

s3-hidbot turns an ESP32-S3 into a HID keyboard and mouse, over native USB or
BLE, that a host drives over a UART with a JSON line protocol. This directory
holds TLA+ modules of its control logic, the TLC configurations that check
them on small instances, and TLAPS proofs of what matters most for every value
of the constants. Paths below are relative to `src/`; `components/` stands for
`firmware/components/`.

| Module | What it is | Lines of code behind it |
| --- | --- | --- |
| `UsbExposure` | attach, detach, callbacks and runtime faults of the USB lifecycle | `usb_lifecycle`, USB half of `hid_control_executor` |
| `UsbExposureProofs` | its theorems | |
| `HidRoute` | the output route, its writer flag and its mailboxes | `hid_route`, route part of `hid_runtime`, SOF watchdog |
| `HidRouteProofs` | its theorems | |
| `RequestOnce` | abstract: a request is performed at most once and has one answer | |
| `ControlSession` | the device's end of the UART protocol | `control_session`, `control_protocol`, receive task |
| `ControlSessionProofs` | its theorems, and that it implements `RequestOnce` | |
| `ControlLink` | host client, lossy line and device together | `host/src/hidbot/client.py` on top of the above |
| `ControlLinkProofs` | its theorems, and that its device is a `ControlSession` | |
| `HidRuntime`, `MCHidRuntime` | reports, release-all and what the host may still hold, over USB | `hid_runtime` |
| `HidRuntimeProofs` | its theorems | |
| `HidSequence`, `MCHidSequence` | an admitted plan of keys and waits, its executor and its aborts | `hid_sequence` |
| `HidSequenceProofs` | its theorems | |
| `BleExposure` | BLE enable and disable over four tasks, and the lifecycle watchdog | `ble_lifecycle`, BLE half of `hid_control_executor`, `ble_transport`, `lifecycle_watchdog.hpp` |
| `BleExposureProofs` | its theorems | |
| `BondSet` | abstract: a bond goes at one instant, when asked for, and stays gone | |
| `BondStore` | bonds in flash: creation, journaled removal, start-up recovery | `bond_delete_transaction.hpp`, `persistent_store_recovery.hpp`, `bond_association.hpp`, store callbacks of `ble_transport` |
| `BondStoreProofs` | its theorems, and that it implements `BondSet` | |

To run: `tlc -config X.cfg M`, with M the module named for X in the table of
runs, and `tlapm M.tla` for a module of proofs.

## 1. Inventory

### Contexts

The firmware runs on two cores, so all of these interleave at any access.

| Context | Priority | Runs |
| --- | --- | --- |
| UART control task | idle + 2 | frames, sessions, the synchronous half ("Stage A") of every command |
| control executor | idle + 3 | a queue of actions: USB install and uninstall, BLE enable and disable, route release, watchdog |
| TinyUSB task | 5 | mount, unmount, suspend, resume, SOF and report-complete callbacks |
| ISRs | | runtime-fault signals of the USB stack |
| NimBLE host task | | GAP, GATT, security-manager and store callbacks |
| `hid_sequence` task | | runs an admitted key and mouse sequence |
| `ble_stop` task | idle + 1 | one stop of the BLE host, created per stop |

### Components

*USB lifecycle* (`components/usb_lifecycle`). State: one atomic byte with the
desired and observed exposure, recovery and two safety bits; a generation; the
last error; the runtime-fault flags. Operations: `request_attach`,
`request_detach`, `observe_*`, `complete_*`, `begin_/update_/complete_`
`runtime_fault`. The control task publishes, the executor completes, callbacks
observe and ISRs fault, all without a lock; most operations check with one
access and store with another. Correct when: the driver is never installed
twice, `driver_not_installed` means just that, an accepted detach ends in an
uninstall or asks for recovery, and a fault fail-closes.

*Control executor* (`components/hid_control_executor`). State: a FIFO of
actions, a task notification, the cross-domain guard `active_operation_`, the
retained fault, the SOF watchdog, BLE profile and route-release grace.
Operations: `request_*` from the control task, `process`, `reconcile_*`, the
authority events of the runtime. Correct when: one command at a time is
between acceptance and end, and the guard always comes back.

*Output route* (`components/hid_route`). State: the published triple (desired,
active, transition) behind a publication sequence; `writer_active_`; a durable
mailbox; a conditional mailbox; the USB publication cut. Operations: commit
USB or BLE if the route is none, begin and complete a release, invalidate,
claim an invalidation. Nobody waits for the writer: losers leave a request.
Correct when: one writer, no admission on a route older than the last cut of
the link, what is retired is what was meant, the gate reopens.

*HID runtime* (`components/hid_runtime`). State: authority epoch, per-interface
report tickets and in-flight tokens, the release-all operation, host-release
uncertainty, SOF heartbeat. It joins lifecycle and route, and its callbacks run
in the TinyUSB and NimBLE tasks. Correct when: a report of an old epoch is
never sent, a ticket has one outcome, a release-all ends.

*Control session and protocol* (`components/control_session`,
`control_protocol`, `sensitive_request`). State: active session, owner number
and its epoch, lease deadline, hello cache, one-entry retry cache, transition
proof. Operations: hello, request (replay, inspect, perform, cache), lease
service, revocation. Correct when: a request is performed at most once and in
order, retries see the same answer, and a session ends only for its own cause.

*UART transport and framing* (`uart_control_transport`, `control_framing`).
State: the read buffer, the lifecycle flag, a one-entry mailbox of HID
failures, the published owner; the line being framed. Correct when: a failure
of the current owner is never displaced and lines never mix.

*HID sequence* (`components/hid_sequence`). State: one admitted plan, its owner
and authority, the report it waits for, its terminal state. Correct when: an
aborted or expired sequence releases what it pressed, and an owner that is gone
runs nothing.

*BLE lifecycle, stop, watchdog* (`ble_lifecycle`, `stop_transaction.hpp`,
`lifecycle_watchdog.hpp`). State: a byte as in USB with generation and
connection handle; one packed id and status; one phase. Correct when: a late
result or timeout belongs to no newer operation, and initialization waits for
a consumed stop.

*BLE pairing and security* (`ble_pairing`, `ble_security`). State: a sequence-
locked pairing snapshot with ids; link evidence, bond evidence, readiness
inhibit. Correct when: a passkey goes only to the pairing it was given for, a
timeout and an answer do not both win, and readiness needs every evidence for
this connection.

*BLE bond store* (`bond_delete_transaction.hpp`, `persistent_store_recovery.hpp`,
`store_delete_result.hpp`, `bond_association.hpp`). State: flash records: an
intent, five categories of records, an association per peer. Correct when: a
power loss anywhere leaves a state from which the same end is reached.

*BLE transport and HID service* (`ble_transport`, `ble_hid_service`,
`route_release_grace_ownership.hpp`). State: advertising, connection,
subscriptions, protocol mode, pending notification. Correct when: a report goes
to the connection that was admitted, and a release grace has one owner.

*Host client* (`host/src/hidbot/client.py`, `protocol.py`). State: session,
next hello and request ids, the frame in flight. Operations: connect, one call
at a time with retries of the same bytes. Correct when: an answer is the answer
of the request, and a loss of session is never hidden nor invented.

*Host provisioning* (`provisioning*.py`, `flashing.py`, `legacy_recovery.py`,
`firmware_verification.py`): steps with rollback around an external flasher.

*Stateless parts*: `hid_capability`, `ble_fixture_profile`, `secure_memory`,
`firmware_identity`, the host's command line, artifacts and tools.

### Interaction

A frame makes the control task call a provider of `control_protocol`; a
transition runs Stage A in `hid_runtime` and `usb_lifecycle` under the guard of
the executor, moves the authority epoch and queues an action. The executor
performs it and publishes the outcome. Callbacks observe, move the epoch, retire
routes and set a flag that the control task serves in its next pass. So the
same lifecycle byte has four writers, the route three, and the session learns of
what happened through an epoch it captured earlier. The hard behaviours are
these: check then store, stale queued actions, losers of a try-lock, late
callbacks, an epoch that moves during a request, and retransmission on all of
it. `PROJECT.json` lists each with its line under `hazards`.

## 2. The modules

A step of a module is one atomic access of the code, or a run of accesses that
no other context can tell apart. History variables (named so in each module)
record what a property needs and influence nothing. Operators commented
`Mutant:` are plausible mistakes in one definition; each property is broken by
one of them, so none holds by the shape of the model.

### UsbExposure

`word` is `state_`, `generation`, `last_error` and the two fault flags are the
fields of the same names. `rx`, `ex`, `cb` and `sg` are the program counters
and locals of the control task, the executor, a TinyUSB callback and a fault
signaller. `RxClaim` to `RxRelease` follow `Controller::request_attach` and
`request_detach` through Stage A; `ExWake` to `ExFaultComplete` follow one pass
of `task_loop`, with `process` and `reconcile_usb_runtime_fault`; `CbStart` to
`CbSignal` a callback through its check and its store; `SgRaise` to `SgWake`
`signal_usb_runtime_fault`. The driver and the bus are external: an install
succeeds, fails cleanly or ambiguously, an uninstall succeeds or fails, and the
host keeps mount, suspend, resume and unmount in order.

Where an operation loads, decides and stores, it is two or three actions; a
compare-exchange is one. The uninstall deletes the TinyUSB task, and
`StopsMidCallback` says whether it may do so inside a callback: `TRUE` is the
code, `FALSE` a kinder world in which the disagreements below still occur.
`GenerationModulus` stands for 2^32 and `QueueDepth` for the slots that other
domains leave in the queue. The two safety bits of the byte are left out here:
`HidRuntime` has them.

### HidRoute

`route` stands for the published triple, which changes only while the
publication sequence is odd (`publishing`). `writer` is `writer_active_`,
`durable` and `conditional` are the mailboxes, `cut` the publication cut.
`writer` is "lost" once an uninstall has deleted the TinyUSB task inside a callback
that held the flag: what the callback left half done stays, nobody enters any more,
and `route.usb` is refused until the restart. `Owned` says that nothing is admitted
then; it does not say that the flag comes back, for it does not.
`WriterStep` is the common writer section with its handoff on leaving;
`Usb*` follow `request_route_usb` and `commit_if_none`; `Begin*`, `Confirm` and
`CompleteCheck` a release; `Match` to `InvalidateCheck` an invalidation; `Claim*`
and `Stall*` the SOF watchdog; `Cb*` the callbacks. Abstractions:

- `snapshot()` is one step, incoherent while the sequence is odd: its retry loop
  gives a value that was coherent at one instant;
- a serial or a token is only compared for equality with a captured one, so the
  model keeps whether it moved, or is held;
- that the heartbeat is late, or has resumed, is a free choice at any instant;
- faults come from callback context only (`UsbExposure` covers the other cases);
- the BLE route, which shares the writer, is left out.

### ControlSession and RequestOnce

One action per path of `Protocol::handle_frame`: four for a hello (`Greet`),
four for what precedes an action (`Inspect`), `Perform`, and three completions
(`Finish`). The receive task is `pc`: it serves notifications, then the lease,
reads, and serves notifications again. Another context moves the epoch
(`Lifecycle`), sets the flag (`Notify`) or reports a failed delivery
(`ReportFailed`) between any two steps, so also while a request is performed. Any
frame may arrive at any time. Abstractions:

- a session token and its owner number are made together, so one number is both;
- the bytes of a request are its session, id and kind; a `ble.pairing.respond`
  keeps a digest in place of its bytes, and is a report here;
- the lease may have run out in any pass, whatever the clock says;
- the published copy of the owner lags only inside a step;
- a report whose outcome is "lost" although the epoch did not move had no
  effect: its ticket was refused before it was claimed;
- an accepted transition whose snapshot cannot be serialised is left out;
- one complete frame is handled in a pass.

`RequestOnce` is what a host may rely on: for each (session, id) the action
happens at most once, and every answer, the first and all retries, is the same.
`PerformedOnce` is its specification, reached by `INSTANCE`: the histories
`runs` and `answered` are its variables.

### ControlLink

`ControlSession` with a client in front of it: `client` is the state of
`hidbot.Client`, `up` and `down` are the line. The client connects, calls,
writes the same bytes again when an attempt timed out, and takes the first
response that correlates: `Greeted`, `Satisfied` and `SessionLost` are the three
conditions of `_wait_for_response`. The line keeps the order and loses any frame;
`Restart` is a new program that counts from 0 again while old frames are still
on their way. Retries make the duplicates. What the schemas of typed results do
here is to tell a hello's result from a request's (`Recognised`); `ping`, `info`
and `usb_status` have none. Capabilities, the unmatched limit (32, more than
this line holds) and exhausted ids are left out. Of the device's other contexts
only the lifecycle callbacks remain, since a failure or a notification merely
ends a session, which the lease may do in every pass.

### HidRuntime

Four contexts: the control task and the sequence task produce reports, the
TinyUSB task runs one pass per start of frame and the bus callbacks, the executor
runs the bounded waits of a detach or a route release. `ticket` and `iface` are
the public tickets and the interface slots, flags and in-flight reports; `link`,
`bits`, `route`, `auth` and `rel` what the code reads of lifecycle, status bits,
route and epochs; `release` the release-all transaction. A section under a
metadata lock is one step; every other place where a context can come between is
a step of its own. `wire` and `host` are the USB controller and the host: a
transfer may complete, or fail although the host took the report. A report is
abstracted to whether it leaves something held. Assumptions and abstractions:

- a pass of the TinyUSB task, and a callback, is short against 250 ms. So a link is
  only found stalled when no pass is under way; and when the 250 ms of a detach or a
  route release are over (`AwaitTimeout`), a report that was checked before they
  began has been submitted, and a completion that came before a new debt has
  confirmed. Section 5 shows what happens otherwise;
- an uninstall comes between two passes of the TinyUSB task; deleted inside one, the
  task would leave a ticket claimed, which no property here speaks of;
- an accepted attach is one step, and so is the loop of
  `reconcile_unavailable_zero_work_release`;
- `recovery_required` is left to `UsbExposure`, the other route operations to
  `HidRoute`;
- the BLE half, the boot button's `queue_report` and the sleep-quiescence gate
  are left out.

The module observes one thing that no property states, as no document says when
it must end: a release request taken while a neutral report is in flight finds
work and clears nothing, and the completion does not clear the pending bit, so
`link.pend` stays set with nothing outstanding (`hid_runtime.cpp:1733`; compare
`docs/development/uart-control-plane.md:1488-1489`).

### HidSequence

`Start` to `Arm` follow `Controller::start`, `Take` to `Free` the executor task
through `run`, `execute_report`, `wait_local`, the progress words and the
terminal claim; `Release`, `AbortCheck` to `Stop` and `RetireOwner` are
`abort_for_release`, `abort_generation` and `retire_owner`, entered from the
frames, lease ends, invalidations and failures of the control session. `Parses`,
`Apply` and `Scheduled` are the parser's simulation of a plan. The runtime is
reduced to what `begin_sequence` and `sequence_authority_current` read (`rt`; its
`cut` stands for the authority and release epochs). Waits may end at
any moment, and the execution deadline may have passed whenever the task looks;
once it has seen so it looks no more, so no clock is kept.
`status()` only reads and `abort()` has no caller in the firmware: both are left
out. A token is a record, not characters; the busy answers to one report are
bounded by `MaxBusy`.

### BleExposure

`state` is `ble_lifecycle::StateMachine`; `guard`, `queue`, `token`, `handoff`
and `deadline` are the executor's; `backend_generation`, `watchdog`, `hidden`
the backend's. `rx`, `ex`, `task` and `alarm` are the control task, the executor,
the NimBLE host task and the timer task; `host`, `adv` and `link` the radio. The
tasks interleave at every access, as on two cores they do: the comment that
mutation is serialized (`ble_lifecycle.hpp:46`) is not what the code does, since
Stage A runs on the control task and everything else on the executor, without a
lock. So

- a mutator of the state machine loads a snapshot (`RxLoad`, `Load`) and publishes
  from it in a later step (`RxPublish`, `Store`), whatever came in between;
- a callback reads the backend's generation, enqueues, latches what found the queue
  full and cancels its watchdog in separate steps (`Stamp` to `CompleteCancel`); so
  does the timer (`BeginTimeout` to `CompleteTimeout`), whose dispatch (`Expire`) and
  claim are two steps;
- arming the watchdog takes its owner (`Arm`, `Rearm`), starts the timer (`Start`,
  `StartSync`) and gives the owner back if that fails (`Disarm`, `DisarmSync`). Only
  the first initialization is one step: no host task and no timer exist yet.

Abstractions:

- one connection is configured, so a handle is attached or not; the HCI
  establishment records are `link = "establishing"`;
- a generation advances in the step that publishes it, and does not wrap;
- `disable` polls the radio: only the samples that find something are steps;
- pairing, GATT, the route, profile restart, simulated sleep and the
  persistent-store latch are left out.

### BondStore and BondSet

`keys`, `aux`, `schema`, `assoc` and `receipt` are the records of flash, one
commit a step; `ram` is NimBLE's copy of the security records. `Boot` to `Ready`
follow `Backend::initialize` through resumed deletion, restore, association
check and orphan recovery; `Remove` to `Finished` `remove_bond` and
`run_journaled_removal`; `Pair` to `CompleteAssociation` the store callbacks
with `prepare_association` and `complete_association`. Any access may fail, a
write before or after it took effect (`Then`, `Fails`, `AccessFails`), and power
may go at any step (`PowerLoss`), without a bound on either. The contract is
`docs/development/uart-control-plane.md:280-320` and 1660-1680. Abstractions:

- the executor and the host task are serialized: a removal needs a hidden idle
  stack, a creation a connection;
- two classes of bonds: the strict one, and one with an association record;
- NimBLE deletes auxiliary records by address (`DeleteAuxiliary`), in any order,
  and its RAM copies of them are not kept; the comparison of the other bonds
  after a removal is reduced to `Sound(ram)`;
- bond ids, slots and their order, and the capacity of the store are left out.

Flash starts empty, or with schema records of bonds removed before removals were
journaled. Half a bond after a power cut makes every later start fail closed, as
the documents say; `HealthyWhole` speaks of stacks that did start. `BondSet` is
what a host may rely on, reached by `INSTANCE` with the bonds a start would find.

## 3. The runs

| Run | Module | Shows | Distinct states |
| --- | --- | --- | --- |
| `usb_exposure` | UsbExposure | one command at a time, `driver_not_installed` is true, the guard comes back | 1.55 million |
| `route` | HidRoute | writer, admission, exact retirement, the gate and its reopening | 0.55 million |
| `session` | ControlSession | at most once, in order, one answer; no stray revocation; owners are announced; a failed delivery of the current owner ends its session | 0.84 million |
| `link` | ControlLink | end to end: own answers, done means once, refused means undone | 2.5 million |
| `runtime` | MCHidRuntime | what the host may hold is known, answers are true, a release-all has released or owes an all-up | 1.2 million |
| `runtime_live` | MCHidRuntime | an owed all-up is accepted while the bus is up | 26 thousand |
| `runtime_not_ready` | MCHidRuntime | a disagreement, section 5 | |
| `sequence` | MCHidSequence | one truthful terminal record, one cleanup, no lost wakeup, plan and reservation kept | 2.0 million |
| `ble` | BleExposure | hidden idle is published with a silent radio and stays silent, every owner of the watchdog lets it go, nothing that saw a fault clears it | 8.1 million |
| `ble_live` | BleExposure | a lost handoff ends in the fault, a disable gives its guard back, with an expiry | 0.44 million |
| `ble_hidden` | BleExposure | a disagreement, section 5 | |
| `bonds` | BondStore | a removal is whole, final and of one peer, whatever is interrupted | 39 thousand |

Bounds, and why they are enough:

- *UsbExposure.* Modulus 2: a fault forgets the guard, so two actions can be
  queued over the slot of another domain, and wrapping is frequent, which is the
  harsher case. One signaller and one reason are enough to fault at any step of
  anything else.
- *HidRoute.* `MaxGeneration` 3 stops new `route.usb` commands there: a route
  that is retired, replaced and retired again, with a request of each left
  behind. Nobody compares more than two generations at once.
- *ControlSession.* Two sessions, so that one is stale, and the third hello
  exhausts the owners; two ids, so that one is older than the cache; a move of the
  epoch by a transition or by a callback. One nonce repeats and is fresh after any
  revocation. All five properties were also checked with a second move, so that a
  second transition can follow the first one's proof (1.7 million states, four and a
  half minutes), with `invalid` requests too (1.1 million), and, with one id, with
  two nonces, two contents, two moves and `invalid` requests (0.16 million); the
  smaller run is kept for its time.
- *ControlLink.* Two hellos and two calls over all programs, each frame written
  twice, two frames on the line each way, ids 0 and 1. Two calls are two of a
  session, or one of each of two sessions. Three calls were checked too (8.3 million
  states, four minutes) and, with one id, three hellos, three attempts and frames
  on the line, or two epochs; the smaller run is kept for its time.
- *HidRuntime.* A behaviour picks one of eight groups of operations that interact
  (`MCInstances`, each with its reason) and runs to its end: all groups at once
  are out of reach. Two reports, so that one is in flight while the next is made;
  two or three cuts of authority, so that one is stale; two or three requests.
- *HidSequence.* Two sequences and two sessions, so that one is stale; up to three
  tokens, two slots: plans that do not fit the slots, the schedule or the roles
  are among them. One busy answer tells a retried report from a lost one.
- *BleExposure.* One slot, so that every signal may find the queue full. `ble`: an
  enable and a disable, one reset, peer action or failure, one expiry, the peers of
  the first exposure and a profile that starts security by itself, so that each task
  meets every other one between a load and a publication. The properties were also
  checked with one command, two events and two expiries (3.3 million states), where
  the timer meets a reset and a connection and expires in each, on two slots with
  three commands (0.26 million, no expiry), and `WatchdogHeld` and `FaultKept` with
  two commands and two events (1.9 million, no expiry). In `ble_live` no peer
  connects: peers and an expiry together are out of reach. `GuardReturned` was also
  checked with the peers of the first exposure and their security, and no expiry
  (0.25 million). `MaxExpiries` and `MaxGeneration` stop the timer from running out,
  and peers from connecting, for ever: a late teardown of an earlier connection can
  take down the next one, again and again.
- *BondStore.* Two peers, one to be removed and one to be kept; no other bound.
- *Disagreements.* The two runs have the smallest bounds at which TLC found one, which
  keeps the traces short; larger bounds only add behaviours.

Deadlock is checked except in `route`, where a runtime fault leaves nothing to do
before a reset, and in the `runtime`, `sequence` and `ble` runs, whose behaviours
end when their operations are used up. The bound of a counter stops only the environment (a new
command, hello or epoch), never a handler, except that an accepted transition
needs an epoch to move to.

Fairness. In `UsbExposure` and `HidRoute` each context is weakly fair on its own
steps: FreeRTOS schedules ready tasks by priority, none of them spins, and
callbacks and ISRs return. Commands, bus events and faults are never required.
`WatchAgain` of `HidRoute` is strongly fair: `task_loop` wakes at least every
watchdog period and evaluates a pending stall again, so it cannot miss every
instant at which the writer is free. In `ControlSession` the receive task is
weakly fair: its read waits 100 ms at most. `FailureHonoured` holds only once
lifecycle notifications stop coming before every pass, because
`service_pending_notifications` returns after serving one; callbacks would have to
outpace a 100 ms loop for ever.

In `HidRuntime` the tasks are weakly fair on their own steps. A start of frame,
the completion of a transfer and the acceptance of an all-up by TinyUSB are
strongly fair: frames come every millisecond while the bus is up, a polled
endpoint completes, and it is busy only until it does; that any of these is
interrupted again and again is no reason for it never to happen. In
`BleExposure` one weak fairness over all tasks and the timer is enough, since
commands and events are bounded: the tasks do not all stop while one can go on.
Synchronization, a connection and its end are never required.

## 4. The proofs

All theorems hold for every value of the constants their modules' named
assumptions allow; none has a hypothesis of its own.

`UsbExposureProofs`. `TypeCorrect` is inductive by itself. `OneCommandCorrect`
strengthens "at most one pending" by who holds the guard: while no fault was
committed, a command is in exactly one place, and the guard is held as long as it
is there. `NotInstalledCorrect` rests on `Absence`: when the executor is about to
install, no attach is admitted; and a result that says that the driver is gone is
believed only while it is. These two facts survive every interleaved callback,
signal and command because none of them can make `driver_not_installed`.

`HidRouteProofs`. `Exclusion`: the writer is the context inside a writer section,
or none at all once the flag is lost with the TinyUSB task, and the sequence is odd
only while the flag is taken; needed because the flag
alone does not say who clears it. `Ownership`: the cut is registered only while
the control task publishes, the conditional mailbox only while the executor
stores it or holds its token; needed because a token outlives the section that
found the writer busy. `Retirement`: what a context is about to retire equals
what it compared under the writer, and only the writer changes the route. From
these `SoleWriterCorrect`, `GateOwnedCorrect` and `RetiresExactlyCorrect`. `NoStaleRouteCorrect` needs four more, each relative
to the ones before it. `Order`: who may be where with a durable request, that no
callback runs while the link is up, and that there is no route between the
validation of a new one and its store. `OneCommand`: until a runtime fault, the
control task, the queue and the executor hold one command between them. `OnTarget`:
a registered cut, a durable request and a queued detach that name the present
generation name a USB route that is to go, not the one that will follow it.
`Freshness`: a USB route the link was cut under is doomed (a durable request names
it), or the callback or the detach that knows has yet to name it; "yet to" is
told program point by program point, because either may find the other at work
and leave the route to it. After a runtime fault no route is usable, so the last
three are kept only up to the first. `Left` is about the uninstall: the executor
uninstalls only under a lifecycle that has left the bus, and a route whose writer was
lost is not one validated since; so `LeftClosedCorrect`, since a usable route would be,
and, with the two above, `OwnedCorrect`. `TypeCorrect` rests on `Bounded`, the room a
publication under way still needs, and `Remembered`, that generations held
anywhere are copies.

`ControlSessionProofs`. `Promise` is the types and a ledger of five parts:
`Newest` (the active session is the last one handed out, of an epoch that has
been), `CachesFollow` (what a cache holds belongs to the active session and its
epoch, and was given as an answer), `OneAnswer` (two answers to one request are
equal), `WorkIsNew` (the request at work has no answer, is above the cached one,
and was not performed before), and `UsedAreCached` (requests of the active session
that were performed are at work or no newer than the cached one). The last two are
what makes `New`, a comparison with one remembered id, enough. From it follow
`PerformedOnceCorrect`, the refinement of `RequestOnce` (initial states map to
initial states, steps to steps or stutters), `PerformedInOrderCorrect`,
`OwnersToldCorrect`, `NoStrayRevocationCorrect` and `HelloCacheCorrect`.

`ControlLinkProofs`. `DeviceCorrect`: whatever the client, the line and its copies
do, the device takes steps of `ControlSession`, so all that was proved about it
holds here. `Exchange` is the invariant behind the three promises to a caller, in
seven parts. `Truthful`: a cached or unfinished answer says what became of its
request (`ok` for an action: performed exactly once). `Numbered`: hellos that are
about carry nonces that were drawn. `Delivered`: what is on its way down, and what
callers were told, stays true. `Greeting`: nothing but hellos follows the hello of
a connecting client, and the session it will be given was never used; so an answer
to it proves the line clear of the past. `Connected`: of the requests on the line,
at work or being answered, those of the client's session are numbered below its
next id, and its call is the only one of its number; this is what makes matching
by id sound although each session counts from 0. `Pending`: nothing but requests
follows the call that waits, once it was taken no hello is behind it, and once it
was performed the device still holds the proof, or is about to write the answer;
so a refused transition was not performed and, its session being gone (`Dead`),
never will be. `Learned` says so of what callers were told. An order of frames
(`Ordered`) is kept because a channel is appended to at one end and read at the
other: a UART loses and the client repeats, but neither reorders. From it follow
`AnswerOfItsRequestCorrect`, `DoneOnceCorrect` and `RefusedIsUndoneCorrect`, for
any number of sessions, programs, calls, copies and retries.

`HidSequenceProofs`. The one assumption beside the bounds, `CodesAssumption`, is
what the parser can produce: sequences of tokens, none pressing usage 0. Eight
predicates in layers, each kept by every step given those below. `TypeOK`.
`Ownership`: whoever is starting, waiting or running has the reservation, and the
plan and the runtime's sequence are those of that generation; every property about
"the" plan needs it. `Awaited`: whoever holds the reservation is at work, has
notified, or the task is already up (`NoneForgottenCorrect`). `Simulation`: at each
point of the loop the report the executor holds is the one the parser simulated
for that index, so what admission checked is what is sent; and reports stay sorted
without gaps, which `Inserted` and `Removed` keep (`KeysInOrderCorrect`). `Words`:
the status word belongs to its sequence and says how far it came, at each point of
the two tasks: written by the control task while nothing runs, by the executor
afterwards, and by an abort at any instant between its load and its exchange
(`OneTerminalCorrect`). `Accounts`:
reports accepted and time waited, the history the model keeps, are what schedule
and plan count up to the present token, one report more where the exchange that
counts it is still to come (`TerminalTrueCorrect`). `Cleanup` and `Adoption`: an
unfinished sequence that has sent a report owes an all-up until somebody asks for
one, and a word marked `owned` or a generation handed over means that a release
is under way or was made (`CleanedUpCorrect`). `Base`, the conjunction of `TypeOK`,
`Ownership`, `Simulation` and `Words`, is proved inductive as a whole, since
`Simulation` needs `Ownership` and `Words` needs both. `Simulated` and `Scheduled` are
recursive functions, and the library's induction theorems take an operator no prover
here can instantiate; so that they exist, and what all their values have in common, is
proved from the least counterexample (`Least`, from the well-foundedness of the
naturals). The count of a plan's reports (`HidsOf`) moves by one token at a time.

`BondStoreProofs`. `Inv` has three layers above the types. `Control`: where a
transaction is, about whom and in which mode of the stack. `Journaled`: what is in
flash, and of the target in RAM, when it is there; above all the receipt names the
target from the intent to the end, without which a start could not know whose half
records to erase, and keys of a class of their own have their record. `Healthy`:
a peer nobody works on agrees in RAM, flash and associations, and the one being
paired is at most half written, as long as no failure was seen. A write is two
cases, done or reported failed, and `PowerLoss` clears RAM and the transaction,
so `Journaled` must not rest on `Healthy`. From it follow `NeverLegacyCorrect`,
`RemovedWholeCorrect`, `HealthyWholeCorrect`, `OthersKeptCorrect` and the
refinement `GoneForGoodCorrect`.

`BleExposureProofs`. The tasks interleave at every access here, so a fact about the
present state is no fact about the state a mutator publishes from, and the
invariants speak of snapshots, claims and program points. `TypeCorrect`: besides the
types it says that a mutator is named when the executor is in one.

- `WatchdogHeldCorrect`, by `Claimed`: a task that stops the timer, and an expiry that
  is being published, own what they claimed. Each claim is an exchange out of `armed`,
  so whoever claims has the watchdog alone until it gives it back, and an owner that
  is merely armed can only lose it to one of them. Without `Claimed` a late
  `complete_cancel` might free an owner armed after it.
- `FaultKeptCorrect`, by `FaultInv`: `fault` and the recovery flag agree, in the state
  and in a snapshot about to be published from; and in a snapshot that is a fault
  only another fault or a disconnect that changes nothing was admitted. So what
  clears a fault was prepared before it: `FaultTerminal`, which also forbids that, is
  refuted (section 5).
- `HiddenQuietCorrect`, by `QuietInv`: between the look of `drive_ble_disable` at the
  radio and its publication nothing starts there, since only the executor starts
  advertising and a peer comes only out of advertising; and the executor does not
  get to `start_advertising` from hidden idle, nor to the end of an observed
  disconnect that would. `RxNeverIdle`: the control task, which may publish from any
  old snapshot, never publishes hidden idle. `Arrivals` says from which steps the
  executor comes to each of these points.

`HidRuntimeProofs`. No property here survives on its own: four tasks share every
record without a common lock, so the types of all of it come first
(`TypeCorrect`). About reports, `Ledger` says who may do what next with a ticket:
`Numbered` (ids are given once, so an answer is about one report), `Written` (a
ticket being written is its producer's), `Claimed` (a claimed one is the TinyUSB
task's, and only while it is between claim and result), `Departed` (a report is
sent if and only if its ticket is past the submission) and `Untold` (no final
answer is out while its report may still leave). `Owned` adds that while a
sequence is admitted every live ticket is its own, since admission finds none
alive. The steps that touch no ticket but to withdraw it are dealt with at once
(`Aside`). From it `AnswerTrueCorrect` and `SequenceAloneCorrect`.

About what the host holds, `Held` relates host, controller, flags and lifecycle
word. `Owed` is the promise itself: what the host holds, or will once a transfer
completes, the firmware has as held, in flight or in doubt. It is not inductive
for three reasons, and each has a conjunct. A completion clears flags before the
mark of the report in flight (`Flown`: what it leaves in between). A mount or an
uninstall clears everything if the lifecycle word has no doubt, so the word must
own up to what may be held from the unmount to the end of the next mount
(`Doubted`); and in a detach (`Detached`) every doubt is first turned into a debt,
a report checked before cannot be submitted after the 250 ms, and a confirmation
still to come after them finds nothing held; so the driver goes either with
everything up or with a doubt in the word. And all of it needs to know which
points of the tasks exclude each other (`Attached`). `Confirmed` carries
`ConfirmedTrueCorrect`: beside a mark, a debt or a doubt, the confirmed report is
the host's. Two thirds of the actions can only add doubts (`Calm`), which one lemma
proves harmless (`CalmKeeps`); the other twenty-one are proved one by one.

About a release-all, `ReleaseSafe` speaks of the end of one, so the work is in
what an open transaction may count on at each point of the scan and the poll.
`Asked`: it is open under one authority, and only while the control task is at it.
`Seen` and `Up`: an interface looked at twice and found all-up has no report about
to leave, and gets none while the barrier stands. `Out`: where an all-up was
submitted for the transaction, that all-up is still on the wire as its own
(`Carries`), or nothing is held, or an all-up is owed; it is noted before the
interface is scanned too, and so the conclusion waits for `Scanned`. Three conjuncts
are about who else takes marks away: a detach (`Going`) leaves nothing `submitted`
behind, a route release (`Withheld`, with `Routing` and `Indebted`) only runs with a
debt for what may be held, and a doubtful interface always owes an all-up
(`Marked`). Together they are `Releasing`, inductive beside `TypeOK` and `Held`. The
debt is in the property because of the executor's second half of a stall
(`StallKeep`): it takes the mark off an all-up of a transaction begun in between, and
leaves one (section 5).

Only model-checked: every liveness property (`GuardReleased`, `GateReopens`,
`FailureHonoured`, `DebtPaid`, `HandoffHonoured`, `GuardReturned`), which needs
fairness and ENABLED and is beyond this prover. Every invariant and every action
property of the passing runs is stated by a theorem.

## 5. Where code and documents disagree

Checked by a run, with the line quoted in `PROJECT.json`:

- `runtime_not_ready`: a report whose ticket the TinyUSB task has claimed when the
  100 ms are over is answered `HID_NOT_READY` and sent all the same
  (`hid_runtime.cpp:4667`, against the comment at 4654).
- `ble_hidden`: a disable accepted between the publication of an observed disconnect
  and its `set_generation` has its generation taken over by the backend, which
  advertises again; a Reset with that number then publishes (`hidden`, `idle`) in the
  middle of the disable (`HiddenTruth`, against `docs/operator/cli-reference.md:51`).
  The disable's own end is silent: `HiddenQuiet`, proved.

Stated in the modules and refuted by TLC in seconds with the constants given, with
no run of their own. The constants not named are those of the module's first run.

- `DetachCompletes` (UsbExposure; modulus 3, no faults): a mount or unmount callback
  that looked before a detach and stores after it overwrites `detaching`; the
  executor drops the action and the driver stays installed (against
  `uart-control-plane.md:866-871`). It does so too if an uninstall waits for the
  callback (`StopsMidCallback = FALSE`).
- `FaultFailClosed` (an `isr` signaller): a fault while a detach completes leaves
  `driver_not_installed` without recovery, and a later attach exposes HID again
  (against `uart-control-plane.md:883-892`).
- `FaultNeedsRecovery` (`attach` only): the executor commits a fault before its
  signaller has marked it, and then asks for no recovery (against 885-888).
- `SuspendTerminalizes` (HidRoute; `MaxGeneration` 2, no faults, no watchdog): a
  suspend that publishes its request after the writer looked for one, and then finds
  the writer taken, leaves the route usable in name with nobody to retire it
  (against 947-948). No report is admitted meanwhile: `NoStaleRoute`, proved.
- `ReleaseCompletes` (`MaxGeneration` 2, no faults): a release that fails after
  Stage A, because of a pending watchdog request, stays `releasing` (against
  944-945).
- `FaultRetires` (`MaxGeneration` 2, no watchdog): the shutdown runs between the
  lifecycle cut and the veto and finds no coherent route (against 608-610).
- `ReleaseTruth` (MCHidRuntime; `MCStalledRelease`): the executor has moved the epoch
  for a stalled link and not yet marked the interfaces (`hid_runtime.cpp:853-861`).
  In between, the control task makes a whole release-all under the new authority,
  and its all-up is submitted; then the executor takes the mark off the all-up in
  flight. If that fails, its transaction is not told, and it ends `finalizedSuccess`
  with the key still down (against `uart-control-plane.md:1387-1388`). The interface
  still owes an all-up: `ReleaseSafe`, proved, and checked by `runtime` with this
  case among its instances.
- `TimerOwned` (BleExposure; `QueueDepth` 2, one command): a timer callback that was
  dispatched before a cancel claims the watchdog that was armed after it, between
  its `try_acquire` and its `esp_timer_start_once` (`ble_transport.cpp:1337-1340`);
  the timer then runs with no owner (against `lifecycle_watchdog.hpp:15-17`). The
  watchdog is not lost by it: `WatchdogHeld`, proved.
- `ResetCurrent` (no expiry, no peers): a disable accepted while a Reset waits makes
  it stale. It is dropped, and the state machine does not advance with the backend
  (against `ble_transport.cpp:1442-1444`).
- `FaultTerminal` (no security): what a task prepared before a fault it publishes
  after, and the fault is gone (against `docs/operator/safety-and-recovery.md:10-12`).
  Nothing that has seen the fault takes it back: `FaultKept`, proved.
- `EnablingEnds` (`FairSpec`, `QueueDepth` 2, three commands, no events, no peers): a
  stale Timeout releases whatever guard it finds (`hid_control_executor.cpp:3592`),
  and the next enable is dropped as not its own (2518) with the state left at
  `enabling` (against `uart-control-plane.md:1793`).
- `NotPhantom` (one command, two events, no expiry, no security): a Disconnect lost on
  the full queue before its Connect was published targets no connection, so no
  overflow token is left and `connected` stays (against
  `uart-control-plane.md:125-126`).
- `MountKept` (UsbExposure; modulus 3, `QueueDepth` 1, no faults, both commands): a
  mount stored while an install completes is overwritten with `disconnected`.
- `FaultCause` (modulus 2, `QueueDepth` 1, diagnostic, ISR, both commands): a detach
  whose action is refused replaces the cause of a fault with its own error.
- `EveryAnswerOfItsRequest` (ControlLink, `LinkSpec`; two sessions, `MaxId` 0,
  `MaxEpoch` 1, queries only, the rest as in `link`): a repeated hello answer
  satisfies a ping.
- `HelloNotRejected` (the same): a stale `SESSION_MISMATCH` with the id of a hello
  ends that hello, though the device never answers a hello so.
- `HeldIsKnown` (HidRuntime; reports on both interfaces, a detach, failing
  transfers) if the TinyUSB task may be held up for 250 ms before the confirmation
  of a completed all-up. The detach gives up, and writes its doubt; the late
  confirmation erases it; and the uninstall, which trusts the word, forgets what
  the other interface still holds (`hid_runtime.cpp:4835-4874`). `AwaitTimeout`
  excludes it, as it excludes a report that is submitted that late.

Other observations of the same reading, each a path of `BleExposure`: a Sync
between `begin_enable` and the action of the enable carries the old generation
and is dropped as stale; a Disconnect processed between the claim of an enable
and its load counts as expected; `consume_ble_overflow` may erase a token that
became current between its two loads (`hid_control_executor.cpp:2989-3092`;
`docs/development/uart-control-plane.md:124-126`).

## 6. Not modelled, and what is left

Left out for good: JSON and formatting (`control_protocol`'s parsers and
serialisers, `control_framing`, `sensitive_request`, `firmware_identity`),
constant tables (`hid_capability`, `ble_fixture_profile`), `secure_memory`,
argument parsing, file handling, provisioning around external tools, and release
tooling: functions of their input, no state of their own, or pure I/O.

Left out, with state that a model could have:

1. The BLE half of the route and the runtime (`commit_ble_if_none`, the BLE
   release and its grace, BLE reports) with `ble_hid_service`. It shares the writer
   of `HidRoute` and the authority epoch of `HidRuntime`; in one model with the USB
   half the states exceed what the runs can reach.
2. `ble_pairing` and the executor's pairing requests: one pairing at a time behind a
   sequence-locked snapshot, its passkey, timeout and disconnect in any order.
3. `ble_security`: readiness as a conjunction of evidence about one connection;
   its effect on the store is in `BondStore`.
4. `stop_transaction.hpp`, profile selection with its hidden restart, and simulated
   sleep: `BleExposure` has one profile for ever.
