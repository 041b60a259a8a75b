------------------------- MODULE BleExposureProofs -------------------------
(***************************************************************************)
(* Theorems of BleExposure, for any queue depth and any number of commands,*)
(* events and expiries, however the four tasks interleave: the types; that *)
(* no owner of the watchdog is left behind; that only a publication from a *)
(* snapshot older than a fault undoes it; and that a hidden exposure is    *)
(* off the air when a disable publishes it, and stays so.                  *)
(***************************************************************************)
EXTENDS BleExposure, TLAPS

(* The values of the fields of a lifecycle.                                *)
Desired == {"hidden", "exposed"}
Observed == {"uninitialized", "enabling", "idle", "advertising", "connected", "disabling",
             "fault"}

\* enqueue_critical appends a well-formed action.
LEMMA Queued ==
    ASSUME queue \in Seq(Action), NEW a \in Action, Enqueue(a)
    PROVE  queue' \in Seq(Action)
BY DEF Enqueue

\* What a lifecycle is made of.
LEMMA Fields ==
    ASSUME NEW s \in Lifecycle
    PROVE  s.desired \in Desired /\ s.observed \in Observed /\ s.ready \in BOOLEAN
BY DEF Lifecycle, Desired, Observed

\* A published lifecycle is one, and a fault exactly when it asks for recovery.
LEMMA PublishedType ==
    ASSUME NEW d \in Desired, NEW o \in Observed, NEW r \in BOOLEAN
    PROVE  /\ Published(d, o, r) \in Lifecycle
           /\ Published(d, o, r).recovery <=> o = "fault"
           /\ Published(d, o, r).observed = o /\ Published(d, o, r).desired = d
<1>1. (o = "connected") \in BOOLEAN /\ (o = "fault") \in BOOLEAN
    OBVIOUS
<1>2. ASSUME NEW c \in BOOLEAN, NEW f \in BOOLEAN
      PROVE  [desired |-> d, observed |-> o, ready |-> r, connected |-> c, recovery |-> f]
                \in Lifecycle
    BY DEF Lifecycle, Desired, Observed
<1>3. Published(d, o, r) \in Lifecycle
    BY <1>1, <1>2 DEF Published
<1>4. QED
    BY <1>3 DEF Published

\* begin_disable keeps what was known of a connection.
LEMMA DisablingType ==
    ASSUME NEW r \in BOOLEAN, NEW c \in BOOLEAN
    PROVE  LET s == [Published("hidden", "disabling", r) EXCEPT !.connected = c]
           IN  s \in Lifecycle /\ ~s.recovery /\ s.observed = "disabling"
BY DEF Published, Lifecycle

\* A task at rest has well-formed local state.
LEMMA AtRest == NoRx \in RxState /\ NoEx \in ExState
<1>1. Published("hidden", "uninitialized", FALSE) \in Lifecycle
    BY PublishedType DEF Desired, Observed
<1>2. QED
    BY <1>1 DEF NoRx, RxState, NoEx, ExState, Guard, ExPoint, Action, Mutator, NoAct, Act
-----------------------------------------------------------------------------
(* The control task keeps the types.                                       *)

\* Every step of request_ble_enable and request_ble_disable keeps the types.
LEMMA RxTypes == TypeOK /\ (RxStart \/ Rx) => TypeOK'
<1> SUFFICES ASSUME TypeOK, RxStart \/ Rx PROVE TypeOK'
    OBVIOUS
<1>1. ASSUME NEW o \in Command, RxClaim(o) PROVE TypeOK'
    <2>1. UNCHANGED <<expiries, state, generation, attached, reset_used, queue, token, handoff,
          committed, terminal, deadline, backend_generation, watchdog, running, hidden,
          host, adv, link, ex, task, alarm, left>>
        BY <1>1 DEF RxClaim, others, lifecycle, fallback, executor, timer, radio
    <2>2. guard' \in Guard
        BY <1>1 DEF RxClaim, TypeOK, Guard, Command
    <2>3. orders' \in Nat
        BY <1>1 DEF RxClaim, TypeOK
    <2>4. rx' \in RxState
        BY <1>1 DEF RxClaim, TypeOK, RxState, Guard, Command
    <2>5. QED
        BY <2>1, <2>2, <2>3, <2>4 DEF TypeOK
<1>2. CASE RxLoad
    <2>1. UNCHANGED <<expiries, state, generation, attached, reset_used, queue, token, handoff,
          committed, terminal, deadline, backend_generation, watchdog, running, hidden,
          host, adv, link, ex, task, alarm, orders, left>>
        BY <1>2 DEF RxLoad, others, lifecycle, fallback, executor, timer, radio
    <2>2. guard' \in Guard
        BY <1>2 DEF RxLoad, TypeOK, Guard, Released
    <2>3. rx' \in RxState
        BY <1>2, AtRest DEF RxLoad, TypeOK, RxState, Guard
    <2>4. QED
        BY <2>1, <2>2, <2>3 DEF TypeOK
<1>3. CASE RxPublish
    <2> DEFINE hides == [Published("hidden", "disabling", rx.seen.ready)
                           EXCEPT !.connected = rx.seen.connected]
    <2>1. UNCHANGED <<expiries, attached, guard, queue, token, handoff, committed, terminal, deadline,
          backend_generation, watchdog, running, hidden, host, adv, link, ex, task, alarm,
          orders, left>>
        BY <1>3 DEF RxPublish, others, lifecycle, fallback, executor, timer, radio
    <2>2. generation' = generation + 1 /\ reset_used' \in {FALSE, reset_used}
        BY <1>3 DEF RxPublish
    <2>3. state' \in {Published("exposed", "enabling", rx.seen.ready), hides}
        BY <1>3 DEF RxPublish
    <2>4. rx' = [rx EXCEPT !.pc = "enqueue", !.generation = generation', !.seen = NoRx.seen]
        BY <1>3 DEF RxPublish
    <2>5. rx.seen \in Lifecycle /\ rx.seen.ready \in BOOLEAN /\ rx.seen.connected \in BOOLEAN
        BY DEF TypeOK, RxState, Lifecycle
    <2>6. Published("exposed", "enabling", rx.seen.ready) \in Lifecycle
        BY <2>5, PublishedType DEF Desired, Observed
    <2>7. hides \in Lifecycle
        BY <2>5, DisablingType
    <2>8. NoRx.seen \in Lifecycle
        BY AtRest DEF RxState
    <2>9. rx \in RxState /\ generation \in Nat /\ reset_used \in BOOLEAN
        BY DEF TypeOK
    <2>10. generation' \in Nat
        BY <2>2, <2>9
    <2>11. reset_used' \in BOOLEAN
        BY <2>2, <2>9
    <2>12. rx' \in RxState
        BY <2>4, <2>8, <2>9, <2>10 DEF RxState
    <2>13. state' \in Lifecycle
        BY <2>3, <2>6, <2>7
    <2>14. QED
        BY <2>1, <2>12, <2>13, <2>10, <2>11 DEF TypeOK
<1>4. CASE RxEnqueue
    <2>1. UNCHANGED <<expiries, state, generation, attached, reset_used, guard, token, handoff,
          committed, terminal, deadline, backend_generation, watchdog, running, hidden,
          host, adv, link, ex, task, alarm, orders, left>>
        BY <1>4 DEF RxEnqueue, others, lifecycle, fallback, executor, timer, radio
    <2>2. queue' \in Seq(Action)
        BY <1>4, Queued DEF RxEnqueue, TypeOK, Action, Act, RxState, Guard
    <2>3. rx' \in RxState
        BY <1>4, AtRest DEF RxEnqueue
    <2>4. QED
        BY <2>1, <2>2, <2>3 DEF TypeOK
<1>5. CASE RxQueueFull
    <2>1. UNCHANGED <<expiries, generation, reset_used, queue, token, handoff, committed, terminal,
          deadline, backend_generation, watchdog, running, hidden, host, adv, link, ex,
          task, alarm, orders, left>>
        BY <1>5 DEF RxQueueFull, others, lifecycle, fallback, executor, timer, radio
    <2>2. state' \in Lifecycle
        BY <1>5, Fields, PublishedType DEF RxQueueFull, TypeOK, Observed
    <2>3. attached' \in BOOLEAN
        BY <1>5 DEF RxQueueFull, TypeOK
    <2>4. guard' \in Guard
        BY <1>5 DEF RxQueueFull, TypeOK, Guard, Released
    <2>5. rx' \in RxState
        BY <1>5, AtRest DEF RxQueueFull
    <2>6. QED
        BY <2>1, <2>2, <2>3, <2>4, <2>5 DEF TypeOK
<1>6. QED
    BY <1>1, <1>2, <1>3, <1>4, <1>5 DEF RxStart, Rx
-----------------------------------------------------------------------------
(* The executor keeps them: where it goes next, and with what.            *)

\* Where the executor goes next, and with what.
ExOK == /\ ex \in ExState
        /\ ex.pc \in {"load", "publish"} => ex.m # "none"
        /\ ex.pc \in {"withdraw", "cancel"} => ex.owner \in {"absent", "error"}
Result == Guard \cup {"absent", "error"}

\* Moving on keeps the executor's state well formed.
LEMMA Goes ==
    ASSUME ex \in ExState, NEW p \in ExPoint \ {"load", "publish", "withdraw", "cancel"}, Go(p)
    PROVE  ExOK'
BY DEF Go, ExOK, ExState

\* So does coming to rest.
LEMMA Rests == ASSUME Rest PROVE ExOK'
BY AtRest DEF Rest, ExOK, NoEx

\* So does entering a mutator.
LEMMA Enters ==
    ASSUME ex \in ExState, NEW m \in Mutator, NEW g \in Nat, NEW o \in Result, Enter(m, g, o)
    PROVE  ExOK'
<1>1. NoAct \in Action
    BY DEF NoAct, Act, Action
<1>2. QED
    BY <1>1 DEF Enter, ExOK, ExState, ExPoint, Mutator, Result

\* So does entering one with the guard at hand.
LEMMA Mutates ==
    ASSUME ex \in ExState, NEW m \in Mutator, NEW g \in Nat, Mutate(m, g)
    PROVE  ExOK'
BY Enters DEF Mutate, ExState, Result

\* So does failing.
LEMMA Fails ==
    ASSUME ex \in ExState, NEW g \in Nat, NEW o \in Result, Fail(g, o)
    PROVE  ExOK'
BY Enters DEF Fail, Mutator

\* So does going on to start_advertising.
LEMMA Advertises ==
    ASSUME ex \in ExState, NEW g \in Nat, NEW o \in Result, Advertise(g, o)
    PROVE  ExOK'
<1>1. [ex.act EXCEPT !.generation = 0] \in Action
    BY DEF ExState, Action
<1>2. QED
    BY <1>1 DEF Advertise, ExOK, ExState, ExPoint, Result

\* So does going on to the action or to the disable's sample.
LEMMA Performs == ASSUME ex \in ExState, Perform PROVE ExOK'
<1>1. PICK p \in {"drive", "act"}, w \in {"none", "handoff", "overflow", "sample", "security"} :
        ex' = [ex EXCEPT !.pc = p, !.gen = 0, !.why = w]
    <2>1. ex.why \in {"none", "handoff", "overflow", "sample", "security"}
        BY DEF ExState
    <2>2. QED
        BY <2>1 DEF Perform
<1>2. p \in ExPoint \ {"load", "publish", "withdraw", "cancel"}
    BY DEF ExPoint
<1>3. ex' \in ExState
    BY <1>1, <1>2 DEF ExState
<1>4. ex'.pc = p
    BY <1>1 DEF ExState
<1>5. QED
    BY <1>2, <1>3, <1>4 DEF ExOK

\* So does dropping an event, or going on.
LEMMA Suppresses == ASSUME ex \in ExState, Suppress PROVE ExOK'
BY Performs, Rests DEF Suppress

\* So does what follows Backend::disconnect.
LEMMA AfterDisconnects ==
    ASSUME ex \in ExState, NEW r \in {"started", "absent", "error"}, AfterDisconnect(r)
    PROVE  ExOK'
<1>1. ASSUME NEW m \in Mutator,
             ex' = [ex EXCEPT !.pc = "load", !.m = m, !.owner = "none", !.why = "none"]
      PROVE  ExOK'
    BY <1>1 DEF ExOK, ExState, ExPoint, Mutator, Guard
<1>2. CASE Go("owner")
    BY <1>2, Goes DEF ExPoint
<1>3. CASE Rest
    BY <1>3, Rests
<1>4. QED
    BY <1>1, <1>2, <1>3 DEF AfterDisconnect, Mutator

\* What a mutator publishes from a snapshot is a lifecycle.
LEMMA PublicationType ==
    ASSUME NEW m \in Mutator, NEW s \in Lifecycle, state \in Lifecycle
    PROVE  Publication(m, s) \in Lifecycle
<1>1. CASE m \in {"sync", "advertising", "connect"}
    BY <1>1, PublishedType DEF Publication, Desired, Observed
<1>2. CASE m = "hidden_sync"
    BY <1>2, PublishedType DEF Publication, Desired, Observed
<1>3. CASE m = "disconnect"
    BY <1>3, PublishedType DEF Publication, Desired, Observed
<1>4. s.desired \in Desired /\ s.ready \in BOOLEAN
    BY Fields
<1>5. CASE m = "hide"
    BY <1>4, <1>5, PublishedType DEF Publication, Desired, Observed
<1>6. CASE m = "reset"
    <2>1. Publication(m, s) \in {Published(s.desired, "fault", FALSE),
                                 Published(s.desired, "enabling", FALSE),
                                 Published(s.desired, "idle", FALSE)}
        BY <1>6 DEF Publication
    <2>2. \A o \in {"fault", "enabling", "idle"} :
              Published(s.desired, o, FALSE) \in Lifecycle
        BY <1>4, PublishedType DEF Observed
    <2>3. QED
        BY <2>1, <2>2
<1>7. CASE m = "fault"
    BY <1>4, <1>7, PublishedType DEF Publication, Observed
<1>8. QED
    BY <1>1, <1>2, <1>3, <1>5, <1>6, <1>7 DEF Mutator

\* An exchange that gives the watchdog back leaves a well-formed word.
LEMMA GivesBackType ==
    ASSUME watchdog \in Watchdog, NEW phase, NEW purpose, GivesBack(phase, purpose)
    PROVE  watchdog' \in Watchdog
BY DEF GivesBack, Watchdog, Unowned, Owned

\* Every step of the executor's task keeps the types.
LEMMA ExecutorTypes == TypeOK /\ Executor => TypeOK'
<1> SUFFICES ASSUME TypeOK, Executor PROVE TypeOK'
    OBVIOUS
<1>0. /\ state \in Lifecycle /\ generation \in Nat /\ guard \in Guard /\ queue \in Seq(Action)
      /\ token \in Nat /\ terminal \in BOOLEAN /\ deadline \in Nat /\ left \in Nat
      /\ committed \in BOOLEAN
      /\ hidden \in Hidden /\ host \in Host /\ link \in Link /\ watchdog \in Watchdog
      /\ ex \in ExState /\ (ex.pc \in {"load", "publish"} => ex.m # "none")
      /\ (ex.pc \in {"withdraw", "cancel"} => ex.owner \in {"absent", "error"})
    BY DEF TypeOK
<1>00. ex.gen \in Nat /\ ex.act \in Action /\ ex.act.generation \in Nat 
       /\ ex.seen \in Lifecycle /\ ex.owner \in Result
    BY <1>0 DEF ExState, Action, Result
<1>000. Guard \subseteq Result /\ {"enable", "disable", "none"} \subseteq Guard
    BY DEF Guard, Command, Result
<1>1. CASE Take
    <2>1. UNCHANGED <<expiries, state, generation, attached, reset_used, guard, token, handoff, committed,
          terminal, deadline, backend_generation, watchdog, running, hidden, host, adv, link,
          rx, task, alarm, orders, left>>
        BY <1>1 DEF Take, lifecycle, fallback, timer, radio, callers
    <2>2. \E p \in {"fail", "overflow"}, x \in Action,
             w \in {"none", "handoff", "sample"} :
             ex' = [ex EXCEPT !.pc = p, !.act = x, !.why = w, !.gen = generation]
        <3>1. NoAct \in Action
            BY DEF NoAct, Act, Action
        <3>2. CASE queue # <<>> /\ queue' = Tail(queue)
            <4>1. Head(queue) \in Action
                BY <1>0, <3>2
            <4>2. QED
                BY <1>1, <3>1, <4>1 DEF Take
        <3>3. QED
            BY <1>1, <3>1, <3>2 DEF Take
    <2>3. ExOK'
        <3>1. PICK p \in {"fail", "overflow"}, x \in Action,
                   w \in {"none", "handoff", "sample"} :
                   ex' = [ex EXCEPT !.pc = p, !.act = x, !.why = w, !.gen = generation]
            BY <2>2
        <3>2. QED
            BY <1>0, <3>1 DEF ExOK, ExState, ExPoint
    <2>4. \/ queue # <<>> /\ queue' = Tail(queue)
          \/ UNCHANGED queue
        BY <1>1 DEF Take
    <2>5. queue' \in Seq(Action)
        BY <1>0, <2>4
    <2>6. QED
        BY <2>1, <2>3, <2>5 DEF TypeOK, ExOK
<1>2. CASE Overflow
    <2>1. UNCHANGED <<expiries, state, generation, attached, reset_used, guard, queue, handoff,
          committed, terminal, deadline, backend_generation, watchdog, running, hidden,
          host, adv, link, rx, task, alarm, orders, left>>
        BY <1>2 DEF Overflow, lifecycle, fallback, timer, radio, callers
    <2>2. token' \in Nat
        BY <1>2, <1>0, <1>00, <1>000 DEF Overflow
    <2>3. ExOK'
        <3>1. CASE Suppress \/ Perform
            BY <1>0, <3>1, Performs, Suppresses
        <3>2. CASE ex' = [ex EXCEPT !.pc = "fail", !.why = "overflow"]
            BY <1>0, <3>2 DEF ExOK, ExState, ExPoint
        <3>3. CASE ex' = [ex EXCEPT !.gen = generation]
            BY <1>0, <3>3 DEF ExOK, ExState
        <3>4. QED
            BY <1>2, <3>1, <3>2, <3>3 DEF Overflow
    <2>4. QED
        BY <2>1, <2>2, <2>3 DEF TypeOK, ExOK
<1>3. CASE FailCurrent
    <2>1. UNCHANGED <<expiries, state, generation, attached, reset_used, guard, queue, token, handoff,
          committed, terminal, deadline, backend_generation, watchdog, running, hidden,
          host, adv, link, rx, task, alarm, orders, left>>
        BY <1>3 DEF FailCurrent, lifecycle, fallback, timer, radio, callers
    <2>2. ExOK'
        BY <1>3, <1>0, <1>00, <1>000 DEF FailCurrent, ExOK, ExState, ExPoint
    <2>3. QED
        BY <2>1, <2>2 DEF TypeOK, ExOK
<1>4. CASE FailOwner
    <2>1. UNCHANGED <<expiries, state, generation, attached, reset_used, guard, queue, token, handoff,
          committed, terminal, deadline, backend_generation, watchdog, running, hidden,
          host, adv, link, rx, task, alarm, orders, left>>
        BY <1>4 DEF FailOwner, lifecycle, fallback, timer, radio, callers
    <2>2. ExOK'
        BY <1>4, <1>0, <1>00, <1>000, AtRest DEF FailOwner, ExOK, ExState, ExPoint, Mutator
    <2>3. QED
        BY <2>1, <2>2 DEF TypeOK, ExOK
<1>5. CASE AfterFault
    <2>1. UNCHANGED <<expiries, state, generation, attached, reset_used, queue, handoff, terminal,
          deadline, backend_generation, watchdog, running, hidden, host, adv, link, rx,
          task, alarm, orders, left>>
        BY <1>5 DEF AfterFault, lifecycle, fallback, timer, radio, callers
    <2>2. guard' \in Guard
        BY <1>5, <1>0, <1>00, <1>000 DEF AfterFault, Released
    <2>3. token' \in Nat
        BY <1>5, <1>0, <1>00, <1>000 DEF AfterFault
    <2>4. committed' \in BOOLEAN
        BY <1>5, <1>0, <1>00, <1>000 DEF AfterFault
    <2>5. ExOK'
        <3>1. CASE ex' = [ex EXCEPT !.pc = "overflow", !.why = "none"]
            BY <1>0, <3>1 DEF ExOK, ExState, ExPoint
        <3>2. CASE Go("fail")
            BY <1>0, <3>2, Goes DEF ExPoint
        <3>3. CASE Suppress
            BY <1>0, <3>3, Suppresses
        <3>4. CASE Rest
            BY <3>4, Rests
        <3>5. QED
            BY <1>5, <3>1, <3>2, <3>3, <3>4 DEF AfterFault
    <2>6. QED
        BY <2>1, <2>2, <2>3, <2>4, <2>5 DEF TypeOK, ExOK
<1>6. CASE Load
    <2>1. UNCHANGED <<expiries, state, generation, attached, reset_used, guard, queue, token, handoff,
          committed, terminal, deadline, backend_generation, watchdog, running, hidden,
          host, adv, link, rx, task, alarm, orders, left>>
        BY <1>6 DEF Load, lifecycle, fallback, timer, radio, callers
    <2>2. ExOK'
        BY <1>6, <1>0, <1>00, <1>000, Goes, Fails, Rests DEF Load, ExOK, ExState, ExPoint
    <2>3. QED
        BY <2>1, <2>2 DEF TypeOK, ExOK
<1>7. CASE Store
    <2>1. UNCHANGED <<expiries, guard, queue, token, handoff, committed, backend_generation, watchdog,
          running, hidden, host, adv, link, rx, task, alarm, orders, left>>
        BY <1>7 DEF Store, fallback, timer, radio, callers
    <2>2. ex.m \in Mutator
        BY <1>0, <1>7 DEF Store, ExState
    <2>3. state' = Publication(ex.m, ex.seen)
        BY <1>7 DEF Store, Publish
    <2>4. state' \in Lifecycle
        BY <1>0, <1>00, <2>2, <2>3, PublicationType
    <2>5. generation' \in Nat
        BY <1>0, <1>7 DEF Store, Publish
    <2>6. attached' \in BOOLEAN
        BY <1>7 DEF Store, Publish, TypeOK
    <2>7. reset_used' \in BOOLEAN /\ terminal' \in BOOLEAN
        BY <1>7 DEF Store, Publish
    <2>8. deadline' \in Nat
        BY <1>0, <1>7 DEF Store
    <2>9. ExOK'
        <3>1. CASE ex.m \in {"fault", "advertising", "disconnect", "connect", "hidden_sync"}
            BY <1>0, <1>7, <3>1, Goes, Rests DEF Store, ExPoint
        <3>2. CASE ex.m = "sync"
            BY <1>0, <1>00, <1>000, <1>7, <3>2, Advertises DEF Store
        <3>3. CASE ex.m = "hide"
            <4>1. ex' = [ex EXCEPT !.pc = "failed", !.owner = "disable"]
                BY <1>7, <3>3 DEF Store
            <4>2. QED
                BY <1>0, <1>000, <4>1 DEF ExOK, ExState, ExPoint, Result
        <3>4. CASE ex.m = "reset"
            BY <1>0, <1>000, <1>7, <2>5, <3>4, Goes, Fails DEF Store, ExPoint
        <3>5. QED
            BY <2>2, <3>1, <3>2, <3>3, <3>4 DEF Mutator
    <2>10. QED
        BY <2>1, <2>4, <2>5, <2>6, <2>7, <2>8, <2>9 DEF TypeOK, ExOK
<1>8. CASE Dispatch
    <2>0. UNCHANGED <<expiries, state, generation, attached, reset_used, queue, token, handoff,
          committed, hidden, adv, link, rx, task, alarm, orders>>
        BY <1>8 DEF Dispatch, lifecycle, fallback, callers
    <2>1. CASE BeginEnable
        <3>1. UNCHANGED <<deadline, terminal>>
            BY <2>1 DEF BeginEnable, timer
        <3>2. guard' \in Guard
            BY <1>0, <1>00, <1>000, <2>1 DEF BeginEnable, Released
        <3>3. backend_generation' \in Nat
            BY <1>0, <1>00, <1>000, <2>1 DEF BeginEnable, TypeOK
        <3>4. watchdog' \in Watchdog
            BY <1>0, <1>00, <1>000, <2>1 DEF BeginEnable, Watchdog, Owned, timer
        <3>5. running' \in BOOLEAN
            BY <1>0, <1>00, <1>000, <2>1 DEF BeginEnable, TypeOK, timer
        <3>6. host' \in Host
            BY <1>0, <1>00, <1>000, <2>1 DEF BeginEnable, Host
        <3>7. left' \in Nat
            BY <1>0, <1>00, <1>000, <2>1 DEF BeginEnable
        <3>8. ExOK'
            BY <1>0, <1>00, <1>000, <2>1, Rests, Advertises, Fails DEF BeginEnable
        <3>9. QED
            BY <2>0, <3>1, <3>2, <3>3, <3>4, <3>5, <3>6, <3>7, <3>8 DEF TypeOK, ExOK
    <2>2. CASE BeginDisable
        <3>1. UNCHANGED <<watchdog, running, host, terminal, left>>
            BY <2>2 DEF BeginDisable, timer
        <3>2. guard' \in Guard
            BY <1>0, <1>00, <1>000, <2>2 DEF BeginDisable, Released
        <3>3. backend_generation' \in Nat
            BY <1>0, <1>00, <1>000, <2>2 DEF BeginDisable, TypeOK
        <3>4. deadline' \in Nat
            BY <1>0, <1>00, <1>000, <2>2 DEF BeginDisable
        <3>5. ExOK'
            BY <1>0, <1>00, <1>000, <2>2, Rests, Goes DEF BeginDisable, ExPoint
        <3>6. QED
            BY <2>0, <3>1, <3>2, <3>3, <3>4, <3>5 DEF TypeOK, ExOK
    <2>3. CASE Judge
        <3>1. UNCHANGED <<guard, backend_generation, watchdog, running, host, deadline,
              left>>
            BY <2>3 DEF Judge, timer
        <3>2. terminal' \in BOOLEAN
            BY <1>0, <1>00, <1>000, <2>3 DEF Judge
        <3>3. ExOK'
            BY <1>0, <1>00, <1>000, <2>3, Rests, Goes, Mutates, Enters, Fails, Advertises
               DEF Judge, ExPoint, Mutator
        <3>4. QED
            BY <2>0, <3>1, <3>2, <3>3 DEF TypeOK, ExOK
    <2>4. QED
        BY <1>8, <2>1, <2>2, <2>3 DEF Dispatch
<1>9. CASE Renumber
    <2>1. UNCHANGED <<expiries, state, generation, attached, reset_used, guard, queue, token, handoff,
          committed, deadline, watchdog, running, hidden, host, adv, link, rx, task, alarm,
          orders, left>>
        BY <1>9 DEF Renumber, lifecycle, fallback, timer, radio, callers
    <2>2. backend_generation' \in Nat
        BY <1>9, <1>0, <1>00, <1>000 DEF Renumber, TypeOK
    <2>3. terminal' \in BOOLEAN
        BY <1>9, <1>0, <1>00, <1>000 DEF Renumber
    <2>4. ExOK'
        BY <1>9, <1>0, <1>00, <1>000, Goes, Advertises, Rests DEF Renumber, ExPoint
    <2>5. QED
        BY <2>1, <2>2, <2>3, <2>4 DEF TypeOK, ExOK
<1>10. CASE StartAdvertising
    <2>1. UNCHANGED <<expiries, state, generation, attached, reset_used, guard, queue, token, handoff,
          committed, terminal, deadline, backend_generation, watchdog, running, host, link,
          rx, task, alarm, orders, left>>
        BY <1>10 DEF StartAdvertising, lifecycle, fallback, timer, radio, callers
    <2>2. hidden' \in Hidden
        BY <1>10, <1>0, <1>00, <1>000 DEF StartAdvertising, Hidden
    <2>3. adv' \in BOOLEAN
        BY <1>10, <1>0, <1>00, <1>000 DEF StartAdvertising, TypeOK
    <2>4. ExOK'
        BY <1>10, <1>0, <1>00, <1>000, Mutates, Fails, Rests DEF StartAdvertising, ExPoint, Mutator
    <2>5. QED
        BY <2>1, <2>2, <2>3, <2>4 DEF TypeOK, ExOK
<1>11. CASE Hide
    <2>1. UNCHANGED <<expiries, state, generation, attached, reset_used, guard, queue, token, handoff,
          committed, terminal, backend_generation, watchdog, running, host, rx, task, alarm,
          orders>>
        BY <1>11 DEF Hide, lifecycle, fallback, timer, radio, callers
    <2>2. hidden' \in Hidden
        BY <1>11, <1>0, <1>00, <1>000 DEF Hide, HideFails, Hidden
    <2>3. adv' \in BOOLEAN
        BY <1>11, <1>0, <1>00, <1>000 DEF Hide, HideFails, TypeOK
    <2>4. link' \in Link
        BY <1>11, <1>0, <1>00, <1>000 DEF Hide, HideFails
    <2>5. left' \in Nat
        BY <1>11, <1>0, <1>00, <1>000 DEF Hide, HideFails
    <2>6. deadline' \in Nat
        BY <1>11, <1>0, <1>00, <1>000 DEF Hide, HideFails
    <2>7. ExOK'
        BY <1>11, <1>0, <1>00, <1>000, Goes, Fails DEF Hide, HideFails, ExPoint
    <2>8. QED
        BY <2>1, <2>2, <2>3, <2>4, <2>5, <2>6, <2>7 DEF TypeOK, ExOK
<1>12. CASE Sweep
    <2>1. UNCHANGED <<expiries, state, generation, attached, reset_used, guard, queue, token,
          handoff, committed, terminal, backend_generation, watchdog, running, host, adv, rx,
          task, alarm, orders>>
        BY <1>12 DEF Sweep, lifecycle, fallback, timer, radio, callers
    <2>2. hidden' \in Hidden
        BY <1>12, <1>0, <1>00, <1>000 DEF Sweep, Hidden
    <2>3. link' \in Link
        BY <1>12, <1>0, <1>00, <1>000 DEF Sweep, Link
    <2>4. deadline' \in Nat /\ left' \in Nat
        BY <1>12, <1>0, <1>00, <1>000 DEF Sweep
    <2>5. ExOK'
        BY <1>12, <1>0, <1>00, <1>000, Goes, Fails DEF Sweep, ExPoint
    <2>6. QED
        BY <2>1, <2>2, <2>3, <2>4, <2>5 DEF TypeOK, ExOK
<1>13. CASE QueueBarrier
    <2>1. UNCHANGED <<expiries, state, generation, attached, reset_used, guard, queue, token,
          handoff, committed, terminal, backend_generation, watchdog, running, host, adv, link,
          rx, task, alarm, orders, left>>
        BY <1>13 DEF QueueBarrier, lifecycle, fallback, timer, radio, callers
    <2>2. hidden' \in Hidden
        BY <1>13, <1>0, <1>00, <1>000 DEF QueueBarrier, Hidden
    <2>3. deadline' \in Nat
        BY <1>13, <1>0, <1>00, <1>000 DEF QueueBarrier
    <2>4. ExOK'
        BY <1>13, <1>0, <1>00, <1>000, Goes, Fails DEF QueueBarrier, ExPoint
    <2>5. QED
        BY <2>1, <2>2, <2>3, <2>4 DEF TypeOK, ExOK
<1>14. CASE Drive
    <2>1. UNCHANGED <<expiries, state, generation, attached, reset_used, guard, queue, token, handoff,
          committed, terminal, backend_generation, watchdog, running, hidden, host, adv,
          link, rx, task, alarm, orders, left>>
        BY <1>14 DEF Drive, lifecycle, fallback, timer, radio, callers
    <2>2. deadline' \in Nat
        BY <1>14, <1>0, <1>00, <1>000 DEF Drive
    <2>3. ExOK'
        BY <1>14, <1>0, <1>00, <1>000, Rests, Fails, Mutates DEF Drive, Mutator
    <2>4. QED
        BY <2>1, <2>2, <2>3 DEF TypeOK, ExOK
<1>15. CASE Security
    <2>1. UNCHANGED <<expiries, state, generation, attached, reset_used, guard, queue, token, handoff,
          committed, deadline, backend_generation, watchdog, running, hidden, host, adv,
          link, rx, task, alarm, orders, left>>
        BY <1>15 DEF Security, lifecycle, fallback, timer, radio, callers
    <2>2. terminal' \in BOOLEAN
        BY <1>15, <1>0, <1>00, <1>000 DEF Security
    <2>3. ExOK'
        <3>1. CASE ex' = [ex EXCEPT !.pc = "arm", !.gen = generation, !.why = "security",
                                    !.act = NoAct]
            <4>1. NoAct \in Action
                BY DEF NoAct, Act, Action
            <4>2. QED
                BY <1>0, <3>1, <4>1 DEF ExOK, ExState, ExPoint
        <3>2. CASE Rest
            BY <3>2, Rests
        <3>3. QED
            BY <1>15, <3>1, <3>2 DEF Security
    <2>4. QED
        BY <2>1, <2>2, <2>3 DEF TypeOK, ExOK
<1>16. CASE Arm
    <2>1. UNCHANGED <<expiries, state, generation, attached, reset_used, guard, queue, token,
          handoff, committed, terminal, deadline, backend_generation, running, hidden, host, adv,
          link, rx, task, alarm, orders, left>>
        BY <1>16 DEF Arm, lifecycle, fallback, timer, radio, callers
    <2>2. watchdog' \in Watchdog
        BY <1>16, <1>0, <1>00, <1>000 DEF Arm, Watchdog, Owned
    <2>3. ExOK'
        BY <1>16, <1>0, <1>00, <1>000, Goes, AfterDisconnects DEF Arm, ExPoint
    <2>4. QED
        BY <2>1, <2>2, <2>3 DEF TypeOK, ExOK
<1>17. CASE Start
    <2>1. UNCHANGED <<expiries, state, generation, attached, reset_used, guard, queue, token,
          handoff, committed, terminal, deadline, backend_generation, watchdog, hidden, host, adv,
          link, rx, task, alarm, orders, left>>
        BY <1>17 DEF Start, lifecycle, fallback, timer, radio, callers
    <2>2. running' \in BOOLEAN
        BY <1>17 DEF Start
    <2>3. ExOK'
        <3>1. Go("disarm") \/ Go("terminate")
            BY <1>17 DEF Start
        <3>2. QED
            BY <1>0, <3>1, Goes DEF ExPoint
    <2>4. QED
        BY <2>1, <2>2, <2>3 DEF TypeOK, ExOK
<1>18. CASE Disarm
    <2>1. UNCHANGED <<expiries, state, generation, attached, reset_used, guard, queue, token,
          handoff, committed, terminal, deadline, backend_generation, running, hidden, host, adv,
          link, rx, task, alarm, orders, left>>
        BY <1>18 DEF Disarm, lifecycle, fallback, timer, radio, callers
    <2>2. watchdog' \in Watchdog
        BY <1>0, <1>18, GivesBackType DEF Disarm
    <2>3. ExOK'
        BY <1>18, <1>0, <1>00, <1>000, AfterDisconnects DEF Disarm
    <2>4. QED
        BY <2>1, <2>2, <2>3 DEF TypeOK, ExOK
<1>19. CASE Terminate
    <2>1. UNCHANGED <<expiries, state, generation, attached, reset_used, guard, queue, token,
          handoff, committed, terminal, deadline, backend_generation, watchdog, running, hidden, host, adv,
          rx, task, alarm, orders>>
        BY <1>19 DEF Terminate, lifecycle, fallback, timer, radio, callers
    <2>2. link' \in Link
        BY <1>19, <1>0, <1>00, <1>000 DEF Terminate, Link
    <2>3. left' \in Nat
        BY <1>19, <1>0, <1>00, <1>000 DEF Terminate
    <2>4. ExOK'
        BY <1>19, <1>0, <1>00, <1>000, AfterDisconnects DEF Terminate, ExOK, ExState, ExPoint
    <2>5. QED
        BY <2>1, <2>2, <2>3, <2>4 DEF TypeOK, ExOK
<1>20. CASE Withdraw
    <2>1. UNCHANGED <<expiries, state, generation, attached, reset_used, guard, queue, token,
          handoff, committed, terminal, deadline, backend_generation, running, hidden, host, adv,
          link, rx, task, alarm, orders, left>>
        BY <1>20 DEF Withdraw, lifecycle, fallback, timer, radio, callers
    <2>2. watchdog' \in Watchdog
        BY <1>20, <1>0, <1>00, <1>000 DEF Withdraw, Watchdog, Owned
    <2>3. ex.owner \in {"absent", "error"}
        BY <1>0, <1>20 DEF Withdraw
    <2>4. ExOK'
        <3>1. CASE Go("cancel")
            BY <1>0, <2>3, <3>1 DEF Go, ExOK, ExState, ExPoint
        <3>2. CASE AfterDisconnect(ex.owner)
            BY <1>0, <2>3, <3>2, AfterDisconnects
        <3>3. QED
            BY <1>20, <3>1, <3>2 DEF Withdraw
    <2>5. QED
        BY <2>1, <2>2, <2>4 DEF TypeOK, ExOK
<1>21. CASE CancelDisconnect
    <2>1. UNCHANGED <<expiries, state, generation, attached, reset_used, guard, queue, token,
          handoff, committed, terminal, deadline, backend_generation, hidden, host, adv,
          link, rx, task, alarm, orders, left>>
        BY <1>21 DEF CancelDisconnect, lifecycle, fallback, timer, radio, callers
    <2>2. watchdog' \in Watchdog
        BY <1>0, <1>21, GivesBackType DEF CancelDisconnect
    <2>3. running' \in BOOLEAN
        BY <1>21 DEF CancelDisconnect
    <2>4. ExOK'
        BY <1>21, <1>0, <1>00, <1>000, AfterDisconnects DEF CancelDisconnect
    <2>5. QED
        BY <2>1, <2>2, <2>3, <2>4 DEF TypeOK, ExOK
<1>22. QED
    BY <1>1, <1>2, <1>3, <1>4, <1>5, <1>6, <1>7, <1>8, <1>9, <1>10, <1>11, <1>12, <1>13,
       <1>14, <1>15, <1>16, <1>17, <1>18, <1>19, <1>20, <1>21
       DEF Executor, Work
-----------------------------------------------------------------------------
(* The host task and the timer task keep them.                             *)

\* The host task and the timer task: what is signalled, and what follows.
LEMMA TimerAtRest == NoAct \in Action /\ NoTask \in TaskState /\ NoAlarm \in AlarmState
BY DEF NoAct, Act, Action, NoTask, TaskState, NoAlarm, AlarmState

\* What a handler signals is an event.
LEMMA Signals ==
    ASSUME NEW kind \in Event, Signal(kind)
    PROVE  task' \in TaskState
BY DEF Signal, Act, Action, TaskState

\* What is left of a handler after its event.
LEMMA Ends == ASSUME NEW ev \in Action PROVE Ended(ev) \in TaskState
BY TimerAtRest DEF Ended, TaskState

\* What follows signal_ble_event.
LEMMA AfterSignals ==
    ASSUME NEW ev \in Action, NEW p \in BOOLEAN, AfterSignal(ev, p)
    PROVE  task' \in TaskState
<1>1. Act(ev.kind, 0) \in Action
    BY DEF Act, Action
<1>2. QED
    BY <1>1, Ends DEF AfterSignal, TaskState

\* What the other two tasks leave alone.
Kept == UNCHANGED <<state, generation, attached, reset_used, guard, committed, terminal,
                    deadline, rx, ex, orders, expiries>>

\* Every step of a NimBLE callback, of the timer and of timeout_callback keeps the types.
LEMMA HostTypes == TypeOK /\ (HostStarts \/ HostTask \/ Expire \/ Alarm) => TypeOK'
<1> SUFFICES ASSUME TypeOK, HostStarts \/ HostTask \/ Expire \/ Alarm PROVE TypeOK'
    OBVIOUS
<1>0. /\ queue \in Seq(Action) /\ token \in Nat /\ backend_generation \in Nat /\ left \in Nat
      /\ watchdog \in Watchdog /\ hidden \in Hidden /\ host \in Host /\ link \in Link
      /\ generation \in Nat
      /\ task \in TaskState /\ alarm \in AlarmState /\ expiries \in Nat
    BY DEF TypeOK
<1>00. task.ev \in Action /\ task.ev.generation \in Nat
       /\ alarm.ev \in Action /\ alarm.ev.generation \in Nat
    BY <1>0 DEF TaskState, AlarmState, Action
<1>1. CASE Accept
    <2>1. Kept /\ UNCHANGED <<queue, token, handoff, backend_generation, watchdog,
          running, hidden, host, task, alarm, left>>
        BY <1>1 DEF Accept, Kept, lifecycle, control, executor, timer, radio
    <2>2. adv' \in BOOLEAN
        BY <1>1, <1>0, <1>00 DEF Accept, TypeOK
    <2>3. link' \in Link
        BY <1>1, <1>0, <1>00 DEF Accept, Link
    <2>4. QED
        BY <2>1, <2>2, <2>3 DEF TypeOK, Kept
<1>2. CASE Synchronize
    <2>1. Kept /\ UNCHANGED <<queue, token, handoff, backend_generation, watchdog,
          running, hidden, adv, link, alarm>>
        BY <1>2 DEF Synchronize, Kept, lifecycle, control, executor, timer, radio
    <2>2. host' \in Host
        BY <1>2, <1>0, <1>00 DEF Synchronize, Host
    <2>3. task' \in TaskState
        BY <1>2, <1>0, <1>00, Signals DEF Synchronize, Event
    <2>4. left' \in Nat
        BY <1>2, <1>0, <1>00 DEF Synchronize
    <2>5. QED
        BY <2>1, <2>2, <2>3, <2>4 DEF TypeOK, Kept
<1>3. CASE Disconnected
    <2>1. Kept /\ UNCHANGED <<queue, token, handoff, backend_generation, watchdog,
          running, hidden, host, adv, alarm>>
        BY <1>3 DEF Disconnected, Kept, lifecycle, control, executor, timer, radio
    <2>2. link' \in Link
        BY <1>3, <1>0, <1>00 DEF Disconnected, Link
    <2>3. task' \in TaskState
        BY <1>3, <1>0, <1>00, Signals DEF Disconnected, Event
    <2>4. left' \in Nat
        BY <1>3, <1>0, <1>00 DEF Disconnected
    <2>5. QED
        BY <2>1, <2>2, <2>3, <2>4 DEF TypeOK, Kept
<1>4. CASE PeerEvent
    <2>1. Kept /\ UNCHANGED <<queue, token, handoff, backend_generation, watchdog,
          running, hidden, host, link, alarm>>
        BY <1>4 DEF PeerEvent, Kept, lifecycle, control, executor, timer, radio
    <2>2. adv' \in BOOLEAN
        BY <1>4, <1>0, <1>00 DEF PeerEvent, TypeOK
    <2>3. task' \in TaskState
        BY <1>4, <1>0, <1>00, Signals DEF PeerEvent, Event
    <2>4. left' \in Nat
        BY <1>4, <1>0, <1>00 DEF PeerEvent
    <2>5. QED
        BY <2>1, <2>2, <2>3, <2>4 DEF TypeOK, Kept
<1>5. CASE Reset
    <2>1. Kept /\ UNCHANGED <<queue, token, handoff, backend_generation, watchdog,
          running, hidden, alarm>>
        BY <1>5 DEF Reset, Kept, lifecycle, control, executor, timer, radio
    <2>2. host' \in Host
        BY <1>5, <1>0, <1>00 DEF Reset, Host
    <2>3. adv' \in BOOLEAN
        BY <1>5, <1>0, <1>00 DEF Reset
    <2>4. link' \in Link
        BY <1>5, <1>0, <1>00 DEF Reset, Link
    <2>5. task' \in TaskState
        BY <1>5, <1>0, <1>00, Signals, TimerAtRest DEF Reset, Event, TaskState
    <2>6. left' \in Nat
        BY <1>5, <1>0, <1>00 DEF Reset
    <2>7. QED
        BY <2>1, <2>2, <2>3, <2>4, <2>5, <2>6 DEF TypeOK, Kept
<1>6. CASE Insert
    <2>1. Kept /\ UNCHANGED <<queue, token, handoff, backend_generation, watchdog,
          running, hidden, host, adv, alarm, left>>
        BY <1>6 DEF Insert, Kept, lifecycle, control, executor, timer, radio
    <2>2. link' \in Link
        BY <1>6, <1>0, <1>00 DEF Insert, Link
    <2>3. task' \in TaskState
        BY <1>6, <1>0, <1>00, TimerAtRest DEF Insert, TaskState, NoTask
    <2>4. QED
        BY <2>1, <2>2, <2>3 DEF TypeOK, Kept
<1>7. CASE Connected
    <2>1. Kept /\ UNCHANGED <<queue, token, handoff, backend_generation, watchdog,
          running, host, adv, alarm, left>>
        BY <1>7 DEF Connected, Kept, lifecycle, control, executor, timer, radio
    <2>2. hidden' \in Hidden
        BY <1>7, <1>0, <1>00 DEF Connected, Hidden
    <2>3. link' \in Link
        BY <1>7, <1>0, <1>00 DEF Connected, Link
    <2>4. task' \in TaskState
        BY <1>7, <1>0, <1>00, Signals DEF Connected, Event
    <2>5. QED
        BY <2>1, <2>2, <2>3, <2>4 DEF TypeOK, Kept
<1>8. CASE OnReset
    <2>1. Kept /\ UNCHANGED <<queue, token, handoff, watchdog, running, hidden, host,
          adv, link, alarm, left>>
        BY <1>8 DEF OnReset, Kept, lifecycle, control, executor, timer, radio
    <2>2. backend_generation' \in Nat
        BY <1>8, <1>0, <1>00 DEF OnReset
    <2>3. task' \in TaskState
        BY <1>8, <1>0, <1>00 DEF OnReset, TaskState, Act, Action, Event
    <2>4. QED
        BY <2>1, <2>2, <2>3 DEF TypeOK, Kept
<1>9. CASE Rearm
    <2>1. Kept /\ UNCHANGED <<queue, token, backend_generation, running, hidden, host, adv,
          link, alarm, left>>
        BY <1>9 DEF Rearm, Kept, lifecycle, control, executor, radio
    <2>2. watchdog' \in Watchdog
        BY <1>9, <1>0, <1>00 DEF Rearm, Watchdog, Owned
    <2>3. handoff' \in BOOLEAN
        BY <1>9, <1>0, <1>00 DEF Rearm, TypeOK
    <2>4. task' \in TaskState
        BY <1>9, <1>0, <1>00 DEF Rearm, TaskState
    <2>5. QED
        BY <2>1, <2>2, <2>3, <2>4 DEF TypeOK, Kept
<1>10. CASE StartSync
    <2>1. Kept /\ UNCHANGED <<queue, token, handoff, backend_generation, watchdog, hidden,
          host, adv, link, alarm, left>>
        BY <1>10 DEF StartSync, Kept, lifecycle, control, executor, radio
    <2>2. running' \in BOOLEAN
        BY <1>10 DEF StartSync
    <2>3. task' \in TaskState
        BY <1>10, <1>0, <1>00 DEF StartSync, TaskState
    <2>4. QED
        BY <2>1, <2>2, <2>3 DEF TypeOK, Kept
<1>11. CASE DisarmSync
    <2>1. Kept /\ UNCHANGED <<queue, token, backend_generation, running, hidden, host, adv,
          link, alarm, left>>
        BY <1>11 DEF DisarmSync, Kept, lifecycle, control, executor, radio
    <2>2. watchdog' \in Watchdog
        BY <1>11, <1>0, GivesBackType DEF DisarmSync
    <2>3. handoff' \in BOOLEAN
        BY <1>11 DEF DisarmSync
    <2>4. task' \in TaskState
        BY <1>11, <1>0, <1>00 DEF DisarmSync, TaskState
    <2>5. QED
        BY <2>1, <2>2, <2>3, <2>4 DEF TypeOK, Kept
<1>12. CASE Stamp
    <2>1. Kept /\ UNCHANGED <<queue, token, handoff, backend_generation, watchdog, running,
          hidden, host, adv, link, alarm, left>>
        BY <1>12 DEF Stamp, Kept, lifecycle, control, executor, timer, radio
    <2>2. task' \in TaskState
        BY <1>12, <1>0, <1>00 DEF Stamp, TaskState, Act, Action
    <2>3. QED
        BY <2>1, <2>2 DEF TypeOK, Kept
<1>13. CASE Barrier
    <2>1. Kept /\ UNCHANGED <<queue, token, handoff, backend_generation, watchdog,
          running, host, adv, link, task, alarm, left>>
        BY <1>13 DEF Barrier, Kept, lifecycle, control, executor, timer, radio
    <2>2. hidden' \in Hidden
        BY <1>13, <1>0, <1>00 DEF Barrier, Hidden
    <2>3. QED
        BY <2>1, <2>2 DEF TypeOK, Kept
<1>14. CASE SignalQueued
    <2>1. Kept /\ UNCHANGED <<token, handoff, backend_generation, watchdog, running,
          hidden, host, adv, link, alarm, left>>
        BY <1>14 DEF SignalQueued, Kept, lifecycle, control, executor, timer, radio
    <2>2. queue' \in Seq(Action)
        BY <1>14, <1>0, <1>00, Queued DEF SignalQueued
    <2>3. task' \in TaskState
        BY <1>14, <1>0, <1>00, AfterSignals DEF SignalQueued
    <2>4. QED
        BY <2>1, <2>2, <2>3 DEF TypeOK, Kept
<1>15. CASE SignalFull
    <2>1. Kept /\ UNCHANGED <<queue, handoff, backend_generation, watchdog, running,
          hidden, host, adv, alarm, left>>
        BY <1>15 DEF SignalFull, Kept, lifecycle, control, executor, timer, radio
    <2>2. token' \in Nat
        BY <1>15, <1>0, <1>00 DEF SignalFull
    <2>3. link' \in Link
        BY <1>15, <1>0, <1>00 DEF SignalFull, Link
    <2>4. task' \in TaskState
        BY <1>15, <1>0, <1>00 DEF SignalFull, TaskState
    <2>5. QED
        BY <2>1, <2>2, <2>3, <2>4 DEF TypeOK, Kept
<1>16. CASE SignalLost
    <2>1. Kept /\ UNCHANGED <<queue, token, backend_generation, watchdog, running,
          hidden, host, adv, link, alarm, left>>
        BY <1>16 DEF SignalLost, Kept, lifecycle, control, executor, timer, radio
    <2>2. handoff' \in BOOLEAN
        BY <1>16, <1>0, <1>00 DEF SignalLost, TypeOK
    <2>3. task' \in TaskState
        BY <1>16, <1>0, <1>00, AfterSignals DEF SignalLost
    <2>4. QED
        BY <2>1, <2>2, <2>3 DEF TypeOK, Kept
<1>17. CASE BeginCancel
    <2>1. Kept /\ UNCHANGED <<queue, token, handoff, backend_generation, running,
          hidden, host, adv, link, alarm, left>>
        BY <1>17 DEF BeginCancel, Kept, lifecycle, control, executor, timer, radio
    <2>2. watchdog' \in Watchdog
        BY <1>17, <1>0, <1>00 DEF BeginCancel, Watchdog, Owned, CancelPurpose
    <2>3. task' \in TaskState
        BY <1>17, <1>0, <1>00, Ends DEF BeginCancel, TaskState
    <2>4. QED
        BY <2>1, <2>2, <2>3 DEF TypeOK, Kept
<1>18. CASE CompleteCancel
    <2>1. Kept /\ UNCHANGED <<queue, token, handoff, backend_generation, hidden, host,
          adv, link, alarm, left>>
        BY <1>18 DEF CompleteCancel, Kept, lifecycle, control, executor, radio
    <2>2. watchdog' \in Watchdog
        BY <1>18, <1>0, GivesBackType DEF CompleteCancel
    <2>3. running' \in BOOLEAN
        BY <1>18 DEF CompleteCancel
    <2>4. task' \in TaskState
        BY <1>18, <1>0, <1>00, Ends DEF CompleteCancel
    <2>5. QED
        BY <2>1, <2>2, <2>3, <2>4 DEF TypeOK, Kept
<1>19. CASE Expire
    <2>1. UNCHANGED <<state, generation, attached, reset_used, guard, queue, token, handoff,
          committed, terminal, deadline, backend_generation, watchdog, hidden, host, adv,
          link, rx, ex, task, orders, left>>
        BY <1>19 DEF Expire, lifecycle, fallback, executor, radio
    <2>2. running' \in BOOLEAN
        BY <1>19 DEF Expire
    <2>3. alarm' \in AlarmState
        BY <1>19, TimerAtRest DEF Expire, AlarmState, NoAlarm
    <2>4. expiries' \in Nat
        BY <1>19, <1>0 DEF Expire
    <2>5. QED
        BY <2>1, <2>2, <2>3, <2>4 DEF TypeOK
<1>20. CASE BeginTimeout
    <2>1. Kept /\ UNCHANGED <<queue, token, handoff, backend_generation, running,
          hidden, host, adv, link, task, left>>
        BY <1>20 DEF BeginTimeout, Kept, lifecycle, control, executor, timer, radio
    <2>2. watchdog' \in Watchdog
        BY <1>20, <1>0, <1>00 DEF BeginTimeout, Watchdog
    <2>3. alarm' \in AlarmState
        BY <1>20, <1>0, <1>00, TimerAtRest DEF BeginTimeout, AlarmState, Action, Act,
           Event, Watchdog
    <2>4. QED
        BY <2>1, <2>2, <2>3 DEF TypeOK, Kept
<1>21. CASE StampTimeout
    <2>1. Kept /\ UNCHANGED <<queue, token, handoff, backend_generation, watchdog, running,
          hidden, host, adv, link, task, left>>
        BY <1>21 DEF StampTimeout, Kept, lifecycle, control, executor, timer, radio
    <2>2. alarm' \in AlarmState
        BY <1>21, <1>0 DEF StampTimeout, AlarmState, Act, Action, Event
    <2>3. QED
        BY <2>1, <2>2 DEF TypeOK, Kept
<1>22. CASE TimeoutQueued
    <2>1. Kept /\ UNCHANGED <<token, handoff, backend_generation, watchdog, running, hidden,
          host, adv, link, task, left>>
        BY <1>22 DEF TimeoutQueued, Kept, lifecycle, control, executor, timer, radio
    <2>2. queue' \in Seq(Action)
        BY <1>22, <1>0, <1>00, Queued DEF TimeoutQueued
    <2>3. alarm' \in AlarmState
        BY <1>22, <1>0, TimerAtRest DEF TimeoutQueued, AlarmState
    <2>4. QED
        BY <2>1, <2>2, <2>3 DEF TypeOK, Kept
<1>23. CASE TimeoutFull
    <2>1. Kept /\ UNCHANGED <<queue, handoff, backend_generation, watchdog, running, hidden,
          host, adv, link, task, left>>
        BY <1>23 DEF TimeoutFull, Kept, lifecycle, control, executor, timer, radio
    <2>2. token' \in Nat
        BY <1>23, <1>0, <1>00 DEF TimeoutFull
    <2>3. alarm' \in AlarmState
        BY <1>23, <1>0, TimerAtRest DEF TimeoutFull, AlarmState
    <2>4. QED
        BY <2>1, <2>2, <2>3 DEF TypeOK, Kept
<1>24. CASE TimeoutLost
    <2>1. Kept /\ UNCHANGED <<queue, token, backend_generation, watchdog, running, hidden,
          host, adv, link, task, left>>
        BY <1>24 DEF TimeoutLost, Kept, lifecycle, control, executor, timer, radio
    <2>2. handoff' \in BOOLEAN
        BY <1>24 DEF TimeoutLost
    <2>3. alarm' \in AlarmState
        BY <1>24, <1>0 DEF TimeoutLost, AlarmState
    <2>4. QED
        BY <2>1, <2>2, <2>3 DEF TypeOK, Kept
<1>25. CASE CompleteTimeout
    <2>1. Kept /\ UNCHANGED <<queue, token, handoff, backend_generation, running,
          hidden, host, adv, link, task, left>>
        BY <1>25 DEF CompleteTimeout, Kept, lifecycle, control, executor, radio
    <2>2. watchdog' \in Watchdog
        BY <1>25, <1>0, GivesBackType DEF CompleteTimeout
    <2>3. alarm' \in AlarmState
        BY <1>25, TimerAtRest DEF CompleteTimeout
    <2>4. QED
        BY <2>1, <2>2, <2>3 DEF TypeOK, Kept
<1>26. QED
    BY <1>1, <1>2, <1>3, <1>4, <1>5, <1>6, <1>7, <1>8, <1>9, <1>10, <1>11, <1>12, <1>13,
       <1>14, <1>15, <1>16, <1>17, <1>18, <1>19, <1>20, <1>21, <1>22, <1>23, <1>24,
       <1>25
       DEF HostStarts, HostTask, Alarm

\* TypeOK is kept by every step.
LEMMA TypeStep == ASSUME TypeOK, [Next]_vars PROVE TypeOK'
<1>1. CASE Next
    BY <1>1, RxTypes, ExecutorTypes, HostTypes DEF Next
<1>2. CASE UNCHANGED vars
    <2>1. UNCHANGED <<state, generation, attached, reset_used, guard, queue, token, handoff,
                      committed, terminal, deadline, backend_generation, watchdog, running,
                      hidden, host, adv, link, orders, left, expiries, rx, ex, task, alarm>>
        BY <1>2 DEF vars, lifecycle, fallback, executor, timer, radio
    <2>2. QED
        BY <2>1 DEF TypeOK
<1>3. QED
    BY <1>1, <1>2

\* Every state a run reaches has the types.
THEOREM TypeCorrect == Spec => []TypeOK
<1>1. Init => TypeOK
    <2> SUFFICES ASSUME Init PROVE TypeOK
        OBVIOUS
    <2>1. state \in Lifecycle
        BY PublishedType DEF Init, Desired, Observed
    <2>2. orders \in Nat /\ left \in Nat /\ expiries \in Nat
        BY BoundAssumption DEF Init
    <2>3. rx \in RxState /\ ex \in ExState /\ task \in TaskState /\ alarm \in AlarmState
        BY AtRest, TimerAtRest DEF Init
    <2>4. ex.pc = "idle"
        BY DEF Init, NoEx
    <2>5. queue \in Seq(Action)
        BY DEF Init
    <2>6. guard \in Guard /\ watchdog \in Watchdog /\ hidden \in Hidden /\ host \in Host
          /\ link \in Link
        BY DEF Init, Guard, Watchdog, Unowned, Owned, Hidden, Host, Link
    <2>7. generation \in Nat /\ token \in Nat /\ deadline \in Nat /\ backend_generation \in Nat
        BY DEF Init
    <2>8. attached \in BOOLEAN /\ reset_used \in BOOLEAN /\ handoff \in BOOLEAN
          /\ committed \in BOOLEAN /\ terminal \in BOOLEAN /\ running \in BOOLEAN
          /\ adv \in BOOLEAN
        BY DEF Init
    <2>9. QED
        BY <2>1, <2>2, <2>3, <2>4, <2>5, <2>6, <2>7, <2>8 DEF TypeOK
<1>2. TypeOK /\ [Next]_vars => TypeOK'
    BY TypeStep
<1>3. QED
    BY <1>1, <1>2, PTL DEF Spec
-----------------------------------------------------------------------------
(* Where a step of the executor leaves it, and what each task leaves alone. *)

\* The point after each way to go on.
LEMMA Points ==
    ASSUME ex \in ExState
    PROVE  /\ \A p : Go(p) => ex' = [ex EXCEPT !.pc = p] /\ ex'.pc = p
           /\ Rest => ex'.pc = "idle"
           /\ \A m, g, o : Enter(m, g, o) => ex'.pc = "load" /\ ex'.m = m
           /\ \A m, g : Mutate(m, g) => ex'.pc = "load" /\ ex'.m = m
           /\ \A g, o : Fail(g, o) => ex'.pc = "load" /\ ex'.m = "fault"
           /\ \A g, o : Advertise(g, o) => ex'.pc = "advertise"
           /\ Suppress \/ Perform => ex'.pc \in {"idle", "drive", "act"}
           /\ \A r : AfterDisconnect(r) =>
                  \/ ex'.pc \in {"idle", "owner"}
                  \/ ex'.pc = "load" /\ ex'.m \in {"disconnect", "fault"}
                  \/ r \notin {"started", "absent", "error"}
<1>1. Rest => ex'.pc = "idle"
    BY DEF Rest, NoEx
<1>2. \A m, g, o : Enter(m, g, o) => ex'.pc = "load" /\ ex'.m = m
    BY DEF Enter, ExState
<1>3. Suppress \/ Perform => ex'.pc \in {"idle", "drive", "act"}
    BY <1>1 DEF Perform, Suppress, ExState
<1>4. \A p : Go(p) => ex' = [ex EXCEPT !.pc = p] /\ ex'.pc = p
    BY DEF Go, ExState
<1>5. ASSUME NEW r \in {"started", "absent", "error"}, AfterDisconnect(r)
      PROVE  \/ ex'.pc \in {"idle", "owner"}
             \/ ex'.pc = "load" /\ ex'.m \in {"disconnect", "fault"}
    <2>1. ASSUME NEW m, ex' = [ex EXCEPT !.pc = "load", !.m = m, !.owner = "none",
                                         !.why = "none"]
          PROVE  ex'.pc = "load" /\ ex'.m = m
        BY <2>1 DEF ExState
    <2>2. QED
        BY <1>1, <1>4, <1>5, <2>1 DEF AfterDisconnect
<1>6. \A r : AfterDisconnect(r) =>
          \/ ex'.pc \in {"idle", "owner"}
          \/ ex'.pc = "load" /\ ex'.m \in {"disconnect", "fault"}
          \/ r \notin {"started", "absent", "error"}
    BY <1>5
<1>7. \A g, o : Advertise(g, o) => ex'.pc = "advertise"
    BY DEF Advertise, ExState
<1>8. \A m, g : Mutate(m, g) => ex'.pc = "load" /\ ex'.m = m
    BY <1>2 DEF Mutate
<1>9. \A g, o : Fail(g, o) => ex'.pc = "load" /\ ex'.m = "fault"
    BY <1>2 DEF Fail
<1>10. QED
    BY <1>1, <1>2, <1>3, <1>4, <1>6, <1>7, <1>8, <1>9

\* Only Load brings the executor to a publication, only Withdraw to a cancellation,
\* only Drive to a hide, and only three steps to start_advertising.
LEMMA Arrivals ==
    ASSUME TypeOK, Executor
    PROVE  /\ ex'.pc = "publish" => Load
           /\ ex'.pc = "cancel" => Withdraw
           /\ ex'.pc = "load" /\ ex'.m = "hide" => Drive
           /\ ex'.pc = "advertise" => Store \/ Dispatch \/ Renumber
           /\ ex'.pc = "disconnected" => Store
<1> DEFINE Plain == /\ ex'.pc \notin {"publish", "cancel", "advertise", "disconnected"}
                    /\ ex'.pc = "load" => ex'.m # "hide"
<1>0. ex \in ExState /\ (ex.pc \in {"withdraw", "cancel"} => ex.owner \in {"absent", "error"})
    BY DEF TypeOK
<1>1. ASSUME Take PROVE Plain
    BY <1>0, <1>1 DEF Take, ExState
<1>2. ASSUME Overflow PROVE Plain
    <2>1. ASSUME ex' = [ex EXCEPT !.gen = generation] PROVE ex'.pc = ex.pc
        BY <1>0, <2>1 DEF ExState
    <2>2. ASSUME ex' = [ex EXCEPT !.pc = "fail", !.why = "overflow"] PROVE ex'.pc = "fail"
        BY <1>0, <2>2 DEF ExState
    <2>3. QED
        BY <1>0, <1>2, <2>1, <2>2, Points DEF Overflow
<1>3. ASSUME FailCurrent \/ FailOwner PROVE Plain
    BY <1>0, <1>3 DEF FailCurrent, FailOwner, ExState
<1>4. ASSUME AfterFault PROVE Plain
    <2>1. ASSUME ex' = [ex EXCEPT !.pc = "overflow", !.why = "none"] PROVE ex'.pc = "overflow"
        BY <1>0, <2>1 DEF ExState
    <2>2. QED
        BY <1>0, <1>4, <2>1, Points DEF AfterFault
<1>5. CASE Load
    <2>1. CASE ex' = [ex EXCEPT !.pc = "publish", !.seen = state]
        BY <1>0, <1>5, <2>1 DEF ExState
    <2>2. CASE ~Admits(ex.m, ex.gen)
        BY <1>0, <1>5, <2>2, Points DEF Load
    <2>3. QED
        BY <1>5, <2>1, <2>2 DEF Load
<1>6. CASE Store
    <2>1. ASSUME ex' = [ex EXCEPT !.pc = "failed", !.owner = "disable"] PROVE ex'.pc = "failed"
        BY <1>0, <2>1 DEF ExState
    <2>2. ex'.pc \notin {"publish", "cancel"} /\ (ex'.pc = "load" => ex'.m # "hide")
        BY <1>0, <1>6, <2>1, Points DEF Store
    <2>3. QED
        BY <1>6, <2>2
<1>7. CASE Dispatch
    <2>1. ex'.pc \notin {"publish", "cancel", "disconnected"}
          /\ (ex'.pc = "load" => ex'.m # "hide")
        <3>1. CASE BeginEnable
            BY <1>0, <3>1, Points DEF BeginEnable
        <3>2. CASE BeginDisable
            BY <1>0, <3>2, Points DEF BeginDisable
        <3>3. CASE Judge
            BY <1>0, <3>3, Points DEF Judge
        <3>4. QED
            BY <1>7, <3>1, <3>2, <3>3 DEF Dispatch
    <2>2. QED
        BY <1>7, <2>1
<1>8. CASE Renumber
    <2>1. ex'.pc \in {"idle", "drive", "advertise"}
        BY <1>0, <1>8, Points DEF Renumber
    <2>2. QED
        BY <1>8, <2>1
<1>9. ASSUME StartAdvertising PROVE Plain
    BY <1>0, <1>9, Points DEF StartAdvertising
<1>10. ASSUME Hide \/ Sweep \/ QueueBarrier PROVE Plain
    BY <1>0, <1>10, Points DEF Hide, HideFails, Sweep, QueueBarrier
<1>11. CASE Drive
    BY <1>0, <1>11, Points DEF Drive
<1>12. ASSUME Security PROVE Plain
    <2>1. ASSUME ex' = [ex EXCEPT !.pc = "arm", !.gen = generation, !.why = "security",
                                  !.act = NoAct]
          PROVE  ex'.pc = "arm"
        BY <1>0, <2>1 DEF ExState
    <2>2. QED
        BY <1>0, <1>12, <2>1, Points DEF Security
<1>13. ASSUME Arm \/ Start \/ Disarm \/ CancelDisconnect PROVE Plain
    BY <1>0, <1>13, Points DEF Arm, Start, Disarm, CancelDisconnect
<1>14. ASSUME Terminate PROVE Plain
    <2>1. ASSUME NEW o, ex' = [ex EXCEPT !.pc = "withdraw", !.owner = o]
          PROVE  ex'.pc = "withdraw"
        BY <1>0, <2>1 DEF ExState
    <2>2. QED
        BY <1>0, <1>14, <2>1, Points DEF Terminate
<1>15. CASE Withdraw
    BY <1>0, <1>15, Points DEF Withdraw
<1>16. QED
    BY <1>1, <1>2, <1>3, <1>4, <1>5, <1>6, <1>7, <1>8, <1>9, <1>10, <1>11, <1>12, <1>13,
       <1>14, <1>15 DEF Executor, Work

\* The control task leaves the executor, the radio and the watchdog alone.
LEMMA RxFrame ==
    ASSUME RxStart \/ Rx
    PROVE  UNCHANGED <<ex, adv, link, host, watchdog, running, task, alarm>>
BY DEF RxStart, Rx, RxClaim, RxLoad, RxPublish, RxEnqueue, RxQueueFull, others, executor,
       timer, radio

\* The host task and the timer task leave the lifecycle and the other two alone.
LEMMA HostFrame ==
    ASSUME HostStarts \/ HostTask \/ Expire \/ Alarm
    PROVE  UNCHANGED <<state, generation, ex, rx>>
<1>1. ASSUME HostStarts PROVE UNCHANGED <<state, generation, ex, rx>>
    BY <1>1 DEF HostStarts, Accept, Synchronize, Disconnected, PeerEvent, Reset, lifecycle,
                control, executor
<1>2. ASSUME HostTask PROVE UNCHANGED <<state, generation, ex, rx>>
    BY <1>2 DEF HostTask, Insert, Connected, OnReset, Rearm, StartSync, DisarmSync, Barrier,
                Stamp, SignalQueued, SignalFull, SignalLost, BeginCancel, CompleteCancel,
                lifecycle, control, executor
<1>3. ASSUME Alarm \/ Expire PROVE UNCHANGED <<state, generation, ex, rx>>
    BY <1>3 DEF Alarm, BeginTimeout, StampTimeout, TimeoutQueued, TimeoutFull, TimeoutLost,
                CompleteTimeout, Expire, lifecycle, control, executor
<1>4. QED
    BY <1>1, <1>2, <1>3

\* The executor changes the state machine in one step only, and leaves the control
\* task's own alone.
LEMMA ExecutorFrame ==
    ASSUME Executor
    PROVE  UNCHANGED <<rx, task, alarm>> /\ (~Store => UNCHANGED <<state, generation>>)
<1>1. ASSUME Take \/ Overflow \/ FailCurrent \/ FailOwner \/ AfterFault \/ Load \/ Dispatch
      PROVE  UNCHANGED <<rx, task, alarm, state, generation>>
    BY <1>1 DEF Take, Overflow, FailCurrent, FailOwner, AfterFault, Load, Dispatch, callers,
                lifecycle
<1>2. ASSUME Renumber \/ StartAdvertising \/ Hide \/ Sweep \/ QueueBarrier \/ Drive \/ Security
      PROVE  UNCHANGED <<rx, task, alarm, state, generation>>
    BY <1>2 DEF Renumber, StartAdvertising, Hide, Sweep, QueueBarrier, Drive, Security,
                callers, lifecycle
<1>3. ASSUME Arm \/ Start \/ Disarm \/ Terminate \/ Withdraw \/ CancelDisconnect
      PROVE  UNCHANGED <<rx, task, alarm, state, generation>>
    BY <1>3 DEF Arm, Start, Disarm, Terminate, Withdraw, CancelDisconnect, callers, lifecycle
<1>4. ASSUME Store PROVE UNCHANGED <<rx, task, alarm>>
    BY <1>4 DEF Store, callers
<1>5. QED
    BY <1>1, <1>2, <1>3, <1>4 DEF Executor, Work
-----------------------------------------------------------------------------
(* The watchdog.  Whoever claims it while it is armed has it alone until   *)
(* it gives it back, so neither a stop nor an expiry that is published     *)
(* meets another owner's.                                                  *)

\* A canceller and the timeout being published own what they claimed.
Claimed ==
    /\ task.pc = "stop" => watchdog = Owned("cancelling", CancelPurpose) /\ ex.pc # "cancel"
    /\ ex.pc = "cancel" => watchdog = Owned("cancelling", "disconnect")
    /\ alarm.pc \in {"stamp", "signal", "lost", "complete"} =>
           watchdog = Owned("firing", alarm.purpose)

\* What a step of the executor does to the timer and its owner.
LEMMA ExecutorTimer ==
    ASSUME TypeOK, Executor
    PROVE  \/ /\ UNCHANGED timer /\ ex.pc \notin {"start", "disarm", "cancel"}
              /\ ex'.pc # "cancel"
           \/ /\ watchdog = Unowned /\ watchdog' = Owned("armed", "sync") /\ running'
              /\ ex.pc = "act" /\ ex'.pc # "cancel"
           \/ /\ watchdog = Unowned /\ watchdog' = Owned("armed", "disconnect")
              /\ ex.pc = "arm" /\ ex'.pc = "start"
           \/ Start \/ Disarm \/ Withdraw \/ CancelDisconnect
<1>0. ex \in ExState
    BY DEF TypeOK
<1>1. CASE Start \/ Disarm \/ Withdraw \/ CancelDisconnect
    BY <1>1
<1>2. CASE ~(Start \/ Disarm \/ Withdraw \/ CancelDisconnect)
    <2>1. ex'.pc # "cancel"
        BY <1>2, Arrivals
    <2>2. ASSUME Take \/ Overflow \/ FailCurrent \/ FailOwner \/ AfterFault \/ Load \/ Store
          PROVE  UNCHANGED timer /\ ex.pc \notin {"start", "disarm", "cancel"}
        BY <2>2 DEF Take, Overflow, FailCurrent, FailOwner, AfterFault, Load, Store
    <2>3. ASSUME Renumber \/ StartAdvertising \/ Hide \/ Sweep \/ QueueBarrier \/ Drive
                    \/ Security \/ Terminate
          PROVE  UNCHANGED timer /\ ex.pc \notin {"start", "disarm", "cancel"}
        BY <2>3 DEF Renumber, StartAdvertising, Hide, Sweep, QueueBarrier, Drive, Security,
                    Terminate
    <2>4. CASE Dispatch
        <3>1. ex.pc = "act"
            BY <2>4 DEF Dispatch
        <3>2. ASSUME BeginDisable \/ Judge PROVE UNCHANGED timer
            BY <3>2 DEF BeginDisable, Judge
        <3>3. ASSUME BeginEnable
              PROVE  \/ UNCHANGED timer
                     \/ watchdog = Unowned /\ watchdog' = Owned("armed", "sync") /\ running'
            BY <3>3 DEF BeginEnable
        <3>4. QED
            BY <2>1, <2>4, <3>1, <3>2, <3>3 DEF Dispatch
    <2>5. CASE Arm
        <3>1. CASE watchdog = Unowned
            BY <1>0, <2>5, <3>1, Points DEF Arm
        <3>2. CASE watchdog # Unowned
            BY <2>1, <2>5, <3>2 DEF Arm, timer
        <3>3. QED
            BY <3>1, <3>2
    <2>6. QED
        BY <1>2, <2>1, <2>2, <2>3, <2>4, <2>5 DEF Executor, Work
<1>3. QED
    BY <1>1, <1>2

\* A step keeps whose the watchdog is, and that its owner lets it go.
LEMMA WatchdogStep ==
    ASSUME TypeOK, Claimed, WatchdogHeld, [Next]_vars
    PROVE  Claimed' /\ WatchdogHeld'
<1>0. /\ running \in BOOLEAN /\ watchdog \in Watchdog /\ alarm \in AlarmState
      /\ task \in TaskState /\ ex \in ExState
    BY DEF TypeOK
<1>1. CASE UNCHANGED <<watchdog, running, task, alarm, ex>>
    BY <1>1 DEF Claimed, WatchdogHeld, CancelPurpose
<1>2. CASE Executor
    <2>1. UNCHANGED <<task, alarm>>
        BY <1>2, ExecutorFrame
    <2>2. CASE UNCHANGED timer /\ ex.pc \notin {"start", "disarm", "cancel"}
               /\ ex'.pc # "cancel"
        BY <2>1, <2>2 DEF Claimed, WatchdogHeld, CancelPurpose, timer
    <2>3. CASE /\ watchdog = Unowned /\ watchdog' = Owned("armed", "sync") /\ running'
               /\ ex.pc = "act" /\ ex'.pc # "cancel"
        BY <2>1, <2>3 DEF Claimed, WatchdogHeld, CancelPurpose, Owned, Unowned
    <2>4. CASE /\ watchdog = Unowned /\ watchdog' = Owned("armed", "disconnect")
               /\ ex.pc = "arm" /\ ex'.pc = "start"
        BY <2>1, <2>4 DEF Claimed, WatchdogHeld, CancelPurpose, Owned, Unowned
    <2>5. CASE Start
        <3>1. ex'.pc \in {"disarm", "terminate"} /\ running' /\ UNCHANGED watchdog
            BY <1>0, <2>5, Points DEF Start
        <3>2. QED
            BY <2>1, <2>5, <3>1 DEF Start, Claimed, WatchdogHeld, CancelPurpose
    <2>6. CASE Disarm
        <3>1. ex'.pc # "cancel" /\ UNCHANGED running
            BY <1>0, <2>6, Points DEF Disarm
        <3>2. CASE watchdog = Owned("armed", "disconnect") /\ watchdog' = Unowned
            BY <2>1, <3>1, <3>2 DEF Claimed, WatchdogHeld, CancelPurpose, Owned, Unowned
        <3>3. CASE watchdog # Owned("armed", "disconnect") /\ UNCHANGED watchdog
            BY <1>0, <2>1, <2>6, <3>1, <3>3
               DEF Disarm, Claimed, WatchdogHeld, CancelPurpose, Owned, Watchdog
        <3>4. QED
            BY <2>6, <3>2, <3>3 DEF Disarm, GivesBack
    <2>7. CASE Withdraw
        <3>1. UNCHANGED running
            BY <2>7 DEF Withdraw
        <3>2. CASE watchdog = Owned("armed", "disconnect")
            <4>1. watchdog' = Owned("cancelling", "disconnect") /\ ex'.pc = "cancel"
                BY <1>0, <2>7, <3>2, Points DEF Withdraw
            <4>2. QED
                BY <2>1, <3>2, <4>1 DEF Claimed, WatchdogHeld, CancelPurpose, Owned
        <3>3. CASE watchdog # Owned("armed", "disconnect")
            <4>1. UNCHANGED watchdog /\ ex'.pc # "cancel"
                BY <1>0, <2>7, <3>3, Points DEF Withdraw, TypeOK
            <4>2. QED
                BY <2>1, <2>7, <3>1, <4>1 DEF Withdraw, Claimed, WatchdogHeld, CancelPurpose
        <3>4. QED
            BY <3>2, <3>3
    <2>8. CASE CancelDisconnect
        <3>1. watchdog = Owned("cancelling", "disconnect") /\ watchdog' = Unowned
            BY <2>8 DEF CancelDisconnect, GivesBack, Claimed
        <3>2. ex'.pc # "cancel"
            BY <1>0, <2>8, Points DEF CancelDisconnect, TypeOK
        <3>3. task.pc # "stop"
            BY <2>8 DEF CancelDisconnect, Claimed
        <3>4. QED
            BY <2>1, <3>1, <3>2, <3>3 DEF Claimed, WatchdogHeld, Owned, Unowned
    <2>9. QED
        BY <1>2, <2>2, <2>3, <2>4, <2>5, <2>6, <2>7, <2>8, ExecutorTimer
<1>3. CASE HostStarts
    <2>1. UNCHANGED <<watchdog, running, alarm, ex>>
        BY <1>3 DEF HostStarts, Accept, Synchronize, Disconnected, PeerEvent, Reset, timer,
                    control, executor
    <2>2. UNCHANGED task \/ (task.pc = "idle" /\ task'.pc \in {"stamp", "reset"})
        BY <1>0, <1>3 DEF HostStarts, Accept, Synchronize, Disconnected, PeerEvent, Reset,
                          Signal, NoTask
    <2>3. QED
        BY <2>1, <2>2 DEF Claimed, WatchdogHeld, CancelPurpose
<1>4. CASE HostTask
    <2>1. UNCHANGED <<alarm, ex>>
        BY <1>4 DEF HostTask, Insert, Connected, OnReset, Rearm, StartSync, DisarmSync, Barrier,
                    Stamp, SignalQueued, SignalFull, SignalLost, BeginCancel, CompleteCancel,
                    control, executor
    <2>2. CASE Insert \/ Connected \/ OnReset \/ Barrier \/ Stamp \/ SignalQueued
                  \/ SignalFull \/ SignalLost
        <3>1. UNCHANGED <<watchdog, running>>
            BY <2>2 DEF Insert, Connected, OnReset, Barrier, Stamp, SignalQueued, SignalFull,
                        SignalLost, timer
        <3>2. task.pc \notin {"stop", "start", "disarm"}
            BY <2>2 DEF Insert, Connected, OnReset, Barrier, Stamp, SignalQueued, SignalFull,
                        SignalLost
        <3>3. ASSUME Insert \/ Connected \/ OnReset \/ Barrier \/ Stamp
              PROVE  task'.pc # "stop"
            BY <1>0, <3>3 DEF Insert, Connected, OnReset, Barrier, Stamp, Signal, NoTask,
                              TaskState
        <3>4. ASSUME SignalQueued \/ SignalFull \/ SignalLost
              PROVE  task'.pc # "stop"
            BY <1>0, <3>4 DEF SignalQueued, SignalFull, SignalLost, AfterSignal, Ended,
                              TaskState
        <3>5. QED
            BY <2>1, <2>2, <3>1, <3>2, <3>3, <3>4 DEF Claimed, WatchdogHeld
    <2>3. CASE Rearm
        <3>1. UNCHANGED running /\ task.pc = "rearm"
            BY <2>3 DEF Rearm
        <3>2. CASE watchdog = Unowned
            <4>1. watchdog' = Owned("armed", "sync") /\ task'.pc = "start"
                BY <1>0, <2>3, <3>2 DEF Rearm, TaskState
            <4>2. QED
                BY <2>1, <3>1, <3>2, <4>1 DEF Claimed, WatchdogHeld, Owned, Unowned
        <3>3. CASE watchdog # Unowned
            <4>1. UNCHANGED watchdog /\ task'.pc = "signal"
                BY <1>0, <2>3, <3>3 DEF Rearm, TaskState
            <4>2. QED
                BY <2>1, <3>1, <4>1 DEF Claimed, WatchdogHeld
        <3>4. QED
            BY <3>2, <3>3
    <2>4. CASE StartSync
        <3>1. /\ UNCHANGED watchdog /\ running' /\ task.pc = "start"
              /\ task'.pc \in {"disarm", "signal"}
            BY <1>0, <2>4 DEF StartSync, TaskState
        <3>2. QED
            BY <2>1, <3>1 DEF Claimed, WatchdogHeld
    <2>5. CASE DisarmSync
        <3>1. task.pc = "disarm" /\ task'.pc = "signal" /\ UNCHANGED running
            BY <1>0, <2>5 DEF DisarmSync, TaskState
        <3>2. CASE watchdog = Owned("armed", "sync") /\ watchdog' = Unowned
            BY <2>1, <3>1, <3>2 DEF Claimed, WatchdogHeld, Owned, Unowned
        <3>3. CASE watchdog # Owned("armed", "sync") /\ UNCHANGED watchdog
            BY <1>0, <2>1, <3>1, <3>3 DEF Claimed, WatchdogHeld, Owned, Watchdog
        <3>4. QED
            BY <2>5, <3>2, <3>3 DEF DisarmSync, GivesBack
    <2>6. CASE BeginCancel
        <3>1. task.pc = "cancel" /\ UNCHANGED running
            BY <2>6 DEF BeginCancel
        <3>2. CASE watchdog = Owned("armed", CancelPurpose)
            <4>1. /\ watchdog' = Owned("cancelling", CancelPurpose)
                  /\ task'.pc = "stop" /\ task'.ev = task.ev
                BY <1>0, <2>6, <3>2 DEF BeginCancel, TaskState
            <4>2. CancelPurpose' = CancelPurpose
                BY <4>1 DEF CancelPurpose
            <4>3. ex.pc # "cancel" /\ alarm.pc \notin {"stamp", "signal", "lost", "complete"}
                BY <3>2 DEF Claimed, Owned
            <4>4. QED
                BY <2>1, <3>2, <4>1, <4>2, <4>3 DEF Claimed, WatchdogHeld, Owned
        <3>3. CASE watchdog # Owned("armed", CancelPurpose)
            <4>1. UNCHANGED watchdog /\ task'.pc \in {"reset", "idle"}
                BY <2>6, <3>3 DEF BeginCancel, Ended
            <4>2. QED
                BY <2>1, <3>1, <4>1 DEF Claimed, WatchdogHeld
        <3>4. QED
            BY <3>2, <3>3
    <2>7. CASE CompleteCancel
        <3>1. watchdog = Owned("cancelling", CancelPurpose) /\ watchdog' = Unowned
            BY <2>7 DEF CompleteCancel, GivesBack, Claimed
        <3>2. task'.pc \in {"reset", "idle"} /\ ex.pc # "cancel"
            BY <2>7 DEF CompleteCancel, Ended, Claimed
        <3>3. QED
            BY <2>1, <3>1, <3>2 DEF Claimed, WatchdogHeld, Owned, Unowned
    <2>8. QED
        BY <1>4, <2>2, <2>3, <2>4, <2>5, <2>6, <2>7 DEF HostTask
<1>5. CASE Expire
    <2>1. UNCHANGED <<watchdog, task, ex>> /\ alarm.pc = "idle" /\ alarm'.pc = "due"
        BY <1>5 DEF Expire, executor, NoAlarm
    <2>2. QED
        BY <2>1 DEF Claimed, WatchdogHeld, CancelPurpose
<1>6. CASE Alarm
    <2>1. UNCHANGED <<task, ex, running>>
        BY <1>6 DEF Alarm, BeginTimeout, StampTimeout, TimeoutQueued, TimeoutFull, TimeoutLost,
                    CompleteTimeout, timer, control, executor
    <2>2. CASE BeginTimeout
        <3>1. CASE watchdog.phase = "armed"
            <4>1. /\ watchdog' = Owned("firing", watchdog.purpose)
                  /\ alarm'.pc = "stamp" /\ alarm'.purpose = watchdog.purpose
                BY <1>0, <2>2, <3>1 DEF BeginTimeout, NoAlarm, Owned, Watchdog
            <4>2. task.pc # "stop" /\ ex.pc # "cancel"
                BY <3>1 DEF Claimed, Owned
            <4>3. QED
                BY <2>1, <4>1, <4>2 DEF Claimed, WatchdogHeld, Owned
        <3>2. CASE watchdog.phase # "armed"
            <4>1. UNCHANGED watchdog /\ alarm.pc = "due" /\ alarm'.pc = "idle"
                BY <2>2, <3>2 DEF BeginTimeout, NoAlarm
            <4>2. QED
                BY <2>1, <3>2, <4>1 DEF Claimed, WatchdogHeld, CancelPurpose
        <3>3. QED
            BY <3>1, <3>2
    <2>3. CASE StampTimeout \/ TimeoutQueued \/ TimeoutFull \/ TimeoutLost
        <3>1. UNCHANGED watchdog
            BY <2>3 DEF StampTimeout, TimeoutQueued, TimeoutFull, TimeoutLost, timer
        <3>2. /\ alarm.pc \in {"stamp", "signal", "lost"} /\ alarm'.purpose = alarm.purpose
              /\ alarm'.pc \in {"signal", "lost", "complete"}
            BY <1>0, <2>3 DEF StampTimeout, TimeoutQueued, TimeoutFull, TimeoutLost, AlarmState
        <3>3. QED
            BY <2>1, <3>1, <3>2 DEF Claimed, WatchdogHeld, CancelPurpose
    <2>4. CASE CompleteTimeout
        <3>1. watchdog = Owned("firing", alarm.purpose) /\ watchdog' = Unowned
              /\ alarm'.pc = "idle"
            BY <2>4 DEF CompleteTimeout, GivesBack, Claimed, NoAlarm
        <3>2. QED
            BY <2>1, <3>1 DEF Claimed, WatchdogHeld, Owned, Unowned
    <2>5. QED
        BY <1>6, <2>2, <2>3, <2>4 DEF Alarm
<1>7. QED
    BY <1>1, <1>2, <1>3, <1>4, <1>5, <1>6, RxFrame DEF Next, vars, timer, executor

\* No owner of the watchdog is left behind, whatever crosses.
THEOREM WatchdogHeldCorrect == Spec => []WatchdogHeld
<1>1. Init => Claimed /\ WatchdogHeld
    BY DEF Init, Claimed, WatchdogHeld, NoTask, NoAlarm, NoEx, Unowned, Owned
<1>2. TypeOK /\ Claimed /\ WatchdogHeld /\ [Next]_vars => Claimed' /\ WatchdogHeld'
    BY WatchdogStep
<1>3. QED
    BY <1>1, <1>2, TypeCorrect, PTL DEF Spec
-----------------------------------------------------------------------------
(* The fault.  A mutator checks its own snapshot: only a fault and an      *)
(* empty disconnect are admitted in one that asks for recovery, and both   *)
(* publish a fault, or the state as it is by then.                         *)

FaultInv ==
    /\ state.recovery <=> state.observed = "fault"
    /\ ex.pc = "publish" =>
           /\ ex.seen.recovery <=> ex.seen.observed = "fault"
           /\ ex.seen.recovery => ex.m \in {"fault", "disconnect"}
    /\ rx.pc = "publish" => ~rx.seen.recovery

\* What is published from a snapshot its mutator was admitted in.
LEMMA PublicationKeepsFault ==
    ASSUME state \in Lifecycle, state.recovery <=> state.observed = "fault",
           NEW s \in Lifecycle, s.recovery <=> s.observed = "fault",
           NEW m \in Mutator, s.recovery => m \in {"fault", "disconnect"}
    PROVE  LET p == Publication(m, s)
           IN  /\ p.recovery <=> p.observed = "fault"
               /\ state.recovery /\ s.recovery => p.recovery
<1> DEFINE p == Publication(m, s)
<1>1. CASE p = state
    BY <1>1
<1>2. CASE p # state
    <2>1. s.desired \in Desired /\ s.ready \in BOOLEAN
        BY Fields
    <2>2. \E d \in Desired, o \in Observed, r \in BOOLEAN : p = Published(d, o, r)
        BY <1>2, <2>1 DEF Publication, Mutator, Desired, Observed
    <2>3. p.recovery <=> p.observed = "fault"
        BY <2>2, PublishedType
    <2>4. s.recovery => m = "fault"
        BY <1>2 DEF Publication, Is
    <2>5. m = "fault" => p = Published(s.desired, "fault", s.ready)
        BY DEF Publication
    <2>6. Published(s.desired, "fault", s.ready).recovery
        BY DEF Published
    <2>7. QED
        BY <2>3, <2>4, <2>5, <2>6
<1>3. QED
    BY <1>1, <1>2

\* A step keeps the invariant, and keeps a fault that its snapshot knew of.
LEMMA FaultStep ==
    ASSUME TypeOK, FaultInv, [Next]_vars
    PROVE  /\ FaultInv'
           /\ state.recovery /\ ~state'.recovery
                => (RxPublish /\ ~rx.seen.recovery) \/ (Store /\ ~ex.seen.recovery)
<1>0. state \in Lifecycle /\ ex \in ExState /\ rx \in RxState
    BY DEF TypeOK
<1>1. CASE RxStart \/ Rx
    <2>1. UNCHANGED ex
        BY <1>1, RxFrame
    <2>2. CASE RxPublish
        <3> DEFINE shows == Published("exposed", "enabling", rx.seen.ready)
                   hides == [Published("hidden", "disabling", rx.seen.ready)
                               EXCEPT !.connected = rx.seen.connected]
        <3>1. rx.seen \in Lifecycle /\ rx.seen.ready \in BOOLEAN /\ rx.seen.connected \in BOOLEAN
            BY <1>0 DEF RxState, Lifecycle
        <3>2. state' = shows \/ state' = hides
            BY <2>2 DEF RxPublish
        <3>3. ~shows.recovery /\ shows.observed = "enabling"
            BY <3>1, PublishedType DEF Desired, Observed
        <3>4. ~hides.recovery /\ hides.observed = "disabling"
            BY <3>1, DisablingType
        <3>5. ~state'.recovery /\ state'.observed # "fault"
            BY <3>2, <3>3, <3>4
        <3>6. rx'.pc = "enqueue" /\ ~rx.seen.recovery
            BY <1>0, <2>2 DEF RxPublish, RxState, FaultInv
        <3>7. QED
            BY <2>1, <2>2, <3>5, <3>6 DEF FaultInv
    <2>3. CASE RxQueueFull
        <3>1. state' = state \/ state' = Published(state.desired, "fault", state.ready)
            BY <2>3 DEF RxQueueFull
        <3>2. state.desired \in Desired /\ state.ready \in BOOLEAN
            BY <1>0, Fields
        <3>3. /\ Published(state.desired, "fault", state.ready).recovery
              /\ Published(state.desired, "fault", state.ready).observed = "fault"
            BY <3>2, PublishedType DEF Observed
        <3>4. rx'.pc = "idle"
            BY <2>3 DEF RxQueueFull, NoRx
        <3>5. QED
            BY <2>1, <3>1, <3>3, <3>4 DEF FaultInv
    <2>4. CASE RxLoad
        <3>1. UNCHANGED state
            BY <2>4 DEF RxLoad, lifecycle
        <3>2. CASE Accepts /\ rx' = [rx EXCEPT !.pc = "publish", !.seen = state]
            BY <1>0, <2>1, <3>1, <3>2 DEF Accepts, RxState, FaultInv
        <3>3. CASE rx' = NoRx
            BY <2>1, <3>1, <3>3 DEF NoRx, FaultInv
        <3>4. QED
            BY <2>4, <3>2, <3>3 DEF RxLoad
    <2>5. CASE RxStart \/ RxEnqueue
        <3>1. UNCHANGED state
            BY <2>5 DEF RxStart, RxClaim, RxEnqueue, lifecycle
        <3>2. ASSUME NEW o \in Command, RxClaim(o) PROVE rx'.pc = "load"
            BY <1>0, <3>2 DEF RxClaim, RxState
        <3>3. RxEnqueue => rx'.pc = "idle"
            BY DEF RxEnqueue, NoRx
        <3>4. QED
            BY <2>1, <2>5, <3>1, <3>2, <3>3 DEF RxStart, FaultInv
    <2>6. QED
        BY <1>1, <2>2, <2>3, <2>4, <2>5 DEF Rx
<1>2. CASE Store
    <2>1. ex'.pc # "publish" /\ UNCHANGED rx
        BY <1>2, Arrivals, ExecutorFrame DEF Executor, Work, Load, Store
    <2>2. /\ ex.m \in Mutator /\ ex.seen \in Lifecycle /\ state' = Publication(ex.m, ex.seen)
          /\ ex.seen.recovery <=> ex.seen.observed = "fault"
          /\ ex.seen.recovery => ex.m \in {"fault", "disconnect"}
        BY <1>0, <1>2 DEF Store, Publish, FaultInv, TypeOK, ExState
    <2>3. QED
        BY <1>0, <1>2, <2>1, <2>2, PublicationKeepsFault DEF FaultInv
<1>3. CASE Executor /\ ~Store
    <2>1. UNCHANGED <<state, rx>>
        BY <1>3, ExecutorFrame
    <2>2. ex'.pc = "publish" => Load
        BY <1>3, Arrivals
    <2>3. ASSUME Load, ex'.pc = "publish"
          PROVE  /\ ex'.seen.recovery <=> ex'.seen.observed = "fault"
                 /\ ex'.seen.recovery => ex'.m \in {"fault", "disconnect"}
        <3>1. CASE Admits(ex.m, ex.gen) /\ ex' = [ex EXCEPT !.pc = "publish", !.seen = state]
            <4>1. ex'.seen = state /\ ex'.m = ex.m /\ ex.m \in Mutator
                BY <1>0, <2>3, <3>1 DEF ExState, Load, TypeOK
            <4>2. state.recovery => ex.m \in {"fault", "disconnect"}
                BY <3>1, <4>1 DEF Admits, Is, Mutator, FaultInv
            <4>3. QED
                BY <4>1, <4>2 DEF FaultInv
        <3>2. CASE ~Admits(ex.m, ex.gen)
            BY <1>0, <2>3, <3>2, Points DEF Load
        <3>3. QED
            BY <2>3, <3>1, <3>2 DEF Load
    <2>4. QED
        BY <2>1, <2>2, <2>3 DEF FaultInv
<1>4. CASE HostStarts \/ HostTask \/ Expire \/ Alarm
    BY <1>4, HostFrame DEF FaultInv
<1>5. CASE UNCHANGED vars
    BY <1>5 DEF vars, lifecycle, executor, FaultInv
<1>6. QED
    BY <1>1, <1>2, <1>3, <1>4, <1>5 DEF Next

\* Nothing that has seen a recovery-required fault takes it back: no event, no
\* command and no half-done mutator, whatever comes between its two halves.
THEOREM FaultKeptCorrect == Spec => FaultKept
<1>1. Init => FaultInv
    <2>1. /\ ~Published("hidden", "uninitialized", FALSE).recovery
          /\ Published("hidden", "uninitialized", FALSE).observed = "uninitialized"
        BY DEF Published
    <2>2. Init => ex.pc = "idle" /\ rx.pc = "idle"
        BY DEF Init, NoEx, NoRx
    <2>3. Init => state = Published("hidden", "uninitialized", FALSE)
        BY DEF Init
    <2>4. QED
        BY <2>1, <2>2, <2>3 DEF FaultInv
<1>2. TypeOK /\ FaultInv /\ [Next]_vars => FaultInv'
    BY FaultStep
<1>3. TypeOK /\ FaultInv /\ [Next]_vars
        => [state.recovery /\ ~state'.recovery
              => (RxPublish /\ ~rx.seen.recovery) \/ (Store /\ ~ex.seen.recovery)]_vars
    BY FaultStep
<1>4. QED
    BY <1>1, <1>2, <1>3, TypeCorrect, PTL DEF Spec, FaultKept
-----------------------------------------------------------------------------
(* The hidden exposure.  Advertising starts only in start_advertising, and *)
(* a peer comes only from advertising; the executor does not reach one     *)
(* from hidden idle, and starts none between drive_ble_disable's look at   *)
(* the radio and its publication.                                          *)

HiddenIdle == Is(state, "hidden", {"idle"})

QuietInv ==
    /\ ex.pc \in {"load", "publish"} /\ ex.m = "hide" => ~adv /\ link = "none"
    /\ ex.pc = "advertise" => ~HiddenIdle
    /\ ex.pc = "disconnected" /\ Is(ex.seen, "exposed", {"connected"}) => ~HiddenIdle
    /\ task.pc = "inserted" => link # "none"

\* The control task never publishes hidden idle.
LEMMA RxNeverIdle ==
    ASSUME TypeOK, RxStart \/ Rx, HiddenIdle'
    PROVE  HiddenIdle
<1>0. state \in Lifecycle /\ rx \in RxState
    BY DEF TypeOK
<1>1. CASE RxPublish
    <2>1. rx.seen.ready \in BOOLEAN /\ rx.seen.connected \in BOOLEAN
        BY <1>0 DEF RxState, Lifecycle
    <2>2. Published("exposed", "enabling", rx.seen.ready).observed = "enabling"
        BY <2>1, PublishedType DEF Desired, Observed
    <2>3. [Published("hidden", "disabling", rx.seen.ready)
             EXCEPT !.connected = rx.seen.connected].observed = "disabling"
        BY <2>1, DisablingType
    <2>4. state'.observed \in {"enabling", "disabling"}
        BY <1>1, <2>2, <2>3 DEF RxPublish
    <2>5. QED
        BY <2>4 DEF HiddenIdle, Is
<1>2. CASE RxQueueFull
    <2>1. Published(state.desired, "fault", state.ready).observed = "fault"
        BY DEF Published
    <2>2. UNCHANGED state \/ state'.observed = "fault"
        BY <1>2, <2>1 DEF RxQueueFull
    <2>3. QED
        BY <2>2 DEF HiddenIdle, Is
<1>3. ASSUME RxStart \/ RxLoad \/ RxEnqueue PROVE UNCHANGED state
    BY <1>3 DEF RxStart, RxClaim, RxLoad, RxEnqueue, lifecycle
<1>4. QED
    BY <1>1, <1>2, <1>3 DEF Rx, HiddenIdle, Is

\* What a step of the executor does to the radio.
LEMMA ExecutorRadio ==
    ASSUME TypeOK, Executor
    PROVE  /\ ~StartAdvertising => (~adv => ~adv')
           /\ link' = "none" <=> link = "none"
<1>1. ASSUME Take \/ Overflow \/ FailCurrent \/ FailOwner \/ AfterFault \/ Load \/ Store
                \/ Renumber \/ QueueBarrier \/ Drive \/ Security
      PROVE  UNCHANGED <<adv, link>>
    BY <1>1 DEF Take, Overflow, FailCurrent, FailOwner, AfterFault, Load, Store, Renumber,
                QueueBarrier, Drive, Security, radio
<1>2. ASSUME Arm \/ Start \/ Disarm \/ Withdraw \/ CancelDisconnect \/ Dispatch
      PROVE  UNCHANGED <<adv, link>>
    BY <1>2 DEF Arm, Start, Disarm, Withdraw, CancelDisconnect, Dispatch, radio
<1>3. CASE StartAdvertising
    BY <1>3 DEF StartAdvertising
<1>4. CASE Hide
    BY <1>4 DEF Hide, HideFails
<1>5. CASE Sweep
    BY <1>5 DEF Sweep
<1>6. CASE Terminate
    BY <1>6 DEF Terminate
<1>7. QED
    BY <1>1, <1>2, <1>3, <1>4, <1>5, <1>6 DEF Executor, Work

\* The host task brings nothing on the air that is not advertised, and handles
\* the connection it has inserted before anything takes it away.
LEMMA HostRadio ==
    ASSUME TypeOK, HostStarts \/ HostTask \/ Expire \/ Alarm,
           task.pc = "inserted" => link # "none"
    PROVE  /\ ~adv /\ link = "none" => ~adv' /\ link' = "none"
           /\ task'.pc = "inserted" => link' # "none"
<1>0. task \in TaskState /\ alarm \in AlarmState
    BY DEF TypeOK
<1>1. CASE HostStarts
    BY <1>0, <1>1 DEF HostStarts, Accept, Synchronize, Disconnected, PeerEvent, Reset, Signal,
                      NoTask
<1>2. CASE HostTask
    <2>1. CASE OnReset \/ Rearm \/ StartSync \/ DisarmSync \/ Barrier \/ Stamp
                  \/ SignalQueued \/ SignalLost \/ BeginCancel \/ CompleteCancel
        <3>1. UNCHANGED <<adv, link>>
            BY <2>1 DEF OnReset, Rearm, StartSync, DisarmSync, Barrier, Stamp, SignalQueued,
                        SignalLost, BeginCancel, CompleteCancel, radio
        <3>2. ASSUME OnReset \/ Rearm \/ StartSync \/ DisarmSync \/ Stamp
              PROVE  task'.pc # "inserted"
            BY <1>0, <3>2 DEF OnReset, Rearm, StartSync, DisarmSync, Stamp, TaskState
        <3>3. ASSUME SignalQueued \/ SignalLost \/ BeginCancel \/ CompleteCancel
              PROVE  task'.pc # "inserted"
            BY <1>0, <3>3 DEF SignalQueued, SignalLost, AfterSignal, BeginCancel,
                              CompleteCancel, Ended, TaskState
        <3>4. Barrier => UNCHANGED task
            BY DEF Barrier
        <3>5. QED
            BY <2>1, <3>1, <3>2, <3>3, <3>4
    <2>2. CASE Insert
        BY <2>2 DEF Insert
    <2>3. CASE Connected
        BY <2>3 DEF Connected, Signal
    <2>4. CASE SignalFull
        BY <1>0, <2>4 DEF SignalFull, TaskState
    <2>5. QED
        BY <1>2, <2>1, <2>2, <2>3, <2>4 DEF HostTask
<1>3. CASE Alarm \/ Expire
    <2>1. UNCHANGED <<adv, link, task>>
        BY <1>3 DEF Alarm, BeginTimeout, StampTimeout, TimeoutQueued, TimeoutFull, TimeoutLost,
                    CompleteTimeout, Expire, radio
    <2>2. QED
        BY <2>1
<1>4. QED
    BY <1>1, <1>2, <1>3

\* A step keeps the invariant, and brings nothing on the air in hidden idle.
LEMMA QuietStep ==
    ASSUME TypeOK, QuietInv, [Next]_vars
    PROVE  /\ QuietInv'
           /\ Store /\ ex.m = "hide" => ~adv /\ link = "none"
           /\ HiddenIdle /\ ~adv /\ link = "none" => ~adv' /\ link' = "none"
<1>0. state \in Lifecycle /\ ex \in ExState /\ adv \in BOOLEAN
    BY DEF TypeOK
<1>1. CASE RxStart \/ Rx
    <2>1. UNCHANGED <<ex, task, adv, link>>
        BY <1>1, RxFrame
    <2>2. ~HiddenIdle => ~HiddenIdle'
        BY <1>1, RxNeverIdle
    <2>3. ~Store
        BY <1>0, <1>1, <2>1, Arrivals DEF Store, Executor, Work, Load
    <2>4. QED
        BY <2>1, <2>2, <2>3 DEF QuietInv, Is
<1>2. CASE Store
    <2>1. UNCHANGED <<task, adv, link>>
        BY <1>2 DEF Store, callers, radio
    <2>2. ex.m \in Mutator /\ state' = Publication(ex.m, ex.seen)
        BY <1>0, <1>2 DEF Store, Publish, TypeOK, ExState
    <2>3. ex'.pc # "publish" /\ (ex'.pc = "load" => ex'.m # "hide")
        BY <1>2, Arrivals DEF Executor, Work, Load, Store, Drive
    <2>4. ASSUME ex'.pc = "advertise" PROVE ~HiddenIdle'
        <3>1. ex.m = "sync"
            <4>1. ASSUME ex' = [ex EXCEPT !.pc = "failed", !.owner = "disable"]
                  PROVE  ex'.pc = "failed"
                BY <1>0, <4>1 DEF ExState
            <4>2. QED
                BY <1>0, <1>2, <2>4, <4>1, Points DEF Store
        <3>2. state' = Published("exposed", "enabling", TRUE)
            BY <2>2, <3>1 DEF Publication
        <3>3. QED
            BY <3>2 DEF Published, HiddenIdle, Is
    <2>5. ASSUME ex'.pc = "disconnected", Is(ex'.seen, "exposed", {"connected"})
          PROVE  ~HiddenIdle'
        <3>1. ex.m = "disconnect" /\ ex'.seen = ex.seen
            <4>1. ASSUME ex' = [ex EXCEPT !.pc = "failed", !.owner = "disable"]
                  PROVE  ex'.pc = "failed"
                BY <1>0, <4>1 DEF ExState
            <4>2. ex.m = "disconnect"
                BY <1>0, <1>2, <2>5, <4>1, Points DEF Store
            <4>3. ex' = [ex EXCEPT !.pc = "disconnected"]
                BY <1>2, <4>2 DEF Store, Go
            <4>4. QED
                BY <1>0, <4>2, <4>3 DEF ExState
        <3>2. state' = Published("exposed", "enabling", TRUE)
            BY <2>2, <2>5, <3>1 DEF Publication
        <3>3. QED
            BY <3>2 DEF Published, HiddenIdle, Is
    <2>6. ex.m = "hide" => ~adv /\ link = "none"
        BY <1>2 DEF Store, QuietInv
    <2>7. QED
        BY <2>1, <2>3, <2>4, <2>5, <2>6 DEF QuietInv
<1>3. CASE Executor /\ ~Store
    <2>1. UNCHANGED <<state, task>> /\ (link' = "none" <=> link = "none")
        BY <1>3, ExecutorFrame, ExecutorRadio
    <2>2. HiddenIdle' = HiddenIdle
        BY <2>1 DEF HiddenIdle, Is
    <2>3. ASSUME HiddenIdle, ~adv, link = "none" PROVE ~adv' /\ link' = "none"
        BY <1>3, <2>3, ExecutorRadio DEF StartAdvertising, QuietInv
    <2>4. ASSUME ex'.pc \in {"load", "publish"}, ex'.m = "hide" PROVE ~adv' /\ link' = "none"
        <3>1. Drive \/ Load
            BY <1>3, <2>4, Arrivals
        <3>2. CASE Drive
            <4>1. PhysicallyHidden
                BY <1>0, <2>4, <3>2, Points DEF Drive
            <4>2. QED
                BY <3>2, <4>1 DEF Drive, PhysicallyHidden, radio
        <3>3. CASE Load
            <4>1. CASE ex' = [ex EXCEPT !.pc = "publish", !.seen = state]
                <5>1. ex.m = "hide"
                    BY <1>0, <2>4, <4>1 DEF ExState
                <5>2. QED
                    BY <3>3, <5>1 DEF Load, QuietInv, radio
            <4>2. CASE ~Admits(ex.m, ex.gen)
                BY <1>0, <2>4, <3>3, <4>2, Points DEF Load
            <4>3. QED
                BY <3>3, <4>1, <4>2 DEF Load
        <3>4. QED
            BY <3>1, <3>2, <3>3
    <2>5. ASSUME ex'.pc = "advertise" PROVE ~HiddenIdle
        <3>1. Dispatch \/ Renumber
            BY <1>3, <2>5, Arrivals
        <3>2. CASE Renumber
            <4>1. ex.pc = "disconnected" /\ Is(ex.seen, "exposed", {"connected"})
                BY <1>0, <2>5, <3>2, Points DEF Renumber
            <4>2. QED
                BY <4>1 DEF QuietInv
        <3>3. CASE Dispatch
            <4>1. CASE BeginEnable
                BY <1>0, <2>5, <4>1, Points DEF BeginEnable, HiddenIdle, Is
            <4>2. CASE BeginDisable
                BY <1>0, <2>5, <4>2, Points DEF BeginDisable
            <4>3. CASE Judge
                <5>1. state.desired = "exposed"
                    BY <1>0, <2>5, <4>3, Points DEF Judge
                <5>2. QED
                    BY <5>1 DEF HiddenIdle, Is
            <4>4. QED
                BY <3>3, <4>1, <4>2, <4>3 DEF Dispatch
        <3>4. QED
            BY <3>1, <3>2, <3>3
    <2>6. ex'.pc # "disconnected"
        BY <1>3, Arrivals
    <2>7. QED
        BY <1>3, <2>1, <2>2, <2>3, <2>4, <2>5, <2>6 DEF QuietInv
<1>4. CASE HostStarts \/ HostTask \/ Expire \/ Alarm
    <2>1. UNCHANGED <<state, ex>>
        BY <1>4, HostFrame
    <2>2. /\ ~adv /\ link = "none" => ~adv' /\ link' = "none"
          /\ task'.pc = "inserted" => link' # "none"
        BY <1>4, HostRadio DEF QuietInv
    <2>3. ~Store
        BY <1>0, <2>1, Arrivals DEF Store, Executor, Work, Load
    <2>4. QED
        BY <2>1, <2>2, <2>3 DEF QuietInv, HiddenIdle, Is
<1>5. CASE UNCHANGED vars
    <2>1. UNCHANGED <<state, ex, task, adv, link>>
        BY <1>5 DEF vars, lifecycle, executor, radio
    <2>2. ~Store
        BY <1>0, <2>1, Arrivals DEF Store, Executor, Work, Load
    <2>3. QED
        BY <2>1, <2>2 DEF QuietInv, HiddenIdle, Is
<1>6. QED
    BY <1>1, <1>2, <1>3, <1>4, <1>5 DEF Next

\* A disable publishes hidden idle with nothing on the air, and nothing comes on
\* the air while the state machine shows it.
THEOREM HiddenQuietCorrect == Spec => HiddenQuiet
<1>1. Init => QuietInv
    BY DEF Init, QuietInv, NoEx, NoTask
<1>2. TypeOK /\ QuietInv /\ [Next]_vars => QuietInv'
    BY QuietStep
<1>3. TypeOK /\ QuietInv /\ [Next]_vars
        => [/\ Store /\ ex.m = "hide" => ~adv /\ link = "none"
            /\ Is(state, "hidden", {"idle"}) /\ ~adv /\ link = "none"
                 => ~adv' /\ link' = "none"]_vars
    BY QuietStep DEF HiddenIdle
<1>4. QED
    BY <1>1, <1>2, <1>3, TypeCorrect, PTL DEF Spec, HiddenQuiet
=============================================================================
