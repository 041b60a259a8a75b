----------------------------- MODULE HidSequence -----------------------------
(***************************************************************************)
(* Bounded HID sequences (hid_sequence.cpp): a plan the control task       *)
(* admits, the sequence task executes token by token, and the control task *)
(* may abort, adopt for a public release, or retire with its owner.        *)
(*                                                                         *)
(* The two tasks share no lock: reserved_generation says whose the plan    *)
(* is, one status word takes the only terminal transition, and             *)
(* status_generation says which sequence the word speaks of.  Every access *)
(* one task can come between is a step.  The runtime behind the backend is *)
(* reduced to what authority_current and begin_sequence read of it         *)
(* (HidRuntime models it).  Waits end at any moment, and the execution     *)
(* deadline may have passed whenever the sequence task looks: once it has  *)
(* seen so, it does not look again.                                        *)
(***************************************************************************)
EXTENDS Integers, Sequences, FiniteSets

CONSTANTS
  Codes,        \* sequences of tokens the host may send
  Roles,        \* possible active_roles of the route
  Slots,        \* keycodes of a report (6)
  MaxTokens,    \* kMaximumTokens, and the width of the failed-token field
  MaxDuration,  \* kMaximumScheduledDurationMs
  MaxStarts,    \* starts of a behaviour
  MaxOwners,    \* control sessions of a behaviour
  MaxBusy       \* busy answers before the readiness deadline of a report

ASSUME BoundsAssumption ==
  /\ {Slots, MaxTokens, MaxDuration, MaxStarts, MaxOwners, MaxBusy} \subseteq Nat
  /\ MaxTokens > 0

Keyboard == {"press", "release", "modify", "relax"}
Mouse    == {"button", "let"}
Tokens   == [op : Keyboard \union Mouse \union {"delay", "wait"}, v : Nat]

\* What the parser takes for a token; a usage is never 0.
ASSUME CodesAssumption ==
  /\ Codes \subseteq Seq(Tokens)
  /\ \A code \in Codes : \A n \in 1 .. Len(code) : code[n].op = "press" => code[n].v # 0

VARIABLES
  next,      \* next_generation_
  reserved, runnable, canceled,  \* the ..._generation_ atomics, 0 for none
  cancel,    \* cancel_requested_
  status,    \* status_generation_ and the owner behind it
  word,      \* status_word_
  plan,      \* plan_, authority_, and the generation they were admitted for
  notified,  \* the sequence task's notification
  rt,        \* the runtime: sequence, epochs, safety debt, confirmed state, roles
  owner,     \* the control session's local owner, 0 for none
  owners,    \* owners handed out
  pc, ctl, run,  \* where the two tasks are and what they read
  ghost      \* history: see the end of the module

ctls == <<owner, owners, ctl>>
atomics == <<next, reserved, runnable, canceled, cancel, status, word, plan>>
vars == <<atomics, notified, rt, ctls, pc, run, ghost>>

-----------------------------------------------------------------------------
(* Plans: apply_transition and parse.                                      *)

Keys == 1 .. Slots
Up   == [mods |-> {}, keys |-> [k \in Keys |-> 0], buttons |-> {}]

Held(keys)  == {keys[k] : k \in Keys} \ {0}
First(keys, usage) == CHOOSE k \in Keys : keys[k] = usage /\ \A j \in 1 .. k - 1 : keys[j] # usage

\* The new usage goes to the first free slot and moves up past the greater ones.
Inserted(keys, usage) ==
  LET free == First(keys, 0)
      at   == CHOOSE k \in 1 .. free :
                /\ \A j \in k .. free - 1 : keys[j] > usage
                /\ k = 1 \/ keys[k - 1] <= usage
  IN  [k \in Keys |-> IF k < at \/ k > free THEN keys[k]
                      ELSE IF k = at THEN usage ELSE keys[k - 1]]
\* Mutant: a release empties the slot and leaves the gap.
RemovedWithGap(keys, usage) == [keys EXCEPT ![First(keys, usage)] = 0]
Removed(keys, usage) ==
  LET at == First(keys, usage)
  IN  [k \in Keys |-> IF k < at THEN keys[k] ELSE IF k = Slots THEN 0 ELSE keys[k + 1]]

Fits(token, s) == token.op = "press" => token.v \in Held(s.keys) \/ 0 \in {s.keys[k] : k \in Keys}
Apply(token, s) ==
  CASE token.op = "press"   -> IF token.v \in Held(s.keys) THEN s
                               ELSE [s EXCEPT !.keys = Inserted(@, token.v)]
    [] token.op = "release" -> IF token.v \notin Held(s.keys) THEN s
                               ELSE [s EXCEPT !.keys = Removed(@, token.v)]
    [] token.op = "modify"  -> [s EXCEPT !.mods = @ \union {token.v}]
    [] token.op = "relax"   -> [s EXCEPT !.mods = @ \ {token.v}]
    [] token.op = "button"  -> [s EXCEPT !.buttons = @ \union {token.v}]
    [] token.op = "let"     -> [s EXCEPT !.buttons = @ \ {token.v}]
    [] OTHER                -> s

IsHid(token) == token.op \in Keyboard \union Mouse

\* [n]: the state after n tokens; the default delay and the duration so far.
Simulated(code, initial) ==
  LET after[n \in 0 .. Len(code)] ==
        IF n = 0 THEN initial ELSE Apply(code[n], after[n - 1])
  IN  after
\* Mutant: the last token is given its default delay, too.
ScheduledWithTail(code) ==
  LET upto[n \in 0 .. Len(code)] ==
        IF n = 0 THEN [delay |-> 0, ms |-> 0]
        ELSE CASE code[n].op = "delay" -> [upto[n - 1] EXCEPT !.delay = code[n].v]
               [] code[n].op = "wait"  -> [upto[n - 1] EXCEPT !.ms = @ + code[n].v]
               [] OTHER                -> [upto[n - 1] EXCEPT !.ms = @ + upto[n - 1].delay]
  IN  upto
Scheduled(code) ==
  LET upto[n \in 0 .. Len(code)] ==
        IF n = 0 THEN [delay |-> 0, ms |-> 0]
        ELSE CASE code[n].op = "delay" -> [upto[n - 1] EXCEPT !.delay = code[n].v]
               [] code[n].op = "wait"  -> [upto[n - 1] EXCEPT !.ms = @ + code[n].v]
               [] IsHid(code[n]) /\ n < Len(code)
                                       -> [upto[n - 1] EXCEPT !.ms = @ + upto[n - 1].delay]
               [] OTHER                -> upto[n - 1]
  IN  upto
Required(code) ==
  (IF \E n \in 1 .. Len(code) : code[n].op \in Keyboard THEN {"keyboard"} ELSE {})
    \union (IF \E n \in 1 .. Len(code) : code[n].op \in Mouse THEN {"mouse"} ELSE {})

Parses(code, initial) ==
  /\ Len(code) \in 1 .. MaxTokens
  /\ \A n \in 1 .. Len(code) : Fits(code[n], Simulated(code, initial)[n - 1])
  /\ \A n \in 1 .. Len(code) : Scheduled(code)[n].ms <= MaxDuration

-----------------------------------------------------------------------------
(* The status word.                                                        *)

Terminals == {"completed", "failed", "aborted"}
TerminalIn(w) == w.st \in Terminals
Word(st, executed, failed, code, owned) ==
  [st |-> st, executed |-> executed, failed |-> failed % MaxTokens, code |-> code,
   owned |-> owned]
Plain(st, executed) == Word(st, executed, 0, "none", FALSE)
Aborted(w, owned)   == Word("aborted", w.executed, w.executed, "sequenceAborted", owned)
Open(w) == w.st \in {"accepted", "running"}

NoStatus == [gen |-> 0, owner |-> 0]
NoPlan   == [code |-> <<>>, initial |-> Up, gen |-> 0, seq |-> 0, roles |-> {}]
NoRun    == [gen |-> 0, index |-> 0, hid |-> Up, delay |-> 0, executed |-> 0,
             st |-> "completed", code |-> "none", failed |-> 0, canceled |-> FALSE,
             busy |-> 0, ret |-> "idle", word |-> Plain("accepted", 0)]
NoCtl    == [gen |-> 0, owner |-> 0, code |-> <<>>, then |-> "idle", ok |-> FALSE,
             plan |-> NoPlan]

Init ==
  /\ next = 1 /\ reserved = 0 /\ runnable = 0 /\ canceled = 0 /\ cancel = FALSE
  /\ status = NoStatus /\ word = Plain("accepted", 0) /\ plan = NoPlan
  /\ notified = FALSE
  /\ \E roles \in Roles :
       rt = [seq |-> 0, cut |-> FALSE, debt |-> FALSE, barred |-> FALSE,
             confirmed |-> Up, roles |-> roles]
  /\ owner = 1 /\ owners = 1
  /\ pc = [control |-> "idle", sequence |-> "idle"]
  /\ ctl = NoCtl /\ run = NoRun
  /\ ghost = [owes |-> FALSE, reports |-> 0, waited |-> 0, adopted |-> 0]

-----------------------------------------------------------------------------
(* The runtime, as far as a sequence sees it.  rt.cut: an epoch the         *)
(* admitted authority carries has moved on since.                          *)

Current(p) == rt.seq = p.seq /\ p.seq # 0 /\ ~rt.cut /\ ~rt.debt /\ ~rt.barred
EndSequence(p) == rt' = IF rt.seq = p.seq THEN [rt EXCEPT !.seq = 0] ELSE rt
\* request_release_all: no sequence, a new release epoch, a debt.
Requested(r) == [r EXCEPT !.seq = 0, !.cut = TRUE, !.debt = TRUE]

Rest == UNCHANGED <<atomics, notified, pc, run, ctls>>

\* A lifecycle or route transition retires the authority, and may ask for an all-up.
CutAuthority ==
  /\ \E debt \in {rt.debt, TRUE} : rt' = [rt EXCEPT !.cut = TRUE, !.debt = debt]
  /\ UNCHANGED ghost /\ Rest
\* The requested all-up was accepted.
Settle ==
  /\ rt.debt /\ rt' = [rt EXCEPT !.debt = FALSE, !.confirmed = Up]
  /\ UNCHANGED ghost /\ Rest

-----------------------------------------------------------------------------
(* The control task.                                                       *)

Goto(k, from, to) == pc[k] = from /\ pc' = [pc EXCEPT ![k] = to]
Rested == ctl' = IF pc'.control = "idle" THEN NoCtl ELSE ctl
OfControl == UNCHANGED run

Start ==
  /\ pc.control = "idle" /\ owner # 0 /\ next <= MaxStarts
  /\ next' = next + 1
  /\ \/ reserved # 0 /\ UNCHANGED <<reserved, ctl, pc>>  \* HID_BUSY
     \/ /\ reserved = 0 /\ reserved' = next
        /\ Goto("control", "idle", "begin")
        /\ \E code \in Codes : ctl' = [NoCtl EXCEPT !.gen = next, !.owner = owner, !.code = code]
  /\ UNCHANGED <<runnable, canceled, cancel, status, word, plan, notified, rt, owner, owners, ghost>> /\ OfControl

\* begin_sequence, parse and the roles; a rejected plan gives its reservation back.
Admit ==
  /\ LET admits == rt.seq = 0 /\ ~rt.debt /\ ~rt.barred
         fits   == Parses(ctl.code, rt.confirmed) /\ Required(ctl.code) \subseteq rt.roles
     IN  IF admits
         THEN /\ Goto("control", "begin", IF fits THEN "plan" ELSE "reject")
              /\ rt' = [rt EXCEPT !.seq = ctl.gen, !.cut = FALSE]
              /\ ctl' = [ctl EXCEPT !.plan = [code |-> ctl.code, initial |-> rt.confirmed,
                                              gen |-> ctl.gen, seq |-> ctl.gen,
                                              roles |-> rt.roles]]
         ELSE Goto("control", "begin", "unreserve") /\ UNCHANGED <<rt, ctl>>
  /\ UNCHANGED <<atomics, notified, owner, owners, ghost>> /\ OfControl
\* The route is not ready, or another producer is busy.
AdmitRefused ==
  /\ Goto("control", "begin", "unreserve")
  /\ UNCHANGED <<atomics, notified, rt, ctls, ghost>> /\ OfControl
Reject ==
  /\ Goto("control", "reject", "unreserve") /\ EndSequence(ctl.plan)
  /\ UNCHANGED <<atomics, notified, ctls, ghost>> /\ OfControl
Unreserve ==
  /\ Goto("control", "unreserve", "idle")
  /\ reserved' = 0 /\ ctl' = NoCtl
  /\ UNCHANGED <<next, runnable, canceled, cancel, status, word, plan, notified, rt, owner,
                 owners, ghost>> /\ OfControl

Plan ==
  /\ Goto("control", "plan", "withdraw")
  /\ plan' = ctl.plan /\ cancel' = (canceled = ctl.gen)
  /\ ghost' = [ghost EXCEPT !.owes = FALSE, !.reports = 0, !.waited = 0]
  /\ UNCHANGED <<next, reserved, runnable, canceled, status, word, notified, rt, ctls, run>>
Withdraw ==
  /\ Goto("control", "withdraw", "record") /\ status' = [status EXCEPT !.gen = 0]
  /\ UNCHANGED <<next, reserved, runnable, canceled, cancel, word, plan, notified, rt, ctls,
                 ghost>> /\ OfControl
Record ==
  /\ Goto("control", "record", "commit")
  /\ word' = Plain("accepted", 0) /\ status' = [status EXCEPT !.owner = ctl.owner]
  /\ UNCHANGED <<next, reserved, runnable, canceled, cancel, plan, notified, rt, ctls,
                 ghost>> /\ OfControl
Commit ==
  /\ Goto("control", "commit", "arm") /\ status' = [status EXCEPT !.gen = ctl.gen]
  /\ UNCHANGED <<next, reserved, runnable, canceled, cancel, word, plan, notified, rt, ctls,
                 ghost>> /\ OfControl
\* Mutant: the task is woken before there is anything to run.
ArmLate ==
  \/ /\ Goto("control", "arm", "armed") /\ notified' = TRUE
     /\ UNCHANGED <<atomics, rt, ctls, ghost>> /\ OfControl
  \/ /\ Goto("control", "armed", "idle") /\ runnable' = ctl.gen /\ ctl' = NoCtl
     /\ UNCHANGED <<next, reserved, canceled, cancel, status, word, plan, notified, rt, owner,
                    owners, ghost>> /\ OfControl
Arm ==
  \/ /\ Goto("control", "arm", "armed") /\ runnable' = ctl.gen
     /\ UNCHANGED <<next, reserved, canceled, cancel, status, word, plan, notified, rt, ctls,
                    ghost>> /\ OfControl
  \/ /\ Goto("control", "armed", "idle") /\ notified' = TRUE /\ ctl' = NoCtl
     /\ UNCHANGED <<atomics, rt, owner, owners, ghost>> /\ OfControl

\* hid.release_all: abort_for_release adopts the cleanup, or leaves it where it is.
Release ==
  /\ owner # 0 /\ pc.control = "idle"
  /\ IF reserved = 0
     THEN /\ cancel' = TRUE /\ ghost' = [ghost EXCEPT !.adopted = next - 1]
          /\ pc' = [pc EXCEPT !.control = "release"] /\ ctl' = ctl
     ELSE /\ pc' = [pc EXCEPT !.control = IF status.gen = reserved THEN "adopt" ELSE "safety"]
          /\ ctl' = [NoCtl EXCEPT !.gen = reserved, !.then = "release"]
          /\ UNCHANGED <<cancel, ghost>>
  /\ UNCHANGED <<next, reserved, runnable, canceled, status, word, plan, notified, rt, owner,
                 owners>> /\ OfControl
Adopt ==
  /\ pc.control = "adopt"
  /\ LET harmless == word.st = "completed" \/ (word.st = "aborted" /\ word.owned)
     IN  /\ pc' = [pc EXCEPT !.control = IF Open(word) THEN "adopted"
                                         ELSE IF harmless THEN "release" ELSE "safety"]
         /\ word' = IF Open(word) THEN Aborted(word, TRUE) ELSE word
         /\ ghost' = IF Open(word) \/ harmless THEN [ghost EXCEPT !.adopted = ctl.gen] ELSE ghost
  /\ UNCHANGED <<next, reserved, runnable, canceled, cancel, status, plan, notified, rt, ctls>>
  /\ OfControl
Adopted ==
  /\ Goto("control", "adopted", "revoke") /\ canceled' = ctl.gen
  /\ UNCHANGED <<next, reserved, runnable, cancel, status, word, plan, notified, rt, ctls,
                 ghost>> /\ OfControl

\* abort_generation, from here to Stop, by retire_owner; its release by Adopt.
AbortCheck ==
  /\ pc.control = "abort"
  /\ pc' = [pc EXCEPT !.control = IF reserved = ctl.gen THEN "cancel" ELSE ctl.then]
  /\ UNCHANGED <<atomics, notified, rt, owner, owners, ghost>> /\ OfControl
  /\ Rested
Cancel ==
  /\ Goto("control", "cancel", "recheck") /\ canceled' = ctl.gen
  /\ UNCHANGED <<next, reserved, runnable, cancel, status, word, plan, notified, rt, ctls,
                 ghost>> /\ OfControl
Recheck ==
  /\ pc.control = "recheck"
  /\ pc' = [pc EXCEPT !.control = IF reserved = ctl.gen THEN "revoke" ELSE ctl.then]
  /\ UNCHANGED <<atomics, notified, rt, owner, owners, ghost>> /\ OfControl
  /\ Rested
Revoke ==
  /\ pc.control = "revoke"
  /\ pc' = [pc EXCEPT !.control = IF ctl.then = "release" THEN "stop" ELSE "strike"]
  /\ rt' = [rt EXCEPT !.seq = 0]
  /\ UNCHANGED <<atomics, notified, ctls, ghost>> /\ OfControl
Strike ==
  /\ Goto("control", "strike", "stop")
  /\ word' = IF status.gen = ctl.gen /\ Open(word) THEN Aborted(word, FALSE) ELSE word
  /\ UNCHANGED <<next, reserved, runnable, canceled, cancel, status, plan, notified, rt, ctls,
                 ghost>> /\ OfControl
\* Mutant: who aborts a sequence gives its reservation back.
StopFreeing ==
  /\ Goto("control", "stop", ctl.then) /\ cancel' = TRUE /\ notified' = TRUE
  /\ reserved' = IF reserved = ctl.gen THEN 0 ELSE reserved
  /\ UNCHANGED <<next, runnable, canceled, status, word, plan, rt, owner, owners, ghost>>
  /\ OfControl
  /\ Rested
Stop ==
  /\ Goto("control", "stop", ctl.then) /\ cancel' = TRUE /\ notified' = TRUE
  /\ UNCHANGED <<next, reserved, runnable, canceled, status, word, plan, rt, owner, owners, ghost>>
  /\ OfControl
  /\ Rested

\* request_release_all, for a takeover, a lease, a failure, or before a release.
Safety ==
  /\ pc.control = "safety"
  /\ pc' = [pc EXCEPT !.control = IF ctl.then = "release" THEN "release" ELSE "idle"]
  /\ rt' = Requested(rt) /\ ghost' = [ghost EXCEPT !.owes = FALSE]
  /\ UNCHANGED <<atomics, notified, owner, owners>> /\ OfControl
  /\ Rested
\* Runtime::release_all bars every producer and waits; only its success lifts the bar.
ReleaseAll ==
  \/ /\ Goto("control", "release", "released")
     /\ rt' = [rt EXCEPT !.seq = 0, !.cut = TRUE, !.barred = TRUE]
     /\ ghost' = [ghost EXCEPT !.owes = FALSE]
     /\ UNCHANGED <<atomics, notified, ctls>> /\ OfControl
  \/ /\ Goto("control", "released", "idle") /\ ctl' = NoCtl
     /\ \E all_up \in BOOLEAN :
          rt' = [rt EXCEPT !.barred = FALSE, !.debt = @ \/ ~all_up,
                           !.confirmed = IF all_up THEN Up ELSE @]
     /\ UNCHANGED <<atomics, notified, owner, owners, ghost>> /\ OfControl

\* A session ends: taken over or expired (all-up wanted), or cut with its
\* authority; or a report of an earlier or the present session has failed.
Leave(o, new, then) ==
  /\ pc.control = "idle" /\ pc' = [pc EXCEPT !.control = "retire"]
  /\ owner' = new /\ ctl' = [NoCtl EXCEPT !.owner = o, !.then = then]
  /\ UNCHANGED <<atomics, notified, rt, ghost>> /\ OfControl
TakeOver ==
  /\ owner # 0 /\ owners < MaxOwners /\ owners' = owners + 1
  /\ \/ Leave(owner, owners', "safety")
     \/ rt.cut /\ Leave(owner, owners', "idle")
Hello ==
  /\ pc.control = "idle" /\ owner = 0 /\ owners < MaxOwners
  /\ owners' = owners + 1 /\ owner' = owners'
  /\ UNCHANGED <<atomics, notified, rt, ctl, pc, ghost>> /\ OfControl
LeaseExpires == owner # 0 /\ UNCHANGED owners /\ Leave(owner, 0, "safety")
Invalidated  == owner # 0 /\ rt.cut /\ UNCHANGED owners /\ Leave(owner, 0, "idle")
SafetyFailure ==
  \E source \in 1 .. owners :
    /\ UNCHANGED owners
    /\ Leave(source, IF source = owner THEN 0 ELSE owner,
             IF owner \in {0, source} THEN "safety" ELSE "idle")
RetireOwner ==
  /\ pc.control = "retire"
  /\ IF status.gen # 0 /\ status.owner = ctl.owner
     THEN /\ pc' = [pc EXCEPT !.control = "abort"] /\ ctl' = [ctl EXCEPT !.gen = status.gen]
          /\ status' = [status EXCEPT !.gen = 0]
     ELSE pc' = [pc EXCEPT !.control = ctl.then] /\ Rested /\ UNCHANGED status
  /\ UNCHANGED <<next, reserved, runnable, canceled, cancel, word, plan, notified, rt, owner,
                 owners, ghost>> /\ OfControl

-----------------------------------------------------------------------------
(* The sequence task.                                                      *)

OfSequence == UNCHANGED <<next, canceled, cancel, status, plan, ctls>>
Task(from, to) == Goto("sequence", from, to)
Canceled == cancel \/ canceled = run.gen
Only(v)  == run' = v /\ UNCHANGED <<reserved, runnable, word, notified, rt, ghost>> /\ OfSequence

Wake ==
  /\ notified /\ Task("idle", "take") /\ notified' = FALSE
  /\ UNCHANGED <<reserved, runnable, word, rt, run, ghost>> /\ OfSequence
Take ==
  /\ Task("take", IF runnable = 0 THEN "idle" ELSE "enter")
  /\ runnable' = 0 /\ run' = [NoRun EXCEPT !.gen = runnable]
  /\ UNCHANGED <<reserved, word, notified, rt, ghost>> /\ OfSequence
Enter == Task("enter", IF status.gen = run.gen THEN "begin" ELSE "end") /\ Only(run)
BeginRun ==
  /\ Task("begin", IF word.st = "accepted" THEN "check" ELSE "refused")
  /\ word' = IF word.st = "accepted" THEN Plain("running", 0) ELSE word
  /\ run' = [run EXCEPT !.hid = plan.initial, !.index = 1, !.word = word]
  /\ UNCHANGED <<reserved, runnable, notified, rt, ghost>> /\ OfSequence
Refused ==
  /\ Task("refused", IF status.gen = run.gen /\ run.word.st = "aborted" /\ ~run.word.owned
                     THEN "clean" ELSE "end")
  /\ Only(run)

\* The flags are read before the authority; run.ret: where the check returns to.
Check(at) == Task(at, IF at = "check" THEN "authority" ELSE "authorityAfter")
             /\ Only([run EXCEPT !.canceled = Canceled])
Stopped(st, code) == [run EXCEPT !.st = st, !.code = code, !.failed = run.index - 1]
Authority(at, on) ==
  LET lost == ~Current(plan)
  IN  \/ /\ (run.canceled \/ lost) /\ Task(at, "final")
         /\ Only(Stopped("aborted", IF run.canceled THEN "sequenceAborted" ELSE "sessionMismatch"))
      \/ /\ ~(run.canceled \/ lost) /\ Task(at, "final")
         /\ Only(Stopped("failed", "sequenceTimeout"))
      \/ /\ ~(run.canceled \/ lost) /\ Task(at, on) /\ Only(run)

Token == plan.code[run.index]
Last  == run.index = Len(plan.code)
Execute ==
  CASE Token.op = "delay" -> Task("token", "after") /\ Only([run EXCEPT !.delay = Token.v])
    [] Token.op = "wait"  -> Task("token", "wait") /\ Only([run EXCEPT !.ret = "after"])
    [] OTHER              -> /\ Task("token", "report")
                             /\ Only([run EXCEPT !.hid = Apply(Token, @), !.code = "none"])
\* execute_report: the backend's answer, once the runtime has decided.  A report
\* that is answered not-ready in the middle of its submission may still be sent.
Accepted(to) ==
  /\ rt' = [rt EXCEPT !.confirmed = run.hid]
  /\ ghost' = [ghost EXCEPT !.owes = TRUE, !.reports = @ + 1]
  /\ Task("report", to)
  /\ UNCHANGED <<reserved, runnable, word, notified>> /\ OfSequence
Failed(code) == [run EXCEPT !.code = code, !.busy = 0]
Answered(code) == Task("report", "incomplete") /\ Only(Failed(code))
Report ==
  \/ /\ Current(plan) /\ Accepted(IF Last THEN "after" ELSE "wait")
     /\ run' = [run EXCEPT !.ret = "after", !.busy = 0]
  \/ /\ run.busy < MaxBusy /\ Task("report", "wait")
     /\ Only([run EXCEPT !.busy = @ + 1, !.ret = "report"])
  \/ /\ run.busy = MaxBusy /\ Answered("hidBusy")
  \/ Answered("hidNotReady")
  \/ /\ Current(plan) /\ Accepted("incomplete") /\ run' = Failed("hidNotReady")
  \/ /\ ~Current(plan)
     /\ \E code \in {"hidSafetyPending", "sessionMismatch"} : Answered(code)

\* wait_local: cancelled, cut off, past the execution deadline, or waited; a
\* notification only makes it look again.
Wait ==
  \/ Task("wait", "incomplete") /\ Only(run)
  \/ /\ ~cancel /\ Current(plan)
     /\ Task("wait", run.ret)
     /\ ghost' = [ghost EXCEPT !.waited =
                    IF run.ret = "report" THEN @
                    ELSE @ + (IF Token.op = "wait" THEN Token.v ELSE run.delay)]
     /\ UNCHANGED <<reserved, runnable, word, notified, rt, run>> /\ OfSequence
Doze ==
  /\ notified /\ pc.sequence = "wait" /\ notified' = FALSE
  /\ UNCHANGED <<reserved, runnable, word, rt, run, pc, ghost>> /\ OfSequence
Incomplete ==
  \/ Task("incomplete", "incompleteAuthority") /\ Only([run EXCEPT !.canceled = Canceled])
  \/ LET lost == ~Current(plan)
     IN  /\ Task("incompleteAuthority", "final")
         /\ Only(Stopped(IF run.canceled \/ lost THEN "aborted" ELSE "failed",
                         CASE run.canceled         -> "sequenceAborted"
                           [] ~run.canceled /\ lost -> "sessionMismatch"
                           [] ~run.canceled /\ ~lost /\ run.code = "none" -> "sequenceTimeout"
                           [] OTHER                -> run.code))

Progress ==
  /\ Task("progress", IF Last THEN "complete" ELSE "publish")
  /\ Only([run EXCEPT !.executed = run.index])
\* publish_running_progress: the generation, then the word unless it is terminal.
Publish ==
  \/ Task("publish", IF status.gen = run.gen THEN "publishWord" ELSE "final") /\ Only(run)
  \/ /\ Task("publishWord", IF word.st = "running" THEN "check" ELSE "final")
     /\ word' = IF word.st = "running" THEN Plain("running", run.executed) ELSE word
     /\ run' = IF word.st = "running" THEN [run EXCEPT !.index = @ + 1] ELSE run
     /\ UNCHANGED <<reserved, runnable, notified, rt, ghost>> /\ OfSequence
\* Mutant: a word that is terminal by now is overwritten.
ClaimWordBlind(w) == w
ClaimWord(w) == IF word.st = "running" THEN w ELSE word
\* Mutant: the word is claimed whoever's it is, or nobody's.
ClaimOfAny(at, on, no) == Task(at, on) /\ Only(run)
ClaimCheck(at, on, no) == Task(at, IF status.gen = run.gen THEN on ELSE no) /\ Only(run)
Claim(at, w) ==
  /\ Task(at, "decide") /\ word' = ClaimWord(w)
  /\ UNCHANGED <<reserved, runnable, notified, rt, run, ghost>> /\ OfSequence
Failure == run.st \in {"failed", "aborted"}
Complete ==
  \/ ClaimCheck("complete", "completeWord", "final")
  \/ Claim("completeWord", Plain("completed", run.executed))
Final ==
  \/ TerminalIn(word) /\ Task("final", "decide") /\ Only(run)
  \/ ~TerminalIn(word) /\ ClaimCheck("final", "finalWord", "decide")
  \/ Claim("finalWord", Word(run.st, run.executed, IF Failure THEN run.failed ELSE 0,
                             IF Failure THEN run.code ELSE "none", FALSE))

\* The cleanup belongs to whoever ended the sequence; then the reservation goes.
Decide == Task("decide", IF word.st # "completed" /\ ~word.owned THEN "clean" ELSE "end")
          /\ Only(run)
Clean ==
  /\ Task("clean", "end")
  /\ rt' = Requested(rt) /\ ghost' = [ghost EXCEPT !.owes = FALSE]
  /\ UNCHANGED <<reserved, runnable, word, notified, run>> /\ OfSequence
End ==
  /\ Task("end", "free") /\ EndSequence(plan)
  /\ UNCHANGED <<reserved, runnable, word, notified, run, ghost>> /\ OfSequence
Free ==
  /\ Task("free", "idle") /\ reserved' = IF reserved = run.gen THEN 0 ELSE reserved
  /\ run' = NoRun /\ ghost' = [ghost EXCEPT !.reports = 0, !.waited = 0]
  /\ UNCHANGED <<next, runnable, canceled, cancel, status, word, plan, notified, rt, ctls>>

-----------------------------------------------------------------------------
Control ==
  \/ Start \/ Admit \/ AdmitRefused \/ Reject \/ Unreserve
  \/ Plan \/ Withdraw \/ Record \/ Commit \/ Arm
  \/ Release \/ Adopt \/ Adopted \/ AbortCheck \/ Cancel \/ Recheck \/ Revoke \/ Strike \/ Stop
  \/ Safety \/ ReleaseAll
  \/ Hello \/ TakeOver \/ LeaseExpires \/ Invalidated \/ SafetyFailure \/ RetireOwner
Run ==
  \/ Wake \/ Take \/ Enter \/ BeginRun \/ Refused
  \/ Check("check") \/ Authority("authority", "token")
  \/ pc.sequence = "token" /\ Execute
  \/ Report \/ Wait \/ Incomplete
  \/ Check("after") \/ Authority("authorityAfter", "progress")
  \/ Progress \/ Publish \/ Complete \/ Final \/ Decide \/ Clean \/ End \/ Free
Next == Control \/ Run \/ Doze \/ CutAuthority \/ Settle

Spec == Init /\ [][Next]_vars

-----------------------------------------------------------------------------
Hids(n) == Cardinality({k \in 1 .. n : IsHid(plan.code[k])})
Running == pc.sequence \notin {"idle", "take"}

\* The plan, the authority and the reservation stay those of the sequence that
\* runs, or waits to run, until it gives the reservation back; and the runtime's
\* reservation, which answers HID_BUSY to every other report, never outlives it.
PlanOwned ==
  /\ Running => {reserved, plan.gen} = {run.gen}
  /\ runnable # 0 => {reserved, plan.gen} = {runnable}
  /\ rt.seq # 0 => reserved = rt.seq

\* No wakeup is lost: when neither task has anything left to do, no admitted
\* sequence is still holding the reservation, which would refuse every later one.
NoneForgotten ==
  pc.control = "idle" /\ pc.sequence = "idle" /\ ~notified => reserved = 0

Releasing ==
  \/ pc.control = "release"
  \/ ctl.then = "release" /\ pc.control \in {"adopted", "revoke", "stop", "safety"}

\* A sequence that had a report accepted and did not complete is over only when
\* an all-up was asked for after its last report, by it or by a release under way.
\* Once a public release has taken that cleanup over, or found none to take, the
\* sequence asks for no safety release of its own.
CleanedUp ==
  /\ reserved = 0 /\ ghost.owes =>
       (word.st = "completed" /\ word.executed = Len(plan.code)) \/ Releasing
  /\ pc.sequence = "clean" => run.gen > ghost.adopted

\* A terminal record tells what was done: completed means every token, every
\* delay of the schedule and every report; otherwise the failed token is the
\* first that is not counted, and only its report may have been accepted beyond.
TerminalTrue ==
  pc.sequence = "end" /\ status.gen = run.gen =>
    IF word.st = "completed"
    THEN /\ word.executed = Len(plan.code) /\ ghost.reports = Hids(Len(plan.code))
         /\ ghost.waited = Scheduled(plan.code)[Len(plan.code)].ms
    ELSE /\ word.st \in {"failed", "aborted"} /\ word.failed = word.executed
         /\ ghost.reports \in {Hids(word.executed), Hids(word.executed + 1)}

\* Every report a plan can produce lists its keys without gaps, in order, and
\* once, as a report of the host itself must.
KeysInOrder ==
  \A k \in 2 .. Slots :
    run.hid.keys[k] # 0 => run.hid.keys[k - 1] # 0 /\ run.hid.keys[k - 1] < run.hid.keys[k]

\* Completion, failure, timeout and revocation compete for one terminal word.
OneTerminal ==
  [][ status.gen # 0 /\ status'.gen = status.gen =>
        /\ word'.executed >= word.executed
        /\ TerminalIn(word) => word' = word ]_vars
=============================================================================
