------------------------- MODULE HidSequenceProofs --------------------------
(***************************************************************************)
(* Proofs about HidSequence, for any codes the parser takes, report size,  *)
(* bounds, and number of starts and owners.                                *)
(***************************************************************************)
EXTENDS HidSequence, FiniteSetTheorems, WellFoundedInduction, TLAPS

-----------------------------------------------------------------------------
(* The types.                                                              *)

Hid == [mods : SUBSET Nat, keys : [Keys -> Nat], buttons : SUBSET Nat]
Code == Codes \union {<<>>}
Failures == {"none", "sequenceAborted", "sessionMismatch", "sequenceTimeout", "hidBusy",
             "hidNotReady", "hidSafetyPending"}
Status == [st : {"accepted", "running"} \union Terminals, executed : Nat, failed : Nat,
           code : Failures, owned : BOOLEAN]
Admission == [code : Code, initial : Hid, gen : Nat, seq : Nat, roles : Roles \union {{}}]
Runtime == [seq : Nat, cut : BOOLEAN, debt : BOOLEAN, barred : BOOLEAN, confirmed : Hid,
            roles : Roles]
Errand == [gen : Nat, owner : Nat, code : Code, then : {"idle", "release", "safety"},
           ok : BOOLEAN, plan : Admission]
Progression == [gen : Nat, index : Nat, hid : Hid, delay : Nat, executed : Nat, st : Terminals,
                code : Failures, failed : Nat, canceled : BOOLEAN, busy : Nat,
                ret : {"idle", "after", "report"}, word : Status]
History == [owes : BOOLEAN, reports : Nat, waited : Nat, adopted : Nat]

Starting == {"begin", "reject", "unreserve", "plan", "withdraw", "record", "commit", "arm"}
Loop == {"check", "authority", "token", "report", "wait", "incomplete", "incompleteAuthority",
         "after", "authorityAfter", "progress", "publish", "publishWord", "complete",
         "completeWord", "final", "finalWord"}
ControlPoint == Starting \union {"idle", "armed", "adopt", "adopted", "abort", "cancel", "recheck",
                                 "revoke", "strike", "stop", "safety", "release", "released",
                                 "retire"}
SequencePoint == Loop \union {"idle", "take", "enter", "begin", "refused", "decide", "clean",
                              "end", "free"}

\* The types of every variable.
TypeOK ==
    /\ next \in Nat \ {0} /\ reserved \in Nat /\ runnable \in Nat /\ canceled \in Nat
    /\ cancel \in BOOLEAN /\ notified \in BOOLEAN
    /\ status \in [gen : Nat, owner : Nat] /\ word \in Status /\ plan \in Admission
    /\ rt \in Runtime
    /\ owner \in Nat /\ owners \in Nat
    /\ pc \in [control : ControlPoint, sequence : SequencePoint]
    /\ ctl \in Errand /\ run \in Progression /\ ghost \in History

\* The records they start from.
LEMMA Blank ==
    /\ Up \in Hid /\ NoPlan \in Admission /\ NoCtl \in Errand /\ NoRun \in Progression
    /\ \A st \in {"accepted", "running"} \union Terminals, n \in Nat : Plain(st, n) \in Status
<1>1. Up \in Hid
  BY DEF Up, Hid, Keys
<1>2. \A st \in {"accepted", "running"} \union Terminals, n \in Nat : Plain(st, n) \in Status
  BY BoundsAssumption DEF Plain, Word, Status, Failures
<1>3. NoPlan \in Admission
  BY <1>1 DEF NoPlan, Admission, Code
<1>4. NoCtl \in Errand
  BY <1>3 DEF NoCtl, Errand, Code
<1>5. Plain("accepted", 0) \in Status
  BY <1>2
<1>6. NoRun \in Progression
  BY <1>1, <1>5 DEF NoRun, Progression, Terminals, Failures
<1>7. QED
  BY <1>1, <1>2, <1>3, <1>4, <1>6

-----------------------------------------------------------------------------
(* What the parser computes: reports, and the functions of its loops.      *)

\* A nonempty set of naturals has a least element.
LEMMA Least ==
    ASSUME NEW T \in SUBSET Nat, NEW x \in T
    PROVE  \E n \in T : \A m \in T : n <= m
<1> DEFINE R == {ss \in Nat \X Nat : ss[1] < ss[2]}
<1>1. OpToRel(<, Nat) = R
  BY DEF OpToRel
<1>2. \E n \in T : \A m \in T : ~(<<m, n>> \in OpToRel(<, Nat))
  BY NatLessThanWellFounded, WFMin
<1>3. \E n \in T : \A m \in T : ~(<<m, n>> \in R)
  BY <1>1, <1>2, Zenon
<1> HIDE DEF R
<1>4. \A m, n \in T : m < n => <<m, n>> \in R
  BY DEF R
<1>5. PICK n \in T : \A m \in T : ~(<<m, n>> \in R)
  BY <1>3
<1>6. \A m \in T : ~(m < n)
  BY <1>4, <1>5
<1>7. n \in Nat /\ \A m \in T : m \in Nat
  OBVIOUS
<1>8. QED
  BY <1>6, <1>7

\* Keys are listed without gaps, in order, and once.
Sorted(keys) ==
    \A k \in 2 .. Slots : keys[k] # 0 => keys[k - 1] # 0 /\ keys[k - 1] < keys[k]

\* The first slot of a usage, if it has one.
LEMMA FirstFacts ==
    ASSUME NEW keys \in [Keys -> Nat], NEW i \in Keys
    PROVE  LET at == First(keys, keys[i]) IN
             at \in Keys /\ keys[at] = keys[i] /\ \A j \in 1 .. at - 1 : keys[j] # keys[i]
<1> DEFINE T == {k \in Keys : keys[k] = keys[i]}
<1>1. T \in SUBSET Nat /\ i \in T
  BY BoundsAssumption DEF Keys
<1>2. PICK n \in T : \A m \in T : n <= m
  BY <1>1, Least
<1>3. n \in Keys /\ keys[n] = keys[i] /\ \A j \in 1 .. n - 1 : keys[j] # keys[i]
  BY <1>2, BoundsAssumption DEF Keys
<1>4. QED
  BY <1>3 DEF First

\* Where a new usage goes: past the smaller ones, before the greater ones.
LEMMA InsertedFacts ==
    ASSUME NEW keys \in [Keys -> Nat], Sorted(keys), NEW usage \in Nat, usage # 0,
           usage \notin Held(keys), NEW i \in Keys, keys[i] = 0
    PROVE  Inserted(keys, usage) \in [Keys -> Nat] /\ Sorted(Inserted(keys, usage))
<1> DEFINE free == First(keys, 0)
           T == {k \in 1 .. free : \A j \in k .. free - 1 : keys[j] > usage}
           at == CHOOSE k \in 1 .. free :
                   /\ \A j \in k .. free - 1 : keys[j] > usage
                   /\ k = 1 \/ keys[k - 1] <= usage
           new == [k \in Keys |-> IF k < at \/ k > free THEN keys[k]
                                  ELSE IF k = at THEN usage ELSE keys[k - 1]]
<1>0. Slots \in Nat
  BY BoundsAssumption
<1>1. free \in Keys /\ keys[free] = 0 /\ \A j \in 1 .. free - 1 : keys[j] # 0
  BY FirstFacts
<1> HIDE DEF free
<1>2. T \in SUBSET Nat /\ free \in T
  BY <1>0, <1>1 DEF Keys
<1>3. PICK n \in T : \A m \in T : n <= m
  BY <1>2, Least
<1>4. n = 1 \/ keys[n - 1] <= usage
  <2> SUFFICES ASSUME n # 1, ~(keys[n - 1] <= usage) PROVE FALSE
    OBVIOUS
  <2> HIDE DEF T
  <2>0. n \in Nat /\ n \in 1 .. free /\ \A j \in n .. free - 1 : keys[j] > usage
    BY <1>2, <1>3 DEF T
  <2>1. n - 1 \in 1 .. free /\ n - 1 \in Keys
    BY <1>0, <1>1, <2>0 DEF Keys
  <2>2. keys[n - 1] > usage
    BY <2>1
  <2>3. \A j \in n - 1 .. free - 1 : j = n - 1 \/ j \in n .. free - 1
    BY <1>0, <1>1, <2>0 DEF Keys
  <2>4. n - 1 \in T
    BY <2>0, <2>1, <2>2, <2>3 DEF T
  <2>5. QED
    BY <1>3, <2>0, <2>4
<1>5. /\ at \in 1 .. free /\ \A j \in at .. free - 1 : keys[j] > usage
      /\ at = 1 \/ keys[at - 1] <= usage
  BY <1>3, <1>4
<1> HIDE DEF at
<1>6. \A k \in Keys : keys[k] \in Nat /\ keys[k] # usage
  BY DEF Held
<1>7. new \in [Keys -> Nat]
  BY <1>0, <1>1, <1>5 DEF Keys
<1>8. Sorted(new)
  <2> SUFFICES ASSUME NEW k \in 2 .. Slots, new[k] # 0
               PROVE  new[k - 1] # 0 /\ new[k - 1] < new[k]
    BY DEF Sorted
  <2>1. k \in Keys /\ k - 1 \in Keys /\ k \in Nat /\ free \in Nat /\ at \in Nat
    BY <1>0, <1>1, <1>5 DEF Keys
  <2>2. keys[k] # 0 => keys[k - 1] # 0 /\ keys[k - 1] < keys[k]
    BY DEF Sorted
  <2>3. k - 1 >= 2 /\ keys[k - 1] # 0 => keys[k - 2] # 0 /\ keys[k - 2] < keys[k - 1]
    <3> SUFFICES ASSUME k - 1 >= 2 PROVE k - 1 \in 2 .. Slots /\ (k - 1) - 1 = k - 2
      BY DEF Sorted
    <3>1. QED
      BY <1>0
  <2>4. CASE k < at
    BY <1>1, <1>5, <2>1, <2>2, <2>4
  <2>5. CASE k > free /\ k - 1 > free
    BY <1>5, <2>1, <2>2, <2>5
  <2>6. CASE k = free + 1
    BY <1>1, <1>5, <2>1, <2>2, <2>6
  <2>7. CASE k = at
    <3>1. new[k] = usage /\ new[k - 1] = keys[k - 1] /\ k - 1 \in 1 .. free - 1
      BY <1>5, <2>1, <2>7
    <3>2. QED
      BY <1>1, <1>5, <1>6, <2>1, <2>7, <3>1
  <2>8. CASE k > at /\ k <= free
    <3>1. new[k] = keys[k - 1] /\ k - 1 \in at .. free - 1 /\ k - 1 \in 1 .. free - 1
      BY <1>5, <2>1, <2>8
    <3>2. keys[k - 1] > usage /\ keys[k - 1] # 0
      BY <1>1, <1>5, <3>1
    <3>3. CASE k - 1 = at
      BY <2>1, <3>1, <3>2, <3>3, <1>5
    <3>4. CASE k - 1 > at
      <4>1. new[k - 1] = keys[k - 2] /\ k - 1 >= 2
        BY <1>5, <2>1, <2>8, <3>4
      <4>2. QED
        BY <2>3, <3>1, <3>2, <4>1
    <3>5. QED
      BY <1>5, <2>1, <2>8, <3>3, <3>4
  <2>9. QED
    BY <1>5, <2>1, <2>4, <2>5, <2>6, <2>7, <2>8
<1>9. QED
  BY <1>7, <1>8 DEF Inserted, free, at

\* What is released is closed up.
LEMMA RemovedFacts ==
    ASSUME NEW keys \in [Keys -> Nat], Sorted(keys), NEW i \in Keys
    PROVE  Removed(keys, keys[i]) \in [Keys -> Nat] /\ Sorted(Removed(keys, keys[i]))
<1> DEFINE at == First(keys, keys[i])
           new == [k \in Keys |-> IF k < at THEN keys[k] ELSE IF k = Slots THEN 0 ELSE keys[k + 1]]
<1>0. Slots \in Nat
  BY BoundsAssumption
<1>1. at \in Keys
  BY FirstFacts
<1> HIDE DEF at
<1>2. new \in [Keys -> Nat]
  BY <1>0, <1>1 DEF Keys
<1>3. Sorted(new)
  <2> SUFFICES ASSUME NEW k \in 2 .. Slots, new[k] # 0
               PROVE  new[k - 1] # 0 /\ new[k - 1] < new[k]
    BY DEF Sorted
  <2>1. k \in Keys /\ k - 1 \in Keys /\ k \in Nat /\ at \in Nat
    BY <1>0, <1>1 DEF Keys
  <2>2. keys[k] # 0 => keys[k - 1] # 0 /\ keys[k - 1] < keys[k]
    BY DEF Sorted
  <2>3. CASE k < at
    BY <2>1, <2>2, <2>3
  <2>4. CASE k >= at
    <3>1. k < Slots /\ new[k] = keys[k + 1] /\ k + 1 \in 2 .. Slots /\ k + 1 \in Keys
      BY <1>0, <2>1, <2>4 DEF Keys
    <3>2. keys[k] # 0 /\ keys[k] < keys[k + 1]
      <4>1. keys[k + 1] # 0 => keys[(k + 1) - 1] # 0 /\ keys[(k + 1) - 1] < keys[k + 1]
        BY <3>1 DEF Sorted
      <4>2. (k + 1) - 1 = k
        BY <2>1
      <4>3. QED
        BY <3>1, <4>1, <4>2
    <3>3. new[k - 1] = IF k = at THEN keys[k - 1] ELSE keys[k]
      BY <1>0, <2>1, <2>4, <3>1
    <3>4. keys[k - 1] \in Nat /\ keys[k] \in Nat /\ keys[k + 1] \in Nat
      BY <2>1, <3>1
    <3>5. QED
      BY <2>2, <3>1, <3>2, <3>3, <3>4
  <2>5. QED
    BY <2>1, <2>3, <2>4
<1>4. QED
  BY <1>2, <1>3 DEF Removed, at

\* A token that fits leaves a report that is listed as a report should be.
LEMMA AppliedFacts ==
    ASSUME NEW token \in Tokens, token.op = "press" => token.v # 0,
           NEW s \in Hid, Sorted(s.keys), Fits(token, s)
    PROVE  Apply(token, s) \in Hid /\ Sorted(Apply(token, s).keys)
<1> DEFINE keys == s.keys
           t == Apply(token, s)
<1>0. keys \in [Keys -> Nat] /\ token.v \in Nat
      /\ s = [mods |-> s.mods, keys |-> keys, buttons |-> s.buttons]
      /\ s.mods \in SUBSET Nat /\ s.buttons \in SUBSET Nat
  BY DEF Hid, Tokens
<1>1. \A new \in [Keys -> Nat] :
        [s EXCEPT !.keys = new] \in Hid /\ [s EXCEPT !.keys = new].keys = new
  BY <1>0 DEF Hid
<1>2. CASE token.op = "press" /\ token.v \notin Held(keys)
  <2>1. PICK i \in Keys : keys[i] = 0
    BY <1>2 DEF Fits
  <2>2. Inserted(keys, token.v) \in [Keys -> Nat] /\ Sorted(Inserted(keys, token.v))
    BY <1>0, <1>2, <2>1, InsertedFacts
  <2>3. t = [s EXCEPT !.keys = Inserted(keys, token.v)]
    BY <1>2 DEF Apply
  <2>4. QED
    BY <1>1, <2>2, <2>3
<1>3. CASE token.op = "release" /\ token.v \in Held(keys)
  <2>1. PICK i \in Keys : keys[i] = token.v
    BY <1>3 DEF Held
  <2>2. Removed(keys, token.v) \in [Keys -> Nat] /\ Sorted(Removed(keys, token.v))
    BY <1>0, <2>1, RemovedFacts
  <2>3. t = [s EXCEPT !.keys = Removed(keys, token.v)]
    BY <1>3 DEF Apply
  <2>4. QED
    BY <1>1, <2>2, <2>3
<1>4. CASE token.op \in {"modify", "relax"}
  <2>1. \E m \in SUBSET Nat : t = [s EXCEPT !.mods = m]
    BY <1>0, <1>4 DEF Apply
  <2>2. QED
    BY <1>0, <2>1 DEF Hid
<1>5. CASE token.op \in {"button", "let"}
  <2>1. \E m \in SUBSET Nat : t = [s EXCEPT !.buttons = m]
    BY <1>0, <1>5 DEF Apply
  <2>2. QED
    BY <1>0, <2>1 DEF Hid
<1>6. CASE t = s
  BY <1>6
<1>7. QED
  BY <1>2, <1>3, <1>4, <1>5, <1>6 DEF Apply

\* The parser's loop over a code is a function of the number of tokens.
LEMMA SimulatedFacts ==
    ASSUME NEW S, NEW code \in Seq(S), NEW initial
    PROVE  /\ Simulated(code, initial)[0] = initial
           /\ \A n \in 1 .. Len(code) :
                Simulated(code, initial)[n] = Apply(code[n], Simulated(code, initial)[n - 1])
<1> DEFINE F(g, m) == g = [n \in 0 .. m |-> IF n = 0 THEN initial ELSE Apply(code[n], g[n - 1])]
           T == {m \in Nat : ~ \E g : F(g, m)}
<1>0. Len(code) \in Nat
  OBVIOUS
<1>1. ASSUME NEW m \in Nat, NEW g, m = 0 \/ F(g, m - 1) PROVE \E h : F(h, m)
  <2> DEFINE h == [n \in 0 .. m |-> IF n = 0 THEN initial
                                     ELSE IF n = m THEN Apply(code[n], g[n - 1]) ELSE g[n]]
  <2>1. \A n \in 0 .. m - 1 : h[n] = g[n]
    BY <1>1
  <2>2. \A n \in 0 .. m : h[n] = IF n = 0 THEN initial ELSE Apply(code[n], h[n - 1])
    <3> TAKE n \in 0 .. m
    <3>1. CASE n = 0
      BY <3>1
    <3>2. CASE n # 0
      <4>1. n - 1 \in 0 .. m - 1 /\ m # 0
        BY <3>2
      <4>2. h[n - 1] = g[n - 1]
        BY <2>1, <4>1
      <4>3. CASE n = m
        BY <3>2, <4>2, <4>3
      <4>4. CASE n # m
        <5>1. n \in 0 .. m - 1 /\ h[n] = g[n]
          BY <3>2, <4>4
        <5>2. g[n] = Apply(code[n], g[n - 1])
          BY <1>1, <3>2, <4>1, <5>1
        <5>3. QED
          BY <3>2, <4>2, <5>1, <5>2
      <4>5. QED
        BY <4>3, <4>4
    <3>3. QED
      BY <3>1, <3>2
  <2>3. F(h, m)
    BY <2>2
  <2>4. QED
    BY <2>3
<1>2. T = {}
  <2> SUFFICES ASSUME NEW x \in T PROVE FALSE
    OBVIOUS
  <2>0. T \in SUBSET Nat
    OBVIOUS
  <2> HIDE DEF T
  <2>1. PICK m \in T : \A k \in T : m <= k
    BY <2>0, Least
  <2>2. CASE m = 0
    BY <1>1, <2>2 DEF T
  <2>3. CASE m # 0
    <3>1. m \in Nat /\ m - 1 \in Nat /\ m - 1 \notin T
      BY <2>0, <2>1, <2>3
    <3>2. PICK g : F(g, m - 1)
      BY <3>1 DEF T
    <3>3. QED
      BY <1>1, <3>1, <3>2 DEF T
  <2>4. QED
    BY <2>2, <2>3
<1>3. \E g : F(g, Len(code))
  BY <1>0, <1>2
<1>4. F(Simulated(code, initial), Len(code))
  BY <1>3 DEF Simulated
<1>5. QED
  BY <1>0, <1>4

\* And so is the schedule's.
LEMMA ScheduledFacts ==
    ASSUME NEW S, NEW code \in Seq(S)
    PROVE  /\ Scheduled(code)[0] = [delay |-> 0, ms |-> 0]
           /\ \A n \in 1 .. Len(code) : LET last == Scheduled(code)[n - 1] IN
                Scheduled(code)[n] =
                  CASE code[n].op = "delay" -> [last EXCEPT !.delay = code[n].v]
                    [] code[n].op = "wait"  -> [last EXCEPT !.ms = @ + code[n].v]
                    [] IsHid(code[n]) /\ n < Len(code) -> [last EXCEPT !.ms = @ + last.delay]
                    [] OTHER                -> last
<1> DEFINE Step(last, n) ==
             CASE code[n].op = "delay" -> [last EXCEPT !.delay = code[n].v]
               [] code[n].op = "wait"  -> [last EXCEPT !.ms = @ + code[n].v]
               [] IsHid(code[n]) /\ n < Len(code) -> [last EXCEPT !.ms = @ + last.delay]
               [] OTHER                -> last
           start == [delay |-> 0, ms |-> 0]
           F(g, m) == g = [n \in 0 .. m |-> IF n = 0 THEN start ELSE Step(g[n - 1], n)]
           T == {m \in Nat : ~ \E g : F(g, m)}
<1> HIDE DEF Step
<1>0. Len(code) \in Nat
  OBVIOUS
<1>1. ASSUME NEW m \in Nat, NEW g, m = 0 \/ F(g, m - 1) PROVE \E h : F(h, m)
  <2> DEFINE h == [n \in 0 .. m |-> IF n = 0 THEN start ELSE IF n = m THEN Step(g[n - 1], n)
                                     ELSE g[n]]
  <2>1. \A n \in 0 .. m - 1 : h[n] = g[n]
    BY <1>1
  <2>2. \A n \in 0 .. m : h[n] = IF n = 0 THEN start ELSE Step(h[n - 1], n)
    <3> TAKE n \in 0 .. m
    <3>1. CASE n = 0
      BY <3>1
    <3>2. CASE n # 0
      <4>1. n - 1 \in 0 .. m - 1 /\ m # 0
        BY <3>2
      <4>2. h[n - 1] = g[n - 1]
        BY <2>1, <4>1
      <4>3. CASE n = m
        BY <3>2, <4>2, <4>3
      <4>4. CASE n # m
        <5>1. n \in 0 .. m - 1 /\ h[n] = g[n]
          BY <3>2, <4>4
        <5>2. g[n] = Step(g[n - 1], n)
          BY <1>1, <3>2, <4>1, <5>1
        <5>3. QED
          BY <3>2, <4>2, <5>1, <5>2
      <4>5. QED
        BY <4>3, <4>4
    <3>3. QED
      BY <3>1, <3>2
  <2>3. F(h, m)
    BY <2>2
  <2>4. QED
    BY <2>3
<1>2. T = {}
  <2> SUFFICES ASSUME NEW x \in T PROVE FALSE
    OBVIOUS
  <2>0. T \in SUBSET Nat
    OBVIOUS
  <2> HIDE DEF T
  <2>1. PICK m \in T : \A k \in T : m <= k
    BY <2>0, Least
  <2>2. CASE m = 0
    BY <1>1, <2>2 DEF T
  <2>3. CASE m # 0
    <3>1. m \in Nat /\ m - 1 \in Nat /\ m - 1 \notin T
      BY <2>0, <2>1, <2>3
    <3>2. PICK g : F(g, m - 1)
      BY <3>1 DEF T
    <3>3. QED
      BY <1>1, <3>1, <3>2 DEF T
  <2>4. QED
    BY <2>2, <2>3
<1>3. \E g : F(g, Len(code))
  BY <1>0, <1>2
<1>4. F(Scheduled(code), Len(code))
  BY <1>3 DEF Scheduled, Step
<1>5. /\ Scheduled(code)[0] = start
      /\ \A n \in 1 .. Len(code) : Scheduled(code)[n] = Step(Scheduled(code)[n - 1], n)
  BY <1>0, <1>4
<1>6. QED
  BY <1>5 DEF Step, IsHid

\* A schedule is made of naturals.
LEMMA ScheduledType ==
    ASSUME NEW code \in Seq(Tokens)
    PROVE  \A n \in 0 .. Len(code) : Scheduled(code)[n] \in [delay : Nat, ms : Nat]
<1> DEFINE upto == Scheduled(code)
           T == {n \in 0 .. Len(code) : upto[n] \notin [delay : Nat, ms : Nat]}
<1>0. Len(code) \in Nat /\ \A n \in 1 .. Len(code) : code[n].v \in Nat
  <2>1. Len(code) \in Nat /\ \A n \in 1 .. Len(code) : code[n] \in Tokens
    OBVIOUS
  <2>2. \A x \in Tokens : x.v \in Nat
    BY DEF Tokens
  <2>3. QED
    BY <2>1, <2>2
<1>1. upto[0] \in [delay : Nat, ms : Nat]
  BY ScheduledFacts
<1>2. ASSUME NEW n \in 1 .. Len(code), upto[n - 1] \in [delay : Nat, ms : Nat]
      PROVE  upto[n] \in [delay : Nat, ms : Nat]
  <2> DEFINE last == upto[n - 1]
  <2>1. last.delay \in Nat /\ last.ms \in Nat /\ code[n].v \in Nat
    BY <1>0, <1>2
  <2>2. \/ upto[n] = [last EXCEPT !.delay = code[n].v]
        \/ upto[n] = [last EXCEPT !.ms = @ + code[n].v]
        \/ upto[n] = [last EXCEPT !.ms = @ + last.delay]
        \/ upto[n] = last
    BY ScheduledFacts
  <2> HIDE DEF upto
  <2>3. QED
    <3> DEFINE R == [delay : Nat, ms : Nat]
    <3>1. last \in R
      BY <1>2
    <3>2. \A r \in R : \A v \in Nat : /\ [r EXCEPT !.delay = v] \in R
                                    /\ [r EXCEPT !.ms = @ + v] \in R
      OBVIOUS
    <3>3. [last EXCEPT !.ms = @ + last.delay] \in R
      BY <2>1, <3>1, <3>2
    <3> HIDE DEF R, last
    <3>4. upto[n] \in R
      BY <2>1, <2>2, <3>1, <3>2, <3>3
    <3>5. QED
      BY <3>4 DEF R
<1>3. T \in SUBSET Nat
  BY <1>0
<1>4. ASSUME NEW x \in T PROVE FALSE
  <2> HIDE DEF upto
  <2>1. PICK n \in T : \A m \in T : n <= m
    BY <1>3, <1>4, Least
  <2>2. n # 0 /\ n \in 1 .. Len(code)
    BY <1>0, <1>1, <2>1
  <2>3. n - 1 \in 0 .. Len(code) /\ n - 1 \notin T
    BY <1>0, <1>3, <2>1, <2>2
  <2>4. QED
    BY <1>2, <2>1, <2>2, <2>3
<1>5. QED
  BY <1>4

-----------------------------------------------------------------------------
(* The inductive invariant, in layers: each is kept by a step that starts  *)
(* where the ones before it hold.                                          *)

In(at) == pc.control \in at
At(at) == pc.sequence \in at

\* The plan is made for the sequence that is starting.
Planned == {"withdraw", "record", "commit", "arm"}

\* The report is as it was before the token, and as it will be after it.
Unapplied == {"check", "authority", "token"}
Appliedto == {"report", "wait", "after", "authorityAfter", "progress", "publish", "publishWord"}

\* What the executor sends is what the parser simulated, token by token.
Simulation ==
    /\ Sorted(run.hid.keys) /\ Sorted(plan.initial.keys) /\ Sorted(ctl.plan.initial.keys)
    /\ Sorted(rt.confirmed.keys)
    /\ In({"plan"}) => Parses(ctl.plan.code, ctl.plan.initial)
    /\ In(Planned) \/ runnable # 0 \/ Running => Parses(plan.code, plan.initial)
    /\ At(Loop) => run.index \in 1 .. Len(plan.code)
    /\ At({"publish", "publishWord"}) => run.index < Len(plan.code)
    /\ At({"complete", "completeWord"}) => run.index = Len(plan.code)
    /\ At({"wait"}) => run.ret # "idle"
    /\ At(Unapplied) => run.hid = Simulated(plan.code, plan.initial)[run.index - 1]
    /\ At(Appliedto) => run.hid = Simulated(plan.code, plan.initial)[run.index]

\* A token of the plan is one the parser took.
LEMMA TokenFacts ==
    ASSUME TypeOK, Simulation, At(Loop)
    PROVE  /\ plan.code \in Seq(Tokens) /\ Len(plan.code) \in 1 .. MaxTokens
           /\ run.index \in 1 .. Len(plan.code) /\ run.index \in Nat
           /\ Token \in Tokens /\ Token.v \in Nat /\ (Token.op = "press" => Token.v # 0)
<1>1. plan.code \in Seq(Tokens)
      /\ \A n \in 1 .. Len(plan.code) : plan.code[n].op = "press" => plan.code[n].v # 0
  <2>1. plan.code \in Codes \union {<<>>}
    BY DEF TypeOK, Admission, Code
  <2>2. CASE plan.code \in Codes
    BY <2>2, CodesAssumption
  <2>3. CASE plan.code = <<>>
    BY <2>3
  <2>4. QED
    BY <2>1, <2>2, <2>3
<1>2. run.index \in 1 .. Len(plan.code) /\ Len(plan.code) \in 1 .. MaxTokens
  BY DEF Simulation, At, Running, Loop, Parses
<1>3. Len(plan.code) \in Nat /\ run.index \in Nat /\ plan.code[run.index] \in Tokens
  BY <1>1, <1>2
<1>4. \A x \in Tokens : x.v \in Nat
  BY DEF Tokens
<1>5. QED
  BY <1>1, <1>2, <1>3, <1>4 DEF Token

\* It fits where the executor comes to it, so the next report is in order too.
LEMMA TokenApplied ==
    ASSUME TypeOK, Simulation, pc.sequence = "token"
    PROVE  /\ Apply(Token, run.hid) \in Hid /\ Sorted(Apply(Token, run.hid).keys)
           /\ Apply(Token, run.hid) = Simulated(plan.code, plan.initial)[run.index]
<1>1. At(Loop) /\ At(Unapplied) /\ Running
  BY DEF At, Loop, Unapplied, Running
<1>2. /\ plan.code \in Seq(Tokens) /\ run.index \in 1 .. Len(plan.code)
      /\ Token \in Tokens /\ (Token.op = "press" => Token.v # 0)
  BY <1>1, TokenFacts
<1>3. run.hid = Simulated(plan.code, plan.initial)[run.index - 1] /\ Sorted(run.hid.keys)
      /\ Parses(plan.code, plan.initial)
  BY <1>1 DEF Simulation
<1>4. Fits(Token, run.hid)
  BY <1>2, <1>3 DEF Parses, Token
<1>5. run.hid \in Hid
  BY DEF TypeOK, Progression
<1>6. Apply(Token, run.hid) = Simulated(plan.code, plan.initial)[run.index]
  BY <1>2, <1>3, SimulatedFacts DEF Token
<1>7. QED
  BY <1>2, <1>3, <1>4, <1>5, <1>6, AppliedFacts

\* The types of the fields.
LEMMA Fields ==
    ASSUME TypeOK
    PROVE  /\ status.gen \in Nat /\ status.owner \in Nat
           /\ plan.gen \in Nat /\ plan.seq \in Nat /\ plan.initial \in Hid /\ plan.code \in Code
           /\ rt.seq \in Nat /\ rt.confirmed \in Hid /\ rt.roles \in Roles
           /\ rt.cut \in BOOLEAN /\ rt.debt \in BOOLEAN /\ rt.barred \in BOOLEAN
           /\ ctl.gen \in Nat /\ ctl.owner \in Nat /\ ctl.code \in Code
           /\ ctl.plan \in Admission
           /\ ctl.then \in {"idle", "release", "safety"}
           /\ run.gen \in Nat /\ run.index \in Nat /\ run.hid \in Hid /\ run.delay \in Nat
           /\ run.executed \in Nat /\ run.st \in Terminals /\ run.code \in Failures
           /\ run.failed \in Nat /\ run.word \in Status
           /\ run.ret \in {"idle", "after", "report"}
           /\ run.canceled \in BOOLEAN /\ run.busy \in Nat
           /\ word.executed \in Nat /\ word.failed \in Nat /\ word.owned \in BOOLEAN
           /\ word.st \in {"accepted", "running"} \union Terminals
           /\ ghost.reports \in Nat /\ ghost.waited \in Nat /\ ghost.adopted \in Nat
           /\ ghost.owes \in BOOLEAN
<1>1. status.gen \in Nat /\ status.owner \in Nat
  BY DEF TypeOK
<1>2. /\ plan.gen \in Nat /\ plan.seq \in Nat /\ plan.initial \in Hid /\ plan.code \in Code
  BY DEF TypeOK, Admission
<1>3. /\ rt.seq \in Nat /\ rt.confirmed \in Hid /\ rt.roles \in Roles
      /\ rt.cut \in BOOLEAN /\ rt.debt \in BOOLEAN /\ rt.barred \in BOOLEAN
  BY DEF TypeOK, Runtime
<1>4. /\ ctl.gen \in Nat /\ ctl.owner \in Nat /\ ctl.code \in Code /\ ctl.plan \in Admission
      /\ ctl.then \in {"idle", "release", "safety"}
  BY DEF TypeOK, Errand
<1>5. /\ run.gen \in Nat /\ run.index \in Nat /\ run.hid \in Hid /\ run.delay \in Nat
      /\ run.executed \in Nat /\ run.st \in Terminals /\ run.code \in Failures
      /\ run.failed \in Nat /\ run.word \in Status /\ run.ret \in {"idle", "after", "report"}
      /\ run.canceled \in BOOLEAN /\ run.busy \in Nat
  BY DEF TypeOK, Progression
<1>6. /\ word.executed \in Nat /\ word.failed \in Nat /\ word.owned \in BOOLEAN
      /\ word.st \in {"accepted", "running"} \union Terminals
  BY DEF TypeOK, Status
<1>7. /\ ghost.reports \in Nat /\ ghost.waited \in Nat /\ ghost.adopted \in Nat
      /\ ghost.owes \in BOOLEAN
  BY DEF TypeOK, History
<1>8. QED
  BY <1>1, <1>2, <1>3, <1>4, <1>5, <1>6, <1>7

\* Words, and how a sequence and a session end.
LEMMA Worded ==
    \A st \in {"accepted", "running"} \union Terminals, executed \in Nat, failed \in Nat,
       code \in Failures, owned \in BOOLEAN : Word(st, executed, failed, code, owned) \in Status
BY BoundsAssumption DEF Word, Status

\* What an abort writes is a word.
LEMMA AbortedType ==
    ASSUME TypeOK PROVE \A owned \in BOOLEAN : Aborted(word, owned) \in Status
BY Fields, Worded DEF Aborted, Terminals, Failures

\* A sequence that stops notes where, and why.
LEMMA RunStopped ==
    ASSUME TypeOK, At(Loop), Simulation
    PROVE  \A st \in Terminals, code \in Failures : Stopped(st, code) \in Progression
<1>1. run.index - 1 \in Nat /\ run \in Progression
  BY TokenFacts DEF TypeOK
<1>2. QED
  BY <1>1 DEF Stopped, Progression

\* A session that ends leaves the control task an errand.
LEMMA Leaving ==
    \A o \in Nat, then \in {"idle", "release", "safety"} :
      [NoCtl EXCEPT !.owner = o, !.then = then] \in Errand
BY Blank DEF Errand

\* Every step keeps the types.
LEMMA TypeStep == TypeOK /\ Simulation /\ [Next]_vars => TypeOK'
<1> SUFFICES ASSUME TypeOK, Simulation, [Next]_vars PROVE TypeOK'
  OBVIOUS
<1> USE DEF TypeOK, ControlPoint, SequencePoint, Starting, Loop, OfControl, OfSequence, ctls,
            atomics, Rest, Goto, Task, Only
<1>1. CASE Start
  <2>1. ctl' \in Errand
    <3>1. ASSUME NEW code \in Codes, ctl' = [NoCtl EXCEPT !.gen = next, !.owner = owner, !.code = code]
          PROVE  ctl' \in Errand
      BY <3>1, Blank DEF Errand, Code
    <3>2. QED
      BY <1>1, <3>1 DEF Start
  <2>2. next' = next + 1 /\ reserved' \in {reserved, next}
    BY <1>1 DEF Start
  <2>3. pc' \in [control : ControlPoint, sequence : SequencePoint]
    BY <1>1 DEF Start
  <2>4. next' \in Nat \ {0} /\ reserved' \in Nat
    BY <2>2
  <2>5. QED
    BY <1>1, <2>1, <2>3, <2>4 DEF Start
<1>2. CASE Admit
  <2>1. rt.confirmed \in Hid /\ rt.roles \in Roles /\ ctl.gen \in Nat /\ ctl.code \in Code
    BY Fields
  <2>2. [rt EXCEPT !.seq = ctl.gen, !.cut = FALSE] \in Runtime
    BY <2>1 DEF Runtime
  <2>3. rt' \in Runtime
    BY <1>2, <2>2 DEF Admit
  <2>4. [code |-> ctl.code, initial |-> rt.confirmed, gen |-> ctl.gen, seq |-> ctl.gen,
         roles |-> rt.roles] \in Admission
    BY <2>1 DEF Admission
  <2>5. ctl' \in Errand
    BY <1>2, <2>4 DEF Admit, Errand
  <2>6. pc' \in [control : ControlPoint, sequence : SequencePoint]
    BY <1>2 DEF Admit
  <2>7. QED
    BY <1>2, <2>3, <2>5, <2>6 DEF Admit
<1>3. CASE AdmitRefused
  BY <1>3 DEF AdmitRefused
<1>4. CASE Reject
  <2>1. rt' \in Runtime
    BY <1>4 DEF Reject, EndSequence, Runtime
  <2>2. QED
    BY <1>4, <2>1 DEF Reject
<1>5. CASE Unreserve
  <2>1. ctl' \in Errand
    BY <1>5, Blank DEF Unreserve
  <2>2. reserved' \in Nat
    BY <1>5 DEF Unreserve
  <2>3. QED
    BY <1>5, <2>1, <2>2 DEF Unreserve
<1>6. CASE Plan
  <2>1. plan' \in Admission
    BY <1>6, Fields DEF Plan
  <2>2. ghost' \in History /\ cancel' \in BOOLEAN
    BY <1>6 DEF Plan, History
  <2>3. QED
    BY <1>6, <2>1, <2>2 DEF Plan
<1>7. CASE Withdraw
  BY <1>7 DEF Withdraw
<1>8. CASE Record
  <2>1. word' \in Status
    BY <1>8, Blank DEF Record
  <2>2. status' \in [gen : Nat, owner : Nat]
    BY <1>8, Fields DEF Record
  <2>3. QED
    BY <1>8, <2>1, <2>2 DEF Record
<1>9. CASE Commit
  <2>1. status' \in [gen : Nat, owner : Nat]
    BY <1>9, Fields DEF Commit
  <2>2. QED
    BY <1>9, <2>1 DEF Commit
<1>10. CASE Arm
  <2>1. ctl' \in Errand /\ notified' \in BOOLEAN
    BY <1>10, Blank DEF Arm
  <2>2. runnable' \in Nat
    BY <1>10, Fields DEF Arm
  <2>3. pc' \in [control : ControlPoint, sequence : SequencePoint]
    BY <1>10 DEF Arm
  <2>4. QED
    BY <1>10, <2>1, <2>2, <2>3 DEF Arm
<1>11. CASE Release
  <2>1. ctl' \in Errand
    <3>1. [NoCtl EXCEPT !.gen = reserved, !.then = "release"] \in Errand
      BY Blank DEF Errand
    <3>2. QED
      BY <1>11, <3>1 DEF Release
  <2>2. ghost' \in History
    <3>1. next - 1 \in Nat
      OBVIOUS
    <3>2. QED
      BY <1>11, <3>1 DEF Release, History
  <2>3. cancel' \in BOOLEAN
    BY <1>11 DEF Release
  <2>4. pc' \in [control : ControlPoint, sequence : SequencePoint]
    BY <1>11 DEF Release
  <2>5. QED
    BY <1>11, <2>1, <2>2, <2>3, <2>4 DEF Release
<1>12. CASE Adopt
  <2>1. word' \in Status
    BY <1>12, AbortedType DEF Adopt
  <2>2. ghost' \in History
    BY <1>12, Fields DEF Adopt, History
  <2>3. pc' \in [control : ControlPoint, sequence : SequencePoint]
    BY <1>12 DEF Adopt
  <2>4. QED
    BY <1>12, <2>1, <2>2, <2>3 DEF Adopt
<1>13. CASE Adopted
  <2>1. canceled' \in Nat
    BY <1>13, Fields DEF Adopted
  <2>2. QED
    BY <1>13, <2>1 DEF Adopted
<1>14. CASE AbortCheck
  <2>1. ctl' \in Errand
    BY <1>14, Blank DEF AbortCheck, Rested
  <2>2. pc' \in [control : ControlPoint, sequence : SequencePoint]
    BY <1>14, Fields DEF AbortCheck
  <2>3. QED
    BY <1>14, <2>1, <2>2 DEF AbortCheck
<1>15. CASE Cancel
  <2>1. canceled' \in Nat
    BY <1>15, Fields DEF Cancel
  <2>2. QED
    BY <1>15, <2>1 DEF Cancel
<1>16. CASE Recheck
  <2>1. ctl' \in Errand
    BY <1>16, Blank DEF Recheck, Rested
  <2>2. pc' \in [control : ControlPoint, sequence : SequencePoint]
    BY <1>16, Fields DEF Recheck
  <2>3. QED
    BY <1>16, <2>1, <2>2 DEF Recheck
<1>17. CASE Revoke
  <2>1. rt' \in Runtime
    BY <1>17 DEF Revoke, Runtime
  <2>2. QED
    BY <1>17, <2>1 DEF Revoke
<1>18. CASE Strike
  <2>1. word' \in Status
    BY <1>18, AbortedType DEF Strike
  <2>2. QED
    BY <1>18, <2>1 DEF Strike
<1>19. CASE Stop
  <2>1. ctl' \in Errand
    BY <1>19, Blank DEF Stop, Rested
  <2>2. pc' \in [control : ControlPoint, sequence : SequencePoint]
    BY <1>19, Fields DEF Stop
  <2>3. QED
    BY <1>19, <2>1, <2>2 DEF Stop
<1>20. CASE Safety
  <2>1. ctl' \in Errand
    BY <1>20, Blank DEF Safety, Rested
  <2>2. rt' \in Runtime
    BY <1>20 DEF Safety, Requested, Runtime
  <2>3. ghost' \in History
    BY <1>20 DEF Safety, History
  <2>4. QED
    BY <1>20, <2>1, <2>2, <2>3 DEF Safety
<1>21. CASE ReleaseAll
  <2>1. ctl' \in Errand /\ ghost' \in History
    BY <1>21, Blank DEF ReleaseAll, History
  <2>2. pc' \in [control : ControlPoint, sequence : SequencePoint]
    BY <1>21 DEF ReleaseAll
  <2>3. rt' \in Runtime
    <3>1. CASE rt' = [rt EXCEPT !.seq = 0, !.cut = TRUE, !.barred = TRUE]
      BY <3>1 DEF Runtime
    <3>2. ASSUME NEW debt \in BOOLEAN, NEW confirmed \in Hid,
                 rt' = [rt EXCEPT !.barred = FALSE, !.debt = debt, !.confirmed = confirmed]
          PROVE  rt' \in Runtime
      BY <3>2 DEF Runtime
    <3>3. CASE pc.control = "released"
      <4>1. PICK up \in BOOLEAN :
              rt' = [rt EXCEPT !.barred = FALSE, !.debt = rt.debt \/ ~up,
                               !.confirmed = IF up THEN Up ELSE rt.confirmed]
        BY <1>21, <3>3 DEF ReleaseAll
      <4>2. (rt.debt \/ ~up) \in BOOLEAN
        BY Fields
      <4>3. (IF up THEN Up ELSE rt.confirmed) \in Hid
        BY Blank, Fields
      <4>4. QED
        BY <3>2, <4>1, <4>2, <4>3
    <3>4. QED
      BY <1>21, <3>1, <3>3 DEF ReleaseAll
  <2>4. QED
    BY <1>21, <2>1, <2>2, <2>3 DEF ReleaseAll
<1>22. CASE Hello
  BY <1>22 DEF Hello
<1>23. CASE TakeOver
  <2>1. ctl' \in Errand
    BY <1>23, Leaving DEF TakeOver, Leave
  <2>2. owner' \in Nat /\ owners' \in Nat
    BY <1>23 DEF TakeOver, Leave
  <2>3. pc' \in [control : ControlPoint, sequence : SequencePoint]
    BY <1>23 DEF TakeOver, Leave
  <2>4. QED
    BY <1>23, <2>1, <2>2, <2>3 DEF TakeOver, Leave
<1>24. CASE LeaseExpires
  <2>1. ctl' \in Errand
    BY <1>24, Leaving DEF LeaseExpires, Leave
  <2>2. owner' \in Nat /\ owners' \in Nat
    BY <1>24 DEF LeaseExpires, Leave
  <2>3. pc' \in [control : ControlPoint, sequence : SequencePoint]
    BY <1>24 DEF LeaseExpires, Leave
  <2>4. QED
    BY <1>24, <2>1, <2>2, <2>3 DEF LeaseExpires, Leave
<1>25. CASE Invalidated
  <2>1. ctl' \in Errand
    BY <1>25, Leaving DEF Invalidated, Leave
  <2>2. owner' \in Nat /\ owners' \in Nat
    BY <1>25 DEF Invalidated, Leave
  <2>3. pc' \in [control : ControlPoint, sequence : SequencePoint]
    BY <1>25 DEF Invalidated, Leave
  <2>4. QED
    BY <1>25, <2>1, <2>2, <2>3 DEF Invalidated, Leave
<1>26. CASE SafetyFailure
  <2>1. PICK source \in 1 .. owners :
          Leave(source, IF source = owner THEN 0 ELSE owner,
                IF owner \in {0, source} THEN "safety" ELSE "idle") /\ UNCHANGED owners
    BY <1>26 DEF SafetyFailure
  <2>2. source \in Nat
    OBVIOUS
  <2>3. ctl' \in Errand
    BY <2>1, <2>2, Leaving DEF Leave
  <2>4. QED
    BY <2>1, <2>2, <2>3 DEF Leave
<1>27. CASE RetireOwner
  <2>1. ctl' \in Errand
    BY <1>27, Blank, Fields DEF RetireOwner, Rested, Errand
  <2>2. status' \in [gen : Nat, owner : Nat]
    BY <1>27, Fields DEF RetireOwner
  <2>3. pc' \in [control : ControlPoint, sequence : SequencePoint]
    BY <1>27, Fields DEF RetireOwner
  <2>4. QED
    BY <1>27, <2>1, <2>2, <2>3 DEF RetireOwner
<1>28. CASE Wake
  <2>1. notified' \in BOOLEAN
    BY <1>28 DEF Wake
  <2>2. QED
    BY <1>28, <2>1 DEF Wake
<1>29. CASE Take
  <2>1. run' \in Progression
    BY <1>29, Blank DEF Take, Progression
  <2>2. pc' \in [control : ControlPoint, sequence : SequencePoint]
    BY <1>29 DEF Take
  <2>3. QED
    BY <1>29, <2>1, <2>2 DEF Take
<1>30. CASE Enter
  BY <1>30 DEF Enter
<1>31. CASE BeginRun
  <2>1. word' \in Status
    BY <1>31, Blank DEF BeginRun
  <2>2. run' \in Progression
    BY <1>31, Fields DEF BeginRun, Progression
  <2>3. QED
    BY <1>31, <2>1, <2>2 DEF BeginRun
<1>32. CASE Refused
  BY <1>32 DEF Refused
<1>33. CASE Check("check")
  <2>1. Canceled \in BOOLEAN
    BY <1>33 DEF Canceled
  <2>2. run' \in Progression
    BY <1>33, <2>1 DEF Check, Progression
  <2>3. QED
    BY <1>33, <2>1, <2>2 DEF Check
<1>34. CASE Authority("authority", "token")
  <2>1. At(Loop)
    BY <1>34 DEF Authority, At
  <2>2. run' \in Progression
    BY <1>34, <2>1, RunStopped DEF Authority, Failures, Terminals
  <2>3. pc' \in [control : ControlPoint, sequence : SequencePoint]
    BY <1>34 DEF Authority
  <2>4. QED
    BY <1>34, <2>1, <2>2, <2>3 DEF Authority
<1>35. CASE pc.sequence = "token" /\ Execute
  <2>1. Token.v \in Nat /\ Apply(Token, run.hid) \in Hid
    BY <1>35, TokenFacts, TokenApplied DEF At
  <2>2. run' \in Progression
    <3>1. [run EXCEPT !.delay = Token.v] \in Progression
          /\ [run EXCEPT !.ret = "after"] \in Progression
      BY <2>1 DEF Progression
    <3>2. [run EXCEPT !.hid = Apply(Token, run.hid), !.code = "none"] \in Progression
      BY <2>1 DEF Progression, Failures
    <3>3. run' \in {run, [run EXCEPT !.delay = Token.v], [run EXCEPT !.ret = "after"],
                    [run EXCEPT !.hid = Apply(Token, run.hid), !.code = "none"]}
      BY <1>35 DEF Execute
    <3>4. QED
      BY <3>1, <3>2, <3>3
  <2>3. pc' \in [control : ControlPoint, sequence : SequencePoint]
    BY <1>35 DEF Execute
  <2>4. QED
    BY <1>35, <2>2, <2>3 DEF Execute
<1>36. CASE Report
  <2>1. run' \in Progression
    <3>1. \A code \in Failures : Failed(code) \in Progression
      BY DEF Failed, Progression
    <3>2. [run EXCEPT !.ret = "after", !.busy = 0] \in Progression
          /\ [run EXCEPT !.busy = run.busy + 1, !.ret = "report"] \in Progression
      <4>1. run.busy + 1 \in Nat
        BY Fields
      <4>2. QED
        BY <4>1 DEF Progression
    <3>3. \/ \E code \in Failures : run' = Failed(code)
          \/ run' = [run EXCEPT !.ret = "after", !.busy = 0]
          \/ run' = [run EXCEPT !.busy = run.busy + 1, !.ret = "report"]
      BY <1>36 DEF Report, Answered, Failures
    <3>4. QED
      BY <3>1, <3>2, <3>3
  <2>2. rt' \in Runtime
    <3>1. [rt EXCEPT !.confirmed = run.hid] \in Runtime
      BY Fields DEF Runtime
    <3>2. QED
      BY <1>36, <3>1 DEF Report, Accepted, Answered
  <2>3. ghost' \in History
    <3>1. [ghost EXCEPT !.owes = TRUE, !.reports = ghost.reports + 1] \in History
      <4>1. ghost.reports + 1 \in Nat
        BY Fields
      <4>2. QED
        BY <4>1 DEF History
    <3>2. QED
      BY <1>36, <3>1 DEF Report, Accepted, Answered
  <2>4. pc' \in [control : ControlPoint, sequence : SequencePoint]
    BY <1>36 DEF Report, Accepted, Answered
  <2>5. QED
    BY <1>36, <2>1, <2>2, <2>3, <2>4 DEF Report, Accepted, Answered
<1>37. CASE Wait
  <2>1. Token.v \in Nat /\ run.ret \in {"idle", "after", "report"}
    BY <1>37, TokenFacts, Fields DEF Wait, At
  <2>2. ghost' \in History
    BY <1>37, <2>1, Fields DEF Wait, History
  <2>3. pc' \in [control : ControlPoint, sequence : SequencePoint]
    BY <1>37, <2>1 DEF Wait
  <2>4. QED
    BY <1>37, <2>2, <2>3 DEF Wait
<1>38. CASE Incomplete
  <2>1. At(Loop) /\ Canceled \in BOOLEAN /\ run.code \in Failures
    BY <1>38, Fields DEF Incomplete, At, Canceled
  <2>2. [run EXCEPT !.canceled = Canceled] \in Progression
    BY <1>38, <2>1 DEF Progression
  <2>3. run' \in Progression
    BY <1>38, <2>1, <2>2, RunStopped DEF Incomplete, Failures, Terminals
  <2>4. pc' \in [control : ControlPoint, sequence : SequencePoint]
    BY <1>38 DEF Incomplete
  <2>5. QED
    BY <1>38, <2>1, <2>2, <2>3, <2>4 DEF Incomplete
<1>39. CASE Check("after")
  <2>1. Canceled \in BOOLEAN
    BY <1>39 DEF Canceled
  <2>2. run' \in Progression
    BY <1>39, <2>1 DEF Check, Progression
  <2>3. QED
    BY <1>39, <2>1, <2>2 DEF Check
<1>40. CASE Authority("authorityAfter", "progress")
  <2>1. At(Loop)
    BY <1>40 DEF Authority, At
  <2>2. run' \in Progression
    BY <1>40, <2>1, RunStopped DEF Authority, Failures, Terminals
  <2>3. pc' \in [control : ControlPoint, sequence : SequencePoint]
    BY <1>40 DEF Authority
  <2>4. QED
    BY <1>40, <2>1, <2>2, <2>3 DEF Authority
<1>41. CASE Progress
  <2>1. run' \in Progression
    BY <1>41, Fields DEF Progress, Progression
  <2>2. pc' \in [control : ControlPoint, sequence : SequencePoint]
    BY <1>41 DEF Progress
  <2>3. QED
    BY <1>41, <2>1, <2>2 DEF Progress
<1>42. CASE Publish
  <2>1. run.executed \in Nat /\ run.index \in Nat
    BY <1>42, Fields
  <2>2. [run EXCEPT !.index = run.index + 1] \in Progression
    BY <1>42, <2>1 DEF Progression
  <2>3. run' \in Progression
    BY <1>42, <2>2 DEF Publish
  <2>4. word' \in Status
    BY <1>42, <2>1, Blank DEF Publish
  <2>5. pc' \in [control : ControlPoint, sequence : SequencePoint]
    BY <1>42 DEF Publish
  <2>6. QED
    BY <1>42, <2>1, <2>2, <2>3, <2>4, <2>5 DEF Publish
<1>43. CASE Complete
  <2>1. Plain("completed", run.executed) \in Status
    BY <1>43, Fields, Blank DEF Terminals
  <2>2. word' \in Status
    BY <1>43, <2>1 DEF Complete, Claim, ClaimCheck, ClaimWord
  <2>3. pc' \in [control : ControlPoint, sequence : SequencePoint]
    BY <1>43 DEF Complete, Claim, ClaimCheck, ClaimWord
  <2>4. QED
    BY <1>43, <2>1, <2>2, <2>3 DEF Complete, Claim, ClaimCheck
<1>44. CASE Final
  <2>1. run.st \in Terminals /\ run.executed \in Nat /\ run.failed \in Nat
        /\ run.code \in Failures
    BY <1>44, Fields
  <2>2. Word(run.st, run.executed, IF Failure THEN run.failed ELSE 0,
             IF Failure THEN run.code ELSE "none", FALSE) \in Status
    BY <1>44, <2>1, Worded DEF Failures
  <2>3. word' \in Status
    BY <1>44, <2>2 DEF Final, Claim, ClaimCheck, ClaimWord
  <2>4. pc' \in [control : ControlPoint, sequence : SequencePoint]
    BY <1>44 DEF Final, Claim, ClaimCheck, ClaimWord
  <2>5. QED
    BY <1>44, <2>1, <2>2, <2>3, <2>4 DEF Final, Claim, ClaimCheck
<1>45. CASE Decide
  BY <1>45 DEF Decide
<1>46. CASE Clean
  <2>1. rt' \in Runtime
    BY <1>46 DEF Clean, Requested, Runtime
  <2>2. ghost' \in History
    BY <1>46 DEF Clean, History
  <2>3. QED
    BY <1>46, <2>1, <2>2 DEF Clean
<1>47. CASE End
  <2>1. rt' \in Runtime
    BY <1>47 DEF End, EndSequence, Runtime
  <2>2. QED
    BY <1>47, <2>1 DEF End
<1>48. CASE Free
  <2>1. run' \in Progression
    BY <1>48, Blank DEF Free
  <2>2. ghost' \in History
    BY <1>48 DEF Free, History
  <2>3. reserved' \in Nat
    BY <1>48 DEF Free
  <2>4. QED
    BY <1>48, <2>1, <2>2, <2>3 DEF Free
<1>49. CASE Doze
  <2>1. notified' \in BOOLEAN
    BY <1>49 DEF Doze
  <2>2. QED
    BY <1>49, <2>1 DEF Doze
<1>50. CASE CutAuthority
  <2>1. rt' \in Runtime
    BY <1>50 DEF CutAuthority, Runtime
  <2>2. QED
    BY <1>50, <2>1 DEF CutAuthority
<1>51. CASE Settle
  <2>1. rt' \in Runtime
    BY <1>51, Blank DEF Settle, Runtime
  <2>2. QED
    BY <1>51, <2>1 DEF Settle
<1>52. CASE UNCHANGED vars
  BY <1>52 DEF vars
<1>53. QED
  BY <1>1, <1>2, <1>3, <1>4, <1>5, <1>6, <1>7, <1>8, <1>9, <1>10, <1>11, <1>12, <1>13, <1>14,
     <1>15, <1>16, <1>17, <1>18, <1>19, <1>20, <1>21, <1>22, <1>23, <1>24, <1>25, <1>26, <1>27,
     <1>28, <1>29, <1>30, <1>31, <1>32, <1>33, <1>34, <1>35, <1>36, <1>37, <1>38, <1>39, <1>40,
     <1>41, <1>42, <1>43, <1>44, <1>45, <1>46, <1>47, <1>48, <1>49, <1>50, <1>51, <1>52
     DEF Next, Control, Run

\* The reservation, the plan and the authority are of one sequence at a time.
Ownership ==
    /\ reserved < next
    /\ In(Starting) => reserved = ctl.gen /\ ctl.gen # 0 /\ ~Running /\ runnable = 0
    /\ Running => run.gen # 0 /\ reserved = run.gen /\ plan.gen = run.gen /\ runnable = 0
    /\ runnable # 0 => reserved = runnable /\ plan.gen = runnable
    /\ rt.seq # 0 => reserved = rt.seq
    /\ In({"begin", "unreserve"}) \/ At({"free"}) => rt.seq = 0
    /\ plan.seq = plan.gen /\ ctl.plan.seq = ctl.plan.gen
    /\ In({"reject", "plan"}) => ctl.plan.gen = ctl.gen
    /\ In(Planned) => plan.gen = ctl.gen

\* Whoever holds the reservation is at work or will be woken.
Awaited ==
    /\ reserved # 0 => In(Starting) \/ Running \/ runnable # 0
    /\ runnable # 0 => In({"armed"}) \/ notified \/ At({"take"})

-----------------------------------------------------------------------------
(* What the executor's loop leaves alone, and what a task does alone.      *)

LoopStep ==
    \/ Check("check") \/ Authority("authority", "token")
    \/ pc.sequence = "token" /\ Execute
    \/ Report \/ Wait \/ Incomplete
    \/ Check("after") \/ Authority("authorityAfter", "progress")
    \/ Progress \/ Publish \/ Complete \/ Final

\* A step of the executor's loop leaves the control task, the plan and the record's
\* generation alone.
LEMMA LoopFacts ==
    ASSUME TypeOK, Simulation, LoopStep
    PROVE  /\ pc.sequence \in Loop /\ pc'.sequence \in Loop \union {"decide"}
           /\ pc'.control = pc.control
           /\ UNCHANGED <<next, reserved, runnable, canceled, cancel, status, plan, notified, owner,
                          owners, ctl>>
           /\ run'.gen = run.gen /\ rt'.seq = rt.seq /\ ghost'.adopted = ghost.adopted
<1>0. pc \in [control : ControlPoint, sequence : SequencePoint]
  BY DEF TypeOK
<1>1. run \in Progression /\ rt \in Runtime /\ ghost \in History
  BY DEF TypeOK
<1> USE DEF Goto, Task, Only, Loop, OfSequence, ctls
<1>2. CASE Check("check")
  <2>1. /\ pc.sequence \in Loop /\ pc'.sequence \in Loop \union {"decide"}
        /\ pc'.control = pc.control
        /\ UNCHANGED <<next, reserved, runnable, canceled, cancel, status, plan, notified, owner,
                       owners, ctl>>
    BY <1>0, <1>2 DEF Check
  <2>2. run'.gen = run.gen
    BY <1>1, <1>2 DEF Check, Progression
  <2>3. rt'.seq = rt.seq /\ ghost'.adopted = ghost.adopted
    BY <1>1, <1>2 DEF Check, Runtime, History
  <2>4. QED
    BY <2>1, <2>2, <2>3
<1>3. CASE Authority("authority", "token")
  <2>1. /\ pc.sequence \in Loop /\ pc'.sequence \in Loop \union {"decide"}
        /\ pc'.control = pc.control
        /\ UNCHANGED <<next, reserved, runnable, canceled, cancel, status, plan, notified, owner,
                       owners, ctl>>
    BY <1>0, <1>3 DEF Authority, Stopped
  <2>2. run'.gen = run.gen
    BY <1>1, <1>3 DEF Authority, Stopped, Progression
  <2>3. rt'.seq = rt.seq /\ ghost'.adopted = ghost.adopted
    BY <1>1, <1>3 DEF Authority, Stopped, Runtime, History
  <2>4. QED
    BY <2>1, <2>2, <2>3
<1>4. CASE pc.sequence = "token" /\ Execute
  <2>1. /\ pc.sequence \in Loop /\ pc'.sequence \in Loop \union {"decide"}
        /\ pc'.control = pc.control
        /\ UNCHANGED <<next, reserved, runnable, canceled, cancel, status, plan, notified, owner,
                       owners, ctl>>
    BY <1>0, <1>4 DEF Execute
  <2>2. run'.gen = run.gen
    BY <1>1, <1>4 DEF Execute, Progression
  <2>3. rt'.seq = rt.seq /\ ghost'.adopted = ghost.adopted
    BY <1>1, <1>4 DEF Execute, Runtime, History
  <2>4. QED
    BY <2>1, <2>2, <2>3
<1>5. CASE Report
  <2>1. /\ pc.sequence \in Loop /\ pc'.sequence \in Loop \union {"decide"}
        /\ pc'.control = pc.control
        /\ UNCHANGED <<next, reserved, runnable, canceled, cancel, status, plan, notified, owner,
                       owners, ctl>>
    BY <1>0, <1>5 DEF Report, Accepted, Answered, Failed
  <2>2. run'.gen = run.gen
    BY <1>1, <1>5 DEF Report, Accepted, Answered, Failed, Progression
  <2>3. rt'.seq = rt.seq /\ ghost'.adopted = ghost.adopted
    BY <1>1, <1>5 DEF Report, Accepted, Answered, Failed, Runtime, History
  <2>4. QED
    BY <2>1, <2>2, <2>3
<1>6. CASE Wait
  <2>1. /\ pc.sequence \in Loop /\ pc'.sequence \in Loop \union {"decide"}
        /\ pc'.control = pc.control
        /\ UNCHANGED <<next, reserved, runnable, canceled, cancel, status, plan, notified, owner,
                       owners, ctl>>
    BY <1>0, <1>6, Fields DEF Wait, Simulation, At
  <2>2. run'.gen = run.gen
    BY <1>1, <1>6 DEF Wait, Progression
  <2>3. rt'.seq = rt.seq /\ ghost'.adopted = ghost.adopted
    BY <1>1, <1>6 DEF Wait, Runtime, History
  <2>4. QED
    BY <2>1, <2>2, <2>3
<1>7. CASE Incomplete
  <2>1. /\ pc.sequence \in Loop /\ pc'.sequence \in Loop \union {"decide"}
        /\ pc'.control = pc.control
        /\ UNCHANGED <<next, reserved, runnable, canceled, cancel, status, plan, notified, owner,
                       owners, ctl>>
    BY <1>0, <1>7 DEF Incomplete, Stopped
  <2>2. run'.gen = run.gen
    BY <1>1, <1>7 DEF Incomplete, Stopped, Progression
  <2>3. rt'.seq = rt.seq /\ ghost'.adopted = ghost.adopted
    BY <1>1, <1>7 DEF Incomplete, Stopped, Runtime, History
  <2>4. QED
    BY <2>1, <2>2, <2>3
<1>8. CASE Check("after")
  <2>1. /\ pc.sequence \in Loop /\ pc'.sequence \in Loop \union {"decide"}
        /\ pc'.control = pc.control
        /\ UNCHANGED <<next, reserved, runnable, canceled, cancel, status, plan, notified, owner,
                       owners, ctl>>
    BY <1>0, <1>8 DEF Check
  <2>2. run'.gen = run.gen
    BY <1>1, <1>8 DEF Check, Progression
  <2>3. rt'.seq = rt.seq /\ ghost'.adopted = ghost.adopted
    BY <1>1, <1>8 DEF Check, Runtime, History
  <2>4. QED
    BY <2>1, <2>2, <2>3
<1>9. CASE Authority("authorityAfter", "progress")
  <2>1. /\ pc.sequence \in Loop /\ pc'.sequence \in Loop \union {"decide"}
        /\ pc'.control = pc.control
        /\ UNCHANGED <<next, reserved, runnable, canceled, cancel, status, plan, notified, owner,
                       owners, ctl>>
    BY <1>0, <1>9 DEF Authority, Stopped
  <2>2. run'.gen = run.gen
    BY <1>1, <1>9 DEF Authority, Stopped, Progression
  <2>3. rt'.seq = rt.seq /\ ghost'.adopted = ghost.adopted
    BY <1>1, <1>9 DEF Authority, Stopped, Runtime, History
  <2>4. QED
    BY <2>1, <2>2, <2>3
<1>10. CASE Progress
  <2>1. /\ pc.sequence \in Loop /\ pc'.sequence \in Loop \union {"decide"}
        /\ pc'.control = pc.control
        /\ UNCHANGED <<next, reserved, runnable, canceled, cancel, status, plan, notified, owner,
                       owners, ctl>>
    BY <1>0, <1>10 DEF Progress
  <2>2. run'.gen = run.gen
    BY <1>1, <1>10 DEF Progress, Progression
  <2>3. rt'.seq = rt.seq /\ ghost'.adopted = ghost.adopted
    BY <1>1, <1>10 DEF Progress, Runtime, History
  <2>4. QED
    BY <2>1, <2>2, <2>3
<1>11. CASE Publish
  <2>1. /\ pc.sequence \in Loop /\ pc'.sequence \in Loop \union {"decide"}
        /\ pc'.control = pc.control
        /\ UNCHANGED <<next, reserved, runnable, canceled, cancel, status, plan, notified, owner,
                       owners, ctl>>
    BY <1>0, <1>11 DEF Publish
  <2>2. run'.gen = run.gen
    BY <1>1, <1>11 DEF Publish, Progression
  <2>3. rt'.seq = rt.seq /\ ghost'.adopted = ghost.adopted
    BY <1>1, <1>11 DEF Publish, Runtime, History
  <2>4. QED
    BY <2>1, <2>2, <2>3
<1>12. CASE Complete
  <2>1. /\ pc.sequence \in Loop /\ pc'.sequence \in Loop \union {"decide"}
        /\ pc'.control = pc.control
        /\ UNCHANGED <<next, reserved, runnable, canceled, cancel, status, plan, notified, owner,
                       owners, ctl>>
    BY <1>0, <1>12 DEF Complete, Claim, ClaimCheck, ClaimWord
  <2>2. run'.gen = run.gen
    BY <1>1, <1>12 DEF Complete, Claim, ClaimCheck, ClaimWord, Progression
  <2>3. rt'.seq = rt.seq /\ ghost'.adopted = ghost.adopted
    BY <1>1, <1>12 DEF Complete, Claim, ClaimCheck, ClaimWord, Runtime, History
  <2>4. QED
    BY <2>1, <2>2, <2>3
<1>13. CASE Final
  <2>1. /\ pc.sequence \in Loop /\ pc'.sequence \in Loop \union {"decide"}
        /\ pc'.control = pc.control
        /\ UNCHANGED <<next, reserved, runnable, canceled, cancel, status, plan, notified, owner,
                       owners, ctl>>
    BY <1>0, <1>13 DEF Final, Claim, ClaimCheck, ClaimWord
  <2>2. run'.gen = run.gen
    BY <1>1, <1>13 DEF Final, Claim, ClaimCheck, ClaimWord, Progression
  <2>3. rt'.seq = rt.seq /\ ghost'.adopted = ghost.adopted
    BY <1>1, <1>13 DEF Final, Claim, ClaimCheck, ClaimWord, Runtime, History
  <2>4. QED
    BY <2>1, <2>2, <2>3
<1>14. QED
  BY <1>2, <1>3, <1>4, <1>5, <1>6, <1>7, <1>8, <1>9, <1>10, <1>11, <1>12, <1>13 DEF LoopStep

\* The fields records have.
LEMMA Records ==
    TypeOK => /\ DOMAIN ctl = {"gen", "owner", "code", "then", "ok", "plan"}
              /\ DOMAIN rt = {"seq", "cut", "debt", "barred", "confirmed", "roles"}
              /\ DOMAIN run = {"gen", "index", "hid", "delay", "executed", "st", "code", "failed",
                                "canceled", "busy", "ret", "word"}
              /\ DOMAIN ghost = {"owes", "reports", "waited", "adopted"}
              /\ DOMAIN status = {"gen", "owner"}
BY DEF TypeOK, Errand, Runtime, Progression, History

\* One generation at a time: Start takes the reservation, Free and Unreserve give
\* it back, and what lies between passes it on.
LEMMA OwnershipStep == TypeOK /\ Simulation /\ Ownership /\ [Next]_vars => Ownership'
<1> SUFFICES ASSUME TypeOK, Simulation, Ownership, [Next]_vars PROVE Ownership'
  OBVIOUS
<1>0. /\ pc \in [control : ControlPoint, sequence : SequencePoint]
      /\ next \in Nat /\ reserved \in Nat /\ runnable \in Nat
  BY DEF TypeOK
<1> USE <1>0, Fields DEF Ownership, In, At, Running, Planned, ControlPoint, SequencePoint,
   Starting, Loop, OfControl, OfSequence, ctls,
            atomics, Rest, Goto, Task, Only
<1>1. CASE Start
  <2>1. next' = next + 1 /\ UNCHANGED <<runnable, plan, rt, run>> /\ pc'.sequence = pc.sequence
    BY <1>1 DEF Start
  <2>2. CASE reserved # 0
    <3>1. UNCHANGED <<reserved, ctl, pc>>
      BY <1>1, <2>2 DEF Start
    <3>2. QED
      BY <2>1, <3>1
  <2>3. CASE reserved = 0
    <3>1. /\ reserved' = next /\ pc'.control = "begin" /\ ctl'.gen = next /\ ctl'.plan = NoPlan
      BY <1>1, <2>3 DEF Start, NoCtl
    <3>2. NoPlan.seq = NoPlan.gen
      BY DEF NoPlan
    <3>3. runnable = 0 /\ rt.seq = 0 /\ ~Running /\ next # 0
      BY <2>3
    <3>4. QED
      BY <2>1, <2>3, <3>1, <3>2, <3>3
  <2>4. QED
    BY <2>2, <2>3
<1>2. CASE Admit
  <2>1. UNCHANGED <<next, reserved, runnable, plan, run>> /\ pc'.sequence = pc.sequence
        /\ ctl'.gen = ctl.gen
    BY <1>2, Records DEF Admit
  <2>2. CASE pc'.control = "unreserve" /\ UNCHANGED <<rt, ctl>>
    BY <1>2, <2>1, <2>2 DEF Admit
  <2>3. CASE pc'.control # "unreserve"
    <3>1. pc'.control \in {"plan", "reject"} /\ rt'.seq = ctl.gen
      <4>1. pc'.control \in {"plan", "reject"}
        BY <1>2, <2>3 DEF Admit
      <4>2. rt' = [rt EXCEPT !.seq = ctl.gen, !.cut = FALSE]
        BY <1>2, <2>3 DEF Admit
      <4>3. QED
        BY <4>1, <4>2, Records
    <3>2. ctl'.plan.gen = ctl.gen /\ ctl'.plan.seq = ctl.gen
      BY <1>2, <2>3, Records DEF Admit
    <3>3. pc.control = "begin"
      BY <1>2 DEF Admit
    <3>4. QED
      BY <2>1, <3>1, <3>2, <3>3
  <2>4. QED
    BY <1>2, <2>2, <2>3 DEF Admit
<1>3. CASE AdmitRefused
  BY <1>3 DEF AdmitRefused
<1>4. CASE Reject
  BY <1>4 DEF Reject, EndSequence
<1>5. CASE Unreserve
  <2>1. /\ pc.control = "unreserve" /\ pc'.control = "idle" /\ pc'.sequence = pc.sequence
        /\ ctl' = NoCtl /\ reserved' = 0 /\ UNCHANGED <<next, runnable, plan, rt, run>>
    BY <1>5 DEF Unreserve
  <2>2. NoCtl.plan.seq = NoCtl.plan.gen /\ rt.seq = 0 /\ ~Running /\ runnable = 0 /\ next # 0
    BY <2>1 DEF NoCtl, NoPlan
  <2>3. QED
    BY <2>1, <2>2
<1>6. CASE Plan
  BY <1>6 DEF Plan
<1>7. CASE Withdraw
  BY <1>7 DEF Withdraw
<1>8. CASE Record
  BY <1>8 DEF Record
<1>9. CASE Commit
  BY <1>9 DEF Commit
<1>10. CASE Arm
  <2>1. UNCHANGED <<next, reserved, plan, rt, run>> /\ pc'.sequence = pc.sequence
    BY <1>10 DEF Arm
  <2>2. CASE pc.control = "arm"
    <3>1. pc'.control = "armed" /\ runnable' = ctl.gen /\ UNCHANGED ctl
      BY <1>10, <2>2 DEF Arm
    <3>2. QED
      BY <2>1, <2>2, <3>1
  <2>3. CASE pc.control # "arm"
    <3>1. pc'.control = "idle" /\ UNCHANGED runnable /\ ctl' = NoCtl
      BY <1>10, <2>3 DEF Arm
    <3>2. QED
      BY <2>1, <2>3, <3>1 DEF NoCtl, NoPlan
  <2>4. QED
    BY <2>2, <2>3
<1>11. CASE Release
  <2>1. UNCHANGED <<next, reserved, runnable, plan, rt, run>> /\ pc'.sequence = pc.sequence
    BY <1>11 DEF Release
  <2>2. pc'.control \notin Starting /\ (ctl'.plan = NoPlan \/ ctl' = ctl)
    <3>1. pc'.control \notin Starting
      BY <1>11 DEF Release
    <3>2. ctl' = ctl \/ ctl' = [NoCtl EXCEPT !.gen = reserved, !.then = "release"]
      BY <1>11 DEF Release
    <3>3. [NoCtl EXCEPT !.gen = reserved, !.then = "release"].plan = NoPlan
      BY DEF NoCtl
    <3>4. QED
      BY <3>1, <3>2, <3>3
  <2>3. NoPlan.seq = NoPlan.gen
    BY DEF NoPlan
  <2>4. QED
    BY <2>1, <2>2, <2>3
<1>12. CASE Adopt
  BY <1>12 DEF Adopt
<1>13. CASE Adopted
  BY <1>13 DEF Adopted
<1>14. CASE AbortCheck
  BY <1>14 DEF AbortCheck, Rested, NoCtl, NoPlan
<1>15. CASE Cancel
  BY <1>15 DEF Cancel
<1>16. CASE Recheck
  BY <1>16 DEF Recheck, Rested, NoCtl, NoPlan
<1>17. CASE Revoke
  BY <1>17 DEF Revoke
<1>18. CASE Strike
  BY <1>18 DEF Strike
<1>19. CASE Stop
  BY <1>19 DEF Stop, Rested, NoCtl, NoPlan
<1>20. CASE Safety
  BY <1>20 DEF Safety, Requested, Rested, NoCtl, NoPlan
<1>21. CASE ReleaseAll
  <2>1. UNCHANGED <<next, reserved, runnable, plan, run>> /\ pc'.sequence = pc.sequence
    BY <1>21 DEF ReleaseAll
  <2>2. CASE pc.control = "release"
    <3>1. pc'.control = "released" /\ ctl' = ctl /\ rt'.seq = 0
      BY <1>21, <2>2, Records DEF ReleaseAll
    <3>2. QED
      BY <2>1, <3>1
  <2>3. CASE pc.control # "release"
    <3>1. pc'.control = "idle" /\ ctl' = NoCtl
      BY <1>21, <2>3 DEF ReleaseAll
    <3>2. rt'.seq = rt.seq
      BY <1>21, <2>3, Records DEF ReleaseAll
    <3>3. NoCtl.plan.seq = NoCtl.plan.gen
      BY DEF NoCtl, NoPlan
    <3>4. QED
      BY <2>1, <3>1, <3>2, <3>3
  <2>4. QED
    BY <2>2, <2>3
<1>22. CASE Hello
  BY <1>22 DEF Hello
<1>23. CASE TakeOver
  <2>1. UNCHANGED <<next, reserved, runnable, plan, rt, run>> /\ pc'.sequence = pc.sequence
    BY <1>23 DEF TakeOver, Leave
  <2>2. pc'.control \notin Starting /\ (ctl'.plan = NoPlan \/ ctl' = ctl)
    BY <1>23 DEF TakeOver, Leave, NoCtl
  <2>3. NoPlan.seq = NoPlan.gen
    BY DEF NoPlan
  <2>4. QED
    BY <2>1, <2>2, <2>3
<1>24. CASE LeaseExpires
  BY <1>24 DEF LeaseExpires, Leave, NoCtl, NoPlan
<1>25. CASE Invalidated
  BY <1>25 DEF Invalidated, Leave, NoCtl, NoPlan
<1>26. CASE SafetyFailure
  BY <1>26 DEF SafetyFailure, Leave, NoCtl, NoPlan
<1>27. CASE RetireOwner
  <2>1. UNCHANGED <<next, reserved, runnable, plan, rt, run>> /\ pc'.sequence = pc.sequence
    BY <1>27 DEF RetireOwner
  <2>2. pc'.control \notin Starting
    BY <1>27 DEF RetireOwner
  <2>3. ctl'.plan = NoPlan \/ ctl'.plan = ctl.plan
    <3>1. ctl' = NoCtl \/ ctl' = ctl \/ ctl' = [ctl EXCEPT !.gen = status.gen]
      BY <1>27 DEF RetireOwner, Rested
    <3>2. NoCtl.plan = NoPlan
      BY DEF NoCtl
    <3>3. QED
      BY <3>1, <3>2, Records
  <2>4. NoPlan.seq = NoPlan.gen
    BY DEF NoPlan
  <2>5. QED
    BY <2>1, <2>2, <2>3, <2>4
<1>28. CASE Wake
  BY <1>28 DEF Wake
<1>29. CASE Take
  BY <1>29 DEF Take
<1>30. CASE Enter
  BY <1>30 DEF Enter
<1>31. CASE BeginRun
  BY <1>31 DEF BeginRun
<1>32. CASE Refused
  BY <1>32 DEF Refused
<1>33. CASE LoopStep
  BY <1>33, LoopFacts
<1>34. CASE Decide
  BY <1>34 DEF Decide
<1>35. CASE Clean
  BY <1>35 DEF Clean, Requested
<1>36. CASE End
  BY <1>36 DEF End, EndSequence
<1>37. CASE Free
  BY <1>37 DEF Free
<1>38. CASE Doze
  BY <1>38 DEF Doze
<1>39. CASE CutAuthority
  BY <1>39 DEF CutAuthority
<1>40. CASE Settle
  BY <1>40 DEF Settle
<1>41. CASE UNCHANGED vars
  BY <1>41 DEF vars
<1>42. QED
  BY <1>1, <1>2, <1>3, <1>4, <1>5, <1>6, <1>7, <1>8, <1>9, <1>10, <1>11, <1>12, <1>13, <1>14,
     <1>15, <1>16, <1>17, <1>18, <1>19, <1>20, <1>21, <1>22, <1>23, <1>24, <1>25, <1>26, <1>27,
     <1>28, <1>29, <1>30, <1>31, <1>32, <1>33, <1>34, <1>35, <1>36, <1>37, <1>38, <1>39, <1>40,
     <1>41
     DEF Next, Control, Run, LoopStep

\* Whoever arms a sequence is still at work, or has notified, or the task is up.
LEMMA AwaitedStep == TypeOK /\ Simulation /\ Ownership /\ Awaited /\ [Next]_vars => Awaited'
<1> SUFFICES ASSUME TypeOK, Simulation, Ownership, Awaited, [Next]_vars PROVE Awaited'
  OBVIOUS
<1>0. /\ pc \in [control : ControlPoint, sequence : SequencePoint]
      /\ next \in Nat /\ reserved \in Nat /\ runnable \in Nat
  BY DEF TypeOK
<1> USE <1>0, Fields DEF Ownership, Awaited, In, At, Running, Planned, ControlPoint,
   SequencePoint, Starting, Loop, OfControl, OfSequence, ctls,
            atomics, Rest, Goto, Task, Only
<1>1. CASE Start
  BY <1>1 DEF Start
<1>2. CASE Admit
  BY <1>2 DEF Admit
<1>3. CASE AdmitRefused
  BY <1>3 DEF AdmitRefused
<1>4. CASE Reject
  BY <1>4 DEF Reject, EndSequence
<1>5. CASE Unreserve
  BY <1>5 DEF Unreserve
<1>6. CASE Plan
  BY <1>6 DEF Plan
<1>7. CASE Withdraw
  BY <1>7 DEF Withdraw
<1>8. CASE Record
  BY <1>8 DEF Record
<1>9. CASE Commit
  BY <1>9 DEF Commit
<1>10. CASE Arm
  BY <1>10 DEF Arm
<1>11. CASE Release
  BY <1>11 DEF Release
<1>12. CASE Adopt
  BY <1>12 DEF Adopt
<1>13. CASE Adopted
  BY <1>13 DEF Adopted
<1>14. CASE AbortCheck
  BY <1>14 DEF AbortCheck, Rested
<1>15. CASE Cancel
  BY <1>15 DEF Cancel
<1>16. CASE Recheck
  BY <1>16 DEF Recheck, Rested
<1>17. CASE Revoke
  BY <1>17 DEF Revoke
<1>18. CASE Strike
  BY <1>18 DEF Strike
<1>19. CASE Stop
  BY <1>19 DEF Stop, Rested
<1>20. CASE Safety
  BY <1>20 DEF Safety, Requested, Rested
<1>21. CASE ReleaseAll
  <2>1. pc.control \in {"release", "released"} /\ pc'.control \in {"released", "idle"}
        /\ pc'.sequence = pc.sequence /\ UNCHANGED <<next, reserved, runnable, plan, run>>
    BY <1>21 DEF ReleaseAll
  <2>2. QED
    BY <1>21, <2>1 DEF ReleaseAll
<1>22. CASE Hello
  BY <1>22 DEF Hello
<1>23. CASE TakeOver
  BY <1>23 DEF TakeOver, Leave
<1>24. CASE LeaseExpires
  BY <1>24 DEF LeaseExpires, Leave
<1>25. CASE Invalidated
  BY <1>25 DEF Invalidated, Leave
<1>26. CASE SafetyFailure
  BY <1>26 DEF SafetyFailure, Leave
<1>27. CASE RetireOwner
  BY <1>27 DEF RetireOwner, Rested
<1>28. CASE Wake
  BY <1>28 DEF Wake
<1>29. CASE Take
  BY <1>29 DEF Take
<1>30. CASE Enter
  BY <1>30 DEF Enter
<1>31. CASE BeginRun
  BY <1>31 DEF BeginRun
<1>32. CASE Refused
  BY <1>32 DEF Refused
<1>33. CASE LoopStep
  BY <1>33, LoopFacts
<1>34. CASE Decide
  BY <1>34 DEF Decide
<1>35. CASE Clean
  BY <1>35 DEF Clean, Requested
<1>36. CASE End
  BY <1>36 DEF End, EndSequence
<1>37. CASE Free
  BY <1>37 DEF Free
<1>38. CASE Doze
  BY <1>38 DEF Doze
<1>39. CASE CutAuthority
  BY <1>39 DEF CutAuthority
<1>40. CASE Settle
  BY <1>40 DEF Settle
<1>41. CASE UNCHANGED vars
  BY <1>41 DEF vars
<1>42. QED
  BY <1>1, <1>2, <1>3, <1>4, <1>5, <1>6, <1>7, <1>8, <1>9, <1>10, <1>11, <1>12, <1>13, <1>14,
     <1>15, <1>16, <1>17, <1>18, <1>19, <1>20, <1>21, <1>22, <1>23, <1>24, <1>25, <1>26, <1>27,
     <1>28, <1>29, <1>30, <1>31, <1>32, <1>33, <1>34, <1>35, <1>36, <1>37, <1>38, <1>39, <1>40,
     <1>41
     DEF Next, Control, Run, LoopStep

\* A report with nothing held is in order.
LEMMA UpSorted ==
    Sorted(Up.keys) /\ NoPlan.initial = Up /\ NoCtl.plan = NoPlan /\ NoRun.hid = Up
<1>1. \A k \in 2 .. Slots : k \in Keys
  BY BoundsAssumption DEF Keys
<1>2. QED
  BY <1>1 DEF Up, Sorted, NoPlan, NoCtl, NoRun

\* A plan is made of tokens.
LEMMA PlanCode == TypeOK => plan.code \in Seq(Tokens)
<1> SUFFICES ASSUME TypeOK PROVE plan.code \in Seq(Tokens)
  OBVIOUS
<1>1. plan.code \in Codes \union {<<>>}
  BY DEF TypeOK, Admission, Code
<1>2. CASE plan.code \in Codes
  BY <1>2, CodesAssumption
<1>3. CASE plan.code = <<>>
  BY <1>3
<1>4. QED
  BY <1>1, <1>2, <1>3

\* The executor sends what the parser simulated: only Execute changes the report,
\* by the token the parser took at this place.
LEMMA SimulationStep == TypeOK /\ Ownership /\ Simulation /\ [Next]_vars => Simulation'
<1> SUFFICES ASSUME TypeOK, Ownership, Simulation, [Next]_vars PROVE Simulation'
  OBVIOUS
<1>0. /\ pc \in [control : ControlPoint, sequence : SequencePoint]
      /\ next \in Nat /\ reserved \in Nat /\ runnable \in Nat
  BY  DEF TypeOK, Simulation
<1> USE <1>0 DEF In, At, Running, Planned, Unapplied, Appliedto, ControlPoint, SequencePoint,
       Starting, Loop, OfControl, OfSequence, ctls, atomics, Rest, Goto, Task, Only
<1>1. CASE Start
  <2>1. UNCHANGED <<plan, runnable, rt, run>> /\ pc'.sequence = pc.sequence
    BY <1>1 DEF Start
  <2>2. pc'.control \notin {"plan", "withdraw", "record", "commit", "arm"}
    BY <1>1 DEF Start
  <2>3. ctl'.plan \in {NoPlan, ctl.plan}
    BY <1>1, Records DEF Start, NoCtl
  <2>4. QED
    BY <2>1, <2>2, <2>3, UpSorted DEF Simulation
<1>2. CASE Admit
  <2>1. UNCHANGED <<plan, runnable, run>> /\ pc'.sequence = pc.sequence
    BY <1>2 DEF Admit
  <2>2. rt'.confirmed = rt.confirmed
    BY <1>2, Records DEF Admit
  <2>3. pc'.control \in {"plan", "reject", "unreserve"}
    BY <1>2 DEF Admit
  <2>6. ctl'.plan.initial \in {rt.confirmed, ctl.plan.initial}
    BY <1>2, Records DEF Admit
  <2>4. pc'.control = "plan" => Parses(ctl'.plan.code, ctl'.plan.initial)
    BY <1>2, Records DEF Admit
  <2>5. QED
    BY <2>1, <2>2, <2>3, <2>4, <2>6 DEF Simulation
<1>3. CASE AdmitRefused
  BY <1>3 DEF AdmitRefused, Simulation
<1>4. CASE Reject
  BY <1>4 DEF Reject, EndSequence, Simulation
<1>5. CASE Unreserve
  BY <1>5, UpSorted DEF Unreserve, Simulation
<1>6. CASE Plan
  BY <1>6, Fields, UpSorted DEF Plan, Simulation, Ownership
<1>7. CASE Withdraw
  BY <1>7 DEF Withdraw, Simulation
<1>8. CASE Record
  BY <1>8 DEF Record, Simulation
<1>9. CASE Commit
  BY <1>9 DEF Commit, Simulation
<1>10. CASE Arm
  <2>1. UNCHANGED <<plan, rt, run>> /\ pc'.sequence = pc.sequence
        /\ pc'.control \in {"armed", "idle"}
    BY <1>10 DEF Arm
  <2>2. pc.control = "arm" \/ runnable' = runnable
    BY <1>10 DEF Arm
  <2>3. ctl'.plan \in {NoPlan, ctl.plan}
    BY <1>10, Records DEF Arm, NoCtl
  <2>4. QED
    BY <2>1, <2>2, <2>3, UpSorted DEF Simulation
<1>11. CASE Release
  <2>1. UNCHANGED <<plan, runnable, rt, run>> /\ pc'.sequence = pc.sequence
    BY <1>11 DEF Release
  <2>2. pc'.control \notin {"plan", "withdraw", "record", "commit", "arm"}
    BY <1>11 DEF Release
  <2>3. ctl'.plan \in {NoPlan, ctl.plan}
    BY <1>11, Records DEF Release, NoCtl
  <2>4. QED
    BY <2>1, <2>2, <2>3, UpSorted DEF Simulation
<1>12. CASE Adopt
  BY <1>12 DEF Adopt, Simulation
<1>13. CASE Adopted
  BY <1>13 DEF Adopted, Simulation
<1>14. CASE AbortCheck
  <2>1. UNCHANGED <<plan, runnable, rt, run>> /\ pc'.sequence = pc.sequence
    BY <1>14 DEF AbortCheck, Rested
  <2>2. pc'.control \notin {"plan", "withdraw", "record", "commit", "arm"}
    BY <1>14, Fields DEF AbortCheck, Rested, Simulation
  <2>3. ctl'.plan \in {NoPlan, ctl.plan}
    BY <1>14, Records DEF AbortCheck, Rested, NoCtl
  <2>4. QED
    BY <2>1, <2>2, <2>3, UpSorted DEF Simulation
<1>15. CASE Cancel
  BY <1>15 DEF Cancel, Simulation
<1>16. CASE Recheck
  <2>1. UNCHANGED <<plan, runnable, rt, run>> /\ pc'.sequence = pc.sequence
    BY <1>16 DEF Recheck, Rested
  <2>2. pc'.control \notin {"plan", "withdraw", "record", "commit", "arm"}
    BY <1>16, Fields DEF Recheck, Rested, Simulation
  <2>3. ctl'.plan \in {NoPlan, ctl.plan}
    BY <1>16, Records DEF Recheck, Rested, NoCtl
  <2>4. QED
    BY <2>1, <2>2, <2>3, UpSorted DEF Simulation
<1>17. CASE Revoke
  BY <1>17 DEF Revoke, Simulation
<1>18. CASE Strike
  BY <1>18 DEF Strike, Simulation
<1>19. CASE Stop
  <2>1. UNCHANGED <<plan, runnable, rt, run>> /\ pc'.sequence = pc.sequence
    BY <1>19 DEF Stop, Rested
  <2>2. pc'.control \notin {"plan", "withdraw", "record", "commit", "arm"}
    BY <1>19, Fields DEF Stop, Rested, Simulation
  <2>3. ctl'.plan \in {NoPlan, ctl.plan}
    BY <1>19, Records DEF Stop, Rested, NoCtl
  <2>4. QED
    BY <2>1, <2>2, <2>3, UpSorted DEF Simulation
<1>20. CASE Safety
  BY <1>20, UpSorted DEF Safety, Requested, Rested, Simulation
<1>21. CASE ReleaseAll
  <2>1. UNCHANGED <<plan, runnable, run>> /\ pc'.sequence = pc.sequence
        /\ pc'.control \in {"released", "idle"}
    BY <1>21 DEF ReleaseAll
  <2>2. rt'.confirmed \in {rt.confirmed, Up}
    BY <1>21, Records DEF ReleaseAll
  <2>3. ctl'.plan \in {NoPlan, ctl.plan}
    BY <1>21, Records, UpSorted DEF ReleaseAll, Simulation
  <2>4. Sorted(rt'.confirmed.keys) /\ Sorted(ctl'.plan.initial.keys)
    BY <2>2, <2>3, UpSorted DEF Simulation
  <2>5. QED
    BY <2>1, <2>4 DEF Simulation
<1>22. CASE Hello
  BY <1>22 DEF Hello, Simulation
<1>23. CASE TakeOver
  <2>1. UNCHANGED <<plan, runnable, rt, run>> /\ pc'.sequence = pc.sequence
    BY <1>23 DEF TakeOver, Leave
  <2>2. pc'.control \notin {"plan", "withdraw", "record", "commit", "arm"}
    BY <1>23 DEF TakeOver, Leave
  <2>3. ctl'.plan \in {NoPlan, ctl.plan}
    BY <1>23, Records DEF TakeOver, Leave, NoCtl
  <2>4. QED
    BY <2>1, <2>2, <2>3, UpSorted DEF Simulation
<1>24. CASE LeaseExpires
  BY <1>24, UpSorted DEF LeaseExpires, Leave, Simulation
<1>25. CASE Invalidated
  BY <1>25, UpSorted DEF Invalidated, Leave, Simulation
<1>26. CASE SafetyFailure
  BY <1>26, UpSorted DEF SafetyFailure, Leave, Simulation
<1>27. CASE RetireOwner
  <2>1. UNCHANGED <<plan, runnable, rt, run>> /\ pc'.sequence = pc.sequence
    BY <1>27 DEF RetireOwner, Rested
  <2>2. pc'.control \notin {"plan", "withdraw", "record", "commit", "arm"}
    BY <1>27, Fields DEF RetireOwner, Rested, Simulation
  <2>3. ctl'.plan \in {NoPlan, ctl.plan}
    BY <1>27, Records DEF RetireOwner, Rested, NoCtl
  <2>4. QED
    BY <2>1, <2>2, <2>3, UpSorted DEF Simulation
<1>28. CASE Wake
  BY <1>28 DEF Wake, Simulation
<1>29. CASE Take
  BY <1>29, UpSorted DEF Take, Simulation
<1>30. CASE Enter
  BY <1>30 DEF Enter, Simulation
<1>31. CASE BeginRun
  <2>1. UNCHANGED <<plan, runnable, rt, ctl>> /\ pc'.control = pc.control
        /\ pc.sequence = "begin"
        /\ pc'.sequence \in {"check", "refused"}
    BY <1>31 DEF BeginRun
  <2>2. run'.hid = plan.initial /\ run'.index = 1
    BY <1>31, Records DEF BeginRun
  <2>3. plan.code \in Seq(Tokens) /\ Parses(plan.code, plan.initial)
    BY <2>1, PlanCode DEF Simulation
  <2>6. Simulated(plan.code, plan.initial)[0] = plan.initial
    BY ONLY <2>3, SimulatedFacts, Fields DEF Simulation
  <2>4. run'.index \in 1 .. Len(plan.code) /\ run'.index - 1 = 0
    BY <2>2, <2>3, BoundsAssumption DEF Parses
  <2>5. QED
    BY <2>1, <2>2, <2>4, <2>6 DEF Simulation
<1>32. CASE Refused
  BY <1>32 DEF Refused, Simulation
<1>33. CASE Check("check")
  <2>1. pc.sequence = "check" /\ pc'.sequence = "authority"
    BY <1>33, Records DEF Check
  <2>2. run'.index = run.index /\ run'.hid = run.hid
    BY <1>33, Records DEF Check
  <2>3. rt'.confirmed = rt.confirmed
    BY <1>33 DEF Check
  <2>4. UNCHANGED <<plan, runnable, ctl>> /\ pc'.control = pc.control /\ pc.sequence \in Loop
    BY <1>33, LoopFacts DEF LoopStep
  <2>5. QED
    BY <2>1, <2>2, <2>3, <2>4 DEF Simulation
<1>34. CASE Authority("authority", "token")
  <2>1. pc.sequence = "authority" /\ pc'.sequence \in {"token", "final"}
    BY <1>34, Records DEF Authority
  <2>2. run'.index = run.index /\ run'.hid = run.hid
    BY <1>34, Records DEF Authority, Stopped
  <2>3. rt'.confirmed = rt.confirmed
    BY <1>34 DEF Authority
  <2>4. UNCHANGED <<plan, runnable, ctl>> /\ pc'.control = pc.control /\ pc.sequence \in Loop
    BY <1>34, LoopFacts DEF LoopStep
  <2>5. QED
    BY <2>1, <2>2, <2>3, <2>4 DEF Simulation
<1>35. CASE pc.sequence = "token" /\ Execute
  <2>1. pc.sequence = "token" /\ pc'.sequence \in {"after", "wait", "report"}
        /\ run'.index = run.index
        /\ (pc'.sequence = "wait" => run'.ret = "after")
    BY <1>35, Records DEF Execute
  <2>2. run'.hid = Apply(Token, run.hid)
    BY <1>35, Records DEF Execute, Apply
  <2>3. rt'.confirmed = rt.confirmed
    BY <1>35 DEF Execute
  <2>4. UNCHANGED <<plan, runnable, ctl>> /\ pc'.control = pc.control
    BY <1>35, LoopFacts DEF LoopStep
  <2>5. Sorted(run'.hid.keys) /\ run'.hid = Simulated(plan.code, plan.initial)[run.index]
    BY <2>1, <2>2, TokenApplied
  <2>6. QED
    BY <2>1, <2>3, <2>4, <2>5 DEF Simulation
<1>36. CASE Report
  <2>1. pc.sequence = "report" /\ pc'.sequence \in {"after", "wait", "incomplete"}
    BY <1>36 DEF Report, Accepted, Answered
  <2>2. run'.index = run.index /\ run'.hid = run.hid /\ (pc'.sequence = "wait" => run'.ret # "idle")
    BY <1>36, Records DEF Report, Accepted, Answered, Failed
  <2>3. rt'.confirmed \in {rt.confirmed, run.hid}
    BY <1>36, Records DEF Report, Accepted, Answered
  <2>4. UNCHANGED <<plan, runnable, ctl>> /\ pc'.control = pc.control
    BY <1>36, LoopFacts DEF LoopStep
  <2>5. QED
    BY <2>1, <2>2, <2>3, <2>4 DEF Simulation
<1>37. CASE Wait
  BY <1>37, Fields DEF Wait, Simulation
<1>38. CASE Incomplete
  <2>1. pc'.sequence \in {"incompleteAuthority", "final"}
    BY <1>38, Records DEF Incomplete
  <2>2. run'.index = run.index /\ run'.hid = run.hid
    BY <1>38, Records DEF Incomplete, Stopped
  <2>3. rt'.confirmed = rt.confirmed
    BY <1>38 DEF Incomplete
  <2>4. UNCHANGED <<plan, runnable, ctl>> /\ pc'.control = pc.control /\ pc.sequence \in Loop
    BY <1>38, LoopFacts DEF LoopStep
  <2>5. QED
    BY <2>1, <2>2, <2>3, <2>4 DEF Simulation
<1>39. CASE Check("after")
  <2>1. pc.sequence = "after" /\ pc'.sequence = "authorityAfter"
    BY <1>39, Records DEF Check
  <2>2. run'.index = run.index /\ run'.hid = run.hid
    BY <1>39, Records DEF Check
  <2>3. rt'.confirmed = rt.confirmed
    BY <1>39 DEF Check
  <2>4. UNCHANGED <<plan, runnable, ctl>> /\ pc'.control = pc.control /\ pc.sequence \in Loop
    BY <1>39, LoopFacts DEF LoopStep
  <2>5. QED
    BY <2>1, <2>2, <2>3, <2>4 DEF Simulation
<1>40. CASE Authority("authorityAfter", "progress")
  <2>1. pc.sequence = "authorityAfter" /\ pc'.sequence \in {"progress", "final"}
    BY <1>40, Records DEF Authority
  <2>2. run'.index = run.index /\ run'.hid = run.hid
    BY <1>40, Records DEF Authority, Stopped
  <2>3. rt'.confirmed = rt.confirmed
    BY <1>40 DEF Authority
  <2>4. UNCHANGED <<plan, runnable, ctl>> /\ pc'.control = pc.control /\ pc.sequence \in Loop
    BY <1>40, LoopFacts DEF LoopStep
  <2>5. QED
    BY <2>1, <2>2, <2>3, <2>4 DEF Simulation
<1>41. CASE Progress
  <2>1. /\ pc.sequence = "progress"
        /\ pc'.sequence = IF run.index = Len(plan.code) THEN "complete" ELSE "publish"
    BY <1>41, Records DEF Progress, Last
  <2>2. run'.index = run.index /\ run'.hid = run.hid
    BY <1>41, Records DEF Progress
  <2>3. rt'.confirmed = rt.confirmed
    BY <1>41 DEF Progress
  <2>4. UNCHANGED <<plan, runnable, ctl>> /\ pc'.control = pc.control /\ pc.sequence \in Loop
    BY <1>41, LoopFacts DEF LoopStep
  <2>5. Len(plan.code) \in Nat /\ run.index \in 1 .. Len(plan.code)
    BY <2>4, TokenFacts
  <2>6. QED
    BY <2>5, <2>1, <2>2, <2>3, <2>4 DEF Simulation
<1>42. CASE Publish
  <2>1. UNCHANGED <<plan, runnable, ctl, rt>> /\ pc'.control = pc.control
    BY <1>42, LoopFacts DEF LoopStep, Publish
  <2>2. CASE pc'.sequence = "check"
    <3>1. pc.sequence = "publishWord" /\ run'.index = run.index + 1 /\ run'.hid = run.hid
      BY <1>42, <2>2, Records DEF Publish
    <3>2. Len(plan.code) \in Nat /\ run.index \in Nat /\ run.index \in 1 .. Len(plan.code)
          /\ run.index < Len(plan.code)
      BY <3>1, TokenFacts DEF Simulation
    <3>3. run'.index \in 1 .. Len(plan.code) /\ run'.index - 1 = run.index
      <4>1. \A i, n \in Nat : i < n => i + 1 \in 1 .. n /\ (i + 1) - 1 = i
        OBVIOUS
      <4>2. run.index + 1 \in 1 .. Len(plan.code) /\ (run.index + 1) - 1 = run.index
        BY <3>2, <4>1
      <4>3. QED
        BY <3>1, <4>2, Zenon
    <3>4. QED
      BY <2>1, <2>2, <3>1, <3>3 DEF Simulation
  <2>3. CASE pc'.sequence # "check"
    <3>1. pc.sequence \in {"publish", "publishWord"}
          /\ pc'.sequence \in {"publishWord", "final"} /\ UNCHANGED run
      BY <1>42, <2>3 DEF Publish
    <3>2. pc.sequence = "publishWord" => pc'.sequence = "final"
      BY <1>42, <2>3 DEF Publish
    <3>3. QED
      BY <2>1, <3>1, <3>2 DEF Simulation
  <2>4. QED
    BY <2>2, <2>3
<1>43. CASE Complete
  BY <1>43 DEF Complete, Claim, ClaimCheck, ClaimWord, Simulation
<1>44. CASE Final
  BY <1>44 DEF Final, Claim, ClaimCheck, ClaimWord, Simulation
<1>45. CASE Decide
  BY <1>45 DEF Decide, Simulation
<1>46. CASE Clean
  <2>1. UNCHANGED <<plan, runnable, run, ctl>> /\ pc'.control = pc.control
        /\ pc.sequence = "clean" /\ pc'.sequence = "end"
    BY <1>46 DEF Clean
  <2>2. rt'.confirmed = rt.confirmed
    BY <1>46, Records DEF Clean, Requested
  <2>3. QED
    BY <2>1, <2>2 DEF Simulation
<1>47. CASE End
  BY <1>47 DEF End, EndSequence, Simulation
<1>48. CASE Free
  BY <1>48, UpSorted DEF Free, Simulation
<1>49. CASE Doze
  BY <1>49 DEF Doze, Simulation
<1>50. CASE CutAuthority
  BY <1>50 DEF CutAuthority, Simulation
<1>51. CASE Settle
  BY <1>51, UpSorted DEF Settle, Simulation
<1>52. CASE UNCHANGED vars
  BY <1>52 DEF vars, Simulation
<1>53. QED
  BY <1>1, <1>2, <1>3, <1>4, <1>5, <1>6, <1>7, <1>8, <1>9, <1>10, <1>11, <1>12, <1>13, <1>14,
     <1>15, <1>16, <1>17, <1>18, <1>19, <1>20, <1>21, <1>22, <1>23, <1>24, <1>25, <1>26, <1>27,
     <1>28, <1>29, <1>30, <1>31, <1>32, <1>33, <1>34, <1>35, <1>36, <1>37, <1>38, <1>39, <1>40,
     <1>41, <1>42, <1>43, <1>44, <1>45, <1>46, <1>47, <1>48, <1>49, <1>50, <1>51, <1>52
     DEF Next, Control, Run

\* The sequence that waits to run or has not begun; and the points at which the
\* token has been counted, but not yet in the word.
Due     == runnable # 0 \/ At({"enter", "begin"})
Counted == {"publish", "publishWord", "complete", "completeWord"}

\* The word says how far its sequence came, whoever writes it.
Words ==
    /\ In({"record", "commit"}) => status.gen = 0
    /\ In({"commit", "arm"}) => word.st = "accepted"
    /\ Due => word.st \in {"accepted", "aborted"}
    /\ Due \/ At({"refused"}) => word.executed = 0
    /\ At({"refused"}) => word.st = "aborted" /\ run.word = word
    /\ At({"enter", "begin"}) => run.executed = 0 /\ run.st = "completed"
    /\ word.st = "accepted" => word.executed = 0
    /\ Open(word) => word.executed < MaxTokens
    /\ word.st \in {"aborted", "failed"} => word.failed = word.executed
    /\ At(Loop) => word.st \in {"running", "aborted"} /\ word.executed = run.index - 1
    /\ At(Loop \ {"final", "finalWord"}) =>
         run.st = "completed" /\ run.executed = IF At(Counted) THEN run.index ELSE run.index - 1
    /\ At({"finalWord"}) \/ (At({"final"}) /\ status.gen = run.gen /\ ~TerminalIn(word)) =>
         /\ run.st \in {"failed", "aborted"} /\ run.executed = run.index - 1
         /\ run.failed = run.executed
    /\ word.st = "completed" /\ ~In({"withdraw", "record"}) => word.executed = Len(plan.code)
    /\ At({"decide", "clean", "end", "free"}) => TerminalIn(word) \/ status.gen # run.gen
    /\ In({"adopt"}) => status.gen = ctl.gen /\ ctl.then = "release"

\* What an abort makes of the word.
LEMMA AbortedFacts ==
    ASSUME TypeOK, Words, Open(word)
    PROVE  \A owned \in BOOLEAN : LET w == Aborted(word, owned) IN
             /\ w.st = "aborted" /\ w.executed = word.executed /\ w.failed = w.executed
             /\ w.owned = owned /\ ~Open(w) /\ TerminalIn(w)
<1>1. MaxTokens \in Nat \ {0} /\ word.executed \in Nat /\ word.executed < MaxTokens
  BY BoundsAssumption DEF TypeOK, Status, Words
<1>2. word.executed % MaxTokens = word.executed
  BY <1>1
<1>3. QED
  BY <1>2 DEF Aborted, Word, Open, TerminalIn, Terminals

\* What a plain word says.
LEMMA PlainFacts ==
    \A st, n : Plain(st, n).st = st /\ Plain(st, n).executed = n /\ Plain(st, n).owned = FALSE
BY DEF Plain, Word

\* The executor's loop runs under one plan, one status and no start.
LEMMA LoopCalm ==
    ASSUME TypeOK, Ownership, Simulation, LoopStep
    PROVE  /\ UNCHANGED <<plan, status, ctl>> /\ runnable' = 0
           /\ pc'.control = pc.control /\ pc.control \notin Starting
           /\ pc.sequence \in Loop /\ run'.gen = run.gen
<1>1. /\ UNCHANGED <<plan, status, ctl, runnable>> /\ pc'.control = pc.control
      /\ pc.sequence \in Loop /\ run'.gen = run.gen
  BY LoopFacts
<1>2. runnable = 0 /\ pc.control \notin Starting
  BY <1>1 DEF Ownership, Running, Loop, In
<1>3. QED
  BY <1>1, <1>2

\* Small numbers keep their value in the word's field.
LEMMA Narrow == \A a, b \in Nat : a < b => a % b = a
OBVIOUS

\* The control task leaves the word true where it writes neither it nor a plan.
LEMMA WordsKept ==
    ASSUME TypeOK, Ownership, Words, UNCHANGED <<word, run, plan, runnable>>,
           pc'.sequence = pc.sequence, status'.gen \in {status.gen, 0},
           pc.control \notin {"withdraw", "record"},
           pc'.control \notin {"record", "commit", "arm", "adopt"}
    PROVE  Words'
<1>0. /\ pc \in [control : ControlPoint, sequence : SequencePoint]
      /\ next \in Nat /\ reserved \in Nat /\ runnable \in Nat
  BY DEF TypeOK
<1> USE <1>0 DEF In, At, Due, Counted, Open, TerminalIn, Terminals, ControlPoint,
       SequencePoint, Starting, Planned, Loop, OfControl, OfSequence, ctls, atomics, Rest, Goto,
       Task, Only
<1>1. pc'.control \notin {"record", "commit", "arm", "adopt"}
      /\ pc.control \notin {"withdraw", "record"}
      /\ run' = run /\ word' = word /\ plan' = plan /\ runnable' = runnable
      /\ pc'.sequence = pc.sequence
  OBVIOUS
<1>2. pc.sequence \notin {"idle", "take"} => run.gen # 0
  BY DEF Ownership, Running
<1>3. \A at : At(at)' = At(at)
  BY <1>1
<1> DEFINE Ended == status.gen = run.gen
<1>4. pc.sequence \notin {"idle", "take"} /\ Ended' => Ended
  BY <1>1, <1>2
<1>5. /\ In({"record", "commit"})' => status'.gen = 0
      /\ In({"commit", "arm"})' => word'.st = "accepted"
      /\ In({"adopt"})' => status'.gen = ctl'.gen /\ ctl'.then = "release"
      /\ word'.st = "completed" /\ ~In({"withdraw", "record"})' =>
           word'.executed = Len(plan'.code)
  BY <1>1 DEF Words
<1>6. At({"decide", "clean", "end", "free"})' => TerminalIn(word)' \/ status'.gen # run'.gen
  BY <1>1, <1>4 DEF Words
<1>7. At({"finalWord"})' \/ (At({"final"})' /\ Ended' /\ ~TerminalIn(word)') =>
        At({"finalWord"}) \/ (At({"final"}) /\ Ended /\ ~TerminalIn(word))
  BY <1>1, <1>4
<1> HIDE DEF Ended
<1>8. QED
  BY <1>1, <1>5, <1>6, <1>7 DEF Words, Ended

\* A step of the executor that goes on leaves the word true.
LEMMA WordsLooped ==
    ASSUME TypeOK, Words, UNCHANGED <<word, plan, status, ctl>>, runnable' = 0,
           pc'.control = pc.control, pc.control \notin Starting,
           pc.sequence \in Loop, pc'.sequence \in Loop, run'.gen = run.gen, run'.index = run.index,
           pc'.sequence \notin {"final", "finalWord"} =>
             /\ run'.st = "completed"
             /\ run'.executed = IF pc'.sequence \in Counted THEN run.index ELSE run.index - 1,
           (\/ pc'.sequence = "finalWord"
            \/ pc'.sequence = "final" /\ status.gen = run.gen /\ ~TerminalIn(word)) =>
             /\ run'.st \in {"failed", "aborted"} /\ run'.executed = run.index - 1
             /\ run'.failed = run'.executed
    PROVE  Words'
<1>0. /\ pc \in [control : ControlPoint, sequence : SequencePoint]
      /\ next \in Nat /\ reserved \in Nat /\ runnable \in Nat
  BY DEF TypeOK
<1> USE <1>0 DEF In, At, Due, Counted, Open, TerminalIn, Terminals, ControlPoint,
       SequencePoint, Starting, Planned, Loop, OfControl, OfSequence, ctls, atomics, Rest, Goto,
       Task, Only
<1>1. /\ word' = word /\ plan' = plan /\ status' = status /\ ctl' = ctl /\ runnable' = 0
      /\ pc'.control = pc.control /\ pc.control \notin Starting
      /\ run'.gen = run.gen /\ run'.index = run.index
  OBVIOUS
<1>2. pc'.sequence \notin {"idle", "take", "enter", "begin", "refused", "decide", "clean", "end", "free"}
  OBVIOUS
<1>3. /\ In({"record", "commit"})' => status'.gen = 0
      /\ In({"commit", "arm"})' => word'.st = "accepted"
      /\ In({"adopt"})' => status'.gen = ctl'.gen /\ ctl'.then = "release"
      /\ word'.st = "completed" /\ ~In({"withdraw", "record"})' =>
           word'.executed = Len(plan'.code)
  BY <1>1 DEF Words
<1>4. word'.st \in {"running", "aborted"} /\ word'.executed = run'.index - 1
  BY <1>1 DEF Words
<1>5. ~Due' /\ ~At({"refused"})' /\ ~At({"enter", "begin"})'
      /\ ~At({"decide", "clean", "end", "free"})'
  BY <1>1, <1>2
<1>6. /\ word'.st = "accepted" => word'.executed = 0
      /\ Open(word)' => word'.executed < MaxTokens
      /\ word'.st \in {"aborted", "failed"} => word'.failed = word'.executed
  BY <1>1 DEF Words
<1>7. At(Loop \ {"final", "finalWord"})' =>
        run'.st = "completed" /\ run'.executed = IF At(Counted)' THEN run'.index ELSE run'.index - 1
  BY <1>1
<1>8. At({"finalWord"})' \/ (At({"final"})' /\ status'.gen = run'.gen /\ ~TerminalIn(word)') =>
        /\ run'.st \in {"failed", "aborted"} /\ run'.executed = run'.index - 1
        /\ run'.failed = run'.executed
  BY <1>1
<1>9. QED
  BY <1>3, <1>4, <1>5, <1>6, <1>7, <1>8 DEF Words

\* The word keeps to its sequence: it is Record's while nothing runs, then the
\* executor's, and an abort's from any point on.
LEMMA WordsStep == TypeOK /\ Ownership /\ Simulation /\ Words /\ [Next]_vars => Words'
<1> SUFFICES ASSUME TypeOK, Ownership, Simulation, Words, [Next]_vars PROVE Words'
  OBVIOUS
<1>0. /\ pc \in [control : ControlPoint, sequence : SequencePoint]
      /\ next \in Nat /\ reserved \in Nat /\ runnable \in Nat
  BY  DEF TypeOK, Words
<1> USE <1>0 DEF In, At, Due, Counted, Open, TerminalIn, Terminals, ControlPoint,
       SequencePoint, Starting, Planned, Loop, OfControl, OfSequence, ctls, atomics, Rest, Goto,
       Task, Only
<1>1. CASE Start
  <2>1. UNCHANGED <<word, run, plan, runnable>> /\ pc'.sequence = pc.sequence
    BY <1>1 DEF Start, Words
  <2>2. pc.control \notin {"withdraw", "record"}
        /\ pc'.control \notin {"record", "commit", "arm", "adopt"}
    BY <1>1 DEF Start, Words
  <2>3. status'.gen \in {status.gen, 0}
    BY <1>1, Records DEF Start, Words
  <2>4. QED
    BY <2>1, <2>2, <2>3, WordsKept DEF Words
<1>2. CASE Admit
  <2>1. UNCHANGED <<word, run, plan, runnable>> /\ pc'.sequence = pc.sequence
    BY <1>2 DEF Admit, Words
  <2>2. pc.control \notin {"withdraw", "record"}
        /\ pc'.control \notin {"record", "commit", "arm", "adopt"}
    BY <1>2 DEF Admit, Words
  <2>3. status'.gen \in {status.gen, 0}
    BY <1>2, Records DEF Admit, Words
  <2>4. QED
    BY <2>1, <2>2, <2>3, WordsKept DEF Words
<1>3. CASE AdmitRefused
  <2>1. UNCHANGED <<word, run, plan, runnable>> /\ pc'.sequence = pc.sequence
    BY <1>3 DEF AdmitRefused, Words
  <2>2. pc.control \notin {"withdraw", "record"}
        /\ pc'.control \notin {"record", "commit", "arm", "adopt"}
    BY <1>3 DEF AdmitRefused, Words
  <2>3. status'.gen \in {status.gen, 0}
    BY <1>3, Records DEF AdmitRefused, Words
  <2>4. QED
    BY <2>1, <2>2, <2>3, WordsKept DEF Words
<1>4. CASE Reject
  <2>1. UNCHANGED <<word, run, plan, runnable>> /\ pc'.sequence = pc.sequence
    BY <1>4 DEF Reject, EndSequence, Words
  <2>2. pc.control \notin {"withdraw", "record"}
        /\ pc'.control \notin {"record", "commit", "arm", "adopt"}
    BY <1>4 DEF Reject, EndSequence, Words
  <2>3. status'.gen \in {status.gen, 0}
    BY <1>4, Records DEF Reject, EndSequence, Words
  <2>4. QED
    BY <2>1, <2>2, <2>3, WordsKept DEF Words
<1>5. CASE Unreserve
  <2>1. UNCHANGED <<word, run, plan, runnable>> /\ pc'.sequence = pc.sequence
    BY <1>5 DEF Unreserve, Words
  <2>2. pc.control \notin {"withdraw", "record"}
        /\ pc'.control \notin {"record", "commit", "arm", "adopt"}
    BY <1>5 DEF Unreserve, Words
  <2>3. status'.gen \in {status.gen, 0}
    BY <1>5, Records DEF Unreserve, Words
  <2>4. QED
    BY <2>1, <2>2, <2>3, WordsKept DEF Words
<1>6. CASE Plan
  <2>1. UNCHANGED <<word, run, status, runnable>> /\ pc'.sequence = pc.sequence
        /\ pc.control = "plan" /\ pc'.control = "withdraw"
    BY <1>6 DEF Plan, Words
  <2>2. pc.sequence \in {"idle", "take"} /\ runnable = 0
    BY <2>1 DEF Ownership, Running, Words
  <2>3. QED
    BY <2>1, <2>2 DEF Words
<1>7. CASE Withdraw
  <2>1. UNCHANGED <<word, run, plan, runnable>> /\ pc'.sequence = pc.sequence
        /\ pc.control = "withdraw" /\ pc'.control = "record"
    BY <1>7 DEF Withdraw, Words
  <2>2. status'.gen = 0
    BY <1>7, Records DEF Withdraw, Words
  <2>3. pc.sequence \in {"idle", "take"}
    BY <2>1 DEF Ownership, Running, Words
  <2>4. QED
    BY <2>1, <2>2, <2>3 DEF Words
<1>8. CASE Record
  <2>1. UNCHANGED <<run, plan, runnable>> /\ pc'.sequence = pc.sequence
        /\ pc.control = "record" /\ pc'.control = "commit" /\ word' = Plain("accepted", 0)
    BY <1>8 DEF Record, Words
  <2>2. status'.gen = status.gen
    BY <1>8, Records DEF Record, Words
  <2>3. pc.sequence \in {"idle", "take"} /\ runnable = 0
    BY <2>1 DEF Ownership, Running, Words
  <2>4. word'.st = "accepted" /\ word'.executed = 0 /\ 0 < MaxTokens
    BY <2>1, PlainFacts, BoundsAssumption DEF Words
  <2>5. QED
    BY <2>1, <2>2, <2>3, <2>4 DEF Words
<1>9. CASE Commit
  <2>1. UNCHANGED <<word, run, plan, runnable>> /\ pc'.sequence = pc.sequence
        /\ pc.control = "commit" /\ pc'.control = "arm"
    BY <1>9 DEF Commit, Words
  <2>2. pc.sequence \in {"idle", "take"} /\ runnable = 0
    BY <2>1 DEF Ownership, Running, Words
  <2>3. QED
    BY <2>1, <2>2 DEF Words
<1>10. CASE Arm
  <2>1. UNCHANGED <<word, run, plan, status>> /\ pc'.sequence = pc.sequence
    BY <1>10 DEF Arm, Words
  <2>2. CASE pc.control = "arm"
    <3>1. pc'.control = "armed" /\ runnable' = ctl.gen
      BY <1>10, <2>2 DEF Arm, Words
    <3>2. word.st = "accepted" /\ word.executed = 0 /\ pc.sequence \in {"idle", "take"}
      BY <2>2 DEF Ownership, Running, Words
    <3>3. QED
      BY <2>1, <2>2, <3>1, <3>2 DEF Words
  <2>3. CASE pc.control # "arm"
    <3>1. pc.control = "armed" /\ pc'.control = "idle" /\ UNCHANGED runnable
      BY <1>10, <2>3 DEF Arm, Words
    <3>2. QED
      BY <2>1, <3>1, WordsKept DEF Words
  <2>4. QED
    BY <2>2, <2>3 DEF Words
<1>11. CASE Release
  <2>1. UNCHANGED <<word, run, plan, status, runnable>> /\ pc'.sequence = pc.sequence
        /\ pc.control = "idle" /\ pc'.control \in {"release", "adopt", "safety"}
    BY <1>11 DEF Release, Words
  <2>2. CASE pc'.control = "adopt"
    <3>1. status.gen = ctl'.gen /\ ctl'.then = "release"
      BY <1>11, <2>2 DEF Release, NoCtl, Words
    <3>2. QED
      BY <2>1, <2>2, <3>1 DEF Words
  <2>3. CASE pc'.control # "adopt"
    BY <2>1, <2>3, WordsKept DEF Words
  <2>4. QED
    BY <2>2, <2>3 DEF Words
<1>12. CASE Adopt
  <2>1. UNCHANGED <<run, plan, status, runnable, ctl>> /\ pc'.sequence = pc.sequence
        /\ pc.control = "adopt" /\ pc'.control \in {"adopted", "release", "safety", "stop"}
    BY <1>12 DEF Adopt, Words
  <2>2. word' = word \/ (Open(word) /\ \E owned \in BOOLEAN : word' = Aborted(word, owned))
    BY <1>12 DEF Adopt, Words
  <2>3. CASE word' = word
    BY <2>1, <2>3, WordsKept DEF Words
  <2>4. CASE Open(word) /\ \E owned \in BOOLEAN : word' = Aborted(word, owned)
    <3>0. PICK owned \in BOOLEAN : word' = Aborted(word, owned)
      BY <2>4 DEF Words
    <3>1. /\ word'.st = "aborted" /\ word'.executed = word.executed
          /\ word'.failed = word'.executed
      BY <2>4, <3>0, AbortedFacts, Zenon DEF Words
    <3>3. word.st \in {"accepted", "running"}
      BY <2>4 DEF Words
    <3>2. QED
      BY <2>1, <3>1, <3>3 DEF Words
  <2>5. QED
    BY <2>2, <2>3, <2>4 DEF Words
<1>13. CASE Adopted
  <2>1. UNCHANGED <<word, run, plan, runnable>> /\ pc'.sequence = pc.sequence
    BY <1>13 DEF Adopted, Words
  <2>2. pc.control \notin {"withdraw", "record"}
        /\ pc'.control \notin {"record", "commit", "arm", "adopt"}
    BY <1>13 DEF Adopted, Words
  <2>3. status'.gen \in {status.gen, 0}
    BY <1>13, Records DEF Adopted, Words
  <2>4. QED
    BY <2>1, <2>2, <2>3, WordsKept DEF Words
<1>14. CASE AbortCheck
  <2>1. UNCHANGED <<word, run, plan, runnable>> /\ pc'.sequence = pc.sequence
    BY <1>14 DEF AbortCheck, Rested, Words
  <2>2. pc.control \notin {"withdraw", "record"}
        /\ pc'.control \notin {"record", "commit", "arm", "adopt"}
    BY <1>14, Fields DEF AbortCheck, Rested, Words
  <2>3. status'.gen \in {status.gen, 0}
    BY <1>14, Records DEF AbortCheck, Rested, Words
  <2>4. QED
    BY <2>1, <2>2, <2>3, WordsKept DEF Words
<1>15. CASE Cancel
  <2>1. UNCHANGED <<word, run, plan, runnable>> /\ pc'.sequence = pc.sequence
    BY <1>15 DEF Cancel, Words
  <2>2. pc.control \notin {"withdraw", "record"}
        /\ pc'.control \notin {"record", "commit", "arm", "adopt"}
    BY <1>15 DEF Cancel, Words
  <2>3. status'.gen \in {status.gen, 0}
    BY <1>15, Records DEF Cancel, Words
  <2>4. QED
    BY <2>1, <2>2, <2>3, WordsKept DEF Words
<1>16. CASE Recheck
  <2>1. UNCHANGED <<word, run, plan, runnable>> /\ pc'.sequence = pc.sequence
    BY <1>16 DEF Recheck, Rested, Words
  <2>2. pc.control \notin {"withdraw", "record"}
        /\ pc'.control \notin {"record", "commit", "arm", "adopt"}
    BY <1>16, Fields DEF Recheck, Rested, Words
  <2>3. status'.gen \in {status.gen, 0}
    BY <1>16, Records DEF Recheck, Rested, Words
  <2>4. QED
    BY <2>1, <2>2, <2>3, WordsKept DEF Words
<1>17. CASE Revoke
  <2>1. UNCHANGED <<word, run, plan, runnable>> /\ pc'.sequence = pc.sequence
    BY <1>17 DEF Revoke, Words
  <2>2. pc.control \notin {"withdraw", "record"}
        /\ pc'.control \notin {"record", "commit", "arm", "adopt"}
    BY <1>17 DEF Revoke, Words
  <2>3. status'.gen \in {status.gen, 0}
    BY <1>17, Records DEF Revoke, Words
  <2>4. QED
    BY <2>1, <2>2, <2>3, WordsKept DEF Words
<1>18. CASE Strike
  <2>1. UNCHANGED <<run, plan, status, runnable, ctl>> /\ pc'.sequence = pc.sequence
        /\ pc.control = "strike" /\ pc'.control \in {"adopted", "release", "safety", "stop"}
    BY <1>18 DEF Strike, Words
  <2>2. word' = word \/ (Open(word) /\ \E owned \in BOOLEAN : word' = Aborted(word, owned))
    BY <1>18 DEF Strike, Words
  <2>3. CASE word' = word
    BY <2>1, <2>3, WordsKept DEF Words
  <2>4. CASE Open(word) /\ \E owned \in BOOLEAN : word' = Aborted(word, owned)
    <3>0. PICK owned \in BOOLEAN : word' = Aborted(word, owned)
      BY <2>4 DEF Words
    <3>1. /\ word'.st = "aborted" /\ word'.executed = word.executed
          /\ word'.failed = word'.executed
      BY <2>4, <3>0, AbortedFacts, Zenon DEF Words
    <3>3. word.st \in {"accepted", "running"}
      BY <2>4 DEF Words
    <3>2. QED
      BY <2>1, <3>1, <3>3 DEF Words
  <2>5. QED
    BY <2>2, <2>3, <2>4 DEF Words
<1>19. CASE Stop
  <2>1. UNCHANGED <<word, run, plan, runnable>> /\ pc'.sequence = pc.sequence
    BY <1>19 DEF Stop, Rested, Words
  <2>2. pc.control \notin {"withdraw", "record"}
        /\ pc'.control \notin {"record", "commit", "arm", "adopt"}
    BY <1>19, Fields DEF Stop, Rested, Words
  <2>3. status'.gen \in {status.gen, 0}
    BY <1>19, Records DEF Stop, Rested, Words
  <2>4. QED
    BY <2>1, <2>2, <2>3, WordsKept DEF Words
<1>20. CASE Safety
  <2>1. UNCHANGED <<word, run, plan, runnable>> /\ pc'.sequence = pc.sequence
    BY <1>20 DEF Safety, Requested, Rested, Words
  <2>2. pc.control \notin {"withdraw", "record"}
        /\ pc'.control \notin {"record", "commit", "arm", "adopt"}
    BY <1>20 DEF Safety, Requested, Rested, Words
  <2>3. status'.gen \in {status.gen, 0}
    BY <1>20, Records DEF Safety, Requested, Rested, Words
  <2>4. QED
    BY <2>1, <2>2, <2>3, WordsKept DEF Words
<1>21. CASE ReleaseAll
  <2>1. UNCHANGED <<word, run, plan, runnable>> /\ pc'.sequence = pc.sequence
    BY <1>21 DEF ReleaseAll, Words
  <2>2. pc.control \notin {"withdraw", "record"}
        /\ pc'.control \notin {"record", "commit", "arm", "adopt"}
    BY <1>21 DEF ReleaseAll, Words
  <2>3. status'.gen \in {status.gen, 0}
    BY <1>21, Records DEF ReleaseAll, Words
  <2>4. QED
    BY <2>1, <2>2, <2>3, WordsKept DEF Words
<1>22. CASE Hello
  <2>1. UNCHANGED <<word, run, plan, runnable>> /\ pc'.sequence = pc.sequence
    BY <1>22 DEF Hello, Words
  <2>2. pc.control \notin {"withdraw", "record"}
        /\ pc'.control \notin {"record", "commit", "arm", "adopt"}
    BY <1>22 DEF Hello, Words
  <2>3. status'.gen \in {status.gen, 0}
    BY <1>22, Records DEF Hello, Words
  <2>4. QED
    BY <2>1, <2>2, <2>3, WordsKept DEF Words
<1>23. CASE TakeOver
  <2>1. UNCHANGED <<word, run, plan, runnable>> /\ pc'.sequence = pc.sequence
    BY <1>23 DEF TakeOver, Leave, Words
  <2>2. pc.control \notin {"withdraw", "record"}
        /\ pc'.control \notin {"record", "commit", "arm", "adopt"}
    BY <1>23 DEF TakeOver, Leave, Words
  <2>3. status'.gen \in {status.gen, 0}
    BY <1>23, Records DEF TakeOver, Leave, Words
  <2>4. QED
    BY <2>1, <2>2, <2>3, WordsKept DEF Words
<1>24. CASE LeaseExpires
  <2>1. UNCHANGED <<word, run, plan, runnable>> /\ pc'.sequence = pc.sequence
    BY <1>24 DEF LeaseExpires, Leave, Words
  <2>2. pc.control \notin {"withdraw", "record"}
        /\ pc'.control \notin {"record", "commit", "arm", "adopt"}
    BY <1>24 DEF LeaseExpires, Leave, Words
  <2>3. status'.gen \in {status.gen, 0}
    BY <1>24, Records DEF LeaseExpires, Leave, Words
  <2>4. QED
    BY <2>1, <2>2, <2>3, WordsKept DEF Words
<1>25. CASE Invalidated
  <2>1. UNCHANGED <<word, run, plan, runnable>> /\ pc'.sequence = pc.sequence
    BY <1>25 DEF Invalidated, Leave, Words
  <2>2. pc.control \notin {"withdraw", "record"}
        /\ pc'.control \notin {"record", "commit", "arm", "adopt"}
    BY <1>25 DEF Invalidated, Leave, Words
  <2>3. status'.gen \in {status.gen, 0}
    BY <1>25, Records DEF Invalidated, Leave, Words
  <2>4. QED
    BY <2>1, <2>2, <2>3, WordsKept DEF Words
<1>26. CASE SafetyFailure
  <2>1. UNCHANGED <<word, run, plan, runnable>> /\ pc'.sequence = pc.sequence
    BY <1>26 DEF SafetyFailure, Leave, Words
  <2>2. pc.control \notin {"withdraw", "record"}
        /\ pc'.control \notin {"record", "commit", "arm", "adopt"}
    BY <1>26 DEF SafetyFailure, Leave, Words
  <2>3. status'.gen \in {status.gen, 0}
    BY <1>26, Records DEF SafetyFailure, Leave, Words
  <2>4. QED
    BY <2>1, <2>2, <2>3, WordsKept DEF Words
<1>27. CASE RetireOwner
  <2>1. UNCHANGED <<word, run, plan, runnable>> /\ pc'.sequence = pc.sequence
    BY <1>27 DEF RetireOwner, Rested, Words
  <2>2. pc.control \notin {"withdraw", "record"}
        /\ pc'.control \notin {"record", "commit", "arm", "adopt"}
    BY <1>27, Fields DEF RetireOwner, Rested, Words
  <2>3. status'.gen \in {status.gen, 0}
    BY <1>27, Records DEF RetireOwner, Rested, Words
  <2>4. QED
    BY <2>1, <2>2, <2>3, WordsKept DEF Words
<1>28. CASE Wake
  BY <1>28 DEF Wake, Words
<1>29. CASE Take
  <2>1. UNCHANGED <<word, status, plan, ctl>> /\ pc'.control = pc.control /\ runnable' = 0
        /\ pc.sequence = "take" /\ pc'.sequence = IF runnable = 0 THEN "idle" ELSE "enter"
    BY <1>29 DEF Take, Words
  <2>2. run'.executed = 0 /\ run'.st = "completed"
    BY <1>29 DEF Take, NoRun, Words
  <2>3. QED
    BY <2>1, <2>2 DEF Words
<1>30. CASE Enter
  BY <1>30 DEF Enter, Words
<1>31. CASE BeginRun
  <2>1. UNCHANGED <<status, plan, ctl, runnable>> /\ pc'.control = pc.control
        /\ pc.sequence = "begin"
    BY <1>31 DEF BeginRun, Words
  <2>2. /\ run'.executed = run.executed /\ run'.st = run.st /\ run'.index = 1
        /\ run'.word = word
    BY <1>31, Records DEF BeginRun, Words
  <2>3. CASE word.st = "accepted"
    <3>1. pc'.sequence = "check" /\ word' = Plain("running", 0)
      BY <1>31, <2>3 DEF BeginRun, Words
    <3>2. word'.st = "running" /\ word'.executed = 0
      <4>1. Plain("running", 0).st = "running" /\ Plain("running", 0).executed = 0
        BY ONLY PlainFacts, Fields DEF Words
      <4>2. QED
        BY <3>1, <4>1 DEF Words
    <3>5. 0 < MaxTokens /\ run'.index - 1 = 0
      BY <2>2, BoundsAssumption DEF Words
    <3>3. runnable = 0 /\ pc.control \notin {"record", "commit", "arm"}
      BY <2>1 DEF Ownership, Running, Words
    <3>4. QED
      BY <2>1, <2>2, <3>1, <3>2, <3>3, <3>5 DEF Words
  <2>4. CASE word.st # "accepted"
    <3>1. pc'.sequence = "refused" /\ word' = word
      BY <1>31, <2>4 DEF BeginRun, Words
    <3>2. QED
      BY <2>1, <2>2, <2>4, <3>1 DEF Words
  <2>5. QED
    BY <2>3, <2>4 DEF Words
<1>32. CASE Refused
  BY <1>32 DEF Refused, Words
<1>33. CASE Check("check")
  <2>1. /\ UNCHANGED <<plan, status, ctl>> /\ runnable' = 0
        /\ pc'.control = pc.control /\ pc.control \notin Starting
        /\ pc.sequence \in Loop /\ run'.gen = run.gen
    BY <1>33, LoopCalm DEF LoopStep
  <2>2. pc.sequence = "check" /\ pc'.sequence = "authority"
    BY <1>33, Records DEF Check, Words
  <2>3. run'.index = run.index /\ run'.executed = run.executed /\ run'.st = run.st
    BY <1>33, Records DEF Check, Words
  <2>4. word' = word
    BY <1>33 DEF Check, Words
  <2>5. QED
    BY <2>1, <2>2, <2>3, <2>4, WordsLooped DEF Words
<1>34. CASE Authority("authority", "token")
  <2>1. /\ UNCHANGED <<plan, status, ctl>> /\ runnable' = 0
        /\ pc'.control = pc.control /\ pc.control \notin Starting
        /\ pc.sequence \in Loop /\ run'.gen = run.gen
    BY <1>34, LoopCalm DEF LoopStep
  <2>2. pc.sequence = "authority" /\ pc'.sequence \in {"token", "final"}
    BY <1>34, Records DEF Authority, Words
  <2>3. /\ run'.index = run.index /\ run'.executed = run.executed
        /\ IF pc'.sequence = "final"
           THEN run'.st \in {"failed", "aborted"} /\ run'.failed = run.index - 1
           ELSE run'.st = run.st
    BY <1>34, Records DEF Authority, Stopped, Words
  <2>4. word' = word
    BY <1>34 DEF Authority, Words
  <2>5. QED
    BY <2>1, <2>2, <2>3, <2>4, WordsLooped DEF Words
<1>35. CASE pc.sequence = "token" /\ Execute
  <2>1. /\ UNCHANGED <<plan, status, ctl>> /\ runnable' = 0
        /\ pc'.control = pc.control /\ pc.control \notin Starting
        /\ pc.sequence \in Loop /\ run'.gen = run.gen
    BY <1>35, LoopCalm DEF LoopStep
  <2>2. CASE Token.op = "delay"
    <3>1. pc.sequence = "token" /\ pc'.sequence \in {"after", "wait", "report"} /\ word' = word
      BY <1>35, <2>2 DEF Execute, Words
    <3>2. run'.index = run.index /\ run'.executed = run.executed /\ run'.st = run.st
      BY <1>35, <2>2, Records DEF Execute, Words
    <3>3. QED
      BY <2>1, <3>1, <3>2, WordsLooped DEF Words
  <2>3. CASE Token.op = "wait"
    <3>1. pc.sequence = "token" /\ pc'.sequence \in {"after", "wait", "report"} /\ word' = word
      BY <1>35, <2>3 DEF Execute, Words
    <3>2. run'.index = run.index /\ run'.executed = run.executed /\ run'.st = run.st
      BY <1>35, <2>3, Records DEF Execute, Words
    <3>3. QED
      BY <2>1, <3>1, <3>2, WordsLooped DEF Words
  <2>4. CASE Token.op \notin {"delay", "wait"}
    <3>1. pc.sequence = "token" /\ pc'.sequence \in {"after", "wait", "report"} /\ word' = word
      BY <1>35, <2>4 DEF Execute, Words
    <3>2. \E h : run' = [run EXCEPT !.hid = h, !.code = "none"]
      BY <1>35, <2>4 DEF Execute, Words
    <3>3. run'.index = run.index /\ run'.executed = run.executed /\ run'.st = run.st
      BY <3>2, Records DEF Words
    <3>4. QED
      BY <2>1, <3>1, <3>3, WordsLooped DEF Words
  <2>5. QED
    BY <2>2, <2>3, <2>4 DEF Words
<1>36. CASE Report
  <2>1. /\ UNCHANGED <<plan, status, ctl>> /\ runnable' = 0
        /\ pc'.control = pc.control /\ pc.control \notin Starting
        /\ pc.sequence \in Loop /\ run'.gen = run.gen
    BY <1>36, LoopCalm DEF LoopStep
  <2>2. pc.sequence = "report" /\ pc'.sequence \in {"after", "wait", "incomplete"}
    BY <1>36, Records DEF Report, Accepted, Answered, Words
  <2>3. run'.index = run.index /\ run'.executed = run.executed /\ run'.st = run.st
    BY <1>36, Records DEF Report, Accepted, Answered, Failed, Words
  <2>4. word' = word
    BY <1>36 DEF Report, Accepted, Answered, Words
  <2>5. QED
    BY <2>1, <2>2, <2>3, <2>4, WordsLooped DEF Words
<1>37. CASE Wait
  <2>1. /\ UNCHANGED <<plan, status, ctl>> /\ runnable' = 0
        /\ pc'.control = pc.control /\ pc.control \notin Starting
        /\ pc.sequence \in Loop /\ run'.gen = run.gen
    BY <1>37, LoopCalm DEF LoopStep
  <2>2. pc.sequence = "wait" /\ pc'.sequence \in {"incomplete", "after", "report"}
    BY <1>37, Records, Fields DEF Wait, Simulation, Words
  <2>3. run' = run
    BY <1>37, Records DEF Wait, Words
  <2>4. word' = word
    BY <1>37 DEF Wait, Words
  <2>5. QED
    BY <2>1, <2>2, <2>3, <2>4, WordsLooped DEF Words
<1>38. CASE Incomplete
  <2>1. /\ UNCHANGED <<plan, status, ctl>> /\ runnable' = 0
        /\ pc'.control = pc.control /\ pc.control \notin Starting
        /\ pc.sequence \in Loop /\ run'.gen = run.gen
    BY <1>38, LoopCalm DEF LoopStep
  <2>2. pc.sequence \in {"incomplete", "incompleteAuthority"}
        /\ pc'.sequence \in {"incompleteAuthority", "final"}
    BY <1>38, Records DEF Incomplete, Words
  <2>3. /\ run'.index = run.index /\ run'.executed = run.executed
        /\ IF pc'.sequence = "final"
           THEN run'.st \in {"failed", "aborted"} /\ run'.failed = run.index - 1
           ELSE run'.st = run.st
    BY <1>38, Records DEF Incomplete, Stopped, Words
  <2>4. word' = word
    BY <1>38 DEF Incomplete, Words
  <2>5. QED
    BY <2>1, <2>2, <2>3, <2>4, WordsLooped DEF Words
<1>39. CASE Check("after")
  <2>1. /\ UNCHANGED <<plan, status, ctl>> /\ runnable' = 0
        /\ pc'.control = pc.control /\ pc.control \notin Starting
        /\ pc.sequence \in Loop /\ run'.gen = run.gen
    BY <1>39, LoopCalm DEF LoopStep
  <2>2. pc.sequence = "after" /\ pc'.sequence = "authorityAfter"
    BY <1>39, Records DEF Check, Words
  <2>3. run'.index = run.index /\ run'.executed = run.executed /\ run'.st = run.st
    BY <1>39, Records DEF Check, Words
  <2>4. word' = word
    BY <1>39 DEF Check, Words
  <2>5. QED
    BY <2>1, <2>2, <2>3, <2>4, WordsLooped DEF Words
<1>40. CASE Authority("authorityAfter", "progress")
  <2>1. /\ UNCHANGED <<plan, status, ctl>> /\ runnable' = 0
        /\ pc'.control = pc.control /\ pc.control \notin Starting
        /\ pc.sequence \in Loop /\ run'.gen = run.gen
    BY <1>40, LoopCalm DEF LoopStep
  <2>2. pc.sequence = "authorityAfter" /\ pc'.sequence \in {"progress", "final"}
    BY <1>40, Records DEF Authority, Words
  <2>3. /\ run'.index = run.index /\ run'.executed = run.executed
        /\ IF pc'.sequence = "final"
           THEN run'.st \in {"failed", "aborted"} /\ run'.failed = run.index - 1
           ELSE run'.st = run.st
    BY <1>40, Records DEF Authority, Stopped, Words
  <2>4. word' = word
    BY <1>40 DEF Authority, Words
  <2>5. QED
    BY <2>1, <2>2, <2>3, <2>4, WordsLooped DEF Words
<1>41. CASE Progress
  <2>1. /\ UNCHANGED <<plan, status, ctl>> /\ runnable' = 0
        /\ pc'.control = pc.control /\ pc.control \notin Starting
        /\ pc.sequence \in Loop /\ run'.gen = run.gen
    BY <1>41, LoopCalm DEF LoopStep
  <2>2. pc.sequence = "progress" /\ pc'.sequence \in {"complete", "publish"}
    BY <1>41, Records DEF Progress, Words
  <2>3. run'.index = run.index /\ run'.executed = run.index /\ run'.st = run.st
    BY <1>41, Records DEF Progress, Words
  <2>4. word' = word
    BY <1>41 DEF Progress, Words
  <2>5. QED
    BY <2>1, <2>2, <2>3, <2>4, WordsLooped DEF Words
<1>42. CASE Publish
  <2>1. /\ UNCHANGED <<plan, status, ctl>> /\ runnable' = 0
        /\ pc'.control = pc.control /\ pc.control \notin Starting
        /\ pc.sequence \in Loop /\ run'.gen = run.gen
    BY <1>42, LoopCalm DEF LoopStep
  <2>0. Len(plan.code) \in Nat /\ run.index \in Nat /\ MaxTokens \in Nat
        /\ run.index <= Len(plan.code)
        /\ Len(plan.code) <= MaxTokens
    BY <2>1, TokenFacts, BoundsAssumption
  <2>2. CASE pc'.sequence = "check"
    <3>1. pc.sequence = "publishWord" /\ run'.index = run.index + 1
          /\ run'.executed = run.executed /\ run'.st = run.st
      BY <1>42, <2>2, Records DEF Publish, Words
    <3>2. word' = Plain("running", run.executed)
      BY <1>42, <2>2 DEF Publish, Words
    <3>3. word'.st = "running" /\ word'.executed = run.executed
      <4>1. /\ Plain("running", run.executed).st = "running"
            /\ Plain("running", run.executed).executed = run.executed
        BY ONLY PlainFacts, Fields DEF Words
      <4>2. QED
        BY <3>2, <4>1 DEF Words
    <3>4. run.executed = run.index /\ run.index < Len(plan.code) /\ run.st = "completed"
      BY <3>1 DEF Simulation, Words
    <3>5. run.executed < MaxTokens /\ run'.index - 1 = run.executed
      <4>1. \A i, l, m \in Nat : i < l /\ l <= m => i < m /\ (i + 1) - 1 = i
        OBVIOUS
      <4>2. run.index < MaxTokens /\ (run.index + 1) - 1 = run.index
        BY <2>0, <3>4, <4>1 DEF Words
      <4>3. QED
        BY <3>1, <3>4, <4>2, Zenon DEF Words
    <3>6. run.gen # 0 /\ pc.control \notin Starting /\ runnable = 0
      BY <3>1 DEF Ownership, Running, Words
    <3>7. QED
      BY <2>1, <2>2, <3>1, <3>3, <3>4, <3>5, <3>6 DEF Words
  <2>3. CASE pc'.sequence # "check"
    <3>1. /\ pc.sequence \in {"publish", "publishWord"}
          /\ pc'.sequence \in {"publishWord", "final"}
          /\ UNCHANGED <<run, word>>
      BY <1>42, <2>3 DEF Publish, Words
    <3>2. pc'.sequence = "final" => status.gen # run.gen \/ word.st = "aborted"
      BY <1>42, <2>1, <2>3 DEF Publish, Words
    <3>3. pc'.sequence = "publishWord" => pc.sequence = "publish"
      BY <1>42, <2>3 DEF Publish, Words
    <3>4. QED
      BY <2>1, <3>1, <3>2, <3>3, WordsLooped DEF Words
  <2>4. QED
    BY <2>2, <2>3 DEF Words
<1>43. CASE Complete
  <2>1. /\ UNCHANGED <<plan, status, ctl>> /\ runnable' = 0
        /\ pc'.control = pc.control /\ pc.control \notin Starting
        /\ pc.sequence \in Loop /\ run'.gen = run.gen
    BY <1>43, LoopCalm DEF LoopStep
  <2>0. Len(plan.code) \in Nat /\ run.index \in Nat /\ MaxTokens \in Nat
        /\ run.index <= Len(plan.code)
        /\ Len(plan.code) <= MaxTokens
    BY <2>1, TokenFacts, BoundsAssumption
  <2> DEFINE w == Plain("completed", run.executed)
  <2>2. CASE pc.sequence = "completeWord"
    <3>1. pc'.sequence = "decide" /\ word' = ClaimWord(w) /\ run' = run
      BY <1>43, <2>2 DEF Complete, Claim, ClaimCheck, Words
    <3>2. w.st = "completed" /\ w.executed = Len(plan.code)
      <4>1. run.executed = Len(plan.code)
        BY <2>2 DEF Simulation, Words
      <4>2. QED
        BY <4>1 DEF Plain, Word, Words
    <3> HIDE DEF w
    <3>3. IF word.st = "running" THEN word'.st = "completed" /\ word'.executed = Len(plan.code)
          ELSE word' = word /\ word.st = "aborted"
      <4>1. word.st # "running" => word' = word /\ word.st = "aborted"
        BY <2>1, <3>1 DEF ClaimWord, Words
      <4>2. word.st = "running" => word' = w
        BY <3>1 DEF ClaimWord, Words
      <4>3. QED
        BY <3>2, <4>1, <4>2 DEF Words
    <3>4. run.gen # 0 /\ pc.control \notin Starting /\ runnable = 0
      BY <2>1 DEF Ownership, Running
    <3>5. QED
      BY <2>1, <2>2, <3>1, <3>3, <3>4 DEF Words
  <2>3. CASE pc.sequence # "completeWord"
    <3>1. /\ pc.sequence = "complete" /\ pc'.sequence \in {"completeWord", "final"}
          /\ UNCHANGED <<run, word>>
          /\ (pc'.sequence = "final" => status.gen # run.gen)
      BY <1>43, <2>3 DEF Complete, Claim, ClaimCheck, Words
    <3>2. QED
      BY <2>1, <3>1 DEF Words
  <2>4. QED
    BY <2>2, <2>3 DEF Words
<1>44. CASE Final
  <2>1. /\ UNCHANGED <<plan, status, ctl>> /\ runnable' = 0
        /\ pc'.control = pc.control /\ pc.control \notin Starting
        /\ pc.sequence \in Loop /\ run'.gen = run.gen
    BY <1>44, LoopCalm DEF LoopStep
  <2>0. Len(plan.code) \in Nat /\ run.index \in Nat /\ MaxTokens \in Nat
        /\ run.index <= Len(plan.code)
        /\ Len(plan.code) <= MaxTokens
    BY <2>1, TokenFacts, BoundsAssumption
  <2> DEFINE w == Word(run.st, run.executed, IF Failure THEN run.failed ELSE 0,
                       IF Failure THEN run.code ELSE "none", FALSE)
  <2>2. CASE pc.sequence = "finalWord"
    <3>1. pc'.sequence = "decide" /\ word' = ClaimWord(w) /\ run' = run
      BY <1>44, <2>2 DEF Final, Claim, ClaimCheck, Words
    <3>2. run.st \in {"failed", "aborted"} /\ run.failed = run.executed /\ run.executed \in Nat
          /\ run.executed = run.index - 1
      BY <2>2, Fields DEF Words
    <3>5. run.executed < MaxTokens
      BY <2>0, <3>2 DEF Words
    <3>6. run.executed % MaxTokens = run.executed
      BY <2>0, <3>2, <3>5, Narrow, Zenon DEF Words
    <3>7. w.st \in {"failed", "aborted"} /\ w.executed = run.executed /\ w.failed = w.executed
      BY <3>2, <3>6 DEF Word, Failure, Words
    <3>8. word'.st \in {"failed", "aborted"} /\ word'.failed = word'.executed
      BY <2>1, <3>1, <3>7 DEF ClaimWord, Words
    <3>9. run.gen # 0 /\ pc.control \notin Starting /\ runnable = 0
      BY <2>1 DEF Ownership, Running
    <3> HIDE DEF w
    <3>10. QED
      BY <2>1, <2>2, <3>1, <3>8, <3>9 DEF Words
  <2>3. CASE pc.sequence # "finalWord"
    <3>1. /\ pc.sequence = "final" /\ pc'.sequence \in {"finalWord", "decide"}
          /\ UNCHANGED <<run, word>>
      BY <1>44, <2>3 DEF Final, Claim, ClaimCheck, Words
    <3>2. IF pc'.sequence = "decide" THEN TerminalIn(word) \/ status.gen # run.gen
          ELSE status.gen = run.gen /\ ~TerminalIn(word)
      BY <1>44, <2>3 DEF Final, Claim, ClaimCheck, Words
    <3>3. QED
      BY <2>1, <3>1, <3>2 DEF Words
  <2>4. QED
    BY <2>2, <2>3 DEF Words
<1>45. CASE Decide
  BY <1>45 DEF Decide, Words
<1>46. CASE Clean
  BY <1>46 DEF Clean, Requested, Words
<1>47. CASE End
  BY <1>47 DEF End, EndSequence, Words
<1>48. CASE Free
  BY <1>48 DEF Free, Words
<1>49. CASE Doze
  BY <1>49 DEF Doze, Words
<1>50. CASE CutAuthority
  BY <1>50 DEF CutAuthority, Words
<1>51. CASE Settle
  BY <1>51 DEF Settle, Words
<1>52. CASE UNCHANGED vars
  BY <1>52 DEF vars, Words
<1>53. QED
  BY <1>1, <1>2, <1>3, <1>4, <1>5, <1>6, <1>7, <1>8, <1>9, <1>10, <1>11, <1>12, <1>13, <1>14,
     <1>15, <1>16, <1>17, <1>18, <1>19, <1>20, <1>21, <1>22, <1>23, <1>24, <1>25, <1>26,
     <1>27, <1>28, <1>29, <1>30, <1>31, <1>32, <1>33, <1>34, <1>35, <1>36, <1>37, <1>38,
     <1>39, <1>40, <1>41, <1>42, <1>43, <1>44, <1>45, <1>46, <1>47, <1>48, <1>49, <1>50,
     <1>51, <1>52 DEF Next, Control, Run, Words

\* The reports of the first tokens of a code.
HidsOf(code, n) == Cardinality({k \in 1 .. n : IsHid(code[k])})

\* One more token is one more report, or none.
LEMMA HidsFacts ==
    ASSUME NEW code
    PROVE  /\ HidsOf(code, 0) = 0
           /\ \A n \in Nat : HidsOf(code, n) \in Nat
           /\ \A n \in Nat \ {0} :
                HidsOf(code, n) = IF IsHid(code[n]) THEN HidsOf(code, n - 1) + 1
                                  ELSE HidsOf(code, n - 1)
<1> DEFINE H(n) == {k \in 1 .. n : IsHid(code[k])}
<1>1. \A n \in Nat : IsFiniteSet(H(n)) /\ HidsOf(code, n) = Cardinality(H(n))
                     /\ Cardinality(H(n)) \in Nat
  <2> TAKE n \in Nat
  <2>1. IsFiniteSet(1 .. n) /\ H(n) \subseteq 1 .. n
    BY FS_Interval
  <2>2. IsFiniteSet(H(n))
    BY <2>1, FS_Subset
  <2>3. QED
    BY <2>2, FS_CardinalityType DEF HidsOf
<1>2. HidsOf(code, 0) = 0
  <2>1. H(0) = {}
    OBVIOUS
  <2>2. QED
    BY <1>1, <2>1, FS_EmptySet
<1>3. ASSUME NEW n \in Nat \ {0}
      PROVE  HidsOf(code, n) = IF IsHid(code[n]) THEN HidsOf(code, n - 1) + 1
                               ELSE HidsOf(code, n - 1)
  <2>0. n - 1 \in Nat /\ n \in Nat /\ n \notin H(n - 1)
    OBVIOUS
  <2>1. H(n) = IF IsHid(code[n]) THEN H(n - 1) \union {n} ELSE H(n - 1)
    OBVIOUS
  <2> HIDE DEF H
  <2>2. Cardinality(H(n - 1) \union {n}) = Cardinality(H(n - 1)) + 1
    BY <1>1, <2>0, FS_AddElement
  <2>3. QED
    BY <1>1, <2>0, <2>1, <2>2
<1>4. QED
  BY <1>1, <1>2, <1>3

\* Before the report of a token is answered, and after all of the token is done.
Before == At({"check", "authority", "token", "report"}) \/ (At({"wait"}) /\ run.ret = "report")
Behind == {"after", "authorityAfter", "progress", "publish", "publishWord", "complete",
           "completeWord"}

\* How many reports were accepted and how long was waited, where the task is.
Accounts ==
    LET now  == Scheduled(plan.code)
        i    == run.index
        Sent(n) == HidsOf(plan.code, n)
    IN  /\ Due \/ In(Planned) \/ At({"refused"}) => ghost.reports = 0 /\ ghost.waited = 0
        /\ At({"enter", "begin"}) => run.delay = 0
        /\ Before => /\ ghost.reports = Sent(i - 1) /\ ghost.waited = now[i - 1].ms
                     /\ run.delay = now[i - 1].delay
        /\ At({"report"}) \/ (At({"wait"}) /\ run.ret = "report") => IsHid(Token)
        /\ At({"wait"}) /\ run.ret = "after" =>
             /\ Token.op = "wait" \/ (IsHid(Token) /\ ~Last)
             /\ ghost.reports = Sent(i) /\ ghost.waited = now[i - 1].ms
             /\ run.delay = now[i - 1].delay
        /\ At(Behind) => /\ ghost.reports = Sent(i) /\ ghost.waited = now[i].ms
                         /\ run.delay = now[i].delay
        /\ At(Loop) => ghost.reports \in {Sent(i - 1), Sent(i)}
        /\ At({"decide", "clean", "end"}) /\ status.gen = run.gen =>
             IF word.st = "completed"
             THEN ghost.reports = Sent(Len(plan.code)) /\ ghost.waited = now[Len(plan.code)].ms
             ELSE ghost.reports \in {Sent(word.executed), Sent(word.executed + 1)}

\* What the token under execution adds to the schedule and to the reports.
LEMMA Reckoned ==
    ASSUME TypeOK, Simulation, At(Loop)
    PROVE  LET now == Scheduled(plan.code)
               i   == run.index
           IN  /\ i \in Nat \ {0} /\ i - 1 \in Nat
               /\ HidsOf(plan.code, i - 1) \in Nat
               /\ HidsOf(plan.code, i) = IF IsHid(Token) THEN HidsOf(plan.code, i - 1) + 1
                                         ELSE HidsOf(plan.code, i - 1)
               /\ now[i - 1].ms \in Nat /\ now[i - 1].delay \in Nat /\ Token.v \in Nat
               /\ Token.op = "delay" => /\ now[i].delay = Token.v /\ now[i].ms = now[i - 1].ms
                                        /\ ~IsHid(Token)
               /\ Token.op = "wait" => /\ now[i].ms = now[i - 1].ms + Token.v
                                       /\ now[i].delay = now[i - 1].delay /\ ~IsHid(Token)
               /\ IsHid(Token) => /\ now[i].delay = now[i - 1].delay
                                  /\ now[i].ms = IF Last THEN now[i - 1].ms
                                                 ELSE now[i - 1].ms + now[i - 1].delay
                                  /\ Token.op \notin {"delay", "wait"}
               /\ Token.op \notin {"delay", "wait"} => IsHid(Token)
<1> DEFINE now == Scheduled(plan.code)
           i   == run.index
           last == now[i - 1]
<1>1. /\ plan.code \in Seq(Tokens) /\ Len(plan.code) \in Nat
      /\ i \in 1 .. Len(plan.code) /\ i \in Nat /\ Token \in Tokens /\ Token.v \in Nat
  BY TokenFacts
<1>2. i \in Nat \ {0} /\ i - 1 \in Nat /\ i - 1 \in 0 .. Len(plan.code)
      /\ (i < Len(plan.code) <=> ~Last)
  BY <1>1 DEF Last
<1>3. last \in [delay : Nat, ms : Nat]
  BY <1>1, <1>2, ScheduledType
<1>4. now[i] = CASE Token.op = "delay" -> [last EXCEPT !.delay = Token.v]
                 [] Token.op = "wait"  -> [last EXCEPT !.ms = @ + Token.v]
                 [] IsHid(Token) /\ i < Len(plan.code) -> [last EXCEPT !.ms = @ + last.delay]
                 [] OTHER              -> last
  BY <1>1, ScheduledFacts DEF Token
<1>5. IsHid(Token) <=> Token.op \notin {"delay", "wait"}
  BY <1>1 DEF Tokens, IsHid, Keyboard, Mouse
<1>6. /\ HidsOf(plan.code, i - 1) \in Nat
      /\ HidsOf(plan.code, i) = IF IsHid(Token) THEN HidsOf(plan.code, i - 1) + 1
                                ELSE HidsOf(plan.code, i - 1)
  BY <1>2, HidsFacts DEF Token
<1> HIDE DEF now
<1>7. CASE Token.op = "delay"
  <2>1. now[i] = [last EXCEPT !.delay = Token.v]
    BY <1>4, <1>5, <1>7
  <2>2. now[i].delay = Token.v /\ now[i].ms = last.ms
    BY <1>3, <2>1
  <2>3. QED
    BY <1>1, <1>2, <1>3, <1>5, <1>6, <1>7, <2>2 DEF now
<1>8. CASE Token.op = "wait"
  <2>1. now[i] = [last EXCEPT !.ms = @ + Token.v]
    BY <1>4, <1>5, <1>8
  <2>2. now[i].delay = last.delay /\ now[i].ms = last.ms + Token.v
    BY <1>3, <2>1
  <2>3. QED
    BY <1>1, <1>2, <1>3, <1>5, <1>6, <1>8, <2>2 DEF now
<1>9. CASE Token.op \notin {"delay", "wait"}
  <2>1. now[i] = IF Last THEN last ELSE [last EXCEPT !.ms = @ + last.delay]
    BY <1>2, <1>4, <1>5, <1>9
  <2>2. now[i].delay = last.delay /\ now[i].ms = IF Last THEN last.ms ELSE last.ms + last.delay
    BY <1>3, <2>1
  <2>3. QED
    BY <1>1, <1>2, <1>3, <1>5, <1>6, <1>9, <2>2 DEF now
<1>10. QED
  BY <1>7, <1>8, <1>9

\* A step of the control task that moves neither the sequence nor its record.
LEMMA AccountsKept ==
    ASSUME TypeOK, Ownership, Words, Accounts, UNCHANGED <<run, plan>>,
           pc'.sequence = pc.sequence, ghost'.reports = ghost.reports,
           ghost'.waited = ghost.waited, status'.gen \in {status.gen, 0},
           word' = word \/ (Open(word) /\ UNCHANGED status),
           runnable' = runnable, pc'.control \notin Planned
    PROVE  Accounts'
<1>0. /\ pc \in [control : ControlPoint, sequence : SequencePoint]
      /\ next \in Nat /\ reserved \in Nat /\ runnable \in Nat
  BY DEF TypeOK
<1> USE <1>0, Fields DEF Accounts, In, At, Due, Before, Behind, Planned, Loop, OfControl,
   OfSequence, ctls,
       atomics, Rest, Goto, Task, Only
<1>1. pc.sequence \notin {"idle", "take"} => run.gen # 0
  BY DEF Ownership, Running
<1>2. Token' = Token /\ Last' = Last
  BY DEF Token, Last
<1>3. pc.sequence \in {"decide", "clean", "end"} /\ status'.gen = run.gen => word' = word
  BY <1>1 DEF Words, TerminalIn, Open, Terminals
<1>4. Due' = Due /\ (At({"decide", "clean", "end"})' /\ status'.gen = run'.gen =>
                    At({"decide", "clean", "end"}) /\ status.gen = run.gen /\ word' = word)
  BY <1>1, <1>3
<1>5. Due' => Due
  OBVIOUS
<1>6. QED
  BY <1>2, <1>4, <1>5, SMTT(60)

\* Nothing runs while a sequence starts.
LEMMA AccountsBlank ==
    ASSUME TypeOK, pc'.sequence \in {"idle", "take"}, ghost'.reports = 0, ghost'.waited = 0
    PROVE  Accounts'
<1>0. /\ pc \in [control : ControlPoint, sequence : SequencePoint]
      /\ next \in Nat /\ reserved \in Nat /\ runnable \in Nat
  BY DEF TypeOK
<1> USE <1>0, Fields DEF Accounts, In, At, Due, Before, Behind, Planned, Loop, OfControl,
   OfSequence, ctls,
       atomics, Rest, Goto, Task, Only
<1>1. QED
  OBVIOUS

\* Reports and waits are counted where the schedule counts them.
LEMMA AccountsStep ==
    TypeOK /\ Ownership /\ Simulation /\ Words /\ Accounts /\ [Next]_vars => Accounts'
<1> SUFFICES ASSUME TypeOK, Ownership, Simulation, Words, Accounts, [Next]_vars PROVE Accounts'
  OBVIOUS
<1>0. /\ pc \in [control : ControlPoint, sequence : SequencePoint]
      /\ next \in Nat /\ reserved \in Nat /\ runnable \in Nat
  BY DEF TypeOK
<1> USE <1>0, Fields DEF Accounts, In, At, Due, Before, Behind, Planned, Loop, OfControl,
   OfSequence, ctls,
       atomics, Rest, Goto, Task, Only
<1>1. CASE Start
  <2>1. UNCHANGED <<run, plan, runnable>> /\ pc'.sequence = pc.sequence
        /\ pc'.control \notin Planned
    BY <1>1 DEF Start
  <2>2. status'.gen \in {status.gen, 0}
    BY <1>1, Records DEF Start
  <2>3. ghost'.reports = ghost.reports /\ ghost'.waited = ghost.waited
    BY <1>1, Records DEF Start
  <2>4. word' = word \/ (Open(word) /\ UNCHANGED status)
    BY <1>1 DEF Start
  <2>5. QED
    BY <2>1, <2>2, <2>3, <2>4, AccountsKept
<1>2. CASE Admit
  <2>1. UNCHANGED <<run, plan, runnable>> /\ pc'.sequence = pc.sequence
        /\ pc'.control \notin Planned
    BY <1>2 DEF Admit
  <2>2. status'.gen \in {status.gen, 0}
    BY <1>2, Records DEF Admit
  <2>3. ghost'.reports = ghost.reports /\ ghost'.waited = ghost.waited
    BY <1>2, Records DEF Admit
  <2>4. word' = word \/ (Open(word) /\ UNCHANGED status)
    BY <1>2 DEF Admit
  <2>5. QED
    BY <2>1, <2>2, <2>3, <2>4, AccountsKept
<1>3. CASE AdmitRefused
  <2>1. UNCHANGED <<run, plan, runnable>> /\ pc'.sequence = pc.sequence
        /\ pc'.control \notin Planned
    BY <1>3 DEF AdmitRefused
  <2>2. status'.gen \in {status.gen, 0}
    BY <1>3, Records DEF AdmitRefused
  <2>3. ghost'.reports = ghost.reports /\ ghost'.waited = ghost.waited
    BY <1>3, Records DEF AdmitRefused
  <2>4. word' = word \/ (Open(word) /\ UNCHANGED status)
    BY <1>3 DEF AdmitRefused
  <2>5. QED
    BY <2>1, <2>2, <2>3, <2>4, AccountsKept
<1>4. CASE Reject
  <2>1. UNCHANGED <<run, plan, runnable>> /\ pc'.sequence = pc.sequence
        /\ pc'.control \notin Planned
    BY <1>4 DEF Reject, EndSequence
  <2>2. status'.gen \in {status.gen, 0}
    BY <1>4, Records DEF Reject, EndSequence
  <2>3. ghost'.reports = ghost.reports /\ ghost'.waited = ghost.waited
    BY <1>4, Records DEF Reject, EndSequence
  <2>4. word' = word \/ (Open(word) /\ UNCHANGED status)
    BY <1>4 DEF Reject, EndSequence
  <2>5. QED
    BY <2>1, <2>2, <2>3, <2>4, AccountsKept
<1>5. CASE Unreserve
  <2>1. UNCHANGED <<run, plan, runnable>> /\ pc'.sequence = pc.sequence
        /\ pc'.control \notin Planned
    BY <1>5 DEF Unreserve
  <2>2. status'.gen \in {status.gen, 0}
    BY <1>5, Records DEF Unreserve
  <2>3. ghost'.reports = ghost.reports /\ ghost'.waited = ghost.waited
    BY <1>5, Records DEF Unreserve
  <2>4. word' = word \/ (Open(word) /\ UNCHANGED status)
    BY <1>5 DEF Unreserve
  <2>5. QED
    BY <2>1, <2>2, <2>3, <2>4, AccountsKept
<1>6. CASE Plan
  <2>1. pc.control = "plan" /\ pc'.sequence = pc.sequence
    BY <1>6 DEF Plan
  <2>2. pc.sequence \in {"idle", "take"}
    BY <2>1 DEF Ownership, Running, Starting
  <2>3. ghost'.reports = 0 /\ ghost'.waited = 0
    BY <1>6, Records DEF Plan
  <2>4. QED
    BY <2>1, <2>2, <2>3, AccountsBlank
<1>7. CASE Withdraw
  <2>1. pc.control \in Planned /\ pc'.sequence = pc.sequence /\ ghost' = ghost
    BY <1>7 DEF Withdraw
  <2>2. pc.sequence \in {"idle", "take"}
    BY <2>1 DEF Ownership, Running, Starting
  <2>3. QED
    BY <2>1, <2>2, AccountsBlank
<1>8. CASE Record
  <2>1. pc.control \in Planned /\ pc'.sequence = pc.sequence /\ ghost' = ghost
    BY <1>8 DEF Record
  <2>2. pc.sequence \in {"idle", "take"}
    BY <2>1 DEF Ownership, Running, Starting
  <2>3. QED
    BY <2>1, <2>2, AccountsBlank
<1>9. CASE Commit
  <2>1. pc.control \in Planned /\ pc'.sequence = pc.sequence /\ ghost' = ghost
    BY <1>9 DEF Commit
  <2>2. pc.sequence \in {"idle", "take"}
    BY <2>1 DEF Ownership, Running, Starting
  <2>3. QED
    BY <2>1, <2>2, AccountsBlank
<1>10. CASE Arm
  <2>1. UNCHANGED <<run, plan, status, word, ghost>> /\ pc'.sequence = pc.sequence
    BY <1>10 DEF Arm
  <2>2. CASE pc.control = "arm"
    <3>1. pc.sequence \in {"idle", "take"}
      BY <2>2 DEF Ownership, Running, Starting
    <3>2. QED
      BY <2>1, <2>2, <3>1, AccountsBlank
  <2>3. CASE pc.control # "arm"
    <3>1. runnable' = runnable /\ pc'.control = "idle"
      BY <1>10, <2>3 DEF Arm
    <3>2. QED
      BY <2>1, <3>1, AccountsKept
  <2>4. QED
    BY <2>2, <2>3
<1>11. CASE Release
  <2>1. UNCHANGED <<run, plan, runnable>> /\ pc'.sequence = pc.sequence
        /\ pc'.control \notin Planned
    BY <1>11 DEF Release
  <2>2. status'.gen \in {status.gen, 0}
    BY <1>11, Records DEF Release
  <2>3. ghost'.reports = ghost.reports /\ ghost'.waited = ghost.waited
    BY <1>11, Records DEF Release
  <2>4. word' = word \/ (Open(word) /\ UNCHANGED status)
    BY <1>11 DEF Release
  <2>5. QED
    BY <2>1, <2>2, <2>3, <2>4, AccountsKept
<1>12. CASE Adopt
  <2>1. UNCHANGED <<run, plan, runnable>> /\ pc'.sequence = pc.sequence
        /\ pc'.control \notin Planned
    BY <1>12 DEF Adopt
  <2>2. status'.gen \in {status.gen, 0}
    BY <1>12, Records DEF Adopt
  <2>3. ghost'.reports = ghost.reports /\ ghost'.waited = ghost.waited
    BY <1>12, Records DEF Adopt
  <2>4. word' = word \/ (Open(word) /\ UNCHANGED status)
    BY <1>12 DEF Adopt
  <2>5. QED
    BY <2>1, <2>2, <2>3, <2>4, AccountsKept
<1>13. CASE Adopted
  <2>1. UNCHANGED <<run, plan, runnable>> /\ pc'.sequence = pc.sequence
        /\ pc'.control \notin Planned
    BY <1>13 DEF Adopted
  <2>2. status'.gen \in {status.gen, 0}
    BY <1>13, Records DEF Adopted
  <2>3. ghost'.reports = ghost.reports /\ ghost'.waited = ghost.waited
    BY <1>13, Records DEF Adopted
  <2>4. word' = word \/ (Open(word) /\ UNCHANGED status)
    BY <1>13 DEF Adopted
  <2>5. QED
    BY <2>1, <2>2, <2>3, <2>4, AccountsKept
<1>14. CASE AbortCheck
  <2>1. UNCHANGED <<run, plan, runnable>> /\ pc'.sequence = pc.sequence
        /\ pc'.control \notin Planned
    BY <1>14 DEF AbortCheck, Rested
  <2>2. status'.gen \in {status.gen, 0}
    BY <1>14, Records DEF AbortCheck, Rested
  <2>3. ghost'.reports = ghost.reports /\ ghost'.waited = ghost.waited
    BY <1>14, Records DEF AbortCheck, Rested
  <2>4. word' = word \/ (Open(word) /\ UNCHANGED status)
    BY <1>14 DEF AbortCheck, Rested
  <2>5. QED
    BY <2>1, <2>2, <2>3, <2>4, AccountsKept
<1>15. CASE Cancel
  <2>1. UNCHANGED <<run, plan, runnable>> /\ pc'.sequence = pc.sequence
        /\ pc'.control \notin Planned
    BY <1>15 DEF Cancel
  <2>2. status'.gen \in {status.gen, 0}
    BY <1>15, Records DEF Cancel
  <2>3. ghost'.reports = ghost.reports /\ ghost'.waited = ghost.waited
    BY <1>15, Records DEF Cancel
  <2>4. word' = word \/ (Open(word) /\ UNCHANGED status)
    BY <1>15 DEF Cancel
  <2>5. QED
    BY <2>1, <2>2, <2>3, <2>4, AccountsKept
<1>16. CASE Recheck
  <2>1. UNCHANGED <<run, plan, runnable>> /\ pc'.sequence = pc.sequence
        /\ pc'.control \notin Planned
    BY <1>16 DEF Recheck, Rested
  <2>2. status'.gen \in {status.gen, 0}
    BY <1>16, Records DEF Recheck, Rested
  <2>3. ghost'.reports = ghost.reports /\ ghost'.waited = ghost.waited
    BY <1>16, Records DEF Recheck, Rested
  <2>4. word' = word \/ (Open(word) /\ UNCHANGED status)
    BY <1>16 DEF Recheck, Rested
  <2>5. QED
    BY <2>1, <2>2, <2>3, <2>4, AccountsKept
<1>17. CASE Revoke
  <2>1. UNCHANGED <<run, plan, runnable>> /\ pc'.sequence = pc.sequence
        /\ pc'.control \notin Planned
    BY <1>17 DEF Revoke
  <2>2. status'.gen \in {status.gen, 0}
    BY <1>17, Records DEF Revoke
  <2>3. ghost'.reports = ghost.reports /\ ghost'.waited = ghost.waited
    BY <1>17, Records DEF Revoke
  <2>4. word' = word \/ (Open(word) /\ UNCHANGED status)
    BY <1>17 DEF Revoke
  <2>5. QED
    BY <2>1, <2>2, <2>3, <2>4, AccountsKept
<1>18. CASE Strike
  <2>1. UNCHANGED <<run, plan, runnable>> /\ pc'.sequence = pc.sequence
        /\ pc'.control \notin Planned
    BY <1>18 DEF Strike
  <2>2. status'.gen \in {status.gen, 0}
    BY <1>18, Records DEF Strike
  <2>3. ghost'.reports = ghost.reports /\ ghost'.waited = ghost.waited
    BY <1>18, Records DEF Strike
  <2>4. word' = word \/ (Open(word) /\ UNCHANGED status)
    BY <1>18 DEF Strike
  <2>5. QED
    BY <2>1, <2>2, <2>3, <2>4, AccountsKept
<1>19. CASE Stop
  <2>1. UNCHANGED <<run, plan, runnable>> /\ pc'.sequence = pc.sequence
        /\ pc'.control \notin Planned
    BY <1>19 DEF Stop, Rested
  <2>2. status'.gen \in {status.gen, 0}
    BY <1>19, Records DEF Stop, Rested
  <2>3. ghost'.reports = ghost.reports /\ ghost'.waited = ghost.waited
    BY <1>19, Records DEF Stop, Rested
  <2>4. word' = word \/ (Open(word) /\ UNCHANGED status)
    BY <1>19 DEF Stop, Rested
  <2>5. QED
    BY <2>1, <2>2, <2>3, <2>4, AccountsKept
<1>20. CASE Safety
  <2>1. UNCHANGED <<run, plan, runnable>> /\ pc'.sequence = pc.sequence
        /\ pc'.control \notin Planned
    BY <1>20 DEF Safety, Requested, Rested
  <2>2. status'.gen \in {status.gen, 0}
    BY <1>20, Records DEF Safety, Requested, Rested
  <2>3. ghost'.reports = ghost.reports /\ ghost'.waited = ghost.waited
    BY <1>20, Records DEF Safety, Requested, Rested
  <2>4. word' = word \/ (Open(word) /\ UNCHANGED status)
    BY <1>20 DEF Safety, Requested, Rested
  <2>5. QED
    BY <2>1, <2>2, <2>3, <2>4, AccountsKept
<1>21. CASE ReleaseAll
  <2>1. UNCHANGED <<run, plan, runnable>> /\ pc'.sequence = pc.sequence
        /\ pc'.control \notin Planned
    BY <1>21 DEF ReleaseAll
  <2>2. status'.gen \in {status.gen, 0}
    BY <1>21, Records DEF ReleaseAll
  <2>3. ghost'.reports = ghost.reports /\ ghost'.waited = ghost.waited
    BY <1>21, Records DEF ReleaseAll
  <2>4. word' = word \/ (Open(word) /\ UNCHANGED status)
    BY <1>21 DEF ReleaseAll
  <2>5. QED
    BY <2>1, <2>2, <2>3, <2>4, AccountsKept
<1>22. CASE Hello
  <2>1. UNCHANGED <<run, plan, runnable>> /\ pc'.sequence = pc.sequence
        /\ pc'.control \notin Planned
    BY <1>22 DEF Hello
  <2>2. status'.gen \in {status.gen, 0}
    BY <1>22, Records DEF Hello
  <2>3. ghost'.reports = ghost.reports /\ ghost'.waited = ghost.waited
    BY <1>22, Records DEF Hello
  <2>4. word' = word \/ (Open(word) /\ UNCHANGED status)
    BY <1>22 DEF Hello
  <2>5. QED
    BY <2>1, <2>2, <2>3, <2>4, AccountsKept
<1>23. CASE TakeOver
  <2>1. UNCHANGED <<run, plan, runnable>> /\ pc'.sequence = pc.sequence
        /\ pc'.control \notin Planned
    BY <1>23 DEF TakeOver, Leave
  <2>2. status'.gen \in {status.gen, 0}
    BY <1>23, Records DEF TakeOver, Leave
  <2>3. ghost'.reports = ghost.reports /\ ghost'.waited = ghost.waited
    BY <1>23, Records DEF TakeOver, Leave
  <2>4. word' = word \/ (Open(word) /\ UNCHANGED status)
    BY <1>23 DEF TakeOver, Leave
  <2>5. QED
    BY <2>1, <2>2, <2>3, <2>4, AccountsKept
<1>24. CASE LeaseExpires
  <2>1. UNCHANGED <<run, plan, runnable>> /\ pc'.sequence = pc.sequence
        /\ pc'.control \notin Planned
    BY <1>24 DEF LeaseExpires, Leave
  <2>2. status'.gen \in {status.gen, 0}
    BY <1>24, Records DEF LeaseExpires, Leave
  <2>3. ghost'.reports = ghost.reports /\ ghost'.waited = ghost.waited
    BY <1>24, Records DEF LeaseExpires, Leave
  <2>4. word' = word \/ (Open(word) /\ UNCHANGED status)
    BY <1>24 DEF LeaseExpires, Leave
  <2>5. QED
    BY <2>1, <2>2, <2>3, <2>4, AccountsKept
<1>25. CASE Invalidated
  <2>1. UNCHANGED <<run, plan, runnable>> /\ pc'.sequence = pc.sequence
        /\ pc'.control \notin Planned
    BY <1>25 DEF Invalidated, Leave
  <2>2. status'.gen \in {status.gen, 0}
    BY <1>25, Records DEF Invalidated, Leave
  <2>3. ghost'.reports = ghost.reports /\ ghost'.waited = ghost.waited
    BY <1>25, Records DEF Invalidated, Leave
  <2>4. word' = word \/ (Open(word) /\ UNCHANGED status)
    BY <1>25 DEF Invalidated, Leave
  <2>5. QED
    BY <2>1, <2>2, <2>3, <2>4, AccountsKept
<1>26. CASE SafetyFailure
  <2>1. UNCHANGED <<run, plan, runnable>> /\ pc'.sequence = pc.sequence
        /\ pc'.control \notin Planned
    BY <1>26 DEF SafetyFailure, Leave
  <2>2. status'.gen \in {status.gen, 0}
    BY <1>26, Records DEF SafetyFailure, Leave
  <2>3. ghost'.reports = ghost.reports /\ ghost'.waited = ghost.waited
    BY <1>26, Records DEF SafetyFailure, Leave
  <2>4. word' = word \/ (Open(word) /\ UNCHANGED status)
    BY <1>26 DEF SafetyFailure, Leave
  <2>5. QED
    BY <2>1, <2>2, <2>3, <2>4, AccountsKept
<1>27. CASE RetireOwner
  <2>1. UNCHANGED <<run, plan, runnable>> /\ pc'.sequence = pc.sequence
        /\ pc'.control \notin Planned
    BY <1>27 DEF RetireOwner, Rested
  <2>2. status'.gen \in {status.gen, 0}
    BY <1>27, Records DEF RetireOwner, Rested
  <2>3. ghost'.reports = ghost.reports /\ ghost'.waited = ghost.waited
    BY <1>27, Records DEF RetireOwner, Rested
  <2>4. word' = word \/ (Open(word) /\ UNCHANGED status)
    BY <1>27 DEF RetireOwner, Rested
  <2>5. QED
    BY <2>1, <2>2, <2>3, <2>4, AccountsKept
<1>28. CASE Wake
  <2>1. UNCHANGED <<runnable, plan, status, word, ghost, run>> /\ pc'.control = pc.control
        /\ pc.sequence = "idle" /\ pc'.sequence = "take"
    BY <1>28 DEF Wake
  <2>2. QED
    BY <2>1
<1>29. CASE Take
  <2>1. UNCHANGED <<plan, status, word, ghost>> /\ pc'.control = pc.control /\ runnable' = 0
        /\ pc.sequence = "take" /\ pc'.sequence = IF runnable = 0 THEN "idle" ELSE "enter"
    BY <1>29 DEF Take
  <2>2. run'.delay = 0
    BY <1>29 DEF Take, NoRun
  <2>3. QED
    BY <2>1, <2>2
<1>30. CASE Enter
  <2>1. UNCHANGED <<runnable, plan, status, word, ghost, run>> /\ pc'.control = pc.control
        /\ pc.sequence = "enter" /\ pc'.sequence = IF status.gen = run.gen THEN "begin" ELSE "end"
    BY <1>30 DEF Enter
  <2>2. QED
    BY <2>1
<1>31. CASE BeginRun
  <2>1. UNCHANGED <<plan, status, runnable, ghost>> /\ pc'.control = pc.control
        /\ pc.sequence = "begin" /\ pc'.sequence \in {"check", "refused"}
    BY <1>31 DEF BeginRun
  <2>2. run'.index = 1 /\ run'.index - 1 = 0 /\ run'.delay = run.delay
    BY <1>31, Records DEF BeginRun
  <2>3. ghost.reports = 0 /\ ghost.waited = 0 /\ run.delay = 0
    BY <2>1
  <2>4. Scheduled(plan.code)[0].ms = 0 /\ Scheduled(plan.code)[0].delay = 0
    <3>1. Scheduled(plan.code)[0] = [delay |-> 0, ms |-> 0]
      BY PlanCode, ScheduledFacts, Zenon
    <3>2. QED
      BY <3>1
  <2>5. HidsOf(plan.code, 0) = 0
    BY HidsFacts
  <2>6. QED
    BY <2>1, <2>2, <2>3, <2>4, <2>5
<1>32. CASE Refused
  <2>1. UNCHANGED <<runnable, plan, status, word, ghost, run>> /\ pc'.control = pc.control
        /\ pc.sequence = "refused" /\ pc'.sequence \in {"clean", "end"}
    BY <1>32 DEF Refused
  <2>2. word.st = "aborted" /\ word.executed = 0
    BY <2>1 DEF Words
  <2>3. HidsOf(plan.code, 0) = 0
    BY HidsFacts
  <2>4. QED
    BY <2>1, <2>2, <2>3
<1>33. CASE Check("check")
  <2>1. UNCHANGED <<plan, status>> /\ runnable' = 0 /\ pc'.control \notin Planned
        /\ pc.sequence \in Loop
        /\ run'.gen = run.gen
    BY <1>33, LoopCalm DEF LoopStep, Starting
  <2>2. pc.sequence = "check" /\ pc'.sequence = "authority"
    BY <1>33, Records DEF Check
  <2>3. run'.index = run.index /\ run'.delay = run.delay /\ run'.ret = run.ret
    BY <1>33, Records DEF Check
  <2>4. ghost' = ghost
    BY <1>33, Records DEF Check
  <2>5. Token' = Token /\ Last' = Last
    BY <2>1, <2>3 DEF Token, Last
  <2>6. QED
    BY <2>1, <2>2, <2>3, <2>4, <2>5
<1>34. CASE Authority("authority", "token")
  <2>1. UNCHANGED <<plan, status>> /\ runnable' = 0 /\ pc'.control \notin Planned
        /\ pc.sequence \in Loop
        /\ run'.gen = run.gen
    BY <1>34, LoopCalm DEF LoopStep, Starting
  <2>2. pc.sequence = "authority" /\ pc'.sequence \in {"token", "final"}
    BY <1>34, Records DEF Authority
  <2>3. run'.index = run.index /\ run'.delay = run.delay /\ run'.ret = run.ret
    BY <1>34, Records DEF Authority, Stopped
  <2>4. ghost' = ghost
    BY <1>34, Records DEF Authority
  <2>5. Token' = Token /\ Last' = Last
    BY <2>1, <2>3 DEF Token, Last
  <2>6. QED
    BY <2>1, <2>2, <2>3, <2>4, <2>5
<1>35. CASE pc.sequence = "token" /\ Execute
  <2>1. UNCHANGED <<plan, status>> /\ runnable' = 0 /\ pc'.control \notin Planned
        /\ pc.sequence \in Loop
        /\ run'.gen = run.gen
    BY <1>35, LoopCalm DEF LoopStep, Starting
  <2>2. CASE Token.op = "delay"
    <3>1. pc.sequence = "token" /\ pc'.sequence = "after" /\ ghost' = ghost
      BY <1>35, <2>2 DEF Execute
    <3>2. run'.index = run.index /\ run'.delay = Token.v /\ run'.ret = run.ret
      BY <1>35, <2>2, Records DEF Execute
    <3>3. Token' = Token /\ Last' = Last
      BY <2>1, <3>2 DEF Token, Last
    <3>4. QED
      BY <2>1, <2>2, <3>1, <3>2, <3>3, Reckoned
  <2>3. CASE Token.op = "wait"
    <3>1. pc.sequence = "token" /\ pc'.sequence = "wait" /\ ghost' = ghost
      BY <1>35, <2>3 DEF Execute
    <3>2. run'.index = run.index /\ run'.delay = run.delay /\ run'.ret = "after"
      BY <1>35, <2>3, Records DEF Execute
    <3>3. Token' = Token /\ Last' = Last
      BY <2>1, <3>2 DEF Token, Last
    <3>4. QED
      BY <2>1, <2>3, <3>1, <3>2, <3>3, Reckoned
  <2>4. CASE Token.op \notin {"delay", "wait"}
    <3>1. pc.sequence = "token" /\ pc'.sequence = "report" /\ ghost' = ghost
      BY <1>35, <2>4 DEF Execute
    <3>2. run'.index = run.index /\ run'.delay = run.delay /\ run'.ret = run.ret
      <4>1. \E h : run' = [run EXCEPT !.hid = h, !.code = "none"]
        BY <1>35, <2>4 DEF Execute
      <4>2. QED
        BY <4>1, Records
    <3>3. Token' = Token /\ Last' = Last
      BY <2>1, <3>2 DEF Token, Last
    <3>4. QED
      BY <2>1, <2>4, <3>1, <3>2, <3>3, Reckoned
  <2>5. QED
    BY <2>2, <2>3, <2>4
<1>36. CASE Report
  <2>1. UNCHANGED <<plan, status>> /\ runnable' = 0 /\ pc'.control \notin Planned
        /\ pc.sequence \in Loop
        /\ run'.gen = run.gen
    BY <1>36, LoopCalm DEF LoopStep, Starting
  <2>2. run'.index = run.index /\ run'.delay = run.delay /\ pc.sequence = "report"
    BY <1>36, Records DEF Report, Accepted, Answered, Failed
  <2>3. Token' = Token /\ Last' = Last
    BY <2>1, <2>2 DEF Token, Last
  <2>4. CASE ghost' = ghost
    <3>1. (pc'.sequence = "wait" /\ run'.ret = "report") \/ pc'.sequence = "incomplete"
      <4>1. ghost'.reports = ghost.reports
        BY <2>4
      <4>2. \A to : ~Accepted(to)
        <5>1. \A to : Accepted(to) => ghost'.reports = ghost.reports + 1
          BY Records DEF Accepted
        <5>2. \A n \in Nat : n + 1 # n
          OBVIOUS
        <5>3. QED
          BY <4>1, <5>1, <5>2
      <4>3. QED
        BY <1>36, <4>2, Records DEF Report, Answered
    <3>2. QED
      BY <2>1, <2>2, <2>3, <2>4, <3>1, Reckoned
  <2>5. CASE ghost' # ghost
    <3>1. \/ /\ Accepted(IF Last THEN "after" ELSE "wait")
             /\ run' = [run EXCEPT !.ret = "after", !.busy = 0]
          \/ Accepted("incomplete")
      BY <1>36, <2>5 DEF Report, Answered
    <3>2. ghost'.reports = ghost.reports + 1 /\ ghost'.waited = ghost.waited
      BY <3>1, Records DEF Accepted
    <3>3. \/ pc'.sequence = IF Last THEN "after" ELSE "wait"
          \/ pc'.sequence = "incomplete"
      BY <3>1 DEF Accepted
    <3>4. pc'.sequence = "wait" => ~Last /\ run'.ret = "after"
      BY <3>1, Records DEF Accepted
    <3>5. pc'.sequence = "after" => Last
      BY <3>1 DEF Accepted
    <3>6. IsHid(Token)
      BY <2>2
    <3>7. /\ run.index \in Nat \ {0} /\ HidsOf(plan.code, run.index - 1) \in Nat
          /\ HidsOf(plan.code, run.index) = HidsOf(plan.code, run.index - 1) + 1
          /\ Scheduled(plan.code)[run.index].delay = Scheduled(plan.code)[run.index - 1].delay
          /\ Last => Scheduled(plan.code)[run.index].ms = Scheduled(plan.code)[run.index - 1].ms
      BY <2>1, <3>6, Reckoned
    <3>8. /\ ghost.reports = HidsOf(plan.code, run.index - 1)
          /\ ghost.waited = Scheduled(plan.code)[run.index - 1].ms
          /\ run.delay = Scheduled(plan.code)[run.index - 1].delay
      BY <2>2
    <3>9. ghost'.reports = HidsOf(plan.code, run.index)
      BY <3>2, <3>7, <3>8
    <3>10. CASE pc'.sequence = "after"
      BY <2>1, <2>2, <3>2, <3>5, <3>7, <3>8, <3>9, <3>10
    <3>11. CASE pc'.sequence = "wait"
      BY <2>1, <2>2, <2>3, <3>2, <3>4, <3>6, <3>8, <3>9, <3>11
    <3>12. CASE pc'.sequence = "incomplete"
      BY <2>1, <2>2, <3>9, <3>12
    <3>13. QED
      BY <3>3, <3>10, <3>11, <3>12
  <2>6. QED
    BY <2>4, <2>5
<1>37. CASE Wait
  <2>1. UNCHANGED <<plan, status>> /\ runnable' = 0 /\ pc'.control \notin Planned
        /\ pc.sequence \in Loop
        /\ run'.gen = run.gen
    BY <1>37, LoopCalm DEF LoopStep, Starting
  <2>2. run' = run /\ pc.sequence = "wait"
    BY <1>37 DEF Wait
  <2>3. Token' = Token /\ Last' = Last
    BY <2>1, <2>2 DEF Token, Last
  <2>4. CASE ghost' = ghost /\ pc'.sequence = "incomplete"
    BY <2>1, <2>2, <2>3, <2>4
  <2>5. CASE pc'.sequence # "incomplete"
    <3>1. pc'.sequence = run.ret /\ run.ret \in {"report", "after"}
      BY <1>37, <2>2, <2>5 DEF Wait, Simulation
    <3>2. ghost' = [ghost EXCEPT !.waited =
                      IF run.ret = "report" THEN ghost.waited
                      ELSE ghost.waited + (IF Token.op = "wait" THEN Token.v ELSE run.delay)]
      BY <1>37, <2>5 DEF Wait
    <3>3. /\ ghost'.reports = ghost.reports
          /\ ghost'.waited = IF run.ret = "report" THEN ghost.waited
                             ELSE ghost.waited + (IF Token.op = "wait" THEN Token.v ELSE run.delay)
      BY <3>2, Records
    <3>4. CASE run.ret = "report"
      BY <2>1, <2>2, <2>3, <3>1, <3>3, <3>4
    <3>5. CASE run.ret = "after"
      <4>1. /\ Token.op = "wait" \/ (IsHid(Token) /\ ~Last)
            /\ ghost.reports = HidsOf(plan.code, run.index)
            /\ ghost.waited = Scheduled(plan.code)[run.index - 1].ms
            /\ run.delay = Scheduled(plan.code)[run.index - 1].delay
        BY <2>2, <3>5
      <4>2. /\ Token.op = "wait" =>
                 /\ Scheduled(plan.code)[run.index].ms = Scheduled(plan.code)[run.index - 1].ms + Token.v
                 /\ Scheduled(plan.code)[run.index].delay = Scheduled(plan.code)[run.index - 1].delay
            /\ IsHid(Token) /\ ~Last =>
                 /\ Scheduled(plan.code)[run.index].ms =
                      Scheduled(plan.code)[run.index - 1].ms + Scheduled(plan.code)[run.index - 1].delay
                 /\ Scheduled(plan.code)[run.index].delay = Scheduled(plan.code)[run.index - 1].delay
                 /\ Token.op # "wait"
        BY <2>1, Reckoned
      <4>3. ghost'.waited = Scheduled(plan.code)[run.index].ms
            /\ run.delay = Scheduled(plan.code)[run.index].delay
        BY <3>3, <3>5, <4>1, <4>2
      <4>4. QED
        BY <2>1, <2>2, <3>1, <3>3, <3>5, <4>1, <4>3
    <3>6. QED
      BY <3>1, <3>4, <3>5
  <2>6. QED
    BY <1>37, <2>4, <2>5 DEF Wait
<1>38. CASE Incomplete
  <2>1. UNCHANGED <<plan, status>> /\ runnable' = 0 /\ pc'.control \notin Planned
        /\ pc.sequence \in Loop
        /\ run'.gen = run.gen
    BY <1>38, LoopCalm DEF LoopStep, Starting
  <2>2. pc.sequence \in {"incomplete", "incompleteAuthority"}
        /\ pc'.sequence \in {"incompleteAuthority", "final"}
    BY <1>38, Records DEF Incomplete
  <2>3. run'.index = run.index /\ run'.delay = run.delay /\ run'.ret = run.ret
    BY <1>38, Records DEF Incomplete, Stopped
  <2>4. ghost' = ghost
    BY <1>38, Records DEF Incomplete
  <2>5. Token' = Token /\ Last' = Last
    BY <2>1, <2>3 DEF Token, Last
  <2>6. QED
    BY <2>1, <2>2, <2>3, <2>4, <2>5
<1>39. CASE Check("after")
  <2>1. UNCHANGED <<plan, status>> /\ runnable' = 0 /\ pc'.control \notin Planned
        /\ pc.sequence \in Loop
        /\ run'.gen = run.gen
    BY <1>39, LoopCalm DEF LoopStep, Starting
  <2>2. pc.sequence = "after" /\ pc'.sequence = "authorityAfter"
    BY <1>39, Records DEF Check
  <2>3. run'.index = run.index /\ run'.delay = run.delay /\ run'.ret = run.ret
    BY <1>39, Records DEF Check
  <2>4. ghost' = ghost
    BY <1>39, Records DEF Check
  <2>5. Token' = Token /\ Last' = Last
    BY <2>1, <2>3 DEF Token, Last
  <2>6. QED
    BY <2>1, <2>2, <2>3, <2>4, <2>5
<1>40. CASE Authority("authorityAfter", "progress")
  <2>1. UNCHANGED <<plan, status>> /\ runnable' = 0 /\ pc'.control \notin Planned
        /\ pc.sequence \in Loop
        /\ run'.gen = run.gen
    BY <1>40, LoopCalm DEF LoopStep, Starting
  <2>2. pc.sequence = "authorityAfter" /\ pc'.sequence \in {"progress", "final"}
    BY <1>40, Records DEF Authority
  <2>3. run'.index = run.index /\ run'.delay = run.delay /\ run'.ret = run.ret
    BY <1>40, Records DEF Authority, Stopped
  <2>4. ghost' = ghost
    BY <1>40, Records DEF Authority
  <2>5. Token' = Token /\ Last' = Last
    BY <2>1, <2>3 DEF Token, Last
  <2>6. QED
    BY <2>1, <2>2, <2>3, <2>4, <2>5
<1>41. CASE Progress
  <2>1. UNCHANGED <<plan, status>> /\ runnable' = 0 /\ pc'.control \notin Planned
        /\ pc.sequence \in Loop
        /\ run'.gen = run.gen
    BY <1>41, LoopCalm DEF LoopStep, Starting
  <2>2. pc.sequence = "progress" /\ pc'.sequence \in {"complete", "publish"}
    BY <1>41, Records DEF Progress
  <2>3. run'.index = run.index /\ run'.delay = run.delay /\ run'.ret = run.ret
    BY <1>41, Records DEF Progress
  <2>4. ghost' = ghost
    BY <1>41, Records DEF Progress
  <2>5. Token' = Token /\ Last' = Last
    BY <2>1, <2>3 DEF Token, Last
  <2>6. QED
    BY <2>1, <2>2, <2>3, <2>4, <2>5
<1>42. CASE Publish
  <2>1. UNCHANGED <<plan, status>> /\ runnable' = 0 /\ pc'.control \notin Planned
        /\ pc.sequence \in Loop
        /\ run'.gen = run.gen
    BY <1>42, LoopCalm DEF LoopStep, Starting
  <2>2. ghost' = ghost
    BY <1>42 DEF Publish
  <2>3. CASE pc'.sequence = "check"
    <3>1. pc.sequence = "publishWord" /\ run'.index = run.index + 1 /\ run'.delay = run.delay
      BY <1>42, <2>3, Records DEF Publish
    <3>2. run'.index - 1 = run.index
      <4>1. \A n \in Nat : (n + 1) - 1 = n
        OBVIOUS
      <4>2. QED
        BY <3>1, <4>1, Zenon
    <3>3. QED
      BY <2>1, <2>2, <2>3, <3>1, <3>2
  <2>4. CASE pc'.sequence # "check"
    <3>1. /\ pc.sequence \in {"publish", "publishWord"}
          /\ pc'.sequence \in {"publishWord", "final"}
          /\ UNCHANGED run
      BY <1>42, <2>4 DEF Publish
    <3>2. QED
      BY <2>1, <2>2, <3>1
  <2>5. QED
    BY <2>3, <2>4
<1>43. CASE Complete
  <2>1. UNCHANGED <<plan, status>> /\ runnable' = 0 /\ pc'.control \notin Planned
        /\ pc.sequence \in Loop
        /\ run'.gen = run.gen
    BY <1>43, LoopCalm DEF LoopStep, Starting
  <2>2. ghost' = ghost /\ run' = run /\ pc.sequence \in {"complete", "completeWord"}
        /\ pc'.sequence \in {"completeWord", "final", "decide"}
    BY <1>43 DEF Complete, Claim, ClaimCheck
  <2>3. CASE pc'.sequence = "decide"
    <3>1. pc.sequence = "completeWord" /\ word' = ClaimWord(Plain("completed", run.executed))
      BY <1>43, <2>3 DEF Complete, Claim, ClaimCheck
    <3>2. Plain("completed", run.executed).st = "completed"
      BY PlainFacts
    <3>3. word.st \in {"running", "aborted"} /\ word.executed = run.index - 1
          /\ run.index = Len(plan.code)
      BY <3>1 DEF Words, Simulation
    <3>4. word'.st = "completed" \/ (word'.st = "aborted" /\ word'.executed = run.index - 1)
      BY <3>1, <3>2, <3>3 DEF ClaimWord
    <3>5. word'.st = "aborted" => word'.executed + 1 = run.index
      <4>1. \A n \in Nat : (n - 1) + 1 = n
        OBVIOUS
      <4>2. QED
        BY <3>4, <4>1
    <3>6. QED
      BY <2>1, <2>2, <2>3, <3>1, <3>3, <3>4, <3>5
  <2>4. CASE pc'.sequence # "decide"
    BY <2>1, <2>2, <2>4
  <2>5. QED
    BY <2>3, <2>4
<1>44. CASE Final
  <2>1. UNCHANGED <<plan, status>> /\ runnable' = 0 /\ pc'.control \notin Planned
        /\ pc.sequence \in Loop
        /\ run'.gen = run.gen
    BY <1>44, LoopCalm DEF LoopStep, Starting
  <2>2. ghost' = ghost /\ run' = run /\ pc.sequence \in {"final", "finalWord"}
        /\ pc'.sequence \in {"finalWord", "decide"}
    BY <1>44 DEF Final, Claim, ClaimCheck
  <2>3. CASE pc'.sequence = "decide" /\ status.gen = run.gen
    <3> DEFINE w == Word(run.st, run.executed, IF Failure THEN run.failed ELSE 0,
                         IF Failure THEN run.code ELSE "none", FALSE)
    <3>1. IF pc.sequence = "finalWord" THEN word' = ClaimWord(w)
          ELSE word' = word /\ TerminalIn(word)
      BY <1>44, <2>3 DEF Final, Claim, ClaimCheck
    <3>2. pc.sequence = "finalWord" => w.st \in {"failed", "aborted"}
          /\ w.executed = run.index - 1
      BY DEF Words, Word
    <3> HIDE DEF w
    <3>3. word.st \in {"running", "aborted"} /\ word.executed = run.index - 1
      BY <2>2 DEF Words
    <3>4. word'.st # "completed" /\ word'.executed = run.index - 1
      BY <3>1, <3>2, <3>3, <2>2 DEF ClaimWord, TerminalIn, Terminals
    <3>5. word'.executed + 1 = run.index
      <4>1. \A n \in Nat : (n - 1) + 1 = n
        OBVIOUS
      <4>2. QED
        BY <3>4, <4>1
    <3>6. QED
      BY <2>1, <2>2, <2>3, <3>4, <3>5
  <2>4. CASE ~(pc'.sequence = "decide" /\ status.gen = run.gen)
    BY <2>1, <2>2, <2>4
  <2>5. QED
    BY <2>3, <2>4
<1>45. CASE Decide
  <2>1. UNCHANGED <<runnable, plan, status, word, ghost, run>> /\ pc'.control = pc.control
        /\ pc.sequence = "decide" /\ pc'.sequence \in {"clean", "end"}
    BY <1>45 DEF Decide
  <2>2. QED
    BY <2>1
<1>46. CASE Clean
  <2>1. UNCHANGED <<runnable, plan, status, word, run>> /\ pc'.control = pc.control
        /\ pc.sequence = "clean" /\ pc'.sequence = "end"
    BY <1>46 DEF Clean
  <2>2. ghost'.reports = ghost.reports /\ ghost'.waited = ghost.waited
    BY <1>46, Records DEF Clean
  <2>3. QED
    BY <2>1, <2>2
<1>47. CASE End
  <2>1. UNCHANGED <<runnable, plan, status, word, run, ghost>> /\ pc'.control = pc.control
        /\ pc.sequence = "end" /\ pc'.sequence = "free"
    BY <1>47 DEF End
  <2>2. QED
    BY <2>1
<1>48. CASE Free
  <2>1. pc'.sequence = "idle"
    BY <1>48 DEF Free
  <2>2. ghost'.reports = 0 /\ ghost'.waited = 0
    BY <1>48, Records DEF Free
  <2>3. QED
    BY <2>1, <2>2, AccountsBlank
<1>49. CASE Doze
  <2>1. UNCHANGED <<run, plan, runnable, status, word, ghost, pc>>
    BY <1>49 DEF Doze
  <2>2. Token' = Token /\ Last' = Last
    BY <2>1 DEF Token, Last
  <2>3. QED
    BY <2>1, <2>2
<1>50. CASE CutAuthority
  <2>1. UNCHANGED <<run, plan, runnable, status, word, ghost, pc>>
    BY <1>50 DEF CutAuthority
  <2>2. Token' = Token /\ Last' = Last
    BY <2>1 DEF Token, Last
  <2>3. QED
    BY <2>1, <2>2
<1>51. CASE Settle
  <2>1. UNCHANGED <<run, plan, runnable, status, word, ghost, pc>>
    BY <1>51 DEF Settle
  <2>2. Token' = Token /\ Last' = Last
    BY <2>1 DEF Token, Last
  <2>3. QED
    BY <2>1, <2>2
<1>52. CASE UNCHANGED vars
  <2>1. UNCHANGED <<run, plan, runnable, status, word, ghost, pc>>
    BY <1>52 DEF vars
  <2>2. Token' = Token /\ Last' = Last
    BY <2>1 DEF Token, Last
  <2>3. QED
    BY <2>1, <2>2
<1>53. QED
  BY <1>1, <1>2, <1>3, <1>4, <1>5, <1>6, <1>7, <1>8, <1>9, <1>10, <1>11, <1>12, <1>13, <1>14,
     <1>15, <1>16, <1>17, <1>18, <1>19, <1>20, <1>21, <1>22, <1>23, <1>24, <1>25, <1>26, <1>27,
     <1>28, <1>29, <1>30, <1>31, <1>32, <1>33, <1>34, <1>35, <1>36, <1>37, <1>38, <1>39, <1>40,
     <1>41, <1>42, <1>43, <1>44, <1>45, <1>46, <1>47, <1>48, <1>49, <1>50, <1>51, <1>52
     DEF Next, Control, Run

\* The record of a sequence that needs no cleanup of its own, and of one whose
\* cleanup is a release's.
Fulfilled == word.st = "completed" /\ word.executed = Len(plan.code)
Handed    == word.st = "completed" \/ (word.st = "aborted" /\ word.owned)

\* Where a report of a sequence that did not complete may still need its all-up.
Cleanup ==
    /\ word.owned => /\ word.st = "aborted"
                     /\ Releasing \/ (~ghost.owes /\ (Running \/ runnable # 0 => rt.seq = 0))
    /\ In(Planned) \/ Due \/ At({"refused"}) => ~ghost.owes
    /\ (~Running \/ At({"end", "free"})) /\ ghost.owes => Fulfilled \/ Releasing

\* The generation a release adopted last is never one whose cleanup is to come.
Adoption ==
    /\ ghost.adopted < next /\ ctl.gen < next /\ status.gen < next
    /\ reserved # 0 => ghost.adopted < reserved \/ (~In(Starting) /\ Handed)
    /\ At({"clean"}) => word.st # "completed" /\ ~word.owned
    /\ In({"adopt"}) => ctl.gen # 0 /\ reserved \in {0, ctl.gen}

\* A release adopts only a generation whose cleanup is over or comes to it.
LEMMA AdoptionStep ==
    TypeOK /\ Ownership /\ Simulation /\ Words /\ Adoption /\ [Next]_vars => Adoption'
<1> SUFFICES ASSUME TypeOK, Ownership, Simulation, Words, Adoption, [Next]_vars PROVE Adoption'
  OBVIOUS
<1>0. /\ pc \in [control : ControlPoint, sequence : SequencePoint]
      /\ next \in Nat \ {0} /\ reserved \in Nat /\ runnable \in Nat
  BY DEF TypeOK
<1> USE <1>0, Fields DEF Adoption, Handed, In, At, Starting, OfControl, OfSequence, ctls,
       atomics, Rest, Goto, Task, Only
<1>1. CASE Start
  <2>1. UNCHANGED <<status, word, ghost>> /\ pc'.sequence = pc.sequence /\ next' = next + 1
        /\ pc.control = "idle"
    BY <1>1 DEF Start
  <2>2. CASE reserved # 0
    <3>1. UNCHANGED <<reserved, ctl, pc>>
      BY <1>1, <2>2 DEF Start
    <3>2. QED
      BY <2>1, <2>2, <3>1
  <2>3. CASE reserved = 0
    <3>1. reserved' = next /\ pc'.control = "begin" /\ ctl'.gen = next
      BY <1>1, <2>3 DEF Start, NoCtl
    <3>2. QED
      BY <2>1, <2>3, <3>1
  <2>4. QED
    BY <2>2, <2>3
<1>2. CASE Admit
  <2>1. UNCHANGED <<next, reserved>> /\ pc'.sequence = pc.sequence /\ pc.control \in Starting
        /\ pc'.control # "adopt"
    BY <1>2 DEF Admit
  <2>2. ctl'.gen \in {0, ctl.gen}
    BY <1>2, Records DEF Admit, NoCtl
  <2>3. status'.gen \in {0, status.gen}
    BY <1>2, Records DEF Admit
  <2>4. ghost'.adopted = ghost.adopted
    BY <1>2, Records DEF Admit
  <2>5. word' = word
    BY <1>2 DEF Admit
  <2>9. QED
    BY <2>1, <2>2, <2>3, <2>4, <2>5
<1>3. CASE AdmitRefused
  <2>1. UNCHANGED <<next, reserved>> /\ pc'.sequence = pc.sequence /\ pc.control \in Starting
        /\ pc'.control # "adopt"
    BY <1>3 DEF AdmitRefused
  <2>2. ctl'.gen \in {0, ctl.gen}
    BY <1>3, Records DEF AdmitRefused, NoCtl
  <2>3. status'.gen \in {0, status.gen}
    BY <1>3, Records DEF AdmitRefused
  <2>4. ghost'.adopted = ghost.adopted
    BY <1>3, Records DEF AdmitRefused
  <2>5. word' = word
    BY <1>3 DEF AdmitRefused
  <2>9. QED
    BY <2>1, <2>2, <2>3, <2>4, <2>5
<1>4. CASE Reject
  <2>1. UNCHANGED <<next, reserved>> /\ pc'.sequence = pc.sequence /\ pc.control \in Starting
        /\ pc'.control # "adopt"
    BY <1>4 DEF Reject, EndSequence
  <2>2. ctl'.gen \in {0, ctl.gen}
    BY <1>4, Records DEF Reject, EndSequence, NoCtl
  <2>3. status'.gen \in {0, status.gen}
    BY <1>4, Records DEF Reject, EndSequence
  <2>4. ghost'.adopted = ghost.adopted
    BY <1>4, Records DEF Reject, EndSequence
  <2>5. word' = word
    BY <1>4 DEF Reject, EndSequence
  <2>9. QED
    BY <2>1, <2>2, <2>3, <2>4, <2>5
<1>5. CASE Unreserve
  <2>1. UNCHANGED <<next>> /\ reserved' = 0 /\ pc'.sequence = pc.sequence
        /\ pc'.control \notin Starting /\ pc'.control # "adopt"
    BY <1>5 DEF Unreserve
  <2>2. ctl'.gen \in {0, ctl.gen}
    BY <1>5, Records DEF Unreserve, NoCtl
  <2>3. status'.gen = status.gen
    BY <1>5, Records DEF Unreserve
  <2>4. ghost'.adopted = ghost.adopted
    BY <1>5, Records DEF Unreserve
  <2>5. word' = word
    BY <1>5 DEF Unreserve
  <2>9. QED
    BY <2>1, <2>2, <2>3, <2>4, <2>5
<1>6. CASE Plan
  <2>1. UNCHANGED <<next, reserved>> /\ pc'.sequence = pc.sequence /\ pc.control \in Starting
        /\ pc'.control # "adopt"
    BY <1>6 DEF Plan
  <2>2. ctl'.gen \in {0, ctl.gen}
    BY <1>6, Records DEF Plan, NoCtl
  <2>3. status'.gen \in {0, status.gen}
    BY <1>6, Records DEF Plan
  <2>4. ghost'.adopted = ghost.adopted
    BY <1>6, Records DEF Plan
  <2>5. word' = word
    BY <1>6 DEF Plan
  <2>9. QED
    BY <2>1, <2>2, <2>3, <2>4, <2>5
<1>7. CASE Withdraw
  <2>1. UNCHANGED <<next, reserved>> /\ pc'.sequence = pc.sequence /\ pc.control \in Starting
        /\ pc'.control # "adopt"
    BY <1>7 DEF Withdraw
  <2>2. ctl'.gen \in {0, ctl.gen}
    BY <1>7, Records DEF Withdraw, NoCtl
  <2>3. status'.gen \in {0, status.gen}
    BY <1>7, Records DEF Withdraw
  <2>4. ghost'.adopted = ghost.adopted
    BY <1>7, Records DEF Withdraw
  <2>5. word' = word
    BY <1>7 DEF Withdraw
  <2>9. QED
    BY <2>1, <2>2, <2>3, <2>4, <2>5
<1>8. CASE Record
  <2>1. UNCHANGED <<next, reserved>> /\ pc'.sequence = pc.sequence /\ pc.control \in Starting
        /\ pc'.control # "adopt"
    BY <1>8 DEF Record
  <2>2. ctl'.gen \in {0, ctl.gen}
    BY <1>8, Records DEF Record, NoCtl
  <2>3. status'.gen = status.gen
    BY <1>8, Records DEF Record
  <2>4. ghost'.adopted = ghost.adopted
    BY <1>8, Records DEF Record
  <2>5. pc.sequence # "clean"
    BY <1>8 DEF Record, Ownership, Running
  <2>9. QED
    BY <2>1, <2>2, <2>3, <2>4, <2>5
<1>9. CASE Commit
  <2>1. UNCHANGED <<next, reserved>> /\ pc'.sequence = pc.sequence /\ pc.control \in Starting
        /\ pc'.control # "adopt"
    BY <1>9 DEF Commit
  <2>2. ctl'.gen \in {0, ctl.gen}
    BY <1>9, Records DEF Commit, NoCtl
  <2>3. status'.gen = ctl.gen
    BY <1>9, Records DEF Commit
  <2>4. ghost'.adopted = ghost.adopted
    BY <1>9, Records DEF Commit
  <2>5. word' = word
    BY <1>9 DEF Commit
  <2>9. QED
    BY <2>1, <2>2, <2>3, <2>4, <2>5
<1>10. CASE Arm
  <2>1. UNCHANGED <<next, reserved>> /\ pc'.sequence = pc.sequence
        /\ pc'.control \notin Starting /\ pc'.control # "adopt"
    BY <1>10 DEF Arm
  <2>2. ctl'.gen \in {0, ctl.gen}
    <3>1. ctl' = ctl \/ ctl' = NoCtl
      BY <1>10 DEF Arm
    <3>2. NoCtl.gen = 0
      BY DEF NoCtl
    <3>3. QED
      BY <3>1, <3>2
  <2>3. status'.gen = status.gen
    BY <1>10, Records DEF Arm
  <2>4. ghost'.adopted = ghost.adopted
    BY <1>10, Records DEF Arm
  <2>5. word' = word
    BY <1>10 DEF Arm
  <2>9. QED
    BY <2>1, <2>2, <2>3, <2>4, <2>5
<1>11. CASE Release
  <2>1. UNCHANGED <<next, reserved, status, word>> /\ pc'.sequence = pc.sequence
        /\ pc'.control \in {"release", "adopt", "safety"}
    BY <1>11 DEF Release
  <2>2. CASE reserved = 0
    <3>1. ghost'.adopted = next - 1 /\ ctl' = ctl /\ pc'.control = "release"
      BY <1>11, <2>2, Records DEF Release
    <3>2. QED
      BY <2>1, <2>2, <3>1
  <2>3. CASE reserved # 0
    <3>1. ghost' = ghost /\ ctl'.gen = reserved
      BY <1>11, <2>3, Records DEF Release, NoCtl
    <3>2. pc.control = "idle" /\ reserved < next
      BY <1>11 DEF Release, Ownership
    <3>3. QED
      BY <2>1, <2>3, <3>1, <3>2
  <2>4. QED
    BY <2>2, <2>3
<1>12. CASE Adopt
  <2>1. UNCHANGED <<next, reserved, status, ctl>> /\ pc'.sequence = pc.sequence
        /\ pc.control = "adopt"
        /\ pc'.control \in {"adopted", "release", "safety"}
    BY <1>12 DEF Adopt
  <2>2. CASE Open(word)
    <3>1. word' = Aborted(word, TRUE)
      BY <1>12, <2>2 DEF Adopt
    <3>2. word'.st = "aborted" /\ word'.owned
      BY <2>2, <3>1, AbortedFacts
    <3>3. ghost'.adopted = ctl.gen
      BY <1>12, <2>2, Records DEF Adopt
    <3>4. pc.sequence # "clean"
      BY <2>1, <2>2 DEF Words, Ownership, Running, Open, TerminalIn, Terminals
    <3>5. QED
      BY <2>1, <3>2, <3>3, <3>4
  <2>3. CASE ~Open(word) /\ Handed
    <3>1. word' = word
      BY <1>12, <2>3 DEF Adopt
    <3>2. ghost'.adopted = ctl.gen
      BY <1>12, <2>3, Records DEF Adopt
    <3>3. QED
      BY <2>1, <2>3, <3>1, <3>2
  <2>4. CASE ~Open(word) /\ ~Handed
    <3>1. word' = word /\ ghost' = ghost
      BY <1>12, <2>4 DEF Adopt
    <3>2. QED
      BY <2>1, <2>4, <3>1
  <2>5. QED
    BY <2>2, <2>3, <2>4
<1>13. CASE Adopted
  <2>1. UNCHANGED <<next, reserved>> /\ pc'.sequence = pc.sequence
        /\ pc'.control \notin Starting /\ pc'.control # "adopt"
    BY <1>13 DEF Adopted
  <2>2. ctl'.gen \in {0, ctl.gen}
    BY <1>13, Records DEF Adopted, NoCtl
  <2>3. status'.gen = status.gen
    BY <1>13, Records DEF Adopted
  <2>4. ghost'.adopted = ghost.adopted
    BY <1>13, Records DEF Adopted
  <2>5. word' = word
    BY <1>13 DEF Adopted
  <2>9. QED
    BY <2>1, <2>2, <2>3, <2>4, <2>5
<1>14. CASE AbortCheck
  <2>1. UNCHANGED <<next, reserved>> /\ pc'.sequence = pc.sequence
        /\ pc'.control \notin Starting /\ pc'.control # "adopt"
    BY <1>14 DEF AbortCheck, Rested
  <2>2. ctl'.gen \in {0, ctl.gen}
    BY <1>14, Records DEF AbortCheck, Rested, NoCtl
  <2>3. status'.gen = status.gen
    BY <1>14, Records DEF AbortCheck, Rested
  <2>4. ghost'.adopted = ghost.adopted
    BY <1>14, Records DEF AbortCheck, Rested
  <2>5. word' = word
    BY <1>14 DEF AbortCheck, Rested
  <2>9. QED
    BY <2>1, <2>2, <2>3, <2>4, <2>5
<1>15. CASE Cancel
  <2>1. UNCHANGED <<next, reserved>> /\ pc'.sequence = pc.sequence
        /\ pc'.control \notin Starting /\ pc'.control # "adopt"
    BY <1>15 DEF Cancel
  <2>2. ctl'.gen \in {0, ctl.gen}
    BY <1>15, Records DEF Cancel, NoCtl
  <2>3. status'.gen = status.gen
    BY <1>15, Records DEF Cancel
  <2>4. ghost'.adopted = ghost.adopted
    BY <1>15, Records DEF Cancel
  <2>5. word' = word
    BY <1>15 DEF Cancel
  <2>9. QED
    BY <2>1, <2>2, <2>3, <2>4, <2>5
<1>16. CASE Recheck
  <2>1. UNCHANGED <<next, reserved>> /\ pc'.sequence = pc.sequence
        /\ pc'.control \notin Starting /\ pc'.control # "adopt"
    BY <1>16 DEF Recheck, Rested
  <2>2. ctl'.gen \in {0, ctl.gen}
    BY <1>16, Records DEF Recheck, Rested, NoCtl
  <2>3. status'.gen = status.gen
    BY <1>16, Records DEF Recheck, Rested
  <2>4. ghost'.adopted = ghost.adopted
    BY <1>16, Records DEF Recheck, Rested
  <2>5. word' = word
    BY <1>16 DEF Recheck, Rested
  <2>9. QED
    BY <2>1, <2>2, <2>3, <2>4, <2>5
<1>17. CASE Revoke
  <2>1. UNCHANGED <<next, reserved>> /\ pc'.sequence = pc.sequence
        /\ pc'.control \notin Starting /\ pc'.control # "adopt"
    BY <1>17 DEF Revoke
  <2>2. ctl'.gen \in {0, ctl.gen}
    BY <1>17, Records DEF Revoke, NoCtl
  <2>3. status'.gen = status.gen
    BY <1>17, Records DEF Revoke
  <2>4. ghost'.adopted = ghost.adopted
    BY <1>17, Records DEF Revoke
  <2>5. word' = word
    BY <1>17 DEF Revoke
  <2>9. QED
    BY <2>1, <2>2, <2>3, <2>4, <2>5
<1>18. CASE Strike
  <2>1. UNCHANGED <<next, reserved>> /\ pc'.sequence = pc.sequence
        /\ pc'.control \notin Starting /\ pc'.control # "adopt"
    BY <1>18 DEF Strike
  <2>2. ctl'.gen \in {0, ctl.gen}
    BY <1>18, Records DEF Strike, NoCtl
  <2>3. status'.gen = status.gen
    BY <1>18, Records DEF Strike
  <2>4. ghost'.adopted = ghost.adopted
    BY <1>18, Records DEF Strike
  <2>5. Open(word) => word.st \notin {"completed", "aborted"}
    BY <1>18 DEF Open
  <2>6. word' # word => Open(word) /\ word'.st = "aborted" /\ word'.owned = FALSE
    BY <1>18, AbortedFacts DEF Strike
  <2>7. TRUE
    OBVIOUS
  <2>9. QED
    BY <2>1, <2>2, <2>3, <2>4, <2>5, <2>6, <2>7
<1>19. CASE Stop
  <2>1. UNCHANGED <<next, reserved>> /\ pc'.sequence = pc.sequence
        /\ pc'.control \notin Starting /\ pc'.control # "adopt"
    BY <1>19 DEF Stop, Rested
  <2>2. ctl'.gen \in {0, ctl.gen}
    BY <1>19, Records DEF Stop, Rested, NoCtl
  <2>3. status'.gen = status.gen
    BY <1>19, Records DEF Stop, Rested
  <2>4. ghost'.adopted = ghost.adopted
    BY <1>19, Records DEF Stop, Rested
  <2>5. word' = word
    BY <1>19 DEF Stop, Rested
  <2>9. QED
    BY <2>1, <2>2, <2>3, <2>4, <2>5
<1>20. CASE Safety
  <2>1. UNCHANGED <<next, reserved>> /\ pc'.sequence = pc.sequence
        /\ pc'.control \notin Starting /\ pc'.control # "adopt"
    BY <1>20 DEF Safety, Requested, Rested
  <2>2. ctl'.gen \in {0, ctl.gen}
    BY <1>20, Records DEF Safety, Requested, Rested, NoCtl
  <2>3. status'.gen = status.gen
    BY <1>20, Records DEF Safety, Requested, Rested
  <2>4. ghost'.adopted = ghost.adopted
    BY <1>20, Records DEF Safety, Requested, Rested
  <2>5. word' = word
    BY <1>20 DEF Safety, Requested, Rested
  <2>9. QED
    BY <2>1, <2>2, <2>3, <2>4, <2>5
<1>21. CASE ReleaseAll
  <2>1. UNCHANGED <<next, reserved>> /\ pc'.sequence = pc.sequence
        /\ pc'.control \notin Starting /\ pc'.control # "adopt"
    BY <1>21 DEF ReleaseAll
  <2>2. ctl'.gen \in {0, ctl.gen}
    <3>1. ctl' = ctl \/ ctl' = NoCtl
      BY <1>21 DEF ReleaseAll
    <3>2. NoCtl.gen = 0
      BY DEF NoCtl
    <3>3. QED
      BY <3>1, <3>2
  <2>3. status'.gen = status.gen
    BY <1>21, Records DEF ReleaseAll
  <2>4. ghost'.adopted = ghost.adopted
    BY <1>21, Records DEF ReleaseAll
  <2>5. word' = word
    BY <1>21 DEF ReleaseAll
  <2>9. QED
    BY <2>1, <2>2, <2>3, <2>4, <2>5
<1>22. CASE Hello
  <2>1. UNCHANGED <<next, reserved>> /\ pc'.sequence = pc.sequence /\ pc' = pc
        /\ pc.control = "idle"
    BY <1>22 DEF Hello
  <2>2. ctl'.gen \in {0, ctl.gen}
    BY <1>22, Records DEF Hello, NoCtl
  <2>3. status'.gen = status.gen
    BY <1>22, Records DEF Hello
  <2>4. ghost'.adopted = ghost.adopted
    BY <1>22, Records DEF Hello
  <2>5. word' = word
    BY <1>22 DEF Hello
  <2>9. QED
    BY <2>1, <2>2, <2>3, <2>4, <2>5
<1>23. CASE TakeOver
  <2>1. UNCHANGED <<next, reserved>> /\ pc'.sequence = pc.sequence
        /\ pc'.control \notin Starting /\ pc'.control # "adopt"
    BY <1>23 DEF TakeOver, Leave
  <2>2. ctl'.gen \in {0, ctl.gen}
    BY <1>23, Records DEF TakeOver, Leave, NoCtl
  <2>3. status'.gen = status.gen
    BY <1>23, Records DEF TakeOver, Leave
  <2>4. ghost'.adopted = ghost.adopted
    BY <1>23, Records DEF TakeOver, Leave
  <2>5. word' = word
    BY <1>23 DEF TakeOver, Leave
  <2>9. QED
    BY <2>1, <2>2, <2>3, <2>4, <2>5
<1>24. CASE LeaseExpires
  <2>1. UNCHANGED <<next, reserved>> /\ pc'.sequence = pc.sequence
        /\ pc'.control \notin Starting /\ pc'.control # "adopt"
    BY <1>24 DEF LeaseExpires, Leave
  <2>2. ctl'.gen \in {0, ctl.gen}
    BY <1>24, Records DEF LeaseExpires, Leave, NoCtl
  <2>3. status'.gen = status.gen
    BY <1>24, Records DEF LeaseExpires, Leave
  <2>4. ghost'.adopted = ghost.adopted
    BY <1>24, Records DEF LeaseExpires, Leave
  <2>5. word' = word
    BY <1>24 DEF LeaseExpires, Leave
  <2>9. QED
    BY <2>1, <2>2, <2>3, <2>4, <2>5
<1>25. CASE Invalidated
  <2>1. UNCHANGED <<next, reserved>> /\ pc'.sequence = pc.sequence
        /\ pc'.control \notin Starting /\ pc'.control # "adopt"
    BY <1>25 DEF Invalidated, Leave
  <2>2. ctl'.gen \in {0, ctl.gen}
    BY <1>25, Records DEF Invalidated, Leave, NoCtl
  <2>3. status'.gen = status.gen
    BY <1>25, Records DEF Invalidated, Leave
  <2>4. ghost'.adopted = ghost.adopted
    BY <1>25, Records DEF Invalidated, Leave
  <2>5. word' = word
    BY <1>25 DEF Invalidated, Leave
  <2>9. QED
    BY <2>1, <2>2, <2>3, <2>4, <2>5
<1>26. CASE SafetyFailure
  <2>1. UNCHANGED <<next, reserved>> /\ pc'.sequence = pc.sequence
        /\ pc'.control \notin Starting /\ pc'.control # "adopt"
    BY <1>26 DEF SafetyFailure, Leave
  <2>2. ctl'.gen \in {0, ctl.gen}
    BY <1>26, Records DEF SafetyFailure, Leave, NoCtl
  <2>3. status'.gen = status.gen
    BY <1>26, Records DEF SafetyFailure, Leave
  <2>4. ghost'.adopted = ghost.adopted
    BY <1>26, Records DEF SafetyFailure, Leave
  <2>5. word' = word
    BY <1>26 DEF SafetyFailure, Leave
  <2>9. QED
    BY <2>1, <2>2, <2>3, <2>4, <2>5
<1>27. CASE RetireOwner
  <2>1. UNCHANGED <<next, reserved>> /\ pc'.sequence = pc.sequence
        /\ pc'.control \notin Starting /\ pc'.control # "adopt"
    BY <1>27 DEF RetireOwner, Rested
  <2>2. ctl'.gen \in {0, ctl.gen, status.gen}
    <3>1. ctl' = NoCtl \/ ctl' = ctl \/ ctl' = [ctl EXCEPT !.gen = status.gen]
      BY <1>27 DEF RetireOwner, Rested
    <3>2. NoCtl.gen = 0
      BY DEF NoCtl
    <3>3. QED
      BY <3>1, <3>2, Records
  <2>3. status'.gen \in {0, status.gen}
    BY <1>27, Records DEF RetireOwner, Rested
  <2>4. ghost'.adopted = ghost.adopted
    BY <1>27, Records DEF RetireOwner, Rested
  <2>5. word' = word
    BY <1>27 DEF RetireOwner, Rested
  <2>9. QED
    BY <2>1, <2>2, <2>3, <2>4, <2>5
<1>28. CASE Wake
  <2>1. UNCHANGED <<next, reserved, status, ctl>> /\ pc'.control = pc.control
        /\ pc'.sequence # "clean"
    BY <1>28 DEF Wake
  <2>2. ghost'.adopted = ghost.adopted
    BY <1>28, Records DEF Wake
  <2>3. word' = word
    BY <1>28 DEF Wake
  <2>9. QED
    BY <2>1, <2>2, <2>3
<1>29. CASE Take
  <2>1. UNCHANGED <<next, reserved, status, ctl>> /\ pc'.control = pc.control
        /\ pc'.sequence # "clean"
    BY <1>29 DEF Take
  <2>2. ghost'.adopted = ghost.adopted
    BY <1>29, Records DEF Take
  <2>3. word' = word
    BY <1>29 DEF Take
  <2>9. QED
    BY <2>1, <2>2, <2>3
<1>30. CASE Enter
  <2>1. UNCHANGED <<next, reserved, status, ctl>> /\ pc'.control = pc.control
        /\ pc'.sequence # "clean"
    BY <1>30 DEF Enter
  <2>2. ghost'.adopted = ghost.adopted
    BY <1>30, Records DEF Enter
  <2>3. word' = word
    BY <1>30 DEF Enter
  <2>9. QED
    BY <2>1, <2>2, <2>3
<1>31. CASE BeginRun
  <2>1. UNCHANGED <<next, reserved, status, ctl>> /\ pc'.control = pc.control
        /\ pc'.sequence # "clean"
    BY <1>31 DEF BeginRun
  <2>2. ghost'.adopted = ghost.adopted
    BY <1>31, Records DEF BeginRun
  <2>3. word' # word => word.st = "accepted"
    BY <1>31 DEF BeginRun
  <2>9. QED
    BY <2>1, <2>2, <2>3
<1>32. CASE Refused
  <2>1. UNCHANGED <<next, reserved, status, ctl>> /\ pc'.control = pc.control
        /\ pc.sequence = "refused" /\ (pc'.sequence = "clean" => ~run.word.owned)
    BY <1>32 DEF Refused
  <2>2. ghost'.adopted = ghost.adopted
    BY <1>32, Records DEF Refused
  <2>3. word' = word
    BY <1>32 DEF Refused
  <2>4. pc.sequence = "refused" => word.st = "aborted" /\ run.word = word
    BY DEF Words
  <2>9. QED
    BY <2>1, <2>2, <2>3, <2>4
<1>33. CASE LoopStep
  <2>1. UNCHANGED <<next, reserved, status, ctl>> /\ pc'.control = pc.control
        /\ pc'.sequence # "clean"
        /\ ghost'.adopted = ghost.adopted
    BY <1>33, LoopFacts DEF Loop
  <2>2. word' # word => word.st = "running"
    BY <1>33 DEF LoopStep, Check, Authority, Execute, Report, Accepted, Answered, Wait,
       Incomplete, Progress,
       Publish, Complete, Final, Claim, ClaimCheck, ClaimWord
  <2>3. QED
    BY <2>1, <2>2
<1>34. CASE Decide
  <2>1. UNCHANGED <<next, reserved, status, ctl>> /\ pc'.control = pc.control
        /\ (pc'.sequence = "clean" => word.st # "completed" /\ ~word.owned)
    BY <1>34 DEF Decide
  <2>2. ghost'.adopted = ghost.adopted
    BY <1>34, Records DEF Decide
  <2>3. word' = word
    BY <1>34 DEF Decide
  <2>9. QED
    BY <2>1, <2>2, <2>3
<1>35. CASE Clean
  <2>1. UNCHANGED <<next, reserved, status, ctl>> /\ pc'.control = pc.control
        /\ pc'.sequence # "clean"
    BY <1>35 DEF Clean, Requested
  <2>2. ghost'.adopted = ghost.adopted
    BY <1>35, Records DEF Clean, Requested
  <2>3. word' = word
    BY <1>35 DEF Clean, Requested
  <2>9. QED
    BY <2>1, <2>2, <2>3
<1>36. CASE End
  <2>1. UNCHANGED <<next, reserved, status, ctl>> /\ pc'.control = pc.control
        /\ pc'.sequence # "clean"
    BY <1>36 DEF End, EndSequence
  <2>2. ghost'.adopted = ghost.adopted
    BY <1>36, Records DEF End, EndSequence
  <2>3. word' = word
    BY <1>36 DEF End, EndSequence
  <2>9. QED
    BY <2>1, <2>2, <2>3
<1>37. CASE Free
  <2>1. UNCHANGED <<next, status, ctl>> /\ reserved' \in {0, reserved}
        /\ pc'.control = pc.control /\ pc'.sequence # "clean"
    BY <1>37 DEF Free
  <2>2. ghost'.adopted = ghost.adopted
    BY <1>37, Records DEF Free
  <2>3. word' = word
    BY <1>37 DEF Free
  <2>9. QED
    BY <2>1, <2>2, <2>3
<1>38. CASE Doze
  BY <1>38 DEF Doze
<1>39. CASE CutAuthority
  BY <1>39 DEF CutAuthority
<1>40. CASE Settle
  BY <1>40 DEF Settle
<1>41. CASE UNCHANGED vars
  BY <1>41 DEF vars
<1>42. QED
  BY <1>1, <1>2, <1>3, <1>4, <1>5, <1>6, <1>7, <1>8, <1>9, <1>10, <1>11, <1>12, <1>13, <1>14,
     <1>15, <1>16, <1>17, <1>18, <1>19, <1>20, <1>21, <1>22, <1>23, <1>24, <1>25, <1>26, <1>27,
     <1>28, <1>29, <1>30, <1>31, <1>32, <1>33, <1>34, <1>35, <1>36, <1>37, <1>38, <1>39, <1>40,
     <1>41
     DEF Next, Control, Run, LoopStep

\* Reports after which nothing was released stay somebody's to release.
LEMMA CleanupStep ==
    TypeOK /\ Ownership /\ Simulation /\ Words /\ Cleanup /\ [Next]_vars => Cleanup'
<1> SUFFICES ASSUME TypeOK, Ownership, Simulation, Words, Cleanup, [Next]_vars PROVE Cleanup'
  OBVIOUS
<1>0. /\ pc \in [control : ControlPoint, sequence : SequencePoint]
      /\ next \in Nat \ {0} /\ reserved \in Nat /\ runnable \in Nat
  BY DEF TypeOK
<1> USE <1>0, Fields DEF Cleanup, Fulfilled, Releasing, Planned, Due, Running, In, At,
   OfControl, OfSequence,
       ctls, atomics, Rest, Goto, Task, Only
<1>1. CASE Start
  <2>1. UNCHANGED <<runnable, plan, run>> /\ pc'.sequence = pc.sequence
        /\ pc'.control \notin Planned
    BY <1>1 DEF Start
  <2>3. rt'.seq \in {0, rt.seq}
    BY <1>1, Records DEF Start, Requested, EndSequence
  <2>4. ghost'.owes => ghost.owes
    BY <1>1, Records DEF Start
  <2>5. word' = word
    BY <1>1 DEF Start
  <2>6. ~Releasing
    BY <1>1 DEF Start
  <2>9. QED
    BY <2>1, <2>3, <2>4, <2>5, <2>6
<1>2. CASE Admit
  <2>1. UNCHANGED <<runnable, plan, run>> /\ pc'.sequence = pc.sequence
        /\ pc'.control \notin Planned
    BY <1>2 DEF Admit
  <2>3. TRUE
    BY <1>2, Records DEF Admit, Requested, EndSequence
  <2>4. ghost'.owes => ghost.owes
    BY <1>2, Records DEF Admit
  <2>5. word' = word
    BY <1>2 DEF Admit
  <2>6. ~Releasing
    BY <1>2 DEF Admit
  <2>7. ~Running /\ runnable = 0
    BY <1>2 DEF Admit, Ownership, Starting
  <2>9. QED
    BY <2>1, <2>3, <2>4, <2>5, <2>6, <2>7
<1>3. CASE AdmitRefused
  <2>1. UNCHANGED <<runnable, plan, run>> /\ pc'.sequence = pc.sequence
        /\ pc'.control \notin Planned
    BY <1>3 DEF AdmitRefused
  <2>3. rt'.seq \in {0, rt.seq}
    BY <1>3, Records DEF AdmitRefused, Requested, EndSequence
  <2>4. ghost'.owes => ghost.owes
    BY <1>3, Records DEF AdmitRefused
  <2>5. word' = word
    BY <1>3 DEF AdmitRefused
  <2>6. ~Releasing
    BY <1>3 DEF AdmitRefused
  <2>9. QED
    BY <2>1, <2>3, <2>4, <2>5, <2>6
<1>4. CASE Reject
  <2>1. UNCHANGED <<runnable, plan, run>> /\ pc'.sequence = pc.sequence
        /\ pc'.control \notin Planned
    BY <1>4 DEF Reject, EndSequence
  <2>3. rt'.seq \in {0, rt.seq}
    BY <1>4, Records DEF Reject, EndSequence, Requested, EndSequence
  <2>4. ghost'.owes => ghost.owes
    BY <1>4, Records DEF Reject, EndSequence
  <2>5. word' = word
    BY <1>4 DEF Reject, EndSequence
  <2>6. ~Releasing
    BY <1>4 DEF Reject, EndSequence
  <2>9. QED
    BY <2>1, <2>3, <2>4, <2>5, <2>6
<1>5. CASE Unreserve
  <2>1. UNCHANGED <<runnable, plan, run>> /\ pc'.sequence = pc.sequence
        /\ pc'.control \notin Planned
    BY <1>5 DEF Unreserve
  <2>3. rt'.seq \in {0, rt.seq}
    BY <1>5, Records DEF Unreserve, Requested, EndSequence
  <2>4. ghost'.owes => ghost.owes
    BY <1>5, Records DEF Unreserve
  <2>5. word' = word
    BY <1>5 DEF Unreserve
  <2>6. ~Releasing
    BY <1>5 DEF Unreserve
  <2>9. QED
    BY <2>1, <2>3, <2>4, <2>5, <2>6
<1>6. CASE Plan
  <2>1. UNCHANGED <<runnable, run>> /\ pc'.sequence = pc.sequence /\ pc.control = "plan"
    BY <1>6 DEF Plan
  <2>3. rt'.seq \in {0, rt.seq}
    BY <1>6, Records DEF Plan, Requested, EndSequence
  <2>4. ghost'.owes = FALSE
    BY <1>6, Records DEF Plan
  <2>5. word' = word
    BY <1>6 DEF Plan
  <2>6. ~Releasing
    BY <1>6 DEF Plan
  <2>7. ~Running /\ runnable = 0
    BY <1>6 DEF Plan, Ownership, Starting
  <2>9. QED
    BY <2>1, <2>3, <2>4, <2>5, <2>6, <2>7
<1>7. CASE Withdraw
  <2>1. UNCHANGED <<runnable, plan, run>> /\ pc'.sequence = pc.sequence
        /\ pc.control \in Planned
    BY <1>7 DEF Withdraw
  <2>3. rt'.seq \in {0, rt.seq}
    BY <1>7, Records DEF Withdraw, Requested, EndSequence
  <2>4. ghost'.owes => ghost.owes
    BY <1>7, Records DEF Withdraw
  <2>5. word' = word
    BY <1>7 DEF Withdraw
  <2>6. ~Releasing
    BY <1>7 DEF Withdraw
  <2>9. QED
    BY <2>1, <2>3, <2>4, <2>5, <2>6
<1>8. CASE Record
  <2>1. UNCHANGED <<runnable, plan, run>> /\ pc'.sequence = pc.sequence
        /\ pc.control \in Planned
    BY <1>8 DEF Record
  <2>3. rt'.seq \in {0, rt.seq}
    BY <1>8, Records DEF Record, Requested, EndSequence
  <2>4. ghost'.owes => ghost.owes
    BY <1>8, Records DEF Record
  <2>5. word' = Plain("accepted", 0)
    BY <1>8 DEF Record
  <2>6. ~Releasing
    BY <1>8 DEF Record
  <2>7. word'.owned = FALSE
    BY <2>5, PlainFacts
  <2>9. QED
    BY <2>1, <2>3, <2>4, <2>5, <2>6, <2>7
<1>9. CASE Commit
  <2>1. UNCHANGED <<runnable, plan, run>> /\ pc'.sequence = pc.sequence
        /\ pc.control \in Planned
    BY <1>9 DEF Commit
  <2>3. rt'.seq \in {0, rt.seq}
    BY <1>9, Records DEF Commit, Requested, EndSequence
  <2>4. ghost'.owes => ghost.owes
    BY <1>9, Records DEF Commit
  <2>5. word' = word
    BY <1>9 DEF Commit
  <2>6. ~Releasing
    BY <1>9 DEF Commit
  <2>9. QED
    BY <2>1, <2>3, <2>4, <2>5, <2>6
<1>10. CASE Arm
  <2>1. UNCHANGED <<plan, run>> /\ pc'.sequence = pc.sequence
        /\ pc'.control \in {"armed", "idle"}
    BY <1>10 DEF Arm
  <2>3. rt'.seq \in {0, rt.seq}
    BY <1>10, Records DEF Arm, Requested, EndSequence
  <2>4. ghost'.owes => ghost.owes
    BY <1>10, Records DEF Arm
  <2>5. word' = word
    BY <1>10 DEF Arm
  <2>6. ~Releasing
    BY <1>10 DEF Arm
  <2>7. pc.control = "arm" => ~word.owned /\ ~ghost.owes
    BY DEF Words
  <2>8. pc.control # "arm" => runnable' = runnable
    BY <1>10 DEF Arm
  <2>9. QED
    BY <2>1, <2>3, <2>4, <2>5, <2>6, <2>7, <2>8
<1>11. CASE Release
  <2>1. UNCHANGED <<runnable, plan, run>> /\ pc'.sequence = pc.sequence
        /\ pc'.control \notin Planned
    BY <1>11 DEF Release
  <2>3. rt'.seq \in {0, rt.seq}
    BY <1>11, Records DEF Release, Requested, EndSequence
  <2>4. ghost'.owes => ghost.owes
    BY <1>11, Records DEF Release
  <2>5. word' = word
    BY <1>11 DEF Release
  <2>6. ~Releasing
    BY <1>11 DEF Release
  <2>9. QED
    BY <2>1, <2>3, <2>4, <2>5, <2>6
<1>12. CASE Adopt
  <2>1. UNCHANGED <<runnable, plan, run, rt, ctl>> /\ pc'.sequence = pc.sequence
        /\ pc.control = "adopt"
        /\ pc'.control \in {"adopted", "release", "safety"} /\ ctl.then = "release"
    BY <1>12 DEF Adopt, Words
  <2>2. ghost'.owes = ghost.owes
    BY <1>12, Records DEF Adopt
  <2>3. word' # word => Open(word) /\ word' = Aborted(word, TRUE)
    BY <1>12 DEF Adopt
  <2>4. word' # word => word'.st = "aborted"
    BY <2>3, AbortedFacts
  <2>5. QED
    BY <2>1, <2>2, <2>4
<1>13. CASE Adopted
  <2>1. UNCHANGED <<runnable, plan, run>> /\ pc'.sequence = pc.sequence
        /\ pc'.control \notin Planned
    BY <1>13 DEF Adopted
  <2>3. rt'.seq \in {0, rt.seq}
    BY <1>13, Records DEF Adopted, Requested, EndSequence
  <2>4. ghost'.owes => ghost.owes
    BY <1>13, Records DEF Adopted
  <2>5. word' = word
    BY <1>13 DEF Adopted
  <2>6. Releasing => Releasing' \/ (~ghost'.owes /\ rt'.seq = 0)
    BY <1>13, Records DEF Adopted, Requested
  <2>9. QED
    BY <2>1, <2>3, <2>4, <2>5, <2>6
<1>14. CASE AbortCheck
  <2>1. UNCHANGED <<runnable, plan, run>> /\ pc'.sequence = pc.sequence
        /\ pc'.control \notin Planned
    BY <1>14 DEF AbortCheck, Rested
  <2>3. rt'.seq \in {0, rt.seq}
    BY <1>14, Records DEF AbortCheck, Rested, Requested, EndSequence
  <2>4. ghost'.owes => ghost.owes
    BY <1>14, Records DEF AbortCheck, Rested
  <2>5. word' = word
    BY <1>14 DEF AbortCheck, Rested
  <2>6. Releasing => Releasing' \/ (~ghost'.owes /\ rt'.seq = 0)
    BY <1>14, Records DEF AbortCheck, Rested, Requested
  <2>9. QED
    BY <2>1, <2>3, <2>4, <2>5, <2>6
<1>15. CASE Cancel
  <2>1. UNCHANGED <<runnable, plan, run>> /\ pc'.sequence = pc.sequence
        /\ pc'.control \notin Planned
    BY <1>15 DEF Cancel
  <2>3. rt'.seq \in {0, rt.seq}
    BY <1>15, Records DEF Cancel, Requested, EndSequence
  <2>4. ghost'.owes => ghost.owes
    BY <1>15, Records DEF Cancel
  <2>5. word' = word
    BY <1>15 DEF Cancel
  <2>6. Releasing => Releasing' \/ (~ghost'.owes /\ rt'.seq = 0)
    BY <1>15, Records DEF Cancel, Requested
  <2>9. QED
    BY <2>1, <2>3, <2>4, <2>5, <2>6
<1>16. CASE Recheck
  <2>1. UNCHANGED <<runnable, plan, run>> /\ pc'.sequence = pc.sequence
        /\ pc'.control \notin Planned
    BY <1>16 DEF Recheck, Rested
  <2>3. rt'.seq \in {0, rt.seq}
    BY <1>16, Records DEF Recheck, Rested, Requested, EndSequence
  <2>4. ghost'.owes => ghost.owes
    BY <1>16, Records DEF Recheck, Rested
  <2>5. word' = word
    BY <1>16 DEF Recheck, Rested
  <2>6. Releasing => Releasing' \/ (~ghost'.owes /\ rt'.seq = 0)
    BY <1>16, Records DEF Recheck, Rested, Requested
  <2>9. QED
    BY <2>1, <2>3, <2>4, <2>5, <2>6
<1>17. CASE Revoke
  <2>1. UNCHANGED <<runnable, plan, run>> /\ pc'.sequence = pc.sequence
        /\ pc'.control \notin Planned
    BY <1>17 DEF Revoke
  <2>3. rt'.seq \in {0, rt.seq}
    BY <1>17, Records DEF Revoke, Requested, EndSequence
  <2>4. ghost'.owes => ghost.owes
    BY <1>17, Records DEF Revoke
  <2>5. word' = word
    BY <1>17 DEF Revoke
  <2>6. Releasing => Releasing' \/ (~ghost'.owes /\ rt'.seq = 0)
    BY <1>17, Records DEF Revoke, Requested
  <2>9. QED
    BY <2>1, <2>3, <2>4, <2>5, <2>6
<1>18. CASE Strike
  <2>1. UNCHANGED <<runnable, plan, run, rt, ctl>> /\ pc'.sequence = pc.sequence
        /\ pc.control = "strike"
        /\ pc'.control = "stop" /\ ghost' = ghost
    BY <1>18 DEF Strike
  <2>3. word' # word => Open(word) /\ word' = Aborted(word, FALSE)
    BY <1>18 DEF Strike
  <2>4. word' # word => word.st # "completed" /\ word'.owned = FALSE
    BY <2>3, AbortedFacts DEF Open
  <2>5. QED
    BY <2>1, <2>4
<1>19. CASE Stop
  <2>1. UNCHANGED <<runnable, plan, run>> /\ pc'.sequence = pc.sequence
        /\ pc'.control \notin Planned
    BY <1>19 DEF Stop, Rested
  <2>3. rt'.seq \in {0, rt.seq}
    BY <1>19, Records DEF Stop, Rested, Requested, EndSequence
  <2>4. ghost'.owes => ghost.owes
    BY <1>19, Records DEF Stop, Rested
  <2>5. word' = word
    BY <1>19 DEF Stop, Rested
  <2>6. Releasing => Releasing' \/ (~ghost'.owes /\ rt'.seq = 0)
    BY <1>19, Records DEF Stop, Rested, Requested
  <2>9. QED
    BY <2>1, <2>3, <2>4, <2>5, <2>6
<1>20. CASE Safety
  <2>1. UNCHANGED <<runnable, plan, run>> /\ pc'.sequence = pc.sequence
        /\ pc'.control \notin Planned
    BY <1>20 DEF Safety, Requested, Rested
  <2>3. rt'.seq \in {0, rt.seq}
    BY <1>20, Records DEF Safety, Requested, Rested, Requested, EndSequence
  <2>4. ghost'.owes => ghost.owes
    BY <1>20, Records DEF Safety, Requested, Rested
  <2>5. word' = word
    BY <1>20 DEF Safety, Requested, Rested
  <2>6. Releasing => Releasing' \/ (~ghost'.owes /\ rt'.seq = 0)
    BY <1>20, Records DEF Safety, Requested, Rested, Requested
  <2>9. QED
    BY <2>1, <2>3, <2>4, <2>5, <2>6
<1>21. CASE ReleaseAll
  <2>1. UNCHANGED <<runnable, plan, run>> /\ pc'.sequence = pc.sequence
        /\ pc'.control \notin Planned
    BY <1>21 DEF ReleaseAll
  <2>3. rt'.seq \in {0, rt.seq}
    BY <1>21, Records DEF ReleaseAll, Requested, EndSequence
  <2>4. ghost'.owes => ghost.owes
    BY <1>21, Records DEF ReleaseAll
  <2>5. word' = word
    BY <1>21 DEF ReleaseAll
  <2>6. Releasing => Releasing' \/ (~ghost'.owes /\ rt'.seq = 0)
    BY <1>21, Records DEF ReleaseAll, Requested
  <2>9. QED
    BY <2>1, <2>3, <2>4, <2>5, <2>6
<1>22. CASE Hello
  <2>1. UNCHANGED <<runnable, plan, run>> /\ pc'.sequence = pc.sequence /\ pc' = pc
        /\ ctl' = ctl
    BY <1>22 DEF Hello
  <2>3. rt'.seq \in {0, rt.seq}
    BY <1>22, Records DEF Hello, Requested, EndSequence
  <2>4. ghost'.owes => ghost.owes
    BY <1>22, Records DEF Hello
  <2>5. word' = word
    BY <1>22 DEF Hello
  <2>6. Releasing => Releasing' \/ (~ghost'.owes /\ rt'.seq = 0)
    BY <1>22, Records DEF Hello, Requested
  <2>9. QED
    BY <2>1, <2>3, <2>4, <2>5, <2>6
<1>23. CASE TakeOver
  <2>1. UNCHANGED <<runnable, plan, run>> /\ pc'.sequence = pc.sequence
        /\ pc'.control \notin Planned
    BY <1>23 DEF TakeOver, Leave
  <2>3. rt'.seq \in {0, rt.seq}
    BY <1>23, Records DEF TakeOver, Leave, Requested, EndSequence
  <2>4. ghost'.owes => ghost.owes
    BY <1>23, Records DEF TakeOver, Leave
  <2>5. word' = word
    BY <1>23 DEF TakeOver, Leave
  <2>6. ~Releasing
    BY <1>23 DEF TakeOver, Leave
  <2>9. QED
    BY <2>1, <2>3, <2>4, <2>5, <2>6
<1>24. CASE LeaseExpires
  <2>1. UNCHANGED <<runnable, plan, run>> /\ pc'.sequence = pc.sequence
        /\ pc'.control \notin Planned
    BY <1>24 DEF LeaseExpires, Leave
  <2>3. rt'.seq \in {0, rt.seq}
    BY <1>24, Records DEF LeaseExpires, Leave, Requested, EndSequence
  <2>4. ghost'.owes => ghost.owes
    BY <1>24, Records DEF LeaseExpires, Leave
  <2>5. word' = word
    BY <1>24 DEF LeaseExpires, Leave
  <2>6. ~Releasing
    BY <1>24 DEF LeaseExpires, Leave
  <2>9. QED
    BY <2>1, <2>3, <2>4, <2>5, <2>6
<1>25. CASE Invalidated
  <2>1. UNCHANGED <<runnable, plan, run>> /\ pc'.sequence = pc.sequence
        /\ pc'.control \notin Planned
    BY <1>25 DEF Invalidated, Leave
  <2>3. rt'.seq \in {0, rt.seq}
    BY <1>25, Records DEF Invalidated, Leave, Requested, EndSequence
  <2>4. ghost'.owes => ghost.owes
    BY <1>25, Records DEF Invalidated, Leave
  <2>5. word' = word
    BY <1>25 DEF Invalidated, Leave
  <2>6. ~Releasing
    BY <1>25 DEF Invalidated, Leave
  <2>9. QED
    BY <2>1, <2>3, <2>4, <2>5, <2>6
<1>26. CASE SafetyFailure
  <2>1. UNCHANGED <<runnable, plan, run>> /\ pc'.sequence = pc.sequence
        /\ pc'.control \notin Planned
    BY <1>26 DEF SafetyFailure, Leave
  <2>3. rt'.seq \in {0, rt.seq}
    BY <1>26, Records DEF SafetyFailure, Leave, Requested, EndSequence
  <2>4. ghost'.owes => ghost.owes
    BY <1>26, Records DEF SafetyFailure, Leave
  <2>5. word' = word
    BY <1>26 DEF SafetyFailure, Leave
  <2>6. ~Releasing
    BY <1>26 DEF SafetyFailure, Leave
  <2>9. QED
    BY <2>1, <2>3, <2>4, <2>5, <2>6
<1>27. CASE RetireOwner
  <2>1. UNCHANGED <<runnable, plan, run>> /\ pc'.sequence = pc.sequence
        /\ pc'.control \notin Planned
    BY <1>27 DEF RetireOwner, Rested
  <2>3. rt'.seq \in {0, rt.seq}
    BY <1>27, Records DEF RetireOwner, Rested, Requested, EndSequence
  <2>4. ghost'.owes => ghost.owes
    BY <1>27, Records DEF RetireOwner, Rested
  <2>5. word' = word
    BY <1>27 DEF RetireOwner, Rested
  <2>6. ~Releasing
    BY <1>27 DEF RetireOwner, Rested
  <2>9. QED
    BY <2>1, <2>3, <2>4, <2>5, <2>6
<1>28. CASE Wake
  <2>1. UNCHANGED <<runnable, plan, ctl>> /\ pc'.control = pc.control /\ pc.sequence = "idle"
        /\ pc'.sequence \in {"take"}
    BY <1>28 DEF Wake
  <2>2. ghost'.owes = ghost.owes
    BY <1>28, Records DEF Wake
  <2>3. word' = word
    BY <1>28 DEF Wake
  <2>4. rt'.seq \in {0, rt.seq}
    BY <1>28, Records DEF Wake, Requested, EndSequence
  <2>9. QED
    BY <2>1, <2>2, <2>3, <2>4
<1>29. CASE Take
  <2>1. /\ UNCHANGED <<plan, ctl>> /\ runnable' = 0 /\ pc'.control = pc.control
        /\ pc.sequence = "take" /\ pc'.sequence = IF runnable = 0 THEN "idle" ELSE "enter"
    BY <1>29 DEF Take
  <2>2. ghost'.owes = ghost.owes
    BY <1>29, Records DEF Take
  <2>3. word' = word
    BY <1>29 DEF Take
  <2>4. rt'.seq \in {0, rt.seq}
    BY <1>29, Records DEF Take, Requested, EndSequence
  <2>9. QED
    BY <2>1, <2>2, <2>3, <2>4
<1>30. CASE Enter
  <2>1. UNCHANGED <<runnable, plan, ctl>> /\ pc'.control = pc.control /\ pc.sequence = "enter"
        /\ pc'.sequence \in {"begin", "end"}
    BY <1>30 DEF Enter
  <2>2. ghost'.owes = ghost.owes
    BY <1>30, Records DEF Enter
  <2>3. word' = word
    BY <1>30 DEF Enter
  <2>4. rt'.seq \in {0, rt.seq}
    BY <1>30, Records DEF Enter, Requested, EndSequence
  <2>9. QED
    BY <2>1, <2>2, <2>3, <2>4
<1>31. CASE BeginRun
  <2>1. UNCHANGED <<runnable, plan, ctl>> /\ pc'.control = pc.control /\ pc.sequence = "begin"
        /\ pc'.sequence \in {"check", "refused"} /\ (word.st = "accepted" => pc'.sequence = "check")
    BY <1>31 DEF BeginRun
  <2>2. ghost'.owes = ghost.owes
    BY <1>31, Records DEF BeginRun
  <2>3. word' # word => word.st = "accepted" /\ word' = Plain("running", 0)
    BY <1>31 DEF BeginRun
  <2>4. rt'.seq \in {0, rt.seq}
    BY <1>31, Records DEF BeginRun, Requested, EndSequence
  <2>5. word' # word => word'.owned = FALSE
    <3>1. Plain("running", 0).owned = FALSE
      BY ONLY PlainFacts
    <3>2. QED
      BY <2>3, <3>1
  <2>9. QED
    BY <2>1, <2>2, <2>3, <2>4, <2>5
<1>32. CASE Refused
  <2>1. UNCHANGED <<runnable, plan, ctl>> /\ pc'.control = pc.control /\ pc.sequence = "refused"
        /\ pc'.sequence \in {"clean", "end"}
    BY <1>32 DEF Refused
  <2>2. ghost'.owes = ghost.owes
    BY <1>32, Records DEF Refused
  <2>3. word' = word
    BY <1>32 DEF Refused
  <2>4. rt'.seq \in {0, rt.seq}
    BY <1>32, Records DEF Refused, Requested, EndSequence
  <2>9. QED
    BY <2>1, <2>2, <2>3, <2>4
<1>33. CASE LoopStep
  <2>1. UNCHANGED <<plan, status, ctl>> /\ runnable' = 0 /\ pc'.control = pc.control
        /\ pc.control \notin Planned
        /\ pc.sequence \in Loop /\ pc'.sequence \in Loop \union {"decide"} /\ rt'.seq = rt.seq
    BY <1>33, LoopCalm, LoopFacts DEF Starting
  <2>2. pc'.sequence \notin {"idle", "take", "enter", "begin", "refused", "end", "free"}
        /\ pc.sequence \notin {"idle", "take"}
    BY <2>1 DEF Loop
  <2>3. word' = word \/ word'.owned = FALSE
    <3>1. CASE Publish \/ Complete
      <4>1. word' = word \/ \E st : word' = Plain(st, run.executed)
        BY <3>1 DEF Publish, Complete, Claim, ClaimCheck, ClaimWord
      <4>2. \A st : Plain(st, run.executed).owned = FALSE
        BY ONLY PlainFacts
      <4>3. QED
        BY <4>1, <4>2
    <3>2. CASE Final
      <4> DEFINE w == Word(run.st, run.executed, IF Failure THEN run.failed ELSE 0,
                           IF Failure THEN run.code ELSE "none", FALSE)
      <4>1. w.owned = FALSE
        BY DEF Word
      <4>2. word' = word \/ word' = w
        BY <3>2 DEF Final, Claim, ClaimCheck, ClaimWord
      <4> HIDE DEF w
      <4>3. QED
        BY <4>1, <4>2
    <3>3. CASE ~(Publish \/ Complete) /\ ~Final
      BY <1>33, <3>3 DEF LoopStep, Check, Authority, Execute, Report, Accepted, Answered, Wait,
         Incomplete,
         Progress
    <3>4. QED
      BY <3>1, <3>2, <3>3
  <2>4. ghost'.owes = ghost.owes \/ Current(plan)
    BY <1>33, Records DEF LoopStep, Check, Authority, Execute, Report, Accepted, Answered, Wait,
       Incomplete,
       Progress, Publish, Complete, Final, Claim, ClaimCheck, ClaimWord
  <2>5. Current(plan) => rt.seq # 0
    BY DEF Current
  <2>6. QED
    BY <2>1, <2>2, <2>3, <2>4, <2>5
<1>34. CASE Decide
  <2>1. UNCHANGED <<runnable, plan, ctl>> /\ pc'.control = pc.control /\ pc.sequence = "decide"
        /\ pc'.sequence \in {"clean", "end"} /\ (pc'.sequence = "end" => word.st = "completed" \/ word.owned)
    BY <1>34 DEF Decide
  <2>2. ghost'.owes = ghost.owes
    BY <1>34, Records DEF Decide
  <2>3. word' = word
    BY <1>34 DEF Decide
  <2>4. rt'.seq \in {0, rt.seq}
    BY <1>34, Records DEF Decide, Requested, EndSequence
  <2>5. word.st = "completed" => word.executed = Len(plan.code)
    BY <2>1 DEF Words, Ownership, Starting
  <2>9. QED
    BY <2>1, <2>2, <2>3, <2>4, <2>5
<1>35. CASE Clean
  <2>1. UNCHANGED <<runnable, plan, ctl>> /\ pc'.control = pc.control /\ pc.sequence = "clean"
        /\ pc'.sequence \in {"end"}
    BY <1>35 DEF Clean, Requested
  <2>2. ghost'.owes = FALSE
    BY <1>35, Records DEF Clean, Requested
  <2>3. word' = word
    BY <1>35 DEF Clean, Requested
  <2>4. rt'.seq \in {0, rt.seq}
    BY <1>35, Records DEF Clean, Requested, Requested, EndSequence
  <2>9. QED
    BY <2>1, <2>2, <2>3, <2>4
<1>36. CASE End
  <2>1. UNCHANGED <<runnable, plan, ctl>> /\ pc'.control = pc.control /\ pc.sequence = "end"
        /\ pc'.sequence \in {"free"}
    BY <1>36 DEF End, EndSequence
  <2>2. ghost'.owes = ghost.owes
    BY <1>36, Records DEF End, EndSequence
  <2>3. word' = word
    BY <1>36 DEF End, EndSequence
  <2>4. rt'.seq \in {0, rt.seq}
    BY <1>36, Records DEF End, EndSequence, Requested, EndSequence
  <2>9. QED
    BY <2>1, <2>2, <2>3, <2>4
<1>37. CASE Free
  <2>1. UNCHANGED <<runnable, plan, ctl>> /\ pc'.control = pc.control /\ pc.sequence = "free"
        /\ pc'.sequence \in {"idle"}
    BY <1>37 DEF Free
  <2>2. ghost'.owes = ghost.owes
    BY <1>37, Records DEF Free
  <2>3. word' = word
    BY <1>37 DEF Free
  <2>4. rt'.seq \in {0, rt.seq}
    BY <1>37, Records DEF Free, Requested, EndSequence
  <2>9. QED
    BY <2>1, <2>2, <2>3, <2>4
<1>38. CASE Doze
  BY <1>38 DEF Doze
<1>39. CASE CutAuthority
  BY <1>39 DEF CutAuthority
<1>40. CASE Settle
  BY <1>40 DEF Settle
<1>41. CASE UNCHANGED vars
  BY <1>41 DEF vars
<1>42. QED
  BY <1>1, <1>2, <1>3, <1>4, <1>5, <1>6, <1>7, <1>8, <1>9, <1>10, <1>11, <1>12, <1>13, <1>14,
     <1>15, <1>16, <1>17, <1>18, <1>19, <1>20, <1>21, <1>22, <1>23, <1>24, <1>25, <1>26, <1>27,
     <1>28, <1>29, <1>30, <1>31, <1>32, <1>33, <1>34, <1>35, <1>36, <1>37, <1>38, <1>39, <1>40,
     <1>41
     DEF Next, Control, Run, LoopStep

-----------------------------------------------------------------------------
(* The theorems.                                                           *)

\* Everything starts out blank.
LEMMA Started ==
    Init => /\ TypeOK /\ Ownership /\ Simulation /\ Awaited
            /\ Words /\ Accounts /\ Cleanup /\ Adoption
<1> SUFFICES ASSUME Init PROVE TypeOK /\ Ownership /\ Simulation /\ Awaited
                               /\ Words /\ Accounts /\ Cleanup /\ Adoption
  OBVIOUS
<1>1. TypeOK
  <2>1. word \in Status
    BY Blank DEF Init
  <2>2. rt \in Runtime
    BY Blank DEF Init, Runtime
  <2>3. pc \in [control : ControlPoint, sequence : SequencePoint]
    BY DEF Init, ControlPoint, SequencePoint
  <2>4. status \in [gen : Nat, owner : Nat] /\ ghost \in History
    BY DEF Init, NoStatus, History
  <2>5. plan \in Admission /\ ctl \in Errand /\ run \in Progression
    BY Blank DEF Init
  <2>6. /\ next \in Nat \ {0} /\ reserved \in Nat /\ runnable \in Nat /\ canceled \in Nat
        /\ owner \in Nat /\ owners \in Nat
    BY DEF Init
  <2>7. cancel \in BOOLEAN /\ notified \in BOOLEAN
    BY DEF Init
  <2>8. QED
    BY <2>1, <2>2, <2>3, <2>4, <2>5, <2>6, <2>7 DEF TypeOK
<1>2. pc.control = "idle" /\ pc.sequence = "idle"
  BY DEF Init
<1>3. /\ next = 1 /\ reserved = 0 /\ runnable = 0 /\ status.gen = 0 /\ rt.seq = 0
      /\ plan.gen = 0 /\ plan.seq = 0 /\ ctl.gen = 0 /\ ctl.plan.gen = 0 /\ ctl.plan.seq = 0
      /\ ghost.owes = FALSE /\ ghost.adopted = 0
  BY DEF Init, NoStatus, NoPlan, NoCtl
<1>4. Sorted(run.hid.keys) /\ Sorted(plan.initial.keys) /\ Sorted(ctl.plan.initial.keys)
      /\ Sorted(rt.confirmed.keys)
  BY UpSorted DEF Init
<1>5. word.st = "accepted" /\ word.executed = 0 /\ word.owned = FALSE
  BY DEF Init, Plain, Word
<1> USE DEF In, At, Running
<1>6. Ownership
  BY <1>2, <1>3 DEF Ownership, Starting, Planned
<1>7. Simulation
  BY <1>2, <1>3, <1>4 DEF Simulation, Planned, Loop, Unapplied, Appliedto
<1>8. Awaited
  BY <1>2, <1>3 DEF Awaited
<1>9. Words
  BY <1>2, <1>3, <1>5, BoundsAssumption DEF Words, Due, Open, Loop
<1>10. Accounts
  BY <1>2, <1>3 DEF Accounts, Due, Planned, Before, Behind, Loop
<1>11. Cleanup
  BY <1>2, <1>3, <1>5 DEF Cleanup, Planned, Due
<1>12. Adoption
  BY <1>2, <1>3 DEF Adoption
<1>13. QED
  BY <1>1, <1>6, <1>7, <1>8, <1>9, <1>10, <1>11, <1>12

\* The layers every other stands on.
Base == TypeOK /\ Ownership /\ Simulation /\ Words

\* They hold together: each needs the other three.
LEMMA BaseAlways == Spec => []Base
<1>1. Init => Base
  BY Started DEF Base
<1>2. Base /\ [Next]_vars => Base'
  BY TypeStep, OwnershipStep, SimulationStep, WordsStep DEF Base
<1>3. QED
  BY <1>1, <1>2, PTL DEF Spec

\* Every variable of the two tasks keeps to its type.
THEOREM TypeCorrect == Spec => []TypeOK
<1>1. Base => TypeOK
  BY DEF Base
<1>2. QED
  BY <1>1, BaseAlways, PTL

\* The plan, the authority and the reservation are those of the sequence that
\* runs or waits to run (execute and start_impl share them without a lock).
THEOREM PlanOwnedCorrect == Spec => []PlanOwned
<1>1. Base => PlanOwned
  BY DEF Base, Ownership, PlanOwned
<1>2. QED
  BY <1>1, BaseAlways, PTL

\* No wakeup is lost: with both tasks idle nothing holds the reservation.
THEOREM NoneForgottenCorrect == Spec => []NoneForgotten
<1>1. Init => Awaited
  BY Started
<1>2. Base /\ Awaited /\ [Next]_vars => Awaited'
  BY AwaitedStep DEF Base
<1>3. Awaited => NoneForgotten
  BY DEF Awaited, NoneForgotten, In, At, Running, Starting
<1>4. QED
  BY <1>1, <1>2, <1>3, BaseAlways, PTL DEF Spec

\* Every report a plan produces lists its keys without gaps, in order, once.
THEOREM KeysInOrderCorrect == Spec => []KeysInOrder
<1>1. Base => KeysInOrder
  BY DEF Base, Simulation, Sorted, KeysInOrder
<1>2. QED
  BY <1>1, BaseAlways, PTL

\* A step of any task, seen from the word.
LEMMA OneTerminalStep ==
    ASSUME Base, [Next]_vars, status.gen # 0, status'.gen = status.gen
    PROVE  word'.executed >= word.executed /\ (TerminalIn(word) => word' = word)
<1>0. TypeOK /\ Ownership /\ Simulation /\ Words
  BY DEF Base
<1>1. word.executed \in Nat
  BY <1>0, Fields
<1>2. CASE word' = word
  BY <1>1, <1>2
<1>3. CASE Record
  BY <1>0, <1>3 DEF Record, Goto, Words, In
<1>4. CASE Adopt \/ Strike
  <2>1. word' = word \/ (Open(word) /\ \E owned \in BOOLEAN : word' = Aborted(word, owned))
    BY <1>4 DEF Adopt, Strike
  <2>2. CASE word' = word
    BY <1>2, <2>2
  <2>3. CASE Open(word) /\ \E owned \in BOOLEAN : word' = Aborted(word, owned)
    <3>1. word'.executed = word.executed
      <4>1. PICK owned \in BOOLEAN : word' = Aborted(word, owned)
        BY <2>3
      <4>2. QED
        BY <1>0, <2>3, <4>1, AbortedFacts, Zenon
    <3>2. ~TerminalIn(word)
      BY <2>3 DEF Open, TerminalIn, Terminals
    <3>3. QED
      BY <1>1, <3>1, <3>2
  <2>4. QED
    BY <2>1, <2>2, <2>3
<1>5. CASE BeginRun
  <2>1. CASE word.st = "accepted"
    <3>1. word' = Plain("running", 0) /\ word.executed = 0
      BY <1>0, <1>5, <2>1 DEF BeginRun, Words
    <3>2. word'.executed = 0
      BY <3>1 DEF Plain, Word
    <3>3. QED
      BY <2>1, <3>1, <3>2 DEF TerminalIn, Terminals
  <2>2. CASE word.st # "accepted"
    BY <1>2, <1>5, <2>2 DEF BeginRun
  <2>3. QED
    BY <2>1, <2>2
<1>6. CASE Publish \/ Complete \/ Final
  <2>1. \/ word' = word
        \/ /\ pc.sequence \in {"publishWord", "completeWord", "finalWord"}
           /\ word.st = "running"
           /\ word'.executed = run.executed
    <3>1. CASE Publish \/ Complete
      <4>1. \/ word' = word
            \/ /\ pc.sequence \in {"publishWord", "completeWord"} /\ word.st = "running"
               /\ \E st : word' = Plain(st, run.executed)
        BY <3>1 DEF Publish, Complete, Claim, ClaimCheck, ClaimWord, Task, Goto, Only
      <4>2. \A st : Plain(st, run.executed).executed = run.executed
        BY ONLY PlainFacts
      <4>3. QED
        BY <4>1, <4>2
    <3>2. CASE Final
      <4> DEFINE w == Word(run.st, run.executed, IF Failure THEN run.failed ELSE 0,
                           IF Failure THEN run.code ELSE "none", FALSE)
      <4>1. w.executed = run.executed
        BY DEF Word
      <4>2. word' = word \/ (pc.sequence = "finalWord" /\ word.st = "running" /\ word' = w)
        BY <3>2 DEF Final, Claim, ClaimCheck, ClaimWord, Task, Goto, Only
      <4> HIDE DEF w
      <4>3. QED
        BY <4>1, <4>2
    <3>3. QED
      BY <1>6, <3>1, <3>2
  <2>2. CASE word' = word
    BY <1>2, <2>2
  <2>3. CASE word' # word
    <3>1. /\ pc.sequence \in {"publishWord", "completeWord", "finalWord"} /\ word.st = "running"
          /\ word'.executed = run.executed
      BY <2>1, <2>3
    <3>2. word.executed = run.index - 1 /\ run.executed \in {run.index, run.index - 1}
      BY <1>0, <3>1 DEF Words, At, Loop, Counted
    <3>3. run.index \in Nat
      BY <1>0, Fields
    <3>4. word'.executed >= word.executed
      BY <3>1, <3>2, <3>3
    <3>5. QED
      BY <3>1, <3>4 DEF TerminalIn, Terminals
  <2>4. QED
    BY <2>2, <2>3
<1>7. CASE ~Record /\ ~(Adopt \/ Strike) /\ ~BeginRun /\ ~(Publish \/ Complete \/ Final)
  BY <1>2, <1>7 DEF Next, Control, Run, vars, atomics, Rest, Only, Start, Admit, AdmitRefused,
     Reject,
     Unreserve, Plan, Withdraw, Commit, Arm, Release, Adopted, AbortCheck, Cancel, Recheck,
     Revoke, Stop,
     Safety, ReleaseAll, Hello, TakeOver, LeaseExpires, Invalidated, SafetyFailure, Leave,
     RetireOwner,
     Wake, Take, Enter, Refused, Check, Authority, Execute, Report, Accepted, Answered, Wait,
     Incomplete,
     Progress, Decide, Clean, End, Free, Doze, CutAuthority, Settle
<1>8. QED
  BY <1>3, <1>4, <1>5, <1>6, <1>7

\* Completion, failure, timeout and revocation compete for one terminal word:
\* while a record is published its count never falls and its end is final.
THEOREM OneTerminalCorrect == Spec => OneTerminal
<1>1. Base /\ [Next]_vars =>
        [ status.gen # 0 /\ status'.gen = status.gen =>
            /\ word'.executed >= word.executed
            /\ TerminalIn(word) => word' = word ]_vars
  BY OneTerminalStep
<1>2. QED
  BY <1>1, BaseAlways, PTL DEF Spec, OneTerminal

\* A terminal record tells what was done: every token, every delay and every
\* report of a completed sequence, and how far any other came.
THEOREM TerminalTrueCorrect == Spec => []TerminalTrue
<1>1. Init => Accounts
  BY Started
<1>2. Base /\ Accounts /\ [Next]_vars => Accounts'
  BY AccountsStep DEF Base
<1>3. Base /\ Accounts => TerminalTrue
  <2> SUFFICES ASSUME Base, Accounts, pc.sequence = "end", status.gen = run.gen
               PROVE  IF word.st = "completed"
                      THEN /\ word.executed = Len(plan.code)
                           /\ ghost.reports = Hids(Len(plan.code))
                           /\ ghost.waited = Scheduled(plan.code)[Len(plan.code)].ms
                      ELSE /\ word.st \in {"failed", "aborted"} /\ word.failed = word.executed
                           /\ ghost.reports \in {Hids(word.executed), Hids(word.executed + 1)}
    BY DEF TerminalTrue
  <2>1. \A n : Hids(n) = HidsOf(plan.code, n)
    BY DEF Hids, HidsOf
  <2>2. pc.control \notin Starting
    BY DEF Base, Ownership, In, Running
  <2>3. /\ word.st \in {"completed", "failed", "aborted"}
        /\ word.st = "completed" => word.executed = Len(plan.code)
        /\ word.st \in {"failed", "aborted"} => word.failed = word.executed
    BY <2>2 DEF Base, Words, At, In, TerminalIn, Terminals, Starting
  <2>4. IF word.st = "completed"
        THEN /\ ghost.reports = HidsOf(plan.code, Len(plan.code))
             /\ ghost.waited = Scheduled(plan.code)[Len(plan.code)].ms
        ELSE ghost.reports \in {HidsOf(plan.code, word.executed), HidsOf(plan.code, word.executed + 1)}
    BY DEF Accounts, At
  <2>5. QED
    BY <2>1, <2>3, <2>4
<1>4. QED
  BY <1>1, <1>2, <1>3, BaseAlways, PTL DEF Spec

\* A sequence that had a report accepted and did not complete is over only with
\* an all-up asked for after it, and a cleanup is asked for once: by the
\* sequence, or by the release that adopted it.
THEOREM CleanedUpCorrect == Spec => []CleanedUp
<1>1. Init => Cleanup /\ Adoption
  BY Started
<1>2. Base /\ Cleanup /\ Adoption /\ [Next]_vars => (Cleanup /\ Adoption)'
  BY CleanupStep, AdoptionStep DEF Base
<1>3. Base /\ Cleanup /\ Adoption => CleanedUp
  <2> SUFFICES ASSUME Base, Cleanup, Adoption PROVE CleanedUp
    OBVIOUS
  <2>1. reserved = 0 => ~Running
    BY DEF Base, Ownership
  <2>2. pc.sequence = "clean" => reserved = run.gen /\ reserved # 0
    BY DEF Base, Ownership, Running
  <2>3. pc.sequence = "clean" => run.gen > ghost.adopted
    BY <2>2 DEF Adoption, Handed, At
  <2>4. QED
    BY <2>1, <2>3 DEF Cleanup, Fulfilled, CleanedUp
<1>4. QED
  BY <1>1, <1>2, <1>3, BaseAlways, PTL DEF Spec
=============================================================================
