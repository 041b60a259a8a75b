--------------------------- MODULE HidRouteProofs ---------------------------
(***************************************************************************)
(* Theorems of HidRoute for every bound on the generation, with and        *)
(* without runtime faults and watchdog.                                    *)
(***************************************************************************)
EXTENDS HidRoute, TLAPS

\* What every step keeps, as far as the proofs below need it.
Shape ==
    /\ route \in Route /\ generation \in Nat /\ publishing \in BOOLEAN
    /\ writer \in Process \cup {"none", "lost"}
    /\ queued \subseteq [op : Operation, seen : [route : Route, generation : Nat]]
    /\ pc \in [Process -> ControlPoint] /\ op \in [Process -> Operation]
    /\ seen \in [Process -> [route : Route, generation : Nat]]

\* Control points between the two increments of the publication sequence.
PublishingPoint == {"recheck", "abort", "store", "retire", "leave_retire"}

(* SoleWriter made inductive: an odd publication sequence belongs to a     *)
(* writer that has yet to publish, and not to one that leaves.             *)
Exclusion ==
    /\ Shape
    /\ SoleWriter
    /\ publishing /\ writer /= "lost" => pc[writer] \in PublishingPoint

(* The mailbox has one writer at a time. *)
LEMMA ExclusionInvariant == Spec => []Exclusion
<1> USE DEF Exclusion, Shape, SoleWriter, Writing, PublishingPoint, Process, ControlPoint,
     Operation, Route
<1>1. Init => Exclusion
  <2> SUFFICES ASSUME Init PROVE Exclusion
    OBVIOUS
  <2>1. Shape
    BY DEF Init, NoSnapshot
  <2>2. SoleWriter
    BY DEF Init
  <2>3. QED
    BY <2>1, <2>2 DEF Init
<1>2. Exclusion /\ [Next]_vars => Exclusion'
  <2> SUFFICES ASSUME Exclusion, [Next]_vars PROVE Exclusion'
    OBVIOUS
  <2>1. ASSUME NEW p \in Process, Enter(p) PROVE Exclusion'
    BY <2>1 DEF Enter, Nothing, Goto
  <2>2. ASSUME NEW p \in Process, EnterBusy(p) PROVE Exclusion'
    BY <2>2 DEF EnterBusy, Goto, Finished, Onward, shared
  <2>3. ASSUME NEW p \in Process, Retire(p) PROVE Exclusion'
    <3>g. generation' \in Nat
      BY <2>3 DEF Retire, Goto
    <3>a. /\ route' \in Route /\ publishing' \in BOOLEAN
          /\ writer' \in Process \cup {"none", "lost"}
      BY <2>3 DEF Retire, Goto
    <3>b. pc' \in [Process -> ControlPoint] /\ UNCHANGED queued
      BY <2>3 DEF Retire, Goto
    <3>c. /\ op' \in [Process -> Operation]
          /\ seen' \in [Process -> [route : Route, generation : Nat]]
      BY <2>3 DEF Retire, Goto
    <3>1. Shape'
      BY <3>g, <3>a, <3>b, <3>c
    <3>2. SoleWriter'
      BY <2>3 DEF Retire, Goto
    <3>3. (publishing /\ writer /= "lost" => pc[writer] \in PublishingPoint)'
      BY <2>3 DEF Retire, Goto
    <3>4. QED
      BY <3>1, <3>2, <3>3
  <2>4. ASSUME NEW p \in Process, LeaveDurable(p) PROVE Exclusion'
    BY <2>4 DEF LeaveDurable, Nothing, Goto
  <2>5. ASSUME NEW p \in Process, LeaveRetire(p) PROVE Exclusion'
    <3>g. generation' \in Nat
      BY <2>5 DEF LeaveRetire, Nothing, Goto
    <3>a. /\ route' \in Route /\ publishing' \in BOOLEAN
          /\ writer' \in Process \cup {"none", "lost"}
      BY <2>5 DEF LeaveRetire, Nothing, Goto
    <3>b. pc' \in [Process -> ControlPoint] /\ UNCHANGED queued
      BY <2>5 DEF LeaveRetire, Nothing, Goto
    <3>c. /\ op' \in [Process -> Operation]
          /\ seen' \in [Process -> [route : Route, generation : Nat]]
      BY <2>5 DEF LeaveRetire, Nothing, Goto
    <3>1. Shape'
      BY <3>g, <3>a, <3>b, <3>c
    <3>2. SoleWriter'
      BY <2>5 DEF LeaveRetire, Nothing, Goto
    <3>3. (publishing /\ writer /= "lost" => pc[writer] \in PublishingPoint)'
      BY <2>5 DEF LeaveRetire, Nothing, Goto
    <3>4. QED
      BY <3>1, <3>2, <3>3
  <2>6. ASSUME NEW p \in Process, LeaveConditional(p) PROVE Exclusion'
    BY <2>6 DEF LeaveConditional, Nothing, Goto
  <2>7. ASSUME NEW p \in Process, LeaveWriter(p) PROVE Exclusion'
    BY <2>7 DEF LeaveWriter, Goto, Finished, Onward
  <2>8. ASSUME NEW p \in Process, Match(p) PROVE Exclusion'
    BY <2>8 DEF Match, Nothing, Goto, shared, Seen, Onward
  <2>9. ASSUME NEW p \in Process, PublishDurable(p) PROVE Exclusion'
    BY <2>9 DEF PublishDurable, Nothing, Goto, Onward, Request
  <2>10. ASSUME NEW p \in Process, StoreDurable(p) PROVE Exclusion'
    BY <2>10 DEF StoreDurable, Nothing, Goto, Request
  <2>11. ASSUME NEW p \in Process, InvalidateCheck(p) PROVE Exclusion'
    BY <2>11 DEF InvalidateCheck, Nothing, Goto, Invalidating
  <2>12. ASSUME NEW p \in Process, CompleteCheck(p) PROVE Exclusion'
    BY <2>12 DEF CompleteCheck, Nothing, Goto, At, Seen, Pending
  <2>13. CASE UsbValidate
    BY <2>13 DEF UsbValidate, Goto, Finished, shared, Pending
  <2>14. CASE UsbCheck
    BY <2>14 DEF UsbCheck, Nothing, Goto, At, Pending
  <2>15. CASE UsbPublish
    BY <2>15 DEF UsbPublish, Nothing, Goto
  <2>16. CASE UsbRecheck
    BY <2>16 DEF UsbRecheck, Nothing, Goto, shared
  <2>17. CASE UsbAbort
    BY <2>17 DEF UsbAbort, Nothing, Goto
  <2>18. CASE UsbStore
    BY <2>18 DEF UsbStore, Goto, At
  <2>19. CASE UsbFinish
    <3>g. generation' \in Nat
      BY <2>19 DEF UsbFinish, Nothing, Goto
    <3>a. /\ route' \in Route /\ publishing' \in BOOLEAN
          /\ writer' \in Process \cup {"none", "lost"}
      BY <2>19 DEF UsbFinish, Nothing, Goto
    <3>b. pc' \in [Process -> ControlPoint] /\ UNCHANGED queued
      BY <2>19 DEF UsbFinish, Nothing, Goto
    <3>c. /\ op' \in [Process -> Operation]
          /\ seen' \in [Process -> [route : Route, generation : Nat]]
      BY <2>19 DEF UsbFinish, Nothing, Goto
    <3>1. Shape'
      BY <3>g, <3>a, <3>b, <3>c
    <3>2. SoleWriter'
      BY <2>19 DEF UsbFinish, Nothing, Goto
    <3>3. (publishing /\ writer /= "lost" => pc[writer] \in PublishingPoint)'
      BY <2>19 DEF UsbFinish, Nothing, Goto
    <3>4. QED
      BY <3>1, <3>2, <3>3
  <2>20. CASE UsbClear
    BY <2>20 DEF UsbClear, Nothing, Goto
  <2>21. CASE BeginCheck
    <3>g. generation' \in Nat
      BY <2>21 DEF BeginCheck, Nothing, Goto, Start, At, NoSnapshot
    <3>a. /\ route' \in Route /\ publishing' \in BOOLEAN
          /\ writer' \in Process \cup {"none", "lost"}
      BY <2>21 DEF BeginCheck, Nothing, Goto, Start, At, NoSnapshot
    <3>b. pc' \in [Process -> ControlPoint] /\ UNCHANGED queued
      BY <2>21 DEF BeginCheck, Nothing, Goto, Start, At, NoSnapshot
    <3>c. /\ op' \in [Process -> Operation]
          /\ seen' \in [Process -> [route : Route, generation : Nat]]
      BY <2>21 DEF BeginCheck, Nothing, Goto, Start, At, NoSnapshot
    <3>1. Shape'
      BY <3>g, <3>a, <3>b, <3>c
    <3>2. SoleWriter'
      BY <2>21 DEF BeginCheck, Nothing, Goto, Start, At, NoSnapshot
    <3>3. (publishing /\ writer /= "lost" => pc[writer] \in PublishingPoint)'
      BY <2>21 DEF BeginCheck, Nothing, Goto, Start, At, NoSnapshot
    <3>4. QED
      BY <3>1, <3>2, <3>3
  <2>22. CASE BeginStore
    BY <2>22 DEF BeginStore, Nothing, Start, At
  <2>23. CASE Confirm
    BY <2>23 DEF Confirm, Goto, Start, Finished, shared, Seen, Pending
  <2>24. CASE Schedule
    BY <2>24 DEF Schedule, Goto, shared, NoSnapshot
  <2>25. CASE UsbCapture
    BY <2>25 DEF UsbCapture, Start, Claimed, NoSnapshot
  <2>26. CASE NoneRequest
    BY <2>26 DEF NoneRequest, Start, shared, Claimed, Pending, NoSnapshot
  <2>27. CASE Detach
    BY <2>27 DEF Detach, Start, shared, Claimed, NoSnapshot
  <2>28. CASE Attach
    BY <2>28 DEF Attach, shared, proc
  <2>29. CASE ExProcess
    BY <2>29 DEF ExProcess, Start, shared, proc, Seen, Pending
  <2>30. CASE Uninstall
    BY <2>30 DEF Uninstall
  <2>31. CASE FaultShutdown
    BY <2>31 DEF FaultShutdown, Start, shared, proc, NoSnapshot
  <2>32. CASE WatchAgain
    BY <2>32 DEF WatchAgain, Nothing, Start, shared, WatchdogSnapshot, NoSnapshot
  <2>33. CASE StallStale
    BY <2>33 DEF StallStale, Goto, Withdraw
  <2>34. CASE StallPending
    BY <2>34 DEF StallPending, SameLink, Nothing, Goto, shared
  <2>35. CASE StallCurrent
    BY <2>35 DEF StallCurrent, SameLink, Nothing, Goto, shared, Seen, Watched
  <2>36. CASE ClaimPublish
    BY <2>36 DEF ClaimPublish, Goto, Seen, Withdraw, Watched, Request
  <2>37. CASE ClaimStore
    BY <2>37 DEF ClaimStore, Goto, Request
  <2>38. CASE ClaimCheck
    BY <2>38 DEF ClaimCheck, Goto, At, Withdraw
  <2>39. CASE ClaimRetire
    BY <2>39 DEF ClaimRetire, SameLink, Nothing, Goto
  <2>40. CASE ClaimRelease
    BY <2>40 DEF ClaimRelease, Goto, Withdraw
  <2>41. CASE WatchStall
    BY <2>41 DEF WatchStall, Start, shared, WatchdogSnapshot, NoSnapshot
  <2>42. CASE CbVeto
    BY <2>42 DEF CbVeto, Nothing, Goto
  <2>43. CASE CbSnapshot
    BY <2>43 DEF CbSnapshot, Nothing, Goto, Start, shared
  <2>44. CASE CbDown
    BY <2>44 DEF CbDown, Start, shared, LinkCut, NoSnapshot
  <2>45. CASE CbUp
    BY <2>45 DEF CbUp, shared, proc
  <2>46. CASE CbFault
    BY <2>46 DEF CbFault, Start, shared, LinkCut, NoSnapshot
  <2>47. CASE UNCHANGED vars
    BY <2>47 DEF vars, shared, proc
  <2>48. QED
    BY <2>1, <2>2, <2>3, <2>4, <2>5, <2>6, <2>7, <2>8, <2>9, <2>10, <2>11, <2>12, <2>13, <2>14, <2>15, <2>16, <2>17, <2>18, <2>19, <2>20, <2>21, <2>22, <2>23, <2>24, <2>25, <2>26, <2>27, <2>28, <2>29, <2>30, <2>31, <2>32, <2>33, <2>34, <2>35, <2>36, <2>37, <2>38, <2>39, <2>40, <2>41, <2>42, <2>43, <2>44, <2>45, <2>46, <2>47
       DEF Next, CtlStep, Command, ExStep, CbStep, LinkEvent, WriterStep, InvalidateStep, Process
<1>3. QED
  BY <1>1, <1>2, PTL DEF Spec

(* One holder of writer_active_, and no incoherent Snapshot without one,   *)
(* whatever the contexts do.                                               *)
THEOREM SoleWriterCorrect == Spec => []SoleWriter
BY ExclusionInvariant, PTL DEF Exclusion

(* GateOwned made inductive: where in route.usb a publication is           *)
(* registered, and that a request of the watchdog is the one of its token. *)
Ownership ==
    /\ cut \in [active : BOOLEAN, moved : BOOLEAN]
    /\ conditional \in [state : {"none", "publishing", "active"}, generation : Nat]
    /\ watch \in [held : BOOLEAN, generation : Nat, attached : BOOLEAN]
    /\ cut.active => \/ pc["ctl"] \in {"publish", "recheck", "abort", "finish", "clear"}
                     \/ pc["ctl"] \in {"store", "retire"} /\ op["ctl"] = "usb"
    /\ pc["ctl"] \in {"publish", "recheck", "abort", "finish", "clear"} => op["ctl"] = "usb"
    /\ conditional.state /= "none" =>
          \/ pc["ex"] = "conditional_store"
          \/ watch.held /\ conditional = Request(watch.generation)

\* A withdrawn request is gone: the mailbox was free, or held that very token.
LEMMA Withdrawn ==
    ASSUME Ownership, pc["ex"] /= "conditional_store", Withdraw
    PROVE  /\ conditional' \in [state : {"none", "publishing", "active"}, generation : Nat]
           /\ conditional'.state = "none"
           /\ watch' \in [held : BOOLEAN, generation : Nat, attached : BOOLEAN]
BY DEF Ownership, Withdraw, Cancel, Request

(* Whoever holds the writer gate or a claim is where the code lets it be. *)
LEMMA OwnershipInvariant == Spec => []Ownership
<1> USE DEF Ownership, Shape, Process, Request
<1>1. Init => Ownership
  BY DEF Init
<1>2. Exclusion /\ Ownership /\ [Next]_vars => Ownership'
  <2> SUFFICES ASSUME Shape, Ownership, [Next]_vars PROVE Ownership'
    BY DEF Exclusion
  <2>1. ASSUME NEW p \in Process, Enter(p) PROVE Ownership'
    BY <2>1 DEF Enter, Nothing, Goto
  <2>2. ASSUME NEW p \in Process, EnterBusy(p) PROVE Ownership'
    BY <2>2 DEF EnterBusy, Goto, Finished, Onward, shared
  <2>3. ASSUME NEW p \in Process, Retire(p) PROVE Ownership'
    BY <2>3 DEF Retire, Goto, Cancel
  <2>4. ASSUME NEW p \in Process, LeaveDurable(p) PROVE Ownership'
    BY <2>4 DEF LeaveDurable, Nothing, Goto
  <2>5. ASSUME NEW p \in Process, LeaveRetire(p) PROVE Ownership'
    BY <2>5 DEF LeaveRetire, Nothing, Goto
  <2>6. ASSUME NEW p \in Process, LeaveConditional(p) PROVE Ownership'
    BY <2>6 DEF LeaveConditional, Nothing, Goto
  <2>7. ASSUME NEW p \in Process, LeaveWriter(p) PROVE Ownership'
    BY <2>7 DEF LeaveWriter, Goto, Finished, Onward
  <2>8. ASSUME NEW p \in Process, Match(p) PROVE Ownership'
    BY <2>8 DEF Match, Nothing, Goto, shared, Seen, Onward
  <2>9. ASSUME NEW p \in Process, PublishDurable(p) PROVE Ownership'
    BY <2>9 DEF PublishDurable, Nothing, Goto, Onward
  <2>10. ASSUME NEW p \in Process, StoreDurable(p) PROVE Ownership'
    BY <2>10 DEF StoreDurable, Nothing, Goto
  <2>11. ASSUME NEW p \in Process, InvalidateCheck(p) PROVE Ownership'
    BY <2>11 DEF InvalidateCheck, Nothing, Goto, Invalidating
  <2>12. ASSUME NEW p \in Process, CompleteCheck(p) PROVE Ownership'
    BY <2>12 DEF CompleteCheck, Nothing, Goto, At, Seen, Pending
  <2>13. CASE UsbValidate
    BY <2>13 DEF UsbValidate, Goto, Finished, shared, Pending
  <2>14. CASE UsbCheck
    <3>1. cut' \in [active : BOOLEAN, moved : BOOLEAN]
      <4>1. cut' = cut \/ cut' = [active |-> FALSE, moved |-> TRUE]
                      \/ cut' = [active |-> TRUE, moved |-> FALSE]
        BY <2>14 DEF UsbCheck, Nothing, Goto, At
      <4>2. /\ cut \in [active : BOOLEAN, moved : BOOLEAN]
            /\ [active |-> FALSE, moved |-> TRUE] \in [active : BOOLEAN, moved : BOOLEAN]
            /\ [active |-> TRUE, moved |-> FALSE] \in [active : BOOLEAN, moved : BOOLEAN]
        OBVIOUS
      <4>3. QED
        BY <4>1, <4>2, Zenon
    <3>2. (cut.active => \/ pc["ctl"] \in {"publish", "recheck", "abort", "finish", "clear"}
                         \/ pc["ctl"] \in {"store", "retire"} /\ op["ctl"] = "usb")'
      BY <2>14 DEF UsbCheck, Nothing, Goto, At
    <3>3. (pc["ctl"] \in {"publish", "recheck", "abort", "finish", "clear"} => op["ctl"] = "usb")'
      BY <2>14 DEF UsbCheck, Nothing, Goto, At
    <3>4. UNCHANGED <<conditional, watch, pc["ex"]>>
      BY <2>14 DEF UsbCheck, Nothing, Goto, At
    <3>5. QED
      BY <3>1, <3>2, <3>3, <3>4
  <2>15. CASE UsbPublish
    BY <2>15 DEF UsbPublish, Nothing, Goto
  <2>16. CASE UsbRecheck
    BY <2>16 DEF UsbRecheck, Nothing, Goto, shared
  <2>17. CASE UsbAbort
    BY <2>17 DEF UsbAbort, Nothing, Goto
  <2>18. CASE UsbStore
    BY <2>18 DEF UsbStore, Goto, At
  <2>19. CASE UsbFinish
    <3>1. cut' \in [active : BOOLEAN, moved : BOOLEAN]
      <4>1. cut' = cut \/ cut' = [active |-> FALSE, moved |-> TRUE]
                      \/ cut' = [active |-> TRUE, moved |-> FALSE]
        BY <2>19 DEF UsbFinish, Nothing, Goto
      <4>2. /\ cut \in [active : BOOLEAN, moved : BOOLEAN]
            /\ [active |-> FALSE, moved |-> TRUE] \in [active : BOOLEAN, moved : BOOLEAN]
            /\ [active |-> TRUE, moved |-> FALSE] \in [active : BOOLEAN, moved : BOOLEAN]
        OBVIOUS
      <4>3. QED
        BY <4>1, <4>2, Zenon
    <3>2. (cut.active => \/ pc["ctl"] \in {"publish", "recheck", "abort", "finish", "clear"}
                         \/ pc["ctl"] \in {"store", "retire"} /\ op["ctl"] = "usb")'
      BY <2>19 DEF UsbFinish, Nothing, Goto
    <3>3. (pc["ctl"] \in {"publish", "recheck", "abort", "finish", "clear"} => op["ctl"] = "usb")'
      BY <2>19 DEF UsbFinish, Nothing, Goto
    <3>4. UNCHANGED <<conditional, watch, pc["ex"]>>
      BY <2>19 DEF UsbFinish, Nothing, Goto
    <3>5. QED
      BY <3>1, <3>2, <3>3, <3>4
  <2>20. CASE UsbClear
    BY <2>20 DEF UsbClear, Nothing, Goto
  <2>21. CASE BeginCheck
    BY <2>21 DEF BeginCheck, Nothing, Goto, Start, At, Pending, NoSnapshot
  <2>22. CASE BeginStore
    BY <2>22 DEF BeginStore, Nothing, Start, At
  <2>23. CASE Confirm
    BY <2>23 DEF Confirm, Goto, Start, Finished, shared, Seen, Pending
  <2>24. CASE Schedule
    BY <2>24 DEF Schedule, Goto, shared, NoSnapshot
  <2>25. CASE UsbCapture
    BY <2>25 DEF UsbCapture, Start, Claimed, NoSnapshot
  <2>26. CASE NoneRequest
    BY <2>26 DEF NoneRequest, Start, shared, Claimed, Pending, NoSnapshot
  <2>27. CASE Detach
    BY <2>27 DEF Detach, Start, shared, Claimed, NoSnapshot
  <2>28. CASE Attach
    BY <2>28 DEF Attach, shared, proc
  <2>29. CASE ExProcess
    BY <2>29 DEF ExProcess, Start, shared, proc, Seen, Pending
  <2>30. CASE Uninstall
    BY <2>30 DEF Uninstall
  <2>31. CASE FaultShutdown
    BY <2>31 DEF FaultShutdown, Start, shared, proc, NoSnapshot
  <2>32. CASE WatchAgain
    BY <2>32 DEF WatchAgain, Nothing, Start, shared, WatchdogSnapshot, NoSnapshot
  <2>33. CASE StallStale
    <3>1. pc["ex"] /= "conditional_store" /\ Withdraw
      BY <2>33 DEF StallStale
    <3>2. QED
      BY <2>33, <3>1, Withdrawn DEF StallStale, Goto
  <2>34. CASE StallPending
    BY <2>34 DEF StallPending, SameLink, Nothing, Goto, shared
  <2>35. CASE StallCurrent
    BY <2>35 DEF StallCurrent, SameLink, Nothing, Goto, shared, Seen, Watched
  <2>36. CASE ClaimPublish
    <3>1. CASE Withdraw
      <4>1. pc["ex"] = "claim"
        BY <2>36 DEF ClaimPublish
      <4>2. pc'["ctl"] = pc["ctl"] /\ op' = op /\ cut' = cut
        BY <2>36 DEF ClaimPublish, Goto
      <4>3. QED
        BY <3>1, <4>1, <4>2, Withdrawn
    <3>2. CASE ~Withdraw
      BY <2>36, <3>2 DEF ClaimPublish, Goto
    <3>3. QED
      BY <3>1, <3>2
  <2>37. CASE ClaimStore
    BY <2>37 DEF ClaimStore, Goto
  <2>38. CASE ClaimCheck
    <3>1. CASE route = "usb" /\ generation = watch.generation
      BY <2>38, <3>1 DEF ClaimCheck, At, Goto
    <3>2. CASE ~(route = "usb" /\ generation = watch.generation)
      <4>1. pc["ex"] /= "conditional_store" /\ Withdraw
        BY <2>38, <3>2 DEF ClaimCheck, At
      <4>2. QED
        BY <2>38, <3>2, <4>1, Withdrawn DEF ClaimCheck, At, Goto
    <3>3. QED
      BY <3>1, <3>2
  <2>39. CASE ClaimRetire
    BY <2>39 DEF ClaimRetire, SameLink, Nothing, Goto
  <2>40. CASE ClaimRelease
    <3>1. pc["ex"] /= "conditional_store" /\ Withdraw
      BY <2>40 DEF ClaimRelease
    <3>2. QED
      BY <2>40, <3>1, Withdrawn DEF ClaimRelease, Goto
  <2>41. CASE WatchStall
    BY <2>41 DEF WatchStall, Start, shared, WatchdogSnapshot, Pending
  <2>42. CASE CbVeto
    BY <2>42 DEF CbVeto, Nothing, Goto
  <2>43. CASE CbSnapshot
    BY <2>43 DEF CbSnapshot, Nothing, Goto, Start, shared
  <2>44. CASE CbDown
    BY <2>44 DEF CbDown, Start, shared, LinkCut, NoSnapshot
  <2>45. CASE CbUp
    BY <2>45 DEF CbUp, shared, proc
  <2>46. CASE CbFault
    BY <2>46 DEF CbFault, Start, shared, LinkCut, NoSnapshot
  <2>47. CASE UNCHANGED vars
    BY <2>47 DEF vars, shared, proc
  <2>48. QED
    BY <2>1, <2>2, <2>3, <2>4, <2>5, <2>6, <2>7, <2>8, <2>9, <2>10, <2>11, <2>12, <2>13, <2>14, <2>15, <2>16, <2>17, <2>18, <2>19, <2>20, <2>21, <2>22, <2>23, <2>24, <2>25, <2>26, <2>27, <2>28, <2>29, <2>30, <2>31, <2>32, <2>33, <2>34, <2>35, <2>36, <2>37, <2>38, <2>39, <2>40, <2>41, <2>42, <2>43, <2>44, <2>45, <2>46, <2>47
       DEF Next, CtlStep, Command, ExStep, CbStep, LinkEvent, WriterStep, InvalidateStep, Process
<1>3. QED
  BY <1>1, <1>2, ExclusionInvariant, PTL DEF Spec

(* The admission gate is closed only for a publication inside its writer   *)
(* section, a watchdog that holds the token, or a durable request.         *)
THEOREM GateOwnedCorrect == Spec => []GateOwned
<1>1. Ownership => GateOwned
  BY DEF Ownership, GateOwned, Writing
<1>2. QED
  BY <1>1, OwnershipInvariant, PTL

(* RetiresExactly made inductive: what a writer has checked stays true     *)
(* until it publishes, because only the holder of writer_active_ changes   *)
(* the route.                                                              *)
Retirement ==
    /\ RetiresExactly
    /\ pc["ex"] = "claimed" =>
          op["ex"] = "claim" /\ Watched = [route |-> route, generation |-> generation]
    /\ pc["ctl"] = "finish" => op["ctl"] = "usb" /\ route = "usb"

(* Claims and conditional invalidations belong to the step that made them. *)
LEMMA RetirementInvariant == Spec => []Retirement
<1> USE DEF Retirement, RetiresExactly, Watched, Shape, Process
<1>1. Init => Retirement
  BY DEF Init
<1>2. Exclusion /\ Ownership /\ Retirement /\ [Next]_vars => Retirement'
  <2> SUFFICES ASSUME Shape, SoleWriter, watch \in [held : BOOLEAN, generation : Nat, attached : BOOLEAN],
                      Retirement, [Next]_vars
               PROVE  Retirement'
    BY DEF Exclusion, Ownership
  <2> USE DEF SoleWriter, Writing
  <2>1. ASSUME NEW p \in Process, Enter(p) PROVE Retirement'
    BY <2>1 DEF Enter, Nothing, Goto
  <2>2. ASSUME NEW p \in Process, EnterBusy(p) PROVE Retirement'
    BY <2>2 DEF EnterBusy, Goto, Finished, Onward, shared
  <2>3. ASSUME NEW p \in Process, Retire(p) PROVE Retirement'
    BY <2>3 DEF Retire, Goto, Cancel
  <2>4. ASSUME NEW p \in Process, LeaveDurable(p) PROVE Retirement'
    BY <2>4 DEF LeaveDurable, Nothing, Goto
  <2>5. ASSUME NEW p \in Process, LeaveRetire(p) PROVE Retirement'
    BY <2>5 DEF LeaveRetire, Nothing, Goto
  <2>6. ASSUME NEW p \in Process, LeaveConditional(p) PROVE Retirement'
    BY <2>6 DEF LeaveConditional, Nothing, Goto
  <2>7. ASSUME NEW p \in Process, LeaveWriter(p) PROVE Retirement'
    BY <2>7 DEF LeaveWriter, Goto, Finished, Onward
  <2>8. ASSUME NEW p \in Process, Match(p) PROVE Retirement'
    BY <2>8 DEF Match, Nothing, Goto, shared, Seen, Onward
  <2>9. ASSUME NEW p \in Process, PublishDurable(p) PROVE Retirement'
    BY <2>9 DEF PublishDurable, Nothing, Goto, Onward, Request
  <2>10. ASSUME NEW p \in Process, StoreDurable(p) PROVE Retirement'
    BY <2>10 DEF StoreDurable, Nothing, Goto, Request
  <2>11. ASSUME NEW p \in Process, InvalidateCheck(p) PROVE Retirement'
    BY <2>11 DEF InvalidateCheck, Nothing, Goto, Invalidating
  <2>12. ASSUME NEW p \in Process, CompleteCheck(p) PROVE Retirement'
    <3>1. /\ op[p] = "complete" /\ UNCHANGED <<route, generation, op, seen, watch>>
          /\ pc' = [pc EXCEPT ![p] = IF publishing' THEN "retire" ELSE "leave"]
      BY <2>12 DEF CompleteCheck, At, Goto, Nothing
    <3>2. publishing' => seen[p] = [route |-> route, generation |-> generation]
      BY <2>12 DEF CompleteCheck, Seen
    <3>3. pc[p] = "check" /\ (publishing' => route /= "none")
      BY <2>12 DEF CompleteCheck, At, Seen
    <3>4. QED
      BY <3>1, <3>2, <3>3
  <2>13. CASE UsbValidate
    BY <2>13 DEF UsbValidate, Goto, Finished, shared, Pending
  <2>14. CASE UsbCheck
    BY <2>14 DEF UsbCheck, Nothing, Goto, At, Pending
  <2>15. CASE UsbPublish
    BY <2>15 DEF UsbPublish, Nothing, Goto
  <2>16. CASE UsbRecheck
    BY <2>16 DEF UsbRecheck, Nothing, Goto, shared
  <2>17. CASE UsbAbort
    BY <2>17 DEF UsbAbort, Nothing, Goto
  <2>18. CASE UsbStore
    BY <2>18 DEF UsbStore, Goto, At
  <2>19. CASE UsbFinish
    BY <2>19 DEF UsbFinish, Nothing, Goto
  <2>20. CASE UsbClear
    BY <2>20 DEF UsbClear, Nothing, Goto
  <2>21. CASE BeginCheck
    BY <2>21 DEF BeginCheck, Nothing, Goto, Start, At, Pending, NoSnapshot
  <2>22. CASE BeginStore
    BY <2>22 DEF BeginStore, Nothing, Start, At
  <2>23. CASE Confirm
    BY <2>23 DEF Confirm, Goto, Start, Finished, shared, Seen, Pending
  <2>24. CASE Schedule
    BY <2>24 DEF Schedule, Goto, shared, NoSnapshot
  <2>25. CASE UsbCapture
    BY <2>25 DEF UsbCapture, Start, Claimed, NoSnapshot
  <2>26. CASE NoneRequest
    BY <2>26 DEF NoneRequest, Start, shared, Claimed, Pending, NoSnapshot
  <2>27. CASE Detach
    BY <2>27 DEF Detach, Start, shared, Claimed, NoSnapshot
  <2>28. CASE Attach
    BY <2>28 DEF Attach, shared, proc
  <2>29. CASE ExProcess
    BY <2>29 DEF ExProcess, Start, shared, proc, Seen, Pending
  <2>30. CASE Uninstall
    BY <2>30 DEF Uninstall
  <2>31. CASE FaultShutdown
    BY <2>31 DEF FaultShutdown, Start, shared, proc, NoSnapshot
  <2>32. CASE WatchAgain
    BY <2>32 DEF WatchAgain, Nothing, Start, shared, WatchdogSnapshot, NoSnapshot
  <2>33. CASE StallStale
    BY <2>33 DEF StallStale, Goto, Withdraw
  <2>34. CASE StallPending
    BY <2>34 DEF StallPending, SameLink, Nothing, Goto, shared
  <2>35. CASE StallCurrent
    BY <2>35 DEF StallCurrent, SameLink, Nothing, Goto, shared, Seen
  <2>36. CASE ClaimPublish
    BY <2>36 DEF ClaimPublish, Goto, Seen, Withdraw, Request
  <2>37. CASE ClaimStore
    BY <2>37 DEF ClaimStore, Goto, Request
  <2>38. CASE ClaimCheck
    BY <2>38 DEF ClaimCheck, Goto, At, Withdraw
  <2>39. CASE ClaimRetire
    BY <2>39 DEF ClaimRetire, SameLink, Nothing, Goto
  <2>40. CASE ClaimRelease
    BY <2>40 DEF ClaimRelease, Goto, Withdraw
  <2>41. CASE WatchStall
    BY <2>41 DEF WatchStall, Start, shared, WatchdogSnapshot, NoSnapshot
  <2>42. CASE CbVeto
    BY <2>42 DEF CbVeto, Nothing, Goto
  <2>43. CASE CbSnapshot
    BY <2>43 DEF CbSnapshot, Nothing, Goto, Start, shared
  <2>44. CASE CbDown
    BY <2>44 DEF CbDown, Start, shared, LinkCut, NoSnapshot
  <2>45. CASE CbUp
    BY <2>45 DEF CbUp, shared, proc
  <2>46. CASE CbFault
    BY <2>46 DEF CbFault, Start, shared, LinkCut, NoSnapshot
  <2>47. CASE UNCHANGED vars
    BY <2>47 DEF vars, shared, proc
  <2>48. QED
    BY <2>1, <2>2, <2>3, <2>4, <2>5, <2>6, <2>7, <2>8, <2>9, <2>10, <2>11, <2>12, <2>13, <2>14, <2>15, <2>16, <2>17, <2>18, <2>19, <2>20, <2>21, <2>22, <2>23, <2>24, <2>25, <2>26, <2>27, <2>28, <2>29, <2>30, <2>31, <2>32, <2>33, <2>34, <2>35, <2>36, <2>37, <2>38, <2>39, <2>40, <2>41, <2>42, <2>43, <2>44, <2>45, <2>46, <2>47
       DEF Next, CtlStep, Command, ExStep, CbStep, LinkEvent, WriterStep, InvalidateStep, Process
<1>3. QED
  BY <1>1, <1>2, ExclusionInvariant, OwnershipInvariant, PTL DEF Spec

(* Whoever retires a route retires the one it means.                       *)
THEOREM RetiresExactlyCorrect == Spec => []RetiresExactly
BY RetirementInvariant, PTL DEF Retirement

\* The route as it stands, if nobody is publishing.
Current == [route |-> route, generation |-> generation]

\* Between a validated route.usb and the moment it stores the route.
Window ==
    \/ pc["ctl"] \in {"publish", "recheck", "abort"}
    \/ op["ctl"] = "usb" /\ pc["ctl"] \in {"enter", "check", "store"}

(* Who is where with a durable request, and what route.usb has found.      *)
Order ==
    /\ fresh \in [route : BOOLEAN, validated : BOOLEAN]
    /\ durable \in [state : {"none", "publishing", "active"}, generation : Nat]
    /\ \A p \in Process : pc[p] = "durable_store" => durable.state = "publishing"
    /\ \A p, q \in Process : pc[p] = "durable_store" /\ pc[q] = "durable_store" => p = q
    /\ pc["ctl"] \notin {"match", "durable", "durable_store"}
    /\ op["ctl"] = "detach" => pc["ctl"] \in {"idle", "schedule"}
    /\ op["ctl"] /= "fault"
    /\ pc["ex"] \in {"match", "durable", "durable_store", "uninstall"} =>
          op["ex"] \in {"detach", "fault"}
    /\ pc["cb"] \in {"match", "durable", "durable_store"} => op["cb"] = "invalidate"
    /\ lifecycle = "up" => pc["cb"] = "idle"
    /\ Window => route = "none" /\ lifecycle /= "detaching"
    /\ pc["ctl"] \in {"publish", "recheck", "finish"} => cut.active
    /\ op["ctl"] = "usb" /\ pc["ctl"] = "store" => cut.active
    /\ op["ctl"] = "begin" /\ pc["ctl"] = "store" => route = "usb"
    /\ \A p \in Process : pc[p] = "leave_retire" => route /= "none" /\ durable.state = "active"

(* A request is half written only by the one context that is writing it,   *)
(* no callback runs while the link is up, and until route.usb stores its   *)
(* route there is none.                                                    *)
LEMMA OrderInvariant == Spec => []Order
<1>1. Init => Order
  BY DEF Init, Order, Window, Process
<1>2. Exclusion /\ Ownership /\ Retirement /\ Order /\ [Next]_vars => Order'
  <2> SUFFICES ASSUME Shape, SoleWriter, Ownership, Retirement, Order, [Next]_vars PROVE Order'
    BY DEF Exclusion
  <2> USE DEF Order, Window, Shape, Process, SoleWriter, Writing, Route
  <2>1. ASSUME NEW p \in Process, Enter(p) PROVE Order'
    BY <2>1 DEF Enter, Nothing, Goto
  <2>2. ASSUME NEW p \in Process, EnterBusy(p) PROVE Order'
    BY <2>2 DEF EnterBusy, Goto, Finished, Onward, shared
  <2>3. ASSUME NEW p \in Process, Retire(p) PROVE Order'
    BY <2>3 DEF Retire, Goto
  <2>4. ASSUME NEW p \in Process, LeaveDurable(p) PROVE Order'
    BY <2>4 DEF LeaveDurable, Nothing, Goto
  <2>5. ASSUME NEW p \in Process, LeaveRetire(p) PROVE Order'
    <3>1. /\ pc[p] = "leave_retire" /\ pc' = [pc EXCEPT ![p] = "leave_conditional"]
          /\ route' = "none" /\ UNCHANGED <<op, cut, lifecycle, fresh>>
      BY <2>5 DEF LeaveRetire, Nothing, Goto
    <3>2. /\ durable' \in [state : {"none", "publishing", "active"}, generation : Nat]
          /\ durable'.state = "none"
      BY <2>5 DEF LeaveRetire
    <3>3. \A q \in Process : q /= p => pc[q] /= "leave_retire"
      BY <3>1
    <3>4. \A q \in Process : pc[q] /= "durable_store"
      BY <2>5, <3>1 DEF LeaveRetire
    <3>5. QED
      BY <3>1, <3>2, <3>3, <3>4
  <2>6. ASSUME NEW p \in Process, LeaveConditional(p) PROVE Order'
    BY <2>6 DEF LeaveConditional, Nothing, Goto
  <2>7. ASSUME NEW p \in Process, LeaveWriter(p) PROVE Order'
    BY <2>7 DEF LeaveWriter, Goto, Finished, Onward
  <2>8. ASSUME NEW p \in Process, Match(p) PROVE Order'
    BY <2>8 DEF Match, Nothing, Goto, shared, Seen, Onward
  <2>9. ASSUME NEW p \in Process, PublishDurable(p) PROVE Order'
    BY <2>9 DEF PublishDurable, Nothing, Goto, Onward, Request
  <2>10. ASSUME NEW p \in Process, StoreDurable(p) PROVE Order'
    BY <2>10 DEF StoreDurable, Nothing, Goto, Request
  <2>11. ASSUME NEW p \in Process, InvalidateCheck(p) PROVE Order'
    BY <2>11 DEF InvalidateCheck, Nothing, Goto, Invalidating
  <2>12. ASSUME NEW p \in Process, CompleteCheck(p) PROVE Order'
    BY <2>12 DEF CompleteCheck, Nothing, Goto, At, Seen
  <2>13. CASE UsbValidate
    <3>1. fresh' = fresh \/ fresh' = [fresh EXCEPT !.validated = TRUE]
      BY <2>13 DEF UsbValidate
    <3>2. fresh' \in [route : BOOLEAN, validated : BOOLEAN]
      BY <3>1
    <3>3. QED
      BY <2>13, <3>2 DEF UsbValidate, Goto, Finished, shared
  <2>14. CASE UsbCheck
    BY <2>14 DEF UsbCheck, Nothing, Goto, At
  <2>15. CASE UsbPublish
    BY <2>15 DEF UsbPublish, Nothing, Goto
  <2>16. CASE UsbRecheck
    BY <2>16 DEF UsbRecheck, Nothing, Goto, shared, Ownership
  <2>17. CASE UsbAbort
    BY <2>17 DEF UsbAbort, Nothing, Goto
  <2>18. CASE UsbStore
    <3>1. fresh' = [fresh EXCEPT !.route = fresh.validated] /\ fresh.validated \in BOOLEAN
      BY <2>18 DEF UsbStore
    <3>2. fresh' \in [route : BOOLEAN, validated : BOOLEAN]
      BY <3>1
    <3>3. QED
      BY <2>18, <3>2 DEF UsbStore, Goto, At
  <2>19. CASE UsbFinish
    BY <2>19 DEF UsbFinish, Nothing, Goto
  <2>20. CASE UsbClear
    BY <2>20 DEF UsbClear, Nothing, Goto
  <2>21. CASE BeginCheck
    BY <2>21 DEF BeginCheck, Nothing, Goto, Start, At
  <2>22. CASE BeginStore
    BY <2>22 DEF BeginStore, Nothing, Start, At
  <2>23. CASE Confirm
    BY <2>23 DEF Confirm, Goto, Start, Finished, shared, Seen
  <2>24. CASE Schedule
    BY <2>24 DEF Schedule, Goto, shared
  <2>25. CASE UsbCapture
    BY <2>25 DEF UsbCapture, Start, Claimed
  <2>26. CASE NoneRequest
    BY <2>26 DEF NoneRequest, Start, shared, Claimed
  <2>27. CASE Detach
    BY <2>27 DEF Detach, Start, shared, Claimed
  <2>28. CASE Attach
    BY <2>28 DEF Attach, shared, proc
  <2>29. CASE ExProcess
    BY <2>29 DEF ExProcess, Start, shared, proc, Seen
  <2>30. CASE Uninstall
    BY <2>30 DEF Uninstall
  <2>31. CASE FaultShutdown
    BY <2>31 DEF FaultShutdown, Start, shared, proc, NoSnapshot
  <2>32. CASE WatchAgain
    BY <2>32 DEF WatchAgain, Nothing, Start, shared, WatchdogSnapshot
  <2>33. CASE StallStale
    BY <2>33 DEF StallStale, Goto, Withdraw
  <2>34. CASE StallPending
    BY <2>34 DEF StallPending, SameLink, Nothing, Goto, shared
  <2>35. CASE StallCurrent
    BY <2>35 DEF StallCurrent, SameLink, Nothing, Goto, shared, Seen, Watched
  <2>36. CASE ClaimPublish
    BY <2>36 DEF ClaimPublish, Goto, Seen, Withdraw, Watched, Request
  <2>37. CASE ClaimStore
    BY <2>37 DEF ClaimStore, Goto, Request
  <2>38. CASE ClaimCheck
    BY <2>38 DEF ClaimCheck, Goto, At, Withdraw
  <2>39. CASE ClaimRetire
    BY <2>39 DEF ClaimRetire, SameLink, Nothing, Goto
  <2>40. CASE ClaimRelease
    BY <2>40 DEF ClaimRelease, Goto, Withdraw
  <2>41. CASE WatchStall
    BY <2>41 DEF WatchStall, Start, shared, WatchdogSnapshot
  <2>42. CASE CbVeto
    BY <2>42 DEF CbVeto, Nothing, Goto
  <2>43. CASE CbSnapshot
    BY <2>43 DEF CbSnapshot, Nothing, Goto, Start, shared
  <2>44. CASE CbDown
    BY <2>44 DEF CbDown, Start, shared, LinkCut
  <2>45. CASE CbUp
    BY <2>45 DEF CbUp, shared, proc
  <2>46. CASE CbFault
    BY <2>46 DEF CbFault, Start, shared, LinkCut
  <2>47. CASE UNCHANGED vars
    BY <2>47 DEF vars, shared, proc
  <2>48. QED
    BY <2>1, <2>2, <2>3, <2>4, <2>5, <2>6, <2>7, <2>8, <2>9, <2>10, <2>11, <2>12, <2>13, <2>14, <2>15, <2>16, <2>17, <2>18, <2>19, <2>20, <2>21, <2>22, <2>23, <2>24, <2>25, <2>26, <2>27, <2>28, <2>29, <2>30, <2>31, <2>32, <2>33, <2>34, <2>35, <2>36, <2>37, <2>38, <2>39, <2>40, <2>41, <2>42, <2>43, <2>44, <2>45, <2>46, <2>47
       DEF Next, CtlStep, Command, ExStep, CbStep, LinkEvent, WriterStep, InvalidateStep, Process
<1>3. QED
  BY <1>1, <1>2, ExclusionInvariant, OwnershipInvariant, RetirementInvariant, PTL DEF Spec

\* No runtime fault so far: a faulted link never comes back.
Faultless == lifecycle \notin {"faulted", "shut"}

\* The executor works for a command, not for the watchdog.
ExBusy == pc["ex"] /= "idle" /\ op["ex"] /= "claim"

(* One command at a time, wherever it is: the control task, the queue or   *)
(* the executor.                                                           *)
OneCommand ==
    /\ pc["ctl"] /= "idle" => queued = {} /\ ~ExBusy
    /\ queued /= {} => ~ExBusy
    /\ \A a, b \in queued : a = b
    /\ pc["ctl"] /= "idle" \/ queued /= {} \/ ExBusy => active_operation /= "none"

(* The Controller's guard lets one command in, until a fault takes it away *)
(* from whoever has it.                                                    *)
LEMMA OneCommandInvariant == Spec => [](Faultless => OneCommand)
<1> USE DEF Faultless, OneCommand, ExBusy, Shape, Process
<1>1. Init => (Faultless => OneCommand)
  BY DEF Init
<1>2. Shape /\ Order /\ (Faultless => OneCommand) /\ [Next]_vars => (Faultless => OneCommand)'
  <2> SUFFICES ASSUME Shape, Order, Faultless => OneCommand, [Next]_vars, Faultless'
               PROVE OneCommand'
    OBVIOUS
  <2>1. ASSUME NEW p \in Process, Enter(p) PROVE OneCommand'
    BY <2>1 DEF Enter, Nothing, Goto
  <2>2. ASSUME NEW p \in Process, EnterBusy(p) PROVE OneCommand'
    BY <2>2 DEF EnterBusy, Goto, Finished, Onward, shared, Order
  <2>3. ASSUME NEW p \in Process, Retire(p) PROVE OneCommand'
    BY <2>3 DEF Retire, Goto
  <2>4. ASSUME NEW p \in Process, LeaveDurable(p) PROVE OneCommand'
    BY <2>4 DEF LeaveDurable, Nothing, Goto
  <2>5. ASSUME NEW p \in Process, LeaveRetire(p) PROVE OneCommand'
    BY <2>5 DEF LeaveRetire, Nothing, Goto
  <2>6. ASSUME NEW p \in Process, LeaveConditional(p) PROVE OneCommand'
    BY <2>6 DEF LeaveConditional, Nothing, Goto
  <2>7. ASSUME NEW p \in Process, LeaveWriter(p) PROVE OneCommand'
    BY <2>7 DEF LeaveWriter, Goto, Finished, Onward, Order
  <2>8. ASSUME NEW p \in Process, Match(p) PROVE OneCommand'
    BY <2>8 DEF Match, Nothing, Goto, shared, Onward
  <2>9. ASSUME NEW p \in Process, PublishDurable(p) PROVE OneCommand'
    BY <2>9 DEF PublishDurable, Nothing, Goto, Onward, Request
  <2>10. ASSUME NEW p \in Process, StoreDurable(p) PROVE OneCommand'
    BY <2>10 DEF StoreDurable, Nothing, Goto, Request
  <2>11. ASSUME NEW p \in Process, InvalidateCheck(p) PROVE OneCommand'
    BY <2>11 DEF InvalidateCheck, Nothing, Goto, Invalidating
  <2>12. ASSUME NEW p \in Process, CompleteCheck(p) PROVE OneCommand'
    BY <2>12 DEF CompleteCheck, Nothing, Goto, At
  <2>13. CASE UsbValidate
    BY <2>13 DEF UsbValidate, Goto, Finished, shared
  <2>14. CASE UsbCheck
    BY <2>14 DEF UsbCheck, Nothing, Goto, At
  <2>15. CASE UsbPublish
    BY <2>15 DEF UsbPublish, Nothing, Goto
  <2>16. CASE UsbRecheck
    BY <2>16 DEF UsbRecheck, Nothing, Goto, shared
  <2>17. CASE UsbAbort
    BY <2>17 DEF UsbAbort, Nothing, Goto
  <2>18. CASE UsbStore
    BY <2>18 DEF UsbStore, Goto, At
  <2>19. CASE UsbFinish
    BY <2>19 DEF UsbFinish, Nothing, Goto
  <2>20. CASE UsbClear
    BY <2>20 DEF UsbClear, Nothing, Goto
  <2>21. CASE BeginCheck
    BY <2>21 DEF BeginCheck, Nothing, Goto, Start, At
  <2>22. CASE BeginStore
    BY <2>22 DEF BeginStore, Nothing, Start, At
  <2>23. CASE Confirm
    BY <2>23 DEF Confirm, Goto, Start, Finished, shared
  <2>24. CASE Schedule
    BY <2>24 DEF Schedule, Goto, shared
  <2>25. CASE UsbCapture
    BY <2>25 DEF UsbCapture, Start, Claimed
  <2>26. CASE NoneRequest
    BY <2>26 DEF NoneRequest, Start, shared, Claimed
  <2>27. CASE Detach
    BY <2>27 DEF Detach, Start, shared, Claimed
  <2>28. CASE Attach
    BY <2>28 DEF Attach, shared, proc
  <2>29. CASE ExProcess
    BY <2>29 DEF ExProcess, Start, shared, proc
  <2>30. CASE Uninstall
    BY <2>30 DEF Uninstall, Order
  <2>31. CASE FaultShutdown
    BY <2>31 DEF FaultShutdown, Start, shared, proc, NoSnapshot
  <2>32. CASE WatchAgain
    BY <2>32 DEF WatchAgain, Nothing, Start, shared, WatchdogSnapshot
  <2>33. CASE StallStale
    BY <2>33 DEF StallStale, Goto, Withdraw
  <2>34. CASE StallPending
    BY <2>34 DEF StallPending, SameLink, Nothing, Goto, shared
  <2>35. CASE StallCurrent
    BY <2>35 DEF StallCurrent, SameLink, Nothing, Goto, shared, Watched
  <2>36. CASE ClaimPublish
    BY <2>36 DEF ClaimPublish, Goto, Withdraw, Watched, Request
  <2>37. CASE ClaimStore
    BY <2>37 DEF ClaimStore, Goto, Request
  <2>38. CASE ClaimCheck
    BY <2>38 DEF ClaimCheck, Goto, At, Withdraw
  <2>39. CASE ClaimRetire
    BY <2>39 DEF ClaimRetire, SameLink, Nothing, Goto
  <2>40. CASE ClaimRelease
    BY <2>40 DEF ClaimRelease, Goto, Withdraw
  <2>41. CASE WatchStall
    BY <2>41 DEF WatchStall, Start, shared, WatchdogSnapshot
  <2>42. CASE CbVeto
    BY <2>42 DEF CbVeto, Nothing, Goto
  <2>43. CASE CbSnapshot
    BY <2>43 DEF CbSnapshot, Nothing, Goto, Start, shared
  <2>44. CASE CbDown
    BY <2>44 DEF CbDown, Start, shared, LinkCut
  <2>45. CASE CbUp
    BY <2>45 DEF CbUp, shared, proc
  <2>46. CASE CbFault
    BY <2>46 DEF CbFault, Start, shared, LinkCut
  <2>47. CASE UNCHANGED vars
    BY <2>47 DEF vars, shared, proc
  <2>48. QED
    BY <2>1, <2>2, <2>3, <2>4, <2>5, <2>6, <2>7, <2>8, <2>9, <2>10, <2>11, <2>12, <2>13, <2>14, <2>15, <2>16, <2>17, <2>18, <2>19, <2>20, <2>21, <2>22, <2>23, <2>24, <2>25, <2>26, <2>27, <2>28, <2>29, <2>30, <2>31, <2>32, <2>33, <2>34, <2>35, <2>36, <2>37, <2>38, <2>39, <2>40, <2>41, <2>42, <2>43, <2>44, <2>45, <2>46, <2>47
       DEF Next, CtlStep, Command, ExStep, CbStep, LinkEvent, WriterStep, InvalidateStep, Process
<1>3. QED
  BY <1>1, <1>2, ExclusionInvariant, OrderInvariant, PTL DEF Spec, Exclusion

(* Whatever names a generation while a USB route stands names that route:  *)
(* a publication that was overlapped by a cut of the link has its cut      *)
(* moved, or the callback is about to move it.                             *)
OnTarget ==
    /\ op["cb"] /= "fault"
    /\ Window =>
          /\ durable.state = "none"
          /\ pc["cb"] \notin {"match", "durable", "durable_store"}
          /\ fresh.validated \/ cut.moved \/ pc["cb"] = "veto"
    /\ route = "usb" =>
          /\ durable.state = "active" => durable.generation = generation
          /\ \A p \in {"ex", "cb"} : pc[p] \in {"durable", "durable_store"} =>
                seen[p].generation = generation

(* Without a runtime fault no request outlives the route it names into     *)
(* the next one.                                                           *)
LEMMA OnTargetInvariant == Spec => [](Faultless => OnTarget)
<1> USE DEF Faultless, OnTarget, Window, Shape, Process
<1>1. Init => (Faultless => OnTarget)
  BY DEF Init
<1>2. /\ Exclusion /\ Ownership /\ Order /\ (Faultless => OneCommand) /\ (Faultless => OnTarget)
      /\ [Next]_vars
      => (Faultless => OnTarget)'
  <2> SUFFICES ASSUME Shape, SoleWriter, Order, Faultless => OneCommand, Faultless => OnTarget,
                      cut \in [active : BOOLEAN, moved : BOOLEAN],
                      fresh \in [route : BOOLEAN, validated : BOOLEAN],
                      [Next]_vars, Faultless'
               PROVE OnTarget'
    BY DEF Exclusion, Ownership, Order
  <2> USE DEF Order, SoleWriter, Writing, Route
  <2>1. ASSUME NEW p \in Process, Enter(p) PROVE OnTarget'
    BY <2>1 DEF Enter, Nothing, Goto
  <2>2. ASSUME NEW p \in Process, EnterBusy(p) PROVE OnTarget'
    BY <2>2 DEF EnterBusy, Goto, Finished, Onward, shared
  <2>3. ASSUME NEW p \in Process, Retire(p) PROVE OnTarget'
    BY <2>3 DEF Retire, Goto
  <2>4. ASSUME NEW p \in Process, LeaveDurable(p) PROVE OnTarget'
    BY <2>4 DEF LeaveDurable, Nothing, Goto
  <2>5. ASSUME NEW p \in Process, LeaveRetire(p) PROVE OnTarget'
    BY <2>5 DEF LeaveRetire, Nothing, Goto
  <2>6. ASSUME NEW p \in Process, LeaveConditional(p) PROVE OnTarget'
    BY <2>6 DEF LeaveConditional, Nothing, Goto
  <2>7. ASSUME NEW p \in Process, LeaveWriter(p) PROVE OnTarget'
    BY <2>7 DEF LeaveWriter, Goto, Finished, Onward
  <2>8. ASSUME NEW p \in Process, Match(p) PROVE OnTarget'
    BY <2>8 DEF Match, Nothing, Goto, shared, Seen, Onward, OneCommand, ExBusy
  <2>9. ASSUME NEW p \in Process, PublishDurable(p) PROVE OnTarget'
    BY <2>9 DEF PublishDurable, Nothing, Goto, Onward, Request, OneCommand, ExBusy
  <2>10. ASSUME NEW p \in Process, StoreDurable(p) PROVE OnTarget'
    BY <2>10 DEF StoreDurable, Nothing, Goto, Request, OneCommand, ExBusy
  <2>11. ASSUME NEW p \in Process, InvalidateCheck(p) PROVE OnTarget'
    BY <2>11 DEF InvalidateCheck, Nothing, Goto, Invalidating
  <2>12. ASSUME NEW p \in Process, CompleteCheck(p) PROVE OnTarget'
    BY <2>12 DEF CompleteCheck, Nothing, Goto, At, Seen, Pending
  <2>13. CASE UsbValidate
    BY <2>13 DEF UsbValidate, Goto, Finished, shared, Pending
  <2>14. CASE UsbCheck
    BY <2>14 DEF UsbCheck, Nothing, Goto, At, Pending
  <2>15. CASE UsbPublish
    BY <2>15 DEF UsbPublish, Nothing, Goto
  <2>16. CASE UsbRecheck
    BY <2>16 DEF UsbRecheck, Nothing, Goto, shared
  <2>17. CASE UsbAbort
    BY <2>17 DEF UsbAbort, Nothing, Goto
  <2>18. CASE UsbStore
    <3>1. /\ pc["ctl"] = "store" /\ op["ctl"] = "usb" /\ pc' = [pc EXCEPT !["ctl"] = "finish"]
          /\ UNCHANGED <<op, seen, durable, generation>>
      BY <2>18 DEF UsbStore, Goto, At
    <3>2. ~Window' /\ Faultless
      BY <2>18, <3>1 DEF UsbStore
    <3>3. durable.state = "none" /\ pc["cb"] \notin {"match", "durable", "durable_store"}
      BY <3>1, <3>2
    <3>4. pc["ex"] \notin {"durable", "durable_store"}
      BY <3>1, <3>2 DEF OneCommand, ExBusy
    <3>5. QED
      BY <3>1, <3>2, <3>3, <3>4
  <2>19. CASE UsbFinish
    BY <2>19 DEF UsbFinish, Nothing, Goto
  <2>20. CASE UsbClear
    BY <2>20 DEF UsbClear, Nothing, Goto
  <2>21. CASE BeginCheck
    BY <2>21 DEF BeginCheck, Nothing, Goto, Start, At
  <2>22. CASE BeginStore
    BY <2>22 DEF BeginStore, Nothing, Start, At
  <2>23. CASE Confirm
    BY <2>23 DEF Confirm, Goto, Start, Finished, shared, Seen, Pending
  <2>24. CASE Schedule
    BY <2>24 DEF Schedule, Goto, shared
  <2>25. CASE UsbCapture
    BY <2>25 DEF UsbCapture, Start, Claimed
  <2>26. CASE NoneRequest
    BY <2>26 DEF NoneRequest, Start, shared, Claimed, Pending
  <2>27. CASE Detach
    BY <2>27 DEF Detach, Start, shared, Claimed
  <2>28. CASE Attach
    BY <2>28 DEF Attach, shared, proc
  <2>29. CASE ExProcess
    BY <2>29 DEF ExProcess, Start, shared, proc, Seen, Pending, OneCommand, ExBusy
  <2>30. CASE Uninstall
    BY <2>30 DEF Uninstall, OneCommand, ExBusy
  <2>31. CASE FaultShutdown
    BY <2>31 DEF FaultShutdown, Start, shared, proc, NoSnapshot
  <2>32. CASE WatchAgain
    BY <2>32 DEF WatchAgain, Nothing, Start, shared, WatchdogSnapshot
  <2>33. CASE StallStale
    BY <2>33 DEF StallStale, Goto, Withdraw
  <2>34. CASE StallPending
    BY <2>34 DEF StallPending, SameLink, Nothing, Goto, shared
  <2>35. CASE StallCurrent
    BY <2>35 DEF StallCurrent, SameLink, Nothing, Goto, shared, Seen, Watched
  <2>36. CASE ClaimPublish
    BY <2>36 DEF ClaimPublish, Goto, Seen, Withdraw, Watched, Request
  <2>37. CASE ClaimStore
    BY <2>37 DEF ClaimStore, Goto, Request
  <2>38. CASE ClaimCheck
    BY <2>38 DEF ClaimCheck, Goto, At, Withdraw
  <2>39. CASE ClaimRetire
    BY <2>39 DEF ClaimRetire, SameLink, Nothing, Goto
  <2>40. CASE ClaimRelease
    BY <2>40 DEF ClaimRelease, Goto, Withdraw
  <2>41. CASE WatchStall
    BY <2>41 DEF WatchStall, Start, shared, WatchdogSnapshot
  <2>42. CASE CbVeto
    BY <2>42 DEF CbVeto, Nothing, Goto
  <2>43. CASE CbSnapshot
    BY <2>43 DEF CbSnapshot, Nothing, Goto, Start, shared
  <2>44. CASE CbDown
    BY <2>44 DEF CbDown, Start, shared, LinkCut
  <2>45. CASE CbUp
    BY <2>45 DEF CbUp, shared, proc
  <2>46. CASE CbFault
    BY <2>46 DEF CbFault, Start, shared, LinkCut
  <2>47. CASE UNCHANGED vars
    BY <2>47 DEF vars, shared, proc
  <2>48. QED
    BY <2>1, <2>2, <2>3, <2>4, <2>5, <2>6, <2>7, <2>8, <2>9, <2>10, <2>11, <2>12, <2>13, <2>14, <2>15, <2>16, <2>17, <2>18, <2>19, <2>20, <2>21, <2>22, <2>23, <2>24, <2>25, <2>26, <2>27, <2>28, <2>29, <2>30, <2>31, <2>32, <2>33, <2>34, <2>35, <2>36, <2>37, <2>38, <2>39, <2>40, <2>41, <2>42, <2>43, <2>44, <2>45, <2>46, <2>47
       DEF Next, CtlStep, Command, ExStep, CbStep, LinkEvent, WriterStep, InvalidateStep, Process
<1>3. QED
  BY <1>1, <1>2, ExclusionInvariant, OwnershipInvariant, OrderInvariant, OneCommandInvariant, PTL DEF Spec

(* LeftClosed made inductive: only a link that is up has a route that was  *)
(* validated, an uninstall finds the link cut, and nobody publishes a      *)
(* route beside a lost writer.                                             *)
Left ==
    /\ fresh.route \/ fresh.validated => lifecycle = "up"
    /\ pc["ex"] /= "idle" /\ op["ex"] \in {"detach", "fault"} =>
          lifecycle \in {"detaching", "faulted", "shut"}
    /\ writer = "lost" => ~fresh.route

LEMMA LeftInvariant == Spec => []Left
<1> USE DEF Left, Shape, SoleWriter, Writing, Process
<1>1. Init => Left
  BY DEF Init
<1>2. Exclusion /\ Order /\ Left /\ [Next]_vars => Left'
  <2> SUFFICES ASSUME Shape, SoleWriter, Order, Left, [Next]_vars PROVE Left'
    BY DEF Exclusion
  <2>0. /\ fresh \in [route : BOOLEAN, validated : BOOLEAN]
        /\ pc["ex"] = "uninstall" => op["ex"] \in {"detach", "fault"}
    BY DEF Order
  <2>1. ASSUME NEW p \in Process, Enter(p) PROVE Left'
    BY <2>0, <2>1 DEF Enter, Nothing, Goto
  <2>2. ASSUME NEW p \in Process, EnterBusy(p) PROVE Left'
    BY <2>0, <2>2 DEF EnterBusy, Goto, Finished, Onward, shared
  <2>3. ASSUME NEW p \in Process, Retire(p) PROVE Left'
    BY <2>0, <2>3 DEF Retire, Goto
  <2>4. ASSUME NEW p \in Process, LeaveDurable(p) PROVE Left'
    BY <2>0, <2>4 DEF LeaveDurable, Nothing, Goto, PublishingPoint
  <2>5. ASSUME NEW p \in Process, LeaveRetire(p) PROVE Left'
    BY <2>0, <2>5 DEF LeaveRetire, Nothing, Goto
  <2>6. ASSUME NEW p \in Process, LeaveConditional(p) PROVE Left'
    BY <2>0, <2>6 DEF LeaveConditional, Nothing, Goto
  <2>7. ASSUME NEW p \in Process, LeaveWriter(p) PROVE Left'
    BY <2>0, <2>7 DEF LeaveWriter, Goto, Finished, Onward
  <2>8. ASSUME NEW p \in Process, Match(p) PROVE Left'
    BY <2>0, <2>8 DEF Match, Nothing, Goto, shared, Seen, Onward
  <2>9. ASSUME NEW p \in Process, PublishDurable(p) PROVE Left'
    BY <2>0, <2>9 DEF PublishDurable, Nothing, Goto, Onward, Request
  <2>10. ASSUME NEW p \in Process, StoreDurable(p) PROVE Left'
    BY <2>0, <2>10 DEF StoreDurable, Nothing, Goto, Request
  <2>11. ASSUME NEW p \in Process, InvalidateCheck(p) PROVE Left'
    BY <2>0, <2>11 DEF InvalidateCheck, Nothing, Goto, Invalidating, PublishingPoint
  <2>12. ASSUME NEW p \in Process, CompleteCheck(p) PROVE Left'
    BY <2>0, <2>12 DEF CompleteCheck, Nothing, Goto, At, Seen, Pending, PublishingPoint
  <2>13. CASE UsbValidate
    BY <2>0, <2>13 DEF UsbValidate, Goto, Finished, shared, Pending
  <2>14. CASE UsbCheck
    BY <2>0, <2>14 DEF UsbCheck, Nothing, Goto, At, Pending
  <2>15. CASE UsbPublish
    BY <2>0, <2>15 DEF UsbPublish, Nothing, Goto
  <2>16. CASE UsbRecheck
    BY <2>0, <2>16 DEF UsbRecheck, Nothing, Goto, shared
  <2>17. CASE UsbAbort
    BY <2>0, <2>17 DEF UsbAbort, Nothing, Goto, Window
  <2>18. CASE UsbStore
    BY <2>0, <2>18 DEF UsbStore, Goto, At, Window
  <2>19. CASE UsbFinish
    BY <2>0, <2>19 DEF UsbFinish, Nothing, Goto
  <2>20. CASE UsbClear
    BY <2>0, <2>20 DEF UsbClear, Nothing, Goto
  <2>21. CASE BeginCheck
    BY <2>0, <2>21 DEF BeginCheck, Nothing, Goto, Start, At
  <2>22. CASE BeginStore
    BY <2>0, <2>22 DEF BeginStore, Nothing, Start, At
  <2>23. CASE Confirm
    BY <2>0, <2>23 DEF Confirm, Goto, Start, Finished, shared, Seen, Pending
  <2>24. CASE Schedule
    BY <2>0, <2>24 DEF Schedule, Goto, shared
  <2>25. CASE UsbCapture
    BY <2>0, <2>25 DEF UsbCapture, Start, Claimed
  <2>26. CASE NoneRequest
    BY <2>0, <2>26 DEF NoneRequest, Start, shared, Claimed, Pending
  <2>27. CASE Detach
    BY <2>0, <2>27 DEF Detach, Start, shared, Claimed
  <2>28. CASE Attach
    BY <2>0, <2>28 DEF Attach, shared, proc
  <2>29. CASE ExProcess
    BY <2>0, <2>29 DEF ExProcess, Start, shared, proc, Seen, Pending, OneCommand, ExBusy
  <2>30. CASE Uninstall
    BY <2>0, <2>30 DEF Uninstall, OneCommand, ExBusy
  <2>31. CASE FaultShutdown
    BY <2>0, <2>31 DEF FaultShutdown, Start, shared, proc
  <2>32. CASE WatchAgain
    BY <2>0, <2>32 DEF WatchAgain, Nothing, Start, shared, WatchdogSnapshot
  <2>33. CASE StallStale
    BY <2>0, <2>33 DEF StallStale, Goto, Withdraw
  <2>34. CASE StallPending
    BY <2>0, <2>34 DEF StallPending, SameLink, Nothing, Goto, shared
  <2>35. CASE StallCurrent
    BY <2>0, <2>35 DEF StallCurrent, SameLink, Nothing, Goto, shared, Seen, Watched
  <2>36. CASE ClaimPublish
    BY <2>0, <2>36 DEF ClaimPublish, Goto, Seen, Withdraw, Watched, Request
  <2>37. CASE ClaimStore
    BY <2>0, <2>37 DEF ClaimStore, Goto, Request
  <2>38. CASE ClaimCheck
    BY <2>0, <2>38 DEF ClaimCheck, Goto, At, Withdraw
  <2>39. CASE ClaimRetire
    BY <2>0, <2>39 DEF ClaimRetire, SameLink, Nothing, Goto
  <2>40. CASE ClaimRelease
    BY <2>0, <2>40 DEF ClaimRelease, Goto, Withdraw
  <2>41. CASE WatchStall
    BY <2>0, <2>41 DEF WatchStall, Start, shared, WatchdogSnapshot
  <2>42. CASE CbVeto
    BY <2>0, <2>42 DEF CbVeto, Nothing, Goto
  <2>43. CASE CbSnapshot
    BY <2>0, <2>43 DEF CbSnapshot, Nothing, Goto, Start, shared
  <2>44. CASE CbDown
    BY <2>0, <2>44 DEF CbDown, Start, shared, LinkCut
  <2>45. CASE CbUp
    BY <2>0, <2>45 DEF CbUp, shared, proc
  <2>46. CASE CbFault
    BY <2>0, <2>46 DEF CbFault, Start, shared, LinkCut
  <2>47. CASE UNCHANGED vars
    BY <2>0, <2>47 DEF vars, shared, proc
  <2>48. QED
    BY <2>1, <2>2, <2>3, <2>4, <2>5, <2>6, <2>7, <2>8, <2>9, <2>10, <2>11, <2>12, <2>13, <2>14, <2>15, <2>16, <2>17, <2>18, <2>19, <2>20, <2>21, <2>22, <2>23, <2>24, <2>25, <2>26, <2>27, <2>28, <2>29, <2>30, <2>31, <2>32, <2>33, <2>34, <2>35, <2>36, <2>37, <2>38, <2>39, <2>40, <2>41, <2>42, <2>43, <2>44, <2>45, <2>46, <2>47
       DEF Next, CtlStep, Command, ExStep, CbStep, LinkEvent, WriterStep, InvalidateStep, Process
<1>3. QED
  BY <1>1, <1>2, ExclusionInvariant, OrderInvariant, PTL DEF Spec

\* The route will not be usable again: it is being retired, or a request
\* that names it, or the moved cut, will see to it.
Doomed ==
    \/ publishing
    \/ durable.state /= "none"
    \/ pc["ctl"] = "finish" /\ cut.moved

\* The callback that reported the cut has yet to see the route or name it.
CallbackWorks ==
    \/ pc["cb"] \in {"veto", "snapshot"}
    \/ pc["cb"] \in {"match", "durable"} /\ seen["cb"] = Current

\* The detach that cut the link has yet to see the route or name it.
DetachWorks ==
    \/ pc["ctl"] = "schedule"
    \/ \E a \in queued : a.op = "detach" /\ a.seen = Current
    \/ op["ex"] = "detach" /\ pc["ex"] \in {"match", "durable"} /\ seen["ex"] = Current

(* NoStaleRoute made inductive: a USB route the link was cut under is      *)
(* doomed, or somebody who knows is on the way to it.                      *)
Freshness ==
    route = "usb" /\ ~fresh.route =>
        Doomed \/ (IF lifecycle = "detaching" THEN DetachWorks ELSE CallbackWorks)

(* Without a runtime fault nobody who is to retire a stale route gives up  *)
(* before somebody else is bound to.                                       *)
LEMMA FreshnessInvariant == Spec => [](Faultless => Freshness)
<1> USE DEF Faultless, Freshness, Doomed, CallbackWorks, DetachWorks, Current, Shape, Process
<1>1. Init => (Faultless => Freshness)
  BY DEF Init
<1>2. /\ Exclusion /\ Order /\ Left /\ (Faultless => OneCommand) /\ (Faultless => OnTarget)
      /\ (Faultless => Freshness) /\ [Next]_vars
      => (Faultless => Freshness)'
  <2> SUFFICES ASSUME Exclusion, Order, Left, Faultless => OneCommand, Faultless => OnTarget,
                      Faultless => Freshness, [Next]_vars, Faultless'
               PROVE Freshness'
    OBVIOUS
  <2> USE DEF Exclusion, Order, SoleWriter, Writing, OnTarget
  <2>1. ASSUME NEW p \in Process, Enter(p) PROVE Freshness'
    BY <2>1 DEF Enter, Nothing, Goto
  <2>2. ASSUME NEW p \in Process, EnterBusy(p) PROVE Freshness'
    BY <2>2 DEF EnterBusy, Goto, Finished, Onward, shared
  <2>3. ASSUME NEW p \in Process, Retire(p) PROVE Freshness'
    BY <2>3 DEF Retire, Goto
  <2>4. ASSUME NEW p \in Process, LeaveDurable(p) PROVE Freshness'
    BY <2>4 DEF LeaveDurable, Nothing, Goto, PublishingPoint
  <2>5. ASSUME NEW p \in Process, LeaveRetire(p) PROVE Freshness'
    BY <2>5 DEF LeaveRetire, Nothing, Goto
  <2>6. ASSUME NEW p \in Process, LeaveConditional(p) PROVE Freshness'
    BY <2>6 DEF LeaveConditional, Nothing, Goto
  <2>7. ASSUME NEW p \in Process, LeaveWriter(p) PROVE Freshness'
    BY <2>7 DEF LeaveWriter, Goto, Finished, Onward
  <2>8. ASSUME NEW p \in Process, Match(p) PROVE Freshness'
    BY <2>8 DEF Match, Nothing, Goto, shared, Seen, Onward
  <2>9. ASSUME NEW p \in Process, PublishDurable(p) PROVE Freshness'
    BY <2>9 DEF PublishDurable, Nothing, Goto, Onward, Request
  <2>10. ASSUME NEW p \in Process, StoreDurable(p) PROVE Freshness'
    BY <2>10 DEF StoreDurable, Nothing, Goto, Request
  <2>11. ASSUME NEW p \in Process, InvalidateCheck(p) PROVE Freshness'
    BY <2>11 DEF InvalidateCheck, Nothing, Goto, Invalidating, PublishingPoint
  <2>12. ASSUME NEW p \in Process, CompleteCheck(p) PROVE Freshness'
    BY <2>12 DEF CompleteCheck, Nothing, Goto, At, Seen, Pending, PublishingPoint
  <2>13. CASE UsbValidate
    BY <2>13 DEF UsbValidate, Goto, Finished, shared, Pending
  <2>14. CASE UsbCheck
    BY <2>14 DEF UsbCheck, Nothing, Goto, At, Pending
  <2>15. CASE UsbPublish
    BY <2>15 DEF UsbPublish, Nothing, Goto
  <2>16. CASE UsbRecheck
    BY <2>16 DEF UsbRecheck, Nothing, Goto, shared
  <2>17. CASE UsbAbort
    BY <2>17 DEF UsbAbort, Nothing, Goto, Window
  <2>18. CASE UsbStore
    BY <2>18 DEF UsbStore, Goto, At, Window
  <2>19. CASE UsbFinish
    BY <2>19 DEF UsbFinish, Nothing, Goto
  <2>20. CASE UsbClear
    BY <2>20 DEF UsbClear, Nothing, Goto
  <2>21. CASE BeginCheck
    BY <2>21 DEF BeginCheck, Nothing, Goto, Start, At
  <2>22. CASE BeginStore
    BY <2>22 DEF BeginStore, Nothing, Start, At
  <2>23. CASE Confirm
    BY <2>23 DEF Confirm, Goto, Start, Finished, shared, Seen, Pending
  <2>24. CASE Schedule
    <3>1. /\ UNCHANGED <<route, generation, publishing, durable, cut, fresh, lifecycle, op, seen>>
          /\ pc' = [pc EXCEPT !["ctl"] = "idle"]
      BY <2>24 DEF Schedule, Goto, shared
    <3>2. ~publishing => \E a \in queued' : a.op = "detach" /\ a.seen = Current
      <4>1. ASSUME ~publishing PROVE [op |-> "detach", seen |-> Current] \in queued'
        BY <2>24, <4>1 DEF Schedule
      <4>2. QED
        BY <4>1
    <3>3. pc["ctl"] = "schedule" /\ (pc["ex"] = "idle" \/ op["ex"] = "claim") /\ queued = {}
      BY <2>24 DEF Schedule, OneCommand, ExBusy
    <3>4. QED
      BY <3>1, <3>2, <3>3
  <2>25. CASE UsbCapture
    BY <2>25 DEF UsbCapture, Start, Claimed
  <2>26. CASE NoneRequest
    BY <2>26 DEF NoneRequest, Start, shared, Claimed, Pending
  <2>27. CASE Detach
    BY <2>27 DEF Detach, Start, shared, Claimed
  <2>28. CASE Attach
    BY <2>28 DEF Attach, shared, proc
  <2>29. CASE ExProcess
    BY <2>29 DEF ExProcess, Start, shared, proc, Seen, Pending, OneCommand, ExBusy
  <2>30. CASE Uninstall
    BY <2>30 DEF Uninstall, OneCommand, ExBusy, Left
  <2>31. CASE FaultShutdown
    BY <2>31 DEF FaultShutdown, Start, shared, proc, NoSnapshot
  <2>32. CASE WatchAgain
    BY <2>32 DEF WatchAgain, Nothing, Start, shared, WatchdogSnapshot
  <2>33. CASE StallStale
    BY <2>33 DEF StallStale, Goto, Withdraw
  <2>34. CASE StallPending
    BY <2>34 DEF StallPending, SameLink, Nothing, Goto, shared
  <2>35. CASE StallCurrent
    BY <2>35 DEF StallCurrent, SameLink, Nothing, Goto, shared, Seen, Watched
  <2>36. CASE ClaimPublish
    BY <2>36 DEF ClaimPublish, Goto, Seen, Withdraw, Watched, Request
  <2>37. CASE ClaimStore
    BY <2>37 DEF ClaimStore, Goto, Request
  <2>38. CASE ClaimCheck
    BY <2>38 DEF ClaimCheck, Goto, At, Withdraw
  <2>39. CASE ClaimRetire
    BY <2>39 DEF ClaimRetire, SameLink, Nothing, Goto
  <2>40. CASE ClaimRelease
    BY <2>40 DEF ClaimRelease, Goto, Withdraw
  <2>41. CASE WatchStall
    BY <2>41 DEF WatchStall, Start, shared, WatchdogSnapshot
  <2>42. CASE CbVeto
    BY <2>42 DEF CbVeto, Nothing, Goto
  <2>43. CASE CbSnapshot
    BY <2>43 DEF CbSnapshot, Nothing, Goto, Start, shared
  <2>44. CASE CbDown
    BY <2>44 DEF CbDown, Start, shared, LinkCut
  <2>45. CASE CbUp
    BY <2>45 DEF CbUp, shared, proc
  <2>46. CASE CbFault
    BY <2>46 DEF CbFault, Start, shared, LinkCut
  <2>47. CASE UNCHANGED vars
    BY <2>47 DEF vars, shared, proc
  <2>48. QED
    BY <2>1, <2>2, <2>3, <2>4, <2>5, <2>6, <2>7, <2>8, <2>9, <2>10, <2>11, <2>12, <2>13, <2>14, <2>15, <2>16, <2>17, <2>18, <2>19, <2>20, <2>21, <2>22, <2>23, <2>24, <2>25, <2>26, <2>27, <2>28, <2>29, <2>30, <2>31, <2>32, <2>33, <2>34, <2>35, <2>36, <2>37, <2>38, <2>39, <2>40, <2>41, <2>42, <2>43, <2>44, <2>45, <2>46, <2>47
       DEF Next, CtlStep, Command, ExStep, CbStep, LinkEvent, WriterStep, InvalidateStep, Process
<1>3. QED
  BY <1>1, <1>2, ExclusionInvariant, OrderInvariant, LeftInvariant, OneCommandInvariant,
      OnTargetInvariant, PTL DEF Spec

(* Reports are admitted only on a route validated after the last cut of    *)
(* the link: a suspend and resume inside a publication, a callback that    *)
(* finds the Snapshot incoherent or the writer taken, a detach scheduled   *)
(* while another context retires, none of them resurrects a route.         *)
THEOREM NoStaleRouteCorrect == Spec => []NoStaleRoute
<1>1. /\ Exclusion /\ Order /\ (Faultless => Freshness) => NoStaleRoute
  BY DEF Exclusion, Order, Faultless, Freshness, Doomed, CallbackWorks, NoStaleRoute, Usable,
         Pending, Process
<1>2. QED
  BY <1>1, ExclusionInvariant, OrderInvariant, FreshnessInvariant, PTL

(* Reports are not admitted on what a deleted callback left behind.        *)
THEOREM LeftClosedCorrect == Spec => []LeftClosed
<1>1. Left /\ NoStaleRoute => LeftClosed
  BY DEF Left, NoStaleRoute, LeftClosed
<1>2. QED
  BY <1>1, LeftInvariant, NoStaleRouteCorrect, PTL

(* What keeps others out is a holder of the writer flag who lets them in   *)
(* again, or a flag left behind on a route that admits nothing, or a gate  *)
(* that a publication or the watchdog will open.                           *)
THEOREM OwnedCorrect == Spec => []Owned
BY SoleWriterCorrect, LeftClosedCorrect, GateOwnedCorrect, PTL DEF Owned

(* The generation is bounded because route.usb stops being accepted: what  *)
(* is under way then may still publish one route and retire two.           *)
Bounded ==
    /\ generation <= MaxGeneration + 2
    /\ route /= "none" => generation <= MaxGeneration + 1
    /\ op["ctl"] = "usb" /\ pc["ctl"] \in {"validate", "enter", "check", "publish"} =>
          generation + (IF route = "none" THEN 0 ELSE 1) <= MaxGeneration
    /\ op["ctl"] = "usb" /\ pc["ctl"] \in {"recheck", "store"} => generation <= MaxGeneration + 1

\* So is every generation that is remembered.
Remembered ==
    /\ durable.generation \in Generation
    /\ conditional.generation \in Generation
    /\ watch.generation \in Generation
    /\ \A p \in Process : seen[p].generation \in Generation
    /\ \A a \in queued : a.seen.generation \in Generation
    /\ lifecycle \in Link \cup {"shut"}
    /\ active_operation \in {"none", "route", "detach"}

(* A publication under way has room for its generation and for the         *)
(* retirement of what it publishes.                                        *)
LEMMA BoundedInvariant == Spec => []Bounded
<1> USE GenerationAssumption DEF Bounded, Shape, Process
<1>1. Init => Bounded
  BY DEF Init
<1>2. Shape /\ Ownership /\ Retirement /\ Order /\ Bounded /\ [Next]_vars => Bounded'
  <2> SUFFICES ASSUME Shape, Ownership, Retirement, Order, Bounded, [Next]_vars PROVE Bounded'
    OBVIOUS
  <2>1. ASSUME NEW p \in Process, Enter(p) PROVE Bounded'
    BY <2>1 DEF Enter, Nothing, Goto
  <2>2. ASSUME NEW p \in Process, EnterBusy(p) PROVE Bounded'
    BY <2>2 DEF EnterBusy, Goto, Finished, Onward, shared
  <2>3. ASSUME NEW p \in Process, Retire(p) PROVE Bounded'
    <3>1. /\ route /= "none" /\ route' = "none" /\ generation' = generation + 1
          /\ op' = op /\ generation \in Nat
      BY <2>3 DEF Retire, Goto, Nothing, Retirement, RetiresExactly
    <3>2. pc'["ctl"] = pc["ctl"] \/ pc'["ctl"] \in {"clear", "leave", "leave_conditional"}
      BY <2>3 DEF Retire, Goto
    <3>3. QED
      BY <3>1, <3>2 DEF Order, Window
  <2>4. ASSUME NEW p \in Process, LeaveDurable(p) PROVE Bounded'
    BY <2>4 DEF LeaveDurable, Nothing, Goto
  <2>5. ASSUME NEW p \in Process, LeaveRetire(p) PROVE Bounded'
    <3>1. /\ route /= "none" /\ route' = "none" /\ generation' = generation + 1
          /\ op' = op /\ generation \in Nat
      BY <2>5 DEF LeaveRetire, Goto, Nothing, Order
    <3>2. pc'["ctl"] = pc["ctl"] \/ pc'["ctl"] \in {"clear", "leave", "leave_conditional"}
      BY <2>5 DEF LeaveRetire, Goto
    <3>3. QED
      BY <3>1, <3>2 DEF Order, Window
  <2>6. ASSUME NEW p \in Process, LeaveConditional(p) PROVE Bounded'
    BY <2>6 DEF LeaveConditional, Nothing, Goto
  <2>7. ASSUME NEW p \in Process, LeaveWriter(p) PROVE Bounded'
    BY <2>7 DEF LeaveWriter, Goto, Finished, Onward
  <2>8. ASSUME NEW p \in Process, Match(p) PROVE Bounded'
    BY <2>8 DEF Match, Nothing, Goto, shared, Onward
  <2>9. ASSUME NEW p \in Process, PublishDurable(p) PROVE Bounded'
    BY <2>9 DEF PublishDurable, Nothing, Goto, Onward, Order
  <2>10. ASSUME NEW p \in Process, StoreDurable(p) PROVE Bounded'
    BY <2>10 DEF StoreDurable, Nothing, Goto, Order
  <2>11. ASSUME NEW p \in Process, InvalidateCheck(p) PROVE Bounded'
    BY <2>11 DEF InvalidateCheck, Nothing, Goto, Invalidating
  <2>12. ASSUME NEW p \in Process, CompleteCheck(p) PROVE Bounded'
    BY <2>12 DEF CompleteCheck, Nothing, Goto, At
  <2>13. CASE UsbValidate
    BY <2>13 DEF UsbValidate, Goto, Finished, shared
  <2>14. CASE UsbCheck
    BY <2>14 DEF UsbCheck, Nothing, Goto, At
  <2>15. CASE UsbPublish
    BY <2>15 DEF UsbPublish, Nothing, Goto, Order, Window, Ownership
  <2>16. CASE UsbRecheck
    BY <2>16 DEF UsbRecheck, Nothing, Goto, shared
  <2>17. CASE UsbAbort
    BY <2>17 DEF UsbAbort, Nothing, Goto
  <2>18. CASE UsbStore
    BY <2>18 DEF UsbStore, Goto, At, Order, Window
  <2>19. CASE UsbFinish
    BY <2>19 DEF UsbFinish, Nothing, Goto
  <2>20. CASE UsbClear
    BY <2>20 DEF UsbClear, Nothing, Goto
  <2>21. CASE BeginCheck
    BY <2>21 DEF BeginCheck, Nothing, Goto, Start, At
  <2>22. CASE BeginStore
    BY <2>22 DEF BeginStore, Nothing, Start, At, Order
  <2>23. CASE Confirm
    BY <2>23 DEF Confirm, Goto, Start, Finished, shared
  <2>24. CASE Schedule
    BY <2>24 DEF Schedule, Goto, shared
  <2>25. CASE UsbCapture
    BY <2>25 DEF UsbCapture, Start, Claimed
  <2>26. CASE NoneRequest
    BY <2>26 DEF NoneRequest, Start, shared, Claimed
  <2>27. CASE Detach
    BY <2>27 DEF Detach, Start, shared, Claimed
  <2>28. CASE Attach
    BY <2>28 DEF Attach, shared, proc
  <2>29. CASE ExProcess
    BY <2>29 DEF ExProcess, Start, shared, proc
  <2>30. CASE Uninstall
    BY <2>30 DEF Uninstall
  <2>31. CASE FaultShutdown
    BY <2>31 DEF FaultShutdown, Start, shared, proc, NoSnapshot
  <2>32. CASE WatchAgain
    BY <2>32 DEF WatchAgain, Nothing, Start, shared, WatchdogSnapshot
  <2>33. CASE StallStale
    BY <2>33 DEF StallStale, Goto, Withdraw
  <2>34. CASE StallPending
    BY <2>34 DEF StallPending, SameLink, Nothing, Goto, shared
  <2>35. CASE StallCurrent
    BY <2>35 DEF StallCurrent, SameLink, Nothing, Goto, shared, Watched
  <2>36. CASE ClaimPublish
    BY <2>36 DEF ClaimPublish, Goto, Withdraw, Watched
  <2>37. CASE ClaimStore
    BY <2>37 DEF ClaimStore, Goto
  <2>38. CASE ClaimCheck
    BY <2>38 DEF ClaimCheck, Goto, At, Withdraw
  <2>39. CASE ClaimRetire
    BY <2>39 DEF ClaimRetire, SameLink, Nothing, Goto
  <2>40. CASE ClaimRelease
    BY <2>40 DEF ClaimRelease, Goto, Withdraw
  <2>41. CASE WatchStall
    BY <2>41 DEF WatchStall, Start, shared, WatchdogSnapshot
  <2>42. CASE CbVeto
    BY <2>42 DEF CbVeto, Nothing, Goto
  <2>43. CASE CbSnapshot
    BY <2>43 DEF CbSnapshot, Nothing, Goto, Start, shared
  <2>44. CASE CbDown
    BY <2>44 DEF CbDown, Start, shared, LinkCut
  <2>45. CASE CbUp
    BY <2>45 DEF CbUp, shared, proc
  <2>46. CASE CbFault
    BY <2>46 DEF CbFault, Start, shared, LinkCut
  <2>47. CASE UNCHANGED vars
    BY <2>47 DEF vars, shared, proc
  <2>48. QED
    BY <2>1, <2>2, <2>3, <2>4, <2>5, <2>6, <2>7, <2>8, <2>9, <2>10, <2>11, <2>12, <2>13, <2>14, <2>15, <2>16, <2>17, <2>18, <2>19, <2>20, <2>21, <2>22, <2>23, <2>24, <2>25, <2>26, <2>27, <2>28, <2>29, <2>30, <2>31, <2>32, <2>33, <2>34, <2>35, <2>36, <2>37, <2>38, <2>39, <2>40, <2>41, <2>42, <2>43, <2>44, <2>45, <2>46, <2>47
       DEF Next, CtlStep, Command, ExStep, CbStep, LinkEvent, WriterStep, InvalidateStep, Process
<1>3. QED
  BY <1>1, <1>2, ExclusionInvariant, OwnershipInvariant, RetirementInvariant, OrderInvariant, PTL
     DEF Spec, Exclusion

(* Mailboxes, Snapshots, queued actions and the watchdog copy generations  *)
(* and make none up.                                                       *)
LEMMA RememberedInvariant == Spec => []Remembered
<1> USE DEF Remembered, Shape, Process, Generation
<1>1. Init => Remembered
  BY GenerationAssumption DEF Init, NoSnapshot, Link
<1>2. Shape /\ Ownership /\ Order /\ Bounded /\ Remembered /\ [Next]_vars => Remembered'
  <2> SUFFICES ASSUME Shape, Ownership, Order, Bounded, Remembered, [Next]_vars PROVE Remembered'
    OBVIOUS
  <2> DEFINE Gen == 0 .. MaxGeneration + 2
  <2>g. generation \in Gen /\ 0 \in Gen
    BY GenerationAssumption DEF Bounded
  <2>s. NoSnapshot.generation \in Gen
    BY <2>g DEF NoSnapshot
  <2>t. /\ durable \in [state : {"none", "publishing", "active"}, generation : Nat]
        /\ conditional \in [state : {"none", "publishing", "active"}, generation : Nat]
        /\ watch \in [held : BOOLEAN, generation : Nat, attached : BOOLEAN]
    BY DEF Order, Ownership
  <2> HIDE DEF Gen, Generation
  <2>e. Generation = Gen
    BY DEF Gen, Generation
  <2> USE <2>g, <2>s, <2>t, <2>e
  <2>1. ASSUME NEW p \in Process, Enter(p) PROVE Remembered'
    BY <2>1 DEF Enter, Nothing, Goto
  <2>2. ASSUME NEW p \in Process, EnterBusy(p) PROVE Remembered'
    BY <2>2 DEF EnterBusy, Goto, Finished, Onward, shared
  <2>3. ASSUME NEW p \in Process, Retire(p) PROVE Remembered'
    BY <2>3 DEF Retire, Goto, Cancel
  <2>4. ASSUME NEW p \in Process, LeaveDurable(p) PROVE Remembered'
    BY <2>4 DEF LeaveDurable, Nothing, Goto
  <2>5. ASSUME NEW p \in Process, LeaveRetire(p) PROVE Remembered'
    BY <2>5 DEF LeaveRetire, Nothing, Goto
  <2>6. ASSUME NEW p \in Process, LeaveConditional(p) PROVE Remembered'
    BY <2>6 DEF LeaveConditional, Nothing, Goto
  <2>7. ASSUME NEW p \in Process, LeaveWriter(p) PROVE Remembered'
    BY <2>7 DEF LeaveWriter, Goto, Finished, Onward
  <2>8. ASSUME NEW p \in Process, Match(p) PROVE Remembered'
    BY <2>8 DEF Match, Nothing, Goto, shared, Onward
  <2>9. ASSUME NEW p \in Process, PublishDurable(p) PROVE Remembered'
    BY <2>9 DEF PublishDurable, Nothing, Goto, Onward, Request
  <2>10. ASSUME NEW p \in Process, StoreDurable(p) PROVE Remembered'
    BY <2>10 DEF StoreDurable, Nothing, Goto, Request
  <2>11. ASSUME NEW p \in Process, InvalidateCheck(p) PROVE Remembered'
    BY <2>11 DEF InvalidateCheck, Nothing, Goto, Invalidating
  <2>12. ASSUME NEW p \in Process, CompleteCheck(p) PROVE Remembered'
    BY <2>12 DEF CompleteCheck, Nothing, Goto, At
  <2>13. CASE UsbValidate
    BY <2>13 DEF UsbValidate, Goto, Finished, shared
  <2>14. CASE UsbCheck
    BY <2>14 DEF UsbCheck, Nothing, Goto, At
  <2>15. CASE UsbPublish
    BY <2>15 DEF UsbPublish, Nothing, Goto
  <2>16. CASE UsbRecheck
    BY <2>16 DEF UsbRecheck, Nothing, Goto, shared
  <2>17. CASE UsbAbort
    BY <2>17 DEF UsbAbort, Nothing, Goto
  <2>18. CASE UsbStore
    BY <2>18 DEF UsbStore, Goto, At
  <2>19. CASE UsbFinish
    BY <2>19 DEF UsbFinish, Nothing, Goto
  <2>20. CASE UsbClear
    BY <2>20 DEF UsbClear, Nothing, Goto
  <2>21. CASE BeginCheck
    BY <2>21 DEF BeginCheck, Nothing, Goto, Start, At
  <2>22. CASE BeginStore
    BY <2>22 DEF BeginStore, Nothing, Start, At
  <2>23. CASE Confirm
    BY <2>23 DEF Confirm, Goto, Start, Finished, shared
  <2>24. CASE Schedule
    BY <2>24 DEF Schedule, Goto, shared
  <2>25. CASE UsbCapture
    BY <2>25 DEF UsbCapture, Start, Claimed
  <2>26. CASE NoneRequest
    BY <2>26 DEF NoneRequest, Start, shared, Claimed
  <2>27. CASE Detach
    BY <2>27 DEF Detach, Start, shared, Claimed, Link
  <2>28. CASE Attach
    BY <2>28 DEF Attach, shared, proc, Link
  <2>29. CASE ExProcess
    BY <2>29 DEF ExProcess, Start, shared, proc
  <2>30. CASE Uninstall
    BY <2>30 DEF Uninstall, Link
  <2>31. CASE FaultShutdown
    BY <2>31 DEF FaultShutdown, Start, shared, proc, NoSnapshot
  <2>32. CASE WatchAgain
    BY <2>32 DEF WatchAgain, Nothing, Start, shared, WatchdogSnapshot
  <2>33. CASE StallStale
    BY <2>33 DEF StallStale, Goto, Withdraw, Cancel
  <2>34. CASE StallPending
    BY <2>34 DEF StallPending, SameLink, Nothing, Goto, shared
  <2>35. CASE StallCurrent
    BY <2>35 DEF StallCurrent, SameLink, Nothing, Goto, shared, Watched
  <2>36. CASE ClaimPublish
    BY <2>36 DEF ClaimPublish, Goto, Withdraw, Watched, Request, Cancel
  <2>37. CASE ClaimStore
    BY <2>37 DEF ClaimStore, Goto, Request
  <2>38. CASE ClaimCheck
    BY <2>38 DEF ClaimCheck, Goto, At, Withdraw, Cancel
  <2>39. CASE ClaimRetire
    BY <2>39 DEF ClaimRetire, SameLink, Nothing, Goto
  <2>40. CASE ClaimRelease
    BY <2>40 DEF ClaimRelease, Goto, Withdraw, Cancel
  <2>41. CASE WatchStall
    BY <2>41 DEF WatchStall, Start, shared, WatchdogSnapshot
  <2>42. CASE CbVeto
    BY <2>42 DEF CbVeto, Nothing, Goto
  <2>43. CASE CbSnapshot
    BY <2>43 DEF CbSnapshot, Nothing, Goto, Start, shared
  <2>44. CASE CbDown
    BY <2>44 DEF CbDown, Start, shared, LinkCut, Link
  <2>45. CASE CbUp
    BY <2>45 DEF CbUp, shared, proc, Link
  <2>46. CASE CbFault
    BY <2>46 DEF CbFault, Start, shared, LinkCut, Link
  <2>47. CASE UNCHANGED vars
    BY <2>47 DEF vars, shared, proc
  <2>48. QED
    BY <2>1, <2>2, <2>3, <2>4, <2>5, <2>6, <2>7, <2>8, <2>9, <2>10, <2>11, <2>12, <2>13, <2>14, <2>15, <2>16, <2>17, <2>18, <2>19, <2>20, <2>21, <2>22, <2>23, <2>24, <2>25, <2>26, <2>27, <2>28, <2>29, <2>30, <2>31, <2>32, <2>33, <2>34, <2>35, <2>36, <2>37, <2>38, <2>39, <2>40, <2>41, <2>42, <2>43, <2>44, <2>45, <2>46, <2>47
       DEF Next, CtlStep, Command, ExStep, CbStep, LinkEvent, WriterStep, InvalidateStep, Process
<1>3. QED
  BY <1>1, <1>2, ExclusionInvariant, OwnershipInvariant, OrderInvariant, BoundedInvariant, PTL
     DEF Spec, Exclusion

(* Every step of every context keeps the types, generations within the     *)
(* bound included.                                                         *)
THEOREM TypeCorrect == Spec => []TypeOK
<1>1. Exclusion /\ Ownership /\ Order /\ Bounded /\ Remembered => TypeOK
  <2> SUFFICES ASSUME Exclusion, Ownership, Order, Bounded, Remembered PROVE TypeOK
    OBVIOUS
  <2>1. generation \in Generation
    BY GenerationAssumption DEF Exclusion, Shape, Bounded, Generation
  <2>2. durable \in Mailbox /\ conditional \in Mailbox
    BY DEF Order, Ownership, Remembered, Mailbox
  <2>3. queued \subseteq [op : Operation, seen : Snapshot]
    BY DEF Exclusion, Shape, Remembered, Snapshot
  <2>4. seen \in [Process -> Snapshot]
    BY DEF Exclusion, Shape, Remembered, Snapshot
  <2>5. watch \in [held : BOOLEAN, generation : Generation, attached : BOOLEAN]
    BY DEF Ownership, Remembered
  <2>6. QED
    BY <2>1, <2>2, <2>3, <2>4, <2>5 DEF TypeOK, Exclusion, Shape, Ownership, Order, Remembered
<1>2. QED
  BY <1>1, ExclusionInvariant, OwnershipInvariant, OrderInvariant, BoundedInvariant,
     RememberedInvariant, PTL
=============================================================================
