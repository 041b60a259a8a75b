------------------------ MODULE UsbExposureProofs ------------------------
(***************************************************************************)
(* Theorems of UsbExposure for every generation modulus, queue depth, set  *)
(* of faults, fault contexts and commands.                                 *)
(***************************************************************************)
EXTENDS UsbExposure, TLAPS

\* Every module-level assumption, cited as one fact.
LEMMA Assumptions ==
    /\ GenerationModulus \in Nat /\ GenerationModulus > 1
    /\ FaultReason \subseteq {"diagnostic", "overflow"}
    /\ FaultContext \subseteq {"task", "isr"}
    /\ Command \subseteq {"attach", "detach"}
BY GenerationAssumption, FaultAssumption, CommandAssumption

\* A generation stays a generation when it wraps.
LEMMA NextGenerationType ==
    ASSUME NEW g \in Generation
    PROVE  NextGeneration(g) \in Generation
BY Assumptions DEF Generation, NextGeneration

\* Every state component keeps its type: no handler writes an observation, an
\* operation or a program counter the code does not define.
THEOREM TypeCorrect == Spec => []TypeOK
<1> USE DEF TypeOK
<1>1. Init => TypeOK
  <2> SUFFICES ASSUME Init PROVE TypeOK
    OBVIOUS
  <2>1. word \in Word /\ generation \in Generation /\ last_error \in LastError
    BY Assumptions DEF Init, Word, DesiredExposure, ObservedState, Generation, LastError
  <2>2. rx \in RxState /\ ex \in ExState /\ cb \in CbState
    BY DEF Init, RxState, ExState, CbState, ControlOperation, InstallResult, Event
  <2>3. sg \in [FaultContext -> SgState]
    BY DEF Init, SgState
  <2>4. <<>> \in Seq(Action)
    OBVIOUS
  <2>5. QED
    BY <2>1, <2>2, <2>3, <2>4 DEF Init
<1>2. TypeOK /\ [Next]_vars => TypeOK'
  <2> SUFFICES ASSUME TypeOK, [Next]_vars PROVE TypeOK'
    OBVIOUS
  <2>1. ASSUME NEW o \in Command, RxClaim(o) PROVE TypeOK'
    BY Assumptions, <2>1 DEF RxClaim, ControlOperation, RxState, lifecycle, external
  <2>2. CASE RxStageA
    BY <2>2 DEF RxStageA, RxGoto, RxState, StageAExposed, StageAHidden, Word,
       DesiredExposure, ObservedState, control, external
  <2>3. CASE RxPublish
    BY NextGenerationType, <2>3 DEF RxPublish, RxGoto, RxState, LastError, control,
       external
  <2>4. CASE RxSchedule
    BY <2>4 DEF RxSchedule, RxGoto, RxState, Action, Word, ControlOperation,
       lifecycle, external
  <2>5. CASE RxScheduleRefused
    BY <2>5 DEF RxScheduleRefused, RxGoto, RxState, Word, LastError, control,
       external
  <2>6. CASE RxRelease
    BY <2>6 DEF RxRelease, RxGoto, RxState, ReleaseOperation, lifecycle, external
  <2>7. CASE ExWake
    BY <2>7 DEF ExWake, ExState, lifecycle, external
  <2>8. CASE ExReconcile
    BY <2>8 DEF ExReconcile, ExGoto, ExState, LastError, control, external
  <2>9. CASE ExCommitFault
    BY <2>9 DEF ExCommitFault, ExGoto, ExState, lifecycle, external
  <2>10. CASE ExProcess
    <3>1. Head(action_queue) \in Action /\ action_queue' \in Seq(Action)
      BY <2>10 DEF ExProcess
    <3>2. ex' \in ExState
      BY <2>10, <3>1 DEF ExProcess, ExState, Action
    <3>3. QED
      BY <2>10, <3>1, <3>2 DEF ExProcess, lifecycle, external
  <2>11. CASE ExDrained
    BY <2>11 DEF ExDrained, ExState, lifecycle, control, external
  <2>12. CASE ExInstall
    <3>1. PICK r \in InstallResult :
            /\ driver' = CASE r = "install_ok"    -> "installed"
                           [] r = "install_clean" -> "absent"
                           [] OTHER               -> "partial"
            /\ ex' = [ex EXCEPT !.pc = "complete", !.result = r]
      BY <2>12 DEF ExInstall
    <3>2. ex' \in ExState
      BY <3>1 DEF ExState
    <3>3. driver' \in {"absent", "installed", "partial"}
      BY <3>1
    <3>4. QED
      BY <2>12, <3>2, <3>3 DEF ExInstall, lifecycle, control
  <2>13. CASE ExSafety
    BY <2>13 DEF ExSafety, ExGoto, ExState, lifecycle, control, external
  <2>14. CASE ExBoundary
    BY NextGenerationType, <2>14 DEF ExBoundary, ExGoto, ExState, control, external
  <2>15. CASE ExUninstall
    BY <2>15 DEF ExUninstall, ExState, UninstallResult, CbState, Event, SgState,
       lifecycle, control
  <2>16. CASE ExUninstallFailed
    BY <2>16 DEF ExUninstallFailed, ExState, UninstallResult, lifecycle, control
  <2>17. CASE ExComplete
    BY <2>17 DEF ExComplete, ExGoto, ExState, lifecycle, control, external
  <2>18. CASE ExApply
    BY <2>18 DEF ExApply, ExGoto, ExState, Word, ObservedState, LastError, control,
       external
  <2>19. CASE ExRelease
    BY <2>19 DEF ExRelease, ExState, ReleaseOperation, lifecycle, external
  <2>20. CASE ExFaultComplete
    <3>1. word' \in Word
      BY <2>20 DEF ExFaultComplete, Word, ObservedState
    <3>2. ex' \in ExState
      BY <2>20 DEF ExFaultComplete, ExGoto, ExState
    <3>3. QED
      BY <2>20, <3>1, <3>2 DEF ExFaultComplete, control, external
  <2>21. ASSUME NEW e \in Event, CbStart(e) PROVE TypeOK'
    BY <2>21 DEF CbStart, BusStep, CbState, lifecycle, control
  <2>22. CASE CbCheck
    BY <2>22 DEF CbCheck, CbGoto, CbState, lifecycle, control, external
  <2>23. CASE CbAdvance
    BY NextGenerationType, <2>23 DEF CbAdvance, CbGoto, CbState, control, external
  <2>24. CASE CbObserve
    BY <2>24 DEF CbObserve, CbGoto, CbState, Word, ObservedState, control, external
  <2>25. CASE CbSignal
    BY <2>25 DEF CbSignal, CbGoto, CbState, lifecycle, external
  <2>26. ASSUME NEW c \in FaultContext, NEW r \in FaultReason, SgRaise(c, r)
         PROVE  TypeOK'
    BY Assumptions, <2>26 DEF SgRaise, Retained, SgState, lifecycle, external
  <2>27. ASSUME NEW c \in FaultContext, SgBegin(c) PROVE TypeOK'
    BY <2>27 DEF SgBegin, SgGoto, SgState, control, external
  <2>28. ASSUME NEW c \in FaultContext, SgUpdate(c) PROVE TypeOK'
    BY <2>28 DEF SgUpdate, SgGoto, SgState, LastError, control, external
  <2>29. ASSUME NEW c \in FaultContext, SgRecord(c) PROVE TypeOK'
    BY <2>29 DEF SgRecord, SgGoto, SgState, LastError, control, external
  <2>30. ASSUME NEW c \in FaultContext, SgHide(c) PROVE TypeOK'
    BY <2>30 DEF SgHide, SgGoto, SgState, StageAHidden, Word, DesiredExposure,
       ObservedState, control, external
  <2>31. ASSUME NEW c \in FaultContext, SgWake(c) PROVE TypeOK'
    BY <2>31 DEF SgWake, SgGoto, SgState, lifecycle, external
  <2>32. CASE UNCHANGED vars
    BY <2>32 DEF vars, lifecycle, control, external
  <2>33. QED
    BY <2>1, <2>2, <2>3, <2>4, <2>5, <2>6, <2>7, <2>8, <2>9, <2>10, <2>11, <2>12,
       <2>13, <2>14, <2>15, <2>16, <2>17, <2>18, <2>19, <2>20, <2>21, <2>22, <2>23,
       <2>24, <2>25, <2>26, <2>27, <2>28, <2>29, <2>30, <2>31, <2>32 DEF Next, RxStep,
       ExStep, CbStep, SgStep
<1>3. QED
  BY <1>1, <1>2, PTL DEF Spec
-----------------------------------------------------------------------------
\* Why NotInstalledAbsent is inductive: only the executor installs, and only
\* from a state in which no attach is admitted; a result that reports the
\* driver gone is believed only while it is.
Absence ==
    /\ NotInstalledAbsent
    /\ ex.pc = "install" => ~AttachAccepted
    /\ /\ ex.pc \in {"complete", "apply"}
       /\ ex.result \in {"install_clean", "uninstall_ok"}
       => driver = "absent"

\* driver_not_installed without recovery_required, the state that admits
\* usb.attach, is shown only when no driver is installed, for any faults.
THEOREM NotInstalledCorrect == Spec => []NotInstalledAbsent
<1> USE DEF Absence, NotInstalledAbsent, AttachAccepted
<1>1. Init => Absence
  BY DEF Init
<1>2. TypeOK /\ Absence /\ [Next]_vars => Absence'
  <2> SUFFICES ASSUME TypeOK, Absence, [Next]_vars PROVE Absence'
    OBVIOUS
  <2> USE DEF TypeOK, Word, ExState
  <2>1. ASSUME NEW o \in Command, RxClaim(o)
        PROVE  Absence'
    BY <2>1 DEF RxClaim, lifecycle, control, external
  <2>2. CASE RxStageA
    BY <2>2 DEF RxStageA, RxGoto, lifecycle, control, external, StageAExposed,
       StageAHidden
  <2>3. CASE RxPublish
    BY <2>3 DEF RxPublish, RxGoto, lifecycle, control, external
  <2>4. CASE RxSchedule
    BY <2>4 DEF RxSchedule, RxGoto, lifecycle, control, external
  <2>5. CASE RxScheduleRefused
    BY <2>5 DEF RxScheduleRefused, RxGoto, lifecycle, control, external
  <2>6. CASE RxRelease
    BY <2>6 DEF RxRelease, RxGoto, lifecycle, control, external
  <2>7. CASE ExWake
    BY <2>7 DEF ExWake, lifecycle, control, external
  <2>8. CASE ExReconcile
    BY <2>8 DEF ExReconcile, ExGoto, lifecycle, control, external
  <2>9. CASE ExCommitFault
    BY <2>9 DEF ExCommitFault, ExGoto, lifecycle, control, external
  <2>10. CASE ExProcess
    <3>1. CASE Current(Head(action_queue)) /\ Head(action_queue).operation = "attach"
      BY <2>10, <3>1 DEF ExProcess, lifecycle, external, Current, Attaching
    <3>2. CASE ~(Current(Head(action_queue)) /\ Head(action_queue).operation = "attach")
      <4>1. ex'.pc \in {"release", "safety"}
        BY <2>10, <3>2 DEF ExProcess
      <4>2. QED
        BY <2>10, <4>1 DEF ExProcess, lifecycle, external
    <3>3. QED
      BY <3>1, <3>2
  <2>11. CASE ExDrained
    BY <2>11 DEF ExDrained, lifecycle, control, external
  <2>12. CASE ExInstall
    <3>1. PICK r \in InstallResult :
            /\ driver' = CASE r = "install_ok"    -> "installed"
                           [] r = "install_clean" -> "absent"
                           [] OTHER               -> "partial"
            /\ ex' = [ex EXCEPT !.pc = "complete", !.result = r]
      BY <2>12 DEF ExInstall
    <3>2. ex'.pc = "complete" /\ ex'.result = r /\ r /= "uninstall_ok"
      BY <3>1 DEF InstallResult
    <3>3. r = "install_clean" => driver' = "absent"
      BY <3>1
    <3>4. ~AttachAccepted /\ word' = word
      BY <2>12 DEF ExInstall, lifecycle
    <3>5. QED
      BY <3>2, <3>3, <3>4
  <2>13. CASE ExSafety
    BY <2>13 DEF ExSafety, ExGoto, lifecycle, control, external
  <2>14. CASE ExBoundary
    BY <2>14 DEF ExBoundary, ExGoto, lifecycle, control, external
  <2>15. CASE ExUninstall
    BY <2>15 DEF ExUninstall, lifecycle, control, external
  <2>16. CASE ExUninstallFailed
    BY <2>16 DEF ExUninstallFailed, lifecycle, control, external
  <2>17. CASE ExComplete
    BY <2>17 DEF ExComplete, ExGoto, lifecycle, control, external
  <2>18. CASE ExApply
    BY <2>18 DEF ExApply, ExGoto, lifecycle, control, external
  <2>19. CASE ExRelease
    BY <2>19 DEF ExRelease, lifecycle, control, external
  <2>20. CASE ExFaultComplete
    BY <2>20 DEF ExFaultComplete, ExGoto, lifecycle, control, external
  <2>21. ASSUME NEW e \in Event, CbStart(e)
        PROVE  Absence'
    BY <2>21 DEF CbStart, lifecycle, control, external
  <2>22. CASE CbCheck
    BY <2>22 DEF CbCheck, CbGoto, lifecycle, control, external
  <2>23. CASE CbAdvance
    BY <2>23 DEF CbAdvance, CbGoto, lifecycle, control, external
  <2>24. CASE CbObserve
    BY <2>24 DEF CbObserve, CbGoto, lifecycle, control, external
  <2>25. CASE CbSignal
    BY <2>25 DEF CbSignal, CbGoto, lifecycle, control, external
  <2>26. ASSUME NEW c \in FaultContext, NEW r \in FaultReason, SgRaise(c, r)
        PROVE  Absence'
    BY <2>26 DEF SgRaise, lifecycle, control, external
  <2>27. ASSUME NEW c \in FaultContext, SgBegin(c)
        PROVE  Absence'
    BY <2>27 DEF SgBegin, SgGoto, lifecycle, control, external
  <2>28. ASSUME NEW c \in FaultContext, SgUpdate(c)
        PROVE  Absence'
    BY <2>28 DEF SgUpdate, SgGoto, lifecycle, control, external
  <2>29. ASSUME NEW c \in FaultContext, SgRecord(c)
        PROVE  Absence'
    BY <2>29 DEF SgRecord, SgGoto, lifecycle, control, external
  <2>30. ASSUME NEW c \in FaultContext, SgHide(c)
        PROVE  Absence'
    BY <2>30 DEF SgHide, SgGoto, lifecycle, control, external, StageAHidden
  <2>31. ASSUME NEW c \in FaultContext, SgWake(c)
        PROVE  Absence'
    BY <2>31 DEF SgWake, SgGoto, lifecycle, control, external
  <2>32. CASE UNCHANGED vars
    BY <2>32 DEF vars, lifecycle, control, external
  <2>33. QED
    BY <2>1, <2>2, <2>3, <2>4, <2>5, <2>6, <2>7, <2>8, <2>9, <2>10, <2>11, <2>12,
       <2>13, <2>14, <2>15, <2>16, <2>17, <2>18, <2>19, <2>20, <2>21, <2>22, <2>23,
       <2>24, <2>25, <2>26, <2>27, <2>28, <2>29, <2>30, <2>31, <2>32 DEF Next, RxStep,
       ExStep, CbStep, SgStep
<1>3. Absence => NotInstalledAbsent
  OBVIOUS
<1>4. QED
  BY <1>1, <1>2, <1>3, TypeCorrect, PTL DEF Spec
-----------------------------------------------------------------------------
\* Until a fault commit takes active_operation away, it names the holder of the
\* guard, and the holder is in one place: rx, the queue or the executor.
Exclusion ==
    ~fault_committed =>
        /\ rx.pc /= "idle" => /\ active_operation = rx.operation
                             /\ action_queue = <<>>
                             /\ ex.operation = "none"
        /\ action_queue /= <<>> => /\ Len(action_queue) = 1
                                  /\ active_operation = Head(action_queue).operation
                                  /\ ex.operation = "none"
        /\ ex.operation /= "none" => active_operation = ex.operation

\* One USB command at a time, from Stage A to the end of its execution.
THEOREM OneCommandCorrect == Spec => []OneCommand
<1> USE DEF Exclusion
<1>1. Init => Exclusion
  BY DEF Init
<1>2. TypeOK /\ Exclusion /\ [Next]_vars => Exclusion'
  <2> SUFFICES ASSUME TypeOK, Exclusion, [Next]_vars PROVE Exclusion'
    OBVIOUS
  <2> USE DEF TypeOK, RxState, ExState, ControlOperation
  <2>1. ASSUME NEW o \in Command, RxClaim(o)
        PROVE  Exclusion'
    <3>1. ~fault_committed => action_queue = <<>> /\ ex.operation = "none"
      <4>1. action_queue /= <<>> => Head(action_queue) \in Action
        OBVIOUS
      <4>2. QED
        BY <2>1, <4>1 DEF RxClaim, Action
    <3>2. rx' = [pc |-> "stage_a", operation |-> o] /\ active_operation' = o
      BY <2>1 DEF RxClaim
    <3>3. QED
      BY <2>1, <3>1, <3>2 DEF RxClaim
  <2>2. CASE RxStageA
    BY <2>2 DEF RxStageA, RxGoto, lifecycle, control, external
  <2>3. CASE RxPublish
    BY <2>3 DEF RxPublish, RxGoto, lifecycle, control, external
  <2>4. CASE RxSchedule
    BY <2>4 DEF RxSchedule, RxGoto, lifecycle, control, external, Action
  <2>5. CASE RxScheduleRefused
    BY <2>5 DEF RxScheduleRefused, RxGoto, lifecycle, control, external
  <2>6. CASE RxRelease
    BY <2>6 DEF RxRelease, RxGoto, lifecycle, control, external, ReleaseOperation
  <2>7. CASE ExWake
    BY <2>7 DEF ExWake, lifecycle, control, external
  <2>8. CASE ExReconcile
    BY <2>8 DEF ExReconcile, ExGoto, lifecycle, control, external
  <2>9. CASE ExCommitFault
    BY <2>9 DEF ExCommitFault, ExGoto, lifecycle, control, external
  <2>10. CASE ExProcess
    BY <2>10 DEF ExProcess, lifecycle, control, external, Action
  <2>11. CASE ExDrained
    BY <2>11 DEF ExDrained, lifecycle, control, external
  <2>12. CASE ExInstall
    BY <2>12 DEF ExInstall, lifecycle, control, external
  <2>13. CASE ExSafety
    BY <2>13 DEF ExSafety, ExGoto, lifecycle, control, external
  <2>14. CASE ExBoundary
    BY <2>14 DEF ExBoundary, ExGoto, lifecycle, control, external
  <2>15. CASE ExUninstall
    BY <2>15 DEF ExUninstall, lifecycle, control, external
  <2>16. CASE ExUninstallFailed
    BY <2>16 DEF ExUninstallFailed, lifecycle, control, external
  <2>17. CASE ExComplete
    BY <2>17 DEF ExComplete, ExGoto, lifecycle, control, external
  <2>18. CASE ExApply
    BY <2>18 DEF ExApply, ExGoto, lifecycle, control, external
  <2>19. CASE ExRelease
    BY <2>19 DEF ExRelease, lifecycle, control, external, ReleaseOperation
  <2>20. CASE ExFaultComplete
    BY <2>20 DEF ExFaultComplete, ExGoto, lifecycle, control, external
  <2>21. ASSUME NEW e \in Event, CbStart(e)
        PROVE  Exclusion'
    BY <2>21 DEF CbStart, lifecycle, control, external
  <2>22. CASE CbCheck
    BY <2>22 DEF CbCheck, CbGoto, lifecycle, control, external
  <2>23. CASE CbAdvance
    BY <2>23 DEF CbAdvance, CbGoto, lifecycle, control, external
  <2>24. CASE CbObserve
    BY <2>24 DEF CbObserve, CbGoto, lifecycle, control, external
  <2>25. CASE CbSignal
    BY <2>25 DEF CbSignal, CbGoto, lifecycle, control, external
  <2>26. ASSUME NEW c \in FaultContext, NEW r \in FaultReason, SgRaise(c, r)
        PROVE  Exclusion'
    BY <2>26 DEF SgRaise, lifecycle, control, external
  <2>27. ASSUME NEW c \in FaultContext, SgBegin(c)
        PROVE  Exclusion'
    BY <2>27 DEF SgBegin, SgGoto, lifecycle, control, external
  <2>28. ASSUME NEW c \in FaultContext, SgUpdate(c)
        PROVE  Exclusion'
    BY <2>28 DEF SgUpdate, SgGoto, lifecycle, control, external
  <2>29. ASSUME NEW c \in FaultContext, SgRecord(c)
        PROVE  Exclusion'
    BY <2>29 DEF SgRecord, SgGoto, lifecycle, control, external
  <2>30. ASSUME NEW c \in FaultContext, SgHide(c)
        PROVE  Exclusion'
    BY <2>30 DEF SgHide, SgGoto, lifecycle, control, external
  <2>31. ASSUME NEW c \in FaultContext, SgWake(c)
        PROVE  Exclusion'
    BY <2>31 DEF SgWake, SgGoto, lifecycle, control, external
  <2>32. CASE UNCHANGED vars
    BY <2>32 DEF vars, lifecycle, control, external
  <2>33. QED
    BY <2>1, <2>2, <2>3, <2>4, <2>5, <2>6, <2>7, <2>8, <2>9, <2>10, <2>11, <2>12,
       <2>13, <2>14, <2>15, <2>16, <2>17, <2>18, <2>19, <2>20, <2>21, <2>22, <2>23,
       <2>24, <2>25, <2>26, <2>27, <2>28, <2>29, <2>30, <2>31, <2>32 DEF Next, RxStep,
       ExStep, CbStep, SgStep
<1>3. TypeOK /\ Exclusion => OneCommand
  <2> SUFFICES ASSUME TypeOK, Exclusion, ~fault_committed PROVE Pending <= 1
    BY DEF OneCommand
  <2>1. \/ action_queue = <<>> /\ Len(action_queue) = 0
        \/ action_queue /= <<>> /\ Len(action_queue) = 1
    <3>1. CASE action_queue = <<>>
      BY <3>1
    <3>2. CASE action_queue /= <<>>
      BY <3>2
    <3>3. QED
      BY <3>1, <3>2
  <2>2. action_queue /= <<>> => ~RxHolds /\ ~ExHolds
    BY DEF RxHolds, ExHolds
  <2>3. ~(RxHolds /\ ExHolds)
    BY DEF RxHolds, ExHolds
  <2>4. QED
    <3>1. CASE action_queue = <<>>
      BY <2>1, <2>3, <3>1 DEF Pending, RxHolds, ExHolds
    <3>2. CASE action_queue /= <<>>
      <4>1. Len(action_queue) = 1 /\ ~RxHolds /\ ~ExHolds
        BY <2>1, <2>2, <3>2
      <4>2. QED
        BY <4>1 DEF Pending, RxHolds, ExHolds
    <3>3. QED
      BY <3>1, <3>2
<1>4. QED
  BY <1>1, <1>2, <1>3, TypeCorrect, PTL DEF Spec
=============================================================================
