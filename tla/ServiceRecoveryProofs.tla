------------------------ MODULE ServiceRecoveryProofs ------------------------
(***************************************************************************)
(* ServiceRecovery implements RecoveryContract, for any number of           *)
(* invocations, any task counts and any number of Terraform runs.           *)
(***************************************************************************)
EXTENDS ServiceRecovery, TLAPS

(* While tasks of a replaced deployment run, the rollout is not complete:    *)
(* this is what makes the running count of a complete rollout trustworthy.   *)
OldMeansRolling == old > 0 => rollout = "IN_PROGRESS"

RInv == TypeOK /\ OldMeansRolling

-----------------------------------------------------------------------------
LEMMA InitRInv == Init => RInv
<1> SUFFICES ASSUME Init PROVE RInv
  OBVIOUS
<1> USE CountAssumption DEF Init
<1>1. /\ pc \in [Invocations -> {"idle", "update", "poll", "done"}]
      /\ turn \in [Invocations -> 0 .. Turns]
      /\ result \in [Invocations -> Results]
  BY DEF Results
<1>2. /\ desired \in {Desired, TfDesired} /\ current \in Nat /\ old \in Nat /\ pending \in Nat
      /\ rollout \in {"COMPLETED", "IN_PROGRESS"}
      /\ targets \in Nat /\ targets <= RunningCount
      /\ applies \in 0 .. Applies /\ crashes \in 0 .. Crashes
      /\ OldMeansRolling
  BY DEF RunningCount, OldMeansRolling
<1> QED BY <1>1, <1>2 DEF RInv, TypeOK

LEMMA HandlerRInv ==
  ASSUME RInv, NEW e \in Invocations,
         \/ Invoke(e) \/ UpdateService(e) \/ UpdateRaises(e)
         \/ Poll(e) \/ GiveUp(e) \/ DescribeRaises(e) \/ Kill(e)
  PROVE  RInv'
<1> USE CountAssumption DEF RInv, TypeOK, OldMeansRolling, ecsVars, Return, Results,
        RunningCount, ScaleTo
<1>1. CASE Invoke(e)
  BY <1>1 DEF Invoke
<1>2. CASE UpdateService(e)
  BY <1>2 DEF UpdateService
<1>3. CASE UpdateRaises(e)
  BY <1>3 DEF UpdateRaises
<1>4. CASE Poll(e)
  BY <1>4 DEF Poll
<1>5. CASE GiveUp(e)
  BY <1>5 DEF GiveUp
<1>6. CASE DescribeRaises(e)
  BY <1>6 DEF DescribeRaises
<1>7. CASE Kill(e)
  BY <1>7 DEF Kill
<1> QED BY <1>1, <1>2, <1>3, <1>4, <1>5, <1>6, <1>7

LEMMA EcsRInv == RInv /\ Ecs => RInv'
<1> SUFFICES ASSUME RInv, Ecs PROVE RInv'
  OBVIOUS
<1> USE CountAssumption DEF RInv, TypeOK, OldMeansRolling, handlerVars, RunningCount,
        ScaleTo
<1>0. UNCHANGED handlerVars
  BY DEF Ecs
<1>1. CASE StartTask
  BY <1>0, <1>1 DEF StartTask
<1>2. CASE TaskRuns
  BY <1>0, <1>2 DEF TaskRuns
<1>3. CASE TargetPasses
  BY <1>0, <1>3 DEF TargetPasses
<1>4. CASE TargetFails
  BY <1>0, <1>4 DEF TargetFails
<1>a. StopCurrent => /\ current' \in Nat /\ targets' \in Nat
                     /\ targets' <= RunningCount'
                     /\ UNCHANGED <<desired, old, pending, rollout, applies>>
  <2> SUFFICES ASSUME StopCurrent
               PROVE  /\ current' \in Nat /\ targets' \in Nat
                      /\ targets' <= RunningCount'
                      /\ UNCHANGED <<desired, old, pending, rollout, applies>>
    OBVIOUS
  <2>1. targets' \in 0 .. (RunningCount - 1)
    BY DEF StopCurrent, TargetsAfterStop
  <2>2. /\ current' = current - 1 /\ current' \in Nat
        /\ UNCHANGED <<desired, old, pending, rollout, applies>>
    BY DEF StopCurrent
  <2> QED BY <2>1, <2>2
<1>5. CASE StopSurplus
  <2>1. CASE StopCurrent /\ UNCHANGED crashes
    BY <1>0, <1>a, <2>1
  <2>2. CASE /\ pending > 0 /\ pending' = pending - 1
             /\ UNCHANGED <<desired, current, old, rollout, targets, applies, crashes>>
    BY <1>0, <2>2
  <2> QED BY <1>5, <2>1, <2>2 DEF StopSurplus
<1>6. CASE TaskDies
  <2>1. crashes' \in 0 .. Crashes
    BY <1>6 DEF TaskDies
  <2>2. StopCurrent
    BY <1>6 DEF TaskDies
  <2> QED BY <1>0, <1>a, <2>1, <2>2
<1>7. CASE StopOld
  <2>1. targets' \in 0 .. (RunningCount - 1)
    BY <1>7 DEF StopOld, TargetsAfterStop
  <2> QED BY <1>0, <1>7, <2>1 DEF StopOld
<1>8. CASE CompleteRollout
  BY <1>0, <1>8 DEF CompleteRollout
<1>9. CASE TerraformApply
  BY <1>0, <1>9 DEF TerraformApply
<1> QED
  BY <1>1, <1>2, <1>3, <1>4, <1>5, <1>6, <1>7, <1>8, <1>9 DEF Ecs

THEOREM Invariance == Spec => []RInv
<1>1. RInv /\ [Next]_vars => RInv'
  <2> SUFFICES ASSUME RInv, [Next]_vars PROVE RInv'
    OBVIOUS
  <2>1. CASE UNCHANGED vars
    BY <2>1 DEF vars, ecsVars, handlerVars, RInv, TypeOK, OldMeansRolling, RunningCount
  <2> QED BY <2>1, HandlerRInv, EcsRInv DEF Next
<1> QED BY InitRInv, <1>1, PTL DEF Spec

(* Every count keeps its range; the targets never outnumber the tasks.       *)
THEOREM TypeCorrect == Spec => []TypeOK
<1>1. RInv => TypeOK
  BY DEF RInv
<1> QED BY <1>1, Invariance, PTL

-----------------------------------------------------------------------------
(* The refinement.  Full and Asked are what the contract's two flags stand   *)
(* for; a handler's step leaves Full alone.                                  *)
Full == current >= Desired

LEMMA Stuttering ==
  ASSUME Asked' = Asked, Full' = Full, CallView' = CallView
  PROVE  UNCHANGED Contract!contractVars
  BY DEF Contract!contractVars, Full

LEMMA Returning ==
  ASSUME TypeOK, NEW e \in Invocations, NEW r, Running(e), Return(e, r)
  PROVE  /\ CallView[e] = "running"
         /\ CallView' = [CallView EXCEPT
                          ![e] = IF r = "healthy" THEN "healthy" ELSE "failed"]
  BY DEF TypeOK, Running, Return, CallView

(* An invocation fails, having scaled the service or not. *)
LEMMA Failing ==
  ASSUME TypeOK, NEW e \in Invocations, NEW r, r # "healthy", Running(e), Return(e, r),
         Asked' \/ Asked' = Asked, Full' = Full
  PROVE  Contract!ContractNext
<1>1. CallView[e] = "running" /\ CallView' = [CallView EXCEPT ![e] = "failed"]
  BY Returning
<1>2. Asked' \in {Asked, TRUE}
  BY DEF Asked
<1>3. Contract!Fail(e)
  BY <1>1, <1>2 DEF Contract!Fail, Full
<1> QED BY <1>3 DEF Contract!ContractNext

LEMMA HandlerImplements ==
  ASSUME RInv, NEW e \in Invocations,
         \/ Invoke(e) \/ UpdateService(e) \/ UpdateRaises(e)
         \/ Poll(e) \/ GiveUp(e) \/ DescribeRaises(e) \/ Kill(e)
  PROVE  Contract!ContractNext \/ UNCHANGED Contract!contractVars
<1> USE CountAssumption DEF RInv, TypeOK
<1>1. CASE Invoke(e)
  <2>1. CallView[e] = "idle" /\ CallView' = [CallView EXCEPT ![e] = "running"]
    BY <1>1 DEF Invoke, CallView
  <2>2. Asked' = Asked /\ Full' = Full
    BY <1>1 DEF Invoke, ecsVars, Asked, Full
  <2>3. Contract!Accept(e)
    BY <2>1, <2>2 DEF Contract!Accept, Full
  <2> QED BY <2>3 DEF Contract!ContractNext
<1>2. CASE UpdateService(e)
  <2>1. CallView[e] = "running" /\ CallView' = CallView
    BY <1>2 DEF UpdateService, CallView
  <2>2. Asked' = TRUE /\ Full' = Full
    BY <1>2 DEF UpdateService, ScaleTo, Asked, Full
  <2>3. Contract!Scale(e)
    BY <2>1, <2>2 DEF Contract!Scale, Full
  <2> QED BY <2>3 DEF Contract!ContractNext
<1>3. CASE UpdateRaises(e)
  <2>1. Running(e) /\ Return(e, "notScaled") /\ Full' = Full
    BY <1>3 DEF UpdateRaises, Running, Full
  <2>2. Asked' \/ Asked' = Asked
    BY <1>3 DEF UpdateRaises, ScaleTo, Asked
  <2> QED BY <2>1, <2>2, Failing
<1>4. CASE Poll(e)
  <2>1. Asked' = Asked /\ Full' = Full /\ Running(e)
    BY <1>4 DEF Poll, ecsVars, Asked, Full, Running
  <2>2. CASE LooksHealthy
    <3>1. Full
      BY <2>2 DEF LooksHealthy, RunningCount, OldMeansRolling, Full
    <3>2. CallView[e] = "running" /\ CallView' = [CallView EXCEPT ![e] = "healthy"]
      BY <1>4, <2>1, <2>2, Returning DEF Poll
    <3>3. Contract!Succeed(e)
      BY <2>1, <3>1, <3>2 DEF Contract!Succeed, Full
    <3> QED BY <3>3 DEF Contract!ContractNext
  <2>3. CASE ~LooksHealthy
    <3>1. CallView' = CallView
      BY <1>4, <2>3 DEF Poll, CallView
    <3> QED BY <2>1, <3>1, Stuttering
  <2> QED BY <2>2, <2>3
<1>5. CASE GiveUp(e)
  <2>1. Running(e) /\ Return(e, "timedOut") /\ Full' = Full /\ Asked' = Asked
    BY <1>5 DEF GiveUp, ecsVars, Running, Full, Asked
  <2> QED BY <2>1, Failing
<1>6. CASE DescribeRaises(e)
  <2>1. Running(e) /\ Return(e, "error") /\ Full' = Full /\ Asked' = Asked
    BY <1>6 DEF DescribeRaises, ecsVars, Running, Full, Asked
  <2> QED BY <2>1, Failing
<1>7. CASE Kill(e)
  <2>1. Return(e, "killed") /\ Full' = Full /\ Asked' = Asked
    BY <1>7 DEF Kill, ecsVars, Full, Asked
  <2> QED BY <1>7, <2>1, Failing DEF Kill
<1> QED BY <1>1, <1>2, <1>3, <1>4, <1>5, <1>6, <1>7

(* What ECS and Terraform do is capacity coming, once ordered, or going.     *)
LEMMA EcsImplements ==
  ASSUME RInv, Ecs
  PROVE  Contract!ContractNext \/ UNCHANGED Contract!contractVars
<1> USE CountAssumption DEF RInv, TypeOK
<1>1. CallView' = CallView
  BY DEF Ecs, handlerVars, CallView
<1>2. CASE Asked /\ Asked' /\ Full'
  <2>1. Contract!CapacityComes
    BY <1>1, <1>2 DEF Contract!CapacityComes, Full, Asked
  <2> QED BY <2>1 DEF Contract!ContractNext
<1>3. CASE (Asked' => Asked) /\ (Full' => Full)
  <2>1. Asked' \in {Asked, FALSE}
    BY <1>3 DEF Asked
  <2>2. Full' \in {Full, FALSE}
    <3>1. Full \in BOOLEAN /\ Full' \in BOOLEAN
      BY DEF Full
    <3> QED BY <1>3, <3>1
  <2>3. Contract!CapacityGoes
    BY <1>1, <2>1, <2>2 DEF Contract!CapacityGoes, Full
  <2> QED BY <2>3 DEF Contract!ContractNext
<1>4. (Asked' => Asked) /\ (Full' /\ ~Full => Asked /\ Asked')
  <2> USE DEF Asked, Full
  <2>1. CASE StartTask
    BY <2>1 DEF StartTask
  <2>2. CASE TaskRuns
    BY <2>2 DEF TaskRuns
  <2>3. CASE TargetPasses \/ TargetFails
    BY <2>3 DEF TargetPasses, TargetFails
  <2>4. CASE StopSurplus \/ TaskDies
    BY <2>4 DEF StopSurplus, TaskDies, StopCurrent
  <2>5. CASE StopOld \/ CompleteRollout
    BY <2>5 DEF StopOld, CompleteRollout
  <2>6. CASE TerraformApply
    BY <2>6 DEF TerraformApply, ScaleTo
  <2> QED BY <2>1, <2>2, <2>3, <2>4, <2>5, <2>6 DEF Ecs
<1> QED BY <1>2, <1>3, <1>4

(* The handler's view of the service is the contract's: a healthy report    *)
(* means the current deployment runs all DR tasks at that moment.           *)
THEOREM ImplementsRecoveryContract == Spec => ImplementsContract
<1>1. Init => Contract!ContractInit
  BY CountAssumption DEF Init, Contract!ContractInit, Asked, CallView
<1>2. RInv /\ [Next]_vars => [Contract!ContractNext]_(Contract!contractVars)
  <2> SUFFICES ASSUME RInv, [Next]_vars
               PROVE  Contract!ContractNext \/ UNCHANGED Contract!contractVars
    OBVIOUS
  <2>1. CASE UNCHANGED vars
    <3>1. Asked' = Asked /\ Full' = Full /\ CallView' = CallView
      BY <2>1 DEF vars, ecsVars, handlerVars, Asked, Full, CallView
    <3> QED BY <3>1, Stuttering
  <2> QED BY <2>1, HandlerImplements, EcsImplements DEF Next
<1> QED BY Invariance, <1>1, <1>2, PTL DEF Spec, ImplementsContract, Contract!ContractSpec

=============================================================================
