------------------------ MODULE FailoverWorkflowProofs ------------------------
(***************************************************************************)
(* Theorems about FailoverWorkflow, for any number of executions and        *)
(* whatever fails.                                                          *)
(***************************************************************************)
EXTENDS FailoverWorkflow, TLAPS

(* Where an execution is tells what it has seen.  Its own row proves the     *)
(* database was promoted, because a promotion is never undone.              *)
Milestones ==
  \A x \in Executions :
    /\ replicaCall[x] = "up" => db = "promoted"
    /\ st[x] \notin {"NotStarted", "ReplicaFailoverHandler", "Failed"}
         => replicaCall[x] = "up"
    /\ st[x] \in {"ServiceRecoveryHandler", "ValidateApplication", "FailoverCompleted"}
         => x \in written
    /\ st[x] \in {"ValidateApplication", "FailoverCompleted"}
         => ecsCall[x] = "healthy"
    /\ ecsCall[x] # "idle" => x \in written

(* A row is evidence of the promotion, and tasks are evidence of a row. *)
Evidence ==
  /\ written # {} => db = "promoted"
  /\ asked \/ full => written # {}

WInv == TypeOK /\ Milestones /\ Evidence

-----------------------------------------------------------------------------
LEMMA InitWInv == Init => WInv
<1> SUFFICES ASSUME Init PROVE WInv
  OBVIOUS
<1> USE DEF Init, Replica!ContractInit, Ecs!ContractInit
<1>1. /\ st \in [Executions -> States] /\ db \in {"replica", "promoting", "promoted"}
      /\ replicaCall \in [Executions -> Replica!CallStates]
      /\ ecsCall \in [Executions -> Ecs!CallStates]
  BY DEF States, Terminal, Replica!CallStates, Ecs!CallStates
<1>2. /\ asked \in BOOLEAN /\ full \in BOOLEAN /\ written \subseteq Executions
      /\ served \in BOOLEAN /\ secretValid \in BOOLEAN
      /\ primaryUp \in BOOLEAN /\ calm \in BOOLEAN
  OBVIOUS
<1>3. Milestones /\ Evidence
  BY DEF Milestones, Evidence
<1> QED BY <1>1, <1>2, <1>3 DEF WInv, TypeOK

LEMMA NextTypeOK == WInv /\ [Next]_vars => TypeOK'
<1> SUFFICES ASSUME WInv, [Next]_vars PROVE TypeOK'
  OBVIOUS
<1> USE DEF WInv, TypeOK, States, Terminal, Replica!CallStates, Ecs!CallStates, Go, dbVars, ecsVars, worldVars
<1>1. ASSUME NEW x \in Executions, StartExecution(x) PROVE TypeOK'
  BY <1>1 DEF StartExecution, Replica!Accept
<1>2. ASSUME NEW x \in Executions, ReplicaAnswered(x) PROVE TypeOK'
  BY <1>2 DEF ReplicaAnswered, AfterReplica
<1>3. ASSUME NEW x \in Executions, WaitForDBReadiness(x) PROVE TypeOK'
  BY <1>3 DEF WaitForDBReadiness
<1>4. ASSUME NEW x \in Executions, ValidateDBWritable(x) PROVE TypeOK'
  BY <1>4 DEF ValidateDBWritable, Writable, AfterWrite, Ecs!Accept
<1>5. ASSUME NEW x \in Executions, EcsAnswered(x) PROVE TypeOK'
  BY <1>5 DEF EcsAnswered, AfterEcs
<1>6. ASSUME NEW x \in Executions, ValidateApplication(x) PROVE TypeOK'
  BY <1>6 DEF ValidateApplication, AfterProbe
<1>7. ASSUME NEW x \in Executions, ReplicaRuns(x) PROVE TypeOK'
  BY <1>7 DEF ReplicaRuns, Replica!Promote, Replica!Succeed, Replica!Fail, Replica!Begin
<1>8. ASSUME NEW x \in Executions, EcsRuns(x) PROVE TypeOK'
  BY <1>8 DEF EcsRuns, Ecs!Scale, Ecs!Succeed, Ecs!Fail
<1>9. CASE Rds
  BY <1>9 DEF Rds, Replica!FinishPromotion, Replica!PromoteByHand, Replica!Begin
<1>10. CASE Capacity
  BY <1>10 DEF Capacity, Ecs!CapacityComes, Ecs!CapacityGoes
<1>11. CASE TargetsPass
  BY <1>11 DEF TargetsPass
<1>12. CASE TargetsFail
  BY <1>12 DEF TargetsFail
<1>13. CASE Rotate
  BY <1>13 DEF Rotate
<1>14. CASE PrimaryFailsOrReturns
  BY <1>14 DEF PrimaryFailsOrReturns
<1>15. CASE CalmsDown
  BY <1>15 DEF CalmsDown
<1>16. CASE UNCHANGED vars
  BY <1>16 DEF vars
<1> QED
  BY <1>1, <1>2, <1>3, <1>4, <1>5, <1>6, <1>7, <1>8, <1>9, <1>10, <1>11,
     <1>12, <1>13, <1>14, <1>15, <1>16 DEF Next, Asl, World

LEMMA NextMilestones == WInv /\ [Next]_vars => Milestones'
<1> SUFFICES ASSUME WInv, [Next]_vars PROVE Milestones'
  OBVIOUS
<1> USE DEF WInv, TypeOK, Milestones, Evidence, States, Terminal, Replica!CallStates, Ecs!CallStates, Go, dbVars, ecsVars, worldVars
<1>1. ASSUME NEW x \in Executions, StartExecution(x) PROVE Milestones'
  BY <1>1 DEF StartExecution, Replica!Accept
<1>2. ASSUME NEW x \in Executions, ReplicaAnswered(x) PROVE Milestones'
  BY <1>2 DEF ReplicaAnswered, AfterReplica
<1>3. ASSUME NEW x \in Executions, WaitForDBReadiness(x) PROVE Milestones'
  BY <1>3 DEF WaitForDBReadiness
<1>4. ASSUME NEW x \in Executions, ValidateDBWritable(x) PROVE Milestones'
  BY <1>4 DEF ValidateDBWritable, Writable, AfterWrite, Ecs!Accept
<1>5. ASSUME NEW x \in Executions, EcsAnswered(x) PROVE Milestones'
  BY <1>5 DEF EcsAnswered, AfterEcs
<1>6. ASSUME NEW x \in Executions, ValidateApplication(x) PROVE Milestones'
  BY <1>6 DEF ValidateApplication, AfterProbe
<1>7. ASSUME NEW x \in Executions, ReplicaRuns(x) PROVE Milestones'
  BY <1>7 DEF ReplicaRuns, Replica!Promote, Replica!Succeed, Replica!Fail, Replica!Begin
<1>8. ASSUME NEW x \in Executions, EcsRuns(x) PROVE Milestones'
  BY <1>8 DEF EcsRuns, Ecs!Scale, Ecs!Succeed, Ecs!Fail
<1>9. CASE Rds
  BY <1>9 DEF Rds, Replica!FinishPromotion, Replica!PromoteByHand, Replica!Begin
<1>10. CASE Capacity
  BY <1>10 DEF Capacity, Ecs!CapacityComes, Ecs!CapacityGoes
<1>11. CASE TargetsPass
  BY <1>11 DEF TargetsPass
<1>12. CASE TargetsFail
  BY <1>12 DEF TargetsFail
<1>13. CASE Rotate
  BY <1>13 DEF Rotate
<1>14. CASE PrimaryFailsOrReturns
  BY <1>14 DEF PrimaryFailsOrReturns
<1>15. CASE CalmsDown
  BY <1>15 DEF CalmsDown
<1>16. CASE UNCHANGED vars
  BY <1>16 DEF vars
<1> QED
  BY <1>1, <1>2, <1>3, <1>4, <1>5, <1>6, <1>7, <1>8, <1>9, <1>10, <1>11,
     <1>12, <1>13, <1>14, <1>15, <1>16 DEF Next, Asl, World

LEMMA NextEvidence == WInv /\ [Next]_vars => Evidence'
<1> SUFFICES ASSUME WInv, [Next]_vars PROVE Evidence'
  OBVIOUS
<1> USE DEF WInv, TypeOK, Milestones, Evidence, Go, dbVars, ecsVars, worldVars
<1>1. ASSUME NEW x \in Executions, StartExecution(x) PROVE Evidence'
  BY <1>1 DEF StartExecution, Replica!Accept
<1>2. ASSUME NEW x \in Executions, ReplicaAnswered(x) PROVE Evidence'
  BY <1>2 DEF ReplicaAnswered, AfterReplica
<1>3. ASSUME NEW x \in Executions, WaitForDBReadiness(x) PROVE Evidence'
  BY <1>3 DEF WaitForDBReadiness
<1>4. ASSUME NEW x \in Executions, ValidateDBWritable(x) PROVE Evidence'
  BY <1>4 DEF ValidateDBWritable, Writable, AfterWrite, Ecs!Accept
<1>5. ASSUME NEW x \in Executions, EcsAnswered(x) PROVE Evidence'
  BY <1>5 DEF EcsAnswered, AfterEcs
<1>6. ASSUME NEW x \in Executions, ValidateApplication(x) PROVE Evidence'
  BY <1>6 DEF ValidateApplication, AfterProbe
<1>7. ASSUME NEW x \in Executions, ReplicaRuns(x) PROVE Evidence'
  BY <1>7 DEF ReplicaRuns, Replica!Promote, Replica!Succeed, Replica!Fail, Replica!Begin
<1>8. ASSUME NEW x \in Executions, EcsRuns(x) PROVE Evidence'
  BY <1>8 DEF EcsRuns, Ecs!Scale, Ecs!Succeed, Ecs!Fail
<1>9. CASE Rds
  BY <1>9 DEF Rds, Replica!FinishPromotion, Replica!PromoteByHand, Replica!Begin
<1>10. CASE Capacity
  <2>1. UNCHANGED <<db, written>>
    BY <1>10 DEF Capacity
  <2>2. asked' \/ full' => asked \/ full
    BY <1>10 DEF Capacity, Ecs!CapacityComes, Ecs!CapacityGoes
  <2> QED BY <2>1, <2>2
<1>11. CASE TargetsPass
  BY <1>11 DEF TargetsPass
<1>12. CASE TargetsFail
  BY <1>12 DEF TargetsFail
<1>13. CASE Rotate
  BY <1>13 DEF Rotate
<1>14. CASE PrimaryFailsOrReturns
  BY <1>14 DEF PrimaryFailsOrReturns
<1>15. CASE CalmsDown
  BY <1>15 DEF CalmsDown
<1>16. CASE UNCHANGED vars
  BY <1>16 DEF vars
<1> QED
  BY <1>1, <1>2, <1>3, <1>4, <1>5, <1>6, <1>7, <1>8, <1>9, <1>10, <1>11,
     <1>12, <1>13, <1>14, <1>15, <1>16 DEF Next, Asl, World

(* In every reachable state the types hold and WInv is true. *)
THEOREM Invariance == Spec => []WInv
<1>1. WInv /\ [Next]_vars => WInv'
  BY NextTypeOK, NextMilestones, NextEvidence DEF WInv
<1> QED BY InitWInv, <1>1, PTL DEF Spec

(* Type correctness. *)
THEOREM TypeCorrect == Spec => []TypeOK
<1>1. WInv => TypeOK
  BY DEF WInv
<1> QED BY Invariance, <1>1, PTL

(* No DR task is ordered, started or run before the promoted database took   *)
(* a write, for any number of overlapping executions.                        *)
THEOREM TasksWaitForWrite == Spec => []NoTasksBeforeWrite
<1>1. WInv => NoTasksBeforeWrite
  BY DEF WInv, Evidence, NoTasksBeforeWrite
<1> QED BY Invariance, <1>1, PTL

(* A completed execution took every step of the failover itself. *)
THEOREM CompletionIsEarned == Spec => []CompletedDidEverything
<1>1. WInv => CompletedDidEverything
  BY DEF WInv, Milestones, CompletedDidEverything
<1> QED BY Invariance, <1>1, PTL

=============================================================================
