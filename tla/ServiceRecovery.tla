--------------------------- MODULE ServiceRecovery ---------------------------
(***************************************************************************)
(* lambdas/service-recovery-handler/app.py: the Lambda that scales the DR   *)
(* service and polls it until it looks healthy, beside the ECS scheduler    *)
(* (external), the load balancer's health checks (external) and the         *)
(* Terraform runs that own the same service.  Untimed: a sleep may end and  *)
(* the Lambda timeout may strike at any moment.                             *)
(***************************************************************************)
EXTENDS Naturals

CONSTANTS
  Invocations,  \* the invocations of the function
  Desired,      \* DR_DESIRED_COUNT
  TfDesired,    \* the desired count Terraform applies to the DR service
  Turns,        \* turns of the loop: MAX_WAIT_SECONDS / POLL_INTERVAL_SECONDS
  Applies,      \* bound on the Terraform runs
  Crashes       \* bound on the tasks that die by themselves

ASSUME CountAssumption ==
  /\ Desired \in Nat /\ TfDesired \in Nat
  /\ TfDesired < Desired      \* a warm standby
  /\ Turns \in Nat /\ Applies \in Nat /\ Crashes \in Nat

VARIABLES
  (* the ECS service *)
  desired,   \* desiredCount
  current,   \* running tasks of the current deployment
  old,       \* running tasks of deployments it replaces
  pending,   \* tasks being started, all of the current deployment
  rollout,   \* rolloutState
  targets,   \* running tasks whose load balancer target is healthy
  applies,   \* Terraform runs so far
  crashes,   \* tasks that died so far
  (* the invocations *)
  pc, turn, result

ecsVars == <<desired, current, old, pending, rollout, targets, applies, crashes>>
handlerVars == <<pc, turn, result>>
vars == <<ecsVars, handlerVars>>

-----------------------------------------------------------------------------
Running(e) == pc[e] \notin {"idle", "done"}

Return(e, r) ==
  /\ pc' = [pc EXCEPT ![e] = "done"]
  /\ result' = [result EXCEPT ![e] = r]

Init ==
  /\ desired = TfDesired /\ current = TfDesired /\ old = 0 /\ pending = 0
  /\ rollout = "COMPLETED" /\ targets = TfDesired
  /\ applies = 0 /\ crashes = 0
  /\ pc = [e \in Invocations |-> "idle"]
  /\ turn = [e \in Invocations |-> 0]
  /\ result = [e \in Invocations |-> "none"]

Invoke(e) ==
  /\ pc[e] = "idle"
  /\ pc' = [pc EXCEPT ![e] = "update"]
  /\ UNCHANGED <<ecsVars, turn, result>>

(* A changed count may or may not reopen the rollout; it starts no new one. *)
ScaleTo(n) ==
  /\ desired' = n
  /\ rollout' \in {rollout, "IN_PROGRESS"}

UpdateService(e) ==
  /\ pc[e] = "update"
  /\ ScaleTo(Desired)
  /\ pc' = [pc EXCEPT ![e] = "poll"]
  /\ UNCHANGED <<current, old, pending, targets, applies, crashes, turn, result>>

(* The call raises; the request may have reached ECS all the same. *)
UpdateRaises(e) ==
  /\ pc[e] = "update"
  /\ ScaleTo(Desired) \/ UNCHANGED <<desired, rollout>>
  /\ Return(e, "notScaled")
  /\ UNCHANGED <<current, old, pending, targets, applies, crashes, turn>>

(* describe_services counts the tasks of every deployment. *)
RunningCount == current + old

(* Mutant: rolloutState is not looked at. *)
CountsOnly == RunningCount >= Desired /\ pending = 0

LooksHealthy ==
  RunningCount >= Desired /\ pending = 0 /\ rollout = "COMPLETED"

(* Mutant: while True. *)
PollForEver(e) ==
  /\ pc[e] = "poll"
  /\ IF LooksHealthy
       THEN Return(e, "healthy") /\ UNCHANGED turn
       ELSE turn' = [turn EXCEPT ![e] = @ + 1] /\ UNCHANGED <<pc, result>>
  /\ UNCHANGED ecsVars

Poll(e) ==
  /\ pc[e] = "poll" /\ turn[e] < Turns
  /\ IF LooksHealthy
       THEN Return(e, "healthy") /\ UNCHANGED turn
       ELSE /\ turn' = [turn EXCEPT ![e] = @ + 1]
            /\ UNCHANGED <<pc, result>>
  /\ UNCHANGED ecsVars

(* The describe after the loop only fills in the answer. *)
GiveUp(e) ==
  /\ pc[e] = "poll" /\ turn[e] >= Turns
  /\ Return(e, "timedOut")
  /\ UNCHANGED <<ecsVars, turn>>

(* describe_service raises, or Lambda ends the invocation. *)
DescribeRaises(e) ==
  /\ pc[e] = "poll"
  /\ Return(e, "error")
  /\ UNCHANGED <<ecsVars, turn>>

Kill(e) ==
  /\ Running(e)
  /\ Return(e, "killed")
  /\ UNCHANGED <<ecsVars, turn>>

-----------------------------------------------------------------------------
(* The ECS scheduler replaces old tasks one by one, never with fewer than   *)
(* desired running, and completes a rollout in the steady state only.       *)
StartTask ==
  /\ current + pending < desired
  /\ pending' = pending + 1
  /\ UNCHANGED <<desired, current, old, rollout, targets, applies, crashes>>

TaskRuns ==
  /\ pending > 0
  /\ pending' = pending - 1 /\ current' = current + 1
  /\ UNCHANGED <<desired, old, rollout, targets, applies, crashes>>

TargetPasses ==
  /\ targets < RunningCount
  /\ targets' = targets + 1
  /\ UNCHANGED <<desired, current, old, pending, rollout, applies, crashes>>

TargetFails ==
  /\ targets > 0
  /\ targets' = targets - 1
  /\ UNCHANGED <<desired, current, old, pending, rollout, applies, crashes>>

(* A task that stops takes its target with it, if it had a healthy one. *)
TargetsAfterStop == {t \in {targets, targets - 1} : t \in 0 .. (RunningCount - 1)}

StopCurrent ==
  /\ current > 0
  /\ current' = current - 1
  /\ targets' \in TargetsAfterStop
  /\ UNCHANGED <<desired, old, pending, rollout, applies>>

StopSurplus ==
  /\ current + pending > desired
  /\ \/ StopCurrent /\ UNCHANGED crashes
     \/ /\ pending > 0 /\ pending' = pending - 1
        /\ UNCHANGED <<desired, current, old, rollout, targets, applies, crashes>>

TaskDies ==
  /\ crashes < Crashes
  /\ StopCurrent
  /\ crashes' = crashes + 1

StopOld ==
  /\ old > 0 /\ current + old > desired
  /\ old' = old - 1
  /\ targets' \in TargetsAfterStop
  /\ UNCHANGED <<desired, current, pending, rollout, applies, crashes>>

CompleteRollout ==
  /\ rollout = "IN_PROGRESS"
  /\ old = 0 /\ pending = 0 /\ current = desired
  /\ rollout' = "COMPLETED"
  /\ UNCHANGED <<desired, current, old, pending, targets, applies, crashes>>

(* terraform apply of the DR ECS stack: the count goes back to TfDesired,   *)
(* and a new task definition makes a new deployment.                        *)
TerraformApply ==
  /\ applies < Applies
  /\ applies' = applies + 1
  /\ \/ ScaleTo(TfDesired) /\ UNCHANGED <<current, old, pending>>
     \/ /\ desired' = TfDesired /\ rollout' = "IN_PROGRESS"
        /\ old' = old + current /\ current' = 0 /\ pending' = 0
  /\ UNCHANGED <<targets, crashes>>

Ecs ==
  /\ \/ StartTask \/ TaskRuns \/ TargetPasses \/ TargetFails
     \/ StopSurplus \/ TaskDies \/ StopOld \/ CompleteRollout \/ TerraformApply
  /\ UNCHANGED handlerVars

Next ==
  \/ \E e \in Invocations :
       \/ Invoke(e) \/ UpdateService(e) \/ UpdateRaises(e)
       \/ Poll(e) \/ GiveUp(e) \/ DescribeRaises(e) \/ Kill(e)
  \/ Ecs

Spec == Init /\ [][Next]_vars

-----------------------------------------------------------------------------
(* Properties.                                                               *)

Results == {"none", "notScaled", "healthy", "timedOut", "error", "killed"}

(* The types, and that health checks pass only for running tasks. *)
TypeOK ==
  /\ desired \in {Desired, TfDesired}
  /\ current \in Nat /\ old \in Nat /\ pending \in Nat
  /\ rollout \in {"COMPLETED", "IN_PROGRESS"}
  /\ targets \in Nat /\ targets <= RunningCount
  /\ applies \in 0 .. Applies /\ crashes \in 0 .. Crashes
  /\ pc \in [Invocations -> {"idle", "update", "poll", "done"}]
  /\ turn \in [Invocations -> 0 .. Turns]
  /\ result \in [Invocations -> Results]

Asked == desired >= Desired \/ current + pending >= Desired

CallView ==
  [e \in Invocations |->
     CASE pc[e] = "idle" -> "idle"
       [] pc[e] = "done" -> IF result[e] = "healthy" THEN "healthy" ELSE "failed"
       [] OTHER          -> "running"]

Contract == INSTANCE RecoveryContract
  WITH Calls <- Invocations, asked <- Asked, full <- (current >= Desired),
       call <- CallView

(* A healthy service is reported only at a moment when the current          *)
(* deployment runs all DR tasks, never on the count of tasks a rolling      *)
(* deployment is about to stop; and failing calls only ever add an order.   *)
ImplementsContract == Contract!ContractSpec

=============================================================================
