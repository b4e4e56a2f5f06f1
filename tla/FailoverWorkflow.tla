-------------------------- MODULE FailoverWorkflow ---------------------------
(***************************************************************************)
(* stepfunctions/dr-failover-orchestrator.asl.json with the four Lambdas it *)
(* calls.  The two handlers that poll are represented by their contracts,   *)
(* which ReplicaFailover and ServiceRecovery implement; the two validators  *)
(* are single steps.  Executions may overlap.  The state machine has no     *)
(* Retry and no Catch: whatever a task raises fails its execution.          *)
(***************************************************************************)
CONSTANT
  Executions    \* executions of the state machine an operator starts

VARIABLES
  st,           \* the current state of each execution
  db,           \* the DR instance, see PromotionContract
  replicaCall,  \* the call of the replica-failover handler
  asked, full,  \* the DR service, see RecoveryContract
  ecsCall,      \* the call of the service-recovery handler
  written,      \* the executions whose test row is in the DR database
  served,       \* the DR load balancer has a healthy target
  secretValid,  \* the DR secret's password opens the DR database
  primaryUp,    \* the primary region answers requests
  calm          \* from here on no call is lost, no task dies, nobody deploys

dbVars == <<db, replicaCall>>
ecsVars == <<asked, full, ecsCall>>
worldVars == <<written, served, secretValid, primaryUp, calm>>
vars == <<st, dbVars, ecsVars, worldVars>>

Replica == INSTANCE PromotionContract WITH Calls <- Executions, call <- replicaCall
Ecs == INSTANCE RecoveryContract WITH Calls <- Executions, call <- ecsCall

Terminal == {"FailoverCompleted", "Failed"}
States == Terminal \cup
  {"NotStarted", "ReplicaFailoverHandler", "WaitForDBReadiness",
   "ValidateDBWritable", "ServiceRecoveryHandler", "ValidateApplication"}

-----------------------------------------------------------------------------
Init ==
  /\ st = [x \in Executions |-> "NotStarted"]
  /\ Replica!ContractInit /\ Ecs!ContractInit
  /\ written = {} /\ served = FALSE
  /\ secretValid \in BOOLEAN /\ primaryUp = TRUE /\ calm = FALSE

Go(x, s) == st' = [st EXCEPT ![x] = s]

(* The operator starts an execution; its first state calls the handler. *)
StartExecution(x) ==
  /\ st[x] = "NotStarted"
  /\ Go(x, "ReplicaFailoverHandler")
  /\ Replica!Accept(x)
  /\ UNCHANGED <<ecsVars, worldVars>>

(* DBAvailable?: an answer other than db_available = true fails, as does a  *)
(* handler that raises or is killed.                                        *)
AfterReplica(answer) == IF answer = "up" THEN "WaitForDBReadiness" ELSE "Failed"

ReplicaAnswered(x) ==
  /\ st[x] = "ReplicaFailoverHandler" /\ replicaCall[x] \in {"up", "failed"}
  /\ Go(x, AfterReplica(replicaCall[x]))
  /\ UNCHANGED <<dbVars, ecsVars, worldVars>>

WaitForDBReadiness(x) ==
  /\ st[x] = "WaitForDBReadiness"
  /\ Go(x, "ValidateDBWritable")
  /\ UNCHANGED <<dbVars, ecsVars, worldVars>>

(* Mutants: the Choice is missing; its default waits and tries again. *)
IgnoreWrite(ok) == "ServiceRecoveryHandler"
RetryWrite(ok) == IF ok THEN "ServiceRecoveryHandler" ELSE "WaitForDBReadiness"

(* DBWritable?, and the call of the next handler with it. *)
AfterWrite(ok) == IF ok THEN "ServiceRecoveryHandler" ELSE "Failed"

(* Mutant: the test table is created without IF NOT EXISTS. *)
WritableOnce == db = "promoted" /\ secretValid /\ written = {}

Writable == db = "promoted" /\ secretValid

(* validate-db-writable inserts a row and commits it; with a fault the row  *)
(* may be there although the answer is not.                                 *)
ValidateDBWritable(x) ==
  /\ st[x] = "ValidateDBWritable"
  /\ \E ok \in BOOLEAN :
       /\ ok => Writable
       /\ ~ok => ~calm \/ ~Writable
       /\ IF ok THEN written' = written \cup {x}
                ELSE written' \in {written} \cup
                       (IF Writable THEN {written \cup {x}} ELSE {})
       /\ Go(x, AfterWrite(ok))
       /\ IF AfterWrite(ok) = "ServiceRecoveryHandler"
            THEN Ecs!Accept(x)
            ELSE UNCHANGED ecsVars
  /\ UNCHANGED <<dbVars, served, secretValid, primaryUp, calm>>

(* Mutant: the Choice is missing. *)
IgnoreEcs(answer) == "ValidateApplication"

(* ECSHealthy? *)
AfterEcs(answer) == IF answer = "healthy" THEN "ValidateApplication" ELSE "Failed"

EcsAnswered(x) ==
  /\ st[x] = "ServiceRecoveryHandler" /\ ecsCall[x] \in {"healthy", "failed"}
  /\ Go(x, AfterEcs(ecsCall[x]))
  /\ UNCHANGED <<dbVars, ecsVars, worldVars>>

(* What a GET of the application's public name returns: CloudFront asks the *)
(* primary load balancer first and the DR one when that fails.              *)
DrAnswers == served
PageAnswers == primaryUp \/ DrAnswers

(* Mutant: the default names a state that nothing ends. *)
LeaveProbe(ok) == IF ok THEN "FailoverCompleted" ELSE "FailApplicationValidation"

(* ApplicationHealthy? *)
AfterProbe(ok) == IF ok THEN "FailoverCompleted" ELSE "Failed"

ValidateApplication(x) ==
  /\ st[x] = "ValidateApplication"
  /\ \E ok \in BOOLEAN :
       /\ ok => PageAnswers
       /\ ~ok => ~calm \/ ~PageAnswers
       /\ Go(x, AfterProbe(ok))
  /\ UNCHANGED <<dbVars, ecsVars, worldVars>>

-----------------------------------------------------------------------------
(* The handlers, as far as their contracts tell.  Calm or not, a promotion   *)
(* or a start of tasks may take longer than the handler's Lambda may run.    *)
ReplicaRuns(x) ==
  /\ \/ Replica!Promote(x) \/ Replica!Succeed(x)
     \/ (calm => db # "promoted") /\ Replica!Fail(x)
  /\ UNCHANGED <<st, ecsVars, worldVars>>

EcsRuns(x) ==
  /\ \/ Ecs!Scale(x) \/ Ecs!Succeed(x)
     \/ (calm => ~full) /\ Ecs!Fail(x)
  /\ UNCHANGED <<st, dbVars, worldVars>>

(* RDS; and the operator, who may promote by hand.                           *)
Rds ==
  /\ Replica!FinishPromotion \/ Replica!PromoteByHand
  /\ UNCHANGED <<st, ecsVars, worldVars>>

(* The DR tasks come and go; their targets pass the load balancer's health   *)
(* checks some time after they run.  The check fetches the start page, which *)
(* only a task with the right password can build.                            *)
Capacity ==
  /\ \/ Ecs!CapacityComes /\ UNCHANGED served
     \/ ~calm /\ Ecs!CapacityGoes /\ served' \in {served, FALSE}
  /\ UNCHANGED <<st, dbVars, written, secretValid, primaryUp, calm>>

TargetsPass ==
  /\ full /\ secretValid /\ served' = TRUE
  /\ UNCHANGED <<st, dbVars, ecsVars, written, secretValid, primaryUp, calm>>

TargetsFail ==
  /\ ~calm /\ served' = FALSE
  /\ UNCHANGED <<st, dbVars, ecsVars, written, secretValid, primaryUp, calm>>

(* A deployment rotates the password and copies it to the DR secret.  The   *)
(* replica receives it too, if the copy is not late or lost; the promoted    *)
(* database never does.  It takes a primary region to deploy to.             *)
Rotate ==
  /\ primaryUp /\ ~calm
  /\ secretValid' \in IF db = "promoted" THEN {secretValid, FALSE} ELSE BOOLEAN
  /\ UNCHANGED <<st, dbVars, ecsVars, written, served, primaryUp, calm>>

PrimaryFailsOrReturns ==
  /\ primaryUp' = ~primaryUp
  /\ UNCHANGED <<st, dbVars, ecsVars, written, served, secretValid, calm>>

CalmsDown ==
  /\ ~calm /\ calm' = TRUE
  /\ UNCHANGED <<st, dbVars, ecsVars, written, served, secretValid, primaryUp>>

-----------------------------------------------------------------------------
Asl(x) ==
  \/ ReplicaAnswered(x) \/ WaitForDBReadiness(x) \/ ValidateDBWritable(x)
  \/ EcsAnswered(x) \/ ValidateApplication(x)

World ==
  \/ Rds \/ Capacity \/ TargetsPass \/ TargetsFail
  \/ Rotate \/ PrimaryFailsOrReturns \/ CalmsDown

Next ==
  \/ \E x \in Executions :
       StartExecution(x) \/ Asl(x) \/ ReplicaRuns(x) \/ EcsRuns(x)
  \/ World

(* Step Functions takes a step it can take, and every handler call ends:     *)
(* ReplicaFailover shows why, Lambda's timeout.                              *)
Answers(x) == ReplicaRuns(x) /\ replicaCall'[x] # replicaCall[x]
EcsAnswers(x) == EcsRuns(x) /\ ecsCall'[x] # ecsCall[x]

Fairness ==
  \A x \in Executions :
    WF_vars(Asl(x)) /\ WF_vars(Answers(x)) /\ WF_vars(EcsAnswers(x))

Spec == Init /\ [][Next]_vars /\ Fairness

-----------------------------------------------------------------------------
(* Properties.                                                               *)

(* The types. *)
TypeOK ==
  /\ st \in [Executions -> States]
  /\ db \in {"replica", "promoting", "promoted"}
  /\ replicaCall \in [Executions -> Replica!CallStates]
  /\ ecsCall \in [Executions -> Ecs!CallStates]
  /\ asked \in BOOLEAN /\ full \in BOOLEAN /\ written \subseteq Executions
  /\ served \in BOOLEAN /\ secretValid \in BOOLEAN
  /\ primaryUp \in BOOLEAN /\ calm \in BOOLEAN

(* DR tasks are ordered, start and run only once a row was written to the   *)
(* promoted database, however executions overlap, fail or are repeated: the *)
(* application never starts on a read-only database.                        *)
NoTasksBeforeWrite == asked \/ full => written # {} /\ db = "promoted"

(* A completed execution has done all it stands for itself: it saw the      *)
(* promotion finished, wrote its own row, and its own call found the        *)
(* service healthy.  Nothing another execution did stands in for a step.    *)
CompletedDidEverything ==
  \A x \in Executions : st[x] = "FailoverCompleted" =>
    db = "promoted" /\ replicaCall[x] = "up" /\ x \in written
      /\ ecsCall[x] = "healthy"

(* Every execution ends, though the state machine sets no timeout. *)
EveryExecutionEnds ==
  \A x \in Executions : st[x] # "NotStarted" ~> st[x] \in Terminal

(* The workflow is repeatable: started over when the region is recovered    *)
(* already, whatever earlier executions and faults there were, it completes. *)
Recovered == db = "promoted" /\ full /\ DrAnswers /\ secretValid

RerunCompletes ==
  \A x \in Executions :
    (/\ calm /\ Recovered
     /\ st[x] = "ReplicaFailoverHandler" /\ replicaCall[x] = "running")
      ~> st[x] = "FailoverCompleted"

(* "Validate that the DR application endpoint responds successfully": when  *)
(* an execution completes, the DR application answers.                      *)
CompletedMeansDrAnswers ==
  [][\A x \in Executions :
       st[x] = "ValidateApplication" /\ st'[x] = "FailoverCompleted"
         => DrAnswers]_vars

=============================================================================
