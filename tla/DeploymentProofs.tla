--------------------------- MODULE DeploymentProofs ---------------------------
(* Theorems about Deployment for any number of overlapping or repeated runs  *)
(* and of failures. *)
EXTENDS Deployment, TLAPS

(* The stacks are those of the lists, and every stack is destroyed after     *)
(* those that read its outputs. *)
LEMMA Lengths ==
  /\ Len(FirstPart) = 14 /\ Len(SecondPart) = 4
  /\ Len(DeployOrder) = 18 /\ Len(DestroyOrder) = 15
  /\ DOMAIN DeployOrder = 1 .. 18 /\ DOMAIN DestroyOrder = 1 .. 15
BY DEF FirstPart, SecondPart, DeployOrder, DestroyOrder

Names == {"global/iam", "global/oac", "primary/network", "primary/rds",
          "dr/network", "primary/s3", "primary/alb", "dr/read_replica_rds",
          "dr/s3", "dr/alb", "global/cdn_dns", "primary/ecs", "dr/ecs",
          "operations/dr_orchestration", "primary/failover_alarms"}

LEMMA DeploySteps ==
  /\ \A p \in 1 .. 18 : DeployOrder[p] \in Stacks
  /\ \A p \in 1 .. 14 : DeployOrder[p] = FirstPart[p]
  /\ \A p \in 15 .. 18 : DeployOrder[p] = SecondPart[p - 14]
BY Lengths DEF Stacks, DeployOrder, FirstPart, SecondPart

LEMMA StackNames == Stacks = Names
<1>1. Stacks \subseteq Names
  BY Lengths, DeploySteps DEF Stacks, Names, FirstPart, SecondPart
<1>2. Names \subseteq Stacks
  <2>1. /\ FirstPart[1] = "global/iam" /\ FirstPart[2] = "global/oac"
        /\ FirstPart[3] = "primary/network" /\ FirstPart[4] = "primary/rds"
        /\ FirstPart[6] = "dr/network" /\ FirstPart[7] = "primary/s3"
        /\ FirstPart[8] = "primary/alb" /\ FirstPart[9] = "dr/read_replica_rds"
        /\ FirstPart[10] = "dr/s3" /\ FirstPart[11] = "dr/alb"
        /\ FirstPart[12] = "global/cdn_dns" /\ FirstPart[13] = "primary/ecs"
        /\ FirstPart[14] = "dr/ecs"
        /\ SecondPart[3] = "operations/dr_orchestration"
        /\ SecondPart[4] = "primary/failover_alarms"
    BY DEF FirstPart, SecondPart
  <2> QED BY <2>1, DeploySteps DEF Names
<1> QED BY <1>1, <1>2

LEMMA DestroySteps == \A p \in 1 .. 15 : DestroyOrder[p] \in Stacks
BY StackNames DEF DestroyOrder, Names

LEMMA ReadersGoFirst ==
  \A r \in Reads : \A p \in 1 .. 15 :
    DestroyOrder[p] = r[2] => \E q \in 1 .. (p - 1) : DestroyOrder[q] = r[1]
BY DEF Reads, DestroyOrder, ReadBy, PrimaryRds, PrimaryS3, PrimaryAlb, ReadReplica,
  DrS3, DrAlb, CdnDns, PrimaryEcs, DrEcs, DrOrchestration, FailoverAlarms

LEMMA ReadsStacks == \A r \in Reads : r[1] \in Stacks /\ r[2] \in Stacks
BY StackNames DEF Names, Reads, ReadBy, PrimaryRds, PrimaryS3, PrimaryAlb, ReadReplica,
  DrS3, DrAlb, CdnDns, PrimaryEcs, DrEcs, DrOrchestration, FailoverAlarms

-----------------------------------------------------------------------------
(* The inductive invariant.  While runs have not overlapped one job runs at   *)
(* most; what it read of its stack is still so, with the inputs it found; and *)
(* a destruction has emptied the stacks it has passed, among them every      *)
(* reader of the stack it is at.                                            *)
Closed == \A r \in Reads : state[r[1]] # "empty" => state[r[2]] = "whole"
OneRuns == \A j, k \in Jobs : Running(j) /\ Running(k) => j = k
ReadIsTrue ==
  \A j \in Jobs : Running(j) /\ job[j].seen # "unread" =>
    /\ job[j].seen = state[Target(j)]
    /\ HasInputs(j)
PassedAreEmpty ==
  \A j \in Jobs : job[j].kind = "destroy" =>
    \A p \in 1 .. (job[j].at - 1) : state[DestroyOrder[p]] = "empty"
IInv == overlapped \/ (Closed /\ OneRuns /\ ReadIsTrue /\ PassedAreEmpty)

-----------------------------------------------------------------------------
(* Type correctness, with a record of a job apart from the rest. *)
JobRecords == [kind : Kinds, at : 0 .. 18, seen : Recorded \cup {"unread"}]
Placed(r) == /\ r.kind = "deploy" => r.at \in 1 .. 18
             /\ r.kind = "destroy" => r.at \in 1 .. 15
JobsOK == /\ job \in [Jobs -> JobRecords]
          /\ \A j \in Jobs : Placed(job[j])
StacksOK ==
  /\ state \in [Stacks -> Recorded]
  /\ lost \subseteq Stacks /\ current \subseteq Stacks /\ policy \subseteq Buckets
CountsOK == starts \in 0 .. Starts /\ troubles \in 0 .. Troubles
RestOK == StacksOK /\ CountsOK /\ overlapped \in BOOLEAN

LEMMA TypeParts == TypeOK <=> JobsOK /\ RestOK
BY Lengths DEF TypeOK, JobsOK, RestOK, StacksOK, CountsOK, JobRecords, Placed, Running, Order

(* The stack a running job is at, and its readers. *)
LEMMA TargetIsStack == JobsOK => \A j \in Jobs : Running(j) => Target(j) \in Stacks
BY DeploySteps, DestroySteps DEF JobsOK, Placed, Running, Target, Order

LEMMA NewJobRecord ==
  ASSUME JobsOK, NEW j \in Jobs, NEW r \in JobRecords, Placed(r),
         job' = [job EXCEPT ![j] = r]
  PROVE  JobsOK'
BY DEF JobsOK

LEMMA AbortedRecord ==
  ASSUME JobsOK, NEW j \in Jobs, Abort(j)
  PROVE  JobsOK'
<1> DEFINE r == Ended("aborted")
<1>1. r \in JobRecords /\ Placed(r)
  BY DEF Ended, At, JobRecords, Placed, Kinds, Recorded
<1> QED BY <1>1, NewJobRecord DEF Abort

LEMMA DoneRecord ==
  ASSUME JobsOK, NEW j \in Jobs, Running(j), Done(j)
  PROVE  JobsOK'
<1>1. job[j] \in JobRecords /\ Placed(job[j])
  BY DEF JobsOK
<1>2. CASE job[j].at = Len(Order(job[j].kind))
  <2> DEFINE r == Ended(IF job[j].kind = "deploy" THEN "deployed" ELSE "destroyed")
  <2>1. r \in JobRecords /\ Placed(r)
    BY DEF Ended, At, JobRecords, Placed, Kinds, Recorded
  <2> QED BY <1>2, <2>1, NewJobRecord DEF Done
<1>3. CASE job[j].at # Len(Order(job[j].kind))
  <2> DEFINE r == At(job[j].kind, job[j].at + 1)
  <2>1. CASE job[j].kind = "deploy"
    <3>1. job[j].at \in 1 .. 18 /\ job[j].at # 18
      BY <1>1, <1>3, <2>1, Lengths DEF Order, Placed
    <3>2. r \in JobRecords /\ Placed(r)
      BY <2>1, <3>1 DEF At, JobRecords, Placed, Kinds
    <3> QED BY <1>3, <3>2, NewJobRecord DEF Done
  <2>2. CASE job[j].kind = "destroy"
    <3>1. job[j].at \in 1 .. 15 /\ job[j].at # 15
      BY <1>1, <1>3, <2>2, Lengths DEF Order, Placed
    <3>2. r \in JobRecords /\ Placed(r)
      BY <2>2, <3>1 DEF At, JobRecords, Placed, Kinds
    <3> QED BY <1>3, <3>2, NewJobRecord DEF Done
  <2> QED BY <2>1, <2>2 DEF Running
<1> QED BY <1>2, <1>3

LEMMA TypeInit == Init => TypeOK
<1> SUFFICES ASSUME Init PROVE JobsOK /\ RestOK
  BY TypeParts
<1>1. JobsOK
  BY DEF Init, JobsOK, JobRecords, Placed, Ended, At, Kinds, Recorded
<1>2. RestOK
  <2>1. StacksOK /\ CountsOK
    BY DeploymentAssumption DEF Init, StacksOK, CountsOK, Recorded
  <2>2. overlapped \in BOOLEAN
    BY Zenon DEF Init
  <2> QED BY <2>1, <2>2 DEF RestOK
<1> QED BY <1>1, <1>2

LEMMA TypeStep == TypeOK /\ [Next]_vars => TypeOK'
<1> SUFFICES ASSUME JobsOK, RestOK, [Next]_vars PROVE JobsOK' /\ RestOK'
  BY TypeParts, PTL
<1>1. CASE UNCHANGED vars
  BY <1>1 DEF JobsOK, RestOK, StacksOK, CountsOK, vars, stackVars
<1>2. ASSUME NEW j \in Jobs, NEW kind \in {"deploy", "destroy"}, Start(j, kind)
      PROVE  JobsOK' /\ RestOK'
  <2> DEFINE r == At(kind, 1)
  <2>1. r \in JobRecords /\ Placed(r)
    BY DEF At, JobRecords, Placed, Kinds, Recorded
  <2>2. JobsOK'
    BY <1>2, <2>1, NewJobRecord DEF Start
  <2>3. RestOK'
    <3>1. StacksOK' /\ CountsOK'
      BY <1>2, DeploymentAssumption DEF Start, RestOK, StacksOK, CountsOK, stackVars
    <3>2. overlapped' \in BOOLEAN
      BY <1>2, Zenon DEF Start, RestOK
    <3> QED BY <3>1, <3>2 DEF RestOK
  <2> QED BY <2>2, <2>3
<1>3. ASSUME NEW j \in Jobs, Plan(j) PROVE JobsOK' /\ RestOK'
  <2>1. RestOK'
    BY <1>3 DEF Plan, RestOK, StacksOK, CountsOK, stackVars
  <2>2. CASE HasInputs(j)
    <3> DEFINE r == [kind |-> job[j].kind, at |-> job[j].at, seen |-> state[Target(j)]]
    <3>1. state[Target(j)] \in Recorded
      BY <1>3, TargetIsStack DEF Plan, RestOK, StacksOK
    <3>2. r \in JobRecords /\ Placed(r)
      BY <3>1 DEF JobsOK, JobRecords, Placed
    <3>3. job' = [job EXCEPT ![j] = r]
      BY <1>3, <2>2 DEF Plan, JobsOK, JobRecords
    <3> QED BY <2>1, <3>2, <3>3, NewJobRecord
  <2>3. CASE ~HasInputs(j)
    BY <1>3, <2>1, <2>3, AbortedRecord DEF Plan
  <2> QED BY <2>2, <2>3
<1>4. ASSUME NEW j \in Jobs, Apply(j) PROVE JobsOK' /\ RestOK'
  <2>1. Running(j) /\ Target(j) \in Stacks
    BY <1>4, TargetIsStack DEF Apply, Acting, Running
  <2>2. JobsOK'
    BY <1>4, <2>1, DoneRecord DEF Apply
  <2>3. RestOK'
    <3>1. StacksOK'
      BY <1>4, <2>1 DEF Apply, RestOK, StacksOK, Record, Recorded
    <3>2. CountsOK'
      BY <1>4, DeploymentAssumption DEF Apply, RestOK, CountsOK
    <3>3. overlapped' \in BOOLEAN
      BY <1>4 DEF Apply, RestOK
    <3> QED BY <3>1, <3>2, <3>3 DEF RestOK
  <2> QED BY <2>2, <2>3
<1>5. ASSUME NEW j \in Jobs, Destroy(j) PROVE JobsOK' /\ RestOK'
  <2>1. Running(j) /\ Target(j) \in Stacks
    BY <1>5, TargetIsStack DEF Destroy, Acting, Running
  <2>2. JobsOK'
    BY <1>5, <2>1, DoneRecord DEF Destroy
  <2>3. RestOK'
    <3>1. StacksOK'
      BY <1>5, <2>1 DEF Destroy, RestOK, StacksOK, Record, Recorded
    <3>2. CountsOK'
      BY <1>5, DeploymentAssumption DEF Destroy, RestOK, CountsOK
    <3>3. overlapped' \in BOOLEAN
      BY <1>5 DEF Destroy, RestOK
    <3> QED BY <3>1, <3>2, <3>3 DEF RestOK
  <2> QED BY <2>2, <2>3
<1>6. ASSUME NEW j \in Jobs, Fails(j) PROVE JobsOK' /\ RestOK'
  <2>1. Running(j) /\ Target(j) \in Stacks
    BY <1>6, TargetIsStack DEF Fails
  <2>2. JobsOK'
    BY <1>6, AbortedRecord DEF Fails
  <2>3. PICK new \in {job[j].seen} \cup (IF job[j].seen = Goal(j) THEN {} ELSE {"broken"}) :
          Record(j, new, new # job[j].seen)
    BY <1>6 DEF Fails
  <2>4. state' \in [Stacks -> Recorded] /\ lost' \subseteq Stacks
    BY <2>1, <2>3 DEF Record, RestOK, StacksOK, Recorded
  <2>5. RestOK'
    <3>1. StacksOK'
      BY <1>6, <2>4 DEF Fails, RestOK, StacksOK, Spoil
    <3>2. CountsOK'
      BY <1>6, DeploymentAssumption DEF Fails, RestOK, CountsOK
    <3>3. overlapped' \in BOOLEAN
      BY <1>6 DEF Fails, RestOK
    <3> QED BY <3>1, <3>2, <3>3 DEF RestOK
  <2> QED BY <2>2, <2>5
<1>7. ASSUME NEW j \in Jobs, Dies(j) PROVE JobsOK' /\ RestOK'
  <2>1. Running(j) /\ Target(j) \in Stacks
    BY <1>7, TargetIsStack DEF Dies
  <2>2. JobsOK'
    BY <1>7, AbortedRecord DEF Dies
  <2>3. RestOK'
    <3>1. StacksOK'
      BY <1>7, <2>1 DEF Dies, RestOK, StacksOK, Spoil
    <3>2. CountsOK'
      BY <1>7, DeploymentAssumption DEF Dies, RestOK, CountsOK
    <3>3. overlapped' \in BOOLEAN
      BY <1>7 DEF Dies, RestOK
    <3> QED BY <3>1, <3>2, <3>3 DEF RestOK
  <2> QED BY <2>2, <2>3
<1>8. ASSUME NEW j \in Jobs, BetweenFails(j) PROVE JobsOK' /\ RestOK'
  <2>1. JobsOK'
    BY <1>8, AbortedRecord DEF BetweenFails
  <2>2. RestOK'
    <3>1. StacksOK'
      BY <1>8, <2>1 DEF BetweenFails, RestOK, StacksOK, stackVars
    <3>2. CountsOK'
      BY <1>8, DeploymentAssumption DEF BetweenFails, RestOK, CountsOK
    <3>3. overlapped' \in BOOLEAN
      BY <1>8 DEF BetweenFails, RestOK
    <3> QED BY <3>1, <3>2, <3>3 DEF RestOK
  <2> QED BY <2>1, <2>2
<1> QED BY <1>1, <1>2, <1>3, <1>4, <1>5, <1>6, <1>7, <1>8 DEF Next, Work

(* Every record of state and jobs has its type, for any number of jobs.      *)
THEOREM TypeCorrect == Spec => []TypeOK
BY TypeInit, TypeStep, PTL DEF Spec

-----------------------------------------------------------------------------
(* The step: the job that moves is the only one that runs. *)
LEMMA InputsAreRead == \A r \in Reads : r[2] \in InputsOf(r[1])
BY DEF InputsOf

LEMMA OthersIdle ==
  ASSUME JobsOK, OneRuns, NEW j \in Jobs, Running(j), NEW r,
         job' = [job EXCEPT ![j] = r]
  PROVE  /\ job'[j] = r
         /\ \A k \in Jobs : k # j => job'[k] = job[k] /\ ~Running(k)
         /\ OneRuns'
BY DEF JobsOK, OneRuns, Running

(* A job that has just begun its step, or ended, has read nothing. *)
LEMMA MovedOn ==
  ASSUME JobsOK, OneRuns, NEW j \in Jobs, Running(j), NEW kind, NEW p,
         job' = [job EXCEPT ![j] = At(kind, p)]
  PROVE  OneRuns' /\ ReadIsTrue'
<1>1. OneRuns' /\ job'[j] = At(kind, p)
  BY OthersIdle
<1>2. job'[j].seen = "unread"
  BY <1>1 DEF At
<1>3. \A k \in Jobs : k # j => ~Running(k)'
  BY OthersIdle DEF Running
<1> QED BY <1>1, <1>2, <1>3 DEF ReadIsTrue

(* Nothing is passed when no destruction goes on. *)
LEMMA NoDestruction ==
  ASSUME JobsOK, OneRuns, NEW j \in Jobs, Running(j), NEW r, r.kind # "destroy",
         job' = [job EXCEPT ![j] = r]
  PROVE  PassedAreEmpty'
<1>1. job'[j].kind # "destroy"
  BY OthersIdle
<1>2. \A k \in Jobs : k # j => job'[k].kind # "destroy"
  BY OthersIdle DEF Running
<1> QED BY <1>1, <1>2 DEF PassedAreEmpty

(* The readers of a stack are gone when its destruction begins. *)
LEMMA ReadersGone ==
  ASSUME JobsOK, PassedAreEmpty, NEW j \in Jobs, job[j].kind = "destroy",
         NEW r \in Reads, r[2] = Target(j)
  PROVE  state[r[1]] = "empty"
<1>1. job[j].at \in 1 .. 15 /\ Target(j) = DestroyOrder[job[j].at]
  BY DEF JobsOK, Placed, Target, Order
<1>2. PICK q \in 1 .. (job[j].at - 1) : DestroyOrder[q] = r[1]
  BY <1>1, ReadersGoFirst
<1> QED BY <1>2 DEF PassedAreEmpty

LEMMA ApplyStep ==
  ASSUME JobsOK, RestOK, Closed, OneRuns, ReadIsTrue, NEW j \in Jobs, Apply(j)
  PROVE  Closed' /\ OneRuns' /\ ReadIsTrue' /\ PassedAreEmpty'
<1>1. /\ job[j].kind = "deploy" /\ Running(j) /\ Target(j) \in Stacks
      /\ job[j].seen = state[Target(j)] /\ HasInputs(j)
  BY TargetIsStack DEF Apply, Acting, Running, ReadIsTrue
<1>2. state' = [state EXCEPT ![Target(j)] = "whole"]
  BY <1>1 DEF Apply, Record, RestOK, StacksOK
<1>3. Closed'
  <2> SUFFICES ASSUME NEW r \in Reads, state'[r[1]] # "empty"
               PROVE  state'[r[2]] = "whole"
    BY DEF Closed
  <2>1. r[1] \in Stacks /\ r[2] \in Stacks /\ r[2] \in InputsOf(r[1])
    BY ReadsStacks, InputsAreRead
  <2>2. state[r[2]] = "whole"
    <3>1. CASE r[1] = Target(j)
      BY <1>1, <2>1, <3>1 DEF HasInputs, Needs
    <3>2. CASE r[1] # Target(j)
      BY <1>2, <2>1, <3>2 DEF RestOK, StacksOK, Closed
    <3> QED BY <3>1, <3>2
  <2> QED BY <1>2, <2>1, <2>2 DEF RestOK, StacksOK
<1>4. PICK p : job' = [job EXCEPT ![j] = At("deployed", p)]
              \/ job' = [job EXCEPT ![j] = At("deploy", p)]
  BY <1>1 DEF Apply, Done, Ended
<1>5. OneRuns' /\ ReadIsTrue'
  BY <1>1, <1>4, MovedOn
<1>6. PassedAreEmpty'
  BY <1>1, <1>4, NoDestruction DEF At
<1> QED BY <1>3, <1>5, <1>6

LEMMA DestroyStep ==
  ASSUME JobsOK, RestOK, Closed, OneRuns, ReadIsTrue, PassedAreEmpty,
         NEW j \in Jobs, Destroy(j)
  PROVE  Closed' /\ OneRuns' /\ ReadIsTrue' /\ PassedAreEmpty'
<1>1. /\ job[j].kind = "destroy" /\ Running(j) /\ Target(j) \in Stacks
      /\ job[j].seen = state[Target(j)]
  BY TargetIsStack DEF Destroy, Acting, Running, ReadIsTrue
<1>2. state' = [state EXCEPT ![Target(j)] = "empty"]
  BY <1>1 DEF Destroy, Record, RestOK, StacksOK
<1>3. Closed'
  <2> SUFFICES ASSUME NEW r \in Reads, state'[r[1]] # "empty"
               PROVE  state'[r[2]] = "whole"
    BY DEF Closed
  <2>1. r[1] \in Stacks /\ r[2] \in Stacks
    BY ReadsStacks
  <2>2. state[r[1]] # "empty"
    BY <1>2, <2>1 DEF RestOK, StacksOK
  <2>3. r[2] # Target(j)
    BY <1>1, <2>2, ReadersGone
  <2> QED BY <1>2, <2>1, <2>2, <2>3 DEF RestOK, StacksOK, Closed
<1>4. job[j].at \in 1 .. 15 /\ Target(j) = DestroyOrder[job[j].at]
  BY <1>1 DEF JobsOK, Placed, Target, Order
<1>5. CASE job' = [job EXCEPT ![j] = At("destroy", job[j].at + 1)]
  <2>1. OneRuns' /\ ReadIsTrue'
    BY <1>1, <1>5, MovedOn
  <2>2. \A p \in 1 .. job[j].at : state'[DestroyOrder[p]] = "empty"
    BY <1>1, <1>2, <1>4, DestroySteps DEF PassedAreEmpty, RestOK, StacksOK
  <2>3. /\ job'[j] = At("destroy", job[j].at + 1)
        /\ \A k \in Jobs : k # j => job'[k].kind # "destroy"
    BY <1>1, <1>5, OthersIdle DEF Running
  <2>4. PassedAreEmpty'
    BY <1>4, <2>2, <2>3 DEF PassedAreEmpty, At
  <2> QED BY <1>3, <2>1, <2>4
<1>6. CASE job' = [job EXCEPT ![j] = At("destroyed", 0)]
  BY <1>1, <1>3, <1>6, MovedOn, NoDestruction DEF At
<1> QED BY <1>1, <1>5, <1>6 DEF Destroy, Done, Ended

LEMMA FailsStep ==
  ASSUME JobsOK, RestOK, Closed, OneRuns, ReadIsTrue, PassedAreEmpty,
         NEW j \in Jobs, Fails(j)
  PROVE  Closed' /\ OneRuns' /\ ReadIsTrue' /\ PassedAreEmpty'
<1>1. /\ Running(j) /\ Target(j) \in Stacks
      /\ job[j].seen = state[Target(j)] /\ HasInputs(j)
  BY TargetIsStack DEF Fails, ReadIsTrue
<1>2. OneRuns' /\ ReadIsTrue' /\ PassedAreEmpty'
  BY <1>1, MovedOn, NoDestruction DEF Fails, Abort, Ended, At
<1>3. CASE state' = state
  BY <1>2, <1>3 DEF Closed
<1>4. CASE /\ state' = [state EXCEPT ![Target(j)] = "broken"]
           /\ state[Target(j)] # Goal(j)
  <2> SUFFICES ASSUME NEW r \in Reads, state'[r[1]] # "empty"
               PROVE  state'[r[2]] = "whole"
    BY <1>2 DEF Closed
  <2>1. r[1] \in Stacks /\ r[2] \in Stacks /\ r[2] \in InputsOf(r[1])
    BY ReadsStacks, InputsAreRead
  <2>2. state[r[1]] # "empty" => state[r[2]] = "whole"
    BY DEF Closed
  <2>3. CASE job[j].kind = "deploy"
    <3>1. state[r[2]] = "whole"
      BY <1>1, <1>4, <2>1, <2>2, <2>3 DEF RestOK, StacksOK, HasInputs, Needs
    <3>2. r[2] # Target(j)
      BY <1>4, <2>3, <3>1 DEF Goal
    <3> QED BY <1>4, <2>1, <3>1, <3>2 DEF RestOK, StacksOK
  <2>4. CASE job[j].kind = "destroy"
    <3>1. state[r[1]] # "empty"
      BY <1>4, <2>1, <2>4 DEF RestOK, StacksOK, Goal
    <3>2. r[2] # Target(j)
      BY <2>4, <3>1, ReadersGone
    <3> QED BY <1>4, <2>1, <2>2, <3>1, <3>2 DEF RestOK, StacksOK
  <2> QED BY <1>1, <2>3, <2>4 DEF Running
<1> QED BY <1>1, <1>3, <1>4 DEF Fails, Record

LEMMA InvInit == Init => IInv
<1> SUFFICES ASSUME Init PROVE Closed /\ OneRuns /\ ReadIsTrue /\ PassedAreEmpty
  BY DEF IInv
<1>1. Closed
  BY ReadsStacks DEF Init, Closed
<1>2. \A j \in Jobs : job[j].kind = "idle"
  BY DEF Init, Ended, At
<1> QED BY <1>1, <1>2 DEF OneRuns, ReadIsTrue, PassedAreEmpty, Running

LEMMA InvStep == TypeOK /\ IInv /\ [Next]_vars => IInv'
<1> SUFFICES ASSUME JobsOK, RestOK, IInv, [Next]_vars, ~overlapped'
             PROVE  Closed' /\ OneRuns' /\ ReadIsTrue' /\ PassedAreEmpty'
  BY TypeParts DEF IInv
<1>0. Closed /\ OneRuns /\ ReadIsTrue /\ PassedAreEmpty
  <2>1. ~overlapped
    BY DEF Next, Work, Start, Plan, Apply, Destroy, Fails, Dies, BetweenFails, vars
  <2> QED BY <2>1 DEF IInv
<1>1. CASE UNCHANGED vars
  BY <1>0, <1>1 DEF vars, Closed, OneRuns, ReadIsTrue, PassedAreEmpty, Running,
    Target, HasInputs, Needs
<1>2. ASSUME NEW j \in Jobs, NEW kind \in {"deploy", "destroy"}, Start(j, kind)
      PROVE  Closed' /\ OneRuns' /\ ReadIsTrue' /\ PassedAreEmpty'
  <2>1. Closed'
    BY <1>0, <1>2 DEF Start, stackVars, Closed
  <2>2. \A k \in Jobs : k # j => job'[k] = job[k] /\ ~Running(k)
    BY <1>2 DEF Start, JobsOK
  <2>3. job'[j] = At(kind, 1)
    BY <1>2 DEF Start, JobsOK
  <2>4. \A k \in Jobs : k # j => ~Running(k)' /\ job'[k].kind # "destroy"
    BY <2>2 DEF Running
  <2>5. OneRuns'
    BY <2>4 DEF OneRuns
  <2>6. ReadIsTrue' /\ PassedAreEmpty'
    BY <2>3, <2>4 DEF ReadIsTrue, PassedAreEmpty, At
  <2> QED BY <2>1, <2>5, <2>6
<1>3. ASSUME NEW j \in Jobs, Plan(j)
      PROVE  Closed' /\ OneRuns' /\ ReadIsTrue' /\ PassedAreEmpty'
  <2>1. Closed'
    BY <1>0, <1>3 DEF Plan, stackVars, Closed
  <2>2. Running(j)
    BY <1>3 DEF Plan
  <2>3. CASE HasInputs(j)
    <3> DEFINE r == [kind |-> job[j].kind, at |-> job[j].at, seen |-> state[Target(j)]]
    <3>1. job' = [job EXCEPT ![j] = r]
      BY <1>3, <2>3 DEF Plan, JobsOK, JobRecords
    <3>2. /\ job'[j] = r /\ OneRuns'
          /\ \A k \in Jobs : k # j => job'[k] = job[k] /\ ~Running(k)
      BY <1>0, <2>2, <3>1, OthersIdle
    <3>3. \A k \in Jobs : k # j => ~Running(k)' /\ job'[k].kind # "destroy"
      BY <3>2 DEF Running
    <3>4. state' = state /\ Target(j)' = Target(j) /\ HasInputs(j)'
      BY <1>3, <2>3, <3>2 DEF Plan, stackVars, Target, HasInputs, Needs
    <3>5. ReadIsTrue'
      BY <3>2, <3>3, <3>4 DEF ReadIsTrue
    <3>6. PassedAreEmpty'
      BY <1>0, <3>2, <3>3, <3>4 DEF PassedAreEmpty
    <3> QED BY <2>1, <3>2, <3>5, <3>6
  <2>4. CASE ~HasInputs(j)
    BY <1>0, <1>3, <2>1, <2>2, <2>4, MovedOn, NoDestruction DEF Plan, Abort, Ended, At
  <2> QED BY <2>3, <2>4
<1>4. ASSUME NEW j \in Jobs, Dies(j) \/ BetweenFails(j)
      PROVE  Closed' /\ OneRuns' /\ ReadIsTrue' /\ PassedAreEmpty'
  <2>1. state' = state /\ Running(j) /\ Abort(j)
    BY <1>4 DEF Dies, BetweenFails, stackVars
  <2>2. Closed'
    BY <1>0, <2>1 DEF Closed
  <2> QED BY <1>0, <2>1, <2>2, MovedOn, NoDestruction DEF Abort, Ended, At
<1> QED
  BY <1>0, <1>1, <1>2, <1>3, <1>4, ApplyStep, DestroyStep, FailsStep DEF Next, Work

(* Whatever sequence of deployments and destructions failed wherever, as     *)
(* long as none overlapped every stack that records resources finds its      *)
(* inputs. *)
THEOREM InputsStayAtHand == Spec => []InputsAtHand
<1>1. IInv => InputsAtHand
  BY DEF IInv, Closed, InputsAtHand
<1> QED BY <1>1, TypeInit, TypeStep, InvInit, InvStep, PTL DEF Spec

LEMMA DestroyOrderCovers == \A s \in Stacks : \E p \in 1 .. 15 : DestroyOrder[p] = s
<1>1. /\ DestroyOrder[1] = "primary/failover_alarms"
      /\ DestroyOrder[2] = "operations/dr_orchestration"
      /\ DestroyOrder[3] = "dr/ecs" /\ DestroyOrder[4] = "primary/ecs"
      /\ DestroyOrder[5] = "global/cdn_dns" /\ DestroyOrder[6] = "dr/alb"
      /\ DestroyOrder[7] = "dr/s3" /\ DestroyOrder[8] = "dr/read_replica_rds"
      /\ DestroyOrder[9] = "primary/alb" /\ DestroyOrder[10] = "primary/s3"
      /\ DestroyOrder[11] = "dr/network" /\ DestroyOrder[12] = "primary/rds"
      /\ DestroyOrder[13] = "primary/network" /\ DestroyOrder[14] = "global/oac"
      /\ DestroyOrder[15] = "global/iam"
  BY DEF DestroyOrder
<1> QED BY <1>1, StackNames DEF Names

LEMMA DestroyEndsEmpty ==
  TypeOK /\ IInv /\ [Next]_vars =>
    [\A j \in Jobs :
       job[j].kind = "destroy" /\ job'[j].kind = "destroyed" /\ ~overlapped
       => \A s \in Stacks : state'[s] = "empty"]_vars
<1> SUFFICES ASSUME JobsOK, RestOK, IInv, [Next]_vars, NEW j \in Jobs,
                    job[j].kind = "destroy", job'[j].kind = "destroyed", ~overlapped
             PROVE  \A s \in Stacks : state'[s] = "empty"
  BY TypeParts
<1>0. OneRuns /\ ReadIsTrue /\ PassedAreEmpty /\ Running(j)
  BY DEF IInv, Running
<1>1. ASSUME NEW k \in Jobs, NEW kind \in {"deploy", "destroy"}, Start(k, kind)
      PROVE  FALSE
  BY <1>0, <1>1 DEF Start, At, JobsOK
<1>2. ASSUME NEW k \in Jobs, NEW r, job' = [job EXCEPT ![k] = r], r.kind # "destroyed"
      PROVE  FALSE
  BY <1>2 DEF JobsOK
<1>3. ASSUME NEW k \in Jobs, Abort(k) PROVE FALSE
  BY <1>2, <1>3 DEF Abort, Ended, At
<1>4. ASSUME NEW k \in Jobs, Plan(k) PROVE FALSE
  <2> DEFINE r == [kind |-> job[k].kind, at |-> job[k].at, seen |-> state[Target(k)]]
  <2>1. CASE HasInputs(k)
    <3>1. job' = [job EXCEPT ![k] = r] /\ r.kind # "destroyed"
      BY <1>4, <2>1 DEF Plan, JobsOK, JobRecords, Running
    <3> QED BY <1>2, <3>1
  <2> QED BY <1>3, <1>4, <2>1 DEF Plan
<1>5. ASSUME NEW k \in Jobs, Apply(k) PROVE FALSE
  <2>1. PICK r : job' = [job EXCEPT ![k] = r] /\ r.kind # "destroyed"
    BY <1>5 DEF Apply, Done, Ended, At, Acting
  <2> QED BY <1>2, <2>1
<1>6. ASSUME NEW k \in Jobs, Destroy(k) PROVE \A s \in Stacks : state'[s] = "empty"
  <2>1. k = j
    BY <1>0, <1>6 DEF Destroy, Acting, OneRuns, Running
  <2>2. job[j].at \in 1 .. 15 /\ Target(j) = DestroyOrder[job[j].at] /\ Target(j) \in Stacks
    BY <1>0, TargetIsStack DEF JobsOK, Placed, Target, Order
  <2>3. job[j].at = 15
    BY <1>6, <2>1, Lengths DEF Destroy, Done, Order, At, JobsOK
  <2>4. state' = [state EXCEPT ![Target(j)] = "empty"]
    BY <1>0, <1>6, <2>1, <2>2 DEF Destroy, Acting, Record, ReadIsTrue, RestOK, StacksOK
  <2>5. \A p \in 1 .. 14 : state[DestroyOrder[p]] = "empty"
    BY <1>0, <2>3 DEF PassedAreEmpty
  <2>6. \A p \in 1 .. 15 : state'[DestroyOrder[p]] = "empty"
    BY <2>2, <2>3, <2>4, <2>5, DestroySteps DEF RestOK, StacksOK
  <2> QED BY <2>6, DestroyOrderCovers
<1>7. ~UNCHANGED vars
  BY DEF vars
<1> QED
  BY <1>1, <1>3, <1>4, <1>5, <1>6, <1>7 DEF Next, Work, Fails, Dies, BetweenFails

(* A destruction that completes leaves no stack with a record, whatever       *)
(* failed before it, as long as runs did not overlap. *)
THEOREM DestroyIsThorough == Spec => CompletedDestroyLeavesOnlyLost
BY TypeInit, TypeStep, InvInit, InvStep, DestroyEndsEmpty, PTL
   DEF Spec, CompletedDestroyLeavesOnlyLost

-----------------------------------------------------------------------------
(* A deployment that goes on has built the stacks it has passed from inputs   *)
(* that have not changed since: at its first visit of a stack it has not yet  *)
(* passed a reader, and a later visit finds the stack whole and changes       *)
(* nothing.  In its second part it has given the buckets their policies.      *)
PassedAreBuilt ==
  \A j \in Jobs : job[j].kind = "deploy" =>
    \A p \in 1 .. (job[j].at - 1) :
      /\ state[DeployOrder[p]] = "whole" /\ DeployOrder[p] \in current
      /\ p > 14 /\ DeployOrder[p] \in Buckets => DeployOrder[p] \in policy
DInv == overlapped \/ PassedAreBuilt

LEMMA DeployOrderIs ==
  /\ DeployOrder[1] = "global/iam" /\ DeployOrder[2] = "global/oac"
  /\ DeployOrder[3] = "primary/network" /\ DeployOrder[4] = "primary/rds"
  /\ DeployOrder[5] = "primary/rds" /\ DeployOrder[6] = "dr/network"
  /\ DeployOrder[7] = "primary/s3" /\ DeployOrder[8] = "primary/alb"
  /\ DeployOrder[9] = "dr/read_replica_rds" /\ DeployOrder[10] = "dr/s3"
  /\ DeployOrder[11] = "dr/alb" /\ DeployOrder[12] = "global/cdn_dns"
  /\ DeployOrder[13] = "primary/ecs" /\ DeployOrder[14] = "dr/ecs"
  /\ DeployOrder[15] = "primary/s3" /\ DeployOrder[16] = "dr/s3"
  /\ DeployOrder[17] = "operations/dr_orchestration"
  /\ DeployOrder[18] = "primary/failover_alarms"
BY DeploySteps DEF FirstPart, SecondPart

LEMMA DeployOrderCovers == \A s \in Stacks : \E p \in 1 .. 18 : DeployOrder[p] = s
BY Lengths DEF Stacks

LEMMA FirstVisits ==
  \A p \in 1 .. 18 : FirstVisit(p) => p \notin {5, 15, 16}
BY DeployOrderIs DEF FirstVisit

(* No stack is visited for the first time after one that reads it. *)
LEMMA ReadersComeLater ==
  \A r \in Reads : \A p \in 1 .. 18 : \A q \in 1 .. (p - 1) :
    FirstVisit(p) /\ DeployOrder[p] = r[2] => DeployOrder[q] # r[1]
<1>1. SUFFICES ASSUME NEW p \in (1 .. 18) \ {5, 15, 16}, NEW q \in 1 .. (p - 1),
                      NEW r \in Reads, DeployOrder[p] = r[2], DeployOrder[q] = r[1]
               PROVE  FALSE
  BY FirstVisits
<1> QED
  BY <1>1, DeployOrderIs DEF Reads, ReadBy, PrimaryRds, PrimaryS3, PrimaryAlb,
     ReadReplica, DrS3, DrAlb, CdnDns, PrimaryEcs, DrEcs, DrOrchestration, FailoverAlarms

LEMMA NoneReadsItself == \A r \in Reads : r[1] # r[2]
BY DEF Reads, ReadBy, PrimaryRds, PrimaryS3, PrimaryAlb, ReadReplica,
  DrS3, DrAlb, CdnDns, PrimaryEcs, DrEcs, DrOrchestration, FailoverAlarms

LEMMA SecondVisits ==
  \A p \in 1 .. 18 : ~FirstVisit(p) => \E q \in 1 .. (p - 1) : DeployOrder[q] = DeployOrder[p]
BY DEF FirstVisit

(* The only stacks of the second part that take policies away are not built   *)
(* for the first time there. *)
LEMMA PoliciesStay ==
  \A p \in 15 .. 18 : FirstVisit(p) => Policies(DeployOrder[p]) = {}
<1>1. SUFFICES ASSUME NEW p \in {17, 18} PROVE Policies(DeployOrder[p]) = {}
  BY FirstVisits
<1> QED BY <1>1, DeployOrderIs DEF Policies, ArnSources, Buckets

LEMMA NoDeployment ==
  ASSUME JobsOK, OneRuns, NEW j \in Jobs, Running(j), NEW r, r.kind # "deploy",
         job' = [job EXCEPT ![j] = r]
  PROVE  PassedAreBuilt'
BY OthersIdle DEF PassedAreBuilt, Running

(* What an apply leaves: the stack and those passed before it are built, and  *)
(* the buckets of the second part keep their policies. *)
LEMMA ApplyBuilds ==
  ASSUME JobsOK, RestOK, OneRuns, ReadIsTrue, PassedAreBuilt, NEW j \in Jobs, Apply(j)
  PROVE  \A p \in 1 .. job[j].at :
           /\ state'[DeployOrder[p]] = "whole" /\ DeployOrder[p] \in current'
           /\ p > 14 /\ DeployOrder[p] \in Buckets => DeployOrder[p] \in policy'
<1> DEFINE n == job[j].at
           s == Target(j)
<1>1. /\ job[j].kind = "deploy" /\ Running(j) /\ s \in Stacks
      /\ job[j].seen = state[s] /\ n \in 1 .. 18 /\ s = DeployOrder[n]
  BY TargetIsStack DEF Apply, Acting, Running, ReadIsTrue, JobsOK, Placed, Target, Order
<1>2. state' = [state EXCEPT ![s] = "whole"]
  BY <1>1 DEF Apply, Record, RestOK, StacksOK
<1>3. \A p \in 1 .. (n - 1) : state[DeployOrder[p]] = "whole" /\ DeployOrder[p] \in current
  BY <1>1 DEF PassedAreBuilt
<1>4. PICK changed \in BOOLEAN :
        /\ job[j].seen # "whole" => changed
        /\ job[j].seen = "whole" /\ changed => FirstVisit(n)
        /\ current' = (current \cup {s}) \ (IF changed THEN Readers(s) ELSE {})
        /\ policy' = IF s \in Buckets /\ n > 14 THEN policy \cup {s}
                     ELSE IF s \in Buckets \/ changed THEN policy \ Policies(s)
                     ELSE policy
  BY Lengths DEF Apply
<1>5. changed => FirstVisit(n)
  <2> SUFFICES ASSUME changed, ~FirstVisit(n) PROVE FALSE
    OBVIOUS
  <2>1. PICK q \in 1 .. (n - 1) : DeployOrder[q] = s
    BY <1>1, SecondVisits
  <2> QED BY <1>1, <1>3, <1>4, <2>1
<1>6. changed => \A p \in 1 .. n : DeployOrder[p] \notin Readers(s)
  <2> SUFFICES ASSUME changed, NEW p \in 1 .. n, NEW r \in Reads,
                      r[2] = s, r[1] = DeployOrder[p]
               PROVE  FALSE
    BY DEF Readers
  <2>1. p = n
    BY <1>1, <1>5, ReadersComeLater
  <2> QED BY <1>1, <2>1, NoneReadsItself
<1>7. \A p \in 1 .. n : state'[DeployOrder[p]] = "whole" /\ DeployOrder[p] \in current'
  BY <1>1, <1>2, <1>3, <1>4, <1>6, DeploySteps DEF RestOK, StacksOK
<1>8. ASSUME NEW p \in 1 .. n, p > 14, DeployOrder[p] \in Buckets
      PROVE  DeployOrder[p] \in policy'
  <2>1. n > 14 /\ p \in 15 .. 18
    BY <1>1, <1>8
  <2>2. p < n => DeployOrder[p] \in policy
    BY <1>1, <1>8 DEF PassedAreBuilt
  <2>3. changed => Policies(s) = {}
    BY <1>1, <1>5, <2>1, PoliciesStay
  <2> QED BY <1>1, <1>4, <1>8, <2>1, <2>2, <2>3
<1> QED BY <1>7, <1>8

LEMMA BuiltStep == TypeOK /\ IInv /\ DInv /\ [Next]_vars => DInv'
<1> SUFFICES ASSUME JobsOK, RestOK, IInv, DInv, [Next]_vars, ~overlapped'
             PROVE  PassedAreBuilt'
  BY TypeParts DEF DInv
<1>0. OneRuns /\ ReadIsTrue /\ PassedAreBuilt
  <2>1. ~overlapped
    BY DEF Next, Work, Start, Plan, Apply, Destroy, Fails, Dies, BetweenFails, vars
  <2> QED BY <2>1 DEF IInv, DInv
<1>1. CASE UNCHANGED vars
  BY <1>0, <1>1 DEF vars, PassedAreBuilt
<1>2. ASSUME NEW j \in Jobs, NEW kind \in {"deploy", "destroy"}, Start(j, kind)
      PROVE  PassedAreBuilt'
  <2>1. \A k \in Jobs : k # j => job'[k] = job[k] /\ ~Running(k)
    BY <1>2 DEF Start, JobsOK
  <2>2. job'[j] = At(kind, 1)
    BY <1>2 DEF Start, JobsOK
  <2> QED BY <2>1, <2>2 DEF PassedAreBuilt, At, Running
<1>3. ASSUME NEW j \in Jobs, Running(j), Abort(j)
      PROVE  PassedAreBuilt'
  BY <1>0, <1>3, NoDeployment DEF Abort, Ended, At
<1>4. ASSUME NEW j \in Jobs, Plan(j)
      PROVE  PassedAreBuilt'
  <2>1. CASE HasInputs(j)
    <3>1. job' = [job EXCEPT ![j].seen = state[Target(j)]]
      BY <1>4, <2>1 DEF Plan
    <3>2. \A k \in Jobs : job'[k].kind = job[k].kind /\ job'[k].at = job[k].at
      BY <3>1 DEF JobsOK, JobRecords
    <3> QED BY <1>0, <1>4, <3>2 DEF PassedAreBuilt, Plan, stackVars
  <2> QED BY <1>3, <1>4, <2>1 DEF Plan
<1>5. ASSUME NEW j \in Jobs, Apply(j)
      PROVE  PassedAreBuilt'
  <2>1. /\ job[j].kind = "deploy" /\ Running(j) /\ job[j].at \in 1 .. 18
    BY <1>5 DEF Apply, Acting, Running, JobsOK, Placed
  <2>2. CASE job' = [job EXCEPT ![j] = At("deploy", job[j].at + 1)]
    <3>1. /\ job'[j] = At("deploy", job[j].at + 1)
          /\ \A k \in Jobs : k # j => job'[k].kind # "deploy"
      BY <1>0, <2>1, <2>2, OthersIdle DEF Running
    <3> QED BY <1>0, <1>5, <2>1, <3>1, ApplyBuilds DEF PassedAreBuilt, At
  <2>3. CASE job' = [job EXCEPT ![j] = At("deployed", 0)]
    BY <1>0, <2>1, <2>3, NoDeployment DEF At
  <2> QED BY <1>5, <2>1, <2>2, <2>3 DEF Apply, Done, Ended
<1>6. ASSUME NEW j \in Jobs, Destroy(j)
      PROVE  PassedAreBuilt'
  <2>1. job[j].kind = "destroy" /\ Running(j)
    BY <1>6 DEF Destroy, Acting, Running
  <2>2. PICK p : job' = [job EXCEPT ![j] = At("destroyed", p)]
              \/ job' = [job EXCEPT ![j] = At("destroy", p)]
    BY <1>6, <2>1 DEF Destroy, Done, Ended
  <2> QED BY <1>0, <2>1, <2>2, NoDeployment DEF At
<1> QED
  BY <1>1, <1>2, <1>3, <1>4, <1>5, <1>6 DEF Next, Work, Fails, Dies, BetweenFails

LEMMA DeployEndsCurrent ==
  TypeOK /\ IInv /\ DInv /\ [Next]_vars =>
    [\A j \in Jobs :
       /\ job[j].kind = "deploy" /\ job'[j].kind = "deployed" /\ ~overlapped
       => /\ \A s \in Stacks : state'[s] = "whole"
          /\ current' = Stacks /\ policy' = Buckets]_vars
<1> SUFFICES ASSUME JobsOK, RestOK, TypeOK', IInv, DInv, [Next]_vars, NEW j \in Jobs,
                    job[j].kind = "deploy", job'[j].kind = "deployed", ~overlapped
             PROVE  /\ \A s \in Stacks : state'[s] = "whole"
                    /\ current' = Stacks /\ policy' = Buckets
  BY TypeParts, TypeStep
<1>0. OneRuns /\ ReadIsTrue /\ PassedAreBuilt /\ Running(j)
  BY DEF IInv, DInv, Running
<1>1. ASSUME NEW k \in Jobs, NEW r, job' = [job EXCEPT ![k] = r], r.kind # "deployed"
      PROVE  FALSE
  BY <1>1 DEF JobsOK
<1>2. ASSUME NEW k \in Jobs, NEW kind \in {"deploy", "destroy"}, Start(k, kind)
      PROVE  FALSE
  BY <1>1, <1>2 DEF Start, At
<1>3. ASSUME NEW k \in Jobs, Abort(k) PROVE FALSE
  BY <1>1, <1>3 DEF Abort, Ended, At
<1>4. ASSUME NEW k \in Jobs, Plan(k) PROVE FALSE
  <2> DEFINE r == [kind |-> job[k].kind, at |-> job[k].at, seen |-> state[Target(k)]]
  <2>1. CASE HasInputs(k)
    <3>1. job' = [job EXCEPT ![k] = r] /\ r.kind # "deployed"
      BY <1>4, <2>1 DEF Plan, JobsOK, JobRecords, Running
    <3> QED BY <1>1, <3>1
  <2> QED BY <1>3, <1>4, <2>1 DEF Plan
<1>5. ASSUME NEW k \in Jobs, Destroy(k) PROVE FALSE
  <2>1. PICK r : job' = [job EXCEPT ![k] = r] /\ r.kind # "deployed"
    BY <1>5 DEF Destroy, Done, Ended, At, Acting
  <2> QED BY <1>1, <2>1
<1>6. ASSUME NEW k \in Jobs, Apply(k)
      PROVE  /\ \A s \in Stacks : state'[s] = "whole"
             /\ current' = Stacks /\ policy' = Buckets
  <2>1. k = j
    BY <1>0, <1>6 DEF Apply, Acting, OneRuns, Running
  <2>2. job[j].at = 18
    BY <1>6, <2>1, Lengths DEF Apply, Done, Order, At, JobsOK
  <2>3. \A p \in 1 .. 18 :
          /\ state'[DeployOrder[p]] = "whole" /\ DeployOrder[p] \in current'
          /\ p > 14 /\ DeployOrder[p] \in Buckets => DeployOrder[p] \in policy'
    BY <1>0, <1>6, <2>1, <2>2, ApplyBuilds
  <2>4. \A s \in Stacks : state'[s] = "whole" /\ s \in current'
    BY <2>3, DeployOrderCovers
  <2>5. Buckets \subseteq policy'
    BY <2>3, DeployOrderIs DEF Buckets
  <2>6. current' \subseteq Stacks /\ policy' \subseteq Buckets
    BY DEF TypeOK
  <2> QED BY <2>4, <2>5, <2>6
<1>7. ~UNCHANGED vars
  BY DEF vars
<1> QED
  BY <1>2, <1>3, <1>4, <1>5, <1>6, <1>7 DEF Next, Work, Fails, Dies, BetweenFails

LEMMA BuiltInit == Init => DInv
BY DEF Init, DInv, PassedAreBuilt, Ended, At

(* A deployment that reports completion left every stack whole and built from *)
(* the outputs as they then are, and both media buckets with their policy,    *)
(* whatever failed, died or was destroyed before it, as long as runs did not  *)
(* overlap. *)
THEOREM DeployIsCurrent == Spec => CompletedDeployIsCurrent
BY TypeInit, TypeStep, InvInit, InvStep, BuiltInit, BuiltStep, DeployEndsCurrent, PTL
   DEF Spec, CompletedDeployIsCurrent

===============================================================================
