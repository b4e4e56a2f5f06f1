------------------------------ MODULE Deployment ------------------------------
(***************************************************************************)
(* deploy.sh and destroy.sh, run by hand or by the two workflows.  A run    *)
(* takes the Terraform stacks one after the other.  Terraform reads the     *)
(* stack's own recorded state and the outputs recorded by other stacks      *)
(* (terraform_remote_state), changes the resources, and records the result  *)
(* when it is done.  Nothing keeps two runs apart: the backend has no lock  *)
(* and the workflows have no concurrency group.                             *)
(***************************************************************************)
EXTENDS Naturals, Sequences, FiniteSets

CONSTANTS
  Jobs,      \* runs that may be under way at the same time
  Starts,    \* bound on the runs started
  Troubles   \* bound on failures, deaths and changes of outputs

ASSUME DeploymentAssumption == Starts \in Nat /\ Troubles \in Nat

VARIABLES
  state,      \* what the state bucket records of each stack
  lost,       \* stacks with resources that no state records
  current,    \* stacks built in full from the inputs as they now are
  policy,     \* media buckets whose policy admits CloudFront and the tasks
  job,        \* the script run by each job, its step, the state it has read
  starts, troubles,   \* the bounded events so far
  overlapped  \* history: two runs were under way at the same time

vars == <<state, lost, current, policy, job, starts, troubles, overlapped>>
stackVars == <<state, lost, current, policy>>

-----------------------------------------------------------------------------
(* Which stack reads the outputs of which other.  The networks, global/iam  *)
(* and global/oac read none.                                                *)
ReadBy(s, inputs) == {s} \X inputs

PrimaryRds == ReadBy("primary/rds", {"global/iam", "primary/network"})
PrimaryS3  == ReadBy("primary/s3", {"primary/network"})
PrimaryAlb == ReadBy("primary/alb", {"primary/network"})
ReadReplica == ReadBy("dr/read_replica_rds", {"dr/network", "primary/rds"})
DrS3 == ReadBy("dr/s3", {"primary/s3", "global/iam", "dr/network"})
DrAlb == ReadBy("dr/alb", {"dr/network"})
CdnDns == ReadBy("global/cdn_dns",
  {"global/oac", "primary/s3", "dr/s3", "primary/alb", "dr/alb"})
PrimaryEcs == ReadBy("primary/ecs",
  {"primary/network", "primary/rds", "primary/alb", "global/iam", "global/cdn_dns"})
DrEcs == ReadBy("dr/ecs",
  {"dr/network", "dr/alb", "global/iam", "dr/read_replica_rds", "global/cdn_dns"})
DrOrchestration == ReadBy("operations/dr_orchestration",
  {"dr/read_replica_rds", "dr/network", "global/iam"})
FailoverAlarms == ReadBy("primary/failover_alarms", {"primary/alb"})

Reads == UNION {PrimaryRds, PrimaryS3, PrimaryAlb, ReadReplica, DrS3, DrAlb,
                CdnDns, PrimaryEcs, DrEcs, DrOrchestration, FailoverAlarms}
InputsOf(s) == {r[2] : r \in {x \in Reads : x[1] = s}}
Readers(s)  == {r[1] : r \in {x \in Reads : x[2] = s}}

(* A fault for the checks: the primary tasks before the CDN they read. *)
FirstPartEcsEarly ==
  <<"global/iam", "global/oac", "primary/network", "primary/rds", "primary/rds",
    "dr/network", "primary/s3", "primary/alb", "dr/read_replica_rds", "dr/s3",
    "dr/alb", "primary/ecs", "global/cdn_dns", "dr/ecs">>
(* A fault: the DR bucket is not visited again. *)
SecondPartForgetsDrS3 ==
  <<"primary/s3", "operations/dr_orchestration", "primary/failover_alarms">>

(* deploy.sh, to the point where it reads the ARNs for the bucket policies,  *)
(* and from there.                                                           *)
FirstPart ==
  <<"global/iam", "global/oac", "primary/network", "primary/rds", "primary/rds",
    "dr/network", "primary/s3", "primary/alb", "dr/read_replica_rds", "dr/s3",
    "dr/alb", "global/cdn_dns", "primary/ecs", "dr/ecs">>
SecondPart ==
  <<"primary/s3", "dr/s3", "operations/dr_orchestration", "primary/failover_alarms">>
DeployOrder == FirstPart \o SecondPart

(* A fault: the replica after its network. *)
DestroyReplicaLate ==
  <<"primary/failover_alarms", "operations/dr_orchestration", "dr/ecs",
    "primary/ecs", "global/cdn_dns", "dr/alb", "dr/s3", "primary/alb",
    "primary/s3", "dr/network", "dr/read_replica_rds", "primary/rds",
    "primary/network", "global/oac", "global/iam">>

(* destroy.sh. *)
DestroyOrder ==
  <<"primary/failover_alarms", "operations/dr_orchestration", "dr/ecs",
    "primary/ecs", "global/cdn_dns", "dr/alb", "dr/s3", "dr/read_replica_rds",
    "primary/alb", "primary/s3", "dr/network", "primary/rds", "primary/network",
    "global/oac", "global/iam">>

Stacks == {DeployOrder[p] : p \in DOMAIN DeployOrder}
Buckets == {"primary/s3", "dr/s3"}
ArnSources == {"global/iam", "global/cdn_dns"}
Networks == {"primary/network", "dr/network"}  \* nothing in them has a unique name

(* A fault: the last stack forgotten. *)
OrderForgetsIam(kind) ==
  IF kind = "deploy" THEN DeployOrder ELSE SubSeq(DestroyOrder, 1, 14)
Order(kind) == IF kind = "deploy" THEN DeployOrder ELSE DestroyOrder
Running(j) == job[j].kind \in {"deploy", "destroy"}
Target(j) == Order(job[j].kind)[job[j].at]
Acting(j, kind) == job[j].kind = kind /\ job[j].seen # "unread"
FirstVisit(p) == \A q \in 1 .. (p - 1) : DeployOrder[q] # DeployOrder[p]
At(kind, p) == [kind |-> kind, at |-> p, seen |-> "unread"]
Ended(kind) == At(kind, 0)

Init ==
  /\ state = [s \in Stacks |-> "empty"]
  /\ lost = {} /\ current = {} /\ policy = {}
  /\ job = [j \in Jobs |-> Ended("idle")]
  /\ starts = 0 /\ troubles = 0 /\ overlapped = FALSE

-----------------------------------------------------------------------------
Start(j, kind) ==
  /\ ~Running(j) /\ starts < Starts
  /\ starts' = starts + 1
  /\ job' = [job EXCEPT ![j] = At(kind, 1)]
  /\ overlapped' = (overlapped \/ \E k \in Jobs : Running(k))
  /\ UNCHANGED <<stackVars, troubles>>

(* set -e: whatever goes wrong ends the script. *)
Abort(j) == job' = [job EXCEPT ![j] = Ended("aborted")]

(* The outputs that must be recorded before the step.  A stack that records  *)
(* nothing is destroyed without reading any.                                *)
Needs(j) ==
  IF job[j].kind = "destroy"
    THEN IF state[Target(j)] = "empty" THEN {} ELSE InputsOf(Target(j))
    ELSE InputsOf(Target(j))
           \cup (IF job[j].at = Len(FirstPart) + 1 THEN ArnSources ELSE {})
HasInputs(j) == \A s \in Needs(j) : state[s] = "whole"

Plan(j) ==
  /\ Running(j) /\ job[j].seen = "unread"
  /\ IF HasInputs(j)
       THEN job' = [job EXCEPT ![j].seen = state[Target(j)]]
       ELSE Abort(j)
  /\ UNCHANGED <<stackVars, starts, troubles, overlapped>>

(* Terraform records a state it has changed, over what another run recorded  *)
(* since it read; what it has not changed it does not record.               *)
Record(j, new, changed) ==
  LET s == Target(j) IN
  IF changed
    THEN /\ state' = [state EXCEPT ![s] = new]
         /\ lost' = IF state[s] \in {"empty", job[j].seen} THEN lost
                    ELSE lost \cup {s}
    ELSE UNCHANGED <<state, lost>>

(* A fault: the last step is not recognised. *)
NeverDone(j) == job' = [job EXCEPT ![j] = At(@.kind, @.at + 1)]

Done(j) ==
  job' = IF job[j].at = Len(Order(job[j].kind))
           THEN [job EXCEPT ![j] =
                  Ended(IF job[j].kind = "deploy" THEN "deployed" ELSE "destroyed")]
           ELSE [job EXCEPT ![j] = At(job[j].kind, job[j].at + 1)]

(* The policies of the media buckets name the ARNs of these two.             *)
Policies(s) == IF s \in ArnSources THEN Buckets ELSE {s} \cap Buckets

(* The resources the apply would make are there, made by another run.        *)
MadeByOther(j) == job[j].seen = "empty" /\ state[Target(j)] # "empty"

(* Resources that no state records are in the way of those to be made, or    *)
(* hold in place those they were built from.                                *)
Obstructed(j) ==
  \/ job[j].kind = "deploy" /\ MadeByOther(j)
  \/ \E s \in lost : Target(j) \in {s} \cup InputsOf(s)

(* An apply that succeeds.  A stack made new, or replaced because its code   *)
(* changed, has new outputs; the first visit of a run leaves no reason to    *)
(* replace it at the second.  The bucket policy is made only when the ARNs   *)
(* are given, and removed when they are not.                                *)
Apply(j) ==
  /\ Acting(j, "deploy")
  /\ MadeByOther(j) => Target(j) \in Networks
  /\ Done(j)
  /\ \E changed \in BOOLEAN :
       LET s == Target(j) IN
       /\ job[j].seen # "whole" => changed
       /\ Record(j, "whole", changed)
       /\ IF job[j].seen = "whole" /\ changed
            THEN /\ FirstVisit(job[j].at) /\ troubles < Troubles
                 /\ troubles' = troubles + 1
            ELSE UNCHANGED troubles
       /\ current' = (current \cup {s}) \ (IF changed THEN Readers(s) ELSE {})
       /\ policy' = IF s \in Buckets /\ job[j].at > Len(FirstPart) THEN policy \cup {s}
                    ELSE IF s \in Buckets \/ changed THEN policy \ Policies(s)
                    ELSE policy
  /\ UNCHANGED <<starts, overlapped>>

(* terraform destroy of one stack. *)
Destroy(j) ==
  /\ Acting(j, "destroy")
  /\ Record(j, "empty", job[j].seen # "empty")
  /\ Done(j)
  /\ current' = current \ ({Target(j)} \cup Readers(Target(j)))
  /\ policy' = policy \ Policies(Target(j))
  /\ UNCHANGED <<starts, troubles, overlapped>>

(* What a stack left half changed may have done to those built from it:      *)
(* neither it nor they count as built from the inputs as they now are.       *)
Spoil(s) ==
  /\ current' = current \ ({s} \cup Readers(s))
  /\ policy' = policy \ Policies(s)

(* Terraform reports an error and records what it has changed: some of the   *)
(* resources, without their outputs.  An apply to a whole stack leaves the    *)
(* recorded outputs in place.                                               *)
Goal(j) == IF job[j].kind = "deploy" THEN "whole" ELSE "empty"
Fails(j) ==
  /\ Running(j) /\ job[j].seen # "unread"
  /\ IF Obstructed(j) THEN UNCHANGED troubles
                      ELSE troubles < Troubles /\ troubles' = troubles + 1
  /\ \E new \in {job[j].seen} \cup (IF job[j].seen = Goal(j) THEN {} ELSE {"broken"}) :
       Record(j, new, new # job[j].seen)
  /\ Spoil(Target(j))
  /\ Abort(j)
  /\ UNCHANGED <<starts, overlapped>>

(* The runner is lost or the run cancelled, its session of two hours ends, or  *)
(* the state cannot be written (errored.tfstate): the resources are changed  *)
(* and nothing is recorded.                                                  *)
Dies(j) ==
  /\ Running(j) /\ job[j].seen # "unread" /\ troubles < Troubles
  /\ troubles' = troubles + 1
  /\ lost' \in {lost, IF Acting(j, "deploy") THEN lost \cup {Target(j)} ELSE lost}
  /\ Spoil(Target(j))
  /\ Abort(j)
  /\ UNCHANGED <<state, starts, overlapped>>

(* A command between two stacks fails: terraform init, the image push, the   *)
(* invocation of the setup Lambda.                                           *)
BetweenFails(j) ==
  /\ Running(j) /\ job[j].seen = "unread" /\ troubles < Troubles
  /\ troubles' = troubles + 1
  /\ Abort(j)
  /\ UNCHANGED <<stackVars, starts, overlapped>>

Work(j) == Plan(j) \/ Apply(j) \/ Destroy(j)
Next ==
  \E j \in Jobs :
    \/ \E kind \in {"deploy", "destroy"} : Start(j, kind)
    \/ Work(j) \/ Fails(j) \/ Dies(j) \/ BetweenFails(j)

(* A script goes on by itself; Terraform's calls to AWS end. *)
Spec == Init /\ [][Next]_vars /\ \A j \in Jobs : WF_vars(Work(j))

-----------------------------------------------------------------------------
Kinds == {"idle", "deploy", "destroy", "deployed", "destroyed", "aborted"}
Recorded == {"empty", "broken", "whole"}

(* Types; a job that runs is within its script. *)
TypeOK ==
  /\ state \in [Stacks -> Recorded]
  /\ lost \subseteq Stacks /\ current \subseteq Stacks /\ policy \subseteq Buckets
  /\ job \in [Jobs -> [kind : Kinds, at : 0 .. Len(DeployOrder),
                       seen : Recorded \cup {"unread"}]]
  /\ \A j \in Jobs : Running(j) => job[j].at \in DOMAIN Order(job[j].kind)
  /\ starts \in 0 .. Starts /\ troubles \in 0 .. Troubles
  /\ overlapped \in BOOLEAN

(* As long as runs did not overlap, whatever sequence of deployments and     *)
(* destructions failed wherever, a stack that records resources finds the    *)
(* outputs it reads: it can be applied, and it can be destroyed.             *)
InputsAtHand ==
  overlapped \/ \A r \in Reads : state[r[1]] # "empty" => state[r[2]] = "whole"

(* "Deployment complete!": every stack was built from the outputs as they    *)
(* are, those replaced on the way included, and both media buckets have      *)
(* their policy back, which the first visit of the run removed.              *)
CompletedDeployIsCurrent ==
  [][\A j \in Jobs :
       /\ job[j].kind = "deploy" /\ job'[j].kind = "deployed" /\ ~overlapped
       => /\ \A s \in Stacks : state'[s] = "whole"
          /\ current' = Stacks /\ policy' = Buckets]_vars

(* "All resources have been successfully destroyed!", with the exception of  *)
(* what no state recorded.                                                   *)
CompletedDestroyLeavesOnlyLost ==
  [][\A j \in Jobs :
       job[j].kind = "destroy" /\ job'[j].kind = "destroyed" /\ ~overlapped
       => \A s \in Stacks : state'[s] = "empty"]_vars

(* However the runs before it ended, a run that works alone after the last   *)
(* trouble completes, unless resources lost their record.                    *)
RepeatCompletes ==
  \A j \in Jobs : \A kind \in {"deploy", "destroy"} :
    (job[j].kind = kind /\ troubles = Troubles /\ lost = {}) ~>
      (overlapped \/ job[j].kind \in {"deployed", "destroyed"})

(* "This ensures a clean teardown with no orphaned resources": even without   *)
(* any trouble two deployments that overlap record over each other's work.   *)
DestroyLeavesNothing ==
  [][\A j \in Jobs : job[j].kind = "destroy" /\ job'[j].kind = "destroyed"
       => lost' = {}]_vars

=============================================================================
