----------------------------- MODULE RegionOutage -----------------------------
(***************************************************************************)
(* What the outside meets while the primary region fails and returns:       *)
(* CloudFront's origin groups and Route 53's failover record for the admin  *)
(* name (modules/cdn_dns), the media buckets and their replication          *)
(* (environments/dr/s3), the alarms (environments/primary/failover_alarms), *)
(* beside ECS, the two databases and an editor.                             *)
(***************************************************************************)
EXTENDS Naturals, FiniteSets

CONSTANTS
  Posts,       \* posts, each with one media file
  Capacity,    \* desired count of the primary service, and the alarms' threshold
  DrCapacity,  \* count the failover sets in the DR region
  Threshold    \* failure_threshold of the health check

ASSUME OutageAssumption ==
  Capacity \in Nat \ {0} /\ DrCapacity \in Nat \ {0} /\ Threshold \in Nat \ {0}

VARIABLES
  outage,   \* primary region: "none"; "cut": the load balancer cannot be reached; "down"
  tasks,    \* per region: running tasks
  passing,  \* per region: tasks whose load balancer target is healthy
  scaled,   \* the DR service's desired count is DrCapacity
  login,    \* /wp-login.php answers in the DR region
  promoted, \* the replica is a database of its own
  posts,    \* per region: posts in its database
  media,    \* per region: files in its bucket
  check,    \* Route 53's health check: its state, results in a row against it
  resolved, \* per client: the region the admin name led to when last asked
  alarms    \* the two metric alarms: in ALARM

ecs == <<tasks, passing, scaled, login>>
data == <<promoted, posts, media>>
vars == <<outage, ecs, data, check, resolved, alarms>>

Regions == {"primary", "dr"}
Clients == {"editor", "checker"}

Init ==
  /\ outage = "none" /\ scaled = FALSE /\ login = TRUE /\ promoted = FALSE
  /\ tasks = [r \in Regions |-> IF r = "primary" THEN Capacity ELSE 0]
  /\ passing = tasks
  /\ posts = [r \in Regions |-> {}] /\ media = [r \in Regions |-> {}]
  /\ check = [healthy |-> TRUE, against |-> 0]
  /\ resolved = [c \in Clients |-> "primary"]
  /\ alarms = [hosts |-> FALSE, tasks |-> FALSE]

-----------------------------------------------------------------------------
(* ECS and the load balancers (external).                                   *)
Desired(r) == IF r = "primary" THEN Capacity ELSE IF scaled THEN DrCapacity ELSE 0

StartTask(r) ==
  /\ tasks[r] < Desired(r) /\ (r = "primary" => outage # "down")
  /\ tasks' = [tasks EXCEPT ![r] = @ + 1]
  /\ UNCHANGED <<outage, passing, scaled, login, data, check, resolved, alarms>>

(* Mutant: the target of a stopped task stays registered. *)
StopTaskOnly(r) ==
  /\ tasks[r] > 0
  /\ tasks' = [tasks EXCEPT ![r] = @ - 1]
  /\ UNCHANGED <<outage, passing, scaled, login, data, check, resolved, alarms>>

StopTask(r) ==
  /\ tasks[r] > 0
  /\ tasks' = [tasks EXCEPT ![r] = @ - 1]
  /\ \E n \in {passing[r], passing[r] - 1} :
       n \in 0..tasks'[r] /\ passing' = [passing EXCEPT ![r] = n]
  /\ UNCHANGED <<outage, scaled, login, data, check, resolved, alarms>>

Target(r, n) ==
  /\ n \in 0..tasks[r] /\ passing' = [passing EXCEPT ![r] = n]
  /\ UNCHANGED <<outage, tasks, scaled, login, data, check, resolved, alarms>>

LoginChanges ==
  /\ login' = ~login
  /\ UNCHANGED <<outage, tasks, passing, scaled, data, check, resolved, alarms>>

PrimaryFailsOrReturns(now) ==
  /\ outage # now /\ outage' = now
  /\ UNCHANGED <<ecs, data, check, resolved, alarms>>

-----------------------------------------------------------------------------
(* The failover (FailoverWorkflow, the runbook) and a later deployment.     *)
Promote ==
  /\ ~promoted /\ promoted' = TRUE
  /\ UNCHANGED <<outage, ecs, posts, media, check, resolved, alarms>>

ScaleDr ==
  /\ promoted /\ ~scaled /\ scaled' = TRUE
  /\ UNCHANGED <<outage, tasks, passing, login, data, check, resolved, alarms>>

(* terraform apply sets the desired count back to 0. *)
DeployDr ==
  /\ scaled /\ scaled' = FALSE
  /\ tasks' = [tasks EXCEPT !["dr"] = 0] /\ passing' = [passing EXCEPT !["dr"] = 0]
  /\ UNCHANGED <<outage, login, data, check, resolved, alarms>>

-----------------------------------------------------------------------------
(* Route 53.                                                                *)
TargetsHealthy(r) == passing[r] > 0 /\ (r = "primary" => outage # "down")
Reachable(r) == TargetsHealthy(r) /\ (r = "primary" => outage # "cut")
LoginAnswers(r) == Reachable(r) /\ (r = "dr" => login)

(* Mutant: the primary record does not evaluate its target's health. *)
CheckAlone(r) == IF r = "primary" THEN check.healthy ELSE TargetsHealthy(r)
(* Mutant: the secondary record does not evaluate its target's health. *)
SecondaryAlways(r) == r = "dr" \/ (check.healthy /\ TargetsHealthy(r))

(* evaluate_target_health of both records, health_check_id of the first. *)
RecordHealthy(r) == TargetsHealthy(r) /\ (r = "primary" => check.healthy)

(* Without a healthy record the primary one is the answer. *)
Answer ==
  IF ~RecordHealthy("primary") /\ RecordHealthy("dr") THEN "dr" ELSE "primary"

Resolve(c) ==
  /\ resolved' = [resolved EXCEPT ![c] = Answer]
  /\ UNCHANGED <<outage, ecs, data, check, alarms>>

(* The check asks for the very name it decides about. *)
Probe ==
  /\ check' = IF LoginAnswers(resolved["checker"]) = check.healthy
                THEN [check EXCEPT !.against = 0]
                ELSE IF check.against + 1 < Threshold
                  THEN [check EXCEPT !.against = @ + 1]
                  ELSE [healthy |-> ~check.healthy, against |-> 0]
  /\ UNCHANGED <<outage, ecs, data, resolved, alarms>>

-----------------------------------------------------------------------------
(* Content.  The editor uploads a file, then saves the post that shows it;   *)
(* between the two the name may have come to lead elsewhere.                 *)
Here == resolved["editor"]
Working(r) == LoginAnswers(r) /\ (r = "dr" => promoted)

Upload(p) ==
  /\ Working(Here) /\ p \notin media["primary"] \cup media["dr"]
  /\ media' = [media EXCEPT ![Here] = @ \cup {p}]
  /\ UNCHANGED <<outage, ecs, promoted, posts, check, resolved, alarms>>

Publish(p) ==
  /\ Working(Here) /\ p \in media["primary"] \cup media["dr"]
  /\ p \notin posts["primary"] \cup posts["dr"]
  /\ posts' = [posts EXCEPT ![Here] = @ \cup {p}]
  /\ UNCHANGED <<outage, ecs, promoted, media, check, resolved, alarms>>

(* The read replica follows the primary until it is promoted. *)
ReplicateRow(p) ==
  /\ ~promoted /\ outage # "down" /\ p \in posts["primary"] \ posts["dr"]
  /\ posts' = [posts EXCEPT !["dr"] = @ \cup {p}]
  /\ UNCHANGED <<outage, ecs, promoted, media, check, resolved, alarms>>

(* primary_to_dr; nothing replicates back. *)
ReplicateFile(p) ==
  /\ outage # "down" /\ p \in media["primary"] \ media["dr"]
  /\ media' = [media EXCEPT !["dr"] = @ \cup {p}]
  /\ UNCHANGED <<outage, ecs, promoted, posts, check, resolved, alarms>>

(* What an origin answers. *)
Page(r, p) == IF ~Reachable(r) THEN 503 ELSE IF p \in posts[r] THEN 200 ELSE 404
File(r, p) ==
  IF r = "primary" /\ outage = "down" THEN 503 ELSE IF p \in media[r] THEN 200 ELSE 403

(* Mutant: failover on 5xx alone. *)
FailsOverOn5xx(code) == code \in {500, 502, 503, 504}

(* failover_criteria of both origin groups: 403 and 404 beside the 5xx that  *)
(* the repository's README (lines 430 to 434) names.                         *)
FailsOver(code) == code \in {403, 404, 500, 502, 503, 504}
Through(primary, dr) == IF FailsOver(primary) THEN dr ELSE primary
PageServed(p) == Through(Page("primary", p), Page("dr", p))
FileServed(p) == Through(File("primary", p), File("dr", p))

-----------------------------------------------------------------------------
(* CloudWatch, in the primary region.                                       *)
(* Mutant: missing data are not breaching. *)
IgnoresMissing(value) == tasks["primary"] > 0 /\ value < Capacity

(* No metric comes from a service without tasks: missing data are breaching. *)
Breaching(value) == tasks["primary"] = 0 \/ value < Capacity

EvaluateHosts ==
  /\ outage # "down"
  /\ alarms' = [alarms EXCEPT !.hosts = Breaching(passing["primary"])]
  /\ UNCHANGED <<outage, ecs, data, check, resolved>>

EvaluateTasks ==
  /\ outage # "down"
  /\ alarms' = [alarms EXCEPT !.tasks = Breaching(tasks["primary"])]
  /\ UNCHANGED <<outage, ecs, data, check, resolved>>

(* failover_trigger_alarm: the only one that notifies. *)
Ringing == alarms.hosts /\ alarms.tasks

-----------------------------------------------------------------------------
Next ==
  \/ \E r \in Regions : StartTask(r) \/ StopTask(r) \/ (\E n \in 0..tasks[r] : Target(r, n))
  \/ \E now \in {"none", "cut", "down"} : PrimaryFailsOrReturns(now)
  \/ LoginChanges \/ Promote \/ ScaleDr \/ DeployDr
  \/ (\E c \in Clients : Resolve(c)) \/ Probe \/ EvaluateHosts \/ EvaluateTasks
  \/ \E p \in Posts : Upload(p) \/ Publish(p) \/ ReplicateRow(p) \/ ReplicateFile(p)

(* Route 53 and CloudWatch go on; names expire (60 s). *)
Fairness ==
  /\ \A c \in Clients : WF_vars(Resolve(c))
  /\ WF_vars(Probe) /\ WF_vars(EvaluateHosts) /\ WF_vars(EvaluateTasks)

Spec == Init /\ [][Next]_vars /\ Fairness

-----------------------------------------------------------------------------
TypeOK ==
  /\ outage \in {"none", "cut", "down"}
  /\ tasks["primary"] \in 0..Capacity /\ tasks["dr"] \in 0..DrCapacity
  /\ \A r \in Regions : passing[r] \in 0..tasks[r]
  /\ scaled \in BOOLEAN /\ login \in BOOLEAN /\ promoted \in BOOLEAN
  /\ posts \in [Regions -> SUBSET Posts] /\ media \in [Regions -> SUBSET Posts]
  /\ check \in [healthy : BOOLEAN, against : 0..(Threshold - 1)]
  /\ resolved \in [Clients -> Regions]
  /\ alarms \in [hosts : BOOLEAN, tasks : BOOLEAN]

(* A post that was published in a region that answers is shown to readers,   *)
(* and with its file: also when the admin name moved between upload and      *)
(* saving, so that the two are in different regions, when the file is too    *)
(* new for the other bucket, and when the primary region returns with less   *)
(* content than it missed.  The one loss is a file that only a region that   *)
(* is down has.                                                              *)
PublishedIsWhole ==
  \A r \in Regions : Reachable(r) =>
    \A p \in posts[r] :
      /\ PageServed(p) = 200
      /\ FileServed(p) = 200 \/ (outage = "down" /\ p \in media["primary"] \ media["dr"])

(* While the primary has no healthy target and the DR region answers, the    *)
(* admin name comes to lead to the DR region and stays there, although the   *)
(* check, which follows the name there, finds it healthy again.              *)
AdminReachesDr ==
  <>[](~TargetsHealthy("primary") /\ LoginAnswers("dr")) => <>[](Here = "dr")

(* Once the primary answers again the name returns to it, by itself, if the  *)
(* DR region lets the check pass or drops out.  With healthy DR targets that *)
(* do not answer /wp-login.php the check keeps the name away for ever.       *)
AdminComesHome ==
  /\ <>[]LoginAnswers("primary")
  /\ <>[]LoginAnswers("dr") \/ <>[]~TargetsHealthy("dr")
  => <>[](Here = "primary")

(* A lasting loss of tasks rings the failover alarm and goes on ringing it,  *)
(* also when no metrics are left, as long as CloudWatch itself runs.         *)
IncidentRings ==
  <>[](outage # "down" /\ tasks["primary"] < Capacity) => <>[]Ringing

=============================================================================
