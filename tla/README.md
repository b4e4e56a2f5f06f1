# Verification of the WordPress disaster recovery system

This directory holds TLA+ models of the disaster recovery (DR) system in `src/`,
TLC configurations that check them on small instances, and TLAPS proofs of their
main properties for every instance.

The system runs WordPress in two AWS regions. The primary region serves all
traffic; the DR region holds a read replica of the database, a copy of the media
and an ECS service scaled to zero. A failover is started by an operator and run by
a Step Functions state machine that promotes the replica, checks that it takes
writes, scales the service and probes the application.

## Inventory

| part | code | state | operations | what makes it correct |
|---|---|---|---|---|
| replica failover handler | `lambdas/replica-failover-handler/app.py` | loop time, count of good looks; the RDS instance | describe, promote, poll, give up | success only when the promotion is over; one promotion; an answer to every call |
| service recovery handler | `lambdas/service-recovery-handler/app.py` | loop time; the ECS service | update, poll, give up | healthy only when the current deployment runs the ordered tasks |
| DR workflow | `stepfunctions/dr-failover-orchestrator.asl.json`, `environments/operations/dr_orchestration` | current state of each execution | one per state | order of the steps, no completion without all of them, an end to every execution, repeatability |
| write validation | `lambdas/validate-db-writable/app.py` | a row in the database | one call | true only of a promoted database that the DR secret opens |
| application validation | `lambdas/validate-application/app.py` | none | one GET | true only if the page answers |
| database setup | `lambdas/primary-db-setup/app.py` | database user, primary secret | look up, alter or create, grant, put | the secret opens the database |
| deployment | `scripts/deployment-automation-scripts/deploy.sh` and the stacks of `environments/` | Terraform state, every resource | one per stack | both regions usable after "Deployment complete!", whatever failed or overlapped before |
| destruction | `destroy.sh` | the same | one per stack | no stack outlives a state it reads, nothing is left |
| ECS services | `modules/ecs`, `environments/{primary,dr}/ecs` | counts, deployments, the password in each task | apply, replace a task | tasks hold a password that works |
| traffic | `modules/cdn_dns`, `modules/alb` | target health, DNS health check and its count, where a name led last | fail over a request, probe, resolve | a post is shown, with its file, if a region that has it answers; the admin name leads to a region that answers and comes back |
| media | `modules/s3`, `environments/{primary,dr}/s3` | objects and bucket policy in two regions | upload, replicate, read | a post is shown with its file, whichever buckets and databases they are in |
| alarms | `environments/primary/failover_alarms` | two metric alarms, one composite | evaluate | a lasting incident rings, also when no metric is left |
| IAM, networks, certificates, OAC, bootstrap | `environments/global`, `modules/{vpc,sg,endpoint,iam,acm}`, `environments/bootstrap` | none that changes | - | static |
| image push | `pull-docker-hub-to-ecr.sh` | the image tag | pull, push | sequential input and output |
| PyMySQL | `lambdas/primary-db-setup/package/pymysql` | connection, results, cursors, packet numbers; the server's session | connect with each plugin, statements in packets, results whole or row by row, settings, ping, close | the two ends agree whose turn it is; no call takes another's answer; row counts are true; every call ends |

How they interact: the state machine calls the four Lambdas one after the other
and sees their answers only. The handlers share the RDS instance and the ECS
service with each other's invocations, with the operator (who may promote by hand,
`DR-RUNBOOK.md`), with Terraform and with AWS itself. The deployment script calls
the setup Lambda, copies the primary secret into the DR secret through a Terraform
data source, and starts the tasks, which read a secret once. CloudFront and the
load balancers decide which region the workflow's own probe reaches, and Route 53
which one an editor works in. The setup and the write validation Lambda speak to the
database through PyMySQL: the packets on the wire are all that the driver's end and the
server's share.

What is hard: no lock anywhere (executions, deployments and setup calls may
overlap); status read and used later; RDS and ECS finish asynchronously and may
look finished early; requests that take effect although their call raised; two
timeouts (Lambda's and the loop's) of which either may come first; half-done
deployments that the next one must repair; a health check that asks for the name it
decides about; content that the regions have on one side only after a return; a
protocol without framing of answers, in which a packet left unread is taken for the
next call's. The list, line by line, is `hazards` in
`PROJECT.json`.

## Modules

| module | models | composed of |
|---|---|---|
| `PromotionContract` | what the replica handler promises | - |
| `ReplicaFailover` | the replica handler, RDS, operator, clock | refines `PromotionContract` |
| `MCReplicaFailover` | its timing for TLC | `ReplicaFailover` |
| `ReplicaFailoverProofs` | its theorems | `ReplicaFailover` |
| `RecoveryContract` | what the service handler promises | - |
| `ServiceRecovery` | the service handler, the ECS scheduler, Terraform | refines `RecoveryContract` |
| `ServiceRecoveryProofs` | its theorems | `ServiceRecovery` |
| `FailoverWorkflow` | the state machine, both validators, the world around them | instantiates both contracts |
| `FailoverWorkflowProofs` | its theorems | `FailoverWorkflow` |
| `Credentials` | setup Lambda, deployments, secrets, tasks | - |
| `CredentialsProofs` | its theorems | `Credentials` |
| `Deployment` | deploy.sh, destroy.sh, the Terraform state of every stack | - |
| `DeploymentProofs` | its theorems | `Deployment` |
| `RegionOutage` | CloudFront, Route 53, load balancers, media, alarms while the primary region fails and returns | - |
| `RegionOutageProofs` | its theorems | `RegionOutage` |
| `MysqlAuth` | PyMySQL's connection phase and its plugins, the server's account | - |
| `MysqlWire` | `executemany`: rows into statements, statements into packets, the answer back | - |
| `MysqlBatch` | a connection made and then used | `MysqlAuth`, `MysqlWire` |
| `MCMysqlBatch` | its batches for TLC | `MysqlBatch` |
| `MysqlBatchProofs` | theorems about either half | `MysqlBatch` |
| `MysqlSession` | a Connection and its cursors between `connect()` and `close()` | - |
| `MysqlSessionProofs` | its theorems | `MysqlSession` |

The workflow uses the contracts in place of the handlers. That is sound because
`ReplicaFailover` and `ServiceRecovery` are shown to implement them, by TLC and by
proof, with the workflow's executions as the handlers' invocations.

## Plan

Written, in this order: the replica handler, the service handler, their two
contracts, the workflow over the contracts, the credentials, the deployment and
destruction scripts, the outage of a region (traffic, media, alarms), the database driver
(connection phase, packets, session), and the proofs of all of them. Still to come:

1. Media: deletions and object versions, which replicate by other rules than uploads.
2. Proofs about what 1 adds. Every invariant and every action property of the
   passing runs is proved now; what is left to TLC is under "Only model-checked".

The abstract specifications worth stating are the two contracts, because the
workflow rests on them and on nothing else about the handlers.

## How the models correspond to the code

**`ReplicaFailover`.** One invocation is a record of `app.py`'s local variables:
`pc` is the next statement that calls AWS or sleeps, `waited` and `stable` are the
loop's own `waited` and `stable_success_count`, `result` is the kind of answer.
`InitialDescribe` is lines 28 to 57, the three `Promote...` actions are the `try`
with its two `except` clauses, `Poll` is one turn of `wait_for_full_promotion` with the
early return, `Wake` the end of `time.sleep`, `DescribeRaises` an exception nobody
catches, `Kill` the Lambda timeout. Time is explicit: `Tick` advances `elapsed` of
every invocation and `rem` of those asleep; `lost` is a history of the ticks an invocation
spent in calls that had not answered. RDS is external: `phase`, and
`Describes(d)`, the set of answers `describe_db_instances` may give in each phase.
`Maintenance`, `LagChanges` and `OperatorPromotes` are the surroundings.

**`PromotionContract`** says what a caller sees: a call is accepted, may request a
promotion, and ends "up" only when the database is promoted, or "failed" at any
time. The refinement maps `pc` and `result` to the state of a call and `phase` to
replica, promoting or promoted.

**`ServiceRecovery`.** `UpdateService`/`UpdateRaises` are lines 25 to 43, `Poll` a
turn of the loop, `GiveUp` the describe after it. It is untimed: a sleep
may end and the timeout strike at any moment, which allows more than the code does.
The scheduler, rolling deployments, target health and `terraform apply` are the
surroundings. `RunningCount` adds the tasks of all deployments, as
`runningCount` does.

**`RecoveryContract`**: an order is placed (`asked`), capacity comes and goes
(`full`), "healthy" is answered only while the current deployment is full.

**`FailoverWorkflow`.** `st[x]` is the state of execution `x`; each Task state and
the Choice after it are one step, since nothing happens between them. The
contracts are instantiated with executions as calls, so the state machine
sees of a handler what the contract lets it see. `written` and `served`, `secretValid`
and `primaryUp` are the outside world as far as the two validators touch it. `calm`
is a promise of the surroundings, made at any moment or never: from then on no call
is lost, no task dies, nobody deploys.

**`Credentials`.** A call's password is the call itself. `LookUpUser`, `SetPassword`,
`Grant` and `PutSecret` are the statements of the setup Lambda with an effect;
`CallDies` is an exception or the timeout at any of them. A deployment is the part
of `deploy.sh` that handles the password: invoke (`StartDeploy`,
`CliRepeats`), the plan that reads the secret (`ReadSecret`), the apply that writes
the copy (`WriteDrSecret`), the start of the tasks. `disturbed` is a history
variable.

**`Deployment`.** A stack's `state` is what the bucket records: nothing, part of its
resources without outputs, or all of it. `Plan` reads the inputs
(`terraform_remote_state`) and the stack's own state, `Apply` and `Destroy` change the
resources and record; between the two anything may happen, including another run.
`Reads` is the graph of the `terraform_remote_state` blocks, `FirstPart`,
`SecondPart` and `DestroyOrder` are the scripts' calls in order. `Fails` is an error
that Terraform reports and records, `Dies` one after which nothing is recorded,
`BetweenFails` an error of any other command. `current` and `policy` tell which stacks
were built from the inputs as they are, and which media buckets have their policy.

**`RegionOutage`.** The origin groups of `modules/cdn_dns` are the operators `FailsOver`
and `Through`: an origin's answer is a status code, and on one of `failover_criteria`
the second origin is asked. The two alias records are `RecordHealthy` (both
`evaluate_target_health`, the first with the health check) and `Answer`; `Probe` is one
result of the health check with its `failure_threshold`, asked of the region that the
checker's resolver led to last. `Resolve` is an expired name looked up again. `outage`
distinguishes a load balancer that cannot be reached ("cut": targets stay healthy, the
record too) from a region that is down. `Upload` and `Publish` are an editor at work,
`ReplicateRow` and `ReplicateFile` the two replications, `EvaluateHosts` and
`EvaluateTasks` the two metric alarms with `treat_missing_data`, `Ringing` the composite.
`Promote`, `ScaleDr` and `DeployDr` are the failover and a later deployment, in the order
that the workflow keeps (`FailoverWorkflow`).

**`MysqlAuth`.** `cli.at` is the read at which `_request_authentication`, `_process_auth` or a plugin
function of `_auth.py` waits, `cli.salt`, `cli.key` and `cli.plugin` the attributes they use.
Each action reads one packet and does everything up to the next read. A hash or a cipher
is a symbol that holds the password, the salt and the key it was made from; the server opens
the account only to one made from what it knows. A server has one account with
one plugin and announces any plugin at first.

**`MysqlWire`.** `AddRow` and `Execute` are `_do_execute_many`'s loop, `Execute` with the first
packet of `_execute_command` and `SendMore` with the others; `ReadPacket` is a turn of `_read_packet`
and, after the last packet, the return of `execute`. Text is its length: a packet carries the
bytes `from`+1 to `to` of its payload, so that a lost, doubled or joined packet shows.
The server reads, runs and answers in the same packets. `MysqlBatch` puts the two
halves one after the other.

**`MysqlSession`.** `todo` is what is left of the method being called, as a list of frames: each
is a place where the code reads a packet, writes one, or decides; an exception drops the
list up to the handler that is in it (`inPing`, `inConnect`, `inClose`). `conn.sock` tells a
socket that is open from one that is closed but still in `_sock` ("dead", a failed
`connect()`) and one whose reader is gone ("deaf"). `result` is `_result` with
`unbuffered_active` and `has_next`, `holder` the cursor that has the same object.
The server answers a command at once with any answer of `QueryAnswers`: OK, error, rows with
one that is large or cannot be converted, an error after some rows, further results,
LOCAL INFILE. `seen` is a history of what the properties except.

### What is assumed of the surroundings

- RDS may look finished for one stretch shorter than `POLL_INTERVAL_SECONDS` before it
  is. With a longer one the two looks in a row would prove nothing, and
  `SuccessMeansSettled` would fail: `TimingAssumption` states it. A promoted
  instance does not become a replica again, though it may be busy.
- ECS completes a rollout only in the steady state with no old tasks left.
- Nobody drops the database user; nobody scales the DR service by hand before a
  write (`NoTasksBeforeWrite`) -- Terraform itself keeps it at 0.
- The AWS CLI may repeat `lambda invoke` when the answer is late.
- Terraform: a failed apply to a whole stack keeps its recorded outputs, a destroy of
  an empty state reads nothing, an unchanged state is not recorded again, a stack
  is replaced at its first visit of a run if at all. Only the networks have no
  resources with unique names, so only they can be made twice. Where it is
  not known whether a stack is current, it counts as not current.
- Route 53 answers with the primary record when neither is healthy; a client asks again
  when the 60 s of the record are over. Readers have no `s3:ListBucket`, so a missing
  object is answered 403. CloudWatch runs in the region it watches: while the region is
  down nothing is evaluated, and nothing is replicated from it.
- The MySQL server answers a command with well-formed packets, numbers them on from the
  last one it read, executes an `INSERT` wholly or not at all, and asks for a file only
  where `local_infile` allowed it. After the last prompt of the `dialog` plugin it decides.
- A broken connection delivers some first part of what was sent, in order (TCP), and a
  write to it may still seem to succeed.

## Runs

| run | module and configuration | shows |
|---|---|---|
| `replica` | `MCReplicaFailover`, `ReplicaFailover.cfg` | `SuccessMeansSettled`, `TimedOutIsHonest`, `LimitIsKept` and the refinement of `PromotionContract`, for two overlapping invocations with every fault |
| `replica_polling` | `ReplicaFailover_polling.cfg` | violation: a handler may poll a promotion nobody requested |
| `service` | `ServiceRecovery`, `ServiceRecovery.cfg` | the refinement of `RecoveryContract` beside a rolling deployment, dying tasks and Terraform |
| `workflow` | `FailoverWorkflow`, `FailoverWorkflow.cfg` | `NoTasksBeforeWrite`, `CompletedDidEverything`, `EveryExecutionEnds`, `RerunCompletes` for two overlapping executions |
| `workflow_probe` | `FailoverWorkflow_probe.cfg` | violation: an execution completes while no DR task answers |
| `credentials` | `Credentials`, `Credentials.cfg` | `UndisturbedCallRepairs`, `CompletedDeployServesBothRegions` for three calls and two deployments |
| `credentials_complete` | `Credentials_complete.cfg` | violation: a deployment completes although the setup call raised |
| `deployment` | `Deployment`, `Deployment.cfg` | `InputsAtHand`, `CompletedDeployIsCurrent`, `CompletedDestroyLeavesOnlyLost`, `RepeatCompletes` for runs one after the other |
| `deployment_orphans` | `Deployment_orphans.cfg` | violation: after two deployments that overlapped a destruction leaves resources |
| `outage` | `RegionOutage`, `RegionOutage.cfg` | `PublishedIsWhole`, `AdminReachesDr`, `AdminComesHome`, `IncidentRings` while the primary region is cut off, fails and returns at will |
| `mysql_batch` | `MCMysqlBatch`, `MysqlBatch.cfg` | `Agreement` and `RightPasswordEnters` of the connection phase; `WholeStatements`, `RowcountIsTrue`, `StatementFits` and `NumbersAgree` of one `executemany`; `EveryCallReturns` of both |
| `mysql_session` | `MysqlSession`, `MysqlSession.cfg` | `OwnReplies`, `NeverWaitsInVain`, `EveryRowIsTold`, `ConnectSetsMode`, `StatusIsCurrent`, `EveryCallEnds` for any sequence of calls on one connection with two cursors |

The passing runs also check `TypeOK` of their module, but for `mysql_batch`, whose
types are part of the proved invariants.

### What disagrees

Each violation run is a statement of the repository that its code does not keep;
`findings` in `PROJECT.json` quotes both sides.

1. `replica_polling`: every `InvalidDBInstanceStateFault` is taken for "already being
   promoted". A replica that turns busy between describe and promote raises the
   same fault; the handler then polls until it is killed.
2. `workflow_probe`: the probe's URL is the public name, which the primary region
   answers when it can.
3. `credentials_complete`: `aws lambda invoke` exits 0 when the function raises.
4. `deployment_orphans`: no lock on the Terraform state, no concurrency group.

Seen while modelling, without a run of their own.

The handlers and the workflow:

- `extract_replica_lag` always returns `None`, so a replica is promoted at any lag
  although a maximum is configured.
- The workflow's probe follows the healthy service at once, a target needs two health
  checks 30 s apart, and the probe is not repeated: a failover without a fault may end
  as failed, and completes when it is started again (`RerunCompletes`).
- The service handler reads `desiredCount` and does not compare it, so an order that
  Terraform withdrew is still reported healthy while its tasks run.
- The handler's own time-out answer is unreachable, since Lambda's 300 s end it before
  900 s have passed (theorem `TimedOutIsDead`).

Credentials:

- Two setup calls that overlap may leave secret and database apart until the next
  undisturbed call (`UndisturbedCallRepairs` covers the repair).
- Every deployment rotates the password and nothing restarts the tasks, which keep the
  old one until they are replaced.
- A deployment after a failover copies the primary's new password over the DR secret, and
  the promoted database, which follows no longer, never learns it. That follows from the
  order of `deploy.sh` alone and no interleaving avoids it, so no property
  is about it; in `FailoverWorkflow` it is `Rotate`, after which a write fails.

Traffic and content (`RegionOutage`):

- The repository's documents disagree with its code: `README.md:430` ("Failover is based on
  HTTP status codes (5xx) and origin connectivity, not application-level health."), `README.md:434`,
  `README.md:531` and `DR-RUNBOOK.md:40` name 5xx only, and
  `modules/cdn_dns/main.tf:26` and `:70` fail over on 403 and 404 as well. The model has the
  code's list. What the documents say would be wrong for readers: the mutant
  `FailsOverOn5xx` violates `PublishedIsWhole`, because a file of the other bucket is answered 403
  and a post of the other database 404. It also means that content decides: every
  request for a page that does not exist goes to both regions.
- A deployment during or after a failover sets the DR service to 0 tasks (`DeployDr`), and what
  was published in that region is not shown until it is scaled again.
- DR targets that are healthy while `/wp-login.php` does not answer keep the admin name
  away from a primary that has recovered: the check, which follows the name, fails there.
- While the primary load balancer is only unreachable, its targets stay healthy, and the
  admin name goes back and forth: the check passes in the DR region and fails at home.
- After a return both databases take writes; a post or a file of the DR region never
  reaches the primary.
- A region that is down altogether silences its own alarms.

PyMySQL (`MysqlSession`, `MysqlAuth`):

- `connect()` over a result that is not read to its end does not reset `_result`: the
  next command waits for the rest of the old result on the new connection, without limit
  since `read_timeout` is `None` (`seen.over`).
- A failed `connect()` leaves the closed socket in `_sock`, so `open` says `True`.
- Packets left by a row that could not be converted are told from a new answer by their number
  only, which goes round at 256 (`OwnReplies` names the case).
- A procedure that changes `autocommit` and fails leaves `get_autocommit()` wrong, since
  an error carries no status (`StatusIsCurrent` names it).
- The next statement drains the rows another cursor has not read, with a warning only;
  `SSCursor.close()` keeps its connection when the drain raises, and `SSCursor.scroll`
  counts rows that are not there.
- `_auth.py` has no `scramble_old_password`; `caching_sha2_password` and
  `sha256_password` without TLS need `cryptography`, which the setup Lambda's package lacks; a
  `server_public_key` kept from an earlier connection may be another server's
  (`RightPasswordEnters` lists these as the only refusals).

### Bounds

- Replica: two invocations, since the handlers interact through the one instance only
  and the third finds nothing the second does not. `PollInterval` is two ticks, so an
  API call or a phase of RDS may end between two looks; the glimpse is one tick, the
  longest the assumption allows. `MaxWait` is two polls and the Lambda timeout one
  poll more, so that both time-outs happen (the deployed values, with which only one
  does, are covered by `TimedOutIsDead`). The lag is 0 or 1 against a limit of 0.
- Service: two invocations, two desired tasks (one would never be "some of them"), none
  by Terraform, two turns, one Terraform run, one crash.
- Workflow: two executions, the overlap; the violations need one. Rotation, outages,
  hand promotion and the tasks' coming and going are unbounded.
- Credentials: three calls, so that a repair follows two that overlapped; two
  deployments; one task, since tasks do not interact. The violations need two calls.
- Deployment: one job that runs up to four scripts in a row, with two troubles
  anywhere among them: enough for a failed deployment, a failed destruction after it
  and a repeat of either. Its properties are about runs that do not overlap, so a
  second job would add nothing to them; overlap is in `deployment_orphans` (two jobs, no trouble)
  and in the theorems (any number of jobs). All stacks are there, in their real order.

- Outage: one post with its file, since posts do not interact; two tasks in the primary
  region, so that one may be missing, one in the DR region; a threshold of three. The
  region fails and returns without bound.
- `mysql_batch`: packets of 5 bytes for 16 MB, numbers modulo 3 for 256, statements of 6
  for 1 MB; rows of 1, 2 and 16 bytes and answers of 4, 5 and 16 make payloads of less than a packet,
  of exactly one, and of more packets than there are numbers. One password beside the
  empty one gives every right and wrong pair; all six kinds of plugin.
- `mysql_session`: one buffered and one unbuffered cursor, which is what the two read
  loops and a stolen result need; result sets of up to two rows; numbers modulo 3, so
  that they go round within an answer. Calls, reconnects and cuts are unbounded.

`ServiceRecovery`, `Credentials`, `Deployment` and `MysqlBatch` may stop when the bounded
events are used up or the batch is done. `MysqlSession` follows nobody beyond a call that
took a foreign packet (`Idle`): what such a session does next means nothing. Deadlock is
not checked in these. The others never stop (`Tick`, `PrimaryFailsOrReturns`),
so that check says nothing about waiting; the liveness properties do.

### Fairness

- `ReplicaFailover`: `Tick` (time passes), `Kill` (Lambda enforces its timeout),
  `PromotionProgress` (RDS finishes what it began). The handler's own steps have none:
  an AWS call may hang for ever. That every call is answered at all is the fairness part of
  the contract and rests on Lambda's timeout; what the handler's own loop does for it is the safety
  property `LimitIsKept`.
- `FailoverWorkflow`: the state machine's steps, which the Step Functions service takes,
  and that each handler call ends, which the contracts promise because Lambda's timeout ends every
  invocation. Neither the tasks nor the promotion are assumed to come.
- `Deployment`: `Work(j)`, a script goes on by itself and Terraform's calls end. Starting
  another run and every trouble are without fairness.
- `RegionOutage`: Route 53's probes and lookups and the two alarms' evaluations go on
  whenever they can. Replication, tasks, targets, the outage, editors and the failover have
  none; `<>[]` in the properties says what has to settle for them.
- `MysqlBatch`: the client process and the server each take the next step they can; the
  network has no fairness. `MysqlSession`: a call that can go on does (`WF_vars(Steps)`);
  nobody has to make a call.
- `ServiceRecovery` and `Credentials` have safety properties only and no fairness.

## Proofs

All of them hold for every value of the constants that the named assumptions allow.

**`ReplicaFailoverProofs`** (`TimingAssumption`, `LagAssumption`). `SuccessMeansSettled`
is not inductive: it needs to know what a first good look is worth. The
inductive invariant is `TypeOK`, `LooksInv`, `WaitInv` and `LimitInv`. `LooksInv`: an invocation
that has counted one good look took it in a settled promotion, or in a glimpse that
is at least as old as the part of its sleep that is over; when it wakes, `PollInterval` ticks
have passed and the glimpse, which is shorter, is over. `WaitInv` bounds
`waited` by `elapsed` in the same way and yields `TimedOutIsHonest`, and `TimedOutIsDead`
when the Lambda timeout is below `MaxWait`. `LimitInv` is the other direction: `elapsed` exceeds
`waited` and the sleep under way only by `lost`, and no sleep begins at `MaxWait` or beyond,
hence `LimitIsKept`. `ImplementsContractSafety` maps every action to a
step of the contract or a stutter.

**`ServiceRecoveryProofs`** (`CountAssumption`). The invariant adds to `TypeOK` that old
tasks only exist during a rollout (`OldMeansRolling`). With it a completed rollout makes
`RunningCount` the count of the current deployment, which is why the sum over all
deployments does no harm, and `ImplementsContract` follows as a whole (it has
no fairness).

**`FailoverWorkflowProofs`** (no assumption). `Milestones` ties each state of an execution
to what it has seen done (promoted, its row written, its call accepted), `Evidence`
ties calls and capacity to a row that was written. `TasksWaitForWrite` and `CompletionIsEarned`
follow.

**`DeploymentProofs`** (`DeploymentAssumption`, for the counters' types). `InputsAtHand` is proved for any number of
jobs from an invariant with four parts, all weakened by `overlapped`: `Closed` (the
property itself), `OneRuns` (at most one job runs), `ReadIsTrue` (what a running job has
read of its stack and its inputs is still recorded), `PassedAreEmpty` (the stacks a
destruction has passed are empty). A destruction keeps `Closed` because of the lemma
`ReadersGoFirst`, a fact about the two data structures of the module: in
`DestroyOrder` every stack comes after all that read it. `DestroyIsThorough` is
`PassedAreEmpty` at the last step. `DeployIsCurrent` needs a fifth part, `PassedAreBuilt`:
the stacks a running deployment has passed are whole and current. It is kept because
no stack is visited for the first time after one that reads it, and because a
second visit finds its stack whole and records nothing; from its fifteenth step on the buckets that
were visited again have their policies, which is why the script visits them twice.

**`CredentialsProofs`** (`NameAssumption`). A call that was disturbed by no other runs
alone, and so does an undisturbed deployment with its call; `CInv` says of each of its
steps what the step has already brought together: after `SetPassword` the database has
the call's password, after `PutSecret` the secret has it too, the plan has
read that secret, the copy is that one. `CallRepairs` and `DeployServesBothRegions` are the last step of each.
What others did earlier does not matter, which is why the repair works after any
history.

**`MysqlBatchProofs`**, `executemany()` (`WireAssumption`). `WireInv` puts the transfer in one of five phases: `Quiet`,
`Requesting`, `Running`, `Answering`, `Answered`. In each, the packets on their way form
one queue: numbers in a row (`Linked`, modulo any `SeqMod`), bytes in a row (`Spans`), all
full but the last, beginning at what the reader has and, while the connection holds,
ending at what the writer has sent. With that the reader always meets the number
it expects (`NumberingAgrees`), a payload ends exactly where it ended for the writer
(`StatementsAreWhole`), and the number of rows in doubt is that of one
statement (`RowcountTellsTheTruth`). `StatementsFit` follows from the loop of `_do_execute_many`.

**`MysqlBatchProofs`**, the connection phase (`AuthAssumption`). `AuthInv` is whose turn it is: `Greeting`, `ServersTurn`
(one packet on its way, with a proof of the client's own password for the salt
and key in question), `ClientsTurn` (what the server has sent, for each state it can be in),
`Ended`. `EndsAgree` is its last phase; `RightPasswordIsLetIn` needs that a proof made from the right
password is never judged wrong except in the listed cases.

**`RegionOutageProofs`** (`OutageAssumption`). Type correctness, which includes that
targets never outnumber tasks nor the check's count its threshold; that the replica has
nothing of its own before the promotion; and `PublishedIsWhole`. That is not a
fact about the origin groups alone: a post may be saved in one region with its file in the other,
and be replicated before its file is. The invariant is `FilesStored`, that the file of
every post of either database is in one of the buckets, and the lemmas say that the
origin groups find it there.

**`MysqlSessionProofs`** (`SessionAssumption`: the two classes of cursors are disjoint and none
is called "nobody", `MaxRows` is not 0, `SeqMod` is more than 1). None of the six
properties is inductive, since each is about the end of a method and the steps in
between depend on what the method has still to do. The invariant has five parts:

- `TypeInv`: the types, and `PlanOK`, which says what `todo` can be. `Rest(f, c)` are the lists
  that may be left when `f` is done in a call of `c`, `Plans(c)` the lists that begin
  with a frame and go on so. What is left of a plan is again a plan, and so is what every
  action puts in its place (`Go`, `ToDo`, and `RaiseWith` at its handlers). `ResultOK`
  ties `holder` to `result`. With the bound of `OwedOK` this yields `SessionTypes`.
- `ConnectOK`: while `connect()` is at work nothing is unread until its own command is
  answered, and an OK that is about to be read tells the mode asked for. Yields
  `ConnectLeavesTheMode`.
- `WireOK`: for each frame, what is on the wire (`Phase`). A reader finds its `Own` answer, a
  well-formed one that begins as this frame expects (`Firsts`, `InSet`, one packet only),
  complete while the link holds; between methods the wire holds the rest of an active result, further results, or
  nothing; or it is `Torn`, what follows a row that could not be read, whose numbers
  go on from the row. A `Torn` wire is told from a new answer by its first number only: that is where
  `seen.foreign` becomes "wrapped", and why `RepliesAreOwn` needs `SeqMod` and the row. A
  complete answer is never empty, so `WaitsAreAnswered` follows.
- `OwedOK`: only a cursor that holds an active result, or whose reader is at work, is owed rows
  (`Owing`), and never more than stand before the next end of a set on the wire. Yields
  `RowsAreTold`.
- `StatusOK`: every own packet tells the server's mode as it is (`Tells`), and if the client
  does not know it yet an OK is among the packets to come (`WillTell`), unless an error took its place
  (`seen.silent`). When the wire is empty none can be, hence `StatusIsTold`.

Each inductive invariant was model-checked before it was proved.

**Only model-checked**: liveness and everything under fairness (`EveryExecutionEnds`, `RerunCompletes`, `RepeatCompletes`, `AdminReachesDr`, `AdminComesHome`,
`IncidentRings`, `EveryCallReturns`, `EveryCallEnds`, the fairness part of
`PromotionContract`), and the violations. The provers at hand know neither `ENABLED`
nor a rule for fairness, so no liveness property is tried.

## Not modelled

- Of PyMySQL: the conversion of values and character sets (`converters.py`, `charset.py`,
  `times.py`) and the tables of constants, which hold no state; option files; the text
  `callproc` sends; the exception classes beyond which call raises; the command line and
  DB-API names of `__init__.py`. What a failed conversion does to the connection is in
  `MysqlSession` ("bad" rows).
- Of traffic: copies that CloudFront keeps, and the static listeners and certificates.
- Of media: deletions and versions (planned); the bucket policies are in `Deployment`.
- IAM, networks, certificates and the state bucket are static: as stacks they are in
  `Deployment`, as permissions and routes they have no behaviour.
- The image push is sequential input and output, in `Deployment` one command that may fail.
- WordPress itself is not in the repository. Log texts, JSON layout and names are left out.
