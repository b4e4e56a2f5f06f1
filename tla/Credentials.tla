----------------------------- MODULE Credentials -----------------------------
(***************************************************************************)
(* The application's database password and its copies: the database itself, *)
(* the primary and the DR secret, and the tasks that were given it when     *)
(* they started.  lambdas/primary-db-setup/app.py changes the first two, a  *)
(* deployment (deploy.sh) calls it and copies the secret to the DR region.  *)
(* Every call makes a password of its own: call c's is c.  Nothing keeps    *)
(* deployments or calls apart, and each may end anywhere.                   *)
(***************************************************************************)
CONSTANTS
  Calls,     \* invocations of the setup Lambda
  Deploys,   \* runs of deploy.sh
  Tasks,     \* tasks of the primary service
  None       \* no password yet

ASSUME NameAssumption == None \notin Calls /\ Calls \cap Deploys = {}

VARIABLES
  (* the copies of the password *)
  dbPw,      \* the one the primary database accepts
  granted,   \* the user has its privileges
  secret,    \* the primary secret
  drSecret,  \* the DR secret
  taskPw,    \* what each task started with, None if it does not run
  (* the setup Lambda *)
  pc,        \* the next statement of each call
  saw,       \* user_exists
  outcome,   \* how the call ended
  disturbed, \* history: the calls and deployments that overlapped another
  (* the deployments *)
  step,      \* the next step of each
  cur,       \* the call it waits for
  copy       \* the secret as Terraform read it

pwVars == <<dbPw, granted, secret, drSecret, taskPw>>
callVars == <<pc, saw, outcome, disturbed>>
deployVars == <<step, cur, copy>>
vars == <<pwVars, callVars, deployVars>>

Passwords == Calls \cup {None}

Init ==
  /\ dbPw = None /\ granted = FALSE
  /\ secret = None /\ drSecret = None /\ taskPw = [t \in Tasks |-> None]
  /\ pc = [c \in Calls |-> "idle"] /\ saw = [c \in Calls |-> FALSE]
  /\ outcome = [c \in Calls |-> "none"] /\ disturbed = {}
  /\ step = [d \in Deploys |-> "idle"] /\ cur = [d \in Deploys |-> None]
  /\ copy = [d \in Deploys |-> None]

-----------------------------------------------------------------------------
(* The setup Lambda.                                                         *)

InCall(c) == pc[c] \notin {"idle", "ended"}

End(c, how) ==
  /\ pc' = [pc EXCEPT ![c] = "ended"]
  /\ outcome' = [outcome EXCEPT ![c] = how]

At(c, from, to) == pc[c] = from /\ pc' = [pc EXCEPT ![c] = to]

LookUpUser(c) ==
  /\ At(c, "lookup", "password")
  /\ saw' = [saw EXCEPT ![c] = (dbPw # None)]
  /\ UNCHANGED <<pwVars, outcome, disturbed, deployVars>>

(* Mutant: the password of a user that exists is left alone. *)
CreateOnly(c) ==
  /\ At(c, "password", "grant")
  /\ dbPw' = IF saw[c] THEN dbPw ELSE c
  /\ UNCHANGED <<granted, secret, drSecret, taskPw, saw, outcome, disturbed, deployVars>>

(* ALTER or CREATE USER, which MySQL commits at once.  A user created since  *)
(* the look-up makes CREATE fail.                                            *)
SetPassword(c) ==
  /\ saw[c] \/ dbPw = None
  /\ At(c, "password", "grant")
  /\ dbPw' = c
  /\ UNCHANGED <<granted, secret, drSecret, taskPw, saw, outcome, disturbed, deployVars>>

CreateRaises(c) ==
  /\ pc[c] = "password" /\ ~saw[c] /\ dbPw # None
  /\ End(c, "raised")
  /\ UNCHANGED <<pwVars, saw, disturbed, deployVars>>

(* Mutant: only a new user is given its privileges. *)
GrantNew(c) ==
  /\ At(c, "grant", "put")
  /\ granted' = (granted \/ ~saw[c])
  /\ UNCHANGED <<dbPw, secret, drSecret, taskPw, saw, outcome, disturbed, deployVars>>

Grant(c) ==
  /\ At(c, "grant", "put")
  /\ granted' = TRUE
  /\ UNCHANGED <<dbPw, secret, drSecret, taskPw, saw, outcome, disturbed, deployVars>>

PutSecret(c) ==
  /\ pc[c] = "put"
  /\ secret' = c
  /\ End(c, "ok")
  /\ UNCHANGED <<dbPw, granted, drSecret, taskPw, saw, disturbed, deployVars>>

(* Any statement raises, before or after it took effect, or Lambda ends it.  *)
CallDies(c) ==
  /\ InCall(c)
  /\ End(c, "raised")
  /\ secret' \in {secret} \cup (IF pc[c] = "put" THEN {c} ELSE {})
  /\ UNCHANGED <<dbPw, granted, drSecret, taskPw, saw, disturbed, deployVars>>

-----------------------------------------------------------------------------
(* deploy.sh.                                                                *)

Deploying(d) == step[d] \notin {"idle", "done", "aborted"}

To(d, s) == step' = [step EXCEPT ![d] = s]

Issue(d, c) ==
  /\ pc[c] = "idle"
  /\ pc' = [pc EXCEPT ![c] = "lookup"]
  /\ cur' = [cur EXCEPT ![d] = c]
  /\ To(d, "waiting")
  /\ LET others == {b \in Calls : InCall(b)} \cup {b \in Deploys : b # d /\ Deploying(b)}
     IN  disturbed' = IF others = {} THEN disturbed ELSE disturbed \cup others \cup {c, d}
  /\ UNCHANGED <<pwVars, saw, outcome, copy>>

StartDeploy(d, c) ==
  /\ step[d] = "idle"
  /\ Issue(d, c)

(* The CLI takes a slow answer for a lost one and calls again. *)
CliRepeats(d, c) ==
  /\ step[d] = "waiting" /\ InCall(cur[d])
  /\ Issue(d, c)

(* Mutant: the call is made asynchronously. *)
FireAndForget(d) ==
  /\ step[d] = "waiting"
  /\ To(d, "read")
  /\ UNCHANGED <<pwVars, callVars, cur, copy>>

(* The CLI succeeds whatever the function returned or raised. *)
CallAnswered(d) ==
  /\ step[d] = "waiting" /\ pc[cur[d]] = "ended"
  /\ To(d, "read")
  /\ UNCHANGED <<pwVars, callVars, cur, copy>>

(* Mutant: the plan goes on without a value. *)
ReadAnyway(d) ==
  /\ step[d] = "read"
  /\ To(d, "write")
  /\ copy' = [copy EXCEPT ![d] = secret]
  /\ UNCHANGED <<pwVars, callVars, cur>>

(* terraform plan reads the primary secret; without a value it fails. *)
ReadSecret(d) ==
  /\ step[d] = "read"
  /\ To(d, IF secret = None THEN "aborted" ELSE "write")
  /\ copy' = [copy EXCEPT ![d] = secret]
  /\ UNCHANGED <<pwVars, callVars, cur>>

(* terraform apply writes what the plan read. *)
WriteDrSecret(d) ==
  /\ step[d] = "write"
  /\ To(d, "tasks")
  /\ drSecret' = copy[d]
  /\ UNCHANGED <<dbPw, granted, secret, taskPw, callVars, cur, copy>>

(* Tasks that run keep running: the secret's ARN, all that the task          *)
(* definition holds of it, has not changed.                                  *)
StartTasks(d) ==
  /\ step[d] = "tasks"
  /\ To(d, "done")
  /\ taskPw' = [t \in Tasks |-> IF taskPw[t] = None THEN secret ELSE taskPw[t]]
  /\ UNCHANGED <<dbPw, granted, secret, drSecret, callVars, cur, copy>>

(* set -e: a command that fails ends the deployment. *)
DeployAborts(d) ==
  /\ Deploying(d)
  /\ To(d, "aborted")
  /\ UNCHANGED <<pwVars, callVars, cur, copy>>

-----------------------------------------------------------------------------
(* ECS replaces a task that died; the new one reads the secret. *)
ReplaceTask(t) ==
  /\ taskPw[t] # None
  /\ taskPw' = [taskPw EXCEPT ![t] = secret]
  /\ UNCHANGED <<dbPw, granted, secret, drSecret, callVars, deployVars>>

Setup(c) ==
  \/ LookUpUser(c) \/ SetPassword(c) \/ CreateRaises(c) \/ Grant(c)
  \/ PutSecret(c) \/ CallDies(c)

Deploy(d) ==
  \/ \E c \in Calls : StartDeploy(d, c) \/ CliRepeats(d, c)
  \/ CallAnswered(d) \/ ReadSecret(d) \/ WriteDrSecret(d) \/ StartTasks(d)
  \/ DeployAborts(d)

Next ==
  \/ \E c \in Calls : Setup(c)
  \/ \E d \in Deploys : Deploy(d)
  \/ \E t \in Tasks : ReplaceTask(t)

Spec == Init /\ [][Next]_vars

-----------------------------------------------------------------------------
(* Properties.                                                               *)

(* The types; a deployment past the plan has read a password. *)
TypeOK ==
  /\ {dbPw, secret, drSecret} \subseteq Passwords
  /\ granted \in BOOLEAN /\ taskPw \in [Tasks -> Passwords]
  /\ pc \in [Calls -> {"idle", "lookup", "password", "grant", "put", "ended"}]
  /\ saw \in [Calls -> BOOLEAN] /\ outcome \in [Calls -> {"none", "ok", "raised"}]
  /\ step \in [Deploys -> {"idle", "waiting", "read", "write", "tasks", "done", "aborted"}]
  /\ cur \in [Deploys -> Passwords] /\ copy \in [Deploys -> Passwords]
  /\ disturbed \subseteq Calls \cup Deploys
  /\ \A d \in Deploys : step[d] \in {"write", "tasks", "done"} => copy[d] # None

SecretOpensDb == secret # None /\ secret = dbPw /\ granted

Succeeds(c) == outcome[c] = "none" /\ outcome'[c] = "ok"

(* Overlapping calls may leave the copies apart; the next call that runs     *)
(* undisturbed to its end brings the secret and the database together again, *)
(* however the earlier ones ended.                                           *)
UndisturbedCallRepairs ==
  [][\A c \in Calls : Succeeds(c) /\ c \notin disturbed => SecretOpensDb']_vars

Completes(d) == step[d] # "done" /\ step'[d] = "done"

(* A deployment that ran undisturbed, with a setup call that succeeded,      *)
(* leaves both regions a secret that opens the database and its replica.     *)
CompletedDeployServesBothRegions ==
  [][\A d \in Deploys :
       Completes(d) /\ outcome[cur[d]] = "ok" /\ {d, cur[d]} \cap disturbed = {}
         => SecretOpensDb /\ drSecret = dbPw]_vars

(* "Deployment complete!": one that ran undisturbed leaves a working secret. *)
CompletedDeployHasSecret ==
  [][\A d \in Deploys : Completes(d) /\ d \notin disturbed => SecretOpensDb]_vars

=============================================================================
