-------------------------- MODULE CredentialsProofs --------------------------
(***************************************************************************)
(* Theorems about Credentials, for any number of calls, deployments and     *)
(* tasks, wherever each of them ends.                                       *)
(***************************************************************************)
EXTENDS Credentials, TLAPS

(* A call has an outcome when it has ended, and not before. *)
Outcomes == \A c \in Calls : outcome[c] # "none" => pc[c] = "ended"

(* What an undisturbed call has done is still so, since it runs alone. *)
CallsAlone ==
  \A c \in Calls :
    /\ pc[c] = "put" => granted
    /\ InCall(c) /\ c \notin disturbed => \A b \in Calls : InCall(b) => b = c
    /\ pc[c] \in {"grant", "put"} /\ c \notin disturbed => dbPw = c

(* An undisturbed deployment runs alone, but for its call. *)
DeploysAlone ==
  \A d \in Deploys : Deploying(d) =>
    /\ cur[d] \in Calls
    /\ step[d] # "waiting" => pc[cur[d]] = "ended"
    /\ d \notin disturbed =>
         /\ \A b \in Deploys : Deploying(b) => b = d
         /\ \A c \in Calls : InCall(c) => c = cur[d]

(* What it has copied is what its call has left. *)
Copied(d) ==
  /\ dbPw = cur[d] /\ secret = cur[d] /\ granted
  /\ step[d] \in {"write", "tasks"} => copy[d] = cur[d]
  /\ step[d] = "tasks" => drSecret = cur[d]

Copies ==
  \A d \in Deploys :
    /\ Deploying(d) /\ d \notin disturbed
    /\ outcome[cur[d]] = "ok" /\ cur[d] \notin disturbed
    => Copied(d)

CInv == TypeOK /\ Outcomes /\ CallsAlone /\ DeploysAlone /\ Copies

-----------------------------------------------------------------------------
LEMMA InitCInv == Init => CInv
<1> SUFFICES ASSUME Init PROVE CInv
  OBVIOUS
<1> USE DEF Init, Passwords
<1>1. TypeOK
  BY DEF TypeOK
<1>2. Outcomes /\ CallsAlone /\ DeploysAlone /\ Copies
  BY DEF Outcomes, CallsAlone, DeploysAlone, Copies, InCall, Deploying
<1> QED BY <1>1, <1>2 DEF CInv

LEMMA NextTypeOK == CInv /\ [Next]_vars => TypeOK'
<1> SUFFICES ASSUME CInv, [Next]_vars PROVE TypeOK'
  OBVIOUS
<1> USE NameAssumption DEF CInv, TypeOK, Passwords, InCall, At, End, To, pwVars, callVars, deployVars
<1>1. ASSUME NEW c \in Calls, Setup(c) PROVE TypeOK'
  <2>1. CASE LookUpUser(c) BY <2>1 DEF LookUpUser
  <2>2. CASE SetPassword(c) BY <2>2 DEF SetPassword
  <2>3. CASE CreateRaises(c) BY <2>3 DEF CreateRaises
  <2>4. CASE Grant(c) BY <2>4 DEF Grant
  <2>5. CASE PutSecret(c) BY <2>5 DEF PutSecret
  <2>6. CASE CallDies(c) BY <2>6 DEF CallDies
  <2> QED BY <1>1, <2>1, <2>2, <2>3, <2>4, <2>5, <2>6 DEF Setup
<1>2. ASSUME NEW d \in Deploys, Deploy(d) PROVE TypeOK'
  <2>1. ASSUME NEW c \in Calls, Issue(d, c) PROVE TypeOK'
    <3>1. disturbed' \subseteq Calls \cup Deploys BY <2>1 DEF Issue
    <3> QED BY <2>1, <3>1 DEF Issue
  <2>2. CASE CallAnswered(d) BY <2>2 DEF CallAnswered
  <2>3. CASE ReadSecret(d) BY <2>3 DEF ReadSecret
  <2>4. CASE WriteDrSecret(d) BY <2>4 DEF WriteDrSecret
  <2>5. CASE StartTasks(d) BY <2>5 DEF StartTasks
  <2>6. CASE DeployAborts(d) BY <2>6 DEF DeployAborts
  <2> QED BY <1>2, <2>1, <2>2, <2>3, <2>4, <2>5, <2>6 DEF Deploy, StartDeploy, CliRepeats
<1>3. ASSUME NEW t \in Tasks, ReplaceTask(t) PROVE TypeOK'
  BY <1>3 DEF ReplaceTask
<1>4. CASE UNCHANGED vars
  BY <1>4 DEF vars
<1> QED BY <1>1, <1>2, <1>3, <1>4 DEF Next

(* Who disturbs whom: a call is issued next to others only at their cost.    *)
LEMMA IssueDisturbs ==
  ASSUME NEW d \in Deploys, NEW c \in Calls, Issue(d, c)
  PROVE  /\ disturbed \subseteq disturbed'
         /\ \A b \in Calls : InCall(b) => {b, c, d} \subseteq disturbed'
         /\ \A b \in Deploys : b # d /\ Deploying(b) => {b, c, d} \subseteq disturbed'
<1> DEFINE others == {b \in Calls : InCall(b)} \cup {b \in Deploys : b # d /\ Deploying(b)}
<1>1. disturbed' = IF others = {} THEN disturbed ELSE disturbed \cup others \cup {c, d}
  BY DEF Issue
<1>2. \A b \in others : {b, c, d} \subseteq disturbed'
  BY <1>1
<1> QED BY <1>1, <1>2

(* Every step of Next, for the lemmas that go through them all. *)
LEMMA Steps ==
  ASSUME [Next]_vars
  PROVE  \/ \E c \in Calls : Setup(c)
         \/ \E d \in Deploys, c \in Calls :
              Issue(d, c) /\ (step[d] = "idle" \/ (step[d] = "waiting" /\ InCall(cur[d])))
         \/ \E d \in Deploys : CallAnswered(d) \/ ReadSecret(d) \/ WriteDrSecret(d)
                              \/ StartTasks(d) \/ DeployAborts(d)
         \/ \E t \in Tasks : ReplaceTask(t)
         \/ UNCHANGED vars
BY DEF Next, Deploy, StartDeploy, CliRepeats

LEMMA NextOutcomes == CInv /\ [Next]_vars => Outcomes'
<1> SUFFICES ASSUME CInv, [Next]_vars PROVE Outcomes'
  OBVIOUS
<1> USE DEF CInv, TypeOK, Outcomes, At, End, pwVars, callVars, deployVars
<1>1. ASSUME NEW c \in Calls, Setup(c) PROVE Outcomes'
  BY <1>1 DEF Setup, LookUpUser, SetPassword, CreateRaises, Grant, PutSecret, CallDies
<1>2. ASSUME NEW d \in Deploys, NEW c \in Calls, Issue(d, c) PROVE Outcomes'
  BY <1>2 DEF Issue
<1>3. ASSUME NEW d \in Deploys,
             CallAnswered(d) \/ ReadSecret(d) \/ WriteDrSecret(d) \/ StartTasks(d) \/ DeployAborts(d)
      PROVE  Outcomes'
  BY <1>3 DEF CallAnswered, ReadSecret, WriteDrSecret, StartTasks, DeployAborts
<1>4. ASSUME NEW t \in Tasks, ReplaceTask(t) PROVE Outcomes'
  BY <1>4 DEF ReplaceTask
<1>5. CASE UNCHANGED vars
  BY <1>5 DEF vars
<1> QED BY <1>1, <1>2, <1>3, <1>4, <1>5, Steps

LEMMA NextCallsAlone == CInv /\ [Next]_vars => CallsAlone'
<1> SUFFICES ASSUME CInv, [Next]_vars PROVE CallsAlone'
  OBVIOUS
<1> USE DEF CInv, TypeOK, CallsAlone, InCall, At, End, pwVars, callVars, deployVars
<1>1. ASSUME NEW c \in Calls, Setup(c) PROVE CallsAlone'
  <2>1. CASE LookUpUser(c) BY <2>1 DEF LookUpUser
  <2>2. CASE SetPassword(c) BY <2>2 DEF SetPassword
  <2>3. CASE CreateRaises(c) BY <2>3 DEF CreateRaises
  <2>4. CASE Grant(c) BY <2>4 DEF Grant
  <2>5. CASE PutSecret(c) BY <2>5 DEF PutSecret
  <2>6. CASE CallDies(c) BY <2>6 DEF CallDies
  <2> QED BY <1>1, <2>1, <2>2, <2>3, <2>4, <2>5, <2>6 DEF Setup
<1>2. ASSUME NEW d \in Deploys, NEW c \in Calls, Issue(d, c) PROVE CallsAlone'
  <2>1. /\ pc[c] = "idle" /\ pc' = [pc EXCEPT ![c] = "lookup"]
        /\ UNCHANGED <<granted, dbPw>>
    BY <1>2 DEF Issue
  <2> QED BY <1>2, <2>1, IssueDisturbs
<1>3. ASSUME NEW d \in Deploys,
             CallAnswered(d) \/ ReadSecret(d) \/ WriteDrSecret(d) \/ StartTasks(d) \/ DeployAborts(d)
      PROVE  CallsAlone'
  BY <1>3 DEF CallAnswered, ReadSecret, WriteDrSecret, StartTasks, DeployAborts
<1>4. ASSUME NEW t \in Tasks, ReplaceTask(t) PROVE CallsAlone'
  BY <1>4 DEF ReplaceTask
<1>5. CASE UNCHANGED vars
  BY <1>5 DEF vars
<1> QED BY <1>1, <1>2, <1>3, <1>4, <1>5, Steps

LEMMA NextDeploysAlone == CInv /\ [Next]_vars => DeploysAlone'
<1> SUFFICES ASSUME CInv, [Next]_vars PROVE DeploysAlone'
  OBVIOUS
<1> USE DEF CInv, TypeOK, DeploysAlone, Deploying, InCall, At, End, To, pwVars, callVars, deployVars
<1>1. ASSUME NEW c \in Calls, Setup(c) PROVE DeploysAlone'
  <2>1. /\ InCall(c)
        /\ \E p : pc' = [pc EXCEPT ![c] = p]
        /\ UNCHANGED <<disturbed, deployVars>>
    BY <1>1 DEF Setup, LookUpUser, SetPassword, CreateRaises, Grant, PutSecret, CallDies
  <2> QED BY <2>1
<1>2. ASSUME NEW d \in Deploys, NEW c \in Calls, Issue(d, c),
             step[d] = "idle" \/ (step[d] = "waiting" /\ InCall(cur[d]))
      PROVE  DeploysAlone'
  <2>1. /\ pc[c] = "idle" /\ pc' = [pc EXCEPT ![c] = "lookup"]
        /\ cur' = [cur EXCEPT ![d] = c] /\ step' = [step EXCEPT ![d] = "waiting"]
    BY <1>2 DEF Issue
  <2>2. /\ disturbed \subseteq disturbed'
        /\ \A b \in Calls : InCall(b) => {b, c, d} \subseteq disturbed'
        /\ \A b \in Deploys : b # d /\ Deploying(b) => {b, c, d} \subseteq disturbed'
    BY <1>2, IssueDisturbs
  <2> HIDE DEF Deploying, InCall
  <2>3. ASSUME NEW b \in Deploys, Deploying(b)', b # d
        PROVE  /\ cur'[b] \in Calls
               /\ step'[b] # "waiting" => pc'[cur'[b]] = "ended"
               /\ b \in disturbed'
    BY <2>1, <2>2, <2>3 DEF Deploying
  <2>4. ASSUME d \notin disturbed'
        PROVE  /\ \A b \in Deploys : Deploying(b)' => b = d
               /\ \A b \in Calls : InCall(b)' => b = c
    BY <2>1, <2>2, <2>4 DEF Deploying, InCall
  <2> QED BY <2>1, <2>3, <2>4
<1>3. ASSUME NEW d \in Deploys,
             CallAnswered(d) \/ ReadSecret(d) \/ WriteDrSecret(d) \/ StartTasks(d) \/ DeployAborts(d)
      PROVE  DeploysAlone'
  <2>1. CASE CallAnswered(d) BY <2>1 DEF CallAnswered
  <2>2. CASE ReadSecret(d) BY <2>2 DEF ReadSecret
  <2>3. CASE WriteDrSecret(d) BY <2>3 DEF WriteDrSecret
  <2>4. CASE StartTasks(d) BY <2>4 DEF StartTasks
  <2>5. CASE DeployAborts(d) BY <2>5 DEF DeployAborts
  <2> QED BY <1>3, <2>1, <2>2, <2>3, <2>4, <2>5
<1>4. ASSUME NEW t \in Tasks, ReplaceTask(t) PROVE DeploysAlone'
  BY <1>4 DEF ReplaceTask
<1>5. CASE UNCHANGED vars
  BY <1>5 DEF vars
<1> QED BY <1>1, <1>2, <1>3, <1>4, <1>5, Steps

LEMMA NextCopies == CInv /\ [Next]_vars => Copies'
<1> SUFFICES ASSUME CInv, [Next]_vars PROVE Copies'
  OBVIOUS
<1> USE DEF CInv, TypeOK, Copies, Copied, Deploying
<1>1. ASSUME NEW c \in Calls, Setup(c) PROVE Copies'
  <2>1. InCall(c) /\ outcome[c] = "none" /\ UNCHANGED <<disturbed, deployVars, drSecret>>
    BY <1>1 DEF Setup, LookUpUser, SetPassword, CreateRaises, Grant, PutSecret, CallDies,
                At, InCall, Outcomes, pwVars
  <2> SUFFICES ASSUME NEW d \in Deploys, Deploying(d), d \notin disturbed,
                      outcome'[cur[d]] = "ok", cur[d] \notin disturbed
               PROVE  Copied(d)'
    BY <2>1 DEF deployVars
  <2>2. cur[d] \in Calls /\ c = cur[d] /\ step[d] = "waiting"
    BY <2>1 DEF DeploysAlone, InCall
  <2>3. PutSecret(c)
    BY <1>1, <2>1, <2>2 DEF Setup, LookUpUser, SetPassword, CreateRaises, Grant, CallDies, End
  <2>4. dbPw = c /\ granted
    BY <2>2, <2>3 DEF CallsAlone, PutSecret
  <2> QED BY <2>1, <2>2, <2>3, <2>4 DEF PutSecret, deployVars
<1>2. ASSUME NEW d \in Deploys, NEW c \in Calls, Issue(d, c),
             step[d] = "idle" \/ (step[d] = "waiting" /\ InCall(cur[d]))
      PROVE  Copies'
  <2>1. /\ outcome[c] = "none"
        /\ cur' = [cur EXCEPT ![d] = c] /\ step' = [step EXCEPT ![d] = "waiting"]
        /\ UNCHANGED <<pwVars, outcome, copy>>
    BY <1>2 DEF Issue, Outcomes, To
  <2>2. /\ disturbed \subseteq disturbed'
        /\ \A b \in Deploys : b # d /\ Deploying(b) => b \in disturbed'
    BY <1>2, IssueDisturbs
  <2>3. ASSUME NEW b \in Deploys, b # d, Deploying(b)' PROVE b \in disturbed'
    BY <2>1, <2>2, <2>3
  <2>4. outcome'[cur'[d]] = "none"
    BY <2>1
  <2> QED BY <2>3, <2>4
<1>3. ASSUME NEW d \in Deploys,
             CallAnswered(d) \/ ReadSecret(d) \/ WriteDrSecret(d) \/ StartTasks(d) \/ DeployAborts(d)
      PROVE  Copies'
  <2>1. /\ Deploying(d) /\ \E s : step' = [step EXCEPT ![d] = s]
        /\ UNCHANGED <<dbPw, granted, secret, outcome, disturbed, cur>>
    BY <1>3 DEF CallAnswered, ReadSecret, WriteDrSecret, StartTasks, DeployAborts, To,
                pwVars, callVars
  <2> SUFFICES ASSUME NEW b \in Deploys, Deploying(b)', b \notin disturbed,
                      outcome[cur[b]] = "ok", cur[b] \notin disturbed
               PROVE  Copied(b)'
    BY <2>1
  <2>2. Deploying(b)
    BY <2>1
  <2>3. b = d
    BY <2>1, <2>2 DEF DeploysAlone
  <2>4. Copied(d)
    BY <2>1, <2>3
  <2>5. CASE CallAnswered(d)
    BY <2>3, <2>4, <2>5 DEF CallAnswered, To, pwVars
  <2>6. CASE ReadSecret(d)
    BY <2>3, <2>4, <2>6 DEF ReadSecret, To, pwVars
  <2>7. CASE WriteDrSecret(d)
    BY <2>3, <2>4, <2>7 DEF WriteDrSecret, To
  <2>8. CASE StartTasks(d) \/ DeployAborts(d)
    BY <2>3, <2>8 DEF StartTasks, DeployAborts, To
  <2> QED BY <1>3, <2>5, <2>6, <2>7, <2>8
<1>4. ASSUME NEW t \in Tasks, ReplaceTask(t) PROVE Copies'
  BY <1>4 DEF ReplaceTask, callVars, deployVars
<1>5. CASE UNCHANGED vars
  BY <1>5 DEF vars, pwVars, callVars, deployVars
<1> QED BY <1>1, <1>2, <1>3, <1>4, <1>5, Steps

(* The invariant holds of every state that calls and deployments reach. *)
THEOREM Invariance == Spec => []CInv
<1>1. CInv /\ [Next]_vars => CInv'
  BY NextTypeOK, NextOutcomes, NextCallsAlone, NextDeploysAlone, NextCopies DEF CInv
<1> QED BY <1>1, InitCInv, PTL DEF Spec

-----------------------------------------------------------------------------
(* Every variable keeps its type, and a deployment past its plan has read a  *)
(* password from the primary secret.                                         *)
THEOREM TypeCorrect == Spec => []TypeOK
<1>1. CInv => TypeOK
  BY DEF CInv
<1> QED BY <1>1, Invariance, PTL

(* A setup call that runs undisturbed to its end leaves a secret that opens  *)
(* the database, whatever the calls before it left behind.                   *)
THEOREM CallRepairs == Spec => UndisturbedCallRepairs
<1> DEFINE Repairs == \A c \in Calls : Succeeds(c) /\ c \notin disturbed => SecretOpensDb'
<1>1. CInv /\ [Next]_vars => Repairs
  <2> SUFFICES ASSUME CInv, [Next]_vars,
                      NEW c \in Calls, Succeeds(c), c \notin disturbed
               PROVE  SecretOpensDb'
    OBVIOUS
  <2> USE DEF CInv, TypeOK, Succeeds
  <2>1. ASSUME NEW b \in Calls, Setup(b) PROVE PutSecret(b) /\ b = c
    BY <2>1 DEF Setup, LookUpUser, SetPassword, CreateRaises, Grant, PutSecret, CallDies, End
  <2>2. ASSUME NEW d \in Deploys, NEW b \in Calls, Issue(d, b) PROVE FALSE
    BY <2>2 DEF Issue
  <2>3. ASSUME NEW d \in Deploys,
               CallAnswered(d) \/ ReadSecret(d) \/ WriteDrSecret(d) \/ StartTasks(d) \/ DeployAborts(d)
        PROVE  FALSE
    BY <2>3 DEF CallAnswered, ReadSecret, WriteDrSecret, StartTasks, DeployAborts, callVars
  <2>4. ASSUME NEW t \in Tasks, ReplaceTask(t) PROVE FALSE
    BY <2>4 DEF ReplaceTask, callVars
  <2>5. ASSUME UNCHANGED vars PROVE FALSE
    BY <2>5 DEF vars, callVars
  <2> HIDE DEF CInv, TypeOK, Succeeds
  <2>6. PutSecret(c)
    BY <2>1, <2>2, <2>3, <2>4, <2>5, Steps
  <2> USE DEF CInv, TypeOK
  <2>7. dbPw = c /\ granted
    BY <2>6 DEF CallsAlone, PutSecret
  <2> QED BY <2>6, <2>7, NameAssumption DEF PutSecret, SecretOpensDb
<1>2. Spec => [][Repairs]_vars
  BY <1>1, Invariance, PTL DEF Spec
<1> QED BY <1>2 DEF UndisturbedCallRepairs

(* A deployment that ran undisturbed, whose call succeeded, leaves both      *)
(* regions a secret that opens the database and its replica.                 *)
THEOREM DeployServesBothRegions == Spec => CompletedDeployServesBothRegions
<1> DEFINE Serves ==
      \A d \in Deploys :
        Completes(d) /\ outcome[cur[d]] = "ok" /\ {d, cur[d]} \cap disturbed = {}
          => SecretOpensDb /\ drSecret = dbPw
<1>1. CInv /\ [Next]_vars => Serves
  <2> SUFFICES ASSUME CInv, [Next]_vars, NEW d \in Deploys, Completes(d),
                      outcome[cur[d]] = "ok", d \notin disturbed, cur[d] \notin disturbed
               PROVE  SecretOpensDb /\ drSecret = dbPw
    OBVIOUS
  <2> USE DEF CInv, TypeOK, Completes
  <2>1. ASSUME NEW c \in Calls, Setup(c) PROVE FALSE
    BY <2>1 DEF Setup, LookUpUser, SetPassword, CreateRaises, Grant, PutSecret, CallDies, deployVars
  <2>2. ASSUME NEW b \in Deploys, NEW c \in Calls, Issue(b, c) PROVE FALSE
    BY <2>2 DEF Issue, To
  <2>3. ASSUME NEW b \in Deploys,
               CallAnswered(b) \/ ReadSecret(b) \/ WriteDrSecret(b) \/ StartTasks(b) \/ DeployAborts(b)
        PROVE  step[d] = "tasks"
    BY <2>3 DEF CallAnswered, ReadSecret, WriteDrSecret, StartTasks, DeployAborts, To
  <2>4. ASSUME NEW t \in Tasks, ReplaceTask(t) PROVE FALSE
    BY <2>4 DEF ReplaceTask, deployVars
  <2>5. ASSUME UNCHANGED vars PROVE FALSE
    BY <2>5 DEF vars, deployVars
  <2> HIDE DEF CInv, TypeOK, Completes
  <2>6. step[d] = "tasks"
    BY <2>1, <2>2, <2>3, <2>4, <2>5, Steps
  <2> USE DEF CInv, TypeOK
  <2>7. Copied(d) /\ cur[d] \in Calls
    BY <2>6 DEF Copies, DeploysAlone, Deploying
  <2> QED BY <2>6, <2>7, NameAssumption DEF Copied, SecretOpensDb
<1>2. Spec => [][Serves]_vars
  BY <1>1, Invariance, PTL DEF Spec
<1> QED BY <1>2 DEF CompletedDeployServesBothRegions

=============================================================================
