--------------------------- MODULE ReplicaFailover ---------------------------
(***************************************************************************)
(* lambdas/replica-failover-handler/app.py: the first Lambda of the DR      *)
(* workflow.  Each invocation describes the DR instance, asks RDS to        *)
(* promote it, and polls until the promotion looks complete twice in a row. *)
(* Several invocations may overlap: the operator may start a second         *)
(* execution while the first one runs.                                      *)
(*                                                                          *)
(* RDS itself is external; its part below is what the handler relies on.    *)
(* Time is explicit: every action is instantaneous, Tick lets time pass,    *)
(* so that an API call may take any time up to the Lambda timeout.          *)
(***************************************************************************)
EXTENDS Naturals

CONSTANTS
  Invocations,   \* the invocations of the function
  PollInterval,  \* POLL_INTERVAL_SECONDS, in ticks
  MaxWait,       \* MAX_WAIT_SECONDS, in ticks
  LambdaTimeout, \* the timeout Terraform gives the function, in ticks
  GlimpseTime,   \* ticks an unfinished promotion can look complete
  MaxLag,        \* MAX_REPLICATION_LAG_SECONDS
  LagBound,      \* bound on the lag the model distinguishes
  None           \* Python's None

ASSUME TimingAssumption ==
  /\ PollInterval \in Nat \ {0}
  /\ MaxWait \in Nat
  /\ LambdaTimeout \in Nat
  /\ GlimpseTime \in Nat
  /\ GlimpseTime < PollInterval
ASSUME LagAssumption ==
  /\ MaxLag \in Nat
  /\ LagBound \in Nat
  /\ None \notin Nat

VARIABLES
  (* the DR instance *)
  phase,     \* how far its promotion is
  busy,      \* maintenance of a replica or writer: its status is not "available"
  age,       \* ticks since the current glimpse began
  lag,       \* seconds the replica is behind the primary
  lagAtPromotion, \* the lag when RDS accepted the promotion, None before
  (* the invocations *)
  pc,        \* the next statement of each
  waited,    \* the loop's own count of the time it waited
  stable,    \* stable_success_count
  rem,       \* ticks left of the current time.sleep
  elapsed,   \* ticks since the invocation began
  lost,      \* history: those of them it did not ask to sleep
  result     \* what it returned, or how it died

dbVars == <<phase, busy, age, lag, lagAtPromotion>>
handlerVars == <<pc, waited, stable, rem, elapsed, lost, result>>
vars == <<dbVars, handlerVars>>

-----------------------------------------------------------------------------
(* What describe_db_instances may answer.                                   *)

Phases == {"replica", "requested", "working", "glimpse", "finishing", "settled"}

Description == [available : BOOLEAN, source : BOOLEAN,
                pending : BOOLEAN, endpoint : BOOLEAN]

(* is_promotion_complete over get_promotion_checks. *)
IsPromotionComplete(d) ==
  d.available /\ ~d.source /\ ~d.pending /\ d.endpoint

LooksFinished(d) == d = [available |-> TRUE, source |-> FALSE,
                         pending |-> FALSE, endpoint |-> TRUE]

(* A replica and a just-requested promotion still name their source.  While *)
(* RDS works nothing is certain, and for one glimpse the instance may look  *)
(* finished although it is not.  The new writer may be modified or backed   *)
(* up later, and is then not "available".                                   *)
Describes(d) ==
  CASE phase = "replica"   -> d.source /\ d.available = ~busy /\ d.endpoint
    [] phase = "requested" -> d.source /\ d.endpoint
    [] phase = "working"   -> ~LooksFinished(d)
    [] phase = "glimpse"   -> LooksFinished(d)
    [] phase = "finishing" -> ~d.source /\ ~LooksFinished(d)
    [] OTHER               -> ~d.source /\ LooksFinished(d) = ~busy

(* extract_replica_lag: the describe output carries no lag. *)
ExtractReplicaLag(d) == None

-----------------------------------------------------------------------------
Running(e) == pc[e] \notin {"idle", "done"}

Return(e, r) ==
  /\ pc' = [pc EXCEPT ![e] = "done"]
  /\ result' = [result EXCEPT ![e] = r]

Init ==
  /\ phase = "replica" /\ busy = FALSE /\ age = 0
  /\ lag = 0 /\ lagAtPromotion = None
  /\ pc = [e \in Invocations |-> "idle"]
  /\ waited = [e \in Invocations |-> 0]
  /\ stable = [e \in Invocations |-> 0]
  /\ rem = [e \in Invocations |-> 0]
  /\ elapsed = [e \in Invocations |-> 0]
  /\ lost = [e \in Invocations |-> 0]
  /\ result = [e \in Invocations |-> "none"]

Invoke(e) ==
  /\ pc[e] = "idle"
  /\ pc' = [pc EXCEPT ![e] = "describe"]
  /\ UNCHANGED <<dbVars, waited, stable, rem, elapsed, lost, result>>

(* The first describe: a replica that is not available ends the invocation, *)
(* and so would a lag above the limit if one were ever extracted.           *)
InitialDescribe(e) ==
  /\ pc[e] = "describe"
  /\ \E d \in Description :
       /\ Describes(d)
       /\ LET seen == ExtractReplicaLag(d)
          IN  IF ~d.available
                THEN Return(e, "notAvailable")
                ELSE IF seen # None /\ seen > MaxLag
                       THEN Return(e, "lagTooHigh")
                       ELSE /\ pc' = [pc EXCEPT ![e] = "promote"]
                            /\ UNCHANGED result
  /\ UNCHANGED <<dbVars, waited, stable, rem, elapsed, lost>>

CanPromote == phase = "replica" /\ ~busy

StartPromotion ==
  /\ CanPromote
  /\ phase' = "requested"
  /\ lagAtPromotion' = lag

PromoteAccepted(e) ==
  /\ pc[e] = "promote"
  /\ StartPromotion
  /\ pc' = [pc EXCEPT ![e] = "poll"]
  /\ UNCHANGED <<busy, age, lag, waited, stable, rem, elapsed, lost, result>>

(* Mutant: the fault is taken for a finished promotion. *)
FaultMeansDone(e) ==
  /\ pc[e] = "promote" /\ ~CanPromote
  /\ Return(e, "completed")
  /\ UNCHANGED <<dbVars, waited, stable, rem, elapsed, lost>>

(* InvalidDBInstanceStateFault is taken for "already promoted": go on. *)
PromoteInvalidState(e) ==
  /\ pc[e] = "promote"
  /\ ~CanPromote
  /\ pc' = [pc EXCEPT ![e] = "poll"]
  /\ UNCHANGED <<dbVars, waited, stable, rem, elapsed, lost, result>>

(* Any other exception; the request may have reached RDS all the same. *)
PromoteRaises(e) ==
  /\ pc[e] = "promote"
  /\ \/ StartPromotion
     \/ UNCHANGED <<phase, lagAtPromotion>>
  /\ Return(e, "promoteFailed")
  /\ UNCHANGED <<busy, age, lag, waited, stable, rem, elapsed, lost>>

(* One turn of the loop: describe, count the good looks in a row, and either *)
(* return or sleep.                                                          *)
RequiredStable == 2

CountLook(n, d) == IF IsPromotionComplete(d) THEN n + 1 ELSE 0

(* Mutant: one good look is enough. *)
OneLook(n) == n >= 1

EnoughLooks(n) == n >= RequiredStable

(* Mutant: no turn that would sleep up to the limit. *)
LoopShort(w) == w + PollInterval < MaxWait

(* Mutant: a turn more at the limit. *)
LoopAtLimit(w) == w <= MaxWait

LoopAgain(w) == w < MaxWait

(* Mutant: every sleep is longer than the one before. *)
BackOff(w) == PollInterval + w

SleepTime(w) == PollInterval

Poll(e) ==
  /\ pc[e] = "poll"
  /\ IF LoopAgain(waited[e])
       THEN \E d \in Description :
              /\ Describes(d)
              /\ stable' = [stable EXCEPT ![e] = CountLook(@, d)]
              /\ IF EnoughLooks(stable'[e])
                   THEN Return(e, "completed") /\ UNCHANGED rem
                   ELSE /\ pc' = [pc EXCEPT ![e] = "sleep"]
                        /\ rem' = [rem EXCEPT ![e] = SleepTime(waited[e])]
                        /\ UNCHANGED result
       ELSE Return(e, "timedOut") /\ UNCHANGED <<stable, rem>>
  /\ UNCHANGED <<dbVars, waited, elapsed, lost>>

Wake(e) ==
  /\ pc[e] = "sleep" /\ rem[e] = 0
  /\ waited' = [waited EXCEPT ![e] = @ + PollInterval]
  /\ pc' = [pc EXCEPT ![e] = "poll"]
  /\ UNCHANGED <<dbVars, stable, rem, elapsed, lost, result>>

(* describe_db_instances raises: nothing in the handler catches it. *)
DescribeRaises(e) ==
  /\ pc[e] = "describe" \/ (pc[e] = "poll" /\ LoopAgain(waited[e]))
  /\ Return(e, "error")
  /\ UNCHANGED <<dbVars, waited, stable, rem, elapsed, lost>>

(* Lambda ends an invocation at its timeout, wherever it is. *)
Kill(e) ==
  /\ Running(e) /\ elapsed[e] = LambdaTimeout
  /\ Return(e, "killed")
  /\ UNCHANGED <<dbVars, waited, stable, rem, elapsed, lost>>

-----------------------------------------------------------------------------
(* Time, and RDS.                                                            *)

Asleep(e) == pc[e] = "sleep" /\ rem[e] > 0

Tick ==
  /\ \A e \in Invocations : Running(e) => elapsed[e] < LambdaTimeout
  /\ phase = "glimpse" => age < GlimpseTime
  /\ elapsed' = [e \in Invocations |->
                   IF Running(e) THEN elapsed[e] + 1 ELSE elapsed[e]]
  /\ rem' = [e \in Invocations |-> IF Asleep(e) THEN rem[e] - 1 ELSE rem[e]]
  /\ lost' = [e \in Invocations |->
                IF Running(e) /\ ~Asleep(e) THEN lost[e] + 1 ELSE lost[e]]
  /\ age' = IF phase = "glimpse" THEN age + 1 ELSE age
  /\ UNCHANGED <<phase, busy, lag, lagAtPromotion, pc, waited, stable, result>>

(* The operator promotes by hand, as the runbook also has it. *)
OperatorPromotes ==
  /\ StartPromotion
  /\ UNCHANGED <<busy, age, lag, handlerVars>>

Maintenance ==
  /\ phase \in {"replica", "settled"}
  /\ busy' = ~busy
  /\ UNCHANGED <<phase, age, lag, lagAtPromotion, handlerVars>>

LagChanges ==
  /\ phase = "replica"
  /\ lag' \in 0 .. LagBound
  /\ UNCHANGED <<phase, busy, age, lagAtPromotion, handlerVars>>

PromotionStep ==
  \/ phase = "requested" /\ phase' = "working"   /\ UNCHANGED age
  \/ phase = "working"   /\ phase' = "glimpse"   /\ age' = 0
  \/ phase = "working"   /\ phase' = "settled"   /\ UNCHANGED age
  \/ phase = "glimpse"   /\ phase' = "finishing" /\ age' = 0
  \/ phase = "finishing" /\ phase' = "settled"   /\ UNCHANGED age

PromotionProgress ==
  /\ PromotionStep
  /\ UNCHANGED <<busy, lag, lagAtPromotion, handlerVars>>

-----------------------------------------------------------------------------
Handler(e) ==
  \/ InitialDescribe(e)
  \/ PromoteAccepted(e) \/ PromoteInvalidState(e) \/ PromoteRaises(e)
  \/ Poll(e) \/ Wake(e) \/ DescribeRaises(e)

Next ==
  \/ \E e \in Invocations : Invoke(e) \/ Handler(e) \/ Kill(e)
  \/ Tick \/ OperatorPromotes \/ Maintenance \/ LagChanges \/ PromotionProgress

(* Time passes, Lambda enforces its timeout, and RDS ends what it began.  No *)
(* API call is assumed to answer: that is what the timeout is for.           *)
Fairness ==
  /\ WF_vars(Tick)
  /\ WF_vars(PromotionProgress)
  /\ \A e \in Invocations : WF_vars(Kill(e))

Spec == Init /\ [][Next]_vars /\ Fairness

-----------------------------------------------------------------------------
(* Properties.                                                               *)

Results == {"none", "notAvailable", "lagTooHigh", "promoteFailed",
            "completed", "timedOut", "error", "killed"}

(* Every variable keeps its type; no invocation outlives its Lambda timeout *)
(* and no glimpse lasts longer than GlimpseTime.                            *)
TypeOK ==
  /\ phase \in Phases /\ busy \in BOOLEAN /\ age \in 0 .. GlimpseTime
  /\ lag \in 0 .. LagBound /\ lagAtPromotion \in (0 .. LagBound) \cup {None}
  /\ pc \in [Invocations ->
              {"idle", "describe", "promote", "poll", "sleep", "done"}]
  /\ waited \in [Invocations -> Nat]
  /\ stable \in [Invocations -> 0 .. RequiredStable]
  /\ rem \in [Invocations -> 0 .. PollInterval]
  /\ elapsed \in [Invocations -> 0 .. LambdaTimeout]
  /\ lost \in [Invocations -> 0 .. LambdaTimeout]
  /\ result \in [Invocations -> Results]

(* "Replica promotion fully completed and stable": an invocation that says  *)
(* so, whatever other invocations or the operator did meanwhile, is right,  *)
(* also when RDS looked finished for a moment before it was.                *)
SuccessMeansSettled ==
  \A e \in Invocations : result[e] = "completed" => phase = "settled"

(* The answer "Timed out ... after {max_wait}s" is only given when that much *)
(* time has passed; with the timeouts Terraform sets (300 against 900) it is *)
(* therefore never given.                                                    *)
TimedOutIsHonest ==
  \A e \in Invocations : result[e] = "timedOut" => elapsed[e] >= MaxWait

(* MAX_WAIT_SECONDS bounds what the handler waits of its own accord: what an *)
(* invocation runs beyond the turn in which it reaches the limit was lost in *)
(* calls that did not answer.  The loop ends by its own count whatever RDS   *)
(* shows, and only slow calls or a shorter Lambda timeout let it be killed.  *)
LimitIsKept ==
  \A e \in Invocations : elapsed[e] < lost[e] + MaxWait + PollInterval

(* The contract the workflow relies on.  A call is what its caller can see  *)
(* of an invocation; of the promotion it sees whether it is over.           *)
CallOf(e) ==
  CASE pc[e] = "idle" -> "idle"
    [] pc[e] = "done" -> IF result[e] = "completed" THEN "up" ELSE "failed"
    [] OTHER          -> "running"

DbView == CASE phase = "replica" -> "replica"
            [] phase = "settled" -> "promoted"
            [] OTHER             -> "promoting"

CallView == [e \in Invocations |-> CallOf(e)]

Contract == INSTANCE PromotionContract
  WITH Calls <- Invocations, db <- DbView,
       call <- CallView

(* Every behaviour of the handlers is one the contract allows: success only *)
(* of a finished promotion, at most one promotion, an answer to every call. *)
ImplementsContract == Contract!ContractSpec

(* The log line of the swallowed fault, "Replica already being promoted or  *)
(* already promoted": an invocation that polls, polls a promotion.          *)
PollingMeansPromotion ==
  \A e \in Invocations : pc[e] \in {"poll", "sleep"} => phase # "replica"

=============================================================================
