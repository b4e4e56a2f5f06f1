------------------------ MODULE ReplicaFailoverProofs ------------------------
(***************************************************************************)
(* Theorems about ReplicaFailover, for any number of invocations and any    *)
(* timing that TimingAssumption allows.                                     *)
(***************************************************************************)
EXTENDS ReplicaFailover, TLAPS

(* A look counted before the promotion is over was taken in the glimpse, and *)
(* so the glimpse is over when the invocation looks again.                   *)
LooksInv ==
  \A e \in Invocations :
    /\ pc[e] \in {"idle", "describe", "promote"} => stable[e] = 0
    /\ pc[e] # "done" => stable[e] <= 1
    /\ stable[e] >= 1 => phase \in {"glimpse", "finishing", "settled"}
    /\ stable[e] >= 1 /\ phase = "glimpse" /\ pc[e] = "sleep"
         => PollInterval <= age + rem[e]
    /\ stable[e] >= 1 /\ pc[e] = "poll" => phase # "glimpse"
    /\ result[e] = "completed" => phase = "settled"

(* The loop never counts more time than has passed. *)
WaitInv ==
  \A e \in Invocations :
    /\ waited[e] <= elapsed[e]
    /\ pc[e] = "sleep" => waited[e] + PollInterval <= elapsed[e] + rem[e]
    /\ result[e] = "timedOut" => pc[e] = "done" /\ elapsed[e] >= MaxWait

(* Nor does it count less, but for the ticks it lost in calls; it starts no *)
(* sleep once it has counted MaxWait.                                       *)
LimitInv ==
  \A e \in Invocations :
    /\ waited[e] < MaxWait + PollInterval
    /\ lost[e] <= elapsed[e]
    /\ pc[e] = "sleep" => /\ waited[e] < MaxWait
                         /\ elapsed[e] + rem[e] <= lost[e] + waited[e] + PollInterval
    /\ pc[e] \in {"idle", "describe", "promote", "poll"} => elapsed[e] <= lost[e] + waited[e]
    /\ elapsed[e] < lost[e] + MaxWait + PollInterval

IInv == TypeOK /\ LooksInv /\ WaitInv /\ LimitInv

-----------------------------------------------------------------------------
(* Before the promotion is over, only a glimpse looks finished. *)
LEMMA LookIsGlimpseOrSettled ==
  ASSUME NEW d \in Description, Describes(d), IsPromotionComplete(d), phase \in Phases
  PROVE  phase \in {"glimpse", "settled"}
<1>1. CASE phase \in {"replica", "requested"}
  <2>1. d.source
    BY <1>1 DEF Describes
  <2> QED BY <2>1 DEF IsPromotionComplete
<1>2. CASE phase \in {"working", "finishing"}
  <2>1. ~LooksFinished(d)
    BY <1>2 DEF Describes
  <2> QED BY <2>1 DEF IsPromotionComplete, LooksFinished, Description
<1> QED BY <1>1, <1>2 DEF Phases

(* The state the invariant starts from. *)
LEMMA InitInv == Init => IInv
<1> SUFFICES ASSUME Init PROVE IInv
  OBVIOUS
<1> USE TimingAssumption, LagAssumption DEF Init
<1>1. TypeOK
  <2>1. /\ stable \in [Invocations -> 0 .. RequiredStable]
        /\ rem \in [Invocations -> 0 .. PollInterval]
        /\ elapsed \in [Invocations -> 0 .. LambdaTimeout]
        /\ lost \in [Invocations -> 0 .. LambdaTimeout]
        /\ waited \in [Invocations -> Nat]
    BY DEF RequiredStable
  <2>2. /\ pc \in [Invocations ->
                     {"idle", "describe", "promote", "poll", "sleep", "done"}]
        /\ result \in [Invocations -> Results]
    BY DEF Results
  <2>3. busy \in BOOLEAN
    OBVIOUS
  <2>4. /\ phase \in Phases /\ age \in 0 .. GlimpseTime
        /\ lag \in 0 .. LagBound /\ lagAtPromotion \in (0 .. LagBound) \cup {None}
    BY DEF Phases
  <2> QED BY <2>1, <2>2, <2>3, <2>4 DEF TypeOK
<1>2. LooksInv /\ WaitInv
  BY DEF LooksInv, WaitInv
<1>3. LimitInv
  <2>1. /\ 0 < MaxWait + PollInterval /\ 0 < 0 + MaxWait + PollInterval
        /\ 0 <= 0 /\ 0 <= 0 + 0
    OBVIOUS
  <2>2. \A e \in Invocations :
          waited[e] = 0 /\ elapsed[e] = 0 /\ lost[e] = 0 /\ pc[e] = "idle"
    OBVIOUS
  <2> QED BY ONLY <2>1, <2>2 DEF LimitInv
<1> QED BY <1>1, <1>2, <1>3 DEF IInv

(* Types are kept: a counted look never exceeds RequiredStable, because an   *)
(* invocation that still polls has counted at most one.                      *)
LEMMA NextTypeOK == IInv /\ [Next]_vars => TypeOK'
<1> SUFFICES ASSUME IInv, [Next]_vars PROVE TypeOK'
  OBVIOUS
<1> USE TimingAssumption, LagAssumption
    DEF IInv, TypeOK, dbVars, handlerVars, Return, Results, Phases, RequiredStable
<1>1. ASSUME NEW e \in Invocations, Invoke(e) PROVE TypeOK'
  BY <1>1 DEF Invoke
<1>2. ASSUME NEW e \in Invocations, InitialDescribe(e) PROVE TypeOK'
  BY <1>2 DEF InitialDescribe
<1>3. ASSUME NEW e \in Invocations, PromoteAccepted(e) PROVE TypeOK'
  BY <1>3 DEF PromoteAccepted, StartPromotion
<1>4. ASSUME NEW e \in Invocations, PromoteInvalidState(e) PROVE TypeOK'
  BY <1>4 DEF PromoteInvalidState
<1>5. ASSUME NEW e \in Invocations, PromoteRaises(e) PROVE TypeOK'
  BY <1>5 DEF PromoteRaises, StartPromotion, CanPromote
<1>6. ASSUME NEW e \in Invocations, Poll(e) PROVE TypeOK'
  <2>1. stable[e] <= 1
    BY <1>6 DEF Poll, LooksInv
  <2> QED BY <1>6, <2>1 DEF Poll, SleepTime, CountLook, EnoughLooks
<1>7. ASSUME NEW e \in Invocations, Wake(e) PROVE TypeOK'
  BY <1>7 DEF Wake
<1>8. ASSUME NEW e \in Invocations, DescribeRaises(e) PROVE TypeOK'
  BY <1>8 DEF DescribeRaises
<1>9. ASSUME NEW e \in Invocations, Kill(e) PROVE TypeOK'
  BY <1>9 DEF Kill, Running
<1>10. CASE Tick
  BY <1>10 DEF Tick, Running, Asleep, LimitInv
<1>11. CASE OperatorPromotes
  BY <1>11 DEF OperatorPromotes, StartPromotion, CanPromote
<1>12. CASE Maintenance
  BY <1>12 DEF Maintenance
<1>13. CASE LagChanges
  BY <1>13 DEF LagChanges
<1>14. CASE PromotionProgress
  BY <1>14 DEF PromotionProgress, PromotionStep
<1>15. CASE UNCHANGED vars
  BY <1>15 DEF vars
<1> QED
  BY <1>1, <1>2, <1>3, <1>4, <1>5, <1>6, <1>7, <1>8, <1>9, <1>10, <1>11, <1>12, <1>13, <1>14, <1>15 DEF Next, Handler

(* The glimpse is shorter than the sleep between two looks.                  *)
LEMMA NextLooksInv == IInv /\ [Next]_vars => LooksInv'
<1> SUFFICES ASSUME IInv, [Next]_vars PROVE LooksInv'
  OBVIOUS
<1> USE TimingAssumption
    DEF IInv, TypeOK, LooksInv, dbVars, handlerVars, Return, Phases, RequiredStable
<1>1. ASSUME NEW e \in Invocations, Invoke(e) PROVE LooksInv'
  BY <1>1 DEF Invoke
<1>2. ASSUME NEW e \in Invocations, InitialDescribe(e) PROVE LooksInv'
  BY <1>2 DEF InitialDescribe
<1>3. ASSUME NEW e \in Invocations, PromoteAccepted(e) PROVE LooksInv'
  BY <1>3 DEF PromoteAccepted, StartPromotion, CanPromote
<1>4. ASSUME NEW e \in Invocations, PromoteInvalidState(e) PROVE LooksInv'
  BY <1>4 DEF PromoteInvalidState
<1>5. ASSUME NEW e \in Invocations, PromoteRaises(e) PROVE LooksInv'
  <2>1. CASE StartPromotion
    BY <1>5, <2>1 DEF PromoteRaises, StartPromotion, CanPromote
  <2>2. CASE UNCHANGED phase
    BY <1>5, <2>2 DEF PromoteRaises
  <2> QED BY <1>5, <2>1, <2>2 DEF PromoteRaises
<1>6. ASSUME NEW e \in Invocations, Poll(e) PROVE LooksInv'
  <2>1. CASE ~LoopAgain(waited[e])
    BY <1>6, <2>1 DEF Poll
  <2>2. ASSUME LoopAgain(waited[e]), NEW d \in Description, Describes(d),
               IsPromotionComplete(d), stable' = [stable EXCEPT ![e] = stable[e] + 1]
        PROVE  LooksInv'
    <3>1. phase \in {"glimpse", "settled"}
      BY <2>2, LookIsGlimpseOrSettled
    <3>2. stable[e] >= 1 => phase = "settled"
      BY <1>6, <3>1 DEF Poll
    <3>3. /\ UNCHANGED <<phase, age>>
          /\ IF EnoughLooks(stable'[e])
               THEN Return(e, "completed") /\ UNCHANGED rem
               ELSE /\ pc' = [pc EXCEPT ![e] = "sleep"]
                    /\ rem' = [rem EXCEPT ![e] = PollInterval]
                    /\ UNCHANGED result
      BY <1>6, <2>2 DEF Poll, SleepTime
    <3>4. CASE stable[e] = 0
      BY <1>6, <2>2, <3>1, <3>3, <3>4 DEF EnoughLooks, Poll
    <3>5. CASE stable[e] = 1
      BY <1>6, <2>2, <3>2, <3>3, <3>5 DEF EnoughLooks, Poll
    <3> QED BY <1>6, <3>4, <3>5 DEF Poll
  <2>3. ASSUME LoopAgain(waited[e]), stable' = [stable EXCEPT ![e] = 0]
        PROVE  LooksInv'
    <3>1. ~EnoughLooks(stable'[e])
      BY <2>3 DEF EnoughLooks
    <3>2. /\ UNCHANGED <<phase, age, result>>
          /\ pc' = [pc EXCEPT ![e] = "sleep"]
          /\ rem' = [rem EXCEPT ![e] = PollInterval]
      BY <1>6, <2>3, <3>1 DEF Poll, SleepTime
    <3> QED BY <2>3, <3>2
  <2> QED BY <1>6, <2>1, <2>2, <2>3 DEF Poll, SleepTime, CountLook
<1>7. ASSUME NEW e \in Invocations, Wake(e) PROVE LooksInv'
  BY <1>7 DEF Wake
<1>8. ASSUME NEW e \in Invocations, DescribeRaises(e) PROVE LooksInv'
  BY <1>8 DEF DescribeRaises
<1>9. ASSUME NEW e \in Invocations, Kill(e) PROVE LooksInv'
  BY <1>9 DEF Kill, Running
<1>10. CASE Tick
  BY <1>10 DEF Tick, Running, Asleep
<1>11. CASE OperatorPromotes
  BY <1>11 DEF OperatorPromotes, StartPromotion, CanPromote
<1>12. CASE Maintenance
  BY <1>12 DEF Maintenance
<1>13. CASE LagChanges
  BY <1>13 DEF LagChanges
<1>14. CASE PromotionProgress
  BY <1>14 DEF PromotionProgress, PromotionStep
<1>15. CASE UNCHANGED vars
  BY <1>15 DEF vars
<1> QED
  BY <1>1, <1>2, <1>3, <1>4, <1>5, <1>6, <1>7, <1>8, <1>9, <1>10, <1>11, <1>12, <1>13, <1>14, <1>15 DEF Next, Handler

(* A sleep takes at least the PollInterval that Wake adds.                   *)
LEMMA NextWaitInv == IInv /\ [Next]_vars => WaitInv'
<1> SUFFICES ASSUME IInv, [Next]_vars PROVE WaitInv'
  OBVIOUS
<1> USE TimingAssumption
    DEF IInv, TypeOK, WaitInv, dbVars, handlerVars, Return
<1>1. ASSUME NEW e \in Invocations, Invoke(e) PROVE WaitInv'
  BY <1>1 DEF Invoke
<1>2. ASSUME NEW e \in Invocations, InitialDescribe(e) PROVE WaitInv'
  BY <1>2 DEF InitialDescribe
<1>3. ASSUME NEW e \in Invocations, PromoteAccepted(e) PROVE WaitInv'
  BY <1>3 DEF PromoteAccepted, StartPromotion
<1>4. ASSUME NEW e \in Invocations, PromoteInvalidState(e) PROVE WaitInv'
  BY <1>4 DEF PromoteInvalidState
<1>5. ASSUME NEW e \in Invocations, PromoteRaises(e) PROVE WaitInv'
  BY <1>5 DEF PromoteRaises, StartPromotion, CanPromote
<1>6. ASSUME NEW e \in Invocations, Poll(e) PROVE WaitInv'
  BY <1>6 DEF Poll, SleepTime, CountLook, EnoughLooks, LoopAgain
<1>7. ASSUME NEW e \in Invocations, Wake(e) PROVE WaitInv'
  BY <1>7 DEF Wake
<1>8. ASSUME NEW e \in Invocations, DescribeRaises(e) PROVE WaitInv'
  BY <1>8 DEF DescribeRaises
<1>9. ASSUME NEW e \in Invocations, Kill(e) PROVE WaitInv'
  BY <1>9 DEF Kill, Running
<1>10. CASE Tick
  BY <1>10 DEF Tick, Running, Asleep
<1>11. CASE OperatorPromotes
  BY <1>11 DEF OperatorPromotes, StartPromotion, CanPromote
<1>12. CASE Maintenance
  BY <1>12 DEF Maintenance
<1>13. CASE LagChanges
  BY <1>13 DEF LagChanges
<1>14. CASE PromotionProgress
  BY <1>14 DEF PromotionProgress, PromotionStep
<1>15. CASE UNCHANGED vars
  BY <1>15 DEF vars
<1> QED
  BY <1>1, <1>2, <1>3, <1>4, <1>5, <1>6, <1>7, <1>8, <1>9, <1>10, <1>11, <1>12, <1>13, <1>14, <1>15 DEF Next, Handler

(* A sleep takes no more than the PollInterval that Wake adds, unless Wake is *)
(* late, and no turn begins beyond the limit.                                *)
LEMMA NextLimitInv == IInv /\ [Next]_vars => LimitInv'
<1> SUFFICES ASSUME IInv, [Next]_vars PROVE LimitInv'
  OBVIOUS
<1> USE TimingAssumption
    DEF IInv, TypeOK, LimitInv, dbVars, handlerVars, Return
<1>1. ASSUME NEW e \in Invocations, Invoke(e) PROVE LimitInv'
  BY <1>1 DEF Invoke
<1>2. ASSUME NEW e \in Invocations, InitialDescribe(e) PROVE LimitInv'
  BY <1>2 DEF InitialDescribe
<1>3. ASSUME NEW e \in Invocations, PromoteAccepted(e) PROVE LimitInv'
  BY <1>3 DEF PromoteAccepted, StartPromotion
<1>4. ASSUME NEW e \in Invocations, PromoteInvalidState(e) PROVE LimitInv'
  BY <1>4 DEF PromoteInvalidState
<1>5. ASSUME NEW e \in Invocations, PromoteRaises(e) PROVE LimitInv'
  BY <1>5 DEF PromoteRaises, StartPromotion, CanPromote
<1>6. ASSUME NEW e \in Invocations, Poll(e) PROVE LimitInv'
  BY <1>6 DEF Poll, SleepTime, CountLook, EnoughLooks, LoopAgain
<1>7. ASSUME NEW e \in Invocations, Wake(e) PROVE LimitInv'
  BY <1>7 DEF Wake
<1>8. ASSUME NEW e \in Invocations, DescribeRaises(e) PROVE LimitInv'
  BY <1>8 DEF DescribeRaises
<1>9. ASSUME NEW e \in Invocations, Kill(e) PROVE LimitInv'
  BY <1>9 DEF Kill, Running
<1>10. CASE Tick
  BY <1>10 DEF Tick, Running, Asleep
<1>11. CASE OperatorPromotes
  BY <1>11 DEF OperatorPromotes, StartPromotion, CanPromote
<1>12. CASE Maintenance
  BY <1>12 DEF Maintenance
<1>13. CASE LagChanges
  BY <1>13 DEF LagChanges
<1>14. CASE PromotionProgress
  BY <1>14 DEF PromotionProgress, PromotionStep
<1>15. CASE UNCHANGED vars
  BY <1>15 DEF vars
<1> QED
  BY <1>1, <1>2, <1>3, <1>4, <1>5, <1>6, <1>7, <1>8, <1>9, <1>10, <1>11, <1>12, <1>13, <1>14, <1>15 DEF Next, Handler

(* In every reachable state the types hold and IInv is true. *)
THEOREM Invariance == Spec => []IInv
<1>1. IInv /\ [Next]_vars => IInv'
  BY NextTypeOK, NextLooksInv, NextWaitInv, NextLimitInv DEF IInv
<1> QED BY InitInv, <1>1, PTL DEF Spec

(* Type correctness, for any number of invocations. *)
THEOREM TypeCorrect == Spec => []TypeOK
<1>1. IInv => TypeOK
  BY DEF IInv
<1> QED BY Invariance, <1>1, PTL

(* The handler never reports an unfinished promotion as completed, as long  *)
(* as an instance looks finished too early only once and for less than      *)
(* POLL_INTERVAL_SECONDS.                                                   *)
THEOREM SuccessIsTrue == Spec => []SuccessMeansSettled
<1>1. IInv => SuccessMeansSettled
  BY DEF IInv, LooksInv, SuccessMeansSettled
<1> QED BY Invariance, <1>1, PTL

(* The timed-out answer tells the truth about the time. *)
THEOREM TimedOutIsTrue == Spec => []TimedOutIsHonest
<1>1. IInv => TimedOutIsHonest
  BY DEF IInv, WaitInv, TimedOutIsHonest
<1> QED BY Invariance, <1>1, PTL

(* MAX_WAIT_SECONDS bounds the time an invocation takes of its own accord,  *)
(* for any timing and however many other invocations there are.             *)
THEOREM LimitHolds == Spec => []LimitIsKept
<1>1. IInv => LimitIsKept
  BY DEF IInv, LimitInv, LimitIsKept
<1> QED BY Invariance, <1>1, PTL

(* With a Lambda timeout below MAX_WAIT_SECONDS, as deployed, the handler's *)
(* own timeout answer is dead code.                                         *)
THEOREM TimedOutIsDead ==
  ASSUME LambdaTimeout < MaxWait
  PROVE  Spec => [](\A e \in Invocations : result[e] # "timedOut")
<1>1. IInv => \A e \in Invocations : result[e] # "timedOut"
  <2> SUFFICES ASSUME IInv, NEW e \in Invocations, result[e] = "timedOut"
               PROVE  FALSE
    OBVIOUS
  <2>1. elapsed[e] \in 0 .. LambdaTimeout
    BY DEF IInv, TypeOK
  <2>2. elapsed[e] >= MaxWait
    BY DEF IInv, WaitInv
  <2> QED BY <2>1, <2>2, TimingAssumption
<1> QED BY Invariance, <1>1, PTL

-----------------------------------------------------------------------------
(* Whatever a running invocation returns but success, the caller sees fail. *)
LEMMA FailingReturn ==
  ASSUME TypeOK, NEW e \in Invocations, NEW r, r # "completed", Running(e),
         Return(e, r), UNCHANGED phase
  PROVE  Contract!Fail(e)
<1>1. pc' = [pc EXCEPT ![e] = "done"] /\ result' = [result EXCEPT ![e] = r]
  BY DEF Return
<1>2. CallView' = [CallView EXCEPT ![e] = "failed"]
  BY <1>1 DEF CallView, CallOf, TypeOK
<1>3. CallView[e] = "running"
  BY DEF CallView, CallOf, Running
<1> QED BY <1>2, <1>3 DEF Contract!Fail, DbView

(* An invocation that moves on without returning changes nothing for the    *)
(* caller.                                                                  *)
LEMMA MovingOn ==
  ASSUME TypeOK, NEW e \in Invocations, NEW p, p \notin {"idle", "done"}, Running(e),
         pc' = [pc EXCEPT ![e] = p], UNCHANGED <<result, phase>>
  PROVE  UNCHANGED Contract!contractVars
  BY DEF Running, Contract!contractVars, CallView, CallOf, DbView, TypeOK

(* The handlers implement PromotionContract (safety part): the initial state *)
(* is the contract's, and every step is a step of the contract or a stutter. *)
LEMMA ContractStep ==
  IInv /\ IInv' /\ [Next]_vars => [Contract!ContractNext]_(Contract!contractVars)
<1> SUFFICES ASSUME IInv, IInv', [Next]_vars
             PROVE  Contract!ContractNext \/ UNCHANGED Contract!contractVars
  OBVIOUS
<1> USE DEF Contract!contractVars, CallView, CallOf, DbView, IInv, TypeOK, Return,
        dbVars, handlerVars
<1>1. ASSUME NEW e \in Invocations, Invoke(e)
      PROVE  Contract!ContractNext \/ UNCHANGED Contract!contractVars
  <2>1. Contract!Accept(e)
    BY <1>1 DEF Invoke, Contract!Accept
  <2> QED BY <2>1 DEF Contract!ContractNext
<1>2. ASSUME NEW e \in Invocations, InitialDescribe(e)
      PROVE  Contract!ContractNext \/ UNCHANGED Contract!contractVars
  <2>1. Running(e) /\ UNCHANGED phase
    BY <1>2 DEF InitialDescribe, Running
  <2>2. CASE Return(e, "notAvailable") \/ Return(e, "lagTooHigh")
    BY <2>1, <2>2, FailingReturn DEF Contract!ContractNext
  <2>3. CASE pc' = [pc EXCEPT ![e] = "promote"] /\ UNCHANGED result
    BY <2>1, <2>3, MovingOn
  <2> QED BY <1>2, <2>2, <2>3 DEF InitialDescribe
<1>3. ASSUME NEW e \in Invocations, PromoteAccepted(e)
      PROVE  Contract!ContractNext \/ UNCHANGED Contract!contractVars
  BY <1>3 DEF PromoteAccepted, StartPromotion, CanPromote, Contract!Promote,
            Contract!Begin, Contract!ContractNext
<1>4. ASSUME NEW e \in Invocations, PromoteInvalidState(e)
      PROVE  Contract!ContractNext \/ UNCHANGED Contract!contractVars
  BY <1>4 DEF PromoteInvalidState, Contract!ContractNext
<1>5. ASSUME NEW e \in Invocations, PromoteRaises(e)
      PROVE  Contract!ContractNext \/ UNCHANGED Contract!contractVars
  <2>1. Running(e) /\ Return(e, "promoteFailed") /\ pc[e] = "promote"
    BY <1>5 DEF PromoteRaises, Running
  <2>2. CallView' = [CallView EXCEPT ![e] = "failed"] /\ CallView[e] = "running"
    BY <2>1
  <2>3. (DbView = "replica" /\ DbView' = "promoting") \/ UNCHANGED DbView
    BY <1>5 DEF PromoteRaises, StartPromotion, CanPromote
  <2>4. Contract!Fail(e)
    BY <2>2, <2>3 DEF Contract!Fail, Contract!Begin
  <2> QED BY <2>4 DEF Contract!ContractNext
<1>6. ASSUME NEW e \in Invocations, Poll(e)
      PROVE  Contract!ContractNext \/ UNCHANGED Contract!contractVars
  <2>1. Running(e) /\ UNCHANGED phase
    BY <1>6 DEF Poll, Running
  <2>2. CASE Return(e, "timedOut")
    BY <2>1, <2>2, FailingReturn DEF Contract!ContractNext
  <2>3. CASE pc' = [pc EXCEPT ![e] = "sleep"] /\ UNCHANGED result
    BY <2>1, <2>3, MovingOn
  <2>4. CASE Return(e, "completed")
    <3>1. phase = "settled"
      BY <2>1, <2>4 DEF LooksInv
    <3>2. Contract!Succeed(e)
      BY <2>1, <2>4, <3>1 DEF Contract!Succeed, Running
    <3> QED BY <3>2 DEF Contract!ContractNext
  <2> QED BY <1>6, <2>2, <2>3, <2>4 DEF Poll
<1>7. ASSUME NEW e \in Invocations, Wake(e)
      PROVE  Contract!ContractNext \/ UNCHANGED Contract!contractVars
  BY <1>7 DEF Wake, Contract!ContractNext
<1>8. ASSUME NEW e \in Invocations, DescribeRaises(e)
      PROVE  Contract!ContractNext \/ UNCHANGED Contract!contractVars
  <2>1. Contract!Fail(e)
    BY <1>8 DEF DescribeRaises, Contract!Fail
  <2> QED BY <2>1 DEF Contract!ContractNext
<1>9. ASSUME NEW e \in Invocations, Kill(e)
      PROVE  Contract!ContractNext \/ UNCHANGED Contract!contractVars
  <2>1. Contract!Fail(e)
    BY <1>9 DEF Kill, Running, Contract!Fail
  <2> QED BY <2>1 DEF Contract!ContractNext
<1>10. CASE Tick
  BY <1>10 DEF Tick, Contract!ContractNext
<1>11. CASE OperatorPromotes
  BY <1>11 DEF OperatorPromotes, StartPromotion, CanPromote, Contract!PromoteByHand,
             Contract!Begin, Contract!ContractNext
<1>12. CASE Maintenance
  BY <1>12 DEF Maintenance, Contract!ContractNext
<1>13. CASE LagChanges
  BY <1>13 DEF LagChanges, Contract!ContractNext
<1>14. CASE PromotionProgress
  BY <1>14 DEF PromotionProgress, PromotionStep, Contract!FinishPromotion, Contract!ContractNext
<1>15. CASE UNCHANGED vars
  BY <1>15 DEF vars
<1> QED
  BY <1>1, <1>2, <1>3, <1>4, <1>5, <1>6, <1>7, <1>8, <1>9, <1>10, <1>11, <1>12,
     <1>13, <1>14, <1>15 DEF Next, Handler

THEOREM ImplementsContractSafety ==
  Spec => Contract!ContractInit /\ [][Contract!ContractNext]_(Contract!contractVars)
<1>1. Init => Contract!ContractInit
  BY DEF Init, Contract!ContractInit, CallView, CallOf, DbView
<1> QED BY Invariance, <1>1, ContractStep, PTL DEF Spec

=============================================================================
