-------------------------- MODULE PromotionContract --------------------------
(***************************************************************************)
(* What the replica-failover handler promises the DR workflow, without its  *)
(* polling and without time: a call starts at most the one promotion there  *)
(* can be, it reports success only of a finished one, and a failure report  *)
(* promises nothing about the database: the promotion may have begun, may   *)
(* still run or may be over.                                                *)
(***************************************************************************)
CONSTANT Calls       \* the calls of the handler

VARIABLES
  db,                \* "replica", "promoting" or "promoted"
  call               \* each call: "idle", "running", "up" or "failed"

contractVars == <<db, call>>

CallStates == {"idle", "running", "up", "failed"}

ContractInit == db = "replica" /\ call = [c \in Calls |-> "idle"]

Begin == db = "replica" /\ db' = "promoting"

Accept(c) ==
  /\ call[c] = "idle"
  /\ call' = [call EXCEPT ![c] = "running"]
  /\ UNCHANGED db

Promote(c) ==
  /\ call[c] = "running" /\ Begin
  /\ UNCHANGED call

(* An operator's promotion by hand. *)
PromoteByHand == Begin /\ UNCHANGED call

FinishPromotion ==
  /\ db = "promoting" /\ db' = "promoted"
  /\ UNCHANGED call

Succeed(c) ==
  /\ call[c] = "running" /\ db = "promoted"
  /\ call' = [call EXCEPT ![c] = "up"]
  /\ UNCHANGED db

(* A failing call may have begun the promotion with its last request. *)
Fail(c) ==
  /\ call[c] = "running"
  /\ call' = [call EXCEPT ![c] = "failed"]
  /\ Begin \/ UNCHANGED db

ContractNext ==
  \/ \E c \in Calls : Accept(c) \/ Promote(c) \/ Succeed(c) \/ Fail(c)
  \/ PromoteByHand \/ FinishPromotion

(* A call that was accepted is answered, one way or the other. *)
ContractFairness ==
  /\ \A c \in Calls : WF_call(call[c] = "running" /\ (Succeed(c) \/ Fail(c)))
  /\ WF_contractVars(FinishPromotion)

ContractSpec == ContractInit /\ [][ContractNext]_contractVars /\ ContractFairness

=============================================================================
