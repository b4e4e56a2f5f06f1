-------------------------- MODULE RecoveryContract ---------------------------
(***************************************************************************)
(* What the service-recovery handler promises the DR workflow, without its  *)
(* polling: a call reports a healthy service only at a moment when the      *)
(* current deployment runs the tasks it was asked for; a failure report     *)
(* promises nothing, the tasks may come all the same.                       *)
(***************************************************************************)
CONSTANT Calls       \* the calls of the handler

VARIABLES
  asked,             \* the DR tasks are ordered, or still running or starting
  full,              \* the current deployment runs all of them
  call               \* each call: "idle", "running", "healthy" or "failed"

contractVars == <<asked, full, call>>

CallStates == {"idle", "running", "healthy", "failed"}

ContractInit ==
  asked = FALSE /\ full = FALSE /\ call = [c \in Calls |-> "idle"]

Accept(c) ==
  /\ call[c] = "idle"
  /\ call' = [call EXCEPT ![c] = "running"]
  /\ UNCHANGED <<asked, full>>

Scale(c) ==
  /\ call[c] = "running"
  /\ asked' = TRUE
  /\ UNCHANGED <<full, call>>

Succeed(c) ==
  /\ call[c] = "running" /\ full
  /\ call' = [call EXCEPT ![c] = "healthy"]
  /\ UNCHANGED <<asked, full>>

(* A failing call may have scaled the service with its last request. *)
Fail(c) ==
  /\ call[c] = "running"
  /\ call' = [call EXCEPT ![c] = "failed"]
  /\ asked' \in {asked, TRUE}
  /\ UNCHANGED full

(* Tasks come only once somebody asked for them.  They may go at any time,   *)
(* and a Terraform run that sets the count back takes the order with them.  *)
CapacityComes ==
  /\ asked /\ full' = TRUE
  /\ UNCHANGED <<asked, call>>

CapacityGoes ==
  /\ asked' \in {asked, FALSE} /\ full' \in {full, FALSE}
  /\ UNCHANGED call

ContractNext ==
  \/ \E c \in Calls : Accept(c) \/ Scale(c) \/ Succeed(c) \/ Fail(c)
  \/ CapacityComes \/ CapacityGoes

ContractSpec == ContractInit /\ [][ContractNext]_contractVars

=============================================================================
