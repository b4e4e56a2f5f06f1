-------------------------- MODULE MCReplicaFailover --------------------------
(***************************************************************************)
(* The timing of ReplicaFailover in the smallest ticks that keep the cases  *)
(* apart: a glimpse fits between two looks, the loop makes two turns, so    *)
(* that it can succeed and can run out, and Lambda's timeout comes so late  *)
(* that slow API calls can meet it and quick ones need not.                 *)
(***************************************************************************)
EXTENDS ReplicaFailover

Turn == 2

MCPollInterval == Turn
MCGlimpseTime == Turn - 1
MCMaxWait == 2 * Turn
MCLambdaTimeout == MCMaxWait + Turn

=============================================================================
