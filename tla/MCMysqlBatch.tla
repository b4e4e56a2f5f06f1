---------------------------- MODULE MCMysqlBatch ----------------------------
(***************************************************************************)
(* Batches of up to three rows: statements of less than a packet, of exactly *)
(* one, of more packets than there are numbers; up to the limit of a         *)
(* statement, and beyond it with a single row.                               *)
(***************************************************************************)
EXTENDS MysqlBatch

RowSizes == {1, 2, 16}
MCBatches == UNION {[1..n -> RowSizes] : n \in 0..3}
MCPlugins == {"native", "caching", "sha256", "clear", "dialog", "ed25519"}

=============================================================================
