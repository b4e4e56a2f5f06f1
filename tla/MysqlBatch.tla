----------------------------- MODULE MysqlBatch -----------------------------
(***************************************************************************)
(* One use of the driver from end to end: connect() (MysqlAuth), then one   *)
(* executemany() over the connection it made (MysqlWire).                   *)
(***************************************************************************)
EXTENDS MysqlAuth, MysqlWire

vars == <<authVars, wireVars>>

BatchInit == AuthInit /\ WireInit

(* connect() returns; nobody looks at the connection phase again. *)
Connected ==
  /\ cli.at = "ok"
  /\ cli' = [at |-> "over"] /\ srv' = [at |-> "over"]
  /\ UNCHANGED <<toSrv, toCli, wireVars>>

Connecting(step) == cli.at # "over" /\ step /\ UNCHANGED wireVars
Inserting(step) == cli.at = "over" /\ step /\ UNCHANGED authVars

BatchClient == Connecting(ClientReads) \/ Connected \/ Inserting(ClientStep)
BatchServer == Connecting(ServerActs) \/ Inserting(ServerStep)
BatchNext == BatchClient \/ BatchServer \/ Connecting(AuthLost) \/ Inserting(Lose)

(* The process and the server run; the network owes nobody anything. *)
BatchSpec ==
  BatchInit /\ [][BatchNext]_vars /\ WF_vars(BatchClient) /\ WF_vars(BatchServer)

(* No call waits for ever: neither end of the dialogue, nor of the transfer, *)
(* is left waiting for a packet the other does not know it owes.             *)
EveryCallReturns == <>(cli.at = "raised" \/ (cli.at = "over" /\ pc \in {"done", "raised"}))

=============================================================================
