------------------------- MODULE RegionOutageProofs -------------------------
(***************************************************************************)
(* What readers find during an outage and after it, for any number of       *)
(* posts, any capacity and any threshold of the health check.               *)
(***************************************************************************)
EXTENDS RegionOutage, TLAPS

(* Counts are kept per region; until the promotion the replica holds nothing *)
(* of its own, so that no page exists in the DR region alone.                *)
Counts == tasks \in [Regions -> Nat] /\ passing \in [Regions -> Nat]
ReplicaFollows == ~promoted => posts["dr"] \subseteq posts["primary"]

(* Wherever a post was saved and whichever rows and files were replicated    *)
(* since, its file is in one of the buckets.                                 *)
FilesStored == \A r \in Regions : posts[r] \subseteq media["primary"] \cup media["dr"]

OInv == TypeOK /\ Counts /\ ReplicaFollows /\ FilesStored

-----------------------------------------------------------------------------
LEMMA InitOInv == Init => OInv
<1> SUFFICES ASSUME Init PROVE OInv
  OBVIOUS
<1> USE OutageAssumption DEF Init
<1>1. /\ Counts
      /\ tasks["primary"] = Capacity /\ tasks["dr"] = 0
      /\ \A r \in Regions : passing[r] = tasks[r]
  BY DEF Counts, Regions
<1>2. tasks["primary"] \in 0..Capacity /\ tasks["dr"] \in 0..DrCapacity
  BY <1>1
<1>3. \A r \in Regions : passing[r] \in 0..tasks[r]
  BY <1>1 DEF Regions
<1>4. /\ outage \in {"none", "cut", "down"}
      /\ scaled \in BOOLEAN /\ login \in BOOLEAN /\ promoted \in BOOLEAN
      /\ alarms \in [hosts : BOOLEAN, tasks : BOOLEAN]
      /\ resolved \in [Clients -> Regions]
  BY DEF Regions
<1>5. posts \in [Regions -> SUBSET Posts] /\ media \in [Regions -> SUBSET Posts]
  OBVIOUS
<1>6. check \in [healthy : BOOLEAN, against : 0..(Threshold - 1)]
  OBVIOUS
<1>7. ReplicaFollows /\ FilesStored
  BY DEF ReplicaFollows, FilesStored, Regions
<1> QED BY <1>1, <1>2, <1>3, <1>4, <1>5, <1>6, <1>7 DEF OInv, TypeOK

LEMMA TasksOInv ==
  ASSUME OInv, NEW r \in Regions,
         StartTask(r) \/ StopTask(r) \/ (\E n \in 0..tasks[r] : Target(r, n))
  PROVE  OInv'
<1> USE OutageAssumption DEF OInv, TypeOK, Counts, ReplicaFollows, FilesStored, Regions
<1>1. CASE StartTask(r)
  BY <1>1 DEF StartTask, Desired, data
<1>2. CASE StopTask(r)
  <2>1. PICK n \in {passing[r], passing[r] - 1} :
          n \in 0..tasks'[r] /\ passing' = [passing EXCEPT ![r] = n]
    BY <1>2 DEF StopTask
  <2> QED BY <1>2, <2>1 DEF StopTask, data
<1>3. CASE \E n \in 0..tasks[r] : Target(r, n)
  BY <1>3 DEF Target, data
<1> QED BY <1>1, <1>2, <1>3

LEMMA FailoverOInv ==
  ASSUME OInv,
         \/ \E now \in {"none", "cut", "down"} : PrimaryFailsOrReturns(now)
         \/ LoginChanges \/ Promote \/ ScaleDr \/ DeployDr
  PROVE  OInv'
<1> USE OutageAssumption DEF OInv, TypeOK, Counts, ReplicaFollows, FilesStored, Regions, ecs, data
<1>1. CASE \E now \in {"none", "cut", "down"} : PrimaryFailsOrReturns(now)
  BY <1>1 DEF PrimaryFailsOrReturns
<1>2. CASE LoginChanges
  BY <1>2 DEF LoginChanges
<1>3. CASE Promote
  BY <1>3 DEF Promote
<1>4. CASE ScaleDr
  BY <1>4 DEF ScaleDr
<1>5. CASE DeployDr
  <2>1. /\ tasks' \in [Regions -> Nat] /\ passing' \in [Regions -> Nat]
        /\ tasks'["primary"] = tasks["primary"] /\ tasks'["dr"] = 0
        /\ passing'["primary"] = passing["primary"] /\ passing'["dr"] = 0
    BY <1>5 DEF DeployDr
  <2>2. 0 \in 0..DrCapacity /\ 0 \in 0..0
    OBVIOUS
  <2> QED BY <1>5, <2>1, <2>2 DEF DeployDr
<1> QED BY <1>1, <1>2, <1>3, <1>4, <1>5

LEMMA WatchersOInv ==
  ASSUME OInv,
         (\E c \in Clients : Resolve(c)) \/ Probe \/ EvaluateHosts \/ EvaluateTasks
  PROVE  OInv'
<1> USE OutageAssumption DEF OInv, TypeOK, Counts, ReplicaFollows, FilesStored, Regions, ecs, data
<1>1. CASE \E c \in Clients : Resolve(c)
  BY <1>1 DEF Resolve, Answer
<1>2. CASE Probe
  BY <1>2 DEF Probe
<1>3. CASE EvaluateHosts
  BY <1>3 DEF EvaluateHosts, Breaching
<1>4. CASE EvaluateTasks
  BY <1>4 DEF EvaluateTasks, Breaching
<1> QED BY <1>1, <1>2, <1>3, <1>4

LEMMA ContentOInv ==
  ASSUME OInv, NEW p \in Posts,
         Upload(p) \/ Publish(p) \/ ReplicateRow(p) \/ ReplicateFile(p)
  PROVE  OInv'
<1> USE DEF OInv, TypeOK, Counts, ReplicaFollows, FilesStored, Regions, ecs
<1>0. Here \in Regions
  BY DEF Here, Clients
<1>1. CASE Upload(p)
  BY <1>0, <1>1 DEF Upload
<1>2. CASE Publish(p)
  BY <1>0, <1>2 DEF Publish, Working
<1>3. CASE ReplicateRow(p)
  BY <1>3 DEF ReplicateRow
<1>4. CASE ReplicateFile(p)
  BY <1>4 DEF ReplicateFile
<1> QED BY <1>1, <1>2, <1>3, <1>4

LEMMA NextOInv == OInv /\ [Next]_vars => OInv'
<1> SUFFICES ASSUME OInv, [Next]_vars PROVE OInv'
  OBVIOUS
<1>1. CASE UNCHANGED vars
  BY <1>1 DEF vars, ecs, data, OInv, TypeOK, Counts, ReplicaFollows, FilesStored
<1>2. CASE Next
  BY <1>2, TasksOInv, FailoverOInv, WatchersOInv, ContentOInv DEF Next
<1> QED BY <1>1, <1>2

THEOREM Invariance == Spec => []OInv
<1>1. OInv /\ [Next]_vars => OInv'
  BY NextOInv
<1> QED BY <1>1, InitOInv, PTL DEF Spec

(* Type correctness: never more tasks than were ordered, never more healthy  *)
(* targets than tasks, never a threshold overrun.                            *)
THEOREM TypeCorrect == Spec => []TypeOK
<1>1. OInv => TypeOK
  BY DEF OInv
<1> QED BY <1>1, Invariance, PTL

-----------------------------------------------------------------------------
(* An origin that answers with a page or a file is believed; one that does   *)
(* not have it, or does not answer, passes the reader on.                    *)
LEMMA FirstFound == \A code : Through(200, code) = 200
BY DEF Through, FailsOver

LEMMA SecondFound ==
  ASSUME NEW code \in {200, 403, 404, 503}
  PROVE  Through(code, 200) = 200
BY DEF Through, FailsOver

(* A file is found in either bucket, unless the only region that has it is   *)
(* down.                                                                     *)
LEMMA StoredIsFound ==
  ASSUME NEW p \in media["primary"] \cup media["dr"]
  PROVE  FileServed(p) = 200 \/ (outage = "down" /\ p \in media["primary"] \ media["dr"])
<1>1. CASE p \in media["dr"]
  <2>1. File("dr", p) = 200 /\ File("primary", p) \in {200, 403, 503}
    BY <1>1 DEF File
  <2> QED BY <2>1, SecondFound DEF FileServed
<1>2. CASE p \notin media["dr"] /\ outage # "down"
  <2>1. File("primary", p) = 200
    BY <1>2 DEF File
  <2> QED BY <2>1, FirstFound DEF FileServed
<1> QED BY <1>1, <1>2

(* Whatever has moved between the regions meanwhile, a post that was         *)
(* published in a region that answers is shown, and with its file unless     *)
(* only a region that is down has it: no history of uploads, outages,        *)
(* promotions and replication separates a post from its file for good.       *)
THEOREM PublishedStaysWhole == Spec => []PublishedIsWhole
<1>1. OInv => PublishedIsWhole
  <2> SUFFICES ASSUME OInv, NEW r \in Regions, Reachable(r), NEW p \in posts[r]
               PROVE  /\ PageServed(p) = 200
                      /\ \/ FileServed(p) = 200
                         \/ outage = "down" /\ p \in media["primary"] \ media["dr"]
    BY DEF PublishedIsWhole
  <2>1. PageServed(p) = 200
    <3>1. Page(r, p) = 200 /\ Page("primary", p) \in {200, 403, 404, 503}
      BY DEF Page
    <3> QED BY <3>1, FirstFound, SecondFound DEF PageServed, Regions
  <2>2. p \in media["primary"] \cup media["dr"]
    BY DEF OInv, FilesStored
  <2> QED BY <2>1, <2>2, StoredIsFound
<1> QED BY <1>1, Invariance, PTL

(* Before the promotion the DR database has nothing the primary lacks: what  *)
(* can part the two regions' content begins with the promotion.              *)
THEOREM NothingOfItsOwn == Spec => []ReplicaFollows
<1>1. OInv => ReplicaFollows
  BY DEF OInv
<1> QED BY <1>1, Invariance, PTL

=============================================================================
