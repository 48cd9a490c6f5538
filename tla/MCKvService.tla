----------------------------- MODULE MCKvService -----------------------------
(***************************************************************************)
(* The KV service of a leader (EtcdKV), how it came to lead (Leader), and  *)
(* the storage engine below both (KvEngine), for TLC.  EtcdKV takes from   *)
(* KvEngine that batches are atomic, and from Leader that it starts above  *)
(* all that was dealt before.  They share no variable, and a behaviour     *)
(* moves only the one in focus: each is checked by itself.                 *)
(*                                                                         *)
(* The engine holds the revision key and the object key of one record, and *)
(* gets the batches the backend builds on them.                            *)
(***************************************************************************)
EXTENDS KvEngine, Leader, EtcdKV, TLC

CONSTANTS revisionKey, objectKey

VARIABLE focus

MCKeys == {revisionKey, objectKey}
MCValues == {1, 2}

Put(val, ttl) == S!Op("put", objectKey, val, 1, 0, ttl)
Create(val) == <<S!Op("pine", revisionKey, val, 1, 0, TRUE), Put(val, TRUE)>>
Update(val, old) == <<S!Op("cas", revisionKey, val, old, 0, FALSE), Put(val, FALSE)>>
Compact == <<S!Op("del", objectKey, 1, 1, 0, FALSE)>>
MCBatches == {Create(1), Update(2, 1), Update(1, 2), Compact}

\* The clients of the KV service are not told from one another.
Symmetry == Permutations(EtcdClients)

OnEngine == focus = "engine"
OnKV == focus = "kv"
OnElection == focus = "election"

MCInit ==
  /\ focus \in {"engine", "kv", "election"}
  /\ Init
  /\ KvInit
  /\ LeaderInit
  /\ ~OnEngine => kind = "memkv"

MCNext ==
  /\ UNCHANGED focus
  /\ \/ OnEngine /\ Next /\ UNCHANGED <<kvVars, leaderVars>>
     \/ OnKV /\ KvNext /\ UNCHANGED <<vars, leaderVars>>
     \/ OnElection /\ LeaderNext /\ UNCHANGED <<vars, kvVars>>

MCSpec == MCInit /\ [][MCNext]_<<focus, vars, kvVars, leaderVars>>

-----------------------------------------------------------------------------
(* The properties of the three hold whatever is in focus.                 *)

\* The variables have their types (KvEngine, EtcdKV, Leader).
ServiceTypesOK == TypeOK /\ KvTypeOK /\ LeaderTypeOK
==============================================================================
