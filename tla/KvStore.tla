------------------------------- MODULE KvStore -------------------------------
(***************************************************************************)
(* What the backend relies on of a storage engine (storage/interface.go):  *)
(* a batch is committed as a whole, at one moment at which all of its      *)
(* comparisons are true, or not at all; only an uncertain result leaves    *)
(* that open.  A value with a TTL goes away by itself.                     *)
(***************************************************************************)
EXTENDS Naturals, Sequences

CONSTANTS Clients, Keys, Values, Absent

Results == {"ok", "cas", "error", "uncertain"}

\* A batch is a sequence of operations on different keys.
\*   kind: "pine" PutIfNotExist, "cas" CAS, "put" Put, "del" Del, "delcur" DelCurrent
\*   old: the value that is compared (delcur: the one the iterator found)
\*   ver: its version (delcur); ttl: whether the value written has a TTL
Op(kind, key, val, old, ver, ttl) ==
  [kind |-> kind, key |-> key, val |-> val, old |-> old, ver |-> ver, ttl |-> ttl]

Touches(batch, k) == \E n \in DOMAIN batch : batch[n].key = k
OpOn(batch, k) == batch[CHOOSE n \in DOMAIN batch : batch[n].key = k]

\* The comparison of an operation is true of the value.
Allows(op, val) ==
  CASE op.kind = "pine" -> val = Absent
    [] op.kind \in {"cas", "delcur"} -> val # Absent /\ val = op.old
    [] op.kind \in {"put", "del"} -> TRUE

\* The value the operation leaves behind.
Leaves(op) == IF op.kind \in {"del", "delcur"} THEN Absent ELSE op.val

VARIABLES store, pending, result

vars == <<store, pending, result>>

Holds(batch) == \A n \in DOMAIN batch : Allows(batch[n], store[batch[n].key])
Applied(batch) ==
  [k \in Keys |-> IF Touches(batch, k) THEN Leaves(OpOn(batch, k)) ELSE store[k]]

-----------------------------------------------------------------------------
Begin(c, batch) ==
  /\ pending[c] = <<>>
  /\ pending' = [pending EXCEPT ![c] = batch]
  /\ result' = [result EXCEPT ![c] = "ok"]
  /\ UNCHANGED store

Commit(c, res) ==
  /\ pending[c] # <<>>
  /\ res \in {"ok", "uncertain"}
  /\ Holds(pending[c])
  /\ store' = Applied(pending[c])
  /\ pending' = [pending EXCEPT ![c] = <<>>]
  /\ result' = [result EXCEPT ![c] = res]

Refuse(c, res) ==
  /\ pending[c] # <<>>
  /\ res \in Results \ {"ok"}
  /\ pending' = [pending EXCEPT ![c] = <<>>]
  /\ result' = [result EXCEPT ![c] = res]
  /\ UNCHANGED store

Expire(k) ==
  /\ store' = [store EXCEPT ![k] = Absent]
  /\ UNCHANGED <<pending, result>>

Init ==
  /\ store = [k \in Keys |-> Absent]
  /\ pending = [c \in Clients |-> <<>>]
  /\ result = [c \in Clients |-> "ok"]

Next ==
  \/ \E c \in Clients : pending[c] = <<>> /\ Begin(c, pending'[c])
  \/ \E c \in Clients, res \in Results : Commit(c, res) \/ Refuse(c, res)
  \/ \E k \in Keys : Expire(k)

Spec == Init /\ [][Next]_vars
==============================================================================
