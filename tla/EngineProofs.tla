---------------------------- MODULE EngineProofs -----------------------------
(***************************************************************************)
(* The storage engines, and the election whose lock is a key in one.       *)
(*                                                                         *)
(* Every engine is a store of atomic batches, and a batch fails for a      *)
(* reason only, for any clients, keys, values and batches.  Of Leader, for *)
(* any number of nodes, leases, crashes and revisions: who may hold the    *)
(* lock, how many nodes admit writes, and that revisions ascend across a   *)
(* change of leader.                                                       *)
(***************************************************************************)
EXTENDS KvEngine, Leader, TLAPS

-----------------------------------------------------------------------------
(* The engines: the inductive invariant.                                   *)

Ops ==
  [kind : {"pine", "cas", "put", "del", "delcur"}, key : Keys, val : Values, old : Values,
   ver : Nat, ttl : BOOLEAN]

Outcomes == [res : {"ok", "cas", "error"}, n : Nat, val : Values \cup {Absent}]

View == [Keys -> [val : Values \cup {Absent}, ver : Nat]]

Txns ==
  [step : {"idle", "open", "evaluated"}, batch : Seq(Ops), snap : View, start : Nat,
   err : Outcomes]

EngineTypes ==
  /\ kind \in Kinds
  /\ db \in View
  /\ version \in Nat
  /\ txn \in [Clients -> Txns]
  /\ result \in [Clients -> [res : S!Results, n : Nat, val : Values \cup {Absent}]]
  /\ item = None \/ item \in [key : Keys, val : Values, ver : Nat]
  /\ \A timer \in timers : timer.key \in Keys

\* Commits are numbered.
Numbered ==
  /\ \A k \in Keys : db[k].ver <= version
  /\ item # None => item.ver <= version
  /\ \A c \in Clients : txn[c].start <= version

\* A client has a batch exactly while it is busy.
Held ==
  \A c \in Clients : IF c \in Busy THEN txn[c].batch # <<>> ELSE txn[c].batch = <<>>

\* memkv: the mutex keeps all others off the store that a batch has seen.
Locked == kind = "memkv" => \A c \in Busy : mu = c /\ txn[c].snap = db

\* badger, tikv: what has not changed is as the batch has seen it.
Snapshot ==
  kind # "memkv" =>
    \A c \in Busy, k \in Keys : ~Changed(c, k) => db[k] = txn[c].snap[k]

\* badger: a version stands for one value.
Versioned ==
  kind = "badger" =>
    /\ item # None /\ db[item.key].ver = item.ver => db[item.key].val = item.val
    /\ \A c \in Busy : \A n \in DOMAIN txn[c].batch :
         LET op == txn[c].batch[n] IN
         op.kind = "delcur" =>
           op.ver <= version /\ (db[op.key].ver = op.ver => db[op.key].val = op.old)

\* The result of the evaluation is that of the operations.
JudgedAs(c, err) ==
  IF err = Fine THEN \A n \in DOMAIN txn[c].batch : OutcomeOf(c, n) = Fine
  ELSE err.res # "ok" /\ \E n \in DOMAIN txn[c].batch : OutcomeOf(c, n) # Fine

JudgedOf(c) ==
  /\ txn[c].step = "open" => txn[c].err = Fine
  /\ txn[c].step = "evaluated" => JudgedAs(c, txn[c].err)

Judged == \A c \in Clients : JudgedOf(c)

EngineInv == EngineTypes /\ Numbered /\ Held /\ Locked /\ Snapshot /\ Versioned /\ Judged

-----------------------------------------------------------------------------
(* The operations of a batch.                                              *)

\* A batch that a client may begin: operations on keys of the store, and a
\* DelCurrent is of what the iterator found.
LEMMA ChosenBatch ==
  ASSUME EngineTypes, NEW batch \in Chosen
  PROVE  /\ batch \in Seq(Ops)
         /\ batch # <<>>
         /\ \A n \in DOMAIN batch : batch[n].kind = "delcur" =>
              item # None /\ batch[n].key = item.key /\ batch[n].old = item.val
              /\ batch[n].ver = item.ver
<1>1. CASE batch \in Batches
  <2> DEFINE A == [kind : {"pine", "cas", "put", "del"}, key : Keys, val : Values,
                   old : Values, ver : {0}, ttl : BOOLEAN]
  <2>1. batch # <<>> /\ batch \in Seq(A)
    BY Zenon, <1>1, KvEngineAssumption
  <2>2. \A op \in A : op \in Ops /\ op.kind # "delcur"
    BY DEF Ops
  <2>3. \A n \in DOMAIN batch : batch[n] \in A
    <3> HIDE DEF A
    <3> QED BY <2>1
  <2>4. batch \in Seq(Ops)
    <3> HIDE DEF A
    <3> QED BY <2>1, <2>2, <2>3
  <2> QED BY Zenon, <2>1, <2>2, <2>3, <2>4
<1>2. CASE batch \notin Batches
  <2>1. /\ item # None
        /\ batch = <<S!Op("delcur", item.key, item.val, item.val, item.ver, FALSE)>>
    BY Zenon, <1>2 DEF Chosen
  <2>2. item \in [key : Keys, val : Values, ver : Nat]
    BY Zenon, <2>1 DEF EngineTypes
  <2>3. S!Op("delcur", item.key, item.val, item.val, item.ver, FALSE) \in Ops
    BY Zenon, <2>2 DEF S!Op, Ops
  <2> QED BY <2>1, <2>3 DEF S!Op
<1> QED BY Zenon, <1>1, <1>2

\* Entries of the store.
Entry == [val : Values \cup {Absent}, ver : Nat]

\* An operation that is fine is one whose comparison is true, provided the version
\* stands for the value.
LEMMA FineIsAllowed ==
  ASSUME kind \in Kinds, NEW op \in Ops, NEW n \in Nat, NEW entry \in Entry,
         Outcome(op, n, entry) = Fine,
         kind = "badger" /\ op.kind = "delcur" /\ entry.ver = op.ver => entry.val = op.old
  PROVE  S!Allows(op, entry.val)
<1> USE DEF Ops, Entry, Fine, Conflict
<1>1. op.old # Absent
  BY Zenon, KvEngineAssumption
<1>2. CASE kind = "memkv"
  BY Zenon, <1>1, <1>2 DEF Outcome, MemOutcome, S!Allows
<1>3. CASE kind = "badger"
  BY Zenon, <1>1, <1>3 DEF Outcome, BadgerOutcome, S!Allows
<1>4. CASE kind = "tikv"
  BY Zenon, <1>1, <1>4 DEF Outcome, TikvOutcome, S!Allows
<1> QED BY Zenon, <1>2, <1>3, <1>4 DEF Kinds

\* An operation that is not fine is an error, and its comparison is false or its
\* version is another one.
LEMMA ErrorHasAReason ==
  ASSUME kind \in Kinds, NEW op \in Ops, NEW n \in Nat, NEW entry \in Entry,
         Outcome(op, n, entry) # Fine
  PROVE  /\ Outcome(op, n, entry) \in Outcomes
         /\ Outcome(op, n, entry).res # "ok"
         /\ ~S!Allows(op, entry.val) \/ (op.kind = "delcur" /\ entry.ver # op.ver)
<1> USE DEF Ops, Entry, Fine, Conflict, Outcomes
<1>1. op.old # Absent
  BY Zenon, KvEngineAssumption
<1>2. CASE kind = "memkv"
  BY Zenon, <1>1, <1>2 DEF Outcome, MemOutcome, S!Allows
<1>3. CASE kind = "badger"
  BY Zenon, <1>1, <1>3 DEF Outcome, BadgerOutcome, S!Allows
<1>4. CASE kind = "tikv"
  BY Zenon, <1>1, <1>4 DEF Outcome, TikvOutcome, S!Allows
<1> QED BY Zenon, <1>2, <1>3, <1>4 DEF Kinds

-----------------------------------------------------------------------------
(* The invariant holds at the beginning and is kept by every action.       *)

\* The invariant holds at the start, of each engine.
LEMMA EngineInitInv == Init => EngineInv
<1> SUFFICES ASSUME Init
             PROVE  EngineInv
  BY Zenon
<1>1. Fine \in Outcomes /\ Fine \in [res : S!Results, n : Nat, val : Values \cup {Absent}]
  BY Zenon DEF Fine, Outcomes, S!Results
<1>2. NoTxn \in Txns
  BY <1>1 DEF NoTxn, Txns, View
<1>3. EngineTypes
  BY Zenon, <1>1, <1>2 DEF Init, EngineTypes, View
<1>4. Busy = {}
  BY Zenon DEF Init, Busy, NoTxn
<1> QED BY <1>3, <1>4 DEF EngineInv, Init, Numbered, Held, Locked, Snapshot, Versioned,
          Judged,
                             JudgedOf, NoTxn

\* A judgement of operations depends on the batch and its snapshot only.
LEMMA JudgedStays ==
  ASSUME NEW c \in Clients, NEW err, kind' = kind, txn'[c].batch = txn[c].batch,
         txn'[c].snap = txn[c].snap
  PROVE  JudgedAs(c, err)' <=> JudgedAs(c, err)
<1>1. \A n : OutcomeOf(c, n)' = OutcomeOf(c, n)
  BY Zenon DEF OutcomeOf, Outcome
<1> QED BY Zenon, <1>1 DEF JudgedAs

\* A batch begins.
LEMMA BeginInv ==
  ASSUME EngineInv, NEW c \in Clients, NEW batch \in Chosen, Begin(c, batch)
  PROVE  EngineInv'
<1>1. Opened(c, batch)
  BY Zenon DEF Begin, MemBegin, BadgerBegin, TikvBegin
<1>2. /\ UNCHANGED <<kind, db, version, timers, item>>
      /\ c \in Clients \ Busy
      /\ txn' = [txn EXCEPT ![c] = [step |-> "open", batch |-> batch, snap |-> db,
                                    start |-> version, err |-> Fine]]
      /\ result' = [result EXCEPT ![c] = Fine]
  BY Zenon, <1>1 DEF Opened, dbVars
<1>3. /\ batch \in Seq(Ops)
      /\ batch # <<>>
      /\ \A n \in DOMAIN batch : batch[n].kind = "delcur" =>
           item # None /\ batch[n].key = item.key /\ batch[n].old = item.val
           /\ batch[n].ver = item.ver
  BY Zenon, ChosenBatch DEF EngineInv
<1>4. EngineTypes'
  <2>1. Fine \in Outcomes /\ Fine \in [res : S!Results, n : Nat, val : Values \cup {Absent}]
    BY Zenon DEF Fine, Outcomes, S!Results
  <2>2. txn' \in [Clients -> Txns]
    BY Zenon, <1>2, <1>3, <2>1 DEF EngineInv, EngineTypes, Txns
  <2> QED BY Zenon, <1>2, <2>1, <2>2 DEF EngineInv, EngineTypes
<1>5. Busy' = Busy \cup {c} /\ \A d \in Clients \ {c} : txn'[d] = txn[d]
  BY Zenon, <1>2 DEF Busy, EngineInv, EngineTypes
<1>6. /\ txn'[c].step = "open" /\ txn'[c].batch = batch /\ txn'[c].snap = db
      /\ txn'[c].start = version /\ txn'[c].err = Fine
  BY Zenon, <1>2 DEF EngineInv, EngineTypes
<1>7. Numbered'
  BY <1>2, <1>5, <1>6 DEF EngineInv, EngineTypes, Numbered
<1>8. Held'
  BY Zenon, <1>2, <1>3, <1>5, <1>6 DEF EngineInv, Held
<1>9. Locked'
  <2>1. CASE kind = "memkv"
    <3>1. mu = None /\ mu' = c
      BY Zenon, <2>1 DEF Begin, MemBegin, BadgerBegin, TikvBegin
    <3>2. Busy = {}
      BY Zenon, <2>1, <3>1, KvEngineAssumption DEF EngineInv, Locked, Busy
    <3> QED BY Zenon, <1>2, <1>5, <1>6, <3>1, <3>2 DEF Locked
  <2> QED BY Zenon, <1>2, <2>1 DEF Locked
<1>10. Snapshot'
  BY <1>2, <1>5, <1>6 DEF EngineInv, Snapshot, Changed, Busy
<1>11. Versioned'
  BY <1>2, <1>3, <1>5, <1>6 DEF EngineInv, Versioned, Numbered, Busy
<1>12. Judged'
  <2>1. \A d \in Clients \ {c} : JudgedAs(d, txn[d].err)' <=> JudgedAs(d, txn[d].err)
    BY Zenon, <1>2, <1>5, JudgedStays
  <2> QED BY Zenon, <1>5, <1>6, <2>1 DEF EngineInv, Judged, JudgedOf
<1> QED BY Zenon, <1>4, <1>7, <1>8, <1>9, <1>10, <1>11, <1>12 DEF EngineInv

\* A batch is evaluated.
LEMMA EvaluateInv ==
  ASSUME EngineInv, NEW c \in Clients, Evaluate(c)
  PROVE  EngineInv'
<1>1. /\ txn[c].step = "open"
      /\ UNCHANGED <<kind, db, version, timers, mu, result, item>>
  BY Zenon DEF Evaluate, dbVars
<1>2. PICK err \in Outcomes :
        /\ txn' = [txn EXCEPT ![c].step = "evaluated", ![c].err = err]
        /\ JudgedAs(c, err)
  <2>1. CASE \A n \in DOMAIN txn[c].batch : OutcomeOf(c, n) = Fine
    <3>1. txn' = [txn EXCEPT ![c].step = "evaluated"] /\ txn[c].err = Fine
      BY Zenon, <1>1, <2>1 DEF Evaluate, EngineInv, Judged, JudgedOf
    <3>2. txn' = [txn EXCEPT ![c].step = "evaluated", ![c].err = Fine] /\ Fine \in Outcomes
      BY Zenon, <3>1 DEF EngineInv, EngineTypes, Txns
    <3> QED BY Zenon, <2>1, <3>2 DEF JudgedAs
  <2>2. ASSUME NEW n \in DOMAIN txn[c].batch, OutcomeOf(c, n) # Fine,
               txn' = [txn EXCEPT ![c].step = "evaluated", ![c].err = OutcomeOf(c, n)]
        PROVE  OutcomeOf(c, n) \in Outcomes /\ OutcomeOf(c, n).res # "ok"
    <3>1. txn[c] \in Txns /\ n \in Nat /\ txn[c].batch[n] \in Ops
      BY DEF EngineInv, EngineTypes, Txns
    <3>2. txn[c].snap[txn[c].batch[n].key] \in Entry
      BY Zenon, <3>1 DEF Txns, View, Entry, Ops
    <3> QED BY Zenon, <2>2, <3>1, <3>2, ErrorHasAReason DEF OutcomeOf, EngineInv, EngineTypes
  <2> QED BY Zenon, <2>1, <2>2 DEF Evaluate, JudgedAs
<1>3. EngineTypes'
  <2>1. txn[c] \in Txns
    BY Zenon DEF EngineInv, EngineTypes
  <2>2. [txn[c] EXCEPT !.step = "evaluated", !.err = err] \in Txns
    BY Zenon, <2>1 DEF Txns
  <2>3. txn' \in [Clients -> Txns]
    BY Zenon, <1>2, <2>2 DEF EngineInv, EngineTypes
  <2> QED BY Zenon, <1>1, <2>3 DEF EngineInv, EngineTypes
<1>4. /\ Busy' = Busy /\ c \in Busy
      /\ \A d \in Clients : /\ txn'[d].batch = txn[d].batch /\ txn'[d].snap = txn[d].snap
                            /\ txn'[d].start = txn[d].start
                            /\ d # c => txn'[d] = txn[d]
      /\ txn'[c].step = "evaluated" /\ txn'[c].err = err
  BY Zenon, <1>1, <1>2 DEF EngineInv, EngineTypes, Txns, Busy
<1>5. Numbered' /\ Held' /\ Locked' /\ Snapshot' /\ Versioned'
  BY <1>1, <1>4 DEF EngineInv, Numbered, Held, Locked, Snapshot, Changed, Versioned, Busy
<1>6. Judged'
  <2>1. \A d \in Clients : JudgedAs(d, txn[d].err)' <=> JudgedAs(d, txn'[d].err)
    BY Zenon, <1>1, <1>4, JudgedStays
  <2>2. ASSUME NEW d \in Clients \ {c}
        PROVE  JudgedOf(d)'
    BY Zenon, <1>4, <2>1 DEF EngineInv, Judged, JudgedOf
  <2>3. JudgedOf(c)'
    BY Zenon, <1>2, <1>4, <2>1 DEF JudgedOf
  <2> QED BY Zenon, <2>2, <2>3 DEF Judged
<1> QED BY Zenon, <1>3, <1>5, <1>6 DEF EngineInv

\* What a client may be told.
Told == [res : S!Results, n : Nat, val : Values \cup {Absent}]

\* A commit ends the batch of its client and no other one.
LEMMA ReturnEnds ==
  ASSUME EngineInv, NEW c \in Clients, NEW res \in Told, Return(c, res)
  PROVE  /\ txn' \in [Clients -> Txns]
         /\ result' \in [Clients -> Told]
         /\ Busy' = Busy \ {c}
         /\ txn'[c].batch = <<>> /\ txn'[c].step = "idle" /\ txn'[c].start = 0
         /\ \A d \in Clients \ {c} : txn'[d] = txn[d]
         /\ UNCHANGED <<kind, item>>
<1>1. Fine \in Outcomes
  BY Zenon DEF Fine, Outcomes
<1>2. NoTxn \in Txns
  BY <1>1 DEF NoTxn, Txns, View
<1>3. NoTxn.step = "idle" /\ NoTxn.batch = <<>> /\ NoTxn.start = 0
  BY Zenon DEF NoTxn
<1> HIDE DEF NoTxn
<1> QED BY Zenon, <1>2, <1>3 DEF Return, EngineInv, EngineTypes, Told, Busy

\* A commit that writes nothing.
LEMMA RefusedInv ==
  ASSUME EngineInv, NEW c \in Busy, NEW res \in Told, Return(c, res),
         UNCHANGED <<db, version, timers>>
  PROVE  EngineInv'
<1>1. c \in Clients
  BY Zenon DEF Busy
<1>2. /\ txn' \in [Clients -> Txns]
      /\ result' \in [Clients -> Told]
      /\ Busy' = Busy \ {c}
      /\ txn'[c].batch = <<>> /\ txn'[c].step = "idle" /\ txn'[c].start = 0
      /\ \A d \in Clients \ {c} : txn'[d] = txn[d]
      /\ UNCHANGED <<kind, item>>
  BY Zenon, <1>1, ReturnEnds
<1>3. EngineTypes'
  BY Zenon, <1>2 DEF EngineInv, EngineTypes, Told
<1>4. Numbered'
  <2>1. \A d \in Clients : txn'[d].start <= version
    BY <1>2 DEF EngineInv, EngineTypes, Numbered
  <2> QED BY Zenon, <1>2, <2>1 DEF EngineInv, Numbered
<1>8. Held' /\ Snapshot'
  BY <1>2 DEF EngineInv, Held, Snapshot, Changed, Busy
<1>5. Locked'
  BY Zenon, <1>2 DEF EngineInv, Locked, Busy
<1>6. Versioned'
  BY <1>2 DEF EngineInv, Versioned, Busy
<1>7. Judged'
  <2>1. \A d \in Clients \ {c} : JudgedAs(d, txn[d].err)' <=> JudgedAs(d, txn[d].err)
    BY Zenon, <1>2, JudgedStays
  <2> QED BY Zenon, <1>2, <2>1 DEF EngineInv, Judged, JudgedOf
<1> QED BY Zenon, <1>3, <1>4, <1>5, <1>6, <1>7, <1>8 DEF EngineInv

\* What a batch writes.
LEMMA WrittenEntries ==
  ASSUME EngineInv, NEW c \in Busy
  PROVE  /\ Written(txn[c].batch) \in View
         /\ \A k \in Keys : \/ Written(txn[c].batch)[k] = db[k]
                            \/ Written(txn[c].batch)[k].ver = version + 1
<1> DEFINE batch == txn[c].batch
<1>1. batch \in Seq(Ops)
  BY Zenon DEF EngineInv, EngineTypes, Txns, Busy
<1>2. ASSUME NEW k \in Keys, S!Touches(batch, k)
      PROVE  S!Leaves(S!OpOn(batch, k)) \in Values \cup {Absent}
  <2>1. PICK n \in DOMAIN batch : S!OpOn(batch, k) = batch[n]
    BY Zenon, <1>2 DEF S!Touches, S!OpOn
  <2>2. batch[n] \in Ops
    BY <1>1
  <2> QED BY Zenon, <2>1, <2>2 DEF S!Leaves, Ops
<1>3. version + 1 \in Nat /\ db \in View
  BY DEF EngineInv, EngineTypes
<1> HIDE DEF batch
<1>4. Written(batch) \in View
  BY Zenon, <1>2, <1>3 DEF Written, View
<1>5. \A k \in Keys : Written(batch)[k] = db[k] \/ Written(batch)[k].ver = version + 1
  BY Zenon DEF Written
<1> QED BY Zenon, <1>4, <1>5 DEF batch

\* A commit that writes.
LEMMA AppliedInv ==
  ASSUME EngineInv, NEW c \in Busy, NEW res \in Told, Return(c, res), Apply(c),
         timers' = timers \/ timers' = timers \cup Started(txn[c].batch)
  PROVE  EngineInv'
<1>1. c \in Clients
  BY Zenon DEF Busy
<1>2. /\ txn' \in [Clients -> Txns]
      /\ result' \in [Clients -> Told]
      /\ Busy' = Busy \ {c}
      /\ txn'[c].batch = <<>> /\ txn'[c].step = "idle" /\ txn'[c].start = 0
      /\ \A d \in Clients \ {c} : txn'[d] = txn[d]
      /\ UNCHANGED <<kind, item>>
  BY Zenon, <1>1, ReturnEnds
<1>3. /\ db' \in View
      /\ version \in Nat /\ version' = version + 1
      /\ \A k \in Keys : db'[k] = db[k] \/ db'[k].ver = version + 1
  BY Zenon, WrittenEntries DEF Apply, EngineInv, EngineTypes
<1>4. EngineTypes'
  <2>1. \A timer \in timers' : timer.key \in Keys
    <3>1. \A n \in DOMAIN txn[c].batch : txn[c].batch[n].key \in Keys
      <4>1. txn[c].batch \in Seq(Ops)
        BY Zenon, <1>1 DEF EngineInv, EngineTypes, Txns
      <4>2. \A n \in DOMAIN txn[c].batch : txn[c].batch[n] \in Ops
        BY <4>1
      <4> QED BY Zenon, <4>2 DEF Ops
    <3> QED BY <3>1 DEF EngineInv, EngineTypes, Started
  <2> QED BY <1>2, <1>3, <2>1 DEF EngineInv, EngineTypes, Told
<1>5. Numbered'
  <2>1. \A d \in Clients : txn'[d].start <= version + 1
    <3>1. \A d \in Clients : txn[d].start \in Nat /\ txn[d].start <= version
      BY Zenon DEF EngineInv, EngineTypes, Txns, Numbered
    <3> QED BY <1>2, <1>3, <3>1
  <2>2. \A k \in Keys : db'[k].ver <= version + 1
    <3>1. \A k \in Keys : db[k].ver \in Nat /\ db[k].ver <= version
      BY Zenon DEF EngineInv, EngineTypes, View, Numbered
    <3> QED BY <1>3, <3>1
  <2>3. item # None => item.ver <= version + 1
    BY <1>3 DEF EngineInv, EngineTypes, Numbered
  <2> QED BY Zenon, <1>2, <1>3, <2>1, <2>2, <2>3 DEF Numbered
<1>6. Held'
  BY Zenon, <1>2 DEF EngineInv, Held
<1>7. Locked'
  BY Zenon, <1>2 DEF EngineInv, Locked, Busy
<1>8. Snapshot'
  <2> SUFFICES ASSUME kind # "memkv", NEW d \in Busy \ {c}, NEW k \in Keys, ~Changed(d, k)'
               PROVE  db'[k] = txn[d].snap[k]
    BY <1>2 DEF Snapshot, Busy
  <2>1. txn'[d] = txn[d] /\ txn[d].start \in Nat /\ txn[d].start <= version
    BY Zenon, <1>2 DEF EngineInv, EngineTypes, Txns, Numbered, Busy
  <2>2. db'[k].ver \in Nat /\ ~(db'[k].ver > txn[d].start)
    BY Zenon, <1>3, <2>1 DEF Changed, View
  <2>3. db'[k] = db[k]
    BY <1>3, <2>1, <2>2
  <2> QED BY Zenon, <2>2, <2>3 DEF EngineInv, Snapshot, Changed
<1>9. Versioned'
  <2> SUFFICES ASSUME kind = "badger"
               PROVE  Versioned'
    BY Zenon, <1>2 DEF Versioned
  <2>1. ASSUME item # None, db'[item.key].ver = item.ver
        PROVE  db'[item.key].val = item.val
    <3>1. item \in [key : Keys, val : Values, ver : Nat] /\ item.ver <= version
      BY Zenon, <2>1 DEF EngineInv, EngineTypes, Numbered
    <3>2. db'[item.key] = db[item.key]
      BY <1>3, <2>1, <3>1
    <3> QED BY Zenon, <2>1, <3>2 DEF EngineInv, Versioned
  <2>2. ASSUME NEW d \in Busy \ {c}, NEW n \in DOMAIN txn[d].batch,
               txn[d].batch[n].kind = "delcur"
        PROVE  /\ txn[d].batch[n].ver <= version'
               /\ db'[txn[d].batch[n].key].ver = txn[d].batch[n].ver
                    => db'[txn[d].batch[n].key].val = txn[d].batch[n].old
    <3> DEFINE op == txn[d].batch[n]
    <3>1. op \in Ops
      BY DEF EngineInv, EngineTypes, Txns, Busy
    <3>2. op.ver <= version /\ (db[op.key].ver = op.ver => db[op.key].val = op.old)
      BY Zenon, <2>2 DEF EngineInv, Versioned
    <3>3. op.key \in Keys /\ op.ver \in Nat
      BY Zenon, <3>1 DEF Ops
    <3> HIDE DEF op
    <3>4. db'[op.key] = db[op.key] \/ db'[op.key].ver = version + 1
      BY Zenon, <1>3, <3>3
    <3>5. op.ver <= version' /\ (db'[op.key].ver = op.ver => db'[op.key].val = op.old)
      BY <1>3, <3>2, <3>3, <3>4
    <3> QED BY Zenon, <3>5 DEF op
  <2> QED BY <1>2, <2>1, <2>2 DEF Versioned, Busy
<1>10. Judged'
  <2>1. \A d \in Clients \ {c} : JudgedAs(d, txn[d].err)' <=> JudgedAs(d, txn[d].err)
    BY Zenon, <1>2, JudgedStays
  <2> QED BY Zenon, <1>2, <2>1 DEF EngineInv, Judged, JudgedOf
<1> QED BY Zenon, <1>4, <1>5, <1>6, <1>7, <1>8, <1>9, <1>10 DEF EngineInv

\* No comparison of the batch is out of date.
Current(c) == (kind = "badger" => ~BadgerOvertaken(c)) /\ (kind = "tikv" => ~TikvOvertaken(c))

\* What Commit comes to in every engine.
Succeeds(c, res) ==
  /\ Ready(c, FALSE) /\ Current(c)
  /\ res.res \in {"ok", "uncertain"}
  /\ Apply(c)
  /\ timers' = timers \/ timers' = timers \cup Started(txn[c].batch)

Fails(c, res) ==
  /\ res.res # "ok"
  /\ res.res # "uncertain" => Ready(c, TRUE) \/ ~Current(c)
  /\ UNCHANGED <<db, version, timers>>

\* A commit is one of a batch that takes effect, or of one that leaves the database.
LEMMA CommitCases ==
  ASSUME EngineInv, NEW c \in Clients, Commit(c)
  PROVE  /\ c \in Busy
         /\ txn[c].step = "evaluated"
         /\ \E res \in Told : Return(c, res) /\ (Succeeds(c, res) \/ Fails(c, res))
<1>1. c \in Busy /\ txn[c].step = "evaluated"
  BY Zenon DEF Commit, MemCommit, BadgerCommit, TikvCommit, Ready, Busy
<1>2. /\ txn[c].err \in Told
      /\ Ready(c, TRUE) => txn[c].err.res # "ok" /\ txn[c].err.res # "uncertain"
      /\ Ready(c, FALSE) => txn[c].err.res = "ok"
  <2>1. txn[c].err \in Outcomes
    BY Zenon DEF EngineInv, EngineTypes, Txns
  <2>2. JudgedAs(c, txn[c].err)
    BY Zenon, <1>1 DEF EngineInv, Judged, JudgedOf
  <2>3. txn[c].err \in Told /\ txn[c].err.res # "uncertain"
    BY Zenon, <2>1 DEF Outcomes, Told, S!Results
  <2> QED BY <2>2, <2>3 DEF JudgedAs, Ready, Fine
<1>3. \A res \in S!Results : /\ [Fine EXCEPT !.res = res] \in Told
                             /\ [Fine EXCEPT !.res = res].res = res
  BY Zenon DEF Fine, Told
<1>4. Fine \in Told /\ Fine.res = "ok"
  BY Zenon DEF Fine, Told, S!Results
<1>5. CASE MemCommit(c)
  <2>1. Current(c) /\ Return(c, txn[c].err)
    BY Zenon, <1>5 DEF Current, MemCommit
  <2>2. CASE Ready(c, FALSE)
    BY Zenon, <1>2, <1>5, <2>1, <2>2, <1>1 DEF MemCommit, Ready, Succeeds
  <2>3. CASE Ready(c, TRUE)
    BY Zenon, <1>2, <1>5, <2>1, <2>3, <1>1 DEF MemCommit, Ready, Fails, dbVars
  <2> QED BY Zenon, <1>5, <2>2, <2>3 DEF MemCommit
<1>6. CASE BadgerCommit(c)
  <2>1. kind = "badger" /\ timers' = timers
    BY Zenon, <1>6 DEF BadgerCommit
  <2>2. CASE Ready(c, FALSE) /\ ~BadgerOvertaken(c) /\ Apply(c) /\ Return(c, Fine)
    BY Zenon, <1>1, <1>4, <2>1, <2>2 DEF Succeeds, Current
  <2>3. CASE /\ Ready(c, FALSE) /\ BadgerOvertaken(c)
             /\ Return(c, [Fine EXCEPT !.res = "error"]) /\ UNCHANGED <<db, version>>
    <3>1. "error" \in S!Results /\ ~Current(c)
      BY Zenon, <2>1, <2>3 DEF S!Results, Current
    <3> HIDE DEF Fine
    <3> QED BY Zenon, <1>1, <1>3, <2>1, <2>3, <3>1 DEF Fails
  <2>4. CASE Ready(c, TRUE) /\ Return(c, txn[c].err) /\ UNCHANGED <<db, version>>
    BY Zenon, <1>1, <1>2, <2>1, <2>4 DEF Fails
  <2> QED BY Zenon, <1>6, <2>2, <2>3, <2>4 DEF BadgerCommit
<1>7. CASE TikvCommit(c)
  <2>1. kind = "tikv" /\ timers' = timers
    BY Zenon, <1>7 DEF TikvCommit
  <2>2. ASSUME Ready(c, FALSE), ~TikvOvertaken(c), Apply(c), NEW r \in {"ok", "uncertain"},
               Return(c, [Fine EXCEPT !.res = r])
        PROVE  \E res \in Told : Return(c, res) /\ Succeeds(c, res)
    <3>1. r \in S!Results /\ Current(c)
      BY Zenon, <2>1, <2>2 DEF S!Results, Current
    <3> QED BY Zenon, <1>3, <2>1, <2>2, <3>1 DEF Succeeds
  <2>3. CASE /\ Ready(c, FALSE) /\ TikvOvertaken(c) /\ Return(c, WriteConflict)
             /\ UNCHANGED <<db, version>>
    <3>1. "cas" \in S!Results /\ ~Current(c)
      BY Zenon, <2>1, <2>3 DEF S!Results, Current
    <3> QED BY Zenon, <1>1, <1>3, <2>1, <2>3, <3>1 DEF Fails, WriteConflict
  <2>4. CASE /\ Return(c, [Fine EXCEPT !.res = "uncertain"]) /\ UNCHANGED <<db, version>>
    <3>1. "uncertain" \in S!Results
      BY Zenon DEF S!Results
    <3> QED BY Zenon, <1>1, <1>3, <2>1, <2>4, <3>1 DEF Fails
  <2>5. CASE Ready(c, TRUE) /\ Return(c, txn[c].err) /\ UNCHANGED <<db, version>>
    BY Zenon, <1>1, <1>2, <2>1, <2>5 DEF Fails
  <2> QED BY Zenon, <1>1, <1>7, <2>2, <2>3, <2>4, <2>5 DEF TikvCommit
<1> QED BY Zenon, <1>5, <1>6, <1>7 DEF Commit

\* A batch is committed, or fails.
LEMMA CommitInv ==
  ASSUME EngineInv, NEW c \in Clients, Commit(c)
  PROVE  EngineInv'
<1>1. PICK res \in Told : Return(c, res) /\ (Succeeds(c, res) \/ Fails(c, res))
  BY Zenon, CommitCases
<1>2. c \in Busy
  BY Zenon, CommitCases
<1>3. CASE Succeeds(c, res)
  BY Zenon, <1>1, <1>2, <1>3, AppliedInv DEF Succeeds
<1>4. CASE Fails(c, res)
  BY Zenon, <1>1, <1>2, <1>4, RefusedInv DEF Fails
<1> QED BY Zenon, <1>1, <1>3, <1>4

\* A timer removes a value.
LEMMA TimerInv ==
  ASSUME EngineInv, NEW timer \in timers, Timer(timer)
  PROVE  EngineInv'
<1>1. /\ kind = "memkv" /\ mu = None /\ timers' \subseteq timers
      /\ timer.key \in Keys
      /\ db' = [db EXCEPT ![timer.key].val = Absent]
      /\ UNCHANGED <<kind, version, mu, txn, result, item>>
  BY Zenon DEF Timer, EngineInv, EngineTypes
<1>2. Busy = {} /\ Busy' = {}
  BY Zenon, <1>1, KvEngineAssumption DEF EngineInv, Locked, Busy
<1>3. db' \in View /\ \A k \in Keys : db'[k].ver = db[k].ver
  BY Zenon, <1>1 DEF EngineInv, EngineTypes, View
<1>4. EngineTypes'
  BY Zenon, <1>1, <1>3 DEF EngineInv, EngineTypes
<1>5. Numbered' /\ Held' /\ Locked' /\ Snapshot' /\ Versioned'
  BY Zenon, <1>1, <1>2, <1>3 DEF EngineInv, Numbered, Held, Locked, Snapshot, Versioned
<1>6. Judged'
  BY Zenon, <1>1, JudgedStays DEF EngineInv, Judged, JudgedOf
<1> QED BY Zenon, <1>4, <1>5, <1>6 DEF EngineInv

\* An iterator moves.
LEMMA IterInv ==
  ASSUME EngineInv, NEW k \in Keys, Iter(k)
  PROVE  EngineInv'
<1>1. item' = Found(k) /\ UNCHANGED <<kind, db, version, timers, mu, txn, result>>
  BY Zenon DEF Iter, MemIter, BadgerIter, TikvIter, dbVars
<1>2. /\ item' = None \/ item' \in [key : Keys, val : Values, ver : Nat]
      /\ item' # None => item'.key = k /\ item'.val = db[k].val /\ item'.ver = db[k].ver
  BY Zenon, <1>1 DEF Found, EngineInv, EngineTypes, View
<1>3. EngineTypes'
  BY Zenon, <1>1, <1>2 DEF EngineInv, EngineTypes
<1>4. Numbered' /\ Held' /\ Locked' /\ Snapshot' /\ Versioned'
  BY Zenon, <1>1, <1>2 DEF EngineInv, Numbered, Held, Locked, Snapshot, Changed, Versioned,
    Busy
<1>5. Judged'
  BY Zenon, <1>1, JudgedStays DEF EngineInv, Judged, JudgedOf
<1> QED BY Zenon, <1>3, <1>4, <1>5 DEF EngineInv

\* Every step keeps the invariant.
LEMMA EngineNextInv == EngineInv /\ [Next]_vars => EngineInv'
<1> SUFFICES ASSUME EngineInv, [Next]_vars
             PROVE  EngineInv'
  BY Zenon
<1>1. CASE UNCHANGED vars
  <2>1. UNCHANGED <<kind, db, version, timers, mu, txn, result, item>>
    BY Zenon, <1>1 DEF vars, dbVars
  <2>2. Judged'
    BY Zenon, <2>1, JudgedStays DEF EngineInv, Judged, JudgedOf
  <2>3. EngineTypes' /\ Numbered' /\ Held' /\ Locked' /\ Snapshot' /\ Versioned'
    BY <2>1 DEF EngineInv, EngineTypes, Numbered, Held, Locked, Snapshot, Changed, Versioned, Busy
  <2> QED BY Zenon, <2>2, <2>3 DEF EngineInv
<1> QED BY Zenon, <1>1, BeginInv, EvaluateInv, CommitInv, TimerInv, IterInv DEF Next

-----------------------------------------------------------------------------
(* The refinement.                                                         *)

\* When a batch succeeds, its comparisons are true at that moment.
LEMMA SucceedsHolds ==
  ASSUME EngineInv, NEW c \in Busy, Ready(c, FALSE), Current(c)
  PROVE  S!Holds(txn[c].batch)
<1> DEFINE batch == txn[c].batch
<1>1. c \in Clients /\ txn[c] \in Txns /\ txn[c].step = "evaluated" /\ txn[c].err = Fine
  BY Zenon DEF Busy, Ready, EngineInv, EngineTypes
<1> SUFFICES ASSUME NEW n \in DOMAIN batch
             PROVE  S!Allows(batch[n], [k \in Keys |-> db[k].val][batch[n].key])
  BY Zenon DEF S!Holds
<1> DEFINE op == batch[n]
           entry == txn[c].snap[op.key]
<1>2. op \in Ops /\ op.key \in Keys /\ n \in Nat
  <2>1. batch \in Seq(Ops)
    BY Zenon, <1>1 DEF Txns
  <2>2. batch[n] \in Ops /\ n \in Nat
    BY <2>1
  <2> QED BY Zenon, <2>2 DEF Ops
<1>3. entry \in Entry /\ db[op.key] \in Entry
  BY Zenon, <1>1, <1>2 DEF Txns, View, Entry, EngineInv, EngineTypes
<1>4. Outcome(op, n, entry) = Fine
  <2>1. JudgedAs(c, Fine)
    BY Zenon, <1>1 DEF EngineInv, Judged, JudgedOf
  <2> QED BY Zenon, <2>1 DEF JudgedAs, OutcomeOf
<1>5. kind \in Kinds
  BY Zenon DEF EngineInv, EngineTypes
<1>6. CASE kind = "memkv" \/ op.kind \in {"pine", "cas", "delcur"} \/ kind = "tikv"
  <2>1. entry = db[op.key]
    <3>1. CASE kind = "memkv"
      BY Zenon, <3>1 DEF EngineInv, Locked
    <3>2. CASE kind = "badger" /\ op.kind \in {"pine", "cas", "delcur"}
      BY Zenon, <1>2, <3>2 DEF EngineInv, Snapshot, Current, BadgerOvertaken
    <3>3. CASE kind = "tikv"
      BY Zenon, <1>2, <3>3 DEF EngineInv, Snapshot, Current, TikvOvertaken
    <3> QED BY Zenon, <1>5, <1>6, <3>1, <3>2, <3>3 DEF Kinds
  <2>2. kind = "badger" /\ op.kind = "delcur" /\ entry.ver = op.ver => entry.val = op.old
    BY Zenon, <2>1 DEF EngineInv, Versioned
  <2>3. S!Allows(op, entry.val)
    <3> HIDE DEF op, entry
    <3> QED BY Zenon, <1>2, <1>3, <1>4, <1>5, <2>2, FineIsAllowed
  <2> QED BY Zenon, <1>2, <2>1, <2>3
<1>7. CASE op.kind \in {"put", "del"}
  BY Zenon, <1>7 DEF S!Allows
<1> QED BY Zenon, <1>2, <1>6, <1>7 DEF Ops

\* Every step of an engine is a step of the store, or none.
LEMMA StepIsStoreStep ==
  ASSUME EngineInv, [Next]_vars
  PROVE  [S!Next]_S!vars
<1> DEFINE store == [k \in Keys |-> db[k].val]
           pending == [c \in Clients |-> txn[c].batch]
           told == [c \in Clients |-> result[c].res]
<1> USE DEF EngineInv, EngineTypes
<1>1. ASSUME NEW c \in Clients, NEW batch \in Chosen, Begin(c, batch)
      PROVE  S!Next
  <2>1. /\ c \notin Busy /\ db' = db
        /\ txn' = [txn EXCEPT ![c] = [step |-> "open", batch |-> batch, snap |-> db,
                                      start |-> version, err |-> Fine]]
        /\ result' = [result EXCEPT ![c] = Fine]
    BY Zenon, <1>1 DEF Begin, MemBegin, BadgerBegin, TikvBegin, Opened, dbVars
  <2>2. pending[c] = <<>>
    BY Zenon, <2>1 DEF Held, Busy
  <2>3. pending' = [pending EXCEPT ![c] = batch] /\ pending'[c] = batch
    BY Zenon, <2>1
  <2>4. told' = [told EXCEPT ![c] = "ok"]
    BY Zenon, <2>1 DEF Fine
  <2>5. store' = store
    BY Zenon, <2>1
  <2> QED BY Zenon, <2>2, <2>3, <2>4, <2>5 DEF S!Next, S!Begin
<1>2. ASSUME NEW c \in Clients, Evaluate(c)
      PROVE  UNCHANGED S!vars
  <2>1. db' = db /\ result' = result
    BY Zenon, <1>2 DEF Evaluate, dbVars
  <2>2. pending' = pending
    <3>1. \A d \in Clients : txn'[d].batch = txn[d].batch
      <4>1. CASE txn' = [txn EXCEPT ![c].step = "evaluated"]
        BY Zenon, <4>1 DEF Txns
      <4>2. ASSUME NEW n,
                   txn' = [txn EXCEPT ![c].step = "evaluated", ![c].err = OutcomeOf(c, n)]
            PROVE  \A d \in Clients : txn'[d].batch = txn[d].batch
        BY Zenon, <4>2 DEF Txns
      <4> QED BY Zenon, <1>2, <4>1, <4>2 DEF Evaluate
    <3> QED BY Zenon, <3>1
  <2> QED BY Zenon, <2>1, <2>2 DEF S!vars
<1>3. ASSUME NEW c \in Clients, Commit(c)
      PROVE  S!Next
  <2>1. PICK res \in Told : Return(c, res) /\ (Succeeds(c, res) \/ Fails(c, res))
    BY Zenon, <1>3, CommitCases
  <2>2. c \in Busy /\ pending[c] # <<>>
    BY Zenon, <1>3, CommitCases DEF Held
  <2>3. pending' = [pending EXCEPT ![c] = <<>>]
    BY Zenon, <2>1 DEF Return, NoTxn
  <2>4. told' = [told EXCEPT ![c] = res.res] /\ res.res \in S!Results
    BY Zenon, <2>1 DEF Return, Told
  <2>5. CASE Succeeds(c, res)
    <3>1. store' = S!Applied(pending[c])
      BY Zenon, <2>5 DEF Succeeds, Apply, Written, S!Applied
    <3>2. S!Holds(pending[c])
      BY Zenon, <2>2, <2>5, SucceedsHolds DEF Succeeds
    <3> QED BY Zenon, <2>2, <2>3, <2>4, <2>5, <3>1, <3>2 DEF S!Next, S!Commit, Succeeds
  <2>6. CASE Fails(c, res)
    <3>1. store' = store
      BY Zenon, <2>6 DEF Fails
    <3> QED BY Zenon, <2>2, <2>3, <2>4, <2>6, <3>1 DEF S!Next, S!Refuse, Fails
  <2> QED BY Zenon, <2>1, <2>5, <2>6
<1>4. ASSUME NEW timer \in timers, Timer(timer)
      PROVE  S!Next
  <2>1. timer.key \in Keys /\ db' = [db EXCEPT ![timer.key].val = Absent]
    BY Zenon, <1>4 DEF Timer
  <2>2. store' = [store EXCEPT ![timer.key] = Absent]
    BY Zenon, <2>1 DEF View
  <2>3. pending' = pending /\ told' = told
    BY Zenon, <1>4 DEF Timer
  <2> QED BY Zenon, <2>1, <2>2, <2>3 DEF S!Next, S!Expire
<1>5. ASSUME NEW k \in Keys, Iter(k)
      PROVE  UNCHANGED S!vars
  BY Zenon, <1>5 DEF Iter, MemIter, BadgerIter, TikvIter, dbVars, S!vars
<1>6. CASE UNCHANGED vars
  BY Zenon, <1>6 DEF vars, dbVars, S!vars
<1> QED BY Zenon, <1>1, <1>2, <1>3, <1>4, <1>5, <1>6 DEF Next

\* The invariant holds at all times.
LEMMA EngineInvariance == Spec => []EngineInv
  BY EngineInitInv, EngineNextInv, PTL DEF Spec

\* memkv, badger and tikv, as the backend uses them, are stores of atomic batches:
\* the comparisons of a batch hold at the moment it is committed, and nothing of
\* one that fails is left behind (Commit of the three engines).
THEOREM EveryEngineIsAStore == Spec => IsStore
<1>1. Init => S!Init
  BY DEF Init, S!Init, NoTxn, Fine
<1>2. EngineInv /\ [Next]_vars => [S!Next]_S!vars
  BY Zenon, StepIsStoreStep
<1> QED BY <1>1, <1>2, EngineInvariance, PTL DEF Spec, IsStore, S!Spec

\* The reasons for which a batch may fail, at the moment it does.
Reason(c) ==
  \E n \in DOMAIN txn[c].batch :
    LET op == txn[c].batch[n] IN
    \/ Changed(c, op.key) \/ ~S!Allows(op, db[op.key].val)
    \/ op.kind = "delcur" /\ db[op.key].ver # op.ver

\* A batch that fails has a reason.
LEMMA FailureHasAReason ==
  ASSUME EngineInv, NEW c \in Busy, txn[c].step = "evaluated", Ready(c, TRUE) \/ ~Current(c)
  PROVE  Reason(c)
<1>1. CASE ~Current(c)
  BY Zenon, <1>1 DEF Current, BadgerOvertaken, TikvOvertaken, Reason
<1>2. CASE Ready(c, TRUE)
  <2>1. c \in Clients /\ txn[c] \in Txns /\ txn[c].err # Fine
    BY Zenon, <1>2 DEF Busy, Ready, EngineInv, EngineTypes
  <2>2. PICK n \in DOMAIN txn[c].batch : OutcomeOf(c, n) # Fine
    BY Zenon, <2>1 DEF EngineInv, Judged, JudgedOf, JudgedAs
  <2> DEFINE op == txn[c].batch[n]
             entry == txn[c].snap[op.key]
  <2>3. op \in Ops /\ op.key \in Keys /\ n \in Nat
    <3>1. txn[c].batch \in Seq(Ops)
      BY Zenon, <2>1 DEF Txns
    <3>2. op \in Ops /\ n \in Nat
      BY <3>1
    <3> QED BY Zenon, <3>2 DEF Ops
  <2>4. entry \in Entry
    BY Zenon, <2>1, <2>3 DEF Txns, View, Entry
  <2>5. Outcome(op, n, entry) # Fine /\ kind \in Kinds
    BY Zenon, <2>2 DEF OutcomeOf, EngineInv, EngineTypes
  <2>6. ~S!Allows(op, entry.val) \/ (op.kind = "delcur" /\ entry.ver # op.ver)
    <3> HIDE DEF op, entry
    <3> QED BY Zenon, <2>3, <2>4, <2>5, ErrorHasAReason
  <2>7. Changed(c, op.key) \/ entry = db[op.key]
    BY Zenon, <2>3 DEF EngineInv, Locked, Snapshot
  <2> QED BY Zenon, <2>6, <2>7 DEF Reason
<1> QED BY Zenon, <1>1, <1>2

\* No engine refuses a batch without a reason: a comparison is false, or a key of
\* the batch was written since it, or its iterator, began (Commit).
THEOREM BatchesFailForAReason == Spec => FailsForAReason
<1>1. ASSUME EngineInv, [Next]_vars, NEW c \in Clients, c \in Busy, txn'[c].step = "idle",
             result'[c].res \in {"cas", "error"}
      PROVE  Reason(c)
  <2>1. txn[c].step # "idle"
    BY Zenon, <1>1 DEF Busy
  <2>2. ASSUME NEW d \in Clients, Commit(d)
        PROVE  Reason(c)
    <3>1. PICK res \in Told : Return(d, res) /\ (Succeeds(d, res) \/ Fails(d, res))
      BY Zenon, <1>1, <2>2, CommitCases
    <3>2. d = c
      BY Zenon, <1>1, <2>1, <3>1 DEF Return, EngineInv, EngineTypes
    <3>3. result'[c].res = res.res
      <4>1. result' = [result EXCEPT ![c] = res] /\ DOMAIN result = Clients
        BY Zenon, <1>1, <3>1, <3>2 DEF Return, EngineInv, EngineTypes
      <4> QED BY Zenon, <1>1, <4>1
    <3>4. Ready(c, TRUE) \/ ~Current(c)
      BY Zenon, <1>1, <3>1, <3>2, <3>3 DEF Succeeds, Fails
    <3> QED BY Zenon, <1>1, <2>2, <3>2, <3>4, CommitCases, FailureHasAReason
  <2>3. ASSUME NEW d \in Clients, NEW batch, Begin(d, batch)
        PROVE  FALSE
    <3>1. txn' = [txn EXCEPT ![d] = [step |-> "open", batch |-> batch, snap |-> db,
                                     start |-> version, err |-> Fine]]
      BY Zenon, <2>3 DEF Begin, MemBegin, BadgerBegin, TikvBegin, Opened
    <3> QED BY Zenon, <1>1, <2>1, <3>1 DEF EngineInv, EngineTypes
  <2>4. ASSUME NEW d \in Clients, Evaluate(d)
        PROVE  FALSE
    <3>1. CASE txn' = [txn EXCEPT ![d].step = "evaluated"]
      BY Zenon, <1>1, <2>1, <3>1 DEF EngineInv, EngineTypes, Txns
    <3>2. ASSUME NEW n,
                 txn' = [txn EXCEPT ![d].step = "evaluated", ![d].err = OutcomeOf(d, n)]
          PROVE  FALSE
      BY Zenon, <1>1, <2>1, <3>2 DEF EngineInv, EngineTypes, Txns
    <3> QED BY Zenon, <2>4, <3>1, <3>2 DEF Evaluate
  <2>5. ASSUME txn' = txn
        PROVE  FALSE
    BY Zenon, <1>1, <2>1, <2>5
  <2> QED
    BY Zenon, <1>1, <2>2, <2>3, <2>4, <2>5
    DEF Next, Timer, Iter, MemIter, BadgerIter, TikvIter, vars
<1>2. EngineInv /\ [Next]_vars =>
        [\A c \in Clients :
           c \in Busy /\ txn'[c].step = "idle" /\ result'[c].res \in {"cas", "error"}
             => \E n \in DOMAIN txn[c].batch :
                  LET op == txn[c].batch[n] IN
                  \/ Changed(c, op.key) \/ ~S!Allows(op, db[op.key].val)
                  \/ op.kind = "delcur" /\ db[op.key].ver # op.ver]_vars
  BY Zenon, <1>1 DEF Reason
<1> QED BY <1>2, EngineInvariance, PTL DEF Spec, FailsForAReason

-----------------------------------------------------------------------------
(* The election: the inductive invariant.                                  *)

\* The steps of OnStartedLeading, up to the release of the lock.
Holding == {"begin", "raise", "flag", "leading"}
Leading == {"leading", "stopping"}
Calls == {"none", "stopping"} \cup Holding

Locks == [holder : Nodes \cup {Nobody}, value : 0 .. MaxUpdates, expired : BOOLEAN]
Processes == [up : BOOLEAN, lock : {"idle", "got", "stopped"}, call : Calls,
              lastVal : 0 .. MaxUpdates, holder : Nodes \cup {Nobody},
              tso : 0 .. MaxOracle, start : 0 .. MaxOracle, pre : 0 .. MaxOracle]

\* A node whose callback runs holds the lock, and its lease has not run out.
HoldersHold ==
  \A n \in Nodes : node[n].call \in Holding => lock.holder = n /\ ~lock.expired

\* A node that goes on to Create or Update has a value of the lock that is not
\* newer than the record; while it is the same, the node may still take the lock.
GotIsCurrent ==
  /\ lock.value = 0 => lock.holder = Nobody
  /\ \A n \in Nodes :
       /\ node[n].lastVal <= lock.value
       /\ node[n].lock = "got" /\ node[n].lastVal = lock.value =>
            lock.holder \in {Nobody, n} \/ lock.expired

\* The elector of a process that is about to end takes no further step.
StoppedStays == \A n \in Nodes : node[n].call = "stopping" => node[n].lock = "stopped"

\* A process that has ended is at no step.
DownRests == \A n \in Nodes : node[n].up \/ (node[n].call = "none" /\ node[n].lock = "idle")

\* While a node that released the lock still runs, nobody has it, and no other
\* node is anywhere in its callback.
Alone ==
  \A m \in Nodes : node[m].call = "stopping" =>
    /\ lock.holder = Nobody
    /\ \A n \in Nodes \ {m} : node[n].call = "none"

\* Nothing dealt lies above the clock.
DealtBelow(rev) == \A i \in DOMAIN dealt : dealt[i] <= rev

\* The way of the version through the callback, all the way above what was dealt.
Above ==
  \A n \in Nodes :
    /\ node[n].call = "begin" => DealtBelow(node[n].tso)
    /\ node[n].call = "raise" => DealtBelow(node[n].start) /\ node[n].pre = deal[n]
    /\ node[n].call \in {"flag"} \cup Leading => DealtBelow(deal[n])

\* The inductive invariant.
LeaderInv ==
  /\ LeaderTypeOK
  /\ dealt \in Seq(Nat)
  /\ HoldersHold
  /\ GotIsCurrent
  /\ StoppedStays
  /\ DownRests
  /\ "release" \notin Races => Alone
  /\ DealtBelow(oracle)
  /\ Races = {} => Above /\ RevisionsAscend

\* At most one node is between the start of its callback and the release of the
\* lock, whichever races the instance admits.
OneHolds ==
  \A m, n \in Nodes : node[m].call \in Holding /\ node[n].call \in Holding => m = n

-----------------------------------------------------------------------------
(* LeaderTypes.                                                                  *)

\* What LeaderTypeOK says, with the sets named above.
LEMMA LeaderTypes ==
  LeaderTypeOK <=>
    /\ oracle \in 1 .. MaxOracle
    /\ lock \in Locks
    /\ node \in [Nodes -> Processes]
    /\ leader \in [Nodes -> BOOLEAN]
    /\ \A n \in Nodes : leader[n] <=> node[n].call \in Leading
    /\ committed \in [Nodes -> 0 .. MaxOracle]
    /\ deal \in [Nodes -> 0 .. MaxOracle]
<1>1. Calls = {"none", "begin", "raise", "flag", "leading", "stopping"}
  BY Zenon DEF Calls, Holding
<1> QED BY Zenon, <1>1 DEF LeaderTypeOK, Locks, Processes, Leading

\* The same after a step.
LEMMA TypesNext ==
  ASSUME oracle' \in 1 .. MaxOracle,
         lock' \in Locks,
         node' \in [Nodes -> Processes],
         leader' \in [Nodes -> BOOLEAN],
         \A n \in Nodes : leader'[n] <=> node'[n].call \in Leading,
         committed' \in [Nodes -> 0 .. MaxOracle],
         deal' \in [Nodes -> 0 .. MaxOracle]
  PROVE  LeaderTypeOK'
<1>1. Calls = {"none", "begin", "raise", "flag", "leading", "stopping"}
  BY Zenon DEF Calls, Holding
<1> QED BY Zenon, <1>1 DEF LeaderTypeOK, Locks, Processes, Leading

\* The numbers of a process and of the lock.
LEMMA Numbers ==
  /\ MaxOracle \in Nat /\ MaxOracle >= 1 /\ MaxUpdates \in Nat
  /\ \A p \in Processes :
       /\ p.tso \in 0 .. MaxOracle /\ p.start \in 0 .. MaxOracle /\ p.pre \in 0 .. MaxOracle
       /\ p.lastVal \in 0 .. MaxUpdates /\ p.holder \in Nodes \cup {Nobody}
       /\ p.call \in Calls /\ p.lock \in {"idle", "got", "stopped"} /\ p.up \in BOOLEAN
  /\ \A l \in Locks :
       l.holder \in Nodes \cup {Nobody} /\ l.value \in 0 .. MaxUpdates /\ l.expired \in BOOLEAN
<1>1. MaxOracle \in Nat /\ MaxOracle >= 1 /\ MaxUpdates \in Nat
  BY LeaderAssumption
<1> QED BY Zenon, <1>1 DEF Processes, Locks

\* A process that has just started.
LEMMA FreshTypes ==
  /\ Fresh \in Processes /\ Fresh.call = "none" /\ Fresh.lock = "idle" /\ Fresh.lastVal = 0
  /\ [Fresh EXCEPT !.up = FALSE] \in Processes
  /\ [Fresh EXCEPT !.up = FALSE].call = "none"
  /\ [Fresh EXCEPT !.up = FALSE].lock = "idle"
  /\ [Fresh EXCEPT !.up = FALSE].lastVal = 0
<1>1. 0 \in 0 .. MaxOracle /\ 0 \in 0 .. MaxUpdates
  BY Numbers
<1>2. "none" \in Calls
  BY Zenon DEF Calls
<1> QED BY Zenon, <1>1, <1>2 DEF Fresh, Processes

\* Steps that change one process only.
LEMMA Moved ==
  ASSUME NEW f \in [Nodes -> Processes], NEW g, NEW n \in Nodes, NEW p \in Processes,
         g = [f EXCEPT ![n] = p]
  PROVE  /\ g \in [Nodes -> Processes]
         /\ g[n] = p
         /\ \A m \in Nodes \ {n} : g[m] = f[m]
  BY Zenon

\* The calls are told apart.
LEMMA CallsDiffer ==
  /\ Holding = {"begin", "raise", "flag", "leading"}
  /\ Leading = {"leading", "stopping"}
  /\ "none" \notin Holding /\ "stopping" \notin Holding
  /\ "none" \notin Leading
  /\ \A c \in Calls : c \in Holding \/ c = "none" \/ c = "stopping"
  BY DEF Holding, Leading, Calls

-----------------------------------------------------------------------------
(* What keeps the parts of the invariant.                                  *)

\* The clock, the lock and what was dealt stay, and a process moves within the
\* part of its callback that it is in, or leaves it: who holds the lock is kept.
LEMMA LockKept ==
  ASSUME LeaderInv, NEW n \in Nodes, lock' = lock,
         node' \in [Nodes -> Processes],
         \A m \in Nodes \ {n} : node'[m] = node[m],
         \/ node'[n].call = "none"
         \/ node'[n].call \in Holding /\ node[n].call \in Holding
         \/ node'[n].call = node[n].call /\ node'[n].lock = node[n].lock,
         node'[n].up \/ (node'[n].call = "none" /\ node'[n].lock = "idle"),
         node'[n].lastVal <= lock.value,
         (node'[n].lock = "got" /\ node'[n].lastVal = lock.value) =>
            (lock.holder \in {Nobody, n} \/ lock.expired)
  PROVE  /\ HoldersHold' /\ GotIsCurrent' /\ StoppedStays' /\ DownRests'
         /\ "release" \notin Races => Alone'
<1>1. HoldersHold'
  BY Zenon, CallsDiffer DEF LeaderInv, HoldersHold
<1>2. GotIsCurrent'
  BY Zenon DEF LeaderInv, GotIsCurrent
<1>3. StoppedStays'
  BY Zenon, CallsDiffer DEF LeaderInv, StoppedStays
<1>4. DownRests'
  BY Zenon DEF LeaderInv, DownRests
<1>5. ASSUME "release" \notin Races PROVE Alone'
  <2>1. \A m \in Nodes : node'[m].call = "stopping" => node[m].call = "stopping"
    BY Zenon, CallsDiffer
  <2>2. \A m \in Nodes : node[m].call = "none" => node'[m].call = "none"
    BY Zenon, CallsDiffer
  <2> QED BY Zenon, <1>5, <2>1, <2>2 DEF LeaderInv, Alone
<1> QED BY Zenon, <1>1, <1>2, <1>3, <1>4, <1>5

\* What was dealt stays below the version of a callback that moves on.
LEMMA AboveKept ==
  ASSUME LeaderInv, Races = {}, NEW n \in Nodes, dealt' = dealt,
         \A m \in Nodes \ {n} : node'[m] = node[m] /\ deal'[m] = deal[m],
         node'[n].call = "begin" => DealtBelow(node'[n].tso),
         node'[n].call = "raise" => DealtBelow(node'[n].start) /\ node'[n].pre = deal'[n],
         node'[n].call \in {"flag"} \cup Leading => DealtBelow(deal'[n])
  PROVE  Above' /\ RevisionsAscend'
<1>1. RevisionsAscend'
  BY Zenon DEF LeaderInv, RevisionsAscend
<1>2. Above'
  BY Zenon DEF LeaderInv, Above, DealtBelow
<1> QED BY <1>1, <1>2

\* Steps of the elector and of the callback that neither write the lock nor deal.
LEMMA StepKept ==
  ASSUME LeaderInv, NEW n \in Nodes, NEW p \in Processes,
         node' = [node EXCEPT ![n] = p],
         UNCHANGED <<oracle, lock, dealt>>,
         leader' \in [Nodes -> BOOLEAN],
         \A m \in Nodes \ {n} : leader'[m] = leader[m] /\ deal'[m] = deal[m],
         leader'[n] <=> p.call \in Leading,
         committed' \in [Nodes -> 0 .. MaxOracle],
         deal' \in [Nodes -> 0 .. MaxOracle],
         \/ p.call = "none"
         \/ p.call \in Holding /\ node[n].call \in Holding
         \/ p.call = node[n].call /\ p.lock = node[n].lock,
         p.up \/ (p.call = "none" /\ p.lock = "idle"),
         p.lastVal <= lock.value,
         (p.lock = "got" /\ p.lastVal = lock.value) =>
            (lock.holder \in {Nobody, n} \/ lock.expired),
         Races = {} =>
           /\ p.call = "begin" => DealtBelow(p.tso)
           /\ p.call = "raise" => DealtBelow(p.start) /\ p.pre = deal'[n]
           /\ p.call \in {"flag"} \cup Leading => DealtBelow(deal'[n])
  PROVE  LeaderInv'
<1>1. /\ oracle \in 1 .. MaxOracle /\ lock \in Locks /\ node \in [Nodes -> Processes]
      /\ \A m \in Nodes : leader[m] <=> node[m].call \in Leading
  BY Zenon, LeaderTypes DEF LeaderInv
<1>2. /\ node' \in [Nodes -> Processes]
      /\ node'[n] = p
      /\ \A m \in Nodes \ {n} : node'[m] = node[m]
  BY Zenon, <1>1
<1>3. \A m \in Nodes : leader'[m] <=> node'[m].call \in Leading
  BY Zenon, <1>1, <1>2
<1>4. LeaderTypeOK'
  BY Zenon, <1>1, <1>2, <1>3, TypesNext
<1>5. /\ HoldersHold' /\ GotIsCurrent' /\ StoppedStays' /\ DownRests'
      /\ "release" \notin Races => Alone'
  BY Zenon, <1>2, LockKept
<1>6. Races = {} => Above' /\ RevisionsAscend'
  BY Zenon, <1>2, AboveKept
<1>7. dealt' \in Seq(Nat) /\ DealtBelow(oracle)'
  BY Zenon DEF LeaderInv, DealtBelow
<1> QED BY Zenon, <1>4, <1>5, <1>6, <1>7 DEF LeaderInv

-----------------------------------------------------------------------------
(* One lemma per action.                                                   *)

\* The variables of a node have their types.
LEMMA NodeTypes ==
  ASSUME LeaderInv, NEW n \in Nodes
  PROVE  /\ node \in [Nodes -> Processes] /\ node[n] \in Processes
         /\ leader \in [Nodes -> BOOLEAN] /\ (leader[n] <=> node[n].call \in Leading)
         /\ committed \in [Nodes -> 0 .. MaxOracle] /\ committed[n] \in 0 .. MaxOracle
         /\ deal \in [Nodes -> 0 .. MaxOracle] /\ deal[n] \in 0 .. MaxOracle
         /\ oracle \in 1 .. MaxOracle /\ lock \in Locks
  BY Zenon, LeaderTypes DEF LeaderInv

\* A process that is at no step may take the place of another.
LEMMA RestsInv ==
  ASSUME LeaderInv, NEW n \in Nodes, NEW p \in Processes,
         p.call = "none", p.lock = "idle", p.lastVal = 0,
         node' = [node EXCEPT ![n] = p],
         leader' \in [Nodes -> BOOLEAN], ~leader'[n],
         committed' \in [Nodes -> 0 .. MaxOracle], deal' \in [Nodes -> 0 .. MaxOracle],
         \A m \in Nodes \ {n} : leader'[m] = leader[m] /\ deal'[m] = deal[m],
         UNCHANGED <<oracle, lock, dealt>>
  PROVE  LeaderInv'
<1>1. p.lastVal <= lock.value
  <2>1. lock.value \in 0 .. MaxUpdates
    BY Zenon, NodeTypes, Numbers
  <2> QED BY <2>1, Numbers
<1>2. p.call \notin Leading /\ p.call \notin {"begin", "raise", "flag"} /\ p.lock # "got"
  BY CallsDiffer
<1>3. (leader'[n] <=> p.call \in Leading) /\ p.call \notin {"flag"} \cup Leading
  BY Zenon, <1>2
<1> QED BY Zenon, <1>1, <1>2, <1>3, StepKept

\* The end of a process.
LEMMA CrashInv ==
  ASSUME LeaderInv, NEW n \in Nodes, Crash(n)
  PROVE  LeaderInv'
<1>1. PICK p \in Processes : p = [Fresh EXCEPT !.up = FALSE]
  BY Zenon, FreshTypes
<1>2. p.call = "none" /\ p.lock = "idle" /\ p.lastVal = 0
  BY Zenon, <1>1, FreshTypes
<1>3. 0 \in 0 .. MaxOracle
  BY Numbers
<1>4. /\ node' = [node EXCEPT ![n] = p] /\ leader' = [leader EXCEPT ![n] = FALSE]
      /\ committed' = [committed EXCEPT ![n] = 0] /\ deal' = [deal EXCEPT ![n] = 0]
      /\ oracle' = oracle /\ lock' = lock /\ dealt' = dealt
  BY Zenon, <1>1 DEF Crash
<1>5. /\ leader' \in [Nodes -> BOOLEAN] /\ ~leader'[n]
      /\ committed' \in [Nodes -> 0 .. MaxOracle] /\ deal' \in [Nodes -> 0 .. MaxOracle]
      /\ \A m \in Nodes \ {n} : leader'[m] = leader[m] /\ deal'[m] = deal[m]
  BY Zenon, <1>3, <1>4, NodeTypes
<1> QED BY Zenon, <1>2, <1>4, <1>5, RestsInv

\* Another process in its place.
LEMMA RestartInv ==
  ASSUME LeaderInv, NEW n \in Nodes, Restart(n)
  PROVE  LeaderInv'
<1>1. PICK p \in Processes : p = Fresh
  BY Zenon, FreshTypes
<1>2. p.call = "none" /\ p.lock = "idle" /\ p.lastVal = 0
  BY Zenon, <1>1, FreshTypes
<1>3. /\ node' = [node EXCEPT ![n] = p] /\ leader' = leader /\ committed' = committed
      /\ deal' = deal /\ oracle' = oracle /\ lock' = lock /\ dealt' = dealt
  BY Zenon, <1>1 DEF Restart, tsoVars
<1>4. ~leader'[n]
  <2>1. node[n].call = "none"
    BY Zenon DEF LeaderInv, DownRests, Restart
  <2> QED BY Zenon, <1>3, <2>1, NodeTypes, CallsDiffer
<1> QED BY Zenon, <1>2, <1>3, <1>4, NodeTypes, RestsInv

\* A step of the elector that reads: the callback goes on as it was, with a
\* version that is not below what was dealt if it has not read it yet.
LEMMA ReadInv ==
  ASSUME LeaderInv, NEW n \in Nodes, NEW p \in Processes,
         node[n].lock # "stopped", node[n].up, p.up,
         node' = [node EXCEPT ![n] = p],
         UNCHANGED <<oracle, lock, leader, tsoVars, dealt>>,
         p.call = node[n].call, p.start = node[n].start, p.pre = node[n].pre,
         \/ p.tso = node[n].tso
         \/ p.tso = oracle
         \/ Races = {} => p.call # "begin",
         p.lastVal <= lock.value,
         (p.lock = "got" /\ p.lastVal = lock.value) =>
            (lock.holder \in {Nobody, n} \/ lock.expired)
  PROVE  LeaderInv'
<1>1. node[n].call # "stopping"
  BY Zenon DEF LeaderInv, StoppedStays
<1>2. p.call = "none" \/ (p.call \in Holding /\ node[n].call \in Holding)
  BY Zenon, <1>1, NodeTypes, Numbers, CallsDiffer
<1>3. ASSUME Races = {}
      PROVE  /\ p.call = "begin" => DealtBelow(p.tso)
             /\ p.call = "raise" => DealtBelow(p.start) /\ p.pre = deal[n]
             /\ p.call \in {"flag"} \cup Leading => DealtBelow(deal[n])
  <2>1. p.call = "begin" => DealtBelow(p.tso)
    BY Zenon, <1>3 DEF LeaderInv, Above
  <2> QED BY Zenon, <1>3, <2>1 DEF LeaderInv, Above
<1>4. leader' = leader /\ committed' = committed /\ deal' = deal
  BY Zenon DEF tsoVars
<1>5. leader'[n] <=> p.call \in Leading
  BY Zenon, <1>4, NodeTypes
<1> QED BY Zenon, <1>2, <1>3, <1>4, <1>5, NodeTypes, StepKept

\* Get: the record, and the clock.
LEMMA LockGetInv ==
  ASSUME LeaderInv, NEW n \in Nodes, LockGet(n)
  PROVE  LeaderInv'
<1>1. PICK q, l, o : q = node[n] /\ l = lock /\ o = oracle
  BY Zenon
<1>2. /\ q \in Processes /\ q.lock = "idle" /\ q.up /\ l \in Locks /\ o \in 0 .. MaxOracle
      /\ node \in [Nodes -> Processes]
  <2>1. oracle \in 0 .. MaxOracle
    BY NodeTypes, Numbers
  <2> QED BY Zenon, <1>1, <2>1, NodeTypes DEF LockGet
<1>3. UNCHANGED <<oracle, lock, leader, tsoVars, dealt>>
  BY Zenon DEF LockGet
<1>4. q.lastVal <= l.value /\ (l.value = 0 => l.holder = Nobody)
  BY Zenon, <1>1 DEF LeaderInv, GotIsCurrent
<1>5. PICK p \in Processes :
        /\ node' = [node EXCEPT ![n] = p]
        /\ p.up /\ p.call = q.call /\ p.start = q.start /\ p.pre = q.pre
        /\ p.tso = q.tso \/ p.tso = o
        /\ p.lastVal <= l.value
        /\ p.lock = "got" => (l.holder \in {Nobody, n} \/ l.expired)
  <2>1. CASE l.value = 0
    <3> DEFINE p == [q EXCEPT !.lock = "got"]
    <3>1. node' = [node EXCEPT ![n] = p]
      BY Zenon, <1>1, <2>1 DEF LockGet
    <3>2. /\ p \in Processes /\ p.up /\ p.call = q.call /\ p.start = q.start /\ p.pre = q.pre
          /\ p.tso = q.tso /\ p.lastVal = q.lastVal
      BY <1>2 DEF Processes
    <3> HIDE DEF p
    <3> QED BY Zenon, <1>4, <2>1, <3>1, <3>2
  <2>2. CASE l.value # 0
    <3> DEFINE may == l.holder \in {Nobody, n} \/ l.expired
               p == [q EXCEPT !.lastVal = l.value, !.holder = l.holder, !.tso = o,
                              !.lock = IF may THEN "got" ELSE "idle"]
    <3>1. node' = [node EXCEPT ![n] = p]
      BY Zenon, <1>1, <2>2 DEF LockGet
    <3>2. PICK s \in {"got", "idle"} : /\ s = IF may THEN "got" ELSE "idle"
                                       /\ s = "got" => may
      BY Zenon
    <3>3. l.value \in 0 .. MaxUpdates /\ l.holder \in Nodes \cup {Nobody}
      BY Zenon, <1>2, Numbers
    <3>4. p = [q EXCEPT !.lastVal = l.value, !.holder = l.holder, !.tso = o, !.lock = s]
      BY Zenon, <3>2
    <3> HIDE DEF p, may
    <3>5. /\ p \in Processes /\ p.up /\ p.call = q.call /\ p.start = q.start /\ p.pre = q.pre
          /\ p.tso = o /\ p.lastVal = l.value /\ p.lock = s
      BY Zenon, <1>2, <3>3, <3>4 DEF Processes
    <3>6. p.lastVal <= l.value
      BY <3>3, <3>5, Numbers
    <3>7. p.lock = "got" => (l.holder \in {Nobody, n} \/ l.expired)
      BY Zenon, <3>2, <3>5 DEF may
    <3> QED BY Zenon, <3>1, <3>5, <3>6, <3>7
  <2> QED BY Zenon, <2>1, <2>2
<1>6. node[n].lock # "stopped" /\ node[n].up
  BY <1>1, <1>2
<1>7. /\ p.call = node[n].call /\ p.start = node[n].start /\ p.pre = node[n].pre
      /\ p.tso = node[n].tso \/ p.tso = oracle
      /\ p.lastVal <= lock.value
      /\ p.lock = "got" => (lock.holder \in {Nobody, n} \/ lock.expired)
  BY Zenon, <1>1, <1>5
<1> QED BY Zenon, <1>3, <1>5, <1>6, <1>7, ReadInv

\* Get, when the clock cannot be read: the version is 0, and no callback reads it
\* unless the instance admits that race.
LEMMA LockGetFailsInv ==
  ASSUME LeaderInv, NEW n \in Nodes, LockGetFails(n)
  PROVE  LeaderInv'
<1>1. PICK q, l : q = node[n] /\ l = lock
  BY Zenon
<1>2. /\ q \in Processes /\ q.lock = "idle" /\ q.up /\ l \in Locks
      /\ node \in [Nodes -> Processes]
  BY Zenon, <1>1, NodeTypes DEF LockGetFails
<1>3. UNCHANGED <<oracle, lock, leader, tsoVars, dealt>>
  BY Zenon DEF LockGetFails
<1> DEFINE r == [q EXCEPT !.lastVal = l.value, !.holder = l.holder, !.tso = 0]
<1>4. PICK p : p = r
  BY Zenon
<1>5. /\ p \in Processes /\ p.up /\ p.call = q.call /\ p.start = q.start /\ p.pre = q.pre
      /\ p.lastVal <= l.value /\ p.lock = "idle"
  <2>1. l.value \in 0 .. MaxUpdates /\ l.holder \in Nodes \cup {Nobody}
    BY Zenon, <1>2, Numbers
  <2>2. 0 \in 0 .. MaxOracle /\ l.value <= l.value
    BY <2>1, Numbers
  <2> QED BY Zenon, <1>2, <1>4, <2>1, <2>2 DEF Processes
<1>6. node' = [node EXCEPT ![n] = p]
  <2>1. node' = [node EXCEPT ![n].lastVal = l.value, ![n].holder = l.holder, ![n].tso = 0]
    BY Zenon, <1>1 DEF LockGetFails
  <2> QED BY Zenon, <1>1, <1>2, <1>4, <2>1
<1>7. Races = {} => p.call # "begin"
  <2>1. VersionRead(n)
    BY Zenon DEF LockGetFails
  <2> QED BY Zenon, <1>1, <1>5, <2>1 DEF VersionRead
<1>8. node[n].lock # "stopped" /\ p.lock # "got"
  BY <1>1, <1>2, <1>5
<1> HIDE DEF r
<1> QED BY Zenon, <1>1, <1>2, <1>3, <1>5, <1>6, <1>7, <1>8, ReadInv

\* What LockWrite does to the record.
LEMMA LockWritten ==
  ASSUME LeaderInv, NEW n \in Nodes, NEW h \in Nodes \cup {Nobody}, LockWrite(n, h)
  PROVE  /\ lock' \in Locks
         /\ lock'.holder = h /\ lock'.value # 0 /\ ~lock'.expired
         /\ \A m \in Nodes : node[m].lastVal <= lock'.value /\ node[m].lastVal # lock'.value
         /\ lock.value = node[n].lastVal
<1>1. PICK v : v = lock.value
  BY Zenon
<1>2. /\ v \in 0 .. MaxUpdates /\ v < MaxUpdates
      /\ lock' = [holder |-> h, value |-> v + 1, expired |-> FALSE]
      /\ v = node[n].lastVal
  BY Zenon, <1>1, NodeTypes, Numbers DEF LockWrite, LockMatches
<1>3. v + 1 \in 0 .. MaxUpdates /\ v + 1 # 0
  BY <1>2, Numbers
<1>4. lock' \in Locks /\ lock'.holder = h /\ lock'.value = v + 1 /\ ~lock'.expired
  BY <1>2, <1>3 DEF Locks
<1>5. ASSUME NEW m \in Nodes PROVE node[m].lastVal <= v + 1 /\ node[m].lastVal # v + 1
  <2>1. node[m].lastVal \in 0 .. MaxUpdates /\ node[m].lastVal <= v
    BY Zenon, <1>1, NodeTypes, Numbers DEF LeaderInv, GotIsCurrent
  <2> QED BY <1>2, <2>1, Numbers
<1> QED BY Zenon, <1>1, <1>2, <1>3, <1>4, <1>5

\* Create and Update that write: no other node is in its callback, since the value
\* that was compared is the one under which the lock was free or its own.
LEMMA TakeInv ==
  ASSUME LeaderInv, NEW n \in Nodes, NEW p \in Processes,
         node[n].lock = "got", ReleaserGone(n), LockWrite(n, n),
         node' = [node EXCEPT ![n] = p],
         UNCHANGED <<oracle, leader, tsoVars, dealt>>,
         p.up = node[n].up, p.lock = "idle", p.lastVal = node[n].lastVal,
         p.start = node[n].start, p.pre = node[n].pre,
         \/ p.call = node[n].call
         \/ node[n].call = "none" /\ p.call = "begin",
         (Races = {} /\ p.call = "begin") =>
           (p.tso = oracle \/ (node[n].call = "begin" /\ p.tso = node[n].tso))
  PROVE  LeaderInv'
<1>1. /\ node \in [Nodes -> Processes] /\ leader \in [Nodes -> BOOLEAN]
      /\ committed \in [Nodes -> 0 .. MaxOracle] /\ deal \in [Nodes -> 0 .. MaxOracle]
      /\ oracle \in 1 .. MaxOracle
  BY Zenon, NodeTypes
<1>2. /\ node' \in [Nodes -> Processes] /\ node'[n] = p
      /\ \A m \in Nodes \ {n} : node'[m] = node[m]
  BY Zenon, <1>1
<1>3. /\ lock' \in Locks /\ lock'.holder = n /\ lock'.value # 0 /\ ~lock'.expired
      /\ \A m \in Nodes : node[m].lastVal <= lock'.value /\ node[m].lastVal # lock'.value
      /\ lock.value = node[n].lastVal
  BY Zenon, LockWritten
<1>4. /\ leader' = leader /\ committed' = committed /\ deal' = deal
      /\ oracle' = oracle /\ dealt' = dealt
  BY Zenon DEF tsoVars
<1>5. \A m \in Nodes \ {n} : node[m].call \notin Holding
  <2>1. lock.holder \in {Nobody, n} \/ lock.expired
    BY Zenon, <1>3 DEF LeaderInv, GotIsCurrent
  <2>2. Nobody \notin Nodes
    BY Zenon, LeaderAssumption
  <2> QED BY Zenon, <2>1, <2>2 DEF LeaderInv, HoldersHold
<1>6. node[n].call # "stopping" /\ p.call # "stopping" /\ node[n].up
  <2>1. node[n].lock # "stopped" /\ node[n].lock # "idle"
    OBVIOUS
  <2>2. node[n].call # "stopping" /\ node[n].up
    BY Zenon, <2>1 DEF LeaderInv, StoppedStays, DownRests
  <2>3. "begin" # "stopping"
    OBVIOUS
  <2> QED BY Zenon, <2>2, <2>3
<1>7. \A m \in Nodes : leader'[m] <=> node'[m].call \in Leading
  <2>1. "begin" \notin Leading
    BY DEF Leading
  <2>2. p.call \in Leading <=> node[n].call \in Leading
    BY Zenon, <2>1, CallsDiffer
  <2>3. \A m \in Nodes : leader[m] <=> node[m].call \in Leading
    BY Zenon, NodeTypes
  <2>4. \A m \in Nodes : node'[m].call \in Leading <=> node[m].call \in Leading
    BY Zenon, <1>2, <2>2
  <2> QED BY Zenon, <1>4, <2>3, <2>4
<1>8. LeaderTypeOK'
  BY Zenon, <1>1, <1>2, <1>3, <1>4, <1>7, TypesNext
<1>9. HoldersHold'
  BY Zenon, <1>2, <1>3, <1>5 DEF HoldersHold
<1>10. GotIsCurrent'
  BY Zenon, <1>2, <1>3 DEF GotIsCurrent
<1>11. StoppedStays' /\ DownRests'
  BY Zenon, <1>2, <1>6 DEF LeaderInv, StoppedStays, DownRests
<1>12. ASSUME "release" \notin Races PROVE Alone'
  <2>1. \A m \in Nodes \ {n} : node[m].call # "stopping"
    BY Zenon, <1>12 DEF ReleaserGone
  <2> QED BY Zenon, <1>2, <1>6, <2>1 DEF Alone
<1>13. dealt' \in Seq(Nat) /\ DealtBelow(oracle)'
  BY Zenon, <1>4 DEF LeaderInv, DealtBelow
<1>14. ASSUME Races = {} PROVE Above' /\ RevisionsAscend'
  <2>1. p.call = "begin" => DealtBelow(p.tso)
    BY Zenon, <1>14 DEF LeaderInv, Above
  <2>2. /\ p.call = "raise" => DealtBelow(p.start) /\ p.pre = deal'[n]
        /\ p.call \in {"flag"} \cup Leading => DealtBelow(deal'[n])
    <3>1. p.call # "begin" => p.call = node[n].call
      BY Zenon
    <3>2. "begin" # "raise" /\ "begin" \notin {"flag"} \cup Leading
      BY DEF Leading
    <3> QED BY Zenon, <1>4, <1>14, <3>1, <3>2 DEF LeaderInv, Above
  <2> QED BY Zenon, <1>2, <1>4, <1>14, <2>1, <2>2, AboveKept
<1> QED BY Zenon, <1>8, <1>9, <1>10, <1>11, <1>12, <1>13, <1>14 DEF LeaderInv

\* Create and Update.
LEMMA LockUpdateInv ==
  ASSUME LeaderInv, NEW n \in Nodes, LockUpdate(n)
  PROVE  LeaderInv'
<1>1. PICK q, o : q = node[n] /\ o = oracle
  BY Zenon
<1>2. /\ q \in Processes /\ q.lock = "got" /\ o \in 0 .. MaxOracle
      /\ node \in [Nodes -> Processes] /\ ReleaserGone(n)
  <2>1. oracle \in 0 .. MaxOracle
    BY NodeTypes, Numbers
  <2> QED BY Zenon, <1>1, <2>1, NodeTypes DEF LockUpdate
<1>3. UNCHANGED <<oracle, leader, tsoVars, dealt>>
  BY Zenon DEF LockUpdate
<1>4. CASE /\ LockWrite(n, n)
           /\ node' = [node EXCEPT ![n].lock = "idle", ![n].tso = oracle,
                                    ![n].call = IF @ = "none" THEN "begin" ELSE @]
  <2>1. PICK c \in Calls : /\ c = IF q.call = "none" THEN "begin" ELSE q.call
                           /\ c = q.call \/ (q.call = "none" /\ c = "begin")
    <3>1. q.call \in Calls /\ "begin" \in Calls
      BY Zenon, <1>2, Numbers DEF Calls, Holding
    <3> QED BY Zenon, <3>1
  <2>2. PICK p : p = [q EXCEPT !.lock = "idle", !.tso = o, !.call = c]
    BY Zenon
  <2>3. /\ p \in Processes /\ p.up = q.up /\ p.lock = "idle" /\ p.lastVal = q.lastVal
        /\ p.start = q.start /\ p.pre = q.pre /\ p.call = c /\ p.tso = o
    BY Zenon, <1>2, <2>1, <2>2 DEF Processes
  <2>4. node' = [node EXCEPT ![n] = p]
    BY Zenon, <1>1, <1>2, <1>4, <2>1, <2>2 DEF Processes
  <2>5. /\ p.up = node[n].up /\ p.lastVal = node[n].lastVal
        /\ p.start = node[n].start /\ p.pre = node[n].pre /\ p.tso = oracle
        /\ p.call = node[n].call \/ (node[n].call = "none" /\ p.call = "begin")
        /\ node[n].lock = "got"
    BY Zenon, <1>1, <1>2, <2>1, <2>3
  <2> QED BY Zenon, <1>2, <1>3, <1>4, <2>3, <2>4, <2>5, TakeInv
<1>5. CASE /\ ~LockMatches(n)
           /\ node' = [node EXCEPT ![n].lock = "idle"]
           /\ UNCHANGED lock
  <2>1. PICK p : p = [q EXCEPT !.lock = "idle"]
    BY Zenon
  <2>2. /\ p \in Processes /\ p.up = q.up /\ p.lock = "idle" /\ p.lastVal = q.lastVal
        /\ p.start = q.start /\ p.pre = q.pre /\ p.call = q.call /\ p.tso = q.tso
    BY <1>2, <2>1 DEF Processes
  <2>3. node' = [node EXCEPT ![n] = p]
    BY Zenon, <1>1, <1>5, <2>1
  <2>4. node[n].lock # "stopped" /\ node[n].lock # "idle" /\ p.lock # "got"
    BY <1>1, <1>2, <2>2
  <2>5. node[n].up
    BY Zenon, <2>4 DEF LeaderInv, DownRests
  <2>6. p.lastVal <= lock.value
    BY Zenon, <1>1, <2>2 DEF LeaderInv, GotIsCurrent
  <2> QED BY Zenon, <1>1, <1>3, <1>5, <2>2, <2>3, <2>4, <2>5, <2>6, ReadInv
<1> QED BY Zenon, <1>4, <1>5 DEF LockUpdate

\* An update the elector does not know of.
LEMMA LockUpdateUnnoticedInv ==
  ASSUME LeaderInv, NEW n \in Nodes, LockUpdateUnnoticed(n)
  PROVE  LeaderInv'
<1>1. PICK q : q = node[n]
  BY Zenon
<1>2. /\ q \in Processes /\ q.lock = "got" /\ node \in [Nodes -> Processes]
      /\ ReleaserGone(n) /\ LockWrite(n, n)
  BY Zenon, <1>1, NodeTypes DEF LockUpdateUnnoticed
<1>3. UNCHANGED <<oracle, leader, tsoVars, dealt>>
  BY Zenon DEF LockUpdateUnnoticed
<1>4. CASE node' = [node EXCEPT ![n].lock = "idle"]
  <2>1. PICK p : p = [q EXCEPT !.lock = "idle"]
    BY Zenon
  <2>2. /\ p \in Processes /\ p.up = q.up /\ p.lock = "idle" /\ p.lastVal = q.lastVal
        /\ p.start = q.start /\ p.pre = q.pre /\ p.call = q.call /\ p.tso = q.tso
    BY <1>2, <2>1 DEF Processes
  <2>3. node' = [node EXCEPT ![n] = p]
    BY Zenon, <1>1, <1>4, <2>1
  <2> QED BY Zenon, <1>1, <1>2, <1>3, <2>2, <2>3, TakeInv
<1>5. CASE /\ VersionRead(n)
           /\ node' = [node EXCEPT ![n].lock = "idle", ![n].tso = 0]
  <2>1. PICK p : p = [q EXCEPT !.lock = "idle", !.tso = 0]
    BY Zenon
  <2>2. /\ p \in Processes /\ p.up = q.up /\ p.lock = "idle" /\ p.lastVal = q.lastVal
        /\ p.start = q.start /\ p.pre = q.pre /\ p.call = q.call
    <3>1. 0 \in 0 .. MaxOracle
      BY Numbers
    <3> QED BY Zenon, <1>2, <2>1, <3>1 DEF Processes
  <2>3. node' = [node EXCEPT ![n] = p]
    BY Zenon, <1>1, <1>2, <1>5, <2>1 DEF Processes
  <2>4. Races = {} => p.call # "begin"
    BY Zenon, <1>1, <1>5, <2>2 DEF VersionRead
  <2> QED BY Zenon, <1>1, <1>2, <1>3, <2>2, <2>3, <2>4, TakeInv
<1> QED BY Zenon, <1>4, <1>5 DEF LockUpdateUnnoticed

\* The lock is given up: nobody has it, and the node that had it still admits writes.
LEMMA ReleaseInv ==
  ASSUME LeaderInv, NEW n \in Nodes, Release(n)
  PROVE  LeaderInv'
<1>1. PICK q : q = node[n]
  BY Zenon
<1>2. /\ q \in Processes /\ q.call = "leading"
      /\ node' = [node EXCEPT ![n].call = "stopping", ![n].lock = "stopped"]
      /\ LockWrite(n, Nobody)
  BY Zenon, <1>1, NodeTypes DEF Release
<1>3. /\ node \in [Nodes -> Processes] /\ leader \in [Nodes -> BOOLEAN]
      /\ committed \in [Nodes -> 0 .. MaxOracle] /\ deal \in [Nodes -> 0 .. MaxOracle]
      /\ oracle \in 1 .. MaxOracle
      /\ \A m \in Nodes : leader[m] <=> node[m].call \in Leading
  BY Zenon, NodeTypes
<1>4. PICK p : p = [q EXCEPT !.call = "stopping", !.lock = "stopped"]
  BY Zenon
<1>5. /\ p \in Processes /\ p.up = q.up /\ p.lock = "stopped" /\ p.lastVal = q.lastVal
      /\ p.call = "stopping"
  <2>1. "stopping" \in Calls
    BY Zenon DEF Calls
  <2> QED BY Zenon, <1>2, <1>4, <2>1 DEF Processes
<1>6. node' = [node EXCEPT ![n] = p]
  BY Zenon, <1>1, <1>2, <1>3, <1>4 DEF Processes
<1>7. /\ node' \in [Nodes -> Processes] /\ node'[n] = p
      /\ \A m \in Nodes \ {n} : node'[m] = node[m]
  BY Zenon, <1>3, <1>5, <1>6
<1>8. /\ lock' \in Locks /\ lock'.holder = Nobody /\ ~lock'.expired
      /\ \A m \in Nodes : node[m].lastVal <= lock'.value /\ node[m].lastVal # lock'.value
  BY Zenon, <1>2, LockWritten
<1>9. /\ leader' = leader /\ committed' = committed /\ deal' = deal
      /\ oracle' = oracle /\ dealt' = dealt
  BY Zenon DEF Release, tsoVars
<1>10. \A m \in Nodes \ {n} : node[m].call \notin Holding
  BY Zenon, <1>1, <1>2, CallsDiffer DEF LeaderInv, HoldersHold
<1>11. LeaderTypeOK'
  <2>1. \A m \in Nodes : leader'[m] <=> node'[m].call \in Leading
    <3>1. leader[n] /\ p.call \in Leading
      BY Zenon, <1>1, <1>2, <1>3, <1>5 DEF Leading
    <3> QED BY Zenon, <1>3, <1>7, <1>9, <3>1
  <2> QED BY Zenon, <1>3, <1>7, <1>8, <1>9, <2>1, TypesNext
<1>12. HoldersHold'
  BY Zenon, <1>5, <1>7, <1>10, CallsDiffer DEF HoldersHold
<1>13. GotIsCurrent'
  <2>1. p.lock # "got"
    BY <1>5
  <2> QED BY Zenon, <1>1, <1>5, <1>7, <1>8, <2>1 DEF GotIsCurrent
<1>14. StoppedStays' /\ DownRests'
  <2>1. node[n].call # "none"
    BY <1>1, <1>2
  <2>2. p.up
    BY Zenon, <1>1, <1>5, <2>1 DEF LeaderInv, DownRests
  <2>3. StoppedStays'
    BY Zenon, <1>5, <1>7 DEF LeaderInv, StoppedStays
  <2>4. DownRests'
    BY Zenon, <1>7, <2>2 DEF LeaderInv, DownRests
  <2> QED BY <2>3, <2>4
<1>15. ASSUME "release" \notin Races PROVE Alone'
  <2>1. node[n].call # "none" /\ node[n].call # "stopping"
    BY <1>1, <1>2
  <2>2. \A m \in Nodes \ {n} : node[m].call # "stopping"
    BY Zenon, <1>15, <2>1 DEF LeaderInv, Alone
  <2>3. \A m \in Nodes \ {n} : node[m].call = "none"
    BY Zenon, <1>3, <1>10, <2>2, Numbers, CallsDiffer
  <2> QED BY Zenon, <1>7, <1>8, <2>2, <2>3 DEF Alone
<1>16. dealt' \in Seq(Nat) /\ DealtBelow(oracle)'
  BY Zenon, <1>9 DEF LeaderInv, DealtBelow
<1>17. ASSUME Races = {} PROVE Above' /\ RevisionsAscend'
  <2>1. DealtBelow(deal'[n])
    BY Zenon, <1>1, <1>2, <1>9, <1>17, CallsDiffer DEF LeaderInv, Above
  <2>2. p.call # "begin" /\ p.call # "raise"
    BY <1>5
  <2> QED BY Zenon, <1>7, <1>9, <1>17, <2>1, <2>2, AboveKept
<1> QED BY Zenon, <1>11, <1>12, <1>13, <1>14, <1>15, <1>16, <1>17 DEF LeaderInv

\* The callback reads the version and stores it as the committed revision.
LEMMA StartStoreInv ==
  ASSUME LeaderInv, NEW n \in Nodes, StartStore(n)
  PROVE  LeaderInv'
<1>1. PICK q, d : q = node[n] /\ d = deal[n]
  BY Zenon
<1>2. /\ q \in Processes /\ q.call = "begin" /\ d \in 0 .. MaxOracle
      /\ q.tso \in 0 .. MaxOracle /\ node \in [Nodes -> Processes]
      /\ node' = [node EXCEPT ![n].call = "raise", ![n].start = q.tso, ![n].pre = d]
      /\ committed' = [committed EXCEPT ![n] = q.tso]
  BY Zenon, <1>1, NodeTypes, Numbers DEF StartStore, Store
<1>3. oracle' = oracle /\ lock' = lock /\ leader' = leader /\ deal' = deal /\ dealt' = dealt
  BY Zenon DEF StartStore
<1>4. PICK p : p = [q EXCEPT !.call = "raise", !.start = q.tso, !.pre = d]
  BY Zenon
<1>5. /\ p \in Processes /\ p.up = q.up /\ p.lock = q.lock /\ p.lastVal = q.lastVal
      /\ p.call = "raise" /\ p.start = q.tso /\ p.pre = d
  <2>1. "raise" \in Calls
    BY Zenon DEF Calls, Holding
  <2> QED BY Zenon, <1>2, <1>4, <2>1 DEF Processes
<1>6. node' = [node EXCEPT ![n] = p]
  BY Zenon, <1>1, <1>2, <1>4 DEF Processes
<1>7. committed' \in [Nodes -> 0 .. MaxOracle]
  BY Zenon, <1>2, NodeTypes
<1>8. /\ p.call # "begin" /\ p.call \notin {"flag"} \cup Leading /\ p.call \in Holding
      /\ node[n].call \in Holding /\ node[n].call \notin Leading /\ node[n].call # "none"
  BY <1>1, <1>2, <1>5 DEF Holding, Leading
<1>9. /\ leader' \in [Nodes -> BOOLEAN] /\ deal' \in [Nodes -> 0 .. MaxOracle]
      /\ leader'[n] <=> p.call \in Leading
  BY Zenon, <1>3, <1>8, NodeTypes
<1>10. /\ p.up \/ (p.call = "none" /\ p.lock = "idle")
       /\ p.lastVal <= lock.value
       /\ (p.lock = "got" /\ p.lastVal = lock.value) =>
            (lock.holder \in {Nobody, n} \/ lock.expired)
  BY Zenon, <1>1, <1>5, <1>8 DEF LeaderInv, DownRests, GotIsCurrent
<1>11. Races = {} => DealtBelow(p.start) /\ p.pre = deal'[n]
  BY Zenon, <1>1, <1>2, <1>3, <1>5 DEF LeaderInv, Above
<1> QED BY Zenon, <1>3, <1>5, <1>6, <1>7, <1>8, <1>9, <1>10, <1>11, StepKept

\* The compare and swap of Commit: the dealt revision is not below the version.
LEMMA StartRaiseInv ==
  ASSUME LeaderInv, NEW n \in Nodes, StartRaise(n)
  PROVE  LeaderInv'
<1>1. PICK q, d : q = node[n] /\ d = deal[n]
  BY Zenon
<1>2. /\ q \in Processes /\ q.call = "raise" /\ d \in 0 .. MaxOracle
      /\ q.start \in 0 .. MaxOracle /\ q.pre \in 0 .. MaxOracle
      /\ node \in [Nodes -> Processes] /\ deal \in [Nodes -> 0 .. MaxOracle]
      /\ node' = [node EXCEPT ![n].call = "flag"]
  BY Zenon, <1>1, NodeTypes, Numbers DEF StartRaise
<1>3. /\ oracle' = oracle /\ lock' = lock /\ leader' = leader /\ committed' = committed
      /\ dealt' = dealt
  BY Zenon DEF StartRaise
<1>4. PICK e \in 0 .. MaxOracle :
        /\ deal' = [deal EXCEPT ![n] = e]
        /\ d = q.pre => q.start <= e /\ d <= e
  <2>1. PICK e : e = IF d = q.pre /\ q.pre < q.start THEN q.start ELSE d
    BY Zenon
  <2>2. deal' = [deal EXCEPT ![n] = e]
    BY Zenon, <1>1, <2>1 DEF StartRaise, Raise
  <2>3. e \in 0 .. MaxOracle /\ (d = q.pre => q.start <= e /\ d <= e)
    BY <1>2, <2>1, Numbers
  <2> QED BY Zenon, <2>2, <2>3
<1>5. PICK p : p = [q EXCEPT !.call = "flag"]
  BY Zenon
<1>6. /\ p \in Processes /\ p.up = q.up /\ p.lock = q.lock /\ p.lastVal = q.lastVal
      /\ p.call = "flag"
  <2>1. "flag" \in Calls
    BY Zenon DEF Calls, Holding
  <2> QED BY <1>2, <1>5, <2>1 DEF Processes
<1>7. node' = [node EXCEPT ![n] = p]
  BY Zenon, <1>1, <1>2, <1>5
<1>8. /\ deal' \in [Nodes -> 0 .. MaxOracle] /\ deal'[n] = e
      /\ \A m \in Nodes \ {n} : deal'[m] = deal[m]
  BY Zenon, <1>2, <1>4
<1>9. /\ p.call # "begin" /\ p.call # "raise" /\ p.call \in Holding /\ p.call \notin Leading
      /\ node[n].call \in Holding /\ node[n].call \notin Leading /\ node[n].call # "none"
  BY <1>1, <1>2, <1>6 DEF Holding, Leading
<1>10. /\ leader' \in [Nodes -> BOOLEAN] /\ committed' \in [Nodes -> 0 .. MaxOracle]
       /\ leader'[n] <=> p.call \in Leading
  BY Zenon, <1>3, <1>9, NodeTypes
<1>11. /\ p.up \/ (p.call = "none" /\ p.lock = "idle")
       /\ p.lastVal <= lock.value
       /\ (p.lock = "got" /\ p.lastVal = lock.value) =>
            (lock.holder \in {Nobody, n} \/ lock.expired)
  BY Zenon, <1>1, <1>6, <1>9 DEF LeaderInv, DownRests, GotIsCurrent
<1>12. ASSUME Races = {} PROVE DealtBelow(deal'[n])
  <2>1. DealtBelow(q.start) /\ q.pre = d
    BY Zenon, <1>1, <1>2, <1>12 DEF LeaderInv, Above
  <2>2. ASSUME NEW i \in DOMAIN dealt PROVE dealt[i] <= e
    <3>1. dealt[i] \in Nat /\ dealt[i] <= q.start
      <4>1. dealt \in Seq(Nat)
        BY Zenon DEF LeaderInv
      <4> QED BY <2>1, <4>1 DEF DealtBelow
    <3>2. q.start <= e
      BY Zenon, <1>4, <2>1
    <3> QED BY <1>2, <1>4, <3>1, <3>2, Numbers
  <2> QED BY Zenon, <1>8, <2>2 DEF DealtBelow
<1> QED BY Zenon, <1>3, <1>6, <1>7, <1>8, <1>9, <1>10, <1>11, <1>12, StepKept

\* The flag is set: the node admits writes.
LEMMA StartFlagInv ==
  ASSUME LeaderInv, NEW n \in Nodes, StartFlag(n)
  PROVE  LeaderInv'
<1>1. PICK q : q = node[n]
  BY Zenon
<1>2. /\ q \in Processes /\ q.call = "flag" /\ node \in [Nodes -> Processes]
      /\ node' = [node EXCEPT ![n].call = "leading"]
      /\ leader' = [leader EXCEPT ![n] = TRUE]
  BY Zenon, <1>1, NodeTypes DEF StartFlag
<1>3. /\ oracle' = oracle /\ lock' = lock /\ committed' = committed /\ deal' = deal
      /\ dealt' = dealt
  BY Zenon DEF StartFlag, tsoVars
<1>4. PICK p : p = [q EXCEPT !.call = "leading"]
  BY Zenon
<1>5. /\ p \in Processes /\ p.up = q.up /\ p.lock = q.lock /\ p.lastVal = q.lastVal
      /\ p.call = "leading"
  <2>1. "leading" \in Calls
    BY Zenon DEF Calls, Holding
  <2> QED BY <1>2, <1>4, <2>1 DEF Processes
<1>6. node' = [node EXCEPT ![n] = p]
  BY Zenon, <1>1, <1>2, <1>4
<1>7. /\ p.call # "begin" /\ p.call # "raise" /\ p.call \in Holding /\ p.call \in Leading
      /\ node[n].call \in Holding /\ node[n].call # "none"
  BY <1>1, <1>2, <1>5 DEF Holding, Leading
<1>8. /\ leader' \in [Nodes -> BOOLEAN] /\ leader'[n]
      /\ \A m \in Nodes \ {n} : leader'[m] = leader[m]
      /\ committed' \in [Nodes -> 0 .. MaxOracle] /\ deal' \in [Nodes -> 0 .. MaxOracle]
  BY Zenon, <1>2, <1>3, NodeTypes
<1>9. /\ p.up \/ (p.call = "none" /\ p.lock = "idle")
      /\ p.lastVal <= lock.value
      /\ (p.lock = "got" /\ p.lastVal = lock.value) =>
           (lock.holder \in {Nobody, n} \/ lock.expired)
  BY Zenon, <1>1, <1>5, <1>7 DEF LeaderInv, DownRests, GotIsCurrent
<1>10. Races = {} => DealtBelow(deal'[n])
  BY Zenon, <1>1, <1>2, <1>3 DEF LeaderInv, Above
<1> QED BY Zenon, <1>3, <1>5, <1>6, <1>7, <1>8, <1>9, <1>10, StepKept

\* A node that admits writes is the only one in its callback, if a node that gave
\* the lock up is gone before another one has it.
LEMMA LeadsAlone ==
  ASSUME LeaderInv, "release" \notin Races, NEW n \in Nodes, leader[n]
  PROVE  \A m \in Nodes \ {n} : node[m].call = "none"
<1>1. node[n].call = "leading" \/ node[n].call = "stopping"
  BY Zenon, NodeTypes, CallsDiffer
<1>2. CASE node[n].call = "stopping"
  BY Zenon, <1>2 DEF LeaderInv, Alone
<1>3. CASE node[n].call = "leading"
  <2> SUFFICES ASSUME NEW m \in Nodes \ {n} PROVE node[m].call = "none"
    OBVIOUS
  <2>1. node[m].call \notin Holding
    BY Zenon, <1>3, CallsDiffer DEF LeaderInv, HoldersHold
  <2>2. node[n].call # "none"
    BY <1>3
  <2>3. node[m].call # "stopping"
    BY Zenon, <2>2 DEF LeaderInv, Alone
  <2> QED BY Zenon, <2>1, <2>3, NodeTypes, Numbers, CallsDiffer
<1> QED BY <1>1, <1>2, <1>3

\* A revision is dealt above all that were dealt before.
LEMMA DealInv ==
  ASSUME LeaderInv, NEW n \in Nodes, Deal(n)
  PROVE  LeaderInv'
<1>1. PICK d, o : d = deal[n] /\ o = oracle
  BY Zenon
<1>2. /\ d \in 0 .. MaxOracle /\ o \in 1 .. MaxOracle /\ d < o /\ leader[n]
      /\ deal' = [deal EXCEPT ![n] = d + 1]
      /\ dealt' = Append(dealt, d + 1)
  BY Zenon, <1>1, NodeTypes DEF Deal
<1>3. /\ oracle' = oracle /\ lock' = lock /\ node' = node /\ leader' = leader
      /\ committed' = committed
  BY Zenon DEF Deal
<1>4. d + 1 \in 0 .. MaxOracle /\ d + 1 \in Nat /\ d + 1 <= o
  BY <1>2, Numbers
<1>5. /\ deal' \in [Nodes -> 0 .. MaxOracle] /\ deal'[n] = d + 1
      /\ \A m \in Nodes \ {n} : deal'[m] = deal[m]
  BY Zenon, <1>2, <1>4, NodeTypes
<1>6. LeaderTypeOK'
  BY Zenon, <1>3, <1>5, LeaderTypes, TypesNext DEF LeaderInv
<1>7. /\ HoldersHold' /\ GotIsCurrent' /\ StoppedStays' /\ DownRests'
      /\ "release" \notin Races => Alone'
  BY Zenon, <1>3 DEF LeaderInv, HoldersHold, GotIsCurrent, StoppedStays, DownRests, Alone
<1>8. dealt \in Seq(Nat)
  BY Zenon DEF LeaderInv
<1>9. PICK l \in Nat :
        /\ l = Len(dealt) /\ DOMAIN dealt = 1 .. l /\ DOMAIN dealt' = 1 .. l + 1
        /\ \A i \in 1 .. l : dealt'[i] = dealt[i] /\ dealt[i] \in Nat
        /\ dealt'[l + 1] = d + 1 /\ dealt' \in Seq(Nat)
  BY <1>2, <1>4, <1>8
<1>10. DealtBelow(oracle)'
  <2> SUFFICES ASSUME NEW i \in 1 .. l + 1 PROVE dealt'[i] <= o
    BY Zenon, <1>1, <1>3, <1>9 DEF DealtBelow
  <2>1. CASE i \in 1 .. l
    BY Zenon, <1>1, <1>9, <2>1 DEF LeaderInv, DealtBelow
  <2>2. i \in 1 .. l \/ i = l + 1
    BY <1>9
  <2> QED BY Zenon, <1>4, <1>9, <2>1, <2>2
<1>11. ASSUME Races = {} PROVE Above' /\ RevisionsAscend'
  <2>1. \A i \in 1 .. l : dealt[i] <= d
    <3>1. node[n].call \in {"flag"} \cup Leading
      BY Zenon, <1>2, NodeTypes
    <3> QED BY Zenon, <1>1, <1>9, <1>11, <3>1 DEF LeaderInv, Above, DealtBelow
  <2>2. \A i \in 1 .. l : dealt[i] < d + 1 /\ dealt[i] <= d + 1
    BY <1>2, <1>9, <2>1, Numbers
  <2>3. RevisionsAscend'
    <3> SUFFICES ASSUME NEW i \in 1 .. l + 1, NEW j \in 1 .. l + 1, i < j
                 PROVE  dealt'[i] < dealt'[j]
      BY Zenon, <1>9 DEF RevisionsAscend
    <3>1. i \in 1 .. l /\ (j \in 1 .. l \/ j = l + 1)
      BY <1>9
    <3>2. CASE j \in 1 .. l
      <4>1. dealt[i] < dealt[j]
        BY Zenon, <1>9, <1>11, <3>1, <3>2 DEF LeaderInv, RevisionsAscend
      <4> QED BY Zenon, <1>9, <3>1, <3>2, <4>1
    <3>3. CASE j = l + 1
      BY Zenon, <1>9, <2>2, <3>1, <3>3
    <3> QED BY Zenon, <3>1, <3>2, <3>3
  <2>4. DealtBelow(deal[n])'
    <3> SUFFICES ASSUME NEW i \in 1 .. l + 1 PROVE dealt'[i] <= d + 1
      BY Zenon, <1>5, <1>9 DEF DealtBelow
    <3>1. i \in 1 .. l \/ i = l + 1
      BY <1>9
    <3>2. d + 1 <= d + 1
      BY <1>4
    <3> QED BY Zenon, <1>9, <2>2, <3>1, <3>2
  <2>5. node[n].call # "begin" /\ node[n].call # "raise"
    <3>1. node[n].call = "leading" \/ node[n].call = "stopping"
      BY Zenon, <1>2, NodeTypes, CallsDiffer
    <3> QED BY <3>1
  <2>6. \A m \in Nodes \ {n} : node[m].call = "none"
    BY Zenon, <1>2, <1>11, LeadsAlone
  <2>7. "none" # "begin" /\ "none" # "raise" /\ "none" \notin {"flag"} \cup Leading
    BY DEF Leading
  <2>8. Above'
    BY Zenon, <1>3, <2>4, <2>5, <2>6, <2>7 DEF Above
  <2> QED BY Zenon, <2>3, <2>8
<1> QED BY Zenon, <1>6, <1>7, <1>9, <1>10, <1>11 DEF LeaderInv

\* The collector.
LEMMA CollectInv ==
  ASSUME LeaderInv, NEW n \in Nodes, Collect(n)
  PROVE  LeaderInv'
<1>1. PICK c, d, b : c = committed[n] + 1 /\ d = deal[n] /\ b = node[n].start
  BY Zenon
<1>2. /\ d \in 0 .. MaxOracle /\ b \in 0 .. MaxOracle /\ c \in b + 1 .. d
      /\ committed' = [committed EXCEPT ![n] = c]
  BY Zenon, <1>1, NodeTypes, Numbers DEF Collect, Store
<1>3. /\ oracle' = oracle /\ lock' = lock /\ node' = node /\ leader' = leader
      /\ deal' = deal /\ dealt' = dealt
  BY Zenon DEF Collect
<1>4. c \in 0 .. MaxOracle
  BY <1>2, Numbers
<1>5. committed' \in [Nodes -> 0 .. MaxOracle]
  BY Zenon, <1>2, <1>4, NodeTypes
<1>6. LeaderTypeOK'
  BY Zenon, <1>3, <1>5, LeaderTypes, TypesNext DEF LeaderInv
<1> QED BY Zenon, <1>3, <1>6 DEF LeaderInv, HoldersHold, GotIsCurrent, StoppedStays, DownRests, Alone,
                               DealtBelow, Above, RevisionsAscend

\* The clock of the engine.
LEMMA OracleTickInv ==
  ASSUME LeaderInv, OracleTick
  PROVE  LeaderInv'
<1>1. PICK o : o = oracle
  BY Zenon
<1>2. o \in 1 .. MaxOracle /\ o < MaxOracle /\ oracle' = o + 1
  BY Zenon, <1>1, LeaderTypes DEF LeaderInv, OracleTick
<1>3. /\ lock' = lock /\ node' = node /\ leader' = leader /\ committed' = committed
      /\ deal' = deal /\ dealt' = dealt
  BY Zenon DEF OracleTick, tsoVars
<1>4. oracle' \in 1 .. MaxOracle
  BY <1>2, Numbers
<1>5. LeaderTypeOK'
  BY Zenon, <1>3, <1>4, LeaderTypes, TypesNext DEF LeaderInv
<1>6. DealtBelow(oracle)'
  <2> SUFFICES ASSUME NEW i \in DOMAIN dealt PROVE dealt[i] <= o + 1
    BY Zenon, <1>2, <1>3 DEF DealtBelow
  <2>1. dealt \in Seq(Nat) /\ dealt[i] <= o
    BY Zenon, <1>1 DEF LeaderInv, DealtBelow
  <2>2. dealt[i] \in Nat
    BY <2>1
  <2> QED BY <1>2, <2>1, <2>2, Numbers
<1> QED BY Zenon, <1>3, <1>5, <1>6 DEF LeaderInv, HoldersHold, GotIsCurrent, StoppedStays, DownRests,
                               Alone, DealtBelow, Above, RevisionsAscend

\* The lease of a node that is not in its callback runs out.
LEMMA LeaseExpiresInv ==
  ASSUME LeaderInv, LeaseExpires
  PROVE  LeaderInv'
<1>1. PICK l, l2 : l = lock /\ l2 = lock'
  BY Zenon
<1>2. l \in Locks /\ l2 = [l EXCEPT !.expired = TRUE] /\ node[l.holder].call = "none"
  BY Zenon, <1>1, LeaderTypes DEF LeaderInv, LeaseExpires
<1>3. l2 \in Locks /\ l2.holder = l.holder /\ l2.value = l.value /\ l2.expired
  BY Zenon, <1>2 DEF Locks
<1>4. /\ oracle' = oracle /\ node' = node /\ leader' = leader /\ committed' = committed
      /\ deal' = deal /\ dealt' = dealt
  BY Zenon DEF LeaseExpires, tsoVars
<1>5. LeaderTypeOK'
  BY Zenon, <1>1, <1>3, <1>4, LeaderTypes, TypesNext DEF LeaderInv
<1>6. \A n \in Nodes : node[n].call \notin Holding
  BY Zenon, <1>1, <1>2, CallsDiffer DEF LeaderInv, HoldersHold
<1>7. HoldersHold' /\ GotIsCurrent' /\ ("release" \notin Races => Alone')
  <2>1. HoldersHold'
    BY Zenon, <1>4, <1>6 DEF HoldersHold
  <2>2. lock'.holder = lock.holder /\ lock'.value = lock.value /\ lock'.expired
    BY Zenon, <1>1, <1>3
  <2> QED BY Zenon, <1>4, <2>1, <2>2 DEF LeaderInv, GotIsCurrent, Alone
<1> QED BY Zenon, <1>4, <1>5, <1>7 DEF LeaderInv, StoppedStays, DownRests, DealtBelow, Above,
                               RevisionsAscend

-----------------------------------------------------------------------------
(* The theorems.                                                           *)

\* The invariant holds at the start.
LEMMA LeaderInitInv == LeaderInit => LeaderInv
<1> SUFFICES ASSUME LeaderInit PROVE LeaderInv
  OBVIOUS
<1>1. 1 \in 1 .. MaxOracle /\ 0 \in 0 .. MaxOracle /\ 0 \in 0 .. MaxUpdates /\ 0 <= 0
  BY Numbers
<1>2. lock \in Locks /\ lock.holder = Nobody /\ lock.value = 0
  BY <1>1 DEF LeaderInit, Locks
<1>3. /\ node \in [Nodes -> Processes] /\ leader \in [Nodes -> BOOLEAN]
      /\ \A n \in Nodes : node[n] = Fresh /\ ~leader[n]
      /\ committed \in [Nodes -> 0 .. MaxOracle] /\ deal \in [Nodes -> 0 .. MaxOracle]
  BY Zenon, <1>1, FreshTypes DEF LeaderInit
<1>4. LeaderTypeOK
  <2>1. oracle \in 1 .. MaxOracle
    BY Zenon, <1>1 DEF LeaderInit
  <2> QED BY Zenon, <1>2, <1>3, <2>1, LeaderTypes, FreshTypes, CallsDiffer
<1>5. dealt \in Seq(Nat) /\ DOMAIN dealt = {}
  BY DEF LeaderInit
<1>6. "none" # "begin" /\ "none" # "raise" /\ "none" # "stopping" /\ "idle" # "got"
      /\ "none" \notin {"flag"} \cup Leading
  BY DEF Leading
<1>7. HoldersHold /\ GotIsCurrent /\ StoppedStays /\ DownRests /\ Alone
  BY Zenon, <1>1, <1>2, <1>3, <1>6, FreshTypes, CallsDiffer
     DEF HoldersHold, GotIsCurrent, StoppedStays, DownRests, Alone
<1>8. DealtBelow(oracle) /\ Above /\ RevisionsAscend
  BY Zenon, <1>3, <1>5, <1>6, FreshTypes DEF DealtBelow, Above, RevisionsAscend
<1> QED BY Zenon, <1>4, <1>5, <1>7, <1>8 DEF LeaderInv

\* Every step keeps the invariant.
LEMMA LeaderNextInv == LeaderInv /\ [LeaderNext]_leaderVars => LeaderInv'
<1> SUFFICES ASSUME LeaderInv, [LeaderNext]_leaderVars PROVE LeaderInv'
  OBVIOUS
<1>1. ASSUME NEW n \in Nodes,
             \/ Crash(n) \/ Restart(n) \/ LockGet(n) \/ LockGetFails(n) \/ LockUpdate(n)
             \/ LockUpdateUnnoticed(n) \/ Release(n) \/ StartStore(n) \/ StartRaise(n)
             \/ StartFlag(n) \/ Deal(n) \/ Collect(n)
      PROVE  LeaderInv'
  BY Zenon, <1>1, CrashInv, RestartInv, LockGetInv, LockGetFailsInv, LockUpdateInv,
     LockUpdateUnnoticedInv, ReleaseInv, StartStoreInv, StartRaiseInv, StartFlagInv, DealInv,
     CollectInv
<1>2. CASE UNCHANGED leaderVars
  <2>1. /\ oracle' = oracle /\ lock' = lock /\ node' = node /\ leader' = leader
        /\ committed' = committed /\ deal' = deal /\ dealt' = dealt
    BY Zenon, <1>2 DEF leaderVars, tsoVars
  <2>2. LeaderTypeOK'
    BY Zenon, <2>1, LeaderTypes, TypesNext DEF LeaderInv
  <2> QED BY Zenon, <2>1, <2>2 DEF LeaderInv, HoldersHold, GotIsCurrent, StoppedStays, DownRests, Alone,
                                 DealtBelow, Above, RevisionsAscend
<1> QED BY Zenon, <1>1, <1>2, OracleTickInv, LeaseExpiresInv DEF LeaderNext

\* The inductive invariant holds for any number of nodes, crashes and leases.
THEOREM Invariant == LeaderSpec => []LeaderInv
  BY LeaderInitInv, LeaderNextInv, PTL DEF LeaderSpec

\* The variables have their types, and only a node whose callback has run through
\* has the flag IsLeader returns.
THEOREM TypeCorrect == LeaderSpec => []LeaderTypeOK
<1>1. LeaderInv => LeaderTypeOK
  BY Zenon DEF LeaderInv
<1> QED BY <1>1, Invariant, PTL

\* At most one node is between the start of OnStartedLeading and the release of the
\* lock, whichever races happen: two nodes can only both admit writes while one of
\* them is on its way out.
THEOREM OneNodeHolds == LeaderSpec => []OneHolds
<1>1. LeaderInv => OneHolds
  BY Zenon DEF LeaderInv, HoldersHold, OneHolds
<1> QED BY <1>1, Invariant, PTL

\* No two nodes admit writes at the same time, if a process that released the lock
\* ends before another node takes it.
THEOREM AtMostOneLeader == "release" \notin Races => (LeaderSpec => []OneLeader)
<1> SUFFICES ASSUME "release" \notin Races PROVE LeaderSpec => []OneLeader
  OBVIOUS
<1>1. LeaderInv => OneLeader
  <2> SUFFICES ASSUME LeaderInv, NEW m \in Nodes, NEW n \in Nodes, leader[m], leader[n], m # n
               PROVE  FALSE
    BY Zenon DEF OneLeader
  <2>1. node[n].call = "none"
    BY Zenon, LeadsAlone
  <2> QED BY Zenon, <2>1, NodeTypes, CallsDiffer
<1> QED BY <1>1, Invariant, PTL

\* The revisions dealt ascend across every change of leader, crash and restart, if
\* neither of the two races happens.
THEOREM RevisionsAlwaysAscend == Races = {} => (LeaderSpec => []RevisionsAscend)
<1> SUFFICES ASSUME Races = {} PROVE LeaderSpec => []RevisionsAscend
  OBVIOUS
<1>1. LeaderInv => RevisionsAscend
  BY Zenon DEF LeaderInv
<1> QED BY <1>1, Invariant, PTL
=============================================================================
