------------------------------- MODULE EtcdKV --------------------------------
(***************************************************************************)
(* The KV service of a leader: how a Txn of etcd is recognised as a        *)
(* create, an update or a delete (etcd/kv.go), how the backend carries it  *)
(* out in several steps (backend/txn.go, creator/naive.go), how a Get and  *)
(* a List in pages are answered (backend/range.go), and how the answers    *)
(* are put in the words of etcd (etcd/backendshim.go; brain/read.go and    *)
(* brain/write.go hand the same answers on as they are).                   *)
(*                                                                         *)
(* A batch of the engine is atomic (module KvStore), fails only on its     *)
(* compare, and index and newest version of a key agree (WritePath): a key *)
(* is its set of versions.  A kv is named by its mod revision, 0 is none.  *)
(***************************************************************************)
EXTENDS Integers, Sequences, FiniteSets, FiniteSetsExt

CONSTANTS
  EtcdClients,
  RawKeys,               \* numbers, in the order of the keys
  Limit,                 \* the limit of a List
  MaxRevision            \* bound: no revision above it is dealt

\* There is a first key; 0 says that there is no further page.
ASSUME EtcdKVAssumption ==
  /\ RawKeys \subseteq Nat \ {0} /\ RawKeys # {} /\ IsFiniteSet(RawKeys)
  /\ Limit \in Nat \ {0}
  /\ MaxRevision \in Nat \ {0}

VARIABLES
  versions,              \* key -> set of [rev, live]
  kvDeal,                \* dealRevision
  kvCommitted,           \* committedRevision
  settled,               \* revisions notified and not yet collected
  call,                  \* the request of each client
  answer,                \* the last answer to each client
  seen                   \* ghost: the kvs the key of a request has been during it

storeVars == <<versions, kvDeal, settled>>
kvVars == <<storeVars, kvCommitted, call, answer, seen>>

Idle == [step |-> "idle"]
NoAnswer == [of |-> "none"]
NoVersion == [rev |-> 0, live |-> FALSE]

\* The newest of some versions not above a revision, as the iterator of
\* getInternalVal finds it, and as get shows it.
NewestOf(vs, rev) ==
  LET below == {v \in vs : v.rev <= rev} IN
  IF below = {} THEN NoVersion ELSE CHOOSE v \in below : \A u \in below : u.rev <= v.rev

NewestAt(k, rev) == NewestOf(versions[k], rev)
Newest(k) == NewestAt(k, MaxRevision)
Shown(v) == IF v.live THEN v.rev ELSE 0
get(k) == Shown(Newest(k))

-----------------------------------------------------------------------------
(* Transactions of etcd: one compare on the mod revision (or the version)  *)
(* of the key, and the operations of either branch.                        *)

Request(compare, rev, success, failure) ==
  [compare |-> compare, rev |-> rev, success |-> success, failure |-> failure]

isCreate(txn) ==
  /\ txn.compare = "mod"
  /\ txn.rev = 0
  /\ txn.failure = <<>>
  /\ txn.success = <<"put">>

isDelete(txn) ==
  \/ txn.compare = "none" /\ txn.failure = <<>> /\ txn.success = <<"range", "delete">>
  \/ txn.compare = "mod" /\ txn.failure = <<"range">> /\ txn.success = <<"delete">>

isUpdate(txn) ==
  /\ txn.compare = "mod"
  /\ txn.success = <<"put">>
  /\ txn.failure = <<"range">>

isCompact(txn) ==
  /\ txn.compare = "version"
  /\ txn.success = <<"put">>
  /\ txn.failure = <<"range">>

\* What etcd answers when the key is at kv: the reference.
EtcdResponse(op, kv) == IF op = "put" THEN [op |-> op] ELSE [op |-> op, kv |-> kv]
EtcdAnswer(txn, kv) ==
  LET ok == txn.compare = "none" \/ kv = txn.rev
      ops == IF ok THEN txn.success ELSE txn.failure
  IN [succeeded |-> ok, responses |-> [i \in DOMAIN ops |-> EtcdResponse(ops[i], kv)]]

\* The requests a client may send: the ones the API server uses, with a
\* revision the key has had, and one that is none of them.
Requests(k) ==
  {Request("mod", 0, <<"put">>, <<>>),
   Request("none", 0, <<"range", "delete">>, <<>>),
   Request("version", 0, <<"put">>, <<"range">>),
   Request("mod", 0, <<"put">>, <<"put">>)}
  \cup {Request("mod", rev, <<op>>, <<"range">>) :
          rev \in {0} \cup {v.rev : v \in versions[k]}, op \in {"put", "delete"}}

-----------------------------------------------------------------------------
(* Answers in the words of etcd.                                           *)

Answer(c, header, ok, response) ==
  answer' = [answer EXCEPT ![c] =
    [of |-> "txn", txn |-> call[c].txn, key |-> call[c].key, header |-> header,
     succeeded |-> ok, responses |-> <<response>>]]

\* backendShim.Create: a put response in either case.
CreateAnswer(c, ok) == Answer(c, call[c].rev, ok, [op |-> "put"])

\* backendShim.Update, backendShim.Delete.
UpdateAnswer(c, header, ok, kv) ==
  Answer(c, header, ok, IF ok THEN [op |-> "put"] ELSE [op |-> "range", kv |-> kv])
DeleteAnswer(c, header, ok, kv) ==
  Answer(c, header, ok, [op |-> IF ok THEN "delete" ELSE "range", kv |-> kv])

-----------------------------------------------------------------------------
(* The steps of a request.                                                 *)

DealRevision(rev) ==
  /\ kvDeal < MaxRevision
  /\ rev = kvDeal + 1
  /\ kvDeal' = rev

Goto(c, step) == call' = [call EXCEPT ![c].step = step]
Respond(c) == call' = [call EXCEPT ![c] = Idle]
Notify(c) == settled' = settled \cup {call[c].rev}

\* A Txn on the key is in progress.
Calls(c, k) == call[c].step \notin {"idle", "get", "list"} /\ call[c].key = k

\* The batch of a request: the new version is all its key shows from now on.
Write(c, live) ==
  LET v == [rev |-> call[c].rev, live |-> live] IN
  /\ versions' = [versions EXCEPT ![call[c].key] = @ \cup {v}]
  /\ seen' = [d \in EtcdClients |-> IF Calls(d, call[c].key)
                                THEN seen[d] \cup {Shown(v)} ELSE seen[d]]

\* ErrCASFailed: Create answers, the others read the key again.
CASFailed(c) ==
  /\ Notify(c)
  /\ UNCHANGED <<versions, kvDeal, kvCommitted, seen>>
  /\ \/ isCreate(call[c].txn) /\ CreateAnswer(c, FALSE) /\ Respond(c)
     \/ ~isCreate(call[c].txn) /\ Goto(c, "reread") /\ UNCHANGED answer

\* Txn: what a request is and how it begins.  Update without a revision is a
\* create.  Create and Update are dealt a revision; Delete reads first.
Txn(c, k, txn) ==
  LET begin(step, rev, from) ==
        [step |-> step, txn |-> txn, key |-> k, rev |-> rev, from |-> from]
  IN
  /\ call[c] = Idle
  /\ \/ /\ isCreate(txn) \/ (isUpdate(txn) /\ txn.rev = 0)
        /\ DealRevision(kvDeal + 1)
        /\ call' = [call EXCEPT ![c] = begin("put", kvDeal + 1, NoVersion)]
        /\ answer' = [answer EXCEPT ![c] = NoAnswer]
     \/ /\ isDelete(txn)
        /\ call' = [call EXCEPT ![c] = begin("read", 0, NoVersion)]
        /\ answer' = [answer EXCEPT ![c] = NoAnswer]
        /\ UNCHANGED kvDeal
     \/ /\ isUpdate(txn) /\ txn.rev # 0
        /\ DealRevision(kvDeal + 1)
        /\ call' = [call EXCEPT ![c] =
             begin("commit", kvDeal + 1, [rev |-> txn.rev, live |-> TRUE])]
        /\ answer' = [answer EXCEPT ![c] = NoAnswer]
     \/ /\ isCompact(txn)
        /\ answer' = [answer EXCEPT ![c] = [of |-> "compact", succeeded |-> FALSE,
                                            responses |-> <<[op |-> "range", kv |-> 0]>>]]
        /\ UNCHANGED <<call, kvDeal>>
     \/ /\ ~(isCreate(txn) \/ isUpdate(txn) \/ isDelete(txn) \/ isCompact(txn))
        /\ answer' = [answer EXCEPT ![c] = [of |-> "unsupported"]]
        /\ UNCHANGED <<call, kvDeal>>
  /\ seen' = [seen EXCEPT ![c] = {get(k)}]
  /\ UNCHANGED <<versions, settled, kvCommitted>>

\* naiveCreator.create: put the index if there is none.
CreatePut(c) ==
  /\ call[c].step = "put"
  /\ \/ /\ versions[call[c].key] = {}
        /\ Write(c, TRUE)
        /\ Notify(c)
        /\ IF isCreate(call[c].txn) THEN CreateAnswer(c, TRUE)
                                    ELSE UpdateAnswer(c, call[c].rev, TRUE, 0)
        /\ Respond(c)
     \/ /\ versions[call[c].key] # {}
        /\ Goto(c, "look")
        /\ UNCHANGED <<versions, settled, answer, seen>>
  /\ UNCHANGED <<kvDeal, kvCommitted>>

\* Mutant of Replaceable: a create gives up on a key that was deleted.
Replaceable_Never(c, v) == FALSE

\* A create replaces a tombstone older than itself.
Replaceable(c, v) == ~v.live /\ v.rev < call[c].rev

\* CreateWithTTL after the conflict: the value the batch met, or the one a Get
\* finds after it.
CreateLook(c) ==
  LET v == Newest(call[c].key) IN
  /\ call[c].step = "look"
  /\ \/ /\ Replaceable(c, v)
        /\ call' = [call EXCEPT ![c].step = "commit", ![c].from = v]
        /\ UNCHANGED <<storeVars, kvCommitted, answer, seen>>
     \/ ~Replaceable(c, v) /\ CASFailed(c)

\* backend.delete: the latest value, or the end.
DeleteRead(c) ==
  LET k == call[c].key IN
  /\ call[c].step = "read"
  /\ call' = [call EXCEPT ![c].step = "deal", ![c].from = [rev |-> get(k), live |-> get(k) # 0]]
  /\ UNCHANGED <<storeVars, kvCommitted, answer, seen>>

\* A revision is dealt whatever was read, and after it, so that it is above the one
\* read.  The comparison with the revision the client expects comes before the
\* batch.
DeleteDeal(c) ==
  LET old == call[c].from.rev
      expected == call[c].txn.rev
      rev == kvDeal + 1
  IN
  /\ call[c].step = "deal"
  /\ DealRevision(rev)
  /\ \/ /\ old = 0
        /\ settled' = settled \cup {rev}
        /\ DeleteAnswer(c, rev, FALSE, 0)
        /\ Respond(c)
     \/ /\ old # 0 /\ expected # 0 /\ expected # old
        /\ settled' = settled \cup {rev}
        /\ call' = [call EXCEPT ![c].step = "reread", ![c].rev = rev]
        /\ UNCHANGED answer
     \/ /\ old # 0 /\ expected \in {0, old}
        /\ call' = [call EXCEPT ![c].step = "commit", ![c].rev = rev]
        /\ UNCHANGED <<settled, answer>>
  /\ UNCHANGED <<versions, kvCommitted, seen>>

\* The batch that compares the index and puts a version.
CommitBatch(c) ==
  LET q == call[c] IN
  /\ q.step = "commit"
  /\ \/ /\ Newest(q.key) = q.from
        /\ Write(c, ~isDelete(q.txn))
        /\ Notify(c)
        /\ CASE isCreate(q.txn) -> CreateAnswer(c, TRUE)
             [] isDelete(q.txn) -> DeleteAnswer(c, q.rev, TRUE, q.from.rev)
             [] OTHER -> UpdateAnswer(c, q.rev, TRUE, 0)
        /\ Respond(c)
        /\ UNCHANGED <<kvDeal, kvCommitted>>
     \/ Newest(q.key) # q.from /\ CASFailed(c)

\* maxUint64
Header(own, read) == IF read > own THEN read ELSE own

\* Update and Delete read the key again; Delete falls back on what it read
\* before when the key is gone.
Reread(c) ==
  LET q == call[c]
      kv == get(q.key)
  IN
  /\ q.step = "reread"
  /\ IF isDelete(q.txn)
     THEN DeleteAnswer(c, Header(q.rev, kv), FALSE, IF kv = 0 THEN q.from.rev ELSE kv)
     ELSE UpdateAnswer(c, Header(q.rev, kv), FALSE, kv)
  /\ Respond(c)
  /\ UNCHANGED <<storeVars, kvCommitted, seen>>

\* Mutant of GetBegin: the revision dealt is loaded.
GetBegin_Dealt(c, k) ==
  /\ call[c] = Idle
  /\ call' = [call EXCEPT ![c] = [step |-> "get", key |-> k, rev |-> kvDeal]]
  /\ answer' = [answer EXCEPT ![c] = NoAnswer]
  /\ seen' = [seen EXCEPT ![c] = {}]
  /\ UNCHANGED <<storeVars, kvCommitted>>

\* backend.Get: the committed revision is loaded before the read.
GetBegin(c, k) ==
  /\ call[c] = Idle
  /\ call' = [call EXCEPT ![c] = [step |-> "get", key |-> k, rev |-> kvCommitted]]
  /\ answer' = [answer EXCEPT ![c] = NoAnswer]
  /\ seen' = [seen EXCEPT ![c] = {}]
  /\ UNCHANGED <<storeVars, kvCommitted>>

GetRead(c) ==
  LET kv == get(call[c].key) IN
  /\ call[c].step = "get"
  /\ answer' = [answer EXCEPT ![c] =
       [of |-> "get", key |-> call[c].key, header |-> Header(call[c].rev, kv), kv |-> kv]]
  /\ Respond(c)
  /\ UNCHANGED <<storeVars, kvCommitted, seen>>

\* The collector of the event ring.
CollectNext ==
  /\ kvCommitted + 1 \in settled
  /\ kvCommitted' = kvCommitted + 1
  /\ settled' = settled \ {kvCommitted + 1}
  /\ UNCHANGED <<versions, kvDeal, call, answer, seen>>

-----------------------------------------------------------------------------
(* A client lists all keys in pages: the first at revision 0, the others   *)
(* at the revision of the header of the first.                             *)

First(n, S) == {k \in S : Cardinality({j \in S : j <= k}) <= n}

\* Mutant of Page: the scanner is asked for no more than the limit.
Page_NoExtra(rev, from) ==
  LET found == First(Limit, {k \in RawKeys : k >= from /\ NewestAt(k, rev).live}) IN
  [kvs |-> {<<k, NewestAt(k, rev).rev>> : k \in First(Limit, found)},
   last |-> IF Cardinality(found) > Limit THEN Max(First(Limit, found)) ELSE 0]

\* List: one more than the limit is asked for, to know whether there is more;
\* last is the last key of the page if there is.
Page(rev, from) ==
  LET found == First(Limit + 1, {k \in RawKeys : k >= from /\ NewestAt(k, rev).live}) IN
  [kvs |-> {<<k, NewestAt(k, rev).rev>> : k \in First(Limit, found)},
   last |-> IF Cardinality(found) > Limit THEN Max(First(Limit, found)) ELSE 0]

\* The client keeps what it has and asks again while there is more: from the
\* next key on, or from the last key and a zero byte, which brings the last key
\* once more, as internal keys sort the zero byte before splitByte.
Turn(c, rev, kvs, page) ==
  LET all == kvs \cup page.kvs IN
  /\ \/ /\ page.last = 0
        /\ answer' = [answer EXCEPT ![c] = [of |-> "list", header |-> rev, kvs |-> all]]
        /\ Respond(c)
     \/ /\ page.last # 0
        /\ answer' = [answer EXCEPT ![c] = NoAnswer]
        /\ \E from \in {page.last, page.last + 1} :
             call' = [call EXCEPT ![c] =
               [step |-> "list", key |-> from, rev |-> rev, kvs |-> all]]
  /\ seen' = [seen EXCEPT ![c] = {}]
  /\ UNCHANGED <<storeVars, kvCommitted>>

ListFirst(c) == call[c] = Idle /\ Turn(c, kvCommitted, {}, Page(kvCommitted, 0))

ListMore(c) ==
  LET q == call[c] IN q.step = "list" /\ Turn(c, q.rev, q.kvs, Page(q.rev, q.key))

-----------------------------------------------------------------------------
\* The leader has started at revision 1, at which the first key was written.
KvInit ==
  /\ versions = [k \in RawKeys |-> IF k = Min(RawKeys) THEN {[rev |-> 1, live |-> TRUE]} ELSE {}]
  /\ kvDeal = 1
  /\ kvCommitted = 1
  /\ settled = {}
  /\ call = [c \in EtcdClients |-> Idle]
  /\ answer = [c \in EtcdClients |-> NoAnswer]
  /\ seen = [c \in EtcdClients |-> {}]

Step(c) ==
  \/ CreatePut(c)
  \/ CreateLook(c)
  \/ DeleteRead(c)
  \/ DeleteDeal(c)
  \/ CommitBatch(c)
  \/ Reread(c)
  \/ GetRead(c)
  \/ ListMore(c)

KvNext ==
  \/ \E c \in EtcdClients :
       \/ \E k \in RawKeys : GetBegin(c, k) \/ \E txn \in Requests(k) : Txn(c, k, txn)
       \/ ListFirst(c)
       \/ Step(c)
  \/ CollectNext

KvSpec == KvInit /\ [][KvNext]_kvVars

-----------------------------------------------------------------------------
(* Properties.                                                             *)

\* The variables have their types; a revision is collected once.
KvTypeOK ==
  /\ \A k \in RawKeys : versions[k] \subseteq [rev : 1 .. kvDeal, live : BOOLEAN]
  /\ kvDeal \in 1 .. MaxRevision
  /\ kvCommitted \in 1 .. kvDeal
  /\ settled \subseteq kvCommitted + 1 .. kvDeal
  /\ \A c \in EtcdClients :
       /\ call[c].step \in {"idle", "put", "look", "read", "deal", "commit", "reread", "get", "list"}
       /\ answer[c].of \in {"none", "txn", "get", "list", "compact", "unsupported"}
       /\ seen[c] \subseteq 0 .. kvDeal

\* The answer to a conditional Txn is the one etcd gives at some moment of the
\* request: both whether it succeeded and the kv that comes with it ("Keep etcd
\* txn semantics", backendshim.go:143), though a failure is found in one step
\* and the kv read in another.  When the key is deleted in between, whether it
\* succeeded and the kv still are, each by itself, true of a moment of the
\* request.  Left out are the response to a create that failed, which is a put,
\* and a delete of revision 0, which the backend takes for one without compare.
TxnAsEtcd ==
  \A c \in EtcdClients :
    LET a == answer[c]
        some == {EtcdAnswer(a.txn, kv) : kv \in seen[c]}
    IN (a.of = "txn" /\ a.txn.compare = "mod" /\ (isDelete(a.txn) => a.txn.rev # 0)) =>
       \/ \E e \in some : e.succeeded = a.succeeded
                          /\ (e.responses = a.responses \/ e.responses = <<>>)
       \/ /\ 0 \in seen[c] /\ ~a.succeeded
          /\ \E e \in some : ~e.succeeded
          /\ a.responses[1].kv \in seen[c]

\* A client that gets a key and then watches from the header on ends with what
\* the key is: what it does not see as an event is in the answer (Get loads the
\* committed revision before it reads).
GetThenWatch ==
  \A c \in EtcdClients :
    LET a == answer[c] IN
    (a.of = "get" /\ \A v \in versions[a.key] : v.rev <= a.header)
      => a.kv = get(a.key)

\* The pages of a List, with writes between them, make up the keys as they
\* were at the revision of the first page, no key missing and each at one
\* version, and no write that ends later changes that (List, limit and
\* revision).
PagesAreOneSnapshot ==
  \A c \in EtcdClients :
    LET a == answer[c] IN
    a.of = "list" =>
      a.kvs = {<<k, NewestAt(k, a.header).rev>> : k \in {j \in RawKeys : NewestAt(j, a.header).live}}
=============================================================================
