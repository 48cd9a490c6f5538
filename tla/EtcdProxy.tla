------------------------------ MODULE EtcdProxy ------------------------------
(***************************************************************************)
(* The etcd proxy of a node that follows (etcdproxy/etcd_proxy.go): a loop *)
(* keeps a client to the leader, transactions and watches that reach this  *)
(* node go through it.  The leader moves, peers become unreachable and     *)
(* come back, this node takes the lead, loses it and is started again.     *)
(*                                                                         *)
(* A client is the peer it speaks to and the TLS configuration it uses.    *)
(* The read-write lock of the proxy is held in writing while step is "try" *)
(* and wanted in writing in "reset" and "connect"; it is held in reading   *)
(* by every transaction that is forwarded.                                 *)
(***************************************************************************)
EXTENDS Integers, Sequences

CONSTANTS
  Peers,                 \* the other nodes
  Self,                  \* this node
  None,                  \* no leader, no client, no error
  Configs,               \* the TLS configurations to try, in order
  Mode,                  \* node -> the configuration it answers to
  Txns,                  \* transactions sent to this node
  Watches,               \* watches sent to this node
  MaxChanges             \* bound: changes of the leader and of reachability

ASSUME EtcdProxyAssumption ==
  /\ Self \notin Peers /\ None \notin Peers /\ Self # None
  /\ Configs \in Seq(STRING) \ {<<>>}
  /\ MaxChanges \in Nat

VARIABLES
  run,                   \* this process: "on", or why it ended: "lost", "panic"
  observed,              \* GetLeaderInfo: the holder in the election record
  flag,                  \* IsLeader
  reach,                 \* the peers that can be reached
  changes,               \* the number of changes so far
  proxy,                 \* the loop: [step, try, cur, client, err]
  leaked,                \* a client was dropped without being closed
  txn,                   \* each transaction: [step, client]
  watch                  \* each watch: [step, client, closed, live]

envVars == <<run, observed, flag, reach, changes>>
vars == <<envVars, proxy, leaked, txn, watch>>

NoTxn == [step |-> "idle", client |-> None]
NoWatch == [step |-> "idle", client |-> None, closed |-> FALSE, live |-> FALSE]
NewProxy == [step |-> "idle", try |-> 1, cur |-> None, client |-> None, err |-> None]
Client(to, config) == [to |-> to, config |-> config]

\* A client whose peer answers MemberList within its second.
Answers(client) == client.to \in reach \cup {Self} /\ Mode[client.to] = client.config

-----------------------------------------------------------------------------
(* The election and the network.                                           *)

\* Another peer takes the lead, or nobody has it.  A node that loses it ends.
Elect(l) ==
  /\ run = "on"
  /\ changes < MaxChanges
  /\ l # observed
  /\ observed' = l
  /\ changes' = changes + 1
  /\ run' = IF observed = Self THEN "lost" ELSE "on"
  /\ UNCHANGED <<flag, reach, proxy, leaked, txn, watch>>

\* OnStartedLeading of this node has come to its end.
StartLeading ==
  /\ run = "on"
  /\ observed = Self
  /\ ~flag
  /\ flag' = TRUE
  /\ UNCHANGED <<run, observed, reach, changes, proxy, leaked, txn, watch>>

Reachability(p) ==
  /\ changes < MaxChanges
  /\ changes' = changes + 1
  /\ reach' = IF p \in reach THEN reach \ {p} ELSE reach \cup {p}
  /\ UNCHANGED <<run, observed, flag, proxy, leaked, txn, watch>>

\* The process is started again after it ended.
Restart ==
  /\ run # "on"
  /\ run' = "on"
  /\ observed' = IF observed = Self THEN None ELSE observed
  /\ flag' = FALSE
  /\ proxy' = NewProxy
  /\ leaked' = FALSE
  /\ txn' = [t \in Txns |-> NoTxn]
  /\ watch' = [w \in Watches |-> NoWatch]
  /\ UNCHANGED <<reach, changes>>

-----------------------------------------------------------------------------
(* updateClient.                                                           *)

Forwarding == {t \in Txns : txn[t].step = "forward"}

\* A new transaction or watch does not get the lock in reading.
WriterWaits == proxy.step \in {"reset", "connect", "try"}

\* Mutant of UpdateCheck: the failed check leaves the leader in place.
UpdateCheck_KeepLeader ==
  /\ run = "on"
  /\ proxy.step = "idle"
  /\ LET healthy == IF proxy.client = None THEN proxy.err = None ELSE Answers(proxy.client) IN
     \/ healthy /\ proxy' = [proxy EXCEPT !.step = "look"]
     \/ ~healthy /\ proxy' = [proxy EXCEPT !.step = "reset"]
  /\ UNCHANGED <<envVars, leaked, txn, watch>>

\* checkConn, before the lock is taken: without a client the error of the last
\* attempt counts, with one its peer is asked.
UpdateCheck ==
  /\ run = "on"
  /\ proxy.step = "idle"
  /\ LET healthy == IF proxy.client = None THEN proxy.err = None ELSE Answers(proxy.client) IN
     \/ healthy /\ proxy' = [proxy EXCEPT !.step = "look"]
     \/ ~healthy /\ proxy' = [proxy EXCEPT !.step = "reset", !.cur = None]
  /\ UNCHANGED <<envVars, leaked, txn, watch>>

\* The leader as the election tells it, compared with the one of the client.
UpdateLook ==
  /\ run = "on"
  /\ proxy.step = "look"
  /\ proxy' = IF flag THEN [proxy EXCEPT !.step = "reset"]
              ELSE IF observed \in {proxy.cur, None} THEN [proxy EXCEPT !.step = "idle"]
              ELSE [proxy EXCEPT !.step = "connect", !.cur = observed]
  /\ UNCHANGED <<envVars, leaked, txn, watch>>

\* Mutant of Signalled: the channel of the watches is left open.
Signalled_Forget == [w \in Watches |-> [watch[w] EXCEPT !.live = FALSE]]

\* resetClient: every watch started so far finds its channel closed, and the
\* client it uses closed.
Signalled == [w \in Watches |-> IF watch[w].step = "idle" THEN watch[w]
                                ELSE [watch[w] EXCEPT !.closed = TRUE, !.live = FALSE]]

\* Mutant of Locked: the lock is not waited for.
Locked_Never == TRUE

\* Lock returns once no transaction holds the lock in reading.
Locked == Forwarding = {}

\* Mutant of UpdateReset: the lock is kept.
UpdateReset_KeepLock ==
  /\ run = "on"
  /\ proxy.step = "reset"
  /\ Locked
  /\ proxy' = [proxy EXCEPT !.client = None]
  /\ watch' = Signalled
  /\ UNCHANGED <<envVars, leaked, txn>>

\* The lock, resetClient, and the lock is free again.
UpdateReset ==
  /\ run = "on"
  /\ proxy.step = "reset"
  /\ Locked
  /\ proxy' = [proxy EXCEPT !.step = "idle", !.client = None]
  /\ watch' = Signalled
  /\ UNCHANGED <<envVars, leaked, txn>>

\* Mutant of UpdateConnect: the client before is not closed.
UpdateConnect_NoReset ==
  /\ run = "on"
  /\ proxy.step = "connect"
  /\ Locked
  /\ proxy' = [proxy EXCEPT !.step = "try", !.try = 1, !.client = None]
  /\ UNCHANGED <<envVars, leaked, txn, watch>>

\* The lock, resetClient, and the lock is held for the loop that follows.
UpdateConnect ==
  /\ run = "on"
  /\ proxy.step = "connect"
  /\ Locked
  /\ proxy' = [proxy EXCEPT !.step = "try", !.try = 1, !.client = None]
  /\ watch' = Signalled
  /\ UNCHANGED <<envVars, leaked, txn>>

\* The peer did not answer in time: the next configuration, or nothing.
NextTry == IF proxy.try < Len(Configs) THEN [proxy EXCEPT !.try = @ + 1] ELSE NewProxy

\* One round of the loop over the configurations: the peer answers; it does
\* not within a second; another error; no client at all.
UpdateTry ==
  /\ run = "on"
  /\ proxy.step = "try"
  /\ LET client == Client(proxy.cur, Configs[proxy.try]) IN
     \/ /\ Answers(client)
        /\ proxy' = [NewProxy EXCEPT !.cur = proxy.cur, !.client = client]
        /\ UNCHANGED leaked
     \/ /\ ~Answers(client)
        /\ proxy' = NextTry
        /\ leaked' = TRUE
     \/ /\ proxy' = [NewProxy EXCEPT !.err = "other"]
        /\ leaked' = TRUE
     \/ /\ proxy' = [NewProxy EXCEPT !.cur = proxy.cur, !.err = "other"]
        /\ UNCHANGED leaked
  /\ UNCHANGED <<envVars, txn, watch>>

-----------------------------------------------------------------------------
(* Transactions and watches of clients.                                    *)

\* A transaction reaches a node that does not lead.
TxnBegin(t) ==
  /\ run = "on"
  /\ ~flag
  /\ txn[t] = NoTxn
  /\ txn' = [txn EXCEPT ![t].step = "asked"]
  /\ UNCHANGED <<envVars, proxy, leaked, watch>>

\* RLock and Ready.
TxnForward(t) ==
  /\ run = "on"
  /\ txn[t].step = "asked"
  /\ ~WriterWaits
  /\ txn' = [txn EXCEPT ![t] = IF proxy.client = None THEN NoTxn
                               ELSE [step |-> "forward", client |-> proxy.client]]
  /\ UNCHANGED <<envVars, proxy, leaked, watch>>

\* An answer, an error, or the deadline of the request.
TxnReturn(t) ==
  /\ run = "on"
  /\ txn[t].step = "forward"
  /\ txn' = [txn EXCEPT ![t] = NoTxn]
  /\ UNCHANGED <<envVars, proxy, leaked, watch>>

\* Watch: RLock, Ready and the channel, then a goroutine.
WatchBegin(w) ==
  /\ run = "on"
  /\ ~flag
  /\ watch[w] = NoWatch
  /\ ~WriterWaits
  /\ proxy.client # None
  /\ watch' = [watch EXCEPT ![w].step = "begun"]
  /\ UNCHANGED <<envVars, proxy, leaked, txn>>

\* The goroutine reads the client without the lock, so that it may also find
\* the one that is being tried; a nil client is a panic, and util.Recover ends
\* the process.
WatchOpen(w) ==
  /\ run = "on"
  /\ watch[w].step = "begun"
  /\ \/ /\ proxy.client = None
        /\ run' = "panic"
        /\ UNCHANGED watch
     \/ /\ \E client \in {proxy.client, Client(proxy.cur, Configs[proxy.try])} :
             /\ client # proxy.client => proxy.step = "try"
             /\ client # None
             /\ watch' = [watch EXCEPT ![w] = [@ EXCEPT !.step = "open", !.client = client,
                                                        !.live = TRUE]]
        /\ UNCHANGED run
  /\ UNCHANGED <<observed, flag, reach, changes, proxy, leaked, txn>>

\* The channel is closed, or the client is, or its peer has gone.
WatchEnd(w) ==
  /\ run = "on"
  /\ watch[w].step = "open"
  /\ watch[w].closed \/ ~watch[w].live \/ ~Answers(watch[w].client)
  /\ watch' = [watch EXCEPT ![w] = NoWatch]
  /\ UNCHANGED <<envVars, proxy, leaked, txn>>

\* The context of the watch is done.
WatchCancel(w) ==
  /\ run = "on"
  /\ watch[w].step = "open"
  /\ watch' = [watch EXCEPT ![w] = NoWatch]
  /\ UNCHANGED <<envVars, proxy, leaked, txn>>

-----------------------------------------------------------------------------
Init ==
  /\ run = "on"
  /\ observed \in Peers \cup {None}
  /\ flag = FALSE
  /\ reach = Peers
  /\ changes = 0
  /\ proxy = NewProxy
  /\ leaked = FALSE
  /\ txn = [t \in Txns |-> NoTxn]
  /\ watch = [w \in Watches |-> NoWatch]

Update == UpdateCheck \/ UpdateLook \/ UpdateReset \/ UpdateConnect \/ UpdateTry

Next ==
  \/ \E l \in Peers \cup {Self, None} : Elect(l)
  \/ StartLeading
  \/ \E p \in Peers : Reachability(p)
  \/ Restart
  \/ Update
  \/ \E t \in Txns : TxnBegin(t) \/ TxnForward(t) \/ TxnReturn(t)
  \/ \E w \in Watches : WatchBegin(w) \/ WatchOpen(w) \/ WatchEnd(w) \/ WatchCancel(w)

\* checkLeaderLoop runs every second; Unlock lets the waiting readers in, and
\* requests have deadlines; the goroutine of a watch runs, and its select takes
\* a channel that stays ready; a process that ended is started again.
Fairness ==
  /\ WF_vars(Update)
  /\ WF_vars(Restart)
  /\ \A t \in Txns : SF_vars(TxnForward(t)) /\ WF_vars(TxnReturn(t))
  /\ \A w \in Watches : WF_vars(WatchOpen(w)) /\ WF_vars(WatchEnd(w))

Spec == Init /\ [][Next]_vars /\ Fairness

-----------------------------------------------------------------------------
(* Properties.                                                             *)

Clients == [to : Peers \cup {Self}, config : {Configs[i] : i \in DOMAIN Configs}]
Proxies ==
  [step : {"idle", "look", "reset", "connect", "try"}, try : DOMAIN Configs,
   cur : Peers \cup {Self, None}, client : Clients \cup {None}, err : {"other", None}]
TxnRecords == [step : {"idle", "asked", "forward"}, client : Clients \cup {None}]
WatchRecords ==
  [step : {"idle", "begun", "open"}, client : Clients \cup {None}, closed : BOOLEAN,
   live : BOOLEAN]

\* The variables have their types.
TypeOK ==
  /\ run \in {"on", "lost", "panic"}
  /\ observed \in Peers \cup {Self, None}
  /\ flag \in BOOLEAN
  /\ reach \subseteq Peers
  /\ changes \in 0 .. MaxChanges
  /\ proxy \in Proxies
  /\ leaked \in BOOLEAN
  /\ txn \in [Txns -> TxnRecords]
  /\ watch \in [Watches -> WatchRecords]

\* A transaction is forwarded through the client of the proxy, which is not
\* closed under it (Txn holds the lock while updateClient wants it).
ForwardedOnOpenClient == \A t \in Forwarding : txn[t].client = proxy.client

\* A watch whose client was closed has been told, or is about to use a client
\* that still is the one of the proxy (resetClient closes both).
StaleWatchTold ==
  \A w \in Watches :
    watch[w].step = "open" /\ ~watch[w].closed => watch[w].live /\ watch[w].client = proxy.client

\* The leader l stays and can be reached, and this process runs.
Settled(l) == run = "on" /\ observed = l /\ l \in reach
Connected(l) == proxy.client # None /\ proxy.client.to = l

\* Once the leader stays, the proxy has a client to it, whatever peers did not
\* answer in time before (updateClient forgets a deadline), unless it keeps an
\* error of another kind.
Reconnects ==
  \A l \in Peers : <>[](Settled(l) /\ proxy.err = None) => <>[]Connected(l)

\* Once the leader stays, no watch hangs on another one: the goroutine of Watch
\* ends and the client of this node asks again.
WatchesFollow ==
  \A l \in Peers, w \in Watches :
    <>[]Settled(l) => <>[](watch[w].step = "open" => watch[w].client.to = l)

\* Every transaction sent to this node ends, also when it waits for the lock
\* behind updateClient, which waits for the transactions before it.
TxnsEnd == \A t \in Txns : txn[t] # NoTxn ~> txn[t] = NoTxn
==============================================================================
