-------------------------- MODULE EtcdServerProofs ---------------------------
(***************************************************************************)
(* What a node does with the streams of its clients.                       *)
(*                                                                         *)
(* Forwarded (EtcdProxy): no client of the proxy is closed under a         *)
(* transaction, and no watch stays on a closed one unnoticed, for any      *)
(* number of peers, of configurations, of transactions and of watches.     *)
(*                                                                         *)
(* Served (EtcdWatch): the map of a stream agrees with its goroutines, and *)
(* no watch ends in silence, for any number of watches, of batches of a    *)
(* list, and any capacity of its channel.                                  *)
(***************************************************************************)
EXTENDS EtcdProxy, EtcdWatch, TLAPS

-----------------------------------------------------------------------------
(* The proxy.                                                              *)

\* While configurations are tried, there is a peer to try; no transaction is
\* forwarded, and every watch that has begun knows that its client is closed.
Trying ==
  /\ proxy.step \in {"connect", "try"} => proxy.cur # None
  /\ proxy.step = "try" => /\ Forwarding = {}
                           /\ \A w \in Watches : watch[w].step # "idle" => watch[w].closed

\* The inductive invariant of the proxy.
ProxyInv == TypeOK /\ Trying /\ ForwardedOnOpenClient /\ StaleWatchTold

\* The configurations are numbered from 1.
LEMMA ConfigsNumbered == Len(Configs) \in Nat \ {0} /\ DOMAIN Configs = 1 .. Len(Configs)
  BY EtcdProxyAssumption

\* The records of a process that has just started have their types.
LEMMA NothingYet == NewProxy \in Proxies /\ NoTxn \in TxnRecords /\ NoWatch \in WatchRecords
<1>1. 1 \in DOMAIN Configs
  BY ConfigsNumbered
<1> QED BY Zenon, <1>1 DEF NewProxy, NoTxn, NoWatch, Proxies, TxnRecords, WatchRecords

\* The first state has the invariant.
LEMMA ProxyInitInv == Init => ProxyInv
<1> SUFFICES ASSUME Init
             PROVE  ProxyInv
  BY Zenon
<1>1. TypeOK
  <2>1. changes \in 0 .. MaxChanges
    BY EtcdProxyAssumption DEF Init
  <2>2. txn \in [Txns -> TxnRecords] /\ watch \in [Watches -> WatchRecords]
    BY Zenon, NothingYet DEF Init
  <2> QED BY Zenon, <2>1, <2>2, NothingYet DEF Init, TypeOK
<1>2. Trying /\ ForwardedOnOpenClient /\ StaleWatchTold
  BY Zenon DEF Init, Trying, ForwardedOnOpenClient, StaleWatchTold, Forwarding,
    NewProxy, NoTxn,
         NoWatch
<1> QED BY Zenon, <1>1, <1>2 DEF ProxyInv

\* Another leader, or none.
LEMMA ElectInv ==
  ASSUME ProxyInv, NEW l \in Peers \cup {Self, None}, Elect(l)
  PROVE  ProxyInv'
<1> USE EtcdProxyAssumption DEF ProxyInv, Elect
<1>1. TypeOK'
  BY DEF TypeOK
<1>2. Trying' /\ ForwardedOnOpenClient' /\ StaleWatchTold'
  BY Zenon DEF Trying, ForwardedOnOpenClient, StaleWatchTold, Forwarding
<1> QED BY Zenon, <1>1, <1>2

\* This node leads.
LEMMA StartLeadingInv ==
  ASSUME ProxyInv, StartLeading
  PROVE  ProxyInv'
<1> USE EtcdProxyAssumption DEF ProxyInv, StartLeading
<1>1. TypeOK'
  BY Zenon DEF TypeOK
<1>2. Trying' /\ ForwardedOnOpenClient' /\ StaleWatchTold'
  BY Zenon DEF Trying, ForwardedOnOpenClient, StaleWatchTold, Forwarding
<1> QED BY Zenon, <1>1, <1>2

\* A peer goes or comes back.
LEMMA ReachabilityInv ==
  ASSUME ProxyInv, NEW p \in Peers, Reachability(p)
  PROVE  ProxyInv'
<1> USE EtcdProxyAssumption DEF ProxyInv, Reachability
<1>1. TypeOK'
  BY DEF TypeOK
<1>2. Trying' /\ ForwardedOnOpenClient' /\ StaleWatchTold'
  BY Zenon DEF Trying, ForwardedOnOpenClient, StaleWatchTold, Forwarding
<1> QED BY Zenon, <1>1, <1>2

\* The process is started again.
LEMMA RestartInv ==
  ASSUME ProxyInv, Restart
  PROVE  ProxyInv'
<1> USE EtcdProxyAssumption, ConfigsNumbered DEF ProxyInv, Restart, envVars
<1>1. TypeOK'
  BY Zenon, NothingYet DEF TypeOK
<1>2. Trying'
  BY Zenon DEF Trying, Forwarding, TypeOK, NewProxy, NoTxn, NoWatch
<1>3. ForwardedOnOpenClient'
  BY Zenon DEF ForwardedOnOpenClient, Forwarding, Trying, TypeOK, NoTxn
<1>4. StaleWatchTold'
  BY Zenon DEF StaleWatchTold, Trying, TypeOK, NoWatch
<1> QED BY Zenon, <1>1, <1>2, <1>3, <1>4

\* The client is checked.
LEMMA UpdateCheckInv ==
  ASSUME ProxyInv, UpdateCheck
  PROVE  ProxyInv'
<1> USE EtcdProxyAssumption, ConfigsNumbered DEF ProxyInv, UpdateCheck, envVars
<1>1. TypeOK'
  BY Zenon DEF TypeOK, Proxies
<1>2. Trying'
  BY Zenon DEF Trying, Forwarding, TypeOK, Proxies, WatchRecords
<1>3. ForwardedOnOpenClient'
  BY Zenon DEF ForwardedOnOpenClient, Forwarding, Trying, TypeOK, Proxies, WatchRecords
<1>4. StaleWatchTold'
  BY Zenon DEF StaleWatchTold, Trying, TypeOK, Proxies, WatchRecords
<1> QED BY Zenon, <1>1, <1>2, <1>3, <1>4

\* The leader is compared.
LEMMA UpdateLookInv ==
  ASSUME ProxyInv, UpdateLook
  PROVE  ProxyInv'
<1> USE EtcdProxyAssumption, ConfigsNumbered DEF ProxyInv, UpdateLook, envVars
<1>1. TypeOK'
  BY Zenon DEF TypeOK, Proxies
<1>2. Trying'
  BY Zenon DEF Trying, Forwarding, TypeOK, Proxies, WatchRecords
<1>3. ForwardedOnOpenClient'
  BY Zenon DEF ForwardedOnOpenClient, Forwarding, Trying, TypeOK, Proxies, WatchRecords
<1>4. StaleWatchTold'
  BY Zenon DEF StaleWatchTold, Trying, TypeOK, Proxies, WatchRecords
<1> QED BY Zenon, <1>1, <1>2, <1>3, <1>4

\* The client is closed.
LEMMA UpdateResetInv ==
  ASSUME ProxyInv, UpdateReset
  PROVE  ProxyInv'
<1> USE EtcdProxyAssumption, ConfigsNumbered DEF ProxyInv, UpdateReset, envVars, Locked, Signalled
<1>1. TypeOK'
  <2>1. proxy' \in Proxies
    BY Zenon DEF TypeOK, Proxies
  <2>2. watch' \in [Watches -> WatchRecords]
    <3>1. \A v \in WatchRecords : [v EXCEPT !.closed = TRUE, !.live = FALSE] \in WatchRecords
      BY Zenon DEF WatchRecords
    <3> QED BY Zenon, <3>1 DEF TypeOK
  <2> QED BY Zenon, <2>1, <2>2 DEF TypeOK
<1>2. Trying'
  BY Zenon DEF Trying, Forwarding, TypeOK, Proxies, WatchRecords
<1>3. ForwardedOnOpenClient'
  BY Zenon DEF ForwardedOnOpenClient, Forwarding, Trying, TypeOK, Proxies, WatchRecords
<1>4. StaleWatchTold'
  BY Zenon DEF StaleWatchTold, Trying, TypeOK, Proxies, WatchRecords
<1> QED BY Zenon, <1>1, <1>2, <1>3, <1>4

\* The client is closed, and another one is to come.
LEMMA UpdateConnectInv ==
  ASSUME ProxyInv, UpdateConnect
  PROVE  ProxyInv'
<1> USE EtcdProxyAssumption, ConfigsNumbered DEF ProxyInv, UpdateConnect, envVars, Locked, Signalled
<1>1. TypeOK'
  <2>1. proxy' \in Proxies
    <3>1. proxy \in Proxies
      BY Zenon DEF TypeOK
    <3>2. 1 \in DOMAIN Configs
      <4> HIDE DEF ProxyInv, UpdateConnect
      <4> QED OBVIOUS
    <3> QED BY Zenon, <3>1, <3>2 DEF Proxies
  <2>2. watch' \in [Watches -> WatchRecords]
    <3>1. \A v \in WatchRecords : [v EXCEPT !.closed = TRUE, !.live = FALSE] \in WatchRecords
      BY Zenon DEF WatchRecords
    <3> QED BY Zenon, <3>1 DEF TypeOK
  <2> QED BY Zenon, <2>1, <2>2 DEF TypeOK
<1>2. Trying'
  BY Zenon DEF Trying, Forwarding, TypeOK, Proxies, WatchRecords
<1>3. ForwardedOnOpenClient'
  BY Zenon DEF ForwardedOnOpenClient, Forwarding, Trying, TypeOK, Proxies, WatchRecords
<1>4. StaleWatchTold'
  BY ZenonT(30) DEF StaleWatchTold, Trying, TypeOK, Proxies, WatchRecords
<1> QED BY Zenon, <1>1, <1>2, <1>3, <1>4

\* A configuration is tried.
LEMMA UpdateTryInv ==
  ASSUME ProxyInv, UpdateTry
  PROVE  ProxyInv'
<1> DEFINE client == Client(proxy.cur, Configs[proxy.try])
<1>1. /\ proxy.step = "try" /\ proxy \in Proxies /\ proxy.cur # None
      /\ Forwarding = {} /\ \A w \in Watches : watch[w].step # "idle" => watch[w].closed
  BY Zenon DEF UpdateTry, ProxyInv, TypeOK, Trying, Proxies
<1>2. UNCHANGED <<envVars, txn, watch>> /\ leaked' \in BOOLEAN
  BY Zenon DEF UpdateTry, ProxyInv, TypeOK
<1>3. proxy' \in Proxies /\ (proxy'.step \in {"connect", "try"} => proxy'.cur # None)
  <2>1. CASE Answers(client) /\ proxy' = [NewProxy EXCEPT !.cur = proxy.cur, !.client = client]
    <3>1. client \in Clients
      BY Zenon, <1>1, <2>1, ConfigsNumbered DEF Answers, ProxyInv, TypeOK, Client, Clients,
        Proxies
    <3>2. proxy' \in Proxies /\ proxy'.step = "idle"
      <4> HIDE DEF client
      <4> QED BY Zenon, <1>1, <2>1, <3>1, NothingYet DEF Proxies, NewProxy
    <3> QED BY Zenon, <3>2
  <2>2. CASE proxy' = NextTry
    <3>1. CASE proxy.try < Len(Configs)
      <4>1. proxy.try + 1 \in DOMAIN Configs
        BY <1>1, <3>1, ConfigsNumbered DEF Proxies
      <4>2. proxy' = [proxy EXCEPT !.try = proxy.try + 1]
        BY Zenon, <2>2, <3>1 DEF NextTry
      <4> QED BY Zenon, <1>1, <4>1, <4>2 DEF Proxies
    <3>2. CASE ~(proxy.try < Len(Configs))
      BY Zenon, <2>2, <3>2, NothingYet DEF NextTry, NewProxy
    <3> QED BY Zenon, <3>1, <3>2
  <2>3. CASE proxy' = [NewProxy EXCEPT !.err = "other"]
    BY Zenon, <2>3, NothingYet DEF NewProxy, Proxies
  <2>4. CASE proxy' = [NewProxy EXCEPT !.cur = proxy.cur, !.err = "other"]
    BY Zenon, <1>1, <2>4, NothingYet DEF NewProxy, Proxies
  <2> QED BY Zenon, <2>1, <2>2, <2>3, <2>4 DEF UpdateTry
<1>5. TypeOK'
  BY Zenon, <1>2, <1>3 DEF ProxyInv, TypeOK, Proxies, envVars
<1>6. Trying'
  BY Zenon, <1>1, <1>2, <1>3 DEF Trying, Forwarding
<1>7. ForwardedOnOpenClient'
  BY Zenon, <1>1, <1>2 DEF ForwardedOnOpenClient, Forwarding
<1>8. StaleWatchTold'
  BY Zenon, <1>1, <1>2 DEF StaleWatchTold
<1> QED BY Zenon, <1>5, <1>6, <1>7, <1>8 DEF ProxyInv

\* A transaction arrives.
LEMMA TxnBeginInv ==
  ASSUME ProxyInv, NEW t \in Txns, TxnBegin(t)
  PROVE  ProxyInv'
<1> USE EtcdProxyAssumption, ConfigsNumbered DEF ProxyInv, TxnBegin, envVars, NoTxn
<1>1. TypeOK'
  BY Zenon DEF TypeOK, TxnRecords, Proxies
<1>2. Trying'
  BY DEF Trying, Forwarding, TypeOK, TxnRecords, Proxies
<1>3. ForwardedOnOpenClient'
  BY Zenon DEF ForwardedOnOpenClient, Forwarding, Trying, TypeOK, TxnRecords, Proxies
<1>4. StaleWatchTold'
  BY Zenon DEF StaleWatchTold, Trying, TypeOK, TxnRecords, Proxies
<1> QED BY Zenon, <1>1, <1>2, <1>3, <1>4

\* It is forwarded.
LEMMA TxnForwardInv ==
  ASSUME ProxyInv, NEW t \in Txns, TxnForward(t)
  PROVE  ProxyInv'
<1> USE EtcdProxyAssumption, ConfigsNumbered DEF ProxyInv, TxnForward, envVars, NoTxn, WriterWaits
<1>1. TypeOK'
  BY Zenon DEF TypeOK, TxnRecords, Proxies
<1>2. Trying'
  BY Zenon DEF Trying, Forwarding, TypeOK, TxnRecords, Proxies
<1>3. ForwardedOnOpenClient'
  BY Zenon DEF ForwardedOnOpenClient, Forwarding, Trying, TypeOK, TxnRecords, Proxies
<1>4. StaleWatchTold'
  BY Zenon DEF StaleWatchTold, Trying, TypeOK, TxnRecords, Proxies
<1> QED BY Zenon, <1>1, <1>2, <1>3, <1>4

\* It ends.
LEMMA TxnReturnInv ==
  ASSUME ProxyInv, NEW t \in Txns, TxnReturn(t)
  PROVE  ProxyInv'
<1> USE EtcdProxyAssumption, ConfigsNumbered DEF ProxyInv, TxnReturn, envVars, NoTxn
<1>1. TypeOK'
  BY Zenon DEF TypeOK, TxnRecords, Proxies
<1>2. Trying'
  BY Zenon DEF Trying, Forwarding, TypeOK, TxnRecords, Proxies
<1>3. ForwardedOnOpenClient'
  BY Zenon DEF ForwardedOnOpenClient, Forwarding, Trying, TypeOK, TxnRecords, Proxies
<1>4. StaleWatchTold'
  BY Zenon DEF StaleWatchTold, Trying, TypeOK, TxnRecords, Proxies
<1> QED BY Zenon, <1>1, <1>2, <1>3, <1>4

\* A watch arrives.
LEMMA WatchBeginInv ==
  ASSUME ProxyInv, NEW w \in Watches, WatchBegin(w)
  PROVE  ProxyInv'
<1> USE EtcdProxyAssumption, ConfigsNumbered DEF ProxyInv, WatchBegin, envVars, WriterWaits, NoWatch
<1>1. TypeOK'
  BY Zenon DEF TypeOK, WatchRecords
<1>2. Trying'
  BY Zenon DEF Trying, Forwarding, TypeOK, WatchRecords
<1>3. ForwardedOnOpenClient'
  BY Zenon DEF ForwardedOnOpenClient, Forwarding, Trying, TypeOK, WatchRecords
<1>4. StaleWatchTold'
  BY Zenon DEF StaleWatchTold, Trying, TypeOK, WatchRecords
<1> QED BY Zenon, <1>1, <1>2, <1>3, <1>4

\* Its goroutine opens it.
LEMMA WatchOpenInv ==
  ASSUME ProxyInv, NEW w \in Watches, WatchOpen(w)
  PROVE  ProxyInv'
<1>1. /\ watch[w].step = "begun"
      /\ UNCHANGED <<observed, flag, reach, changes, proxy, leaked, txn>>
  BY Zenon DEF WatchOpen
<1>2. CASE run' = "panic" /\ UNCHANGED watch
  BY Zenon, <1>1, <1>2 DEF ProxyInv, TypeOK, Trying, ForwardedOnOpenClient, StaleWatchTold,
    Forwarding
<1>3. ASSUME NEW client \in {proxy.client, Client(proxy.cur, Configs[proxy.try])},
             client # proxy.client => proxy.step = "try", client # None,
             watch' = [watch EXCEPT ![w] = [@ EXCEPT !.step = "open", !.client = client,
                                                     !.live = TRUE]],
             UNCHANGED run
      PROVE  ProxyInv'
  <2>1. client \in Clients
    <3>1. CASE client = proxy.client
      BY Zenon, <1>3, <3>1 DEF ProxyInv, TypeOK, Proxies
    <3>2. CASE client # proxy.client
      BY <1>3, <3>2 DEF ProxyInv, TypeOK, Proxies, Trying, Client, Clients
    <3> QED BY Zenon, <3>1, <3>2
  <2>2. [watch[w] EXCEPT !.step = "open", !.client = client, !.live = TRUE] \in WatchRecords
    BY Zenon, <2>1 DEF ProxyInv, TypeOK, WatchRecords
  <2>3. watch' \in [Watches -> WatchRecords]
    BY Zenon, <1>3, <2>2 DEF ProxyInv, TypeOK, WatchRecords
  <2>4. TypeOK'
    BY Zenon, <1>1, <1>3, <2>3 DEF ProxyInv, TypeOK, WatchRecords
  <2>5. /\ \A v \in Watches \ {w} : watch'[v] = watch[v]
        /\ watch'[w].step = "open" /\ watch'[w].client = client
        /\ watch'[w].live = TRUE /\ watch'[w].closed = watch[w].closed
    BY <1>3 DEF ProxyInv, TypeOK
  <2>6. Trying'
    BY Zenon, <1>1, <2>5 DEF ProxyInv, Trying, Forwarding
  <2>7. ForwardedOnOpenClient'
    BY Zenon, <1>1 DEF ProxyInv, ForwardedOnOpenClient, Forwarding
  <2>8. client = proxy.client \/ watch[w].closed
    BY Zenon, <1>1, <1>3 DEF ProxyInv, Trying
  <2>9. StaleWatchTold'
    BY Zenon, <1>1, <2>5, <2>8 DEF ProxyInv, StaleWatchTold
  <2> QED BY Zenon, <2>4, <2>6, <2>7, <2>9 DEF ProxyInv
<1> QED BY Zenon, <1>2, <1>3 DEF WatchOpen

\* It ends.
LEMMA WatchEndInv ==
  ASSUME ProxyInv, NEW w \in Watches, WatchEnd(w)
  PROVE  ProxyInv'
<1> USE EtcdProxyAssumption, ConfigsNumbered DEF ProxyInv, WatchEnd, envVars, NoWatch
<1>1. TypeOK'
  BY Zenon DEF TypeOK, WatchRecords
<1>2. Trying'
  BY Zenon DEF Trying, Forwarding, TypeOK, WatchRecords
<1>3. ForwardedOnOpenClient'
  BY Zenon DEF ForwardedOnOpenClient, Forwarding, Trying, TypeOK, WatchRecords
<1>4. StaleWatchTold'
  BY Zenon DEF StaleWatchTold, Trying, TypeOK, WatchRecords
<1> QED BY Zenon, <1>1, <1>2, <1>3, <1>4

\* It is cancelled.
LEMMA WatchCancelInv ==
  ASSUME ProxyInv, NEW w \in Watches, WatchCancel(w)
  PROVE  ProxyInv'
<1> USE EtcdProxyAssumption, ConfigsNumbered DEF ProxyInv, WatchCancel, envVars, NoWatch
<1>1. TypeOK'
  BY Zenon DEF TypeOK, WatchRecords
<1>2. Trying'
  BY Zenon DEF Trying, Forwarding, TypeOK, WatchRecords
<1>3. ForwardedOnOpenClient'
  BY Zenon DEF ForwardedOnOpenClient, Forwarding, Trying, TypeOK, WatchRecords
<1>4. StaleWatchTold'
  BY Zenon DEF StaleWatchTold, Trying, TypeOK, WatchRecords
<1> QED BY Zenon, <1>1, <1>2, <1>3, <1>4

\* Every step keeps the invariant.
LEMMA ProxyNextInv == ProxyInv /\ [Next]_vars => ProxyInv'
<1>1. ASSUME ProxyInv, UNCHANGED vars
      PROVE  ProxyInv'
  BY Zenon, <1>1 DEF vars, envVars, ProxyInv, TypeOK, Trying, ForwardedOnOpenClient,
    StaleWatchTold,
              Forwarding
<1> QED
  BY Zenon, <1>1, ElectInv, StartLeadingInv, ReachabilityInv, RestartInv,
    UpdateCheckInv, UpdateLookInv,
     UpdateResetInv, UpdateConnectInv, UpdateTryInv, TxnBeginInv, TxnForwardInv, TxnReturnInv,
     WatchBeginInv, WatchOpenInv, WatchEndInv, WatchCancelInv
  DEF Next, Update

\* The invariant holds at all times.
LEMMA ProxyInvariance == Spec => []ProxyInv
  BY ProxyInitInv, ProxyNextInv, PTL DEF Spec

\* The variables have their types.
THEOREM ProxyTypeCorrect == Spec => []TypeOK
<1>1. ProxyInv => TypeOK
  BY Zenon DEF ProxyInv
<1> QED BY <1>1, ProxyInvariance, PTL

\* However updateClient, transactions, watches and restarts interleave, a
\* transaction is forwarded through a client that is not closed under it (Txn,
\* resetClient).
THEOREM NoClientClosedUnderTxn == Spec => []ForwardedOnOpenClient
<1>1. ProxyInv => ForwardedOnOpenClient
  BY Zenon DEF ProxyInv
<1> QED BY <1>1, ProxyInvariance, PTL

\* No watch stays on a closed client without being told: also not the one whose
\* goroutine reads the client only after updateClient has changed it (Watch,
\* resetClient).
THEOREM NoWatchLeftBehind == Spec => []StaleWatchTold
<1>1. ProxyInv => StaleWatchTold
  BY Zenon DEF ProxyInv
<1> QED BY <1>1, ProxyInvariance, PTL

-----------------------------------------------------------------------------
(* The watch stream.                                                       *)

\* The steps at which the goroutine of a watch runs.
Active == {"start", "on", "drain", "list"}

\* Every step of a watch.
Steps == Active \cup {"new", "ended"}

\* While the stream goes on, whatever is cancelled, has ended or has sent its end
\* marker was told to the client.
ToldSoFar(g, s) ==
  g.done \/ g.step = "ended" \/ (g.step = "list" /\ s.left = 0 /\ s.buffer = 0) => g.told # "no"

\* Of every watch of a stream that goes on.
Told == up /\ loop = "on" => \A i \in Ids : ToldSoFar(goroutine[i], scan[i])

\* The inductive invariant of the stream.
StreamInv ==
  /\ StreamTypeOK
  /\ queue \in [Ids -> Seq(Nat)]
  /\ MapMatchesGoroutines
  /\ Told

\* The variables of a watch have their types.
LEMMA WatchTypes ==
  ASSUME StreamInv, NEW i \in Ids
  PROVE  /\ goroutine \in [Ids -> Goroutines] /\ goroutine[i] \in Goroutines
         /\ scan \in [Ids -> Scans] /\ scan[i] \in Scans
         /\ queue \in [Ids -> Seq(Nat)] /\ queue[i] \in Seq(Nat)
         /\ \A n \in DOMAIN queue[i] : queue[i][n] \in 1 .. current
         /\ watches \subseteq Ids /\ open \subseteq Ids
  BY Zenon DEF StreamInv, StreamTypeOK

\* The bounds are numbers.
LEMMA StreamNumbers ==
  /\ Batches \in Nat /\ Batches > 0 /\ StreamCapacity \in Nat /\ StreamCapacity > 0
  /\ MaxRevision \in Nat /\ MaxRevision > 0
  BY EtcdWatchAssumption

\* A step of one watch keeps the invariant if it keeps its entry of the map and what
\* its client was told.
LEMMA WatchKept ==
  ASSUME StreamInv, NEW i \in Ids, NEW g \in Goroutines, NEW s \in Scans,
         goroutine' = [goroutine EXCEPT ![i] = g],
         scan' = [scan EXCEPT ![i] = s],
         UNCHANGED <<nodeVars, up, loop>>,
         watches' \subseteq Ids, \A j \in Ids \ {i} : j \in watches' <=> j \in watches,
         open' \subseteq Ids,
         queue' \in [Ids -> Seq(Nat)],
         \A j \in Ids : \A n \in DOMAIN queue'[j] : queue'[j][n] \in 1 .. current,
         i \in watches' => g.step \in Active,
         (g.step \in Active /\ i \notin watches') => g.done,
         (up /\ loop = "on") => ToldSoFar(g, s)
  PROVE  StreamInv'
<1>1. goroutine \in [Ids -> Goroutines] /\ scan \in [Ids -> Scans]
  BY Zenon, WatchTypes
<1>2. /\ goroutine' \in [Ids -> Goroutines] /\ scan' \in [Ids -> Scans]
      /\ goroutine'[i] = g /\ scan'[i] = s
      /\ \A j \in Ids \ {i} : goroutine'[j] = goroutine[j] /\ scan'[j] = scan[j]
  BY Zenon, <1>1
<1>3. leading' = leading /\ proxied' = proxied /\ current' = current /\ up' = up /\ loop' = loop
  BY Zenon DEF nodeVars
<1>4. StreamTypeOK'
  BY Zenon, <1>2, <1>3 DEF StreamInv, StreamTypeOK
<1>5. MapMatchesGoroutines'
  <2> SUFFICES ASSUME NEW j \in Ids
               PROVE  /\ j \in watches' => goroutine'[j].step \in Active
                      /\ (goroutine'[j].step \in Active /\ j \notin watches') => goroutine'[j].done
    BY Zenon DEF MapMatchesGoroutines, Running, Active
  <2>1. CASE j = i
    BY Zenon, <1>2, <2>1
  <2>2. CASE j # i
    <3>1. /\ j \in watches => goroutine[j].step \in Active
          /\ (goroutine[j].step \in Active /\ j \notin watches) => goroutine[j].done
      BY Zenon DEF StreamInv, MapMatchesGoroutines, Running, Active
    <3>2. goroutine'[j] = goroutine[j] /\ (j \in watches' <=> j \in watches)
      BY Zenon, <1>2, <2>2
    <3> QED BY Zenon, <3>1, <3>2
  <2> QED BY Zenon, <2>1, <2>2
<1>6. Told'
  <2>0. up' /\ loop' = "on" => up /\ loop = "on"
    BY <1>3
  <2> SUFFICES ASSUME up, loop = "on", NEW j \in Ids PROVE ToldSoFar(goroutine'[j], scan'[j])
    BY Zenon, <2>0 DEF Told, ToldSoFar
  <2>1. CASE j = i
    BY Zenon, <1>2, <2>1
  <2>2. CASE j # i
    <3>1. ToldSoFar(goroutine[j], scan[j])
      BY Zenon DEF StreamInv, Told
    <3> QED BY Zenon, <1>2, <2>2, <3>1
  <2> QED BY Zenon, <2>1, <2>2
<1> QED BY Zenon, <1>4, <1>5, <1>6 DEF StreamInv

\* Cancel: the context is cancelled, and the client told while the stream is up.
LEMMA CancelDoes ==
  ASSUME StreamInv, NEW i \in Ids,
         NEW step \in Steps, NEW compact,
         Cancel(i, step, compact)
  PROVE  /\ \E g \in Goroutines :
              /\ goroutine' = [goroutine EXCEPT ![i] = g]
              /\ g.step = step
              /\ g.done <=> (goroutine[i].done \/ i \in watches)
              /\ up => g.told # "no"
         /\ watches' = watches \ {i}
<1>1. PICK q, d, t :
        /\ q = goroutine[i] /\ d = (q.done \/ i \in watches)
        /\ t = IF up THEN (IF compact THEN "compact" ELSE "plain") ELSE q.told
  BY Zenon
<1>2. q \in Goroutines /\ d \in BOOLEAN /\ q.told \in {"no", "plain", "compact", "eof"}
  BY Zenon, <1>1, WatchTypes DEF Goroutines
<1>3. t \in {"no", "plain", "compact", "eof"} /\ (up => t # "no")
  <2>1. up \in BOOLEAN
    BY Zenon DEF StreamInv, StreamTypeOK
  <2>2. CASE up
    BY <1>1, <2>2
  <2>3. CASE ~up
    BY Zenon, <1>1, <1>2, <2>3
  <2> QED BY Zenon, <2>2, <2>3
<1>4. PICK g : g = [q EXCEPT !.step = step, !.done = d, !.told = t]
  BY Zenon
<1>5. g \in Goroutines /\ g.step = step /\ g.kind = q.kind /\ g.told = t /\ g.done = d
  <2>1. step \in {"new", "start", "on", "drain", "list", "ended"}
    BY Zenon DEF Steps, Active
  <2> QED BY Zenon, <1>2, <1>3, <1>4, <2>1 DEF Goroutines
<1>6. goroutine' = [goroutine EXCEPT ![i] = g]
  <2>1. goroutine' = [goroutine EXCEPT ![i].step = step, ![i].done = d, ![i].told = t]
    BY Zenon, <1>1 DEF Cancel, Cancelled
  <2>2. goroutine \in [Ids -> Goroutines]
    BY Zenon, WatchTypes
  <2> QED BY Zenon, <1>1, <1>4, <2>1, <2>2 DEF Goroutines
<1>7. watches' = watches \ {i}
  BY Zenon DEF Cancel
<1>8. (g.done <=> (goroutine[i].done \/ i \in watches)) /\ (up => g.told # "no")
  BY Zenon, <1>1, <1>3, <1>5
<1> QED BY Zenon, <1>1, <1>5, <1>6, <1>7, <1>8

\* After Cancel, with the goroutine at a step that fits.
LEMMA CancelKept ==
  ASSUME StreamInv, NEW i \in Ids, NEW s \in Scans,
         NEW step \in Steps, NEW compact,
         Cancel(i, step, compact),
         step \in Active => goroutine[i].step \in Active,
         scan' = [scan EXCEPT ![i] = s],
         UNCHANGED <<nodeVars, up, loop>>, open' \subseteq Ids,
         queue' \in [Ids -> Seq(Nat)],
         \A j \in Ids : \A n \in DOMAIN queue'[j] : queue'[j][n] \in 1 .. current
  PROVE  StreamInv'
<1>1. PICK g \in Goroutines :
        /\ goroutine' = [goroutine EXCEPT ![i] = g]
        /\ g.step = step
        /\ g.done <=> (goroutine[i].done \/ i \in watches)
        /\ up => g.told # "no"
  BY Zenon, CancelDoes
<1>2. watches' = watches \ {i}
  BY Zenon, CancelDoes
<1>3. /\ watches' \subseteq Ids /\ i \notin watches'
      /\ \A j \in Ids \ {i} : j \in watches' <=> j \in watches
  BY Zenon, <1>2, WatchTypes
<1>4. g.step \in Active => g.done
  <2>1. (goroutine[i].step \in Active /\ i \notin watches) => goroutine[i].done
    BY Zenon DEF StreamInv, MapMatchesGoroutines, Running, Active
  <2> QED BY Zenon, <1>1, <2>1
<1>5. up => ToldSoFar(g, s)
  BY Zenon, <1>1 DEF ToldSoFar
<1> QED BY Zenon, <1>1, <1>3, <1>4, <1>5, WatchKept

\* Channels that stay, or lose what waited in one of them, have their types.
LEMMA QueueKept ==
  ASSUME StreamInv, NEW i \in Ids, queue' = queue \/ queue' = [queue EXCEPT ![i] = <<>>]
  PROVE  /\ queue' \in [Ids -> Seq(Nat)]
         /\ \A j \in Ids : \A n \in DOMAIN queue'[j] : queue'[j][n] \in 1 .. current
<1>1. queue \in [Ids -> Seq(Nat)]
  BY Zenon, WatchTypes
<1>2. \A j \in Ids : \A n \in DOMAIN queue[j] : queue[j][n] \in 1 .. current
  BY Zenon, WatchTypes
<1>3. <<>> \in Seq(Nat) /\ DOMAIN <<>> = {}
  OBVIOUS
<1>4. CASE queue' = queue
  BY Zenon, <1>1, <1>2, <1>4
<1>5. CASE queue' = [queue EXCEPT ![i] = <<>>]
  <2>1. /\ queue' \in [Ids -> Seq(Nat)] /\ queue'[i] = <<>>
        /\ \A j \in Ids \ {i} : queue'[j] = queue[j]
    BY Zenon, <1>1, <1>3, <1>5
  <2> QED BY Zenon, <1>2, <1>3, <2>1
<1> QED BY Zenon, <1>4, <1>5

\* What a watch and its client are at, before a step.
LEMMA WatchFacts ==
  ASSUME StreamInv, NEW i \in Ids
  PROVE  /\ i \in watches => goroutine[i].step \in Active
         /\ (goroutine[i].step \in Active /\ i \notin watches) => goroutine[i].done
         /\ (up /\ loop = "on") => ToldSoFar(goroutine[i], scan[i])
  BY Zenon DEF StreamInv, MapMatchesGoroutines, Running, Active, Told

\* A step at the channels of a watch only.
LEMMA ChannelKept ==
  ASSUME StreamInv, NEW i \in Ids, open' \subseteq open,
         queue' = queue \/ queue' = [queue EXCEPT ![i] = <<>>],
         UNCHANGED <<nodeVars, up, loop, watches, goroutine, scan>>
  PROVE  StreamInv'
<1>1. PICK g \in Goroutines, s \in Scans : g = goroutine[i] /\ s = scan[i]
  BY Zenon, WatchTypes
<1>2. goroutine' = [goroutine EXCEPT ![i] = g] /\ scan' = [scan EXCEPT ![i] = s]
  <2>1. goroutine \in [Ids -> Goroutines] /\ scan \in [Ids -> Scans]
    BY Zenon, WatchTypes
  <2>2. goroutine' = goroutine /\ scan' = scan
    BY Zenon
  <2> QED BY Zenon, <1>1, <2>1, <2>2
<1>3. /\ watches' \subseteq Ids /\ open' \subseteq Ids
      /\ \A j \in Ids : j \in watches' <=> j \in watches
  BY Zenon, WatchTypes
<1>4. /\ queue' \in [Ids -> Seq(Nat)]
      /\ \A j \in Ids : \A n \in DOMAIN queue'[j] : queue'[j][n] \in 1 .. current
  BY Zenon, QueueKept
<1>5. /\ i \in watches' => g.step \in Active
      /\ (g.step \in Active /\ i \notin watches') => g.done
      /\ (up /\ loop = "on") => ToldSoFar(g, s)
  BY Zenon, <1>1, <1>3, WatchFacts
<1>6. UNCHANGED <<nodeVars, up, loop>>
  BY Zenon
<1> QED BY Zenon, <1>2, <1>3, <1>4, <1>5, <1>6, WatchKept

\* The receive loop returns, or Close goes on: contexts may be cancelled.
LEMMA LoopKept ==
  ASSUME StreamInv, loop' \in {"closing", "waiting", "closed"},
         goroutine' \in [Ids -> Goroutines],
         \A i \in Ids : /\ goroutine'[i].step = goroutine[i].step
                        /\ goroutine[i].done => goroutine'[i].done,
         UNCHANGED <<nodeVars, up, watches, backVars>>
  PROVE  StreamInv'
<1>1. /\ leading' = leading /\ proxied' = proxied /\ current' = current /\ up' = up
      /\ watches' = watches /\ queue' = queue /\ open' = open /\ scan' = scan
  BY Zenon DEF nodeVars, backVars
<1>2. loop' # "on" /\ loop' \in {"on", "closing", "waiting", "closed"}
  OBVIOUS
<1>3. StreamTypeOK'
  BY Zenon, <1>1, <1>2 DEF StreamInv, StreamTypeOK
<1>4. MapMatchesGoroutines'
  BY Zenon, <1>1 DEF StreamInv, MapMatchesGoroutines, Running
<1>5. Told'
  BY Zenon, <1>2 DEF Told
<1> QED BY Zenon, <1>1, <1>3, <1>4, <1>5 DEF StreamInv

-----------------------------------------------------------------------------
(* One lemma per action of the stream.                                     *)

\* A revision is committed: every open channel gets its event.
LEMMA CommitInv ==
  ASSUME StreamInv, Commit
  PROVE  StreamInv'
<1>1. PICK r : r = current
  BY Zenon
<1>2. r \in 1 .. MaxRevision /\ r < MaxRevision /\ current' = r + 1
      /\ queue' = [i \in Ids |-> IF i \in open THEN Append(queue[i], r + 1) ELSE queue[i]]
  BY Zenon, <1>1 DEF Commit, StreamInv, StreamTypeOK
<1>3. /\ leading' = leading /\ proxied' = proxied /\ up' = up /\ loop' = loop
      /\ watches' = watches /\ goroutine' = goroutine /\ open' = open /\ scan' = scan
  BY Zenon DEF Commit
<1>4. r + 1 \in 1 .. MaxRevision /\ r + 1 \in 1 .. r + 1 /\ r + 1 \in Nat
      /\ \A e \in 1 .. r : e \in 1 .. r + 1
  BY <1>2, StreamNumbers
<1>5. ASSUME NEW i \in Ids
      PROVE  queue'[i] \in Seq(Nat) /\ \A n \in DOMAIN queue'[i] : queue'[i][n] \in 1 .. r + 1
  <2>1. PICK q \in Seq(Nat) : q = queue[i] /\ \A n \in DOMAIN q : q[n] \in 1 .. r
    BY Zenon, <1>1, WatchTypes
  <2>2. PICK p : p = Append(q, r + 1)
    BY Zenon
  <2>3. p \in Seq(Nat) /\ \A n \in DOMAIN p : p[n] \in 1 .. r + 1
    BY <1>4, <2>1, <2>2
  <2>4. queue'[i] = p \/ queue'[i] = q
    BY Zenon, <1>2, <2>1, <2>2
  <2> QED BY Zenon, <1>4, <2>1, <2>3, <2>4
<1>6. queue' \in [Ids -> Seq(Nat)]
  BY Zenon, <1>2, <1>5
<1>7. StreamTypeOK'
  <2>1. /\ current' \in 1 .. MaxRevision
        /\ \A i \in Ids : \A n \in DOMAIN queue'[i] : queue'[i][n] \in 1 .. current'
    BY Zenon, <1>2, <1>4, <1>5
  <2> QED BY Zenon, <1>3, <2>1 DEF StreamInv, StreamTypeOK
<1>8. MapMatchesGoroutines' /\ Told'
  <2>1. MapMatchesGoroutines'
    BY Zenon, <1>3 DEF StreamInv, MapMatchesGoroutines, Running
  <2>2. up' /\ loop' = "on" => up /\ loop = "on"
    BY <1>3
  <2>3. Told'
    BY Zenon, <1>3, <2>2 DEF StreamInv, Told, ToldSoFar
  <2> QED BY Zenon, <2>1, <2>3
<1> QED BY Zenon, <1>6, <1>7, <1>8 DEF StreamInv

\* This node leads.
LEMMA BeginLeadingInv ==
  ASSUME StreamInv, BeginLeading
  PROVE  StreamInv'
<1>1. /\ proxied' = proxied /\ current' = current /\ up' = up /\ loop' = loop
      /\ watches' = watches /\ goroutine' = goroutine /\ queue' = queue /\ open' = open
      /\ scan' = scan
  BY Zenon DEF BeginLeading, backVars
<1>2. leading' \in BOOLEAN
  BY DEF BeginLeading
<1>3. StreamTypeOK'
  BY Zenon, <1>1, <1>2 DEF StreamInv, StreamTypeOK
<1>4. MapMatchesGoroutines'
  BY Zenon, <1>1 DEF StreamInv, MapMatchesGoroutines, Running
<1>5. up' /\ loop' = "on" => up /\ loop = "on"
  BY <1>1
<1>6. Told'
  BY Zenon, <1>1, <1>5 DEF StreamInv, Told, ToldSoFar
<1> QED BY Zenon, <1>1, <1>3, <1>4, <1>6 DEF StreamInv

\* Contexts that are cancelled leave the rest of a goroutine as it is.
LEMMA DoneTypes ==
  ASSUME NEW g \in Goroutines, NEW d \in BOOLEAN
  PROVE  /\ [g EXCEPT !.done = d] \in Goroutines
         /\ [g EXCEPT !.done = d].step = g.step
         /\ [g EXCEPT !.done = d].done = d
  BY Zenon DEF Goroutines

\* The connection is gone.
LEMMA BreakInv ==
  ASSUME StreamInv, Break
  PROVE  StreamInv'
<1>1. goroutine \in [Ids -> Goroutines]
  BY Zenon DEF StreamInv, StreamTypeOK
<1>2. /\ goroutine' = [i \in Ids |-> [goroutine[i] EXCEPT !.done = TRUE]]
      /\ up' = FALSE
  BY Zenon DEF Break
<1>3. /\ leading' = leading /\ proxied' = proxied /\ current' = current /\ loop' = loop
      /\ watches' = watches /\ queue' = queue /\ open' = open /\ scan' = scan
  BY Zenon DEF Break, nodeVars, backVars
<1>4. \A i \in Ids : /\ goroutine'[i] \in Goroutines
                     /\ goroutine'[i].step = goroutine[i].step
                     /\ goroutine'[i].done
  <2>1. TRUE \in BOOLEAN
    BY Zenon
  <2>2. ASSUME NEW i \in Ids
        PROVE  /\ goroutine'[i] \in Goroutines /\ goroutine'[i].step = goroutine[i].step
               /\ goroutine'[i].done = TRUE
    <3>1. PICK g \in Goroutines : g = goroutine[i]
      BY Zenon, <1>1
    <3>2. goroutine'[i] = [g EXCEPT !.done = TRUE]
      BY Zenon, <1>2, <3>1
    <3> QED BY Zenon, <2>1, <3>1, <3>2, DoneTypes
  <2> QED BY Zenon, <2>2
<1>5. goroutine' \in [Ids -> Goroutines]
  BY Zenon, <1>2, <1>4
<1>6. StreamTypeOK'
  BY Zenon, <1>2, <1>3, <1>5 DEF StreamInv, StreamTypeOK
<1>7. MapMatchesGoroutines'
  BY Zenon, <1>3, <1>4 DEF StreamInv, MapMatchesGoroutines, Running
<1>8. Told'
  BY Zenon, <1>2 DEF Told
<1> QED BY Zenon, <1>3, <1>6, <1>7, <1>8 DEF StreamInv

\* A watch is created, on a stream that is up or not; or the stream ends, since this
\* node neither leads nor forwards.
LEMMA CreateInv ==
  ASSUME StreamInv, NEW i \in Ids, NEW kind \in Kinds, Create(i, kind)
  PROVE  StreamInv'
<1>1. UNCHANGED <<nodeVars, up, backVars>> /\ loop = "on" /\ goroutine[i].step = "new"
  BY Zenon DEF Create
<1>2. CASE kind = "watch" /\ ~leading /\ ~proxied
  <2>1. loop' = "closing" /\ watches' = watches /\ goroutine' = goroutine
    BY Zenon, <1>2 DEF Create
  <2>2. loop' \in {"closing", "waiting", "closed"}
    BY Zenon, <2>1
  <2>3. goroutine' \in [Ids -> Goroutines]
    BY Zenon, <2>1, WatchTypes
  <2> QED BY Zenon, <1>1, <2>1, <2>2, <2>3, LoopKept
<1>3. CASE ~(kind = "watch" /\ ~leading /\ ~proxied)
  <2>1. PICK q, d, t :
          /\ q = goroutine[i] /\ d = (q.done \/ ~up)
          /\ t = IF up THEN "start" ELSE "ended"
    BY Zenon
  <2>2. /\ goroutine' = [goroutine EXCEPT ![i].step = t, ![i].kind = kind, ![i].done = d]
        /\ watches' = IF up THEN watches \cup {i} ELSE watches
        /\ loop' = loop
    BY Zenon, <1>3, <2>1 DEF Create
  <2>3. q \in Goroutines /\ d \in BOOLEAN
    BY Zenon, <2>1, WatchTypes
  <2>4. PICK g : g = [q EXCEPT !.step = t, !.kind = kind, !.done = d]
    BY Zenon
  <2>5. /\ up => t = "start"
        /\ ~up => t = "ended"
        /\ t \in {"new", "start", "on", "drain", "list", "ended"}
    <3>1. CASE up
      BY Zenon, <2>1, <3>1
    <3>2. CASE ~up
      BY Zenon, <2>1, <3>2
    <3> QED BY Zenon, <3>1, <3>2
  <2>6. g \in Goroutines /\ g.step = t /\ g.done = d /\ g.told = q.told
    BY Zenon, <2>3, <2>4, <2>5 DEF Goroutines
  <2>7. goroutine' = [goroutine EXCEPT ![i] = g]
    <3>1. goroutine \in [Ids -> Goroutines]
      BY Zenon, WatchTypes
    <3> QED BY Zenon, <2>1, <2>2, <2>4, <3>1 DEF Goroutines
  <2>8. PICK s \in Scans : s = scan[i] /\ scan' = [scan EXCEPT ![i] = s]
    <3>1. scan \in [Ids -> Scans] /\ scan' = scan
      BY Zenon, <1>1, WatchTypes DEF backVars
    <3> QED BY Zenon, <3>1
  <2>9. open' = open /\ queue' = queue
    BY Zenon, <1>1 DEF backVars
  <2>10. "start" \in Active /\ "ended" \notin Active /\ "new" \notin Active
         /\ "start" # "ended" /\ "start" # "list" /\ "new" # "ended" /\ "new" # "list"
    BY DEF Active
  <2>11. i \notin watches
    BY Zenon, <1>1, <2>10, WatchFacts
  <2>12. watches' \subseteq Ids /\ \A j \in Ids \ {i} : j \in watches' <=> j \in watches
    <3>1. CASE up
      BY Zenon, <2>2, <3>1, WatchTypes
    <3>2. CASE ~up
      BY Zenon, <2>2, <3>2, WatchTypes
    <3> QED BY Zenon, <3>1, <3>2
  <2>13. /\ i \in watches' => g.step \in Active
         /\ (g.step \in Active /\ i \notin watches') => g.done
    <3>1. CASE up
      BY Zenon, <2>2, <2>5, <2>6, <2>10, <3>1
    <3>2. CASE ~up
      BY Zenon, <2>2, <2>5, <2>6, <2>10, <2>11, <3>2
    <3> QED BY Zenon, <3>1, <3>2
  <2>14. ASSUME up PROVE ToldSoFar(g, s)
    <3>1. ToldSoFar(q, s)
      BY Zenon, <1>1, <2>1, <2>8, <2>14, WatchFacts
    <3>2. g.step = "start" /\ (g.done => q.done)
      BY Zenon, <2>1, <2>5, <2>6, <2>14
    <3> QED BY Zenon, <2>6, <2>10, <3>1, <3>2 DEF ToldSoFar
  <2>15. UNCHANGED <<nodeVars, up, loop>>
    BY Zenon, <1>1, <2>2
  <2>16. /\ open' \subseteq Ids /\ queue' \in [Ids -> Seq(Nat)]
         /\ \A j \in Ids : \A n \in DOMAIN queue'[j] : queue'[j][n] \in 1 .. current
    BY Zenon, <2>9, WatchTypes
  <2> QED BY Zenon, <2>6, <2>7, <2>8, <2>12, <2>13, <2>14, <2>15, <2>16, WatchKept
<1> QED BY Zenon, <1>2, <1>3

\* The scan of a watch, as it is.
LEMMA ScanKept ==
  ASSUME StreamInv, NEW i \in Ids, scan' = scan
  PROVE  \E s \in Scans : s = scan[i] /\ scan' = [scan EXCEPT ![i] = s]
<1>1. scan \in [Ids -> Scans]
  BY Zenon, WatchTypes
<1> QED BY Zenon, <1>1

\* Cancel by the client.
LEMMA CancelRequestInv ==
  ASSUME StreamInv, NEW i \in Ids, CancelRequest(i)
  PROVE  StreamInv'
<1>1. UNCHANGED <<nodeVars, up, loop, backVars>>
  BY Zenon DEF CancelRequest
<1>2. open' = open /\ queue' = queue /\ scan' = scan
  BY Zenon, <1>1 DEF backVars
<1>3. PICK step \in Steps : step = goroutine[i].step
  <2>1. goroutine[i].step \in {"new", "start", "on", "drain", "list", "ended"}
    BY Zenon, WatchTypes DEF Goroutines
  <2>2. goroutine[i].step \in Steps
    BY Zenon, <2>1 DEF Steps, Active
  <2> QED BY Zenon, <2>2
<1>4. Cancel(i, step, FALSE)
  BY Zenon, <1>3 DEF CancelRequest
<1>5. PICK s \in Scans : scan' = [scan EXCEPT ![i] = s]
  BY Zenon, <1>2, ScanKept
<1>6. /\ open' \subseteq Ids /\ queue' \in [Ids -> Seq(Nat)]
      /\ \A j \in Ids : \A n \in DOMAIN queue'[j] : queue'[j][n] \in 1 .. current
  BY Zenon, <1>2, WatchTypes
<1>7. UNCHANGED <<nodeVars, up, loop>>
  BY Zenon, <1>1
<1> QED BY Zenon, <1>3, <1>4, <1>5, <1>6, <1>7, CancelKept

\* The loop ends by an error, and the deferred Close cancels and waits.
LEMMA LoopInv ==
  ASSUME StreamInv, ProgressRequest \/ RecvError \/ Close \/ CloseReturn
  PROVE  StreamInv'
<1>1. goroutine \in [Ids -> Goroutines]
  BY Zenon DEF StreamInv, StreamTypeOK
<1>2. UNCHANGED <<nodeVars, up, watches, backVars>>
  BY Zenon DEF ProgressRequest, RecvError, Close, CloseReturn
<1>3. CASE ProgressRequest \/ RecvError \/ CloseReturn
  <2>1. loop' \in {"closing", "waiting", "closed"} /\ goroutine' = goroutine
    BY Zenon, <1>3 DEF ProgressRequest, RecvError, CloseReturn
  <2> QED BY Zenon, <1>1, <1>2, <2>1, LoopKept
<1>4. CASE Close
  <2>1. loop' \in {"closing", "waiting", "closed"}
    BY Zenon, <1>4 DEF Close
  <2>2. goroutine' = [i \in Ids |-> [goroutine[i] EXCEPT !.done = @ \/ i \in watches]]
    BY Zenon, <1>4 DEF Close, CloseAll
  <2>3. ASSUME NEW i \in Ids
        PROVE  /\ goroutine'[i] \in Goroutines /\ goroutine'[i].step = goroutine[i].step
               /\ goroutine[i].done => goroutine'[i].done
    <3>1. PICK g \in Goroutines, d \in BOOLEAN :
            g = goroutine[i] /\ d = (g.done \/ i \in watches)
      BY Zenon, <1>1
    <3>2. goroutine'[i] = [g EXCEPT !.done = d]
      BY Zenon, <2>2, <3>1
    <3>3. PICK h : h = [g EXCEPT !.done = d]
      BY Zenon
    <3>4. h \in Goroutines /\ h.step = g.step /\ h.done = d
      BY Zenon, <3>3 DEF Goroutines
    <3>5. goroutine'[i] = h
      BY Zenon, <3>2, <3>3
    <3> QED BY Zenon, <3>1, <3>4, <3>5
  <2>4. goroutine' \in [Ids -> Goroutines]
    BY Zenon, <2>2, <2>3
  <2> QED BY Zenon, <1>2, <2>1, <2>3, <2>4, LoopKept
<1> QED BY Zenon, <1>3, <1>4

\* The backend refuses the watch, or returns its channel.
LEMMA WatchStartInv ==
  ASSUME StreamInv, NEW i \in Ids, WatchStart(i)
  PROVE  StreamInv'
<1>1. UNCHANGED <<nodeVars, up, loop>> /\ scan' = scan /\ goroutine[i].step = "start"
  BY Zenon DEF WatchStart
<1>2. PICK s \in Scans : s = scan[i] /\ scan' = [scan EXCEPT ![i] = s]
  BY Zenon, <1>1, ScanKept
<1>3. "ended" \in Steps /\ "ended" \notin Active /\ "on" \in Active /\ "start" \in Active
      /\ "on" # "ended" /\ "on" # "list"
  BY DEF Steps, Active
<1>4. CASE Cancel(i, "ended", TRUE) /\ queue' = queue /\ open' = open
  <2>1. /\ open' \subseteq Ids /\ queue' \in [Ids -> Seq(Nat)]
        /\ \A j \in Ids : \A n \in DOMAIN queue'[j] : queue'[j][n] \in 1 .. current
    BY Zenon, <1>4, WatchTypes
  <2> QED BY Zenon, <1>1, <1>2, <1>3, <1>4, <2>1, CancelKept
<1>5. ASSUME NEW rev \in 1 .. current + 1,
             goroutine' = [goroutine EXCEPT ![i].step = "on"],
             open' = open \cup {i}, watches' = watches,
             queue' = [queue EXCEPT ![i] = [n \in 1 .. current + 1 - rev |-> rev + n - 1]]
      PROVE  StreamInv'
  <2>1. PICK q, g : q = goroutine[i] /\ g = [q EXCEPT !.step = "on"]
    BY Zenon
  <2>2. q \in Goroutines
    BY Zenon, <2>1, WatchTypes
  <2>3. g \in Goroutines /\ g.step = "on" /\ g.done = q.done /\ g.told = q.told
    BY Zenon, <2>1, <2>2 DEF Goroutines
  <2>4. goroutine' = [goroutine EXCEPT ![i] = g]
    <3>1. goroutine \in [Ids -> Goroutines]
      BY Zenon, WatchTypes
    <3> QED BY Zenon, <1>5, <2>1, <3>1 DEF Goroutines
  <2>5. PICK c \in Nat : c = current
    BY EtcdWatchAssumption DEF StreamInv, StreamTypeOK
  <2>6. PICK f : f = [n \in 1 .. c + 1 - rev |-> rev + n - 1]
    BY Zenon
  <2>7. f \in Seq(Nat) /\ \A n \in DOMAIN f : f[n] \in 1 .. c
    <3>1. rev \in Nat /\ 1 <= rev /\ rev <= c + 1
      BY <2>5
    <3>2. DOMAIN f = 1 .. c + 1 - rev /\ c + 1 - rev \in Nat
      BY <2>5, <2>6, <3>1
    <3>3. ASSUME NEW n \in 1 .. c + 1 - rev
          PROVE  f[n] \in 1 .. c
      <4>1. f[n] = rev + n - 1
        BY Zenon, <2>6
      <4> QED BY <2>5, <3>1, <4>1
    <3>4. \A n \in DOMAIN f : f[n] \in 1 .. c
      BY Zenon, <3>2, <3>3
    <3>5. 1 .. c \subseteq Nat
      BY <2>5
    <3>6. f \in [1 .. c + 1 - rev -> Nat]
      BY Zenon, <2>6, <3>2, <3>4, <3>5
    <3>7. f \in Seq(Nat)
      BY <3>2, <3>6
    <3> QED BY Zenon, <3>4, <3>7
  <2>8. queue' = [queue EXCEPT ![i] = f]
    BY Zenon, <1>5, <2>5, <2>6
  <2>9. /\ queue' \in [Ids -> Seq(Nat)]
        /\ \A j \in Ids : \A n \in DOMAIN queue'[j] : queue'[j][n] \in 1 .. current
    <3>1. queue \in [Ids -> Seq(Nat)]
      BY Zenon, WatchTypes
    <3>2. /\ queue' \in [Ids -> Seq(Nat)] /\ queue'[i] = f
          /\ \A j \in Ids \ {i} : queue'[j] = queue[j]
      BY Zenon, <2>7, <2>8, <3>1
    <3>3. \A j \in Ids : \A n \in DOMAIN queue[j] : queue[j][n] \in 1 .. current
      BY Zenon, WatchTypes
    <3> QED BY Zenon, <2>5, <2>7, <3>2, <3>3
  <2>10. /\ watches' \subseteq Ids /\ open' \subseteq Ids
        /\ \A j \in Ids \ {i} : j \in watches' <=> j \in watches
    BY Zenon, <1>5, WatchTypes
  <2>11. /\ i \in watches' => g.step \in Active
         /\ (g.step \in Active /\ i \notin watches') => g.done
    BY Zenon, <1>1, <1>3, <1>5, <2>1, <2>3, WatchFacts
  <2>12. (up /\ loop = "on") => ToldSoFar(g, s)
    <3>1. (up /\ loop = "on") => ToldSoFar(q, s)
      BY Zenon, <1>2, <2>1, WatchFacts
    <3> QED BY Zenon, <1>3, <2>3, <3>1 DEF ToldSoFar
  <2> QED BY Zenon, <1>1, <1>2, <2>3, <2>4, <2>9, <2>10, <2>11, <2>12, WatchKept
<1> QED BY Zenon, <1>4, <1>5 DEF WatchStart

\* Events are sent, or the watch is cancelled since they cannot be.
LEMMA WatchSendInv ==
  ASSUME StreamInv, NEW i \in Ids, WatchSend(i)
  PROVE  StreamInv'
<1>1. /\ UNCHANGED <<nodeVars, up, loop>> /\ open' = open /\ scan' = scan
      /\ queue' = [queue EXCEPT ![i] = <<>>] /\ goroutine[i].step = "on"
  BY Zenon DEF WatchSend
<1>2. CASE up
  <2>1. goroutine' = goroutine /\ watches' = watches
    BY Zenon, <1>2 DEF WatchSend
  <2>2. open' \subseteq open
    BY Zenon, <1>1
  <2>3. UNCHANGED <<nodeVars, up, loop, watches, goroutine, scan>>
    BY Zenon, <1>1, <2>1
  <2> QED BY Zenon, <1>1, <2>2, <2>3, ChannelKept
<1>3. CASE ~up
  <2>1. Cancel(i, "drain", FALSE)
    BY Zenon, <1>3 DEF WatchSend
  <2>2. "drain" \in Steps /\ "on" \in Active
    BY DEF Steps, Active
  <2>3. PICK s \in Scans : scan' = [scan EXCEPT ![i] = s]
    BY Zenon, <1>1, ScanKept
  <2>4. /\ queue' \in [Ids -> Seq(Nat)]
        /\ \A j \in Ids : \A n \in DOMAIN queue'[j] : queue'[j][n] \in 1 .. current
    BY Zenon, <1>1, QueueKept
  <2>5. open' \subseteq Ids
    BY Zenon, <1>1, WatchTypes
  <2> QED BY Zenon, <1>1, <2>1, <2>2, <2>3, <2>4, <2>5, CancelKept
<1> QED BY Zenon, <1>2, <1>3

\* The hub drops the watcher, or its channels are closed or drained.
LEMMA ChannelInv ==
  ASSUME StreamInv, NEW i \in Ids, HubDrop(i) \/ ChannelDone(i) \/ WatchDrain(i)
  PROVE  StreamInv'
<1>1. /\ open' \subseteq open
      /\ queue' = queue \/ queue' = [queue EXCEPT ![i] = <<>>]
      /\ UNCHANGED <<nodeVars, up, loop, watches, goroutine, scan>>
  BY Zenon DEF HubDrop, ChannelDone, WatchDrain
<1> QED BY Zenon, <1>1, ChannelKept

\* The channel is closed and empty, and the watch ends.
LEMMA WatchReturnInv ==
  ASSUME StreamInv, NEW i \in Ids, WatchReturn(i)
  PROVE  StreamInv'
<1>1. /\ UNCHANGED <<nodeVars, up, loop>> /\ open' = open /\ queue' = queue /\ scan' = scan
      /\ Cancel(i, "ended", FALSE)
  BY Zenon DEF WatchReturn, backVars
<1>2. "ended" \in Steps /\ "ended" \notin Active
  BY DEF Steps, Active
<1>3. PICK s \in Scans : scan' = [scan EXCEPT ![i] = s]
  BY Zenon, <1>1, ScanKept
<1>4. /\ open' \subseteq Ids /\ queue' \in [Ids -> Seq(Nat)]
      /\ \A j \in Ids : \A n \in DOMAIN queue'[j] : queue'[j][n] \in 1 .. current
  BY Zenon, <1>1, WatchTypes
<1> QED BY Zenon, <1>1, <1>2, <1>3, <1>4, CancelKept

\* What is known of a watch at a step of its list, by the step's own name for them.
LEMMA ListFacts ==
  ASSUME StreamInv, NEW i \in Ids
  PROVE  \E q \in Goroutines, p \in Scans :
           /\ q = goroutine[i] /\ p = scan[i]
           /\ i \in watches => q.step \in Active
           /\ (q.step \in Active /\ i \notin watches) => q.done
           /\ (up /\ loop = "on") => ToldSoFar(q, p)
           /\ p.left \in 0 .. Batches /\ p.buffer \in 0 .. StreamCapacity
<1>1. PICK q \in Goroutines, p \in Scans : q = goroutine[i] /\ p = scan[i]
  BY Zenon, WatchTypes
<1>2. p.left \in 0 .. Batches /\ p.buffer \in 0 .. StreamCapacity
  BY Zenon DEF Scans
<1> QED BY Zenon, <1>1, <1>2, WatchFacts

\* What a step of a list leaves alone.
LEMMA ListKeeps ==
  ASSUME StreamInv, NEW i \in Ids, queue' = queue, open' = open
  PROVE  /\ open' \subseteq Ids /\ queue' \in [Ids -> Seq(Nat)]
         /\ \A j \in Ids : \A n \in DOMAIN queue'[j] : queue'[j][n] \in 1 .. current
  BY Zenon, WatchTypes

\* The list is refused, or its scan starts.
LEMMA ListStartInv ==
  ASSUME StreamInv, NEW i \in Ids, ListStart(i)
  PROVE  StreamInv'
<1>1. /\ UNCHANGED <<nodeVars, up, loop>> /\ open' = open /\ queue' = queue
      /\ goroutine[i].step = "start"
  BY Zenon DEF ListStart
<1>2. /\ open' \subseteq Ids /\ queue' \in [Ids -> Seq(Nat)]
      /\ \A j \in Ids : \A n \in DOMAIN queue'[j] : queue'[j][n] \in 1 .. current
  BY Zenon, <1>1, ListKeeps
<1>3. "ended" \in Steps /\ "ended" \notin Active /\ "list" \in Active /\ "start" \in Active
      /\ "list" # "ended"
  BY DEF Steps, Active
<1>4. CASE Cancel(i, "ended", TRUE) /\ scan' = scan
  <2>1. PICK s \in Scans : scan' = [scan EXCEPT ![i] = s]
    BY Zenon, <1>4, ScanKept
  <2> QED BY Zenon, <1>1, <1>2, <1>3, <1>4, <2>1, CancelKept
<1>5. ASSUME goroutine' = [goroutine EXCEPT ![i].step = "list"], watches' = watches,
             scan' = [scan EXCEPT ![i] = [left |-> Batches, buffer |-> 0, shim |-> TRUE]]
      PROVE  StreamInv'
  <2>1. PICK q, g : q = goroutine[i] /\ g = [q EXCEPT !.step = "list"]
    BY Zenon
  <2>2. q \in Goroutines
    BY Zenon, <2>1, WatchTypes
  <2>3. g \in Goroutines /\ g.step = "list" /\ g.done = q.done /\ g.told = q.told
    BY Zenon, <2>1, <2>2 DEF Goroutines
  <2>4. goroutine' = [goroutine EXCEPT ![i] = g]
    <3>1. goroutine \in [Ids -> Goroutines]
      BY Zenon, WatchTypes
    <3> QED BY Zenon, <1>5, <2>1, <3>1 DEF Goroutines
  <2>5. PICK s : s = [left |-> Batches, buffer |-> 0, shim |-> TRUE]
    BY Zenon
  <2>6. s \in Scans /\ s.left # 0
    <3>1. Batches \in 0 .. Batches /\ 0 \in 0 .. StreamCapacity /\ Batches # 0
      BY EtcdWatchAssumption
    <3> QED BY Zenon, <2>5, <3>1 DEF Scans
  <2>7. scan' = [scan EXCEPT ![i] = s]
    BY Zenon, <1>5, <2>5
  <2>8. watches' \subseteq Ids /\ \A j \in Ids \ {i} : j \in watches' <=> j \in watches
    BY Zenon, <1>5, WatchTypes
  <2>9. /\ i \in watches' => g.step \in Active
        /\ (g.step \in Active /\ i \notin watches') => g.done
    BY Zenon, <1>1, <1>3, <1>5, <2>1, <2>3, WatchFacts
  <2>10. (up /\ loop = "on") => ToldSoFar(g, s)
    <3>1. (up /\ loop = "on") => ToldSoFar(q, scan[i])
      BY Zenon, <2>1, WatchFacts
    <3> QED BY Zenon, <1>3, <2>3, <2>6, <3>1 DEF ToldSoFar
  <2> QED BY Zenon, <1>1, <1>2, <2>3, <2>4, <2>6, <2>7, <2>8, <2>9, <2>10, WatchKept
<1> QED BY Zenon, <1>4, <1>5 DEF ListStart

\* A worker of the scan puts its batch in the channel, which is then not empty.
LEMMA ScanSendInv ==
  ASSUME StreamInv, NEW i \in Ids, ScanSend(i)
  PROVE  StreamInv'
<1>1. /\ UNCHANGED <<nodeVars, up, loop>> /\ open' = open /\ queue' = queue
      /\ watches' = watches /\ goroutine' = goroutine
  BY Zenon DEF ScanSend
<1>2. /\ open' \subseteq Ids /\ queue' \in [Ids -> Seq(Nat)]
      /\ \A j \in Ids : \A n \in DOMAIN queue'[j] : queue'[j][n] \in 1 .. current
  BY Zenon, <1>1, ListKeeps
<1>3. PICK q \in Goroutines, p \in Scans :
        /\ q = goroutine[i] /\ p = scan[i]
        /\ i \in watches => q.step \in Active
        /\ (q.step \in Active /\ i \notin watches) => q.done
        /\ (up /\ loop = "on") => ToldSoFar(q, p)
        /\ p.left \in 0 .. Batches /\ p.buffer \in 0 .. StreamCapacity
  BY Zenon, ListFacts
<1>4. PICK l, b, s : l = p.left - 1 /\ b = p.buffer + 1 /\ s = [p EXCEPT !.left = l, !.buffer = b]
  BY Zenon
<1>5. l \in 0 .. Batches /\ b \in 0 .. StreamCapacity /\ b # 0
  <2>1. p.left > 0 /\ p.buffer < StreamCapacity
    BY Zenon, <1>3 DEF ScanSend
  <2> QED BY <1>3, <1>4, <2>1, EtcdWatchAssumption
<1>6. s \in Scans /\ s.buffer = b
  BY Zenon, <1>4, <1>5 DEF Scans
<1>7. scan' = [scan EXCEPT ![i] = s] /\ goroutine' = [goroutine EXCEPT ![i] = q]
  <2>1. scan \in [Ids -> Scans] /\ goroutine \in [Ids -> Goroutines]
    BY Zenon, WatchTypes
  <2>2. scan' = [scan EXCEPT ![i].left = scan[i].left - 1, ![i].buffer = scan[i].buffer + 1]
    BY DEF ScanSend
  <2>3. scan' = [scan EXCEPT ![i].left = l, ![i].buffer = b]
    BY Zenon, <1>3, <1>4, <2>2
  <2>4. scan' = [scan EXCEPT ![i] = s]
    BY Zenon, <1>3, <1>4, <2>1, <2>3 DEF Scans
  <2> QED BY Zenon, <1>1, <1>3, <2>1, <2>4
<1>8. watches' \subseteq Ids /\ \A j \in Ids \ {i} : j \in watches' <=> j \in watches
  BY Zenon, <1>1, WatchTypes
<1>9. /\ i \in watches' => q.step \in Active
      /\ (q.step \in Active /\ i \notin watches') => q.done
  BY Zenon, <1>1, <1>3
<1>10. (up /\ loop = "on") => ToldSoFar(q, s)
  BY Zenon, <1>3, <1>5, <1>6 DEF ToldSoFar
<1> QED BY Zenon, <1>1, <1>2, <1>6, <1>7, <1>8, <1>9, <1>10, WatchKept

\* A batch is taken from the channel: the rest, and what is left to scan.
LEMMA BatchTaken ==
  ASSUME StreamInv, NEW i \in Ids, ListSend(i)
  PROVE  \E s \in Scans :
           /\ scan' = [scan EXCEPT ![i] = s]
           /\ s.left = 0 /\ s.buffer = 0 => scan[i].left = 0 /\ scan[i].buffer = 1
<1>1. PICK q \in Goroutines, p \in Scans :
        /\ q = goroutine[i] /\ p = scan[i]
        /\ p.left \in 0 .. Batches /\ p.buffer \in 0 .. StreamCapacity
  BY Zenon, ListFacts
<1>2. PICK b, s : b = p.buffer - 1 /\ s = [p EXCEPT !.buffer = b]
  BY Zenon
<1>3. b \in 0 .. StreamCapacity /\ (b = 0 => p.buffer = 1)
  <2>1. p.buffer > 0
    BY Zenon, <1>1 DEF ListSend
  <2> QED BY <1>1, <1>2, <2>1, EtcdWatchAssumption
<1>4. s \in Scans /\ s.buffer = b /\ s.left = p.left
  BY Zenon, <1>2, <1>3 DEF Scans
<1>5. scan' = [scan EXCEPT ![i] = s]
  <2>1. scan \in [Ids -> Scans]
    BY Zenon, WatchTypes
  <2>2. scan' = [scan EXCEPT ![i].buffer = scan[i].buffer - 1]
    BY DEF ListSend
  <2>3. scan' = [scan EXCEPT ![i].buffer = b]
    BY Zenon, <1>1, <1>2, <2>2
  <2> QED BY Zenon, <1>1, <1>2, <2>1, <2>3 DEF Scans
<1> QED BY Zenon, <1>1, <1>3, <1>4, <1>5

\* A batch is sent, the last one with the end marker; or the watch is cancelled.
LEMMA ListSendInv ==
  ASSUME StreamInv, NEW i \in Ids, ListSend(i)
  PROVE  StreamInv'
<1>1. /\ UNCHANGED <<nodeVars, up, loop>> /\ open' = open /\ queue' = queue
      /\ goroutine[i].step = "list"
  BY Zenon DEF ListSend
<1>2. /\ open' \subseteq Ids /\ queue' \in [Ids -> Seq(Nat)]
      /\ \A j \in Ids : \A n \in DOMAIN queue'[j] : queue'[j][n] \in 1 .. current
  BY Zenon, <1>1, ListKeeps
<1>3. PICK s \in Scans :
        /\ scan' = [scan EXCEPT ![i] = s]
        /\ s.left = 0 /\ s.buffer = 0 => scan[i].left = 0 /\ scan[i].buffer = 1
  BY Zenon, BatchTaken
<1>4. CASE up
  <2>1. PICK q \in Goroutines, p \in Scans :
          /\ q = goroutine[i] /\ p = scan[i]
          /\ i \in watches => q.step \in Active
          /\ (q.step \in Active /\ i \notin watches) => q.done
          /\ (up /\ loop = "on") => ToldSoFar(q, p)
    BY Zenon, ListFacts
  <2>2. PICK t, g : /\ t = IF scan[i].left = 0 /\ scan[i].buffer = 1 THEN "eof" ELSE q.told
                    /\ g = [q EXCEPT !.told = t]
    BY Zenon
  <2>3. /\ t \in {"no", "plain", "compact", "eof"} /\ q.told # "no" => t # "no"
        /\ scan[i].left = 0 /\ scan[i].buffer = 1 => t # "no"
    <3>1. q.told \in {"no", "plain", "compact", "eof"}
      BY Zenon DEF Goroutines
    <3>2. "eof" # "no"
      OBVIOUS
    <3>3. CASE scan[i].left = 0 /\ scan[i].buffer = 1
      BY Zenon, <2>2, <3>2, <3>3
    <3>4. CASE ~(scan[i].left = 0 /\ scan[i].buffer = 1)
      BY Zenon, <2>2, <3>1, <3>4
    <3> QED BY Zenon, <3>3, <3>4
  <2>4. g \in Goroutines /\ g.step = q.step /\ g.done = q.done /\ g.told = t
    BY Zenon, <2>2, <2>3 DEF Goroutines
  <2>5. goroutine' = [goroutine EXCEPT ![i] = g] /\ watches' = watches
    <3>1. goroutine \in [Ids -> Goroutines]
      BY Zenon, WatchTypes
    <3>2. /\ goroutine' = [goroutine EXCEPT ![i].told =
               IF scan[i].left = 0 /\ scan[i].buffer = 1 THEN "eof" ELSE goroutine[i].told]
          /\ watches' = watches
      BY <1>4 DEF ListSend
    <3>3. goroutine' = [goroutine EXCEPT ![i].told = t]
      BY Zenon, <2>1, <2>2, <3>2
    <3> QED BY Zenon, <2>1, <2>2, <3>1, <3>2, <3>3 DEF Goroutines
  <2>6. watches' \subseteq Ids /\ \A j \in Ids \ {i} : j \in watches' <=> j \in watches
    BY Zenon, <2>5, WatchTypes
  <2>7. /\ i \in watches' => g.step \in Active
        /\ (g.step \in Active /\ i \notin watches') => g.done
    BY Zenon, <2>1, <2>4, <2>5
  <2>8. (up /\ loop = "on") => ToldSoFar(g, s)
    BY Zenon, <1>3, <2>1, <2>3, <2>4 DEF ToldSoFar
  <2> QED BY Zenon, <1>1, <1>2, <1>3, <2>4, <2>5, <2>6, <2>7, <2>8, WatchKept
<1>5. CASE ~up
  <2>1. Cancel(i, "list", TRUE)
    BY Zenon, <1>5 DEF ListSend
  <2>2. "list" \in Steps /\ "list" \in Active
    BY DEF Steps, Active
  <2> QED BY Zenon, <1>1, <1>2, <1>3, <2>1, <2>2, CancelKept
<1> QED BY Zenon, <1>4, <1>5

\* The list ends: it was cancelled, or its end marker was sent.
LEMMA ListEndInv ==
  ASSUME StreamInv, NEW i \in Ids, ListEnd(i)
  PROVE  StreamInv'
<1>1. /\ UNCHANGED <<nodeVars, up, loop>> /\ open' = open /\ queue' = queue
      /\ goroutine[i].step = "list" /\ watches' = watches \ {i}
      /\ goroutine[i].done \/ (scan[i].left = 0 /\ scan[i].buffer = 0)
  BY Zenon DEF ListEnd, ShimDone
<1>2. /\ open' \subseteq Ids /\ queue' \in [Ids -> Seq(Nat)]
      /\ \A j \in Ids : \A n \in DOMAIN queue'[j] : queue'[j][n] \in 1 .. current
  BY Zenon, <1>1, ListKeeps
<1>3. PICK q \in Goroutines, p \in Scans :
        /\ q = goroutine[i] /\ p = scan[i]
        /\ (up /\ loop = "on") => ToldSoFar(q, p)
  BY Zenon, ListFacts
<1>4. PICK g, s : g = [q EXCEPT !.step = "ended", !.done = TRUE] /\ s = [p EXCEPT !.shim = FALSE]
  BY Zenon
<1>5. /\ g \in Goroutines /\ g.step = "ended" /\ g.done = TRUE /\ g.told = q.told
      /\ s \in Scans
  BY Zenon, <1>4 DEF Goroutines, Scans
<1>6. goroutine' = [goroutine EXCEPT ![i] = g] /\ scan' = [scan EXCEPT ![i] = s]
  <2>1. goroutine \in [Ids -> Goroutines] /\ scan \in [Ids -> Scans]
    BY Zenon, WatchTypes
  <2>2. /\ goroutine' = [goroutine EXCEPT ![i].step = "ended", ![i].done = TRUE]
        /\ scan' = [scan EXCEPT ![i].shim = FALSE]
    BY Zenon DEF ListEnd
  <2>3. goroutine' = [goroutine EXCEPT ![i] = g]
    BY Zenon, <1>3, <1>4, <2>1, <2>2 DEF Goroutines
  <2>4. scan' = [scan EXCEPT ![i] = s]
    BY Zenon, <1>3, <1>4, <2>1, <2>2 DEF Scans
  <2> QED BY Zenon, <2>3, <2>4
<1>7. watches' \subseteq Ids /\ i \notin watches'
      /\ \A j \in Ids \ {i} : j \in watches' <=> j \in watches
  BY Zenon, <1>1, WatchTypes
<1>8. (up /\ loop = "on") => ToldSoFar(g, s)
  BY Zenon, <1>1, <1>3, <1>5 DEF ToldSoFar
<1>9. (g.step \in Active /\ i \notin watches') => g.done
  BY Zenon, <1>5
<1> QED BY Zenon, <1>1, <1>2, <1>5, <1>6, <1>7, <1>8, <1>9, WatchKept

\* The stream starts without a watch.
LEMMA StreamInitInv ==
  ASSUME StreamInit
  PROVE  StreamInv
<1>1. Fresh \in Goroutines /\ Fresh.step = "new" /\ Fresh.done = FALSE
  BY DEF Fresh, Goroutines, Kinds
<1>2. NoScan \in Scans
  BY EtcdWatchAssumption DEF NoScan, Scans
<1>3. goroutine \in [Ids -> Goroutines] /\ scan \in [Ids -> Scans]
  BY Zenon, <1>1, <1>2 DEF StreamInit
<1>4. current \in 1 .. MaxRevision /\ loop \in {"on", "closing", "waiting", "closed"}
  BY EtcdWatchAssumption DEF StreamInit
<1>5. <<>> \in Seq(Nat) /\ DOMAIN <<>> = {}
  OBVIOUS
<1>6. queue \in [Ids -> Seq(Nat)] /\ \A i \in Ids : DOMAIN queue[i] = {}
  BY Zenon, <1>5 DEF StreamInit
<1>7. StreamTypeOK
  <2>1. {leading, proxied, up} \subseteq BOOLEAN /\ watches \subseteq Ids /\ open \subseteq Ids
    BY Zenon DEF StreamInit
  <2> QED BY Zenon, <1>3, <1>4, <1>6, <2>1 DEF StreamTypeOK
<1>8. \A i \in Ids : goroutine[i].step = "new" /\ goroutine[i].done = FALSE
  BY Zenon, <1>1 DEF StreamInit
<1>9. "new" \notin Active /\ "new" # "ended" /\ "new" # "list"
  BY DEF Active
<1>10. MapMatchesGoroutines
  BY Zenon, <1>8, <1>9 DEF StreamInit, MapMatchesGoroutines, Running, Active
<1>11. Told
  BY Zenon, <1>8, <1>9 DEF Told, ToldSoFar
<1> QED BY Zenon, <1>6, <1>7, <1>10, <1>11 DEF StreamInv

\* Every step of the stream keeps the invariant.
LEMMA StreamNextInv ==
  ASSUME StreamInv, [StreamNext]_streamVars
  PROVE  StreamInv'
<1>1. CASE Commit \/ BeginLeading \/ Break
  BY Zenon, <1>1, CommitInv, BeginLeadingInv, BreakInv
<1>2. CASE ProgressRequest \/ RecvError \/ Close \/ CloseReturn
  BY Zenon, <1>2, LoopInv
<1>3. ASSUME NEW i \in Ids, NEW kind \in Kinds, Create(i, kind)
      PROVE  StreamInv'
  BY Zenon, <1>3, CreateInv
<1>4. ASSUME NEW i \in Ids, CancelRequest(i)
      PROVE  StreamInv'
  BY Zenon, <1>4, CancelRequestInv
<1>5. ASSUME NEW i \in Ids, WatchStep(i) \/ HubDrop(i)
      PROVE  StreamInv'
  BY Zenon, <1>5, WatchStartInv, WatchSendInv, ChannelInv, WatchReturnInv DEF WatchStep
<1>6. ASSUME NEW i \in Ids, ListStep(i) \/ ListEnd(i) \/ ScanSend(i)
      PROVE  StreamInv'
  BY Zenon, <1>6, ListStartInv, ListSendInv, ListEndInv, ScanSendInv DEF ListStep
<1>7. CASE UNCHANGED streamVars
  <2>1. /\ leading' = leading /\ proxied' = proxied /\ current' = current /\ up' = up
        /\ loop' = loop /\ watches' = watches /\ goroutine' = goroutine /\ queue' = queue
        /\ open' = open /\ scan' = scan
    BY Zenon, <1>7 DEF streamVars, nodeVars, backVars
  <2>2. StreamTypeOK'
    BY Zenon, <2>1 DEF StreamInv, StreamTypeOK
  <2>3. MapMatchesGoroutines'
    BY Zenon, <2>1 DEF StreamInv, MapMatchesGoroutines, Running
  <2>4. Told'
    BY <2>1 DEF StreamInv, Told
  <2> QED BY Zenon, <2>1, <2>2, <2>3, <2>4 DEF StreamInv
<1> QED BY Zenon, <1>1, <1>2, <1>3, <1>4, <1>5, <1>6, <1>7 DEF StreamNext

\* The invariant holds throughout.
THEOREM StreamInvariant == StreamSpec => []StreamInv
<1>1. StreamInit => StreamInv
  BY StreamInitInv
<1>2. StreamInv /\ [StreamNext]_streamVars => StreamInv'
  BY StreamNextInv
<1> QED BY <1>1, <1>2, PTL DEF StreamSpec

\* The variables keep their types: the events that wait in a channel are revisions
\* the backend has committed, and the channel of a list never exceeds its capacity.
THEOREM StreamTypeCorrect == StreamSpec => []StreamTypeOK
<1>1. StreamInv => StreamTypeOK
  BY Zenon DEF StreamInv
<1> QED BY <1>1, StreamInvariant, PTL

\* The map of the stream agrees with its goroutines: every entry has a goroutine that
\* runs, and a goroutine that runs without an entry is cancelled.
THEOREM MapIsRight == StreamSpec => []MapMatchesGoroutines
<1>1. StreamInv => MapMatchesGoroutines
  BY Zenon DEF StreamInv
<1> QED BY <1>1, StreamInvariant, PTL

\* No watch and no list ends in silence while the stream goes on: the client was told
\* by a cancel response or the end marker.
THEOREM EndsAreTold == StreamSpec => []EndedIsTold
<1>1. StreamInv => EndedIsTold
  BY Zenon DEF StreamInv, Told, ToldSoFar, EndedIsTold
<1> QED BY <1>1, StreamInvariant, PTL
==============================================================================
