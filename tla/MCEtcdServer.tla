---------------------------- MODULE MCEtcdServer -----------------------------
(***************************************************************************)
(* What a node does with the streams of its clients, for TLC: forward them *)
(* to the leader (EtcdProxy) or serve them (EtcdWatch).  The two share no  *)
(* variable, and a behaviour moves only the one in focus: each is checked  *)
(* by itself.                                                              *)
(*                                                                         *)
(* Of the two peers of the proxy one answers without TLS only, so that the *)
(* second configuration is needed.                                         *)
(***************************************************************************)
EXTENDS EtcdProxy, EtcdWatch

CONSTANTS A, B

VARIABLE focus

MCPeers == {A, B}
MCConfigs == <<"tls", "plain">>
MCMode == [p \in MCPeers \cup {Self} |-> IF p # B THEN "tls" ELSE "plain"]

OnProxy == focus = "proxy"
OnStream == focus = "stream"

MCInit ==
  /\ focus \in {"proxy", "stream"}
  /\ Init
  /\ StreamInit
  /\ OnProxy => leading /\ proxied
  /\ OnStream => observed = None

MCNext ==
  /\ UNCHANGED focus
  /\ \/ OnProxy /\ Next /\ UNCHANGED streamVars
     \/ OnStream /\ StreamNext /\ UNCHANGED vars

\* The fairness of the one in focus (Fairness and StreamFairness).
MCSpec ==
  /\ MCInit
  /\ [][MCNext]_<<focus, vars, streamVars>>
  /\ WF_vars(OnProxy /\ Update) /\ WF_vars(OnProxy /\ Restart)
  /\ \A t \in Txns : SF_vars(OnProxy /\ TxnForward(t)) /\ WF_vars(OnProxy /\ TxnReturn(t))
  /\ \A w \in Watches : WF_vars(OnProxy /\ WatchOpen(w)) /\ WF_vars(OnProxy /\ WatchEnd(w))
  /\ WF_streamVars(OnStream /\ ~up /\ RecvError)
  /\ WF_streamVars(OnStream /\ Close) /\ WF_streamVars(OnStream /\ CloseReturn)
  /\ \A i \in Ids :
       /\ WF_streamVars(OnStream /\ WatchStep(i)) /\ WF_streamVars(OnStream /\ ListStep(i))
       /\ WF_streamVars(OnStream /\ ListEnd(i)) /\ WF_streamVars(OnStream /\ ScanSend(i))

-----------------------------------------------------------------------------
(* The properties that need the focus.                                     *)

\* Once the leader stays, the proxy has a client to it (EtcdProxy, updateClient).
ProxyReconnects == OnProxy => Reconnects

\* Once the leader stays, no watch hangs on another one (EtcdProxy, Watch).
ProxyWatchesFollow == OnProxy => WatchesFollow
==============================================================================
