------------------------------ MODULE MCEvents -------------------------------
(***************************************************************************)
(* The way of an event, for TLC: from the write to the collector           *)
(* (Sequencer), from the collector to the watchers (Watch), and the send   *)
(* of the cached events to a new watcher (CatchUp).  What the first        *)
(* promises, committed revisions one after the other, is how the second    *)
(* begins (CommitInvalid, CommitValid).  They share no variable, and a     *)
(* behaviour moves only the one in focus: each is checked by itself, over  *)
(* every interleaving of its own steps.                                    *)
(***************************************************************************)
EXTENDS Sequencer, Watch, CatchUp

VARIABLE focus

allVars == <<focus, vars, watchVars, catchUpVars>>

OnSequencer == focus = "sequencer"
OnWatch == focus = "watch"
OnCatchUp == focus = "catchup"

MCInit ==
  /\ focus \in {"sequencer", "watch", "catchup"}
  /\ Init
  /\ WatchInit
  /\ CatchUpInit

MCNext ==
  /\ UNCHANGED focus
  /\ \/ OnSequencer /\ Next /\ UNCHANGED <<watchVars, catchUpVars>>
     \/ OnWatch /\ WatchNext /\ UNCHANGED <<vars, catchUpVars>>
     \/ OnCatchUp /\ CatchUpNext /\ UNCHANGED <<vars, watchVars>>

\* The fairness of Sequencer and of Watch, see there.
MCSpec ==
  /\ MCInit
  /\ [][MCNext]_allVars
  /\ WF_vars(OnSequencer /\ Collect)
  /\ \A r \in 1 .. MaxRevision :
       /\ WF_vars(OnSequencer /\ \E res \in Results : NotifyCheck(r, res))
       /\ WF_vars(OnSequencer /\ \E e \in checked : e.revision = r /\ NotifyStore(e))
  /\ WF_watchVars(OnWatch /\ CollectBatch)
  /\ WF_watchVars(OnWatch /\ Stream)
  /\ \A w \in Watchers :
       /\ WF_watchVars(OnWatch /\ ProcessEvents(w))
       /\ WF_watchVars(OnWatch /\ DeleteWatcher(w))
       /\ WF_watchVars(OnWatch /\ CloseResult(w))
       /\ WF_watchVars(OnWatch /\ (FindCached(w) \/ CheckRevision(w)))
==============================================================================
