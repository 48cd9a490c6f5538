------------------------------ MODULE EtcdWatch ------------------------------
(***************************************************************************)
(* One watch stream of the etcd service (etcd/watch.go) with the channels  *)
(* of the backend behind it (backendshim.go, the stream of scanner.go).    *)
(* The client creates watches and range streams, cancels them and asks for *)
(* progress; each has a goroutine, and all send on the one stream, which   *)
(* may break.                                                              *)
(*                                                                         *)
(* The events of a watch are the revisions that wait in its channel        *)
(* (watcher hub, result channel and shim); a range stream is the number of *)
(* its batches that are still to be read and that wait in its channel, the *)
(* end marker being the last one.  The names leave room for those of the   *)
(* module this one is checked with.                                        *)
(***************************************************************************)
EXTENDS Integers, Sequences, FiniteSets

CONSTANTS
  Ids,                   \* the watch ids of the stream
  Batches,               \* batches of a range stream, its end marker included
  StreamCapacity,        \* the buffer of the channel in RangeStream
  MaxRevision            \* bound: the last revision committed

ASSUME EtcdWatchAssumption ==
  /\ Batches \in Nat \ {0}
  /\ StreamCapacity \in Nat \ {0}
  /\ MaxRevision \in Nat \ {0}

VARIABLES
  leading,               \* IsLeader
  proxied,               \* EtcdProxyEnabled
  current,               \* GetCurrentRevision
  up,                    \* the stream can send
  loop,                  \* the receive loop: "on", "closing", "waiting", "closed"
  watches,               \* the watches of the map
  goroutine,             \* of each id [step, kind, done, told]
  queue,                 \* of each watch, the events in its channel
  open,                  \* the watches whose channel is not closed
  scan                   \* of each range stream [left, buffer, shim]

nodeVars == <<leading, proxied, current>>
backVars == <<queue, open, scan>>
streamVars == <<nodeVars, up, loop, watches, goroutine, backVars>>

\* done: the context of the watch is cancelled; told: what the client knows of
\* its end: "no", "plain", "compact" or, for a range stream, "eof".
Fresh == [step |-> "new", kind |-> "watch", done |-> FALSE, told |-> "no"]
NoScan == [left |-> 0, buffer |-> 0, shim |-> FALSE]

Running(i) == goroutine[i].step \in {"start", "on", "drain", "list"}

-----------------------------------------------------------------------------
(* Cancel.                                                                 *)

\* Mutant of Cancelled: nothing is sent.
Cancelled_Silent(i, step, compact) ==
  [goroutine EXCEPT ![i].step = step, ![i].done = @ \/ i \in watches]

\* The watch after Cancel: its context is cancelled when the map has it, and a
\* response is sent in any case.
Cancelled(i, step, compact) ==
  [goroutine EXCEPT
     ![i].step = step, ![i].done = @ \/ i \in watches,
     ![i].told = IF up THEN (IF compact THEN "compact" ELSE "plain") ELSE @]

Cancel(i, step, compact) ==
  /\ goroutine' = Cancelled(i, step, compact)
  /\ watches' = watches \ {i}

-----------------------------------------------------------------------------
(* The node and the stream.                                                *)

Commit ==
  /\ current < MaxRevision
  /\ current' = current + 1
  /\ queue' = [i \in Ids |-> IF i \in open THEN Append(queue[i], current + 1) ELSE queue[i]]
  /\ UNCHANGED <<leading, proxied, up, loop, watches, goroutine, open, scan>>

BeginLeading ==
  /\ ~leading
  /\ leading' = TRUE
  /\ UNCHANGED <<proxied, current, up, loop, watches, goroutine, backVars>>

\* The connection is gone: nothing can be sent, and the context of the stream
\* is done.
Break ==
  /\ up
  /\ up' = FALSE
  /\ goroutine' = [i \in Ids |-> [goroutine[i] EXCEPT !.done = TRUE]]
  /\ UNCHANGED <<nodeVars, loop, watches, backVars>>

-----------------------------------------------------------------------------
(* The receive loop.                                                       *)

\* A watch on a node that neither leads nor forwards ends the stream; else
\* Start enters the watch in the map, sends the response and starts it.
Create(i, kind) ==
  /\ loop = "on"
  /\ goroutine[i].step = "new"
  /\ IF kind = "watch" /\ ~leading /\ ~proxied
     THEN /\ loop' = "closing"
          /\ UNCHANGED <<watches, goroutine>>
     ELSE /\ goroutine' = [goroutine EXCEPT
               ![i].step = IF up THEN "start" ELSE "ended",
               ![i].kind = kind, ![i].done = @ \/ ~up]
          /\ watches' = IF up THEN watches \cup {i} ELSE watches
          /\ UNCHANGED loop
  /\ UNCHANGED <<nodeVars, up, backVars>>

CancelRequest(i) ==
  /\ loop = "on"
  /\ goroutine[i].step # "new"
  /\ Cancel(i, goroutine[i].step, FALSE)
  /\ UNCHANGED <<nodeVars, up, loop, backVars>>

\* A progress notification that is sent changes nothing; one that cannot be
\* sent ends the loop.
ProgressRequest ==
  /\ loop = "on"
  /\ ~up
  /\ loop' = "closing"
  /\ UNCHANGED <<nodeVars, up, watches, goroutine, backVars>>

\* Recv returns an error: the connection is gone, or the client has closed its
\* side and still listens.
RecvError ==
  /\ loop = "on"
  /\ loop' = "closing"
  /\ UNCHANGED <<nodeVars, up, watches, goroutine, backVars>>

\* Mutant of CloseAll: the watches are waited for, not cancelled.
CloseAll_WaitOnly == goroutine

\* Close cancels what the map has.
CloseAll == [i \in Ids |-> [goroutine[i] EXCEPT !.done = @ \/ i \in watches]]

\* The deferred Close, once the loop has returned.
Close ==
  /\ loop = "closing"
  /\ loop' = "waiting"
  /\ goroutine' = CloseAll
  /\ UNCHANGED <<nodeVars, up, watches, backVars>>

CloseReturn ==
  /\ loop = "waiting"
  /\ \A i \in Ids : ~Running(i)
  /\ loop' = "closed"
  /\ UNCHANGED <<nodeVars, up, watches, goroutine, backVars>>

-----------------------------------------------------------------------------
(* The goroutine of a watch.                                               *)

\* A request that is no watch at all; or backend.Watch (the proxy's, on a
\* follower) refuses the revision; or it returns the channel with the events
\* from that revision on.
WatchStart(i) ==
  /\ goroutine[i].step = "start"
  /\ goroutine[i].kind # "range"
  /\ \/ /\ Cancel(i, "ended", TRUE)
        /\ UNCHANGED <<queue, open>>
     \/ /\ goroutine[i].kind = "watch"
        /\ goroutine' = [goroutine EXCEPT ![i].step = "on"]
        /\ open' = open \cup {i}
        /\ \E rev \in 1 .. current + 1 :
             queue' = [queue EXCEPT ![i] = [n \in 1 .. current + 1 - rev |-> rev + n - 1]]
        /\ UNCHANGED watches
  /\ UNCHANGED <<nodeVars, up, loop, scan>>

\* The events that wait are sent as one batch; when that fails the watch is
\* cancelled and what still comes is dropped.
WatchSend(i) ==
  /\ goroutine[i].step = "on"
  /\ queue[i] # <<>>
  /\ queue' = [queue EXCEPT ![i] = <<>>]
  /\ IF up THEN UNCHANGED <<goroutine, watches>>
     ELSE Cancel(i, "drain", FALSE)
  /\ UNCHANGED <<nodeVars, up, loop, open, scan>>

\* The hub drops the watcher: its channel is read to the end.
HubDrop(i) ==
  /\ i \in open
  /\ open' = open \ {i}
  /\ UNCHANGED <<nodeVars, up, loop, watches, goroutine, queue, scan>>

\* The context is done: hub and shim close their channels, what waits in them
\* is gone.
ChannelDone(i) ==
  /\ goroutine[i].step \in {"on", "drain"}
  /\ goroutine[i].done \/ goroutine[i].step = "drain"
  /\ open' = open \ {i}
  /\ queue' = [queue EXCEPT ![i] = <<>>]
  /\ i \in open \/ queue[i] # <<>>
  /\ UNCHANGED <<nodeVars, up, loop, watches, goroutine, scan>>

WatchDrain(i) ==
  /\ goroutine[i].step = "drain"
  /\ queue[i] # <<>>
  /\ queue' = [queue EXCEPT ![i] = <<>>]
  /\ UNCHANGED <<nodeVars, up, loop, watches, goroutine, open, scan>>

\* Mutant of WatchReturn: the entry of the map stays.
WatchReturn_KeepEntry(i) ==
  /\ goroutine[i].step \in {"on", "drain"}
  /\ i \notin open
  /\ queue[i] = <<>>
  /\ goroutine' = Cancelled(i, "ended", FALSE)
  /\ UNCHANGED <<nodeVars, up, loop, watches, backVars>>

\* The channel is closed and empty.
WatchReturn(i) ==
  /\ goroutine[i].step \in {"on", "drain"}
  /\ i \notin open
  /\ queue[i] = <<>>
  /\ Cancel(i, "ended", FALSE)
  /\ UNCHANGED <<nodeVars, up, loop, backVars>>

-----------------------------------------------------------------------------
(* The goroutine of a range stream, and the scan behind it.                *)

\* SyncReadRevision or ListByStream fail, or the scan starts.
ListStart(i) ==
  /\ goroutine[i].step = "start"
  /\ goroutine[i].kind = "range"
  /\ \/ /\ Cancel(i, "ended", TRUE)
        /\ UNCHANGED scan
     \/ /\ goroutine' = [goroutine EXCEPT ![i].step = "list"]
        /\ scan' = [scan EXCEPT ![i] = [left |-> Batches, buffer |-> 0, shim |-> TRUE]]
        /\ UNCHANGED watches
  /\ UNCHANGED <<nodeVars, up, loop, queue, open>>

\* A worker puts its batch in the channel; it waits while that is full.
ScanSend(i) ==
  /\ scan[i].left > 0
  /\ scan[i].buffer < StreamCapacity
  /\ scan' = [scan EXCEPT ![i].left = @ - 1, ![i].buffer = @ + 1]
  /\ UNCHANGED <<nodeVars, up, loop, watches, goroutine, queue, open>>

\* The shim hands a batch over and it is sent; the last one is the end marker.
\* A failure cancels the watch, and the loop goes on.
ListSend(i) ==
  /\ goroutine[i].step = "list"
  /\ scan[i].shim
  /\ scan[i].buffer > 0
  /\ scan' = [scan EXCEPT ![i].buffer = @ - 1]
  /\ IF up
     THEN /\ goroutine' = [goroutine EXCEPT ![i].told =
               IF scan[i].left = 0 /\ scan[i].buffer = 1 THEN "eof" ELSE @]
          /\ UNCHANGED watches
     ELSE Cancel(i, "list", TRUE)
  /\ UNCHANGED <<nodeVars, up, loop, queue, open>>

\* What ends the shim: its context, or the end of the scan.
ShimDone(i) == goroutine[i].done \/ (scan[i].left = 0 /\ scan[i].buffer = 0)

\* The shim closes its channel and List returns without a message.
ListEnd(i) ==
  /\ goroutine[i].step = "list"
  /\ scan[i].shim
  /\ ShimDone(i)
  /\ scan' = [scan EXCEPT ![i].shim = FALSE]
  /\ goroutine' = [goroutine EXCEPT ![i].step = "ended", ![i].done = TRUE]
  /\ watches' = watches \ {i}
  /\ UNCHANGED <<nodeVars, up, loop, queue, open>>

-----------------------------------------------------------------------------
StreamInit ==
  /\ leading \in BOOLEAN
  /\ proxied \in BOOLEAN
  /\ current = 1
  /\ up = TRUE
  /\ loop = "on"
  /\ watches = {}
  /\ goroutine = [i \in Ids |-> Fresh]
  /\ queue = [i \in Ids |-> <<>>]
  /\ open = {}
  /\ scan = [i \in Ids |-> NoScan]

\* "bad": a range stream the etcd client resumes as a watch after an error.
Kinds == {"watch", "range", "bad"}

WatchStep(i) ==
  WatchStart(i) \/ WatchSend(i) \/ ChannelDone(i) \/ WatchDrain(i) \/ WatchReturn(i)
ListStep(i) == ListStart(i) \/ ListSend(i)

StreamNext ==
  \/ Commit
  \/ BeginLeading
  \/ Break
  \/ \E i \in Ids, kind \in Kinds : Create(i, kind)
  \/ \E i \in Ids : CancelRequest(i)
  \/ ProgressRequest
  \/ RecvError
  \/ Close
  \/ CloseReturn
  \/ \E i \in Ids : WatchStep(i) \/ HubDrop(i) \/ ListStep(i) \/ ListEnd(i) \/ ScanSend(i)

\* Goroutines run; a select takes the context that is done when it comes to it
\* again and again.
StreamFairness ==
  /\ WF_streamVars(~up /\ RecvError) /\ WF_streamVars(Close) /\ WF_streamVars(CloseReturn)
  /\ \A i \in Ids : /\ WF_streamVars(WatchStep(i)) /\ WF_streamVars(ListStep(i))
                    /\ WF_streamVars(ListEnd(i)) /\ WF_streamVars(ScanSend(i))

StreamSpec == StreamInit /\ [][StreamNext]_streamVars /\ StreamFairness

-----------------------------------------------------------------------------
(* Properties.                                                             *)

Goroutines == [step : {"new", "start", "on", "drain", "list", "ended"}, kind : Kinds,
               done : BOOLEAN, told : {"no", "plain", "compact", "eof"}]
Scans == [left : 0 .. Batches, buffer : 0 .. StreamCapacity, shim : BOOLEAN]

\* The variables have their types.
StreamTypeOK ==
  /\ {leading, proxied, up} \subseteq BOOLEAN
  /\ current \in 1 .. MaxRevision
  /\ loop \in {"on", "closing", "waiting", "closed"}
  /\ watches \subseteq Ids /\ open \subseteq Ids
  /\ goroutine \in [Ids -> Goroutines]
  /\ \A i \in Ids : \A n \in DOMAIN queue[i] : queue[i][n] \in 1 .. current
  /\ scan \in [Ids -> Scans]

\* The map has no watch whose goroutine has returned, and a watch that is not
\* in it any more is cancelled (Cancel, List): no entry is left behind, none
\* runs unnoticed.
MapMatchesGoroutines ==
  \A i \in Ids : /\ i \in watches => Running(i)
                 /\ Running(i) /\ i \notin watches => goroutine[i].done

\* A watch or range stream that has ended was told to the client, by a cancel
\* response or the end marker, while the stream goes on (Cancel, List): a client
\* never waits for events that cannot come.
EndedIsTold ==
  up /\ loop = "on" => \A i \in Ids : goroutine[i].step = "ended" => goroutine[i].told # "no"

\* Close returns: no goroutine of the stream outlives it, whatever waits in
\* the channels.
StreamCloses == ~up \/ loop = "closing" ~> loop = "closed"
==============================================================================
