------------------------------ MODULE MCScanner ------------------------------
(***************************************************************************)
(* The scanner for TLC: compaction against range reads (Scanner), and how  *)
(* a range is read in parts (RangeScan).  The first takes from the second  *)
(* that a scan of a snapshot returns what is visible in it.  They share no *)
(* variable, and a behaviour moves only the one in focus: each is checked  *)
(* by itself.                                                              *)
(***************************************************************************)
EXTENDS Scanner

CONSTANTS
  UserKeys, Split, Bounds, Borders, Limits, StreamBatch, MaxBorders

VARIABLES focus, versions, borders, scan

scanVars == <<versions, borders, scan>>

R == INSTANCE RangeScan WITH written <- versions

ASSUME PartsAssumption == R!RangeScanAssumption

\* A skipped prefix above all keys leaves two ranges, the second one empty.
TwoRanges == <<Keys, {}>>

\* No skipped prefix: everything is one range.
OneRange == <<Keys>>

\* One key is the beginning of the other.  The range of both; regions that end
\* between versions of the first, and between the keys.
MCUserKeys == {<<2>>, <<2, 3>>}
MCBounds == {<<2>>, <<4>>}
MCBorders == {<<2, Split, 2>>, <<2, Split, 3>>, <<2, 3>>}

OnCompaction == focus = "compaction"
OnParts == focus = "parts"

MCInit ==
  /\ focus \in {"compaction", "parts"}
  /\ Init
  /\ R!Init

MCNext ==
  /\ UNCHANGED focus
  /\ \/ OnCompaction /\ Next /\ UNCHANGED scanVars
     \/ OnParts /\ R!Next /\ UNCHANGED vars

MCSpec == MCInit /\ [][MCNext]_<<focus, vars, scanVars>>

-----------------------------------------------------------------------------
(* The properties of RangeScan; those of Scanner have their own names.     *)

\* The variables have their types (Scanner and RangeScan), and the partitions of
\* a scan make up its range.
ScannerTypesOK == IF OnCompaction THEN TypeOK ELSE R!TypeOK

\* A List or Count has each live key of the range once and in order, and with a
\* limit the first of them, wherever the regions of the store end
\* (adjustPartitionsBorders, rangeWithLimit).
ListExact == OnParts => R!ListExact

\* A stream misses nothing of its part of the range, and brings nothing else
\* unless its ends cut through the versions of a key (streamResultReceiver).
StreamCovers == OnParts => R!StreamCovers
==============================================================================
