---------------------------- MODULE SwamMarkers ----------------------------
(***************************************************************************)
(* The marker channel (swam_markers.c) through which the harness reports   *)
(* the two marker globals of an executed module: a shared memory segment   *)
(* of three words (before, after, valid flag) and a file that is read only *)
(* when the flag is not set.  The harness is not part of the repository;   *)
(* HarnessReport is what swam_markers_read relies on.                      *)
(*                                                                         *)
(* A marker record also carries who wrote it ("from"), a history component *)
(* no operator of the code depends on: the module whose verdict is pending *)
(* ("pending"), any other module ("other"), or somebody before the pending *)
(* module was handed to AFL ("stale").                                     *)
(***************************************************************************)
EXTENDS Integers

CONSTANTS
  MarkerValue,    \* values a marker global can hold; 0 is the initial value
  NoMarkers,      \* no file; flag word 0
  NoShm,          \* s_shm == NULL
  Torn,           \* a marker file fscanf cannot read two numbers from
  SharedFile      \* TRUE when other instances use the same marker file path

Writer  == {"pending", "other", "stale"}
Markers == [before : MarkerValue, after : MarkerValue, from : Writer]

ASSUME MarkersAssumption ==
  /\ MarkerValue \subseteq Nat
  /\ 0 \in MarkerValue
  /\ SharedFile \in BOOLEAN
  /\ NoMarkers \notin Markers \cup {NoShm, Torn}
  /\ NoShm \notin Markers \cup {Torn}
  /\ Torn \notin Markers

VARIABLES
  s_shm,          \* NoShm, NoMarkers (attached, flag 0) or the three words
  markerFile      \* NoMarkers, Torn or two numbers

markerVars == <<s_shm, markerFile>>

MarkersTypeOK ==
  /\ s_shm \in Markers \cup {NoShm, NoMarkers}
  /\ markerFile \in Markers \cup {NoMarkers, Torn}

\* A file an earlier session, or another instance, left behind.
LeftOver == [before : MarkerValue, after : MarkerValue, from : {"stale"}]

-----------------------------------------------------------------------------
\* swam_markers_init: any of shmget, shmat and setenv may fail and leaves no
\* segment.  The file is not touched: it may be left over.
swam_markers_init ==
  /\ s_shm \in {NoShm, NoMarkers}
  /\ markerFile \in LeftOver \cup {NoMarkers, Torn}

\* What swam_markers_read returns; NoMarkers when valid is false.
swam_markers_read ==
  IF s_shm \notin {NoShm, NoMarkers} THEN s_shm
  ELSE IF markerFile = Torn THEN NoMarkers
  ELSE markerFile

\* swam_markers_reset, followed by the history update of what survives it.
Aged(cell) == IF cell \in Markers THEN [cell EXCEPT !.from = "stale"] ELSE cell

ResetShm  == IF s_shm = NoShm THEN NoShm ELSE NoMarkers

\* Mutant: the marker file is not unlinked.
ResetFileKept == markerFile

ResetFile == NoMarkers

swam_markers_reset ==
  /\ s_shm' = Aged(ResetShm)
  /\ markerFile' = Aged(ResetFile)

swam_markers_cleanup ==
  /\ s_shm' = NoShm
  /\ markerFile' = NoMarkers

-----------------------------------------------------------------------------
\* The harness after one execution.  It reports through the segment when it
\* can attach it, else through the file (where it may be cut off), or dies
\* without a report.
HarnessReport(m) ==
  \/ s_shm # NoShm /\ s_shm' = m /\ UNCHANGED markerFile
  \/ markerFile' \in {m, Torn} /\ UNCHANGED s_shm
  \/ UNCHANGED markerVars

\* Another afl-fuzz instance with the same marker file: its harness reports
\* into it, or its mutator unlinks it.
PeerFile ==
  /\ SharedFile
  /\ markerFile' \in {[before |-> b, after |-> a, from |-> "other"] :
                        b, a \in MarkerValue} \cup {NoMarkers}
  /\ markerFile' # markerFile
  /\ UNCHANGED s_shm
=============================================================================
