------------------------------ MODULE AflQueue ------------------------------
(***************************************************************************)
(* The queue of afl-fuzz and its favored entries (afl-fuzz-queue.c), with  *)
(* the part of the main loop (afl-fuzz.c) and of fuzz_one (afl-fuzz-one.c) *)
(* that picks entries and retires them.                                    *)
(*                                                                         *)
(* For every byte of the coverage map the queue remembers the best entry   *)
(* that reaches it (top_rated); an entry counts the bytes it holds         *)
(* (tc_ref) and keeps a copy of its trace while it holds one (trace_mini). *)
(* cull_queue chooses the favored entries from those copies and throws     *)
(* away the copies of the others.  The main loop turns to the favored      *)
(* entry with the smallest id first.                                       *)
(*                                                                         *)
(* The target is deterministic: an entry has one trace, the set of map     *)
(* bytes it touches.  The schedule RARE, which compares entries by how     *)
(* often their paths were hit (n_fuzz), is left out; the FAST family would *)
(* cycle into it, so schedules cycle only among the EXPLORE family.        *)
(***************************************************************************)
EXTENDS Integers, FiniteSets, FiniteSetsExt

CONSTANTS
    MaxItems,          \* bound on the number of queue entries
    CycleItems,        \* the same when the schedules cycle
    MapSize,           \* fsrv.map_size
    MaxLen, MaxUs,     \* bounds on an entry's length and execution time
    MaxLevel,          \* bound at which fuzz_level stops to be counted
    CalChances,        \* CAL_CHANCES
    SkipItems,         \* 10: below, entries that are not favored never skip
    Schedules          \* the power schedules a session may start with

Explore == {"EXPLORE", "EXPLOIT", "MMOPT", "SEEK"}
Fast == {"FAST", "COE", "LIN", "QUAD"}

ASSUME QueueAssumption ==
    /\ MaxItems \in Nat \ {0} /\ CycleItems \in 1 .. MaxItems
    /\ MapSize \in Nat \ {0}
    /\ MaxLen \in Nat \ {0} /\ MaxUs \in Nat \ {0} /\ MaxLevel \in Nat
    /\ CalChances \in Nat \ {0} /\ SkipItems \in Nat
    /\ Schedules \subseteq Explore \cup Fast

Id == 0 .. MaxItems - 1
Byte == 0 .. MapSize - 1
None == -1                        \* a NULL pointer, and smallest_favored = -1
NoTrace == {None}                 \* trace_mini = NULL

Entry == [trace : SUBSET Byte, len : 0 .. MaxLen, exec_us : 0 .. MaxUs,
          fuzz_level : 0 .. MaxLevel, cal_failed : 0 .. CalChances,
          favored : BOOLEAN, was_fuzzed : BOOLEAN, fs_redundant : BOOLEAN,
          disabled : BOOLEAN, tc_ref : 0 .. MapSize,
          trace_mini : (SUBSET Byte) \cup {NoTrace}]

VARIABLES
    q,                 \* queue_buf: the entry with each id
    queued_items, active_items,
    top_rated,         \* the entry that holds each byte
    score_changed,
    queued_favored, pending_favored, smallest_favored,
    schedule,
    cycle_schedules,   \* AFL_CYCLE_SCHEDULES
    disable_redundant, \* AFL_DISABLE_REDUNDANT
    last_scored,       \* last_scored_idx + 1
    pc, queue_cur,     \* the main loop
    at, cand,          \* the byte and the candidate a loop over the map is at
    temp_v,            \* the bytes that cull_queue has not covered yet
    trace_bits         \* what the last execution before the rescoring touched

settings == <<cycle_schedules, disable_redundant>>
counts == <<queued_favored, pending_favored, smallest_favored>>
rates == <<q, top_rated, score_changed>>
scan == <<at, cand, temp_v, trace_bits>>
vars == <<rates, queued_items, active_items, counts, schedule, settings,
          last_scored, pc, queue_cur, scan>>

Queued == {i \in Id : i < queued_items}
Favored == {i \in Queued : q[i].favored}

\* The types of the queue's fields and counters: top_rated, smallest_favored
\* and queue_cur name queued entries, no counter leaves its range.
TypeOK ==
    /\ q \in [Id -> Entry]
    /\ queued_items \in 0 .. MaxItems /\ active_items \in 0 .. MaxItems
    /\ top_rated \in [Byte -> Queued \cup {None}]
    /\ score_changed \in BOOLEAN
    /\ queued_favored \in 0 .. MaxItems /\ pending_favored \in 0 .. MaxItems
    /\ smallest_favored \in Queued \cup {None}
    /\ schedule \in Explore \cup Fast
    /\ cycle_schedules \in BOOLEAN /\ disable_redundant \in BOOLEAN
    /\ last_scored \in 0 .. queued_items
    /\ pc \in {"init", "cull", "culling", "cycle", "rescore", "pick", "trim",
              "fuzz"}
    /\ queue_cur \in Queued \cup {None}
    /\ at \in 0 .. MapSize /\ cand \in 0 .. MaxItems
    /\ temp_v \subseteq Byte /\ trace_bits \subseteq Byte

Blank == [trace |-> {}, len |-> 0, exec_us |-> 0, fuzz_level |-> 0,
          cal_failed |-> 0, favored |-> FALSE, was_fuzzed |-> FALSE,
          fs_redundant |-> FALSE, disabled |-> FALSE, tc_ref |-> 0,
          trace_mini |-> NoTrace]

Init ==
    /\ q = [i \in Id |-> Blank]
    /\ queued_items = 0 /\ active_items = 0
    /\ top_rated = [b \in Byte |-> None]
    /\ score_changed = FALSE
    /\ queued_favored = 0 /\ pending_favored = 0 /\ smallest_favored = None
    /\ schedule \in Schedules
    /\ cycle_schedules \in BOOLEAN /\ disable_redundant \in BOOLEAN
    /\ cycle_schedules => schedule \in Explore
    /\ last_scored = 0
    /\ pc = "init" /\ queue_cur = None
    /\ at = 0 /\ cand = 0 /\ temp_v = {} /\ trace_bits = {}

-----------------------------------------------------------------------------
(* update_bitmap_score                                                     *)

\* Two entries are compared by how often they were fuzzed (the FAST family
\* skips this) and by speed times size (size alone for SEEK).
fuzz_p2(s, e) == IF s \in Fast THEN 0 ELSE e.fuzz_level
fav_factor(s, e) == IF s = "SEEK" THEN 4 * e.len
                    ELSE e.exec_us * e.len
Wins(s, e, old) == /\ fuzz_p2(s, e) <= fuzz_p2(s, old)
                   /\ fav_factor(s, e) <= fav_factor(s, old)

\* Entry i takes the bytes `won': every loser gives up its references and, with
\* the last one, its copy of the trace; the winner copies a trace if it has
\* none.  (A winner that takes back the only byte it held, before any other,
\* frees its copy on the way and makes a new one.)
Lost(j, won) == {b \in won : top_rated[b] = j}
tc_ref(qs, i, won, j) ==
    qs[j].tc_ref - Cardinality(Lost(j, won))
                 + IF j = i THEN Cardinality(won) ELSE 0
trace_mini(qs, i, won, trace, j) ==
    IF j = i
    THEN IF \/ qs[i].trace_mini = NoTrace
            \/ qs[i].tc_ref = 1 /\ top_rated[Min(won)] = i
         THEN trace ELSE qs[i].trace_mini
    ELSE IF Lost(j, won) # {} /\ tc_ref(qs, i, won, j) = 0
         THEN NoTrace ELSE qs[j].trace_mini
Held(e, refs, mini) == [e EXCEPT !.tc_ref = refs, !.trace_mini = mini]
Take(qs, i, won, trace) ==
    IF won = {} THEN q' = qs /\ UNCHANGED <<top_rated, score_changed>>
    ELSE /\ q' = [j \in Id |-> Held(qs[j], tc_ref(qs, i, won, j),
                                    trace_mini(qs, i, won, trace, j))]
         /\ top_rated' = [b \in Byte |-> IF b \in won THEN i ELSE top_rated[b]]
         /\ score_changed' = TRUE

Won(qs, i, bytes) ==
    {b \in bytes : /\ ~qs[i].disabled
                   /\ \/ top_rated[b] = None
                      \/ Wins(schedule, qs[i], qs[top_rated[b]])}

ScoreCopiesWon(qs, i) ==
    LET won == Won(qs, i, qs[i].trace) IN Take(qs, i, won, won)
update_bitmap_score(qs, i) ==
    Take(qs, i, Won(qs, i, qs[i].trace), qs[i].trace)

-----------------------------------------------------------------------------
(* add_to_queue and calibrate_case                                         *)

\* A calibration that succeeds rates the entry; one that fails leaves it
\* with a failure more and no timing.
Calibrated(e, us) == [e EXCEPT !.exec_us = us, !.cal_failed = 0]
CalFailed(e) == [e EXCEPT !.cal_failed = @ + 1]

\* A find or a seed: appended to the queue and calibrated at once.  (A seed
\* that fails the dry run is disabled for good and left out here.)
AddCase ==
    /\ pc \in {"init", "fuzz"}
    /\ queued_items < IF cycle_schedules THEN CycleItems ELSE MaxItems
    /\ queued_items' = queued_items + 1 /\ active_items' = active_items + 1
    /\ \E tr \in (SUBSET Byte) \ {{}}, l \in 1 .. MaxLen :
         LET e == [Blank EXCEPT !.trace = tr, !.len = l] IN
         \/ \E us \in 1 .. MaxUs :
               update_bitmap_score(
                   [q EXCEPT ![queued_items] = Calibrated(e, us)], queued_items)
         \/ /\ pc = "fuzz"
            /\ q' = [q EXCEPT ![queued_items] = CalFailed(e)]
            /\ UNCHANGED <<top_rated, score_changed>>
    /\ UNCHANGED <<counts, schedule, settings, last_scored, pc, queue_cur, scan>>

\* The dry run gives up when no seed works.
Start ==
    /\ pc = "init" /\ queued_items > 0
    /\ pc' = "cull"
    /\ UNCHANGED <<rates, queued_items, active_items, counts, schedule, settings,
                   last_scored, queue_cur, scan>>

-----------------------------------------------------------------------------
(* cull_queue                                                              *)

Marked(e, f) == [e EXCEPT !.favored = f]

\* Nothing is favored, nothing is covered.
CullBegins ==
    /\ pc = "cull" /\ score_changed
    /\ pc' = "culling" /\ score_changed' = FALSE
    /\ q' = [i \in Id |-> IF i \in Queued THEN Marked(q[i], FALSE) ELSE q[i]]
    /\ queued_favored' = 0 /\ pending_favored' = 0 /\ smallest_favored' = None
    /\ at' = 0 /\ temp_v' = Byte
    /\ UNCHANGED <<queued_items, active_items, top_rated, schedule, settings,
                   last_scored, queue_cur, cand, trace_bits>>

NoCull ==
    /\ pc = "cull" /\ ~score_changed
    /\ pc' = "cycle"
    /\ UNCHANGED <<rates, queued_items, active_items, counts, schedule, settings,
                   last_scored, queue_cur, scan>>

\* The bytes in order: one that no entry chosen so far covers chooses its
\* holder, provided the holder still has the copy of its trace.
Chooses(b) ==
    /\ top_rated[b] # None /\ b \in temp_v
    /\ q[top_rated[b]].trace_mini # NoTrace
Favor(t) ==
    IF q[t].favored \/ q[t].disabled THEN UNCHANGED <<q, counts>>
    ELSE /\ q' = [q EXCEPT ![t] = Marked(q[t], TRUE)]
         /\ queued_favored' = queued_favored + 1
         /\ IF q[t].was_fuzzed THEN UNCHANGED <<pending_favored, smallest_favored>>
            ELSE /\ pending_favored' = pending_favored + 1
                 /\ smallest_favored' =
                       IF smallest_favored = None \/ smallest_favored > t
                       THEN t ELSE smallest_favored
CullByte ==
    /\ pc = "culling" /\ at < MapSize
    /\ at' = at + 1
    /\ IF Chooses(at)
          THEN /\ temp_v' = temp_v \ q[top_rated[at]].trace_mini
               /\ Favor(top_rated[at])
          ELSE UNCHANGED <<q, counts, temp_v>>
    /\ UNCHANGED <<queued_items, active_items, top_rated, score_changed, schedule,
                   settings, last_scored, pc, queue_cur, cand, trace_bits>>

\* mark_as_redundant: an entry that turns redundant loses its copy.
mark_as_redundant(e, state) ==
    IF e.disabled \/ state = e.fs_redundant THEN e
    ELSE [e EXCEPT !.fs_redundant = state,
                   !.trace_mini = IF state THEN NoTrace ELSE @,
                   !.disabled = state /\ disable_redundant]

CullEnds ==
    /\ pc = "culling" /\ at = MapSize
    /\ pc' = "cycle" /\ at' = 0 /\ temp_v' = {}
    /\ q' = [i \in Id |-> IF i \in Queued
                          THEN mark_as_redundant(q[i], ~q[i].favored) ELSE q[i]]
    /\ UNCHANGED <<queued_items, active_items, top_rated, score_changed, counts,
                   schedule, settings, last_scored, queue_cur, cand, trace_bits>>

cull_queue == NoCull \/ CullBegins \/ CullByte \/ CullEnds

-----------------------------------------------------------------------------
(* A new queue cycle, with the next schedule and recalculate_all_scores    *)

NextSchedule ==
    CASE schedule = "EXPLORE" -> "EXPLOIT" [] schedule = "EXPLOIT" -> "MMOPT"
      [] schedule = "MMOPT" -> "SEEK"      [] schedule = "SEEK" -> "EXPLORE"

\* The entries not scored before are executed first; the last of them leaves
\* its trace in the map.  With none, the map still holds the trace of
\* whatever ran last.
LastTraces ==
    LET new == {i \in Queued : i >= last_scored /\ ~q[i].disabled}
        last == {i \in new : \A j \in new : j <= i}
    IN  IF new # {} THEN {q[i].trace : i \in last} ELSE SUBSET Byte

NewCycle ==
    /\ pc = "cycle" /\ cycle_schedules
    /\ pc' = "rescore" /\ at' = 0 /\ cand' = 0
    /\ schedule' = NextSchedule
    /\ trace_bits' \in LastTraces
    /\ last_scored' = queued_items
    /\ UNCHANGED <<rates, queued_items, active_items, counts, settings, queue_cur,
                   temp_v>>

\* Every candidate of every byte, in the order of their ids, is compared with
\* the holder.  The function has no trace of the candidate at hand: what it
\* copies is the trace of the last execution.
update_bitmap_rescore(i, b) == Take(q, i, Won(q, i, {b}), trace_bits)

Rescore ==
    /\ pc = "rescore" /\ at < MapSize
    /\ IF at \in q[cand].trace THEN update_bitmap_rescore(cand, at)
       ELSE UNCHANGED rates
    /\ IF cand + 1 < queued_items THEN cand' = cand + 1 /\ at' = at
       ELSE cand' = 0 /\ at' = at + 1
    /\ UNCHANGED <<queued_items, active_items, counts, schedule, settings,
                   last_scored, pc, queue_cur, temp_v, trace_bits>>

RescoreEnds ==
    /\ pc = "rescore" /\ at = MapSize
    /\ pc' = "pick" /\ at' = 0 /\ trace_bits' = {}
    /\ UNCHANGED <<rates, queued_items, active_items, counts, schedule, settings,
                   last_scored, queue_cur, cand, temp_v>>

recalculate_all_scores == Rescore \/ RescoreEnds

SameCycle ==
    /\ pc = "cycle"
    /\ pc' = "pick"
    /\ UNCHANGED <<rates, queued_items, active_items, counts, schedule, settings,
                   last_scored, queue_cur, scan>>

-----------------------------------------------------------------------------
(* The inner loop of main: pick an entry, run fuzz_one, repeat if skipped  *)

NewestFirst(i) == i = queued_items - 1
Pick(i) ==
    IF pending_favored > 0 /\ smallest_favored # None
       THEN i = smallest_favored
       ELSE i \in Queued /\ ~q[i].disabled

\* abandon_entry, the end of every fuzz_one that did not return early.
Retired(e) == [e EXCEPT !.was_fuzzed = TRUE]
Levelled(e) == [e EXCEPT !.fuzz_level = IF @ < MaxLevel THEN @ + 1 ELSE @]
Retires(e) == e.cal_failed = 0 /\ ~e.was_fuzzed /\ ~e.disabled
AbandonTwice(e) ==
    IF e.favored
       THEN pending_favored' = pending_favored - 1 /\ smallest_favored' = None
       ELSE UNCHANGED <<pending_favored, smallest_favored>>
AbandonForgetsSmallest(e) ==
    /\ pending_favored' = IF Retires(e) /\ e.favored
                             THEN pending_favored - 1 ELSE pending_favored
    /\ UNCHANGED smallest_favored
AbandonCounts(e) ==
    IF Retires(e) /\ e.favored
       THEN pending_favored' = pending_favored - 1 /\ smallest_favored' = None
       ELSE UNCHANGED <<pending_favored, smallest_favored>>
abandon_entry(qs, i) ==
    /\ q' = [qs EXCEPT ![i] = Levelled(IF Retires(qs[i]) THEN Retired(qs[i])
                                       ELSE qs[i])]
    /\ AbandonCounts(qs[i])
    /\ UNCHANGED queued_favored

\* Entries that are not favored, or were fuzzed, may be skipped at once.
MaySkip(i) ==
    IF pending_favored > 0 THEN q[i].fuzz_level > 0 \/ ~q[i].favored
    ELSE ~q[i].favored /\ queued_items > SkipItems

Skip ==
    /\ pc = "pick"
    /\ \E i \in Id : Pick(i) /\ MaySkip(i) /\ queue_cur' = i
    /\ UNCHANGED <<rates, queued_items, active_items, counts, schedule, settings,
                   last_scored, pc, scan>>

\* fuzz_one goes on with an entry that is calibrated.
Enter ==
    /\ pc = "pick"
    /\ \E i \in Id :
          /\ Pick(i) /\ q[i].cal_failed = 0
          /\ queue_cur' = i
          /\ pc' = IF q[i].was_fuzzed THEN "fuzz" ELSE "trim"
    /\ UNCHANGED <<rates, queued_items, active_items, counts, schedule, settings,
                   last_scored, scan>>

\* An entry whose calibration failed gets another chance.
Recalibrate ==
    /\ pc = "pick"
    /\ \E i \in Id, us \in 1 .. MaxUs :
          /\ Pick(i) /\ q[i].cal_failed \in 1 .. CalChances - 1
          /\ queue_cur' = i
          /\ update_bitmap_score([q EXCEPT ![i] = Calibrated(@, us)], i)
          /\ pc' = IF q[i].was_fuzzed THEN "fuzz" ELSE "trim"
    /\ UNCHANGED <<queued_items, active_items, counts, schedule, settings,
                   last_scored, scan>>

\* The chance is missed, or was the last: the entry is abandoned and counts
\* as skipped.
CalibrationFails ==
    /\ pc = "pick"
    /\ \E i \in Id :
          /\ Pick(i) /\ q[i].cal_failed > 0
          /\ queue_cur' = i
          /\ abandon_entry(IF q[i].cal_failed < CalChances
                              THEN [q EXCEPT ![i] = CalFailed(@)] ELSE q, i)
    /\ UNCHANGED <<queued_items, active_items, top_rated, score_changed,
                   schedule, settings, last_scored, pc, scan>>

Trimmed(e, l) == [e EXCEPT !.len = l]

\* The entry is trimmed the first time; a trim that shortens it rates it
\* again.
Trim ==
    /\ pc = "trim"
    /\ pc' = "fuzz"
    /\ \/ UNCHANGED rates
       \/ \E l \in 1 .. q[queue_cur].len - 1 :
             update_bitmap_score([q EXCEPT ![queue_cur] = Trimmed(@, l)],
                                 queue_cur)
    /\ UNCHANGED <<queued_items, active_items, counts, schedule, settings,
                   last_scored, queue_cur, scan>>

\* The entry was fuzzed, or abandoned half-way (and counts as skipped).
FuzzEnds ==
    /\ pc = "fuzz"
    /\ abandon_entry(q, queue_cur)
    /\ pc' \in {"cull", "pick"}
    /\ UNCHANGED <<queued_items, active_items, top_rated, score_changed,
                   schedule, settings, last_scored, queue_cur, scan>>

Next ==
    \/ AddCase \/ Start \/ cull_queue
    \/ NewCycle \/ recalculate_all_scores \/ SameCycle
    \/ Skip \/ Enter \/ Recalibrate \/ CalibrationFails \/ Trim \/ FuzzEnds

Spec == Init /\ [][Next]_vars

\* The loop is one thread and never stops on its own.  The random draws that
\* skip or abandon an entry do not come out the same way for ever, and a
\* target that can be calibrated at all is calibrated in the end.
Done == FuzzEnds /\ pc' = "cull"
FairSpec ==
    /\ Spec
    /\ WF_vars(Start) /\ WF_vars(cull_queue) /\ WF_vars(SameCycle)
    /\ WF_vars(Trim) /\ WF_vars(CalibrationFails)
    /\ SF_vars(Enter) /\ SF_vars(Done)

-----------------------------------------------------------------------------
(* Properties                                                              *)

\* An entry's reference count is the number of bytes it holds, every holder
\* reaches the bytes it holds, and an entry that holds none has no copy.
RefCountsTopRated ==
    /\ \A i \in Id : q[i].tc_ref = Cardinality({b \in Byte : top_rated[b] = i})
    /\ \A b \in Byte : top_rated[b] # None => b \in q[top_rated[b]].trace
    /\ \A i \in Id : q[i].trace_mini # NoTrace => q[i].tc_ref > 0

\* A copy is a copy of the entry's own trace, as long as the schedules do not
\* cycle: recalculate_all_scores copies what the map happens to hold.
TraceMiniOwn ==
    ~cycle_schedules => \A i \in Id : q[i].trace_mini \in {NoTrace, q[i].trace}

\* What cull_queue reads, long after it was copied and counted, is right.
TracesSound == RefCountsTopRated /\ TraceMiniOwn

SmallestOf(S) == IF S = {} THEN None ELSE Min(S)

\* The counters of favored and of pending favored entries are right at every
\* point of the loop, not only after a cull.
FavoredCounts ==
    /\ queued_favored = Cardinality(Favored)
    /\ pending_favored = Cardinality({i \in Favored : ~q[i].was_fuzzed})

\* The entry the loop turns to first is favored, not fuzzed yet, and can be
\* retired; it is the first of its kind.
SmallestFavoredPending ==
    smallest_favored # None =>
        smallest_favored = SmallestOf({i \in Favored : ~q[i].was_fuzzed})

\* An entry that could not be calibrated is never favored, so the loop never
\* waits for an entry that fuzz_one refuses.
FavoredCalibrated ==
    ~cycle_schedules => \A i \in Favored : q[i].cal_failed = 0

\* The favored entries, their counters and the first of them agree at every
\* step between two culls.
FavoredSound == FavoredCounts /\ SmallestFavoredPending /\ FavoredCalibrated

\* fuzz_one: the loop is not "caught in an infinite loop ... on
\* smallest_favored".
LoopReturns == (pc # "init" /\ ~cycle_schedules) ~> (pc = "cull")
=============================================================================
