--------------------------- MODULE AflQueueProofs ---------------------------
(***************************************************************************)
(* Proofs about AflQueue for every size of the queue and of the map, every *)
(* range of lengths and times and every schedule: the types, the reference *)
(* counts and copies of traces, and the favored entries with their         *)
(* counters.                                                               *)
(***************************************************************************)
EXTENDS AflQueue, FiniteSetTheorems, TLAPS

-----------------------------------------------------------------------------
(***************************************************************************)
(* The inductive invariant.                                                *)
(***************************************************************************)

\* Past the dry run there is an entry; a loop over the candidates is at one of
\* them; fuzz_one works on a calibrated entry of the queue.
ControlInv ==
    /\ pc # "init" => queued_items > 0
    /\ pc = "rescore" => cycle_schedules /\ cand < queued_items
    /\ pc \in {"trim", "fuzz"} => queue_cur # None /\ q[queue_cur].cal_failed = 0
    /\ cycle_schedules => schedule \in Explore
    /\ active_items = queued_items

\* Only a calibrated entry holds a byte.
HoldersCalibrated ==
    ~cycle_schedules =>
        \A b \in Byte : top_rated[b] # None => q[top_rated[b]].cal_failed = 0

\* While cull_queue chooses, smallest_favored is not only right if it is set:
\* it is set as soon as there is a pending favored entry.
Pending == {i \in Favored : ~q[i].was_fuzzed}
CullInv ==
    pc = "culling" =>
        IF Pending = {} THEN smallest_favored = None
        ELSE /\ smallest_favored \in Pending
             /\ \A i \in Pending : smallest_favored <= i

IInv == /\ TypeOK /\ ControlInv /\ TracesSound /\ HoldersCalibrated
        /\ FavoredSound /\ CullInv

-----------------------------------------------------------------------------
(***************************************************************************)
(* Sets, and the fields of an entry.                                       *)
(***************************************************************************)
LEMMA Finite ==
    /\ IsFiniteSet(Byte) /\ Cardinality(Byte) = MapSize
    /\ IsFiniteSet(Id) /\ Cardinality(Id) = MaxItems
<1>1. MapSize \in Nat \ {0} /\ MaxItems \in Nat \ {0}
  BY QueueAssumption
<1>2. ASSUME NEW n \in Nat \ {0}
      PROVE  IsFiniteSet(0 .. n - 1) /\ Cardinality(0 .. n - 1) = n
  <2>1. 0 \in Int /\ n - 1 \in Int
    OBVIOUS
  <2>. QED
    BY <2>1, FS_Interval
<1>. QED
  BY <1>1, <1>2 DEF Byte, Id

LEMMA Subsets ==
  /\ \A S \in SUBSET Byte : IsFiniteSet(S) /\ Cardinality(S) \in 0 .. MapSize
  /\ \A S \in SUBSET Id : IsFiniteSet(S) /\ Cardinality(S) \in 0 .. MaxItems
<1>1. ASSUME NEW S \in SUBSET Byte
      PROVE  IsFiniteSet(S) /\ Cardinality(S) \in 0 .. MapSize
  <2>1. IsFiniteSet(S) /\ Cardinality(S) <= Cardinality(Byte)
    BY Finite, FS_Subset
  <2>2. Cardinality(S) \in Nat
    BY <2>1, FS_CardinalityType
  <2>. QED
    BY <2>1, <2>2, Finite, QueueAssumption
<1>2. ASSUME NEW S \in SUBSET Id
      PROVE  IsFiniteSet(S) /\ Cardinality(S) \in 0 .. MaxItems
  <2>1. IsFiniteSet(S) /\ Cardinality(S) <= Cardinality(Id)
    BY Finite, FS_Subset
  <2>2. Cardinality(S) \in Nat
    BY <2>1, FS_CardinalityType
  <2>. QED
    BY <2>1, <2>2, Finite, QueueAssumption
<1>. QED
  BY <1>1, <1>2

\* The smallest number of a set is the one that is.
LEMMA MinIs ==
  ASSUME NEW S \in SUBSET Int, NEW m \in S, \A k \in S : m <= k
  PROVE  Min(S) = m
<1>1. \E x \in S : \A k \in S : x <= k
  OBVIOUS
<1>2. Min(S) \in S /\ \A k \in S : Min(S) <= k
  BY <1>1 DEF Min
<1>3. Min(S) \in Int /\ m \in Int /\ Min(S) <= m /\ m <= Min(S)
  BY <1>2
<1>. QED
  BY <1>3

\* What two entries share when neither scoring nor favoring tells them apart.
Like(e, f) ==
    /\ e.trace = f.trace /\ e.len = f.len /\ e.exec_us = f.exec_us
    /\ e.fuzz_level = f.fuzz_level /\ e.cal_failed = f.cal_failed
    /\ e.favored = f.favored /\ e.was_fuzzed = f.was_fuzzed
    /\ e.fs_redundant = f.fs_redundant /\ e.disabled = f.disabled

Same(e, f) == e.trace = f.trace /\ e.tc_ref = f.tc_ref /\ e.trace_mini = f.trace_mini

Mini == (SUBSET Byte) \cup {NoTrace}

LEMMA EntryFields ==
  ASSUME NEW e \in Entry
  PROVE  /\ e.trace \in SUBSET Byte /\ e.len \in 0 .. MaxLen
         /\ e.exec_us \in 0 .. MaxUs /\ e.fuzz_level \in 0 .. MaxLevel
         /\ e.cal_failed \in 0 .. CalChances /\ e.favored \in BOOLEAN
         /\ e.was_fuzzed \in BOOLEAN /\ e.fs_redundant \in BOOLEAN
         /\ e.disabled \in BOOLEAN /\ e.tc_ref \in 0 .. MapSize
         /\ e.trace_mini \in Mini
BY DEF Entry, Mini

LEMMA HeldIs ==
  ASSUME NEW e \in Entry, NEW n \in 0 .. MapSize, NEW m \in Mini
  PROVE  /\ Held(e, n, m) \in Entry /\ Like(Held(e, n, m), e)
         /\ Held(e, n, m).tc_ref = n /\ Held(e, n, m).trace_mini = m
BY Zenon DEF Entry, Held, Like, Mini

LEMMA MarkedIs ==
  ASSUME NEW e \in Entry, NEW f \in BOOLEAN
  PROVE  /\ Marked(e, f) \in Entry /\ Same(Marked(e, f), e)
         /\ Marked(e, f).favored = f /\ Marked(e, f).was_fuzzed = e.was_fuzzed
         /\ Marked(e, f).cal_failed = e.cal_failed
BY Zenon DEF Entry, Marked, Same

LEMMA CalibratedIs ==
  ASSUME NEW e \in Entry, NEW us \in 1 .. MaxUs
  PROVE  /\ Calibrated(e, us) \in Entry /\ Same(Calibrated(e, us), e)
         /\ Calibrated(e, us).favored = e.favored
         /\ Calibrated(e, us).was_fuzzed = e.was_fuzzed
         /\ Calibrated(e, us).cal_failed = 0
<1>1. us \in 0 .. MaxUs /\ 0 \in 0 .. CalChances
  BY QueueAssumption
<1>. QED
  BY <1>1, Zenon DEF Entry, Calibrated, Same

LEMMA CalFailedIs ==
  ASSUME NEW e \in Entry, e.cal_failed < CalChances
  PROVE  /\ CalFailed(e) \in Entry /\ Same(CalFailed(e), e)
         /\ CalFailed(e).favored = e.favored
         /\ CalFailed(e).was_fuzzed = e.was_fuzzed
         /\ CalFailed(e).cal_failed > 0
<1>1. PICK n \in 0 .. CalChances : n = e.cal_failed + 1 /\ n > 0
  BY EntryFields, QueueAssumption
<1>2. CalFailed(e) = [e EXCEPT !.cal_failed = n]
  BY <1>1, Zenon DEF CalFailed
<1>3. /\ CalFailed(e) \in Entry /\ Same(CalFailed(e), e)
      /\ CalFailed(e).favored = e.favored
      /\ CalFailed(e).was_fuzzed = e.was_fuzzed
      /\ CalFailed(e).cal_failed = n
  BY <1>2, Zenon DEF Entry, Same
<1>. QED
  BY <1>1, <1>3

LEMMA TrimmedIs ==
  ASSUME NEW e \in Entry, NEW l \in 1 .. MaxLen
  PROVE  /\ Trimmed(e, l) \in Entry /\ Same(Trimmed(e, l), e)
         /\ Trimmed(e, l).favored = e.favored
         /\ Trimmed(e, l).was_fuzzed = e.was_fuzzed
         /\ Trimmed(e, l).cal_failed = e.cal_failed
<1>1. l \in 0 .. MaxLen
  OBVIOUS
<1>. QED
  BY <1>1, Zenon DEF Entry, Trimmed, Same

\* A new entry, before its calibration.
New(tr, l) == [Blank EXCEPT !.trace = tr, !.len = l]

LEMMA NewIs ==
  ASSUME NEW tr \in SUBSET Byte, NEW l \in 1 .. MaxLen
  PROVE  /\ New(tr, l) \in Entry /\ New(tr, l).trace = tr
         /\ New(tr, l).tc_ref = 0 /\ New(tr, l).trace_mini = NoTrace
         /\ New(tr, l).favored = FALSE /\ New(tr, l).cal_failed = 0
<1>1. /\ 0 \in 0 .. MaxLen /\ 0 \in 0 .. MaxUs /\ 0 \in 0 .. MaxLevel
      /\ 0 \in 0 .. CalChances /\ 0 \in 0 .. MapSize /\ l \in 0 .. MaxLen
  BY QueueAssumption
<1>2. Blank \in Entry
  <2>1. {} \in SUBSET Byte /\ NoTrace \in (SUBSET Byte) \cup {NoTrace}
    OBVIOUS
  <2>. QED
    BY <1>1, <2>1, Zenon DEF Blank, Entry
<1>3. /\ Blank.tc_ref = 0 /\ Blank.trace_mini = NoTrace
      /\ Blank.favored = FALSE /\ Blank.cal_failed = 0
  BY DEF Blank
<1>4. /\ New(tr, l) \in Entry /\ New(tr, l).trace = tr
      /\ New(tr, l).tc_ref = Blank.tc_ref
      /\ New(tr, l).trace_mini = Blank.trace_mini
      /\ New(tr, l).favored = Blank.favored
      /\ New(tr, l).cal_failed = Blank.cal_failed
  BY <1>1, <1>2, Zenon DEF New, Entry
<1>. QED
  BY <1>3, <1>4

LEMMA RedundantIs ==
  ASSUME NEW e \in Entry, NEW s \in BOOLEAN, disable_redundant \in BOOLEAN
  PROVE  LET r == mark_as_redundant(e, s)
         IN  /\ r \in Entry /\ r.trace = e.trace /\ r.tc_ref = e.tc_ref
             /\ r.trace_mini \in {NoTrace, e.trace_mini}
             /\ r.favored = e.favored /\ r.was_fuzzed = e.was_fuzzed
             /\ r.cal_failed = e.cal_failed
<1>1. CASE e.disabled \/ s = e.fs_redundant
  BY <1>1 DEF mark_as_redundant
<1>2. CASE ~(e.disabled \/ s = e.fs_redundant)
  <2>1. PICK m \in Mini : m = IF s THEN NoTrace ELSE e.trace_mini
    <3>1. NoTrace \in Mini /\ e.trace_mini \in Mini
      BY EntryFields, Zenon DEF Mini
    <3>. QED
      BY <3>1, Zenon
  <2>2. PICK d \in BOOLEAN : d = (s /\ disable_redundant)
    BY Zenon
  <2>3. mark_as_redundant(e, s) =
          [e EXCEPT !.fs_redundant = s, !.trace_mini = m, !.disabled = d]
    BY <1>2, <2>1, <2>2, Zenon DEF mark_as_redundant
  <2>4. LET r == mark_as_redundant(e, s)
        IN  /\ r \in Entry /\ r.trace = e.trace /\ r.tc_ref = e.tc_ref
            /\ r.trace_mini = m
            /\ r.favored = e.favored /\ r.was_fuzzed = e.was_fuzzed
            /\ r.cal_failed = e.cal_failed
    BY <2>3, Zenon DEF Entry, Mini
  <2>. QED
    BY <2>1, <2>4
<1>. QED
  BY <1>1, <1>2

\* The end of fuzz_one.
Abandoned(e) == Levelled(IF Retires(e) THEN Retired(e) ELSE e)

LEMMA AbandonedIs ==
  ASSUME NEW e \in Entry
  PROVE  /\ Abandoned(e) \in Entry /\ Same(Abandoned(e), e)
         /\ Abandoned(e).favored = e.favored
         /\ Abandoned(e).was_fuzzed = (e.was_fuzzed \/ Retires(e))
         /\ Abandoned(e).cal_failed = e.cal_failed
<1>1. PICK n \in 0 .. MaxLevel :
        n = IF e.fuzz_level < MaxLevel THEN e.fuzz_level + 1 ELSE e.fuzz_level
  BY EntryFields, QueueAssumption
<1>2. CASE Retires(e)
  <2>1. Retired(e) \in Entry /\ Retired(e).fuzz_level = e.fuzz_level
    BY Zenon DEF Retired, Entry
  <2>2. Abandoned(e) = [Retired(e) EXCEPT !.fuzz_level = n]
    BY <1>1, <1>2, <2>1, Zenon DEF Abandoned, Levelled
  <2>3. Abandoned(e) = [[e EXCEPT !.was_fuzzed = TRUE] EXCEPT !.fuzz_level = n]
    BY <2>2, Zenon DEF Retired
  <2>4. /\ Abandoned(e) \in Entry /\ Same(Abandoned(e), e)
        /\ Abandoned(e).favored = e.favored
        /\ Abandoned(e).was_fuzzed = TRUE
        /\ Abandoned(e).cal_failed = e.cal_failed
    BY <2>3, Zenon DEF Entry, Same
  <2>. QED
    BY <1>2, <2>4
<1>3. CASE ~Retires(e)
  <2>1. Abandoned(e) = [e EXCEPT !.fuzz_level = n]
    BY <1>1, <1>3, Zenon DEF Abandoned, Levelled
  <2>2. /\ Abandoned(e) \in Entry /\ Same(Abandoned(e), e)
        /\ Abandoned(e).favored = e.favored
        /\ Abandoned(e).was_fuzzed = e.was_fuzzed
        /\ Abandoned(e).cal_failed = e.cal_failed
    BY <2>1, Zenon DEF Entry, Same
  <2>. QED
    BY <1>3, <2>2, EntryFields
<1>. QED
  BY <1>2, <1>3

-----------------------------------------------------------------------------
(***************************************************************************)
(* Entry i takes bytes: references, copies and holders.                    *)
(***************************************************************************)

\* RefCountsTopRated of a queue whose entry has just been changed.
Counted(qs) ==
    /\ \A j \in Id : qs[j].tc_ref = Cardinality({b \in Byte : top_rated[b] = j})
    /\ \A b \in Byte : top_rated[b] # None => b \in qs[top_rated[b]].trace
    /\ \A j \in Id : qs[j].trace_mini # NoTrace => qs[j].tc_ref > 0

\* The references entry j holds, before and after.
LEMMA RefsMove ==
  ASSUME NEW top \in [Byte -> Id \cup {None}], NEW won \in SUBSET Byte,
         NEW i \in Id, NEW j \in Id
  PROVE  LET H == {b \in Byte : top[b] = j}
             L == {b \in won : top[b] = j}
             N == {b \in Byte : (IF b \in won THEN i ELSE top[b]) = j}
         IN  Cardinality(N) = Cardinality(H) - Cardinality(L)
                               + IF j = i THEN Cardinality(won) ELSE 0
<1>. DEFINE H == {b \in Byte : top[b] = j}
            L == {b \in won : top[b] = j}
            N == {b \in Byte : (IF b \in won THEN i ELSE top[b]) = j}
<1>1. /\ IsFiniteSet(H) /\ IsFiniteSet(won) /\ IsFiniteSet(H \ won)
      /\ Cardinality(H) \in Nat /\ Cardinality(L) \in Nat
      /\ Cardinality(won) \in Nat /\ Cardinality(H \ won) \in Nat
  <2>1. H \in SUBSET Byte /\ L \in SUBSET Byte /\ H \ won \in SUBSET Byte
    OBVIOUS
  <2>. QED
    BY <2>1, Subsets, QueueAssumption
<1>2. Cardinality(H \ won) = Cardinality(H) - Cardinality(L)
  <2>1. H \cap won = L
    OBVIOUS
  <2>. QED
    BY <1>1, <2>1, FS_Difference
<1>3. j # i => N = H \ won
  OBVIOUS
<1>4. j = i => N = (H \ won) \cup won
  OBVIOUS
<1>5. (H \ won) \cap won = {}
  OBVIOUS
<1>. HIDE DEF H, L, N
<1>6. Cardinality((H \ won) \cup won) = Cardinality(H \ won) + Cardinality(won)
  BY <1>1, <1>5, FS_Union, FS_EmptySet
<1>7. Cardinality(N) = Cardinality(H) - Cardinality(L)
                         + IF j = i THEN Cardinality(won) ELSE 0
  <2>1. CASE j = i
    <3>1. Cardinality(N) = Cardinality(H \ won) + Cardinality(won)
      BY <1>4, <1>6, <2>1
    <3>. QED
      BY <1>1, <1>2, <2>1, <3>1
  <2>2. CASE j # i
    <3>1. Cardinality(N) = Cardinality(H \ won)
      BY <1>3, <2>2
    <3>. QED
      BY <1>1, <1>2, <2>2, <3>1
  <2>. QED
    BY <2>1, <2>2
<1>. QED
  BY <1>7 DEF H, L, N

LEMMA Takes ==
  ASSUME TypeOK, NEW qs \in [Id -> Entry], NEW i \in Id, NEW won \in SUBSET Byte,
         NEW trace \in SUBSET Byte, won \subseteq qs[i].trace, Counted(qs),
         Take(qs, i, won, trace)
  PROVE  /\ q' \in [Id -> Entry] /\ RefCountsTopRated'
         /\ score_changed' \in BOOLEAN
         /\ top_rated' = [b \in Byte |-> IF b \in won THEN i ELSE top_rated[b]]
         /\ \A j \in Id :
              /\ Like(q'[j], qs[j])
              /\ q'[j].trace_mini \in {NoTrace, qs[j].trace_mini, trace}
              /\ j # i => q'[j].trace_mini \in {NoTrace, qs[j].trace_mini}
<1>1. /\ top_rated \in [Byte -> Id \cup {None}] /\ score_changed \in BOOLEAN
  BY DEF TypeOK, Queued
<1>2. CASE won = {}
  <2>1. q' = qs /\ top_rated' = top_rated /\ score_changed' = score_changed
    BY <1>2 DEF Take
  <2>. QED
    BY <1>1, <1>2, <2>1, Zenon DEF RefCountsTopRated, Counted, Like
<1>3. CASE won # {}
  <2>. DEFINE n == [j \in Id |-> tc_ref(qs, i, won, j)]
              m == [j \in Id |-> trace_mini(qs, i, won, trace, j)]
  <2>1. /\ q' = [j \in Id |-> Held(qs[j], n[j], m[j])]
        /\ top_rated' = [b \in Byte |-> IF b \in won THEN i ELSE top_rated[b]]
        /\ score_changed' = TRUE
    BY <1>3 DEF Take
  <2>2. ASSUME NEW j \in Id
        PROVE  /\ n[j] = Cardinality({b \in Byte : top_rated'[b] = j})
               /\ n[j] \in 0 .. MapSize
    <3>1. {b \in Byte : top_rated'[b] = j}
            = {b \in Byte : (IF b \in won THEN i ELSE top_rated[b]) = j}
      BY <2>1
    <3>2. n[j] = Cardinality({b \in Byte : top_rated[b] = j})
                    - Cardinality({b \in won : top_rated[b] = j})
                    + IF j = i THEN Cardinality(won) ELSE 0
      BY DEF tc_ref, Lost, Counted
    <3>3. n[j] = Cardinality({b \in Byte : top_rated'[b] = j})
      BY <1>1, <3>1, <3>2, RefsMove
    <3>4. Cardinality({b \in Byte : top_rated'[b] = j}) \in 0 .. MapSize
      BY Subsets
    <3>. QED
      BY <3>3, <3>4
  <2>. HIDE DEF n
  <2>2a. \A j \in Id : n[j] \in 0 .. MapSize
    BY <2>2
  <2>2b. \A j \in Id : n[j] \in Int /\ (n[j] # 0 => n[j] > 0)
    BY <2>2a, QueueAssumption
  <2>3. ASSUME NEW j \in Id
        PROVE  /\ m[j] \in Mini
               /\ m[j] \in {NoTrace, qs[j].trace_mini, trace}
               /\ j # i => m[j] \in {NoTrace, qs[j].trace_mini}
               /\ m[j] # NoTrace => n[j] > 0
    <3>1. qs[j].trace_mini \in Mini /\ NoTrace \in Mini /\ trace \in Mini
      BY EntryFields, Zenon DEF Mini
    <3>2. CASE j = i
      <4>1. m[j] \in {qs[j].trace_mini, trace}
        BY <3>2 DEF trace_mini
      <4>2. n[j] > 0
        <5>1. PICK b \in won : TRUE
          BY <1>3
        <5>2. {c \in Byte : top_rated'[c] = j} # {}
          BY <2>1, <3>2, <5>1
        <5>3. Cardinality({c \in Byte : top_rated'[c] = j}) # 0
          BY <5>2, Subsets, FS_EmptySet
        <5>. QED
          BY <2>2, <5>3
      <4>. HIDE DEF n, m
      <4>. QED
        BY <3>1, <3>2, <4>1, <4>2
    <3>3. CASE j # i
      <4>1. m[j] = IF Lost(j, won) # {} /\ n[j] = 0 THEN NoTrace
                   ELSE qs[j].trace_mini
        BY <3>3 DEF trace_mini, n
      <4>2. ASSUME Lost(j, won) = {}, qs[j].trace_mini # NoTrace PROVE n[j] > 0
        <5>1. Cardinality(Lost(j, won)) = 0
          BY <4>2, FS_EmptySet
        <5>2. qs[j].tc_ref > 0 /\ qs[j].tc_ref \in Int
          BY <4>2, EntryFields DEF Counted
        <5>3. n[j] = qs[j].tc_ref - Cardinality(Lost(j, won)) + 0
          BY <3>3 DEF tc_ref, n
        <5>. QED
          BY <5>1, <5>2, <5>3
      <4>. HIDE DEF n, m
      <4>3. n[j] \in Int /\ (n[j] # 0 => n[j] > 0)
        BY <2>2b
      <4>4. CASE m[j] = NoTrace
        BY <3>1, <4>4
      <4>5. CASE m[j] # NoTrace
        <5>1. m[j] = qs[j].trace_mini /\ (Lost(j, won) = {} \/ n[j] # 0)
          BY <4>1, <4>5
        <5>. QED
          BY <3>1, <4>2, <4>3, <4>5, <5>1
      <4>. QED
        BY <4>4, <4>5
    <3>. HIDE DEF n, m
    <3>. QED
      BY <3>2, <3>3
  <2>. HIDE DEF n, m
  <2>4. ASSUME NEW j \in Id
        PROVE  /\ q'[j] \in Entry /\ Like(q'[j], qs[j])
               /\ q'[j].tc_ref = n[j] /\ q'[j].trace_mini = m[j]
    <3>1. q'[j] = Held(qs[j], n[j], m[j])
      BY <2>1
    <3>. QED
      BY <2>2a, <2>3, <3>1, HeldIs
  <2>5. q' \in [Id -> Entry]
    BY <2>1, <2>4
  <2>6. RefCountsTopRated'
    <3>1. ASSUME NEW b \in Byte, top_rated'[b] # None
          PROVE  b \in q'[top_rated'[b]].trace
      <4>1. CASE b \in won
        BY <2>1, <2>4, <4>1 DEF Like
      <4>2. CASE b \notin won
        <5>1. top_rated'[b] = top_rated[b] /\ top_rated[b] \in Id
          BY <1>1, <2>1, <3>1, <4>2
        <5>. QED
          BY <2>4, <3>1, <5>1 DEF Like, Counted
      <4>. QED
        BY <4>1, <4>2
    <3>2. \A j \in Id : q'[j].tc_ref = Cardinality({b \in Byte : top_rated'[b] = j})
      BY <2>2, <2>4
    <3>3. \A j \in Id : q'[j].trace_mini # NoTrace => q'[j].tc_ref > 0
      BY <2>3, <2>4
    <3>. QED
      BY <3>1, <3>2, <3>3 DEF RefCountsTopRated
  <2>. QED
    BY <2>1, <2>3, <2>4, <2>5, <2>6
<1>. QED
  BY <1>2, <1>3

-----------------------------------------------------------------------------
(***************************************************************************)
(* What an action needs to know of the queue it leaves behind.             *)
(***************************************************************************)
Fit(qs) ==
    /\ qs \in [Id -> Entry] /\ Counted(qs)
    /\ ~cycle_schedules => \A j \in Id : qs[j].trace_mini \in {NoTrace, qs[j].trace}
    /\ ~cycle_schedules =>
          \A b \in Byte : top_rated[b] # None => qs[top_rated[b]].cal_failed = 0

\* Entries keep their traces and references, may lose their copies, and stay
\* calibrated.
LEMMA FitLike ==
  ASSUME TypeOK, TracesSound, HoldersCalibrated, NEW qs \in [Id -> Entry],
         \A j \in Id : /\ qs[j].trace = q[j].trace /\ qs[j].tc_ref = q[j].tc_ref
                       /\ qs[j].trace_mini \in {NoTrace, q[j].trace_mini}
                       /\ q[j].cal_failed = 0 => qs[j].cal_failed = 0
  PROVE  Fit(qs)
<1>1. \A b \in Byte : top_rated[b] # None => top_rated[b] \in Id
  BY DEF TypeOK, Queued
<1>2. Counted(qs)
  BY <1>1 DEF Counted, TracesSound, RefCountsTopRated
<1>3. ASSUME ~cycle_schedules
      PROVE  /\ \A j \in Id : qs[j].trace_mini \in {NoTrace, qs[j].trace}
             /\ \A b \in Byte :
                   top_rated[b] # None => qs[top_rated[b]].cal_failed = 0
  BY <1>1, <1>3 DEF TracesSound, TraceMiniOwn, HoldersCalibrated
<1>. QED
  BY <1>2, <1>3 DEF Fit

LEMMA FitUpdate ==
  ASSUME TypeOK, TracesSound, HoldersCalibrated, NEW i \in Id, NEW e \in Entry,
         Same(e, q[i]), q[i].cal_failed = 0 => e.cal_failed = 0
  PROVE  Fit([q EXCEPT ![i] = e])
<1>. DEFINE qs == [q EXCEPT ![i] = e]
<1>1. q \in [Id -> Entry]
  BY DEF TypeOK
<1>2. qs \in [Id -> Entry] /\ \A j \in Id : qs[j] = IF j = i THEN e ELSE q[j]
  BY <1>1
<1>. HIDE DEF qs
<1>3. ASSUME NEW j \in Id
      PROVE  /\ qs[j].trace = q[j].trace /\ qs[j].tc_ref = q[j].tc_ref
             /\ qs[j].trace_mini \in {NoTrace, q[j].trace_mini}
             /\ q[j].cal_failed = 0 => qs[j].cal_failed = 0
  BY <1>2 DEF Same
<1>4. Fit(qs)
  BY <1>2, <1>3, FitLike
<1>. QED
  BY <1>4 DEF qs

\* A new entry holds nothing.
LEMMA FitNew ==
  ASSUME TypeOK, TracesSound, HoldersCalibrated, queued_items \in Id,
         NEW e \in Entry, e.tc_ref = 0, e.trace_mini = NoTrace
  PROVE  Fit([q EXCEPT ![queued_items] = e])
<1>. DEFINE i == queued_items
            qs == [q EXCEPT ![i] = e]
<1>1. q \in [Id -> Entry] /\ i \in Id /\ i \in Int
  BY QueueAssumption DEF TypeOK, Id
<1>2. \A b \in Byte : top_rated[b] # i /\ (top_rated[b] # None => top_rated[b] \in Id)
  BY <1>1, QueueAssumption DEF TypeOK, Queued, None, Id
<1>3. qs \in [Id -> Entry] /\ \A j \in Id : qs[j] = IF j = i THEN e ELSE q[j]
  BY <1>1
<1>. HIDE DEF qs
<1>4. Cardinality({b \in Byte : top_rated[b] = i}) = 0
  <2>1. {b \in Byte : top_rated[b] = i} = {}
    BY <1>2
  <2>. QED
    BY <2>1, FS_EmptySet
<1>. HIDE DEF i
<1>5. Counted(qs)
  <2>1. \A j \in Id : qs[j].tc_ref = Cardinality({b \in Byte : top_rated[b] = j})
    BY <1>1, <1>3, <1>4 DEF TracesSound, RefCountsTopRated
  <2>2. \A b \in Byte : top_rated[b] # None => b \in qs[top_rated[b]].trace
    BY <1>2, <1>3 DEF TracesSound, RefCountsTopRated
  <2>3. \A j \in Id : qs[j].trace_mini # NoTrace => qs[j].tc_ref > 0
    BY <1>1, <1>3 DEF TracesSound, RefCountsTopRated
  <2>. QED
    BY <2>1, <2>2, <2>3 DEF Counted
<1>6. ASSUME ~cycle_schedules
      PROVE  /\ \A j \in Id : qs[j].trace_mini \in {NoTrace, qs[j].trace}
             /\ \A b \in Byte :
                   top_rated[b] # None => qs[top_rated[b]].cal_failed = 0
  BY <1>1, <1>2, <1>3, <1>6 DEF TracesSound, TraceMiniOwn, HoldersCalibrated
<1>7. Fit(qs)
  BY <1>3, <1>5, <1>6 DEF Fit
<1>. QED
  BY <1>7 DEF qs, i

\* The queue is left as it is,
LEMMA FitStays ==
  ASSUME NEW qs, Fit(qs), q' = qs, top_rated' = top_rated,
         cycle_schedules' = cycle_schedules
  PROVE  q' \in [Id -> Entry] /\ TracesSound' /\ HoldersCalibrated'
BY DEF Fit, Counted, TracesSound, RefCountsTopRated, TraceMiniOwn,
       HoldersCalibrated

\* or an entry takes bytes.
LEMMA FitTakes ==
  ASSUME TypeOK, NEW qs, Fit(qs), NEW i \in Id, NEW won \in SUBSET Byte,
         NEW trace \in SUBSET Byte, won \subseteq qs[i].trace,
         Take(qs, i, won, trace),
         ~cycle_schedules => trace = qs[i].trace /\ qs[i].cal_failed = 0,
         cycle_schedules' = cycle_schedules, queued_items' \in Int,
         queued_items <= queued_items', i < queued_items'
  PROVE  /\ q' \in [Id -> Entry] /\ TracesSound' /\ HoldersCalibrated'
         /\ top_rated' \in [Byte -> Queued' \cup {None}]
         /\ score_changed' \in BOOLEAN
         /\ \A j \in Id : Like(q'[j], qs[j])
<1>1. /\ qs \in [Id -> Entry] /\ Counted(qs) /\ queued_items \in Int
      /\ \A b \in Byte : top_rated[b] # None => top_rated[b] \in Queued
  BY QueueAssumption DEF Fit, TypeOK
<1>2. /\ q' \in [Id -> Entry] /\ RefCountsTopRated' /\ score_changed' \in BOOLEAN
      /\ top_rated' = [b \in Byte |-> IF b \in won THEN i ELSE top_rated[b]]
      /\ \A j \in Id :
            /\ Like(q'[j], qs[j])
            /\ q'[j].trace_mini \in {NoTrace, qs[j].trace_mini, trace}
            /\ j # i => q'[j].trace_mini \in {NoTrace, qs[j].trace_mini}
  BY <1>1, Takes
<1>3. i \in Queued' /\ Queued \subseteq Queued'
  BY <1>1, QueueAssumption DEF Queued, Id
<1>4. top_rated' \in [Byte -> Queued' \cup {None}]
  BY <1>1, <1>2, <1>3
<1>5. TraceMiniOwn'
  <2>. SUFFICES ASSUME ~cycle_schedules, NEW j \in Id
                PROVE  q'[j].trace_mini \in {NoTrace, q'[j].trace}
    BY DEF TraceMiniOwn
  <2>1. q'[j].trace = qs[j].trace /\ qs[j].trace_mini \in {NoTrace, qs[j].trace}
    BY <1>2 DEF Like, Fit
  <2>. QED
    BY <1>2, <2>1
<1>6. HoldersCalibrated'
  <2>. SUFFICES ASSUME ~cycle_schedules, NEW b \in Byte, top_rated'[b] # None
                PROVE  q'[top_rated'[b]].cal_failed = 0
    BY DEF HoldersCalibrated
  <2>1. \A j \in Id : q'[j].cal_failed = qs[j].cal_failed
    BY <1>2 DEF Like
  <2>2. CASE b \in won
    BY <1>2, <2>1, <2>2
  <2>3. CASE b \notin won
    <3>1. top_rated'[b] = top_rated[b] /\ top_rated[b] \in Id
      BY <1>1, <1>2, <2>3 DEF Queued
    <3>. QED
      BY <2>1, <3>1 DEF Fit
  <2>. QED
    BY <2>2, <2>3
<1>. QED
  BY <1>2, <1>4, <1>5, <1>6 DEF TracesSound

\* The favored entries and their counters stay.
LEMMA FavoredKept ==
  ASSUME IInv, queued_items' \in Int, queued_items <= queued_items',
         \A j \in Queued : q'[j].favored = q[j].favored,
         \A j \in Favored : /\ q'[j].was_fuzzed = q[j].was_fuzzed
                            /\ q[j].cal_failed = 0 => q'[j].cal_failed = 0,
         \A j \in Queued' \ Queued : ~q'[j].favored,
         UNCHANGED counts, cycle_schedules' = cycle_schedules
  PROVE  FavoredSound' /\ Favored' = Favored /\ Pending' = Pending
<1>1. queued_items \in Int /\ Queued \subseteq Queued'
  BY QueueAssumption DEF IInv, TypeOK, Queued, Id
<1>2. Favored' = Favored
  BY <1>1 DEF Favored
<1>3. Pending' = Pending
  BY <1>2 DEF Pending
<1>4. FavoredCounts' /\ SmallestFavoredPending'
  BY <1>2, <1>3 DEF IInv, FavoredSound, FavoredCounts, SmallestFavoredPending,
     Pending, counts
<1>5. FavoredCalibrated'
  BY <1>2 DEF IInv, FavoredSound, FavoredCalibrated
<1>. QED
  BY <1>2, <1>3, <1>4, <1>5 DEF FavoredSound

-----------------------------------------------------------------------------
(***************************************************************************)
(* The steps.                                                              *)
(***************************************************************************)
LEMMA InitInv == Init => IInv
<1>. SUFFICES ASSUME Init PROVE IInv
  OBVIOUS
<1>1. Blank \in Entry
  <2>1. /\ {} \in SUBSET Byte /\ NoTrace \in (SUBSET Byte) \cup {NoTrace}
        /\ 0 \in 0 .. MaxLen /\ 0 \in 0 .. MaxUs /\ 0 \in 0 .. MaxLevel
        /\ 0 \in 0 .. CalChances /\ 0 \in 0 .. MapSize
    BY QueueAssumption
  <2>. QED
    BY <2>1, Zenon DEF Blank, Entry
<1>2. /\ q \in [Id -> Entry] /\ \A i \in Id : q[i] = Blank
      /\ top_rated = [b \in Byte |-> None]
  BY <1>1 DEF Init
<1>3. Queued = {}
  BY QueueAssumption DEF Init, Queued, Id
<1>4. TypeOK
  <2>1. /\ top_rated \in [Byte -> Queued \cup {None}]
        /\ schedule \in Explore \cup Fast
    BY <1>2, QueueAssumption DEF Init
  <2>2. /\ 0 \in 0 .. MaxItems /\ 0 \in 0 .. MapSize /\ queued_items = 0
        /\ 0 \in 0 .. queued_items
    BY QueueAssumption DEF Init
  <2>. QED
    BY <1>2, <2>1, <2>2, Zenon DEF Init, TypeOK
<1>5. RefCountsTopRated
  <2>1. ASSUME NEW i \in Id
        PROVE  q[i].tc_ref = Cardinality({b \in Byte : top_rated[b] = i})
    <3>1. {b \in Byte : top_rated[b] = i} = {}
      BY <1>2, QueueAssumption DEF None, Id
    <3>2. q[i].tc_ref = 0
      BY <1>2 DEF Blank
    <3>. QED
      BY <3>1, <3>2, FS_EmptySet
  <2>2. \A i \in Id : q[i].trace_mini = NoTrace
    BY <1>2 DEF Blank
  <2>3. \A b \in Byte : top_rated[b] = None
    BY <1>2
  <2>. QED
    BY <2>1, <2>2, <2>3 DEF RefCountsTopRated
<1>6. TraceMiniOwn /\ HoldersCalibrated
  BY <1>2 DEF TraceMiniOwn, HoldersCalibrated, Blank
<1>7. Favored = {} /\ Cardinality({}) = 0
  BY <1>3, FS_EmptySet DEF Favored
<1>8. FavoredSound
  <2>1. {i \in Favored : ~q[i].was_fuzzed} = {}
    BY <1>7
  <2>. QED
    BY <1>7, <2>1 DEF Init, FavoredSound, FavoredCounts, SmallestFavoredPending,
       FavoredCalibrated
<1>. QED
  BY <1>4, <1>5, <1>6, <1>8 DEF Init, IInv, ControlInv, TracesSound, CullInv

\* What is left of the invariant for a step that leaves the queue alone.
LEMMA QueueKept ==
  ASSUME IInv, UNCHANGED <<rates, queued_items, active_items, counts, settings>>
  PROVE  /\ TracesSound' /\ HoldersCalibrated' /\ FavoredSound'
         /\ Pending' = Pending
BY DEF IInv, TracesSound, RefCountsTopRated, TraceMiniOwn, HoldersCalibrated,
   FavoredSound, FavoredCounts, SmallestFavoredPending, FavoredCalibrated,
   Favored, Queued, Pending, rates, counts, settings

\* Pick only offers entries of the queue.
LEMMA Picked ==
  ASSUME IInv, NEW i \in Id, Pick(i)
  PROVE  i \in Queued /\ i \in Int /\ i < queued_items /\ i # None
<1>1. i \in Queued
  BY DEF Pick, IInv, TypeOK
<1>. QED
  BY <1>1, QueueAssumption DEF Queued, Id, None

LEMMA MoveInv ==
  ASSUME IInv, Start \/ NoCull \/ SameCycle \/ Skip \/ Enter
  PROVE  IInv'
<1>1. UNCHANGED <<rates, queued_items, active_items, counts, schedule, settings,
                  last_scored, scan>>
  BY DEF Start, NoCull, SameCycle, Skip, Enter
<1>2. /\ queue_cur' \in Queued \cup {None}
      /\ pc' \in {"cull", "cycle", "pick", "trim", "fuzz"}
      /\ pc' \in {"trim", "fuzz"} =>
            queue_cur' # None /\ q[queue_cur'].cal_failed = 0
      /\ queued_items > 0
  <2>1. CASE Start \/ NoCull \/ SameCycle
    BY <2>1 DEF Start, NoCull, SameCycle, IInv, TypeOK, ControlInv
  <2>2. CASE Skip \/ Enter
    <3>1. PICK i \in Id :
            /\ Pick(i) /\ queue_cur' = i
            /\ pc' \in {"trim", "fuzz"} => q[i].cal_failed = 0
      BY <2>2 DEF Skip, Enter
    <3>2. i \in Queued /\ i # None
      BY <3>1, Picked
    <3>3. pc = "pick" /\ pc' \in {"pick", "trim", "fuzz"}
      BY <2>2 DEF Skip, Enter
    <3>. QED
      BY <3>1, <3>2, <3>3 DEF IInv, ControlInv
  <2>. QED
    BY <2>1, <2>2
<1>3. TypeOK'
  BY <1>1, <1>2 DEF IInv, TypeOK, Queued, rates, counts, settings, scan
<1>4. ControlInv' /\ CullInv'
  BY <1>1, <1>2 DEF IInv, ControlInv, CullInv, settings, rates
<1>. QED
  BY <1>1, <1>3, <1>4, QueueKept DEF IInv

LEMMA NewCycleInv ==
  ASSUME IInv, NewCycle \/ RescoreEnds
  PROVE  IInv'
<1>1. UNCHANGED <<rates, queued_items, active_items, counts, settings, queue_cur,
                  temp_v>>
  BY DEF NewCycle, RescoreEnds
<1>2. CASE NewCycle
  <2>1. trace_bits' \subseteq Byte
    <3>1. \A i \in Queued : q[i].trace \in SUBSET Byte
      BY EntryFields DEF IInv, TypeOK, Queued
    <3>2. trace_bits' \in LastTraces
      BY <1>2 DEF NewCycle
    <3>. QED
      BY <3>1, <3>2 DEF LastTraces
  <2>2. schedule' \in Explore
    BY <1>2 DEF NewCycle, NextSchedule, IInv, ControlInv, Explore
  <2>3. /\ pc' = "rescore" /\ at' = 0 /\ cand' = 0 /\ last_scored' = queued_items
        /\ cycle_schedules /\ pc = "cycle"
    BY <1>2 DEF NewCycle
  <2>4. TypeOK'
    BY <1>1, <2>1, <2>2, <2>3, QueueAssumption
       DEF IInv, TypeOK, Queued, rates, counts, settings
  <2>5. ControlInv' /\ CullInv'
    BY <1>1, <2>2, <2>3 DEF IInv, ControlInv, CullInv, settings
  <2>. QED
    BY <1>1, <2>4, <2>5, QueueKept DEF IInv
<1>3. CASE RescoreEnds
  <2>1. /\ pc' = "pick" /\ at' = 0 /\ trace_bits' = {} /\ pc = "rescore"
        /\ UNCHANGED <<schedule, last_scored, cand>>
    BY <1>3 DEF RescoreEnds
  <2>2. TypeOK'
    BY <1>1, <2>1, QueueAssumption
       DEF IInv, TypeOK, Queued, rates, counts, settings
  <2>3. ControlInv' /\ CullInv'
    BY <1>1, <2>1 DEF IInv, ControlInv, CullInv, settings
  <2>. QED
    BY <1>1, <2>2, <2>3, QueueKept DEF IInv
<1>. QED
  BY <1>2, <1>3

\* An entry's score: the part that is the same for a new entry, a calibration
\* and a trim.
LEMMA Scored ==
  ASSUME IInv, NEW qs, Fit(qs), NEW i \in Id, update_bitmap_score(qs, i),
         ~cycle_schedules => qs[i].cal_failed = 0,
         cycle_schedules' = cycle_schedules, queued_items' \in Int,
         queued_items <= queued_items', i < queued_items'
  PROVE  /\ q' \in [Id -> Entry] /\ TracesSound' /\ HoldersCalibrated'
         /\ top_rated' \in [Byte -> Queued' \cup {None}]
         /\ score_changed' \in BOOLEAN
         /\ \A j \in Id : /\ q'[j].favored = qs[j].favored
                           /\ q'[j].was_fuzzed = qs[j].was_fuzzed
                           /\ q'[j].cal_failed = qs[j].cal_failed
<1>. DEFINE won == Won(qs, i, qs[i].trace)
<1>1. qs[i].trace \in SUBSET Byte
  BY EntryFields DEF Fit
<1>2. won \in SUBSET Byte /\ won \subseteq qs[i].trace
  BY <1>1 DEF Won
<1>3. Take(qs, i, won, qs[i].trace)
  BY DEF update_bitmap_score
<1>. HIDE DEF won
<1>4. /\ q' \in [Id -> Entry] /\ TracesSound' /\ HoldersCalibrated'
      /\ top_rated' \in [Byte -> Queued' \cup {None}]
      /\ score_changed' \in BOOLEAN
      /\ \A j \in Id : Like(q'[j], qs[j])
  BY <1>1, <1>2, <1>3, FitTakes DEF IInv
<1>. QED
  BY <1>4 DEF Like

LEMMA AddCaseInv == IInv /\ AddCase => IInv'
<1>. SUFFICES ASSUME IInv, AddCase PROVE IInv'
  OBVIOUS
<1>1. /\ queued_items \in Int /\ queued_items \in Id /\ queued_items' \in Int
      /\ queued_items' = queued_items + 1 /\ active_items' = active_items + 1
      /\ queued_items' \in 1 .. MaxItems
  <2>1. /\ queued_items \in 0 .. MaxItems
        /\ queued_items < IF cycle_schedules THEN CycleItems ELSE MaxItems
        /\ queued_items' = queued_items + 1 /\ active_items' = active_items + 1
    BY DEF AddCase, IInv, TypeOK
  <2>2. /\ MaxItems \in Nat /\ CycleItems \in 1 .. MaxItems
    BY QueueAssumption
  <2>3. queued_items \in Nat /\ queued_items < MaxItems
    BY <2>1, <2>2
  <2>. QED
    BY <2>1, <2>2, <2>3 DEF Id
<1>2. /\ UNCHANGED <<counts, schedule, settings, last_scored, pc, queue_cur, scan>>
      /\ cycle_schedules' = cycle_schedules
      /\ pc \in {"init", "fuzz"}
  BY DEF AddCase, settings
<1>3. Queued \subseteq Queued' /\ Queued' \ Queued = {queued_items}
  BY <1>1, QueueAssumption DEF Queued, Id
<1>4. PICK tr \in SUBSET Byte, l \in 1 .. MaxLen :
        \/ \E us \in 1 .. MaxUs :
              update_bitmap_score([q EXCEPT ![queued_items] =
                                      Calibrated(New(tr, l), us)], queued_items)
        \/ /\ q' = [q EXCEPT ![queued_items] = CalFailed(New(tr, l))]
           /\ UNCHANGED <<top_rated, score_changed>>
  BY Zenon DEF AddCase, New
<1>5. /\ New(tr, l) \in Entry /\ New(tr, l).tc_ref = 0
      /\ New(tr, l).trace_mini = NoTrace /\ New(tr, l).favored = FALSE
      /\ New(tr, l).cal_failed = 0
  BY NewIs
<1>6. /\ q' \in [Id -> Entry] /\ TracesSound' /\ HoldersCalibrated'
      /\ top_rated' \in [Byte -> Queued' \cup {None}]
      /\ score_changed' \in BOOLEAN /\ ~q'[queued_items].favored
      /\ \A j \in Queued : /\ q'[j].favored = q[j].favored
                            /\ q'[j].was_fuzzed = q[j].was_fuzzed
                            /\ q'[j].cal_failed = q[j].cal_failed
  <2>0. /\ q \in [Id -> Entry] /\ Queued \subseteq Id
        /\ \A j \in Queued : j # queued_items
    BY <1>1, QueueAssumption DEF IInv, TypeOK, Queued, Id
  <2>1. ASSUME NEW e \in Entry
        PROVE  /\ [q EXCEPT ![queued_items] = e][queued_items] = e
               /\ \A j \in Queued : [q EXCEPT ![queued_items] = e][j] = q[j]
    BY <1>1, <2>0
  <2>2. ASSUME NEW us \in 1 .. MaxUs,
               update_bitmap_score([q EXCEPT ![queued_items] =
                                       Calibrated(New(tr, l), us)], queued_items)
        PROVE  /\ q' \in [Id -> Entry] /\ TracesSound' /\ HoldersCalibrated'
               /\ top_rated' \in [Byte -> Queued' \cup {None}]
               /\ score_changed' \in BOOLEAN /\ ~q'[queued_items].favored
               /\ \A j \in Queued : /\ q'[j].favored = q[j].favored
                                     /\ q'[j].was_fuzzed = q[j].was_fuzzed
                                     /\ q'[j].cal_failed = q[j].cal_failed
    <3>. DEFINE e == Calibrated(New(tr, l), us)
                qs == [q EXCEPT ![queued_items] = e]
    <3>1. /\ e \in Entry /\ e.tc_ref = 0 /\ e.trace_mini = NoTrace
          /\ e.favored = FALSE /\ e.cal_failed = 0
      BY <1>5, CalibratedIs DEF Same
    <3>. HIDE DEF e
    <3>2. Fit(qs)
      BY <1>1, <3>1, FitNew DEF IInv
    <3>3. update_bitmap_score(qs, queued_items)
      BY <2>2 DEF e
    <3>4. qs[queued_items] = e /\ \A j \in Queued : qs[j] = q[j]
      BY <2>1, <3>1
    <3>. HIDE DEF qs
    <3>5. /\ q' \in [Id -> Entry] /\ TracesSound' /\ HoldersCalibrated'
          /\ top_rated' \in [Byte -> Queued' \cup {None}]
          /\ score_changed' \in BOOLEAN
          /\ \A j \in Id : /\ q'[j].favored = qs[j].favored
                            /\ q'[j].was_fuzzed = qs[j].was_fuzzed
                            /\ q'[j].cal_failed = qs[j].cal_failed
      BY <1>1, <1>2, <3>1, <3>2, <3>3, <3>4, Scored
    <3>. QED
      BY <1>1, <2>0, <3>1, <3>4, <3>5
  <2>3. ASSUME q' = [q EXCEPT ![queued_items] = CalFailed(New(tr, l))],
               UNCHANGED <<top_rated, score_changed>>
        PROVE  /\ q' \in [Id -> Entry] /\ TracesSound' /\ HoldersCalibrated'
               /\ top_rated' \in [Byte -> Queued' \cup {None}]
               /\ score_changed' \in BOOLEAN /\ ~q'[queued_items].favored
               /\ \A j \in Queued : /\ q'[j].favored = q[j].favored
                                     /\ q'[j].was_fuzzed = q[j].was_fuzzed
                                     /\ q'[j].cal_failed = q[j].cal_failed
    <3>. DEFINE e == CalFailed(New(tr, l))
    <3>1. /\ e \in Entry /\ e.tc_ref = 0 /\ e.trace_mini = NoTrace
          /\ e.favored = FALSE
      BY <1>5, CalFailedIs, QueueAssumption DEF Same
    <3>. HIDE DEF e
    <3>2. q' = [q EXCEPT ![queued_items] = e]
      BY <2>3 DEF e
    <3>3. q' \in [Id -> Entry] /\ TracesSound' /\ HoldersCalibrated'
      BY <1>1, <1>2, <2>3, <3>1, <3>2, FitNew, FitStays DEF IInv
    <3>4. q'[queued_items] = e /\ \A j \in Queued : q'[j] = q[j]
      BY <2>1, <3>1, <3>2
    <3>5. /\ top_rated' \in [Byte -> Queued' \cup {None}]
          /\ score_changed' \in BOOLEAN
      BY <1>3, <2>3 DEF IInv, TypeOK
    <3>. QED
      BY <3>1, <3>3, <3>4, <3>5
  <2>. QED
    BY <1>4, <2>2, <2>3, Zenon
<1>7. FavoredSound'
  BY <1>1, <1>2, <1>3, <1>6, FavoredKept DEF Favored
<1>8. TypeOK'
  BY <1>1, <1>2, <1>3, <1>6, QueueAssumption
     DEF IInv, TypeOK, ControlInv, counts, settings, scan
<1>9. ControlInv' /\ CullInv'
  <2>1. queue_cur \in Queued \cup {None}
    BY DEF IInv, TypeOK
  <2>. QED
    BY <1>1, <1>2, <1>6, <2>1, QueueAssumption
       DEF IInv, ControlInv, CullInv, settings, scan
<1>. QED
  BY <1>6, <1>7, <1>8, <1>9 DEF IInv

\* A calibration or a trim of entry i, which keeps what cull_queue counts.
LEMMA RatedInv ==
  ASSUME IInv, NEW i \in Queued, NEW e \in Entry, Same(e, q[i]),
         e.favored = q[i].favored, e.was_fuzzed = q[i].was_fuzzed,
         q[i].cal_failed = 0 => e.cal_failed = 0,
         ~cycle_schedules => e.cal_failed = 0,
         update_bitmap_score([q EXCEPT ![i] = e], i),
         UNCHANGED <<queued_items, active_items, counts, settings>>
  PROVE  /\ q' \in [Id -> Entry] /\ TracesSound' /\ HoldersCalibrated'
         /\ FavoredSound' /\ top_rated' \in [Byte -> Queued \cup {None}]
         /\ score_changed' \in BOOLEAN /\ q'[i].cal_failed = e.cal_failed
<1>. DEFINE qs == [q EXCEPT ![i] = e]
<1>1. /\ q \in [Id -> Entry] /\ i \in Id /\ queued_items \in Int
      /\ i < queued_items /\ Queued' = Queued /\ Queued \subseteq Id
  BY QueueAssumption DEF IInv, TypeOK, Queued
<1>2. Fit(qs)
  BY <1>1, FitUpdate DEF IInv
<1>3. \A j \in Id : qs[j] = IF j = i THEN e ELSE q[j]
  BY <1>1
<1>4. update_bitmap_score(qs, i)
  OBVIOUS
<1>. HIDE DEF qs
<1>5. /\ q' \in [Id -> Entry] /\ TracesSound' /\ HoldersCalibrated'
      /\ top_rated' \in [Byte -> Queued' \cup {None}]
      /\ score_changed' \in BOOLEAN
      /\ \A j \in Id : /\ q'[j].favored = qs[j].favored
                        /\ q'[j].was_fuzzed = qs[j].was_fuzzed
                        /\ q'[j].cal_failed = qs[j].cal_failed
  BY <1>1, <1>2, <1>3, <1>4, Scored DEF settings
<1>6. \A j \in Queued : /\ q'[j].favored = q[j].favored
                        /\ q'[j].was_fuzzed = q[j].was_fuzzed
                        /\ q[j].cal_failed = 0 => q'[j].cal_failed = 0
  BY <1>1, <1>3, <1>5
<1>7. FavoredSound'
  BY <1>1, <1>6, FavoredKept DEF Favored, settings
<1>. QED
  BY <1>1, <1>3, <1>5, <1>7

LEMMA RecalibrateInv == IInv /\ Recalibrate => IInv'
<1>. SUFFICES ASSUME IInv, Recalibrate PROVE IInv'
  OBVIOUS
<1>1. PICK i \in Id, us \in 1 .. MaxUs :
        /\ Pick(i) /\ queue_cur' = i
        /\ update_bitmap_score([q EXCEPT ![i] = Calibrated(q[i], us)], i)
        /\ pc' = IF q[i].was_fuzzed THEN "fuzz" ELSE "trim"
  BY Zenon DEF Recalibrate
<1>2. /\ UNCHANGED <<queued_items, active_items, counts, schedule, settings,
                     last_scored, scan>>
      /\ pc = "pick"
  BY DEF Recalibrate
<1>3. i \in Queued /\ i # None
  BY <1>1, Picked
<1>4. q[i] \in Entry
  BY DEF IInv, TypeOK
<1>. DEFINE e == Calibrated(q[i], us)
<1>5. /\ e \in Entry /\ Same(e, q[i]) /\ e.favored = q[i].favored
      /\ e.was_fuzzed = q[i].was_fuzzed /\ e.cal_failed = 0
  BY <1>4, CalibratedIs
<1>6. update_bitmap_score([q EXCEPT ![i] = e], i)
  BY <1>1
<1>. HIDE DEF e
<1>7. /\ q' \in [Id -> Entry] /\ TracesSound' /\ HoldersCalibrated'
      /\ FavoredSound' /\ top_rated' \in [Byte -> Queued \cup {None}]
      /\ score_changed' \in BOOLEAN /\ q'[i].cal_failed = 0
  BY <1>2, <1>3, <1>5, <1>6, RatedInv
<1>8. pc' \in {"fuzz", "trim"}
  BY <1>1
<1>9. TypeOK'
  BY <1>1, <1>2, <1>3, <1>7, <1>8
     DEF IInv, TypeOK, Queued, counts, settings, scan
<1>10. ControlInv' /\ CullInv'
  BY <1>1, <1>2, <1>3, <1>7, <1>8 DEF IInv, ControlInv, CullInv, settings
<1>. QED
  BY <1>7, <1>9, <1>10 DEF IInv

LEMMA TrimInv == IInv /\ Trim => IInv'
<1>. SUFFICES ASSUME IInv, Trim PROVE IInv'
  OBVIOUS
<1>1. /\ UNCHANGED <<queued_items, active_items, counts, schedule, settings,
                     last_scored, queue_cur, scan>>
      /\ pc = "trim" /\ pc' = "fuzz"
  BY DEF Trim
<1>2. /\ queue_cur \in Queued /\ queue_cur \in Id /\ q[queue_cur] \in Entry
      /\ queue_cur # None /\ q[queue_cur].cal_failed = 0
  BY <1>1 DEF IInv, TypeOK, ControlInv, Queued
<1>3. /\ q' \in [Id -> Entry] /\ TracesSound' /\ HoldersCalibrated'
      /\ FavoredSound' /\ top_rated' \in [Byte -> Queued \cup {None}]
      /\ score_changed' \in BOOLEAN /\ q'[queue_cur].cal_failed = 0
  <2>0. \/ UNCHANGED rates
        \/ \E l \in 1 .. q[queue_cur].len - 1 :
              update_bitmap_score([q EXCEPT ![queue_cur] =
                                      Trimmed(q[queue_cur], l)], queue_cur)
    BY Zenon DEF Trim
  <2>1. ASSUME UNCHANGED rates
        PROVE  /\ q' \in [Id -> Entry] /\ TracesSound' /\ HoldersCalibrated'
               /\ FavoredSound' /\ top_rated' \in [Byte -> Queued \cup {None}]
               /\ score_changed' \in BOOLEAN /\ q'[queue_cur].cal_failed = 0
    BY <1>1, <1>2, <2>1, QueueKept DEF IInv, TypeOK, rates
  <2>2. ASSUME NEW l \in 1 .. q[queue_cur].len - 1,
               update_bitmap_score([q EXCEPT ![queue_cur] =
                                       Trimmed(q[queue_cur], l)], queue_cur)
        PROVE  /\ q' \in [Id -> Entry] /\ TracesSound' /\ HoldersCalibrated'
               /\ FavoredSound' /\ top_rated' \in [Byte -> Queued \cup {None}]
               /\ score_changed' \in BOOLEAN /\ q'[queue_cur].cal_failed = 0
    <3>. DEFINE e == Trimmed(q[queue_cur], l)
    <3>1. l \in 1 .. MaxLen
      BY <1>2, EntryFields, QueueAssumption
    <3>2. /\ e \in Entry /\ Same(e, q[queue_cur])
          /\ e.favored = q[queue_cur].favored
          /\ e.was_fuzzed = q[queue_cur].was_fuzzed
          /\ e.cal_failed = q[queue_cur].cal_failed
      BY <1>2, <3>1, TrimmedIs
    <3>. HIDE DEF e
    <3>3. update_bitmap_score([q EXCEPT ![queue_cur] = e], queue_cur)
      BY <2>2 DEF e
    <3>4. e.cal_failed = 0
      BY <1>2, <3>2
    <3>. QED
      BY <1>1, <1>2, <3>2, <3>3, <3>4, RatedInv
  <2>. QED
    BY <2>0, <2>1, <2>2, Zenon
<1>4. TypeOK'
  BY <1>1, <1>3 DEF IInv, TypeOK, Queued, counts, settings, scan
<1>5. ControlInv' /\ CullInv'
  BY <1>1, <1>2, <1>3 DEF IInv, ControlInv, CullInv, settings
<1>. QED
  BY <1>3, <1>4, <1>5 DEF IInv

\* abandon_entry of entry i, whose state f is what is left of a calibration
\* that failed once more, or the entry as it was.
LEMMA AbandonInv ==
  ASSUME IInv, NEW i \in Queued, NEW f \in Entry, Same(f, q[i]),
         f.favored = q[i].favored, f.was_fuzzed = q[i].was_fuzzed,
         q[i].cal_failed = 0 => f.cal_failed = 0,
         q' = [q EXCEPT ![i] = Abandoned(f)], AbandonCounts(f),
         UNCHANGED <<queued_favored, queued_items, top_rated, settings>>
  PROVE  /\ q' \in [Id -> Entry] /\ TracesSound' /\ HoldersCalibrated'
         /\ FavoredSound' /\ pending_favored' \in 0 .. MaxItems
         /\ smallest_favored' \in Queued \cup {None}
<1>. DEFINE e == Abandoned(f)
<1>1. /\ q \in [Id -> Entry] /\ i \in Id /\ queued_items \in Int
      /\ Queued' = Queued /\ Queued \subseteq Id
  BY QueueAssumption DEF IInv, TypeOK, Queued
<1>2. /\ e \in Entry /\ Same(e, f) /\ e.favored = f.favored
      /\ e.was_fuzzed = (f.was_fuzzed \/ Retires(f))
      /\ e.cal_failed = f.cal_failed
  BY AbandonedIs
<1>. HIDE DEF e
<1>3. /\ q' = [q EXCEPT ![i] = e]
      /\ \A j \in Id : q'[j] = IF j = i THEN e ELSE q[j]
  BY <1>1 DEF e
<1>4. Same(e, q[i]) /\ e.favored = q[i].favored
      /\ (q[i].cal_failed = 0 => e.cal_failed = 0)
  BY <1>2 DEF Same
<1>5. q' \in [Id -> Entry] /\ TracesSound' /\ HoldersCalibrated'
  BY <1>1, <1>2, <1>3, <1>4, FitUpdate, FitStays DEF IInv, settings
<1>6. Favored' = Favored
  BY <1>1, <1>3, <1>4 DEF Favored
<1>7. CASE Retires(f) /\ f.favored
  <2>1. /\ pending_favored' = pending_favored - 1 /\ smallest_favored' = None
        /\ queued_favored' = queued_favored /\ cycle_schedules' = cycle_schedules
    BY <1>7 DEF AbandonCounts, settings
  <2>2. i \in Pending /\ e.was_fuzzed = TRUE
    <3>1. f.was_fuzzed = FALSE /\ i \in Favored
      BY <1>7, EntryFields DEF Retires, Favored
    <3>. QED
      BY <1>2, <1>7, <3>1 DEF Pending
  <2>3. Pending' = Pending \ {i}
    <3>1. Favored \subseteq Id
      BY <1>1 DEF Favored
    <3>. QED
      BY <1>3, <1>6, <2>2, <3>1 DEF Pending
  <2>4. /\ IsFiniteSet(Pending) /\ Cardinality(Pending) \in 0 .. MaxItems
        /\ Pending' \in SUBSET Id /\ Cardinality(Pending') \in 0 .. MaxItems
    <3>1. Pending \in SUBSET Id
      BY <1>1 DEF Pending, Favored
    <3>2. Pending' \in SUBSET Id
      BY <2>3, <3>1
    <3>. QED
      BY <3>1, <3>2, Subsets
  <2>5. Cardinality(Pending') = Cardinality(Pending) - 1
    BY <2>2, <2>3, <2>4, FS_RemoveElement
  <2>6. pending_favored = Cardinality(Pending)
    BY DEF IInv, FavoredSound, FavoredCounts, Pending
  <2>7. pending_favored' = Cardinality(Pending')
    BY <2>1, <2>5, <2>6
  <2>8. FavoredCounts'
    BY <1>6, <2>1, <2>7 DEF IInv, FavoredSound, FavoredCounts, Pending
  <2>9. SmallestFavoredPending'
    BY <2>1 DEF SmallestFavoredPending
  <2>10. FavoredCalibrated'
    <3>1. Favored \subseteq Id
      BY <1>1 DEF Favored
    <3>. QED
      BY <1>3, <1>4, <1>6, <2>1, <3>1 DEF IInv, FavoredSound, FavoredCalibrated
  <2>. QED
    BY <1>5, <2>1, <2>4, <2>7, <2>8, <2>9, <2>10 DEF FavoredSound
<1>8. CASE ~(Retires(f) /\ f.favored)
  <2>1. UNCHANGED counts /\ cycle_schedules' = cycle_schedules
    BY <1>8 DEF AbandonCounts, counts, settings
  <2>2. ASSUME NEW j \in Favored
        PROVE  /\ q'[j].was_fuzzed = q[j].was_fuzzed
               /\ q[j].cal_failed = 0 => q'[j].cal_failed = 0
    <3>1. CASE j = i
      <4>1. f.favored
        BY <3>1 DEF Favored
      <4>2. e.was_fuzzed = f.was_fuzzed
        BY <1>2, <1>8, <4>1, EntryFields
      <4>. QED
        BY <1>1, <1>3, <1>4, <3>1, <4>2
    <3>2. CASE j # i
      BY <1>1, <1>3, <3>2 DEF Favored
    <3>. QED
      BY <3>1, <3>2
  <2>3. \A j \in Queued : q'[j].favored = q[j].favored
    BY <1>1, <1>3, <1>4
  <2>4. FavoredSound'
    BY <1>1, <2>1, <2>2, <2>3, FavoredKept
  <2>. QED
    BY <1>5, <2>1, <2>4 DEF IInv, TypeOK, counts
<1>. QED
  BY <1>7, <1>8

LEMMA CalibrationFailsInv == IInv /\ CalibrationFails => IInv'
<1>. SUFFICES ASSUME IInv, CalibrationFails PROVE IInv'
  OBVIOUS
<1>1. PICK i \in Id :
        /\ Pick(i) /\ q[i].cal_failed > 0 /\ queue_cur' = i
        /\ abandon_entry(IF q[i].cal_failed < CalChances
                            THEN [q EXCEPT ![i] = CalFailed(q[i])] ELSE q, i)
  BY Zenon DEF CalibrationFails
<1>2. /\ UNCHANGED <<queued_items, active_items, top_rated, score_changed,
                     schedule, settings, last_scored, pc, scan>>
      /\ pc = "pick"
  BY DEF CalibrationFails
<1>3. /\ i \in Queued /\ i # None /\ q[i] \in Entry /\ q \in [Id -> Entry]
  BY <1>1, Picked DEF IInv, TypeOK
<1>4. q[i].cal_failed # 0
  BY <1>1
<1>5. PICK f \in Entry :
        /\ Same(f, q[i]) /\ f.favored = q[i].favored
        /\ f.was_fuzzed = q[i].was_fuzzed
        /\ q' = [q EXCEPT ![i] = Abandoned(f)] /\ AbandonCounts(f)
        /\ UNCHANGED queued_favored
  <2>1. CASE q[i].cal_failed < CalChances
    <3>. DEFINE f == CalFailed(q[i])
                qs == [q EXCEPT ![i] = f]
    <3>1. /\ f \in Entry /\ Same(f, q[i]) /\ f.favored = q[i].favored
          /\ f.was_fuzzed = q[i].was_fuzzed
      BY <1>3, <2>1, CalFailedIs
    <3>2. abandon_entry(qs, i)
      BY <1>1, <2>1
    <3>. HIDE DEF f
    <3>3. qs[i] = f
      BY <1>3
    <3>4. q' = [qs EXCEPT ![i] = Abandoned(f)] /\ AbandonCounts(f)
          /\ UNCHANGED queued_favored
      BY <3>2, <3>3, Zenon DEF abandon_entry, Abandoned
    <3>5. q' = [q EXCEPT ![i] = Abandoned(f)]
      BY <1>3, <3>4
    <3>. QED
      BY <3>1, <3>4, <3>5
  <2>2. CASE ~(q[i].cal_failed < CalChances)
    <3>1. abandon_entry(q, i)
      BY <1>1, <2>2
    <3>2. q' = [q EXCEPT ![i] = Abandoned(q[i])] /\ AbandonCounts(q[i])
          /\ UNCHANGED queued_favored
      BY <3>1, Zenon DEF abandon_entry, Abandoned
    <3>. QED
      BY <1>3, <3>2 DEF Same
  <2>. QED
    BY <2>1, <2>2
<1>6. /\ q' \in [Id -> Entry] /\ TracesSound' /\ HoldersCalibrated'
      /\ FavoredSound' /\ pending_favored' \in 0 .. MaxItems
      /\ smallest_favored' \in Queued \cup {None}
  BY <1>2, <1>3, <1>4, <1>5, AbandonInv
<1>7. TypeOK'
  BY <1>1, <1>2, <1>3, <1>5, <1>6 DEF IInv, TypeOK, Queued, settings, scan
<1>8. ControlInv' /\ CullInv'
  BY <1>2 DEF IInv, ControlInv, CullInv, settings
<1>. QED
  BY <1>6, <1>7, <1>8 DEF IInv

LEMMA FuzzEndsInv == IInv /\ FuzzEnds => IInv'
<1>. SUFFICES ASSUME IInv, FuzzEnds PROVE IInv'
  OBVIOUS
<1>1. /\ UNCHANGED <<queued_items, active_items, top_rated, score_changed,
                     schedule, settings, last_scored, queue_cur, scan>>
      /\ pc = "fuzz" /\ pc' \in {"cull", "pick"} /\ abandon_entry(q, queue_cur)
  BY DEF FuzzEnds
<1>2. /\ queue_cur \in Queued /\ queue_cur \in Id /\ q[queue_cur] \in Entry
  BY <1>1 DEF IInv, TypeOK, ControlInv, Queued
<1>3. /\ q' = [q EXCEPT ![queue_cur] = Abandoned(q[queue_cur])]
      /\ AbandonCounts(q[queue_cur]) /\ UNCHANGED queued_favored
  BY <1>1, Zenon DEF abandon_entry, Abandoned
<1>4. /\ q' \in [Id -> Entry] /\ TracesSound' /\ HoldersCalibrated'
      /\ FavoredSound' /\ pending_favored' \in 0 .. MaxItems
      /\ smallest_favored' \in Queued \cup {None}
  <2>1. Same(q[queue_cur], q[queue_cur])
    BY DEF Same
  <2>. QED
    BY <1>1, <1>2, <1>3, <2>1, AbandonInv
<1>5. TypeOK'
  BY <1>1, <1>3, <1>4 DEF IInv, TypeOK, Queued, settings, scan
<1>6. ControlInv' /\ CullInv'
  BY <1>1 DEF IInv, ControlInv, CullInv, settings
<1>. QED
  BY <1>4, <1>5, <1>6 DEF IInv

LEMMA CullBeginsInv == IInv /\ CullBegins => IInv'
<1>. SUFFICES ASSUME IInv, CullBegins PROVE IInv'
  OBVIOUS
<1>1. /\ pc = "cull" /\ pc' = "culling" /\ score_changed' = FALSE
      /\ queued_favored' = 0 /\ pending_favored' = 0 /\ smallest_favored' = None
      /\ at' = 0 /\ temp_v' = Byte
      /\ UNCHANGED <<queued_items, active_items, top_rated, schedule, settings,
                     last_scored, queue_cur, cand, trace_bits>>
      /\ q' = [i \in Id |-> IF i \in Queued THEN Marked(q[i], FALSE) ELSE q[i]]
  BY DEF CullBegins
<1>2. q \in [Id -> Entry] /\ Queued' = Queued /\ Queued \subseteq Id
  BY <1>1 DEF IInv, TypeOK, Queued
<1>3. ASSUME NEW i \in Id
      PROVE  /\ q'[i] \in Entry /\ Same(q'[i], q[i])
             /\ q'[i].cal_failed = q[i].cal_failed
             /\ i \in Queued => q'[i].favored = FALSE
  <2>1. q[i] \in Entry /\ FALSE \in BOOLEAN
    BY <1>2
  <2>2. CASE i \in Queued
    <3>1. q'[i] = Marked(q[i], FALSE)
      BY <1>1, <2>2
    <3>. QED
      BY <2>1, <3>1, MarkedIs
  <2>3. CASE i \notin Queued
    BY <1>1, <2>1, <2>3 DEF Same
  <2>. QED
    BY <2>2, <2>3
<1>4. q' \in [Id -> Entry]
  BY <1>1, <1>3
<1>5. TracesSound' /\ HoldersCalibrated'
  <2>1. Fit(q')
    BY <1>3, <1>4, FitLike DEF IInv, Same
  <2>. QED
    BY <1>1, <2>1, FitStays DEF settings
<1>6. Favored' = {} /\ Pending' = {}
  BY <1>2, <1>3 DEF Favored, Pending
<1>7. FavoredSound'
  <2>1. {i \in Favored : ~q[i].was_fuzzed}' = {}
    BY <1>6
  <2>. QED
    BY <1>1, <1>6, <2>1, FS_EmptySet
       DEF FavoredSound, FavoredCounts, SmallestFavoredPending, FavoredCalibrated
<1>8. TypeOK'
  <2>1. 0 \in 0 .. MaxItems /\ 0 \in 0 .. MapSize /\ FALSE \in BOOLEAN
    BY QueueAssumption
  <2>2. /\ top_rated' \in [Byte -> Queued' \cup {None}]
        /\ last_scored' \in 0 .. queued_items'
        /\ cycle_schedules' \in BOOLEAN /\ disable_redundant' \in BOOLEAN
    BY <1>1, <1>2 DEF IInv, TypeOK, settings
  <2>. QED
    BY <1>1, <1>2, <1>4, <2>1, <2>2 DEF IInv, TypeOK
<1>9. ControlInv' /\ CullInv'
  BY <1>1, <1>6 DEF IInv, ControlInv, CullInv, settings
<1>. QED
  BY <1>5, <1>7, <1>8, <1>9 DEF IInv

\* A holder that cull_queue chooses joins the favored entries.
LEMMA FavorInv ==
  ASSUME IInv, pc = "culling", pc' = "culling", NEW t \in Queued,
         ~cycle_schedules => q[t].cal_failed = 0, Favor(t),
         UNCHANGED <<queued_items, active_items, top_rated, score_changed,
                     schedule, settings>>
  PROVE  /\ q' \in [Id -> Entry] /\ TracesSound' /\ HoldersCalibrated'
         /\ FavoredSound' /\ CullInv'
         /\ queued_favored' \in 0 .. MaxItems /\ pending_favored' \in 0 .. MaxItems
         /\ smallest_favored' \in Queued \cup {None}
<1>1. /\ q \in [Id -> Entry] /\ t \in Id /\ Queued' = Queued /\ Queued \subseteq Id
      /\ cycle_schedules' = cycle_schedules /\ q[t] \in Entry
  BY DEF IInv, TypeOK, Queued, settings
<1>2. CASE q[t].favored \/ q[t].disabled
  <2>1. UNCHANGED <<rates, queued_items, active_items, counts, settings>>
    BY <1>2 DEF Favor, rates
  <2>2. /\ TracesSound' /\ HoldersCalibrated' /\ FavoredSound'
        /\ Pending' = Pending
    BY <2>1, QueueKept
  <2>3. CullInv'
    BY <2>1, <2>2 DEF IInv, CullInv, counts
  <2>. QED
    BY <1>1, <2>1, <2>2, <2>3 DEF IInv, TypeOK, rates, counts
<1>3. CASE ~(q[t].favored \/ q[t].disabled)
  <2>. DEFINE e == Marked(q[t], TRUE)
  <2>1. /\ q' = [q EXCEPT ![t] = e] /\ queued_favored' = queued_favored + 1
        /\ IF q[t].was_fuzzed THEN UNCHANGED <<pending_favored, smallest_favored>>
           ELSE /\ pending_favored' = pending_favored + 1
                /\ smallest_favored' =
                      IF smallest_favored = None \/ smallest_favored > t
                      THEN t ELSE smallest_favored
    BY <1>3 DEF Favor
  <2>2. /\ e \in Entry /\ Same(e, q[t]) /\ e.favored = TRUE
        /\ e.was_fuzzed = q[t].was_fuzzed /\ e.cal_failed = q[t].cal_failed
    BY <1>1, MarkedIs, Zenon
  <2>. HIDE DEF e
  <2>3. \A j \in Id : q'[j] = IF j = t THEN e ELSE q[j]
    BY <1>1, <2>1
  <2>4. q' \in [Id -> Entry] /\ TracesSound' /\ HoldersCalibrated'
    BY <1>1, <2>1, <2>2, FitUpdate, FitStays DEF IInv
  <2>5. Favored' = Favored \cup {t} /\ t \notin Favored /\ t \notin Pending
        /\ Pending \subseteq Favored /\ Favored \subseteq Id
    BY <1>1, <1>3, <2>2, <2>3 DEF Favored, Pending
  <2>6. Pending' = IF q[t].was_fuzzed THEN Pending ELSE Pending \cup {t}
    BY <1>1, <2>2, <2>3, <2>5 DEF Pending
  <2>7. /\ IsFiniteSet(Favored) /\ IsFiniteSet(Pending)
        /\ Cardinality(Favored) \in Nat /\ Cardinality(Pending) \in Nat
        /\ Cardinality(Favored') \in 0 .. MaxItems
        /\ Cardinality(Pending') \in 0 .. MaxItems
    <3>1. Favored \in SUBSET Id /\ Pending \in SUBSET Id
      BY <2>5
    <3>2. Favored' \in SUBSET Id /\ Pending' \in SUBSET Id
      BY <1>1, <2>5, <2>6
    <3>. QED
      BY <3>1, <3>2, Subsets, FS_CardinalityType
  <2>8. /\ queued_favored = Cardinality(Favored)
        /\ pending_favored = Cardinality(Pending)
    BY DEF IInv, FavoredSound, FavoredCounts, Pending
  <2>9. queued_favored' = Cardinality(Favored')
    <3>1. Cardinality(Favored') = Cardinality(Favored) + 1
      BY <2>5, <2>7, FS_AddElement
    <3>. QED
      BY <2>1, <2>8, <3>1
  <2>10. pending_favored' = Cardinality(Pending')
    <3>1. ~q[t].was_fuzzed => Cardinality(Pending') = Cardinality(Pending) + 1
      BY <2>5, <2>6, <2>7, FS_AddElement
    <3>. QED
      BY <2>1, <2>6, <2>8, <3>1
  <2>11. FavoredCounts' /\ FavoredCalibrated'
    <3>1. FavoredCounts'
      BY <2>9, <2>10 DEF FavoredCounts, Pending
    <3>2. FavoredCalibrated'
      BY <1>1, <2>2, <2>3, <2>5 DEF IInv, FavoredSound, FavoredCalibrated
    <3>. QED
      BY <3>1, <3>2
  <2>12. Pending \subseteq Int /\ t \in Int /\ None \notin Id
    BY <1>1, <2>5, QueueAssumption DEF Id, None
  <2>13. IF Pending = {} THEN smallest_favored = None
         ELSE /\ smallest_favored \in Pending
              /\ \A i \in Pending : smallest_favored <= i
    BY DEF IInv, CullInv
  <2>14. IF Pending' = {} THEN smallest_favored' = None
         ELSE /\ smallest_favored' \in Pending'
              /\ \A i \in Pending' : smallest_favored' <= i
    <3>1. CASE q[t].was_fuzzed
      BY <2>1, <2>6, <2>13, <3>1
    <3>2. CASE ~q[t].was_fuzzed /\ Pending = {}
      BY <2>1, <2>6, <2>12, <2>13, <3>2
    <3>3. CASE ~q[t].was_fuzzed /\ Pending # {}
      <4>1. smallest_favored \in Pending /\ \A i \in Pending : smallest_favored <= i
        BY <2>13, <3>3
      <4>2. smallest_favored # None
        BY <2>5, <2>12, <4>1
      <4>3. CASE smallest_favored > t
        BY <2>1, <2>6, <2>12, <3>3, <4>1, <4>3
      <4>4. CASE ~(smallest_favored > t)
        BY <2>1, <2>6, <2>12, <3>3, <4>1, <4>2, <4>4
      <4>. QED
        BY <4>3, <4>4
    <3>. QED
      BY <3>1, <3>2, <3>3
  <2>15. Pending' \in SUBSET Int /\ None \notin Pending' /\ Pending' \subseteq Queued
    BY <1>1, <2>5, <2>6, <2>12 DEF Favored
  <2>16. CullInv'
    BY <2>14 DEF CullInv
  <2>17. SmallestFavoredPending'
    <3>. SUFFICES ASSUME smallest_favored' # None
                  PROVE  smallest_favored' = SmallestOf(Pending')
      BY DEF SmallestFavoredPending, Pending
    <3>1. Pending' # {} /\ Min(Pending') = smallest_favored'
      BY <2>14, <2>15, MinIs
    <3>. QED
      BY <3>1 DEF SmallestOf
  <2>. QED
    BY <2>4, <2>7, <2>9, <2>10, <2>11, <2>14, <2>15, <2>16, <2>17
       DEF FavoredSound
<1>. QED
  BY <1>2, <1>3

LEMMA CullByteInv == IInv /\ CullByte => IInv'
<1>. SUFFICES ASSUME IInv, CullByte PROVE IInv'
  OBVIOUS
<1>1. /\ pc = "culling" /\ pc' = "culling" /\ at < MapSize /\ at' = at + 1
      /\ UNCHANGED <<queued_items, active_items, top_rated, score_changed, schedule,
                     settings, last_scored, queue_cur, cand, trace_bits>>
  BY DEF CullByte
<1>2. at \in Byte /\ at' \in 0 .. MapSize
  BY <1>1, QueueAssumption DEF IInv, TypeOK, Byte
<1>3. /\ q' \in [Id -> Entry] /\ TracesSound' /\ HoldersCalibrated'
      /\ FavoredSound' /\ CullInv' /\ temp_v' \subseteq Byte
      /\ queued_favored' \in 0 .. MaxItems /\ pending_favored' \in 0 .. MaxItems
      /\ smallest_favored' \in Queued \cup {None}
  <2>1. CASE Chooses(at)
    <3>. DEFINE t == top_rated[at]
    <3>1. t \in Queued
      BY <1>2, <2>1 DEF Chooses, IInv, TypeOK
    <3>2. ~cycle_schedules => q[t].cal_failed = 0
      BY <1>2, <2>1 DEF Chooses, IInv, HoldersCalibrated
    <3>3. Favor(t) /\ temp_v' \subseteq temp_v
      BY <2>1 DEF CullByte
    <3>. HIDE DEF t
    <3>4. temp_v' \subseteq Byte
      BY <3>3 DEF IInv, TypeOK
    <3>. QED
      BY <1>1, <3>1, <3>2, <3>3, <3>4, FavorInv
  <2>2. CASE ~Chooses(at)
    <3>1. UNCHANGED <<rates, queued_items, active_items, counts, settings, temp_v>>
      BY <1>1, <2>2 DEF CullByte, rates
    <3>2. /\ TracesSound' /\ HoldersCalibrated' /\ FavoredSound'
          /\ Pending' = Pending
      BY <3>1, QueueKept
    <3>3. CullInv'
      BY <1>1, <3>1, <3>2 DEF IInv, CullInv, counts
    <3>. QED
      BY <3>1, <3>2, <3>3 DEF IInv, TypeOK, rates, counts
  <2>. QED
    BY <2>1, <2>2
<1>4. TypeOK'
  BY <1>1, <1>2, <1>3 DEF IInv, TypeOK, Queued, settings
<1>5. ControlInv'
  BY <1>1 DEF IInv, ControlInv, settings
<1>. QED
  BY <1>3, <1>4, <1>5 DEF IInv

LEMMA CullEndsInv == IInv /\ CullEnds => IInv'
<1>. SUFFICES ASSUME IInv, CullEnds PROVE IInv'
  OBVIOUS
<1>1. /\ pc = "culling" /\ pc' = "cycle" /\ at' = 0 /\ temp_v' = {}
      /\ UNCHANGED <<queued_items, active_items, top_rated, score_changed, counts,
                     schedule, settings, last_scored, queue_cur, cand, trace_bits>>
      /\ q' = [i \in Id |-> IF i \in Queued
                            THEN mark_as_redundant(q[i], ~q[i].favored) ELSE q[i]]
  BY DEF CullEnds
<1>2. /\ q \in [Id -> Entry] /\ Queued' = Queued /\ Queued \subseteq Id
      /\ disable_redundant \in BOOLEAN /\ queued_items \in Int
      /\ queued_items' = queued_items
  BY <1>1, QueueAssumption DEF IInv, TypeOK, Queued
<1>3. ASSUME NEW i \in Id
      PROVE  /\ q'[i] \in Entry /\ q'[i].trace = q[i].trace
             /\ q'[i].tc_ref = q[i].tc_ref
             /\ q'[i].trace_mini \in {NoTrace, q[i].trace_mini}
             /\ q'[i].favored = q[i].favored /\ q'[i].was_fuzzed = q[i].was_fuzzed
             /\ q'[i].cal_failed = q[i].cal_failed
  <2>1. q[i] \in Entry
    BY <1>2
  <2>2. CASE i \in Queued
    <3>1. q'[i] = mark_as_redundant(q[i], ~q[i].favored)
      BY <1>1, <2>2
    <3>2. PICK s \in BOOLEAN : s = ~q[i].favored
      BY Zenon
    <3>3. q'[i] = mark_as_redundant(q[i], s)
      BY <3>1, <3>2, Zenon
    <3>. QED
      BY <1>2, <2>1, <3>3, RedundantIs
  <2>3. CASE i \notin Queued
    BY <1>1, <2>1, <2>3
  <2>. QED
    BY <2>2, <2>3
<1>4. q' \in [Id -> Entry]
  BY <1>1, <1>3
<1>5. TracesSound' /\ HoldersCalibrated'
  <2>1. Fit(q')
    BY <1>3, <1>4, FitLike DEF IInv
  <2>. QED
    BY <1>1, <2>1, FitStays DEF settings
<1>6. FavoredSound'
  BY <1>1, <1>2, <1>3, FavoredKept DEF Favored, settings
<1>7. TypeOK'
  BY <1>1, <1>2, <1>4, QueueAssumption DEF IInv, TypeOK, counts, settings
<1>8. ControlInv' /\ CullInv'
  BY <1>1 DEF IInv, ControlInv, CullInv, settings
<1>. QED
  BY <1>5, <1>6, <1>7, <1>8 DEF IInv

LEMMA RescoreInv == IInv /\ Rescore => IInv'
<1>. SUFFICES ASSUME IInv, Rescore PROVE IInv'
  OBVIOUS
<1>1. /\ pc = "rescore" /\ pc' = "rescore" /\ at < MapSize
      /\ UNCHANGED <<queued_items, active_items, counts, schedule, settings,
                     last_scored, queue_cur, temp_v, trace_bits>>
      /\ IF at \in q[cand].trace THEN update_bitmap_rescore(cand, at)
         ELSE UNCHANGED rates
      /\ IF cand + 1 < queued_items THEN cand' = cand + 1 /\ at' = at
         ELSE cand' = 0 /\ at' = at + 1
  BY DEF Rescore
<1>2. /\ queued_items \in 1 .. MaxItems /\ cand \in 0 .. MaxItems
      /\ cand < queued_items /\ cycle_schedules /\ at \in 0 .. MapSize
  BY <1>1, QueueAssumption DEF IInv, TypeOK, ControlInv
<1>3. /\ at \in Byte /\ at' \in 0 .. MapSize /\ cand \in Id
      /\ cand' \in 0 .. MaxItems /\ cand' < queued_items
  BY <1>1, <1>2, QueueAssumption DEF Byte, Id
<1>4. /\ q' \in [Id -> Entry] /\ TracesSound' /\ HoldersCalibrated'
      /\ FavoredSound' /\ top_rated' \in [Byte -> Queued \cup {None}]
      /\ score_changed' \in BOOLEAN
  <2>1. CASE at \in q[cand].trace
    <3>. DEFINE won == Won(q, cand, {at})
    <3>1. won \in SUBSET Byte /\ won \subseteq q[cand].trace
      BY <1>3, <2>1 DEF Won
    <3>2. Take(q, cand, won, trace_bits)
      BY <1>1, <2>1 DEF update_bitmap_rescore
    <3>. HIDE DEF won
    <3>3. /\ trace_bits \in SUBSET Byte /\ queued_items' \in Int
          /\ queued_items' = queued_items /\ cycle_schedules' = cycle_schedules
          /\ Queued' = Queued /\ Queued \subseteq Id /\ q \in [Id -> Entry]
      BY <1>1, <1>2, QueueAssumption DEF IInv, TypeOK, Queued, settings
    <3>4. Fit(q)
      BY <3>3, FitLike DEF IInv
    <3>5. queued_items <= queued_items' /\ cand < queued_items'
      BY <1>2, <3>3
    <3>6. /\ q' \in [Id -> Entry] /\ TracesSound' /\ HoldersCalibrated'
          /\ top_rated' \in [Byte -> Queued' \cup {None}]
          /\ score_changed' \in BOOLEAN
          /\ \A j \in Id : Like(q'[j], q[j])
      BY <1>2, <1>3, <3>1, <3>2, <3>3, <3>4, <3>5, FitTakes DEF IInv
    <3>7. FavoredSound'
      BY <1>1, <3>3, <3>5, <3>6, FavoredKept DEF Favored, Like
    <3>. QED
      BY <3>3, <3>6, <3>7
  <2>2. CASE at \notin q[cand].trace
    <3>1. UNCHANGED <<rates, queued_items, active_items, counts, settings>>
      BY <1>1, <2>2
    <3>. QED
      BY <3>1, QueueKept DEF IInv, TypeOK, rates
  <2>. QED
    BY <2>1, <2>2
<1>5. TypeOK'
  BY <1>1, <1>2, <1>3, <1>4 DEF IInv, TypeOK, Queued, counts, settings
<1>6. ControlInv' /\ CullInv'
  BY <1>1, <1>2, <1>3 DEF IInv, ControlInv, CullInv, settings
<1>. QED
  BY <1>4, <1>5, <1>6 DEF IInv

LEMMA NextInv == IInv /\ [Next]_vars => IInv'
<1>. SUFFICES ASSUME IInv, [Next]_vars PROVE IInv'
  OBVIOUS
<1>1. CASE UNCHANGED vars
  <2>1. UNCHANGED <<rates, queued_items, active_items, counts, settings>>
    BY <1>1 DEF vars
  <2>2. TypeOK'
    BY <1>1 DEF IInv, TypeOK, Queued, vars, rates, counts, settings, scan
  <2>3. ControlInv'
    <3>1. /\ q' = q /\ pc' = pc /\ queue_cur' = queue_cur /\ cand' = cand
          /\ queued_items' = queued_items /\ active_items' = active_items
          /\ schedule' = schedule /\ cycle_schedules' = cycle_schedules
      BY <1>1 DEF vars, rates, settings, scan
    <3>. QED
      BY <3>1 DEF IInv, ControlInv
  <2>4. CullInv'
    BY <1>1, <2>1, QueueKept DEF IInv, CullInv, vars, counts
  <2>. QED
    BY <2>1, <2>2, <2>3, <2>4, QueueKept DEF IInv
<1>2. CASE Next
  BY <1>2, AddCaseInv, MoveInv, NewCycleInv, RecalibrateInv, TrimInv,
     CalibrationFailsInv, FuzzEndsInv, CullBeginsInv, CullByteInv, CullEndsInv,
     RescoreInv DEF Next, cull_queue, recalculate_all_scores
<1>. QED
  BY <1>1, <1>2

-----------------------------------------------------------------------------
(***************************************************************************)
(* The theorems.                                                           *)
(***************************************************************************)
LEMMA Inductive == Spec => []IInv
<1>1. Init => IInv
  BY InitInv
<1>2. IInv /\ [Next]_vars => IInv'
  BY NextInv
<1>. QED
  BY <1>1, <1>2, PTL DEF Spec

\* The queue's indices stay inside the queue and its counters inside their
\* ranges: top_rated, smallest_favored and queue_cur name queued entries, a
\* reference count never falls below 0 nor exceeds the map's size, and neither
\* does pending_favored underflow in abandon_entry.
THEOREM QueueTypeCorrect == Spec => []TypeOK
<1>1. IInv => TypeOK
  BY DEF IInv
<1>. QED
  BY <1>1, Inductive, PTL

\* Whatever update_bitmap_score, the rescoring of a new cycle and
\* mark_as_redundant did since the last cull, tc_ref counts the bytes an entry
\* holds, a holder reaches what it holds, an entry without references has no
\* copy of its trace, and (the schedules do not cycle) a copy is the entry's own.
THEOREM TracesCorrect == Spec => []TracesSound
<1>1. IInv => TracesSound
  BY DEF IInv
<1>. QED
  BY <1>1, Inductive, PTL

\* At every step of the main loop, in the middle of cull_queue too,
\* queued_favored and pending_favored are the numbers of entries they name,
\* smallest_favored is the first pending favored entry or unset, and (the
\* schedules do not cycle) a favored entry is calibrated.
THEOREM FavoredCorrect == Spec => []FavoredSound
<1>1. IInv => FavoredSound
  BY DEF IInv
<1>. QED
  BY <1>1, Inductive, PTL
=============================================================================
