----------------------- MODULE AflTestcaseCacheProofs -----------------------
(***************************************************************************)
(* Proofs about AflTestcaseCache for every number of entries, every        *)
(* length, every limit of the cache and every order of fetches, stores,    *)
(* evictions and trims.                                                    *)
(***************************************************************************)
EXTENDS AflTestcaseCache, FiniteSetTheorems, WellFoundedInduction, TLAPS

\* Where the fields of the array stand to each other.
LimitInv ==
    /\ smallest_free <= max_count /\ max_count <= max_entries
    /\ max_entries <= room /\ max_entries \in 3 .. MaxEntries

\* Where the search for a slot starts, once nothing is left to evict.
FetchInv ==
    pc = "fetch" =>
        /\ want \in queue \ buf
        /\ tid \in 0 .. max_count
        /\ tid = max_count \/ cache[tid] = NoEntry \/ MustEvict(len[want])

\* What fuzz_one's in_buf points to at each of its places.
CallerInv ==
    /\ pc \in {"loaded", "custom", "havoc"} => queue_cur \in queue
    /\ pc = "fetch" /\ back # "main" => queue_cur \in queue
    /\ pc = "main" => in_buf = "none"
    /\ pc = "fetch" /\ back = "main" => in_buf = "none"
    /\ pc = "fetch" /\ back = "loaded" => in_buf = "none" /\ want = queue_cur
    /\ pc = "loaded" => in_buf \in {"cache", "temp"}
    /\ pc = "loaded" /\ in_buf = "temp" => queue_cur \notin buf
    /\ in_buf = "cache" => queue_cur \in buf

ArrayInv == SlotsMatchBuffers /\ FreeHintSound /\ LimitInv

\* The inductive invariant of the book-keeping.
CacheInv ==
    TypeOK /\ ArrayInv /\ FetchInv /\ CallerInv /\ SizeCoversUse

-----------------------------------------------------------------------------
(* Numbers and finite sets                                                 *)

\* A set of natural numbers has a least element.
LEMMA LeastElement ==
    ASSUME NEW T, T \subseteq Nat, T # {}
    PROVE  \E x \in T : \A y \in T : x <= y
<1>. DEFINE I == {0 .. x : x \in T}
<1>1. I \subseteq FiniteSubsetsOf(Nat) /\ I # {}
  <2>1. \A x \in T : IsFiniteSet(0 .. x)
    BY FS_Interval
  <2>2. \A x \in T : 0 .. x \in SUBSET Nat
    OBVIOUS
  <2>3. ASSUME NEW i \in I
        PROVE  i \in FiniteSubsetsOf(Nat)
    BY <2>1, <2>2 DEF FiniteSubsetsOf
  <2>4. I # {}
    OBVIOUS
  <2>. QED
    BY <2>3, <2>4
<1>2. PICK i \in I : \A j \in I : ~ (<<j, i>> \in StrictSubsetOrdering(Nat))
  BY <1>1, WFMin, FS_StrictSubsetOrderingWellFounded
<1>3. PICK x \in T : i = 0 .. x
  OBVIOUS
<1>4. ASSUME NEW y \in T, y < x
      PROVE  FALSE
  <2>1. /\ 0 .. y \in SUBSET Nat /\ 0 .. x \in SUBSET Nat
        /\ 0 .. y \subseteq 0 .. x /\ x \in 0 .. x /\ x \notin 0 .. y
    BY <1>4
  <2>2. 0 .. y # 0 .. x
    BY <2>1
  <2>3. <<0 .. y, 0 .. x>> \in StrictSubsetOrdering(Nat)
    BY <2>1, <2>2 DEF StrictSubsetOrdering
  <2>. QED
    BY <1>2, <1>3, <2>3
<1>. QED
  BY <1>4

\* A set with two elements has one that is not the given one.
LEMMA AnotherElement ==
    ASSUME NEW S, IsFiniteSet(S), Cardinality(S) >= 2, NEW x
    PROVE  \E y \in S : y # x
<1>. SUFFICES ASSUME \A y \in S : y = x PROVE FALSE
  OBVIOUS
<1>1. S \in SUBSET {x}
  OBVIOUS
<1>2. Cardinality(S) <= Cardinality({x}) /\ Cardinality({x}) = 1
  BY <1>1, FS_Singleton, FS_Subset
<1>. QED
  BY <1>2, FS_CardinalityType

\* The bytes of the entries S when their lengths are f.
Area(S, f) == {b \in S \X Lengths : b[2] <= f[b[1]]}

LengthFn == [Entry -> 0 .. MaxFile]

LEMMA AreaFinite ==
    ASSUME NEW S \in SUBSET Entry, NEW f
    PROVE  IsFiniteSet(Area(S, f)) /\ Cardinality(Area(S, f)) \in Nat
<1>1. IsFiniteSet(S) /\ IsFiniteSet(Lengths)
  <2>1. 1 \in Int /\ MaxItems \in Int /\ MaxFile \in Int
    BY CacheAssumption
  <2>2. IsFiniteSet(Entry) /\ IsFiniteSet(Lengths)
    BY <2>1, FS_Interval DEF Entry, Lengths
  <2>. QED
    BY <2>2, FS_Subset
<1>2. IsFiniteSet(S \X Lengths)
  BY <1>1, FS_Product
<1>. QED
  BY <1>2, FS_Subset, FS_CardinalityType DEF Area

LEMMA AreaMonotonic ==
    ASSUME NEW S \in SUBSET Entry, NEW T \in SUBSET Entry, S \subseteq T,
           NEW f \in LengthFn, NEW g \in LengthFn, \A e \in S : f[e] <= g[e]
    PROVE  Cardinality(Area(S, f)) <= Cardinality(Area(T, g))
<1>1. Area(S, f) \in SUBSET Area(T, g)
  BY CacheAssumption DEF Area, LengthFn, Lengths
<1>. QED
  BY <1>1, AreaFinite, FS_Subset

\* One entry contributes its length.
LEMMA AreaSplit ==
    ASSUME NEW S \in SUBSET Entry, NEW f \in LengthFn, NEW e \in S
    PROVE  Cardinality(Area(S, f)) = Cardinality(Area(S \ {e}, f)) + f[e]
<1>. DEFINE A == Area(S \ {e}, f)
            B == {e} \X (1 .. f[e])
<1>1. IsFiniteSet(A) /\ Cardinality(A) \in Nat
  BY AreaFinite
<1>2. f[e] \in 0 .. MaxFile
  BY DEF LengthFn
<1>3. IsFiniteSet(B) /\ Cardinality(B) = f[e]
  <2>1. IsFiniteSet(1 .. f[e]) /\ Cardinality(1 .. f[e]) = f[e]
    <3>1. 1 \in Int /\ f[e] \in Int /\ f[e] >= 0
      BY <1>2, CacheAssumption
    <3>. QED
      BY <3>1, FS_Interval, SMTT(40)
  <2>2. IsFiniteSet({e}) /\ Cardinality({e}) = 1
    BY FS_Singleton
  <2>3. IsFiniteSet(B) /\ Cardinality(B) = Cardinality({e}) * Cardinality(1 .. f[e])
    BY <2>1, <2>2, FS_Product
  <2>. QED
    BY <1>2, <2>1, <2>2, <2>3, CacheAssumption
<1>4. A \cap B = {}
  BY DEF Area
<1>5. Area(S, f) = A \cup B
  BY <1>2, CacheAssumption DEF Area, LengthFn, Lengths
<1>. HIDE DEF A, B
<1>6. Cardinality(A \cup B) = Cardinality(A) + Cardinality(B) - Cardinality(A \cap B)
  BY <1>1, <1>3, FS_Union
<1>7. Cardinality(A \cap B) = 0
  BY <1>4, FS_EmptySet
<1>8. Cardinality(Area(S, f)) = Cardinality(A) + f[e]
  BY <1>1, <1>2, <1>3, <1>5, <1>6, <1>7, CacheAssumption
<1>. QED
  BY <1>8 DEF A

LEMMA AreaSame ==
    ASSUME NEW S, NEW f, NEW g, \A e \in S : f[e] = g[e]
    PROVE  Area(S, f) = Area(S, g)
BY DEF Area

-----------------------------------------------------------------------------
(* The array                                                               *)

LEMMA OccupiedFinite == IsFiniteSet(Occupied) /\ Cardinality(Occupied) \in Nat
<1>1. IsFiniteSet(Slots)
  BY FS_Interval, CacheAssumption DEF Slots
<1>. QED
  BY <1>1, FS_Subset, FS_CardinalityType DEF Occupied

\* The search from a free slot ends there.
LEMMA FirstFreeHere ==
    ASSUME NEW t \in Slots, cache[t] = NoEntry
    PROVE  FirstFree(t) = t
BY CacheAssumption DEF FirstFree, Slots

\* The slots from max_count on are free.
LEMMA FreeAtEnd ==
    ASSUME TypeOK, ArrayInv
    PROVE  max_count \in Slots /\ cache[max_count] = NoEntry
BY CacheAssumption DEF TypeOK, ArrayInv, LimitInv, SlotsMatchBuffers, Occupied, Slots

\* The array is no fuller than max_count says.
LEMMA CountBound ==
    ASSUME TypeOK, ArrayInv
    PROVE  /\ count <= max_count
           /\ count < max_count =>
                 \E s \in 0 .. max_count - 1 : cache[s] = NoEntry
<1>. DEFINE I == 0 .. max_count - 1
<1>1. max_count \in Nat /\ max_count <= MaxEntries
  BY CacheAssumption DEF TypeOK, ArrayInv, LimitInv
<1>2. Occupied \in SUBSET I
  BY <1>1 DEF ArrayInv, SlotsMatchBuffers, Occupied, Slots
<1>3. IsFiniteSet(I) /\ Cardinality(I) = max_count
  BY <1>1, FS_Interval
<1>. HIDE DEF I
<1>4. Cardinality(Occupied) <= Cardinality(I)
  BY <1>2, <1>3, FS_Subset
<1>5. count = Cardinality(Occupied)
  BY DEF ArrayInv, SlotsMatchBuffers
<1>6. ASSUME count < max_count
      PROVE  \E s \in I : s \notin Occupied
  <2>. SUFFICES ASSUME \A s \in I : s \in Occupied PROVE FALSE
    OBVIOUS
  <2>1. Occupied = I
    BY <1>2
  <2>. QED
    BY <1>1, <1>3, <1>5, <1>6, <2>1
<1>7. \A s \in I : s \in Slots
  BY <1>1, CacheAssumption DEF I, Slots
<1>. QED
  BY <1>3, <1>4, <1>5, <1>6, <1>7 DEF I, Occupied

\* While the array has a hole, the search from the hint finds it.
LEMMA FirstFreeHole ==
    ASSUME TypeOK, ArrayInv, count < max_count
    PROVE  /\ FirstFree(smallest_free) \in Slots
           /\ cache[FirstFree(smallest_free)] = NoEntry
           /\ FirstFree(smallest_free) < max_count
<1>. DEFINE F == {s \in Slots : s >= smallest_free /\ cache[s] = NoEntry}
<1>0. /\ smallest_free \in Nat /\ max_count \in Nat
      /\ max_count <= MaxEntries /\ smallest_free <= max_count
      /\ Slots \subseteq Nat
  BY CacheAssumption DEF TypeOK, ArrayInv, LimitInv, Slots
<1>1. PICK s \in 0 .. max_count - 1 : cache[s] = NoEntry
  BY CountBound
<1>2. s \in F
  <2>1. s \in Slots
    BY <1>0, CacheAssumption DEF Slots
  <2>2. ~ (s < smallest_free)
    BY <1>0, <1>1, <2>1 DEF ArrayInv, FreeHintSound, Occupied
  <2>. QED
    BY <1>0, <1>1, <2>1, <2>2
<1>3. PICK x \in F : \A y \in F : x <= y
  BY <1>0, <1>2, LeastElement
<1>4. /\ x \in Slots /\ x >= smallest_free /\ cache[x] = NoEntry
      /\ \A r \in Slots : smallest_free <= r /\ r < x => cache[r] # NoEntry
  BY <1>0, <1>3
<1>. HIDE DEF F
<1>. DEFINE c == FirstFree(smallest_free)
<1>5. /\ c \in Slots /\ c >= smallest_free /\ cache[c] = NoEntry
      /\ \A r \in Slots : smallest_free <= r /\ r < c => cache[r] # NoEntry
  BY <1>4 DEF FirstFree
<1>. HIDE DEF c
<1>6. c <= s
  BY <1>0, <1>1, <1>2, <1>5 DEF F
<1>7. c < max_count
  BY <1>0, <1>5, <1>6
<1>. QED
  BY <1>5, <1>7 DEF c

\* The slot of an entry that is registered is free, inside the array, and
\* leaves no hole before it that max_count does not cover.
GoodSlot(s) ==
    /\ s \in Slots /\ cache[s] = NoEntry
    /\ s <= max_count /\ s < max_entries

LEMMA StoreSlot ==
    ASSUME TypeOK, ArrayInv, count < max_entries - 1
    PROVE  GoodSlot(FirstFree(IF max_count >= max_entries
                                 THEN smallest_free ELSE max_count))
<1>0. max_count \in Nat /\ max_entries \in Nat /\ count \in Nat /\ Slots \subseteq Nat
      /\ max_count <= max_entries
  BY CacheAssumption DEF TypeOK, ArrayInv, LimitInv, Slots
<1>1. CASE max_count >= max_entries
  <2>1. count < max_count
    BY <1>0, <1>1
  <2>. DEFINE c == FirstFree(smallest_free)
  <2>2. c \in Slots /\ cache[c] = NoEntry /\ c < max_count
    BY <2>1, FirstFreeHole
  <2>. HIDE DEF c
  <2>3. GoodSlot(c)
    BY <1>0, <2>2 DEF GoodSlot
  <2>. QED
    BY <1>1, <2>3 DEF c
<1>2. CASE ~ (max_count >= max_entries)
  BY <1>0, <1>2, FreeAtEnd, FirstFreeHere DEF GoodSlot
<1>. QED
  BY <1>1, <1>2

LEMMA FetchSlot ==
    ASSUME TypeOK, ArrayInv, FetchInv, pc = "fetch", ~MustEvict(len[want])
    PROVE  GoodSlot(NextSlot)
<1>0. /\ max_count \in Nat /\ max_entries \in Nat /\ count \in Nat
      /\ Slots \subseteq Nat /\ 0 .. max_count \subseteq Slots
      /\ max_count <= max_entries /\ tid \in 0 .. max_count
  BY CacheAssumption DEF TypeOK, ArrayInv, LimitInv, FetchInv, Slots
<1>1. count < max_entries - 1
  BY <1>0 DEF MustEvict
<1>2. CASE tid >= max_entries
  <2>1. count < max_count
    BY <1>0, <1>1, <1>2
  <2>. DEFINE c == FirstFree(smallest_free)
  <2>2. c \in Slots /\ cache[c] = NoEntry /\ c < max_count
    BY <2>1, FirstFreeHole
  <2>. HIDE DEF c
  <2>3. GoodSlot(c)
    BY <1>0, <2>2 DEF GoodSlot
  <2>. QED
    BY <1>2, <2>3 DEF NextSlot, c
<1>3. CASE ~ (tid >= max_entries)
  <2>1. cache[tid] = NoEntry /\ tid \in Slots
    BY <1>0, FreeAtEnd DEF FetchInv
  <2>. QED
    BY <1>0, <1>3, <2>1, FirstFreeHere DEF GoodSlot, NextSlot
<1>. QED
  BY <1>2, <1>3
\* The common end of get and store_mem keeps the array consistent.
LEMMA RegisterArray ==
    ASSUME TypeOK, ArrayInv, NEW e \in Entry, e \notin buf,
           NEW s, GoodSlot(s), Register(e, s)
    PROVE  /\ ArrayInv'
           /\ cache' \in [Slots -> Entry \cup {NoEntry}]
           /\ count' \in Nat /\ max_count' \in Nat /\ smallest_free' \in Nat
<1>0. /\ max_count \in Nat /\ max_entries \in Nat /\ count \in Nat
      /\ smallest_free \in Nat /\ room \in Nat /\ Slots \subseteq Nat
      /\ cache \in [Slots -> Entry \cup {NoEntry}]
      /\ MaxEntries \in Nat /\ NoEntry \notin Entry
  BY CacheAssumption DEF TypeOK, Slots, Entry, NoEntry
<1>1. /\ s \in Slots /\ cache[s] = NoEntry
      /\ s <= max_count /\ s < max_entries
  BY DEF GoodSlot
<1>2. /\ buf' = buf \cup {e} /\ cache' = [cache EXCEPT ![s] = e]
      /\ count' = count + 1
      /\ max_count' = IF s >= max_count THEN s + 1 ELSE max_count
      /\ smallest_free' = IF s < max_count /\ s = smallest_free THEN s + 1
                          ELSE smallest_free
      /\ UNCHANGED <<room, max_entries>>
  BY DEF Register
<1>3. /\ {cache[t] : t \in Occupied} = buf
      /\ \A t, u \in Occupied : cache[t] = cache[u] => t = u
      /\ count = Cardinality(Occupied)
      /\ \A t \in Occupied : t < max_count
  BY DEF ArrayInv, SlotsMatchBuffers
<1>4. s \notin Occupied /\ Occupied' = Occupied \cup {s}
  BY <1>0, <1>1, <1>2 DEF Occupied
<1>5. Cardinality(Occupied') = Cardinality(Occupied) + 1
  BY <1>4, OccupiedFinite, FS_AddElement
<1>6. \A t \in Occupied : t # s /\ cache'[t] = cache[t] /\ cache[t] # e
  BY <1>0, <1>2, <1>3, <1>4 DEF Occupied
<1>7. cache'[s] = e
  BY <1>0, <1>1, <1>2
<1>8. SlotsMatchBuffers'
  <2>1. {cache'[t] : t \in Occupied'} = buf'
    BY <1>2, <1>3, <1>4, <1>6, <1>7
  <2>2. \A t, u \in Occupied' : cache'[t] = cache'[u] => t = u
    BY <1>3, <1>4, <1>6, <1>7
  <2>3. \A t \in Occupied' : t < max_count'
    <3>1. \A t \in Occupied : t \in Nat
      BY <1>0 DEF Occupied
    <3>2. s \in Nat /\ s < max_count' /\ max_count <= max_count' /\ max_count' \in Nat
      BY <1>0, <1>1, <1>2
    <3>3. \A t \in Occupied : t < max_count'
      BY <1>0, <1>3, <3>1, <3>2
    <3>. QED
      BY <1>4, <3>2, <3>3
  <2>. QED
    BY <1>2, <1>3, <1>5, <2>1, <2>2, <2>3 DEF SlotsMatchBuffers
<1>9. FreeHintSound'
  <2>. SUFFICES ASSUME NEW t \in Slots, t < smallest_free', t < max_count'
                PROVE  t \in Occupied'
    BY DEF FreeHintSound, Slots
  <2>1. t = s \/ (t < smallest_free /\ t < max_count)
    BY <1>0, <1>1, <1>2 DEF ArrayInv, LimitInv
  <2>. QED
    BY <1>4, <2>1 DEF ArrayInv, FreeHintSound
<1>10. LimitInv'
  BY <1>0, <1>1, <1>2 DEF ArrayInv, LimitInv
<1>11. cache' \in [Slots -> Entry \cup {NoEntry}]
  BY <1>0, <1>2
<1>. QED
  BY <1>0, <1>1, <1>2, <1>8, <1>9, <1>10, <1>11 DEF ArrayInv

\* The draw of a victim ends: two entries are cached, and only one of them can
\* be in use.
LEMMA VictimThere ==
    ASSUME CacheInv, pc = "fetch", MustEvict(len[want])
    PROVE  Victims # {} /\ count >= 2
<1>0. count \in Nat /\ max_entries \in Nat /\ max_entries >= 3
  BY CacheAssumption DEF CacheInv, TypeOK, ArrayInv, LimitInv
<1>1. count >= 2
  BY <1>0 DEF MustEvict
<1>2. /\ \A t, u \in Occupied : cache[t] = cache[u] => t = u
      /\ count = Cardinality(Occupied)
      /\ \A t \in Occupied : t < max_count
  BY DEF CacheInv, ArrayInv, SlotsMatchBuffers
<1>3. \E t \in Occupied : cache[t] # queue_cur
  <2>1. PICK t \in Occupied : t # -1
    BY <1>1, <1>2, OccupiedFinite, AnotherElement
  <2>2. PICK u \in Occupied : u # t
    BY <1>1, <1>2, OccupiedFinite, AnotherElement
  <2>. QED
    BY <1>2, <2>2
<1>4. PICK t \in Occupied : cache[t] # queue_cur
  BY <1>3
<1>5. t \in Victims
  BY <1>2, <1>4 DEF Victims, Occupied
<1>. QED
  BY <1>1, <1>5

\* An eviction keeps the array consistent, whether or not the entry limit is
\* learnt in it.
LEMMA EvictArray ==
    ASSUME CacheInv, Evict
    PROVE  \E t \in Victims :
              /\ ArrayInv' /\ t \in Slots /\ t < max_count
              /\ cache[t] \in buf /\ cache[t] # queue_cur
              /\ cache' \in [Slots -> Entry \cup {NoEntry}] /\ cache'[t] = NoEntry
              /\ count' \in Nat /\ smallest_free' \in Nat
              /\ max_entries' \in Nat /\ room' \in Nat
              /\ buf' = buf \ {cache[t]} /\ size' = size - len[cache[t]]
              /\ tid' = t
<1>0. /\ max_count \in Nat /\ max_entries \in Nat /\ count \in Nat
      /\ smallest_free \in Nat /\ room \in Nat /\ Slots \subseteq Nat
      /\ cache \in [Slots -> Entry \cup {NoEntry}]
      /\ MaxEntries \in Nat /\ NoEntry \notin Entry
  BY CacheAssumption DEF CacheInv, TypeOK, Slots, Entry, NoEntry
<1>1. PICK t \in Victims :
         /\ buf' = buf \ {cache[t]} /\ size' = Remaining(t)
         /\ cache' = Freed(t) /\ smallest_free' = Hint(t) /\ tid' = t
  BY DEF Evict
<1>2. t \in Slots /\ t < max_count /\ cache[t] # NoEntry /\ cache[t] # queue_cur
  BY DEF Victims
<1>3. /\ {cache[s] : s \in Occupied} = buf
      /\ \A s, u \in Occupied : cache[s] = cache[u] => s = u
      /\ count = Cardinality(Occupied)
      /\ \A s \in Occupied : s < max_count
  BY DEF CacheInv, ArrayInv, SlotsMatchBuffers
<1>4. /\ count' = count - 1 /\ UNCHANGED max_count
      /\ max_entries' = IF Learns(len[want]) THEN Learnt ELSE max_entries
      /\ room' = IF Learns(len[want]) THEN RoomLearnt ELSE room
  BY DEF Evict
<1>5. t \in Occupied /\ cache[t] \in buf
  BY <1>2, <1>3 DEF Occupied
<1>6. cache' = [cache EXCEPT ![t] = NoEntry]
  BY <1>1 DEF Freed
<1>7. Occupied' = Occupied \ {t} /\ cache'[t] = NoEntry
  BY <1>0, <1>2, <1>6 DEF Occupied
<1>8. Cardinality(Occupied') = Cardinality(Occupied) - 1
  BY <1>5, <1>7, OccupiedFinite, FS_RemoveElement
<1>9. \A s \in Occupied' : cache'[s] = cache[s] /\ s \in Occupied /\ s # t
  BY <1>0, <1>6, <1>7 DEF Occupied
<1>10. SlotsMatchBuffers'
  <2>1. {cache'[s] : s \in Occupied'} = buf'
    BY <1>1, <1>3, <1>5, <1>7, <1>9
  <2>2. \A s, u \in Occupied' : cache'[s] = cache'[u] => s = u
    BY <1>3, <1>9
  <2>3. \A s \in Occupied' : s < max_count'
    BY <1>3, <1>4, <1>9
  <2>. QED
    BY <1>3, <1>4, <1>8, <2>1, <2>2, <2>3 DEF SlotsMatchBuffers
<1>11. FreeHintSound'
  <2>. SUFFICES ASSUME NEW s \in Slots, s < smallest_free', s < max_count'
                PROVE  s \in Occupied'
    BY DEF FreeHintSound, Slots
  <2>1. s < smallest_free /\ s < max_count /\ s # t
    BY <1>0, <1>1, <1>2, <1>4 DEF Hint
  <2>. QED
    BY <1>7, <2>1 DEF CacheInv, ArrayInv, FreeHintSound
<1>12. count <= max_count /\ count >= 2
  BY CountBound, VictimThere DEF CacheInv, Evict
<1>13. LimitInv' /\ max_entries' \in Nat /\ room' \in Nat /\ smallest_free' \in Nat
  BY <1>0, <1>1, <1>2, <1>4, <1>12
     DEF CacheInv, ArrayInv, LimitInv, Learns, Learnt, RoomLearnt, Hint
<1>14. cache' \in [Slots -> Entry \cup {NoEntry}]
  BY <1>0, <1>6
<1>15. count' \in Nat
  BY <1>0, <1>4, <1>12
<1>. QED
  BY <1>1, <1>2, <1>5, <1>7, <1>10, <1>11, <1>13, <1>14, <1>15
     DEF ArrayInv, Remaining

-----------------------------------------------------------------------------
(* The accounted size                                                      *)

LEMMA SizeUse ==
    /\ SizeCoversUse <=> size >= Cardinality(Area(buf, len))
    /\ SizeCoversUse' <=> size' >= Cardinality(Area(buf', len'))
BY DEF SizeCoversUse, Bytes, Area

\* The size grows by the length of the entry that is registered,
LEMMA RegisterSize ==
    ASSUME TypeOK, SizeCoversUse, NEW e \in Entry, e \notin buf, NEW s,
           Register(e, s), len' \in LengthFn, \A x \in buf : len'[x] = len[x]
    PROVE  SizeCoversUse' /\ size' \in Nat
<1>1. /\ buf \in SUBSET Entry /\ size \in Nat /\ MaxFile \in Nat
      /\ len'[e] \in 0 .. MaxFile
  BY CacheAssumption DEF TypeOK, queue, Entry, LengthFn
<1>2. buf' = buf \cup {e} /\ size' = size + len'[e]
  BY DEF Register
<1>3. Cardinality(Area(buf', len')) = Cardinality(Area(buf' \ {e}, len')) + len'[e]
  <2>1. buf' \in SUBSET Entry /\ e \in buf'
    BY <1>1, <1>2
  <2>. QED
    BY <2>1, AreaSplit
<1>4. buf' \ {e} = buf /\ Area(buf, len') = Area(buf, len)
  BY <1>2, AreaSame
<1>5. Cardinality(Area(buf, len)) \in Nat
  BY <1>1, AreaFinite
<1>6. size >= Cardinality(Area(buf, len))
  BY SizeUse
<1>7. size' >= Cardinality(Area(buf', len')) /\ size' \in Nat
  BY <1>1, <1>2, <1>3, <1>4, <1>5, <1>6
<1>. QED
  BY <1>7, SizeUse

\* and shrinks by the length of the entry that is evicted.
LEMMA EvictSize ==
    ASSUME TypeOK, SizeCoversUse, NEW e \in buf, buf' = buf \ {e},
           size' = size - len[e], UNCHANGED len
    PROVE  SizeCoversUse' /\ size' \in Nat
<1>1. /\ buf \in SUBSET Entry /\ size \in Nat /\ MaxFile \in Nat
      /\ len \in LengthFn /\ len[e] \in 0 .. MaxFile
  BY CacheAssumption DEF TypeOK, queue, Entry, LengthFn
<1>2. Cardinality(Area(buf, len)) = Cardinality(Area(buf \ {e}, len)) + len[e]
  BY <1>1, AreaSplit
<1>3. Cardinality(Area(buf \ {e}, len)) \in Nat
  BY <1>1, AreaFinite
<1>4. size >= Cardinality(Area(buf, len))
  BY SizeUse
<1>5. size' >= Cardinality(Area(buf', len')) /\ size' \in Nat
  BY <1>1, <1>2, <1>3, <1>4
<1>. QED
  BY <1>5, SizeUse
\* A trim changes only the length of the current entry, and the size by no less
\* than the length grows: the byte trimmer works on the cached buffer itself
\* when there is one, and the difference that the retake after a custom trim
\* adds is only ever too large.
LEMMA TrimSize ==
    ASSUME CacheInv, Trim
    PROVE  /\ len' \in LengthFn /\ size' \in Nat /\ SizeCoversUse'
           /\ \A x \in Entry : x # queue_cur => len'[x] = len[x]
           /\ ~CustomTrims => size' = size /\ len'[queue_cur] <= len[queue_cur]
<1>. DEFINE q == queue_cur
<1>0. /\ len \in LengthFn /\ size \in Nat /\ buf \in SUBSET Entry /\ q \in Entry
      /\ len[q] \in 0 .. MaxFile /\ MaxFile \in Nat /\ Word \in Nat
      /\ Slack \in Nat /\ Word > MaxFile
  <2>1. /\ len \in LengthFn /\ size \in Nat /\ buf \in SUBSET Entry
        /\ MaxFile \in Nat /\ Word \in Nat /\ Slack \in Nat /\ Word > MaxFile
    BY CacheAssumption DEF CacheInv, TypeOK, queue, Entry, LengthFn
  <2>2. q \in Entry
    BY CacheAssumption DEF CacheInv, TypeOK, CallerInv, Trim, queue, Entry
  <2>. QED
    BY <2>1, <2>2 DEF LengthFn
<1>1. PICK l \in 0 .. MaxFile :
         /\ len' = [len EXCEPT ![q] = l]
         /\ \/ custom[q] /\ queue_testcase_retake(q, l) /\ (~CustomTrims => l = len[q])
            \/ ~custom[q] /\ queue_testcase_retake_mem(q, l) /\ l <= len[q]
  <2>1. CASE custom[q]
    BY <1>0, <2>1 DEF Trim, trim_case, SetLen, Lengths
  <2>2. CASE ~custom[q]
    BY <1>0, <2>2 DEF Trim, trim_case, SetLen
  <2>. QED
    BY <2>1, <2>2
<1>2. /\ len' \in LengthFn /\ len'[q] = l
      /\ \A x \in Entry : x # q => len'[x] = len[x]
  BY <1>0, <1>1 DEF LengthFn
<1>3. size' \in Nat /\ size' >= size /\ (l > len[q] /\ q \in buf => size' = size + (l - len[q]))
  <2>1. CASE custom[q] /\ queue_testcase_retake(q, l)
    <3>1. l > len[q] => (l - len[q]) % Word = l - len[q]
      BY <1>0
    <3>2. (l - len[q]) % Word \in Nat
      BY <1>0
    <3>. QED
      BY <1>0, <2>1, <3>1, <3>2 DEF queue_testcase_retake
  <2>2. CASE queue_testcase_retake_mem(q, l) /\ l <= len[q]
    <3>1. q \in buf => in_buf = "cache"
      BY DEF CacheInv, CallerInv, Trim
    <3>. QED
      BY <1>0, <2>2, <3>1 DEF queue_testcase_retake_mem
  <2>. QED
    BY <1>1, <2>1, <2>2
<1>4. ~CustomTrims => size' = size /\ l <= len[q]
  <2>. SUFFICES ASSUME ~CustomTrims PROVE size' = size /\ l <= len[q]
    OBVIOUS
  <2>1. CASE queue_testcase_retake(q, l) /\ l = len[q]
    BY <1>0, <2>1 DEF queue_testcase_retake
  <2>2. CASE queue_testcase_retake_mem(q, l) /\ l <= len[q]
    <3>1. q \in buf => in_buf = "cache"
      BY DEF CacheInv, CallerInv, Trim
    <3>. QED
      BY <2>2, <3>1 DEF queue_testcase_retake_mem
  <2>. QED
    BY <1>1, <2>1, <2>2
<1>5. UNCHANGED buf
  BY DEF Trim
<1>6. size >= Cardinality(Area(buf, len)) /\ Cardinality(Area(buf, len)) \in Nat
      /\ Cardinality(Area(buf, len')) \in Nat
  BY <1>0, SizeUse, AreaFinite DEF CacheInv
<1>7. size' >= Cardinality(Area(buf, len'))
  <2>1. CASE q \in buf
    <3>1. /\ Cardinality(Area(buf, len)) = Cardinality(Area(buf \ {q}, len)) + len[q]
          /\ Cardinality(Area(buf, len')) = Cardinality(Area(buf \ {q}, len')) + l
      BY <1>0, <1>2, <2>1, AreaSplit
    <3>2. Area(buf \ {q}, len') = Area(buf \ {q}, len)
      BY <1>0, <1>2, AreaSame
    <3>3. Cardinality(Area(buf \ {q}, len)) \in Nat
      BY <1>0, AreaFinite
    <3>. QED
      BY <1>0, <1>3, <1>6, <2>1, <3>1, <3>2, <3>3
  <2>2. CASE q \notin buf
    <3>1. Area(buf, len') = Area(buf, len)
      BY <1>0, <1>2, <2>2, AreaSame
    <3>. QED
      BY <1>0, <1>3, <1>6, <3>1
  <2>. QED
    BY <2>1, <2>2
<1>8. SizeCoversUse'
  BY <1>5, <1>7, SizeUse
<1>. QED
  BY <1>2, <1>3, <1>4, <1>8

-----------------------------------------------------------------------------
(* The inductive invariant                                                 *)

LEMMA InitInv == Init => CacheInv
<1>. SUFFICES ASSUME Init PROVE CacheInv
  OBVIOUS
<1>. USE CacheAssumption DEF Init
<1>1. Occupied = {} /\ Cardinality(Occupied) = 0
  <2>1. Occupied = {}
    BY DEF Occupied
  <2>. QED
    BY <2>1, FS_EmptySet
<1>2. TypeOK
  <2>1. len \in [Entry -> 0 .. MaxFile]
    BY DEF Lengths
  <2>2. cache \in [Slots -> Entry \cup {NoEntry}]
    OBVIOUS
  <2>3. custom \in [Entry -> BOOLEAN] /\ trim_done \in [Entry -> BOOLEAN]
    OBVIOUS
  <2>4. 1 \in Entry
    BY DEF Entry
  <2>. QED
    BY <2>1, <2>2, <2>3, <2>4 DEF TypeOK, queue
<1>3. SlotsMatchBuffers /\ FreeHintSound /\ LimitInv
  BY <1>1 DEF SlotsMatchBuffers, FreeHintSound, LimitInv, Slots
<1>4. FetchInv /\ CallerInv
  BY DEF FetchInv, CallerInv
<1>5. Cardinality(Area(buf, len)) = 0
  <2>1. Area(buf, len) = {}
    BY DEF Area
  <2>. QED
    BY <2>1, FS_EmptySet
<1>6. SizeCoversUse
  BY <1>5, SizeUse
<1>. QED
  BY <1>2, <1>3, <1>4, <1>6 DEF CacheInv, ArrayInv

\* A step that leaves the array alone.
LEMMA ArrayFrame ==
    ASSUME ArrayInv, UNCHANGED <<buf, cache, room, count, max_count, max_entries,
                                 smallest_free>>
    PROVE  ArrayInv'
BY DEF ArrayInv, SlotsMatchBuffers, FreeHintSound, LimitInv, Occupied

LEMMA SizeFrame ==
    ASSUME SizeCoversUse, UNCHANGED <<buf, size, len>>
    PROVE  SizeCoversUse'
BY DEF SizeCoversUse, Bytes

\* The calls of queue_testcase_get.
LEMMA GetInv ==
    ASSUME CacheInv, FuzzOne \/ Rescore \/ Splice
    PROVE  CacheInv'
<1>1. PICK e \in queue, light \in BOOLEAN, cur \in queue \cup {queue_cur},
           ret \in {"loaded", "main", "havoc"} :
         /\ queue_testcase_get(e, light, cur, ret)
         /\ \/ pc = "main" /\ cur = e /\ ret = "loaded"
            \/ pc = "main" /\ cur = queue_cur /\ ret = "main"
            \/ pc = "havoc" /\ cur = queue_cur /\ ret = "havoc" /\ e # queue_cur
  <2>1. CASE FuzzOne
    BY <2>1 DEF FuzzOne
  <2>2. CASE Rescore
    BY <2>2 DEF Rescore
  <2>3. CASE Splice
    BY <2>3 DEF Splice
  <2>. QED
    BY <2>1, <2>2, <2>3
<1>2. UNCHANGED <<queueVars, cacheVars, current_custom_fuzz>> /\ queue_cur' = cur
  BY <1>1 DEF queue_testcase_get
<1>3. ArrayInv' /\ SizeCoversUse'
  BY <1>2, ArrayFrame, SizeFrame DEF CacheInv, cacheVars, queueVars
<1>4. CASE e \in buf \/ light
  <2>1. /\ pc' = ret /\ UNCHANGED <<want, tid, back>>
        /\ in_buf' = IF ret = "main" THEN "none"
                     ELSE IF e # cur THEN in_buf
                     ELSE IF e \in buf THEN "cache" ELSE "temp"
    BY <1>1, <1>4 DEF queue_testcase_get
  <2>2. TypeOK'
    BY <1>1, <1>2, <2>1 DEF CacheInv, TypeOK, queueVars, cacheVars, queue
  <2>3. FetchInv' /\ CallerInv'
    BY <1>1, <1>2, <2>1
       DEF CacheInv, FetchInv, CallerInv, queueVars, cacheVars, queue, TypeOK
  <2>. QED
    BY <1>3, <2>2, <2>3 DEF CacheInv
<1>5. CASE ~(e \in buf \/ light)
  <2>1. /\ pc' = "fetch" /\ want' = e /\ tid' = max_count /\ back' = ret
        /\ UNCHANGED in_buf
    BY <1>1, <1>5 DEF queue_testcase_get
  <2>2. TypeOK'
    BY <1>1, <1>2, <2>1 DEF CacheInv, TypeOK, queueVars, cacheVars, queue
  <2>3. FetchInv' /\ CallerInv'
    BY <1>1, <1>2, <1>5, <2>1
       DEF CacheInv, FetchInv, CallerInv, queueVars, cacheVars, queue, TypeOK
  <2>. QED
    BY <1>3, <2>2, <2>3 DEF CacheInv
<1>. QED
  BY <1>4, <1>5

\* A find or an import.
LEMMA SaveInv ==
    ASSUME CacheInv, NEW by, Save(by), pc # "fetch"
    PROVE  CacheInv'
<1>1. PICK e \in Entry, l \in Lengths :
         /\ e = queued_items + 1 /\ queued_items' = e
         /\ len' = [len EXCEPT ![e] = l]
         /\ made' \in {made, made \cup {e}}
         /\ queue_testcase_store_mem(e)
         /\ UNCHANGED <<disable_trim, trim_done, byte_trimmed, callVars>>
  BY DEF Save
<1>2. /\ queued_items \in Nat /\ e \notin queue /\ queue' = queue \cup {e}
      /\ len \in LengthFn /\ buf \in SUBSET queue /\ e \notin buf
  BY <1>1 DEF CacheInv, TypeOK, queue, Entry, LengthFn
<1>3. /\ len' \in LengthFn /\ len'[e] = l
      /\ \A x \in Entry : x # e => len'[x] = len[x]
  BY <1>1, <1>2, CacheAssumption DEF LengthFn, Lengths
<1>4. /\ queued_items' \in Entry /\ made' \subseteq queue'
      /\ byte_trimmed' \subseteq queue'
      /\ trim_done' \in [Entry -> BOOLEAN] /\ disable_trim' \in BOOLEAN
      /\ len' \in [Entry -> 0 .. MaxFile]
  BY <1>1, <1>2, <1>3 DEF CacheInv, TypeOK, LengthFn
<1>5. \A x \in buf : x \in Entry /\ x # e
  BY <1>2, CacheAssumption DEF queue, Entry, CacheInv, TypeOK
<1>6. CASE UNCHANGED <<cacheVars, custom>>
  <2>1. ArrayInv'
    BY <1>6, ArrayFrame DEF CacheInv, cacheVars
  <2>2. TypeOK'
    BY <1>1, <1>2, <1>4, <1>6 DEF CacheInv, TypeOK, cacheVars, callVars
  <2>3. FetchInv' /\ CallerInv'
    BY <1>1, <1>2, <1>6 DEF CacheInv, FetchInv, CallerInv, cacheVars, callVars
  <2>4. SizeCoversUse'
    <3>1. Area(buf, len') = Area(buf, len)
      BY <1>3, <1>5, AreaSame
    <3>. QED
      BY <1>6, <3>1, SizeUse DEF CacheInv, cacheVars
  <2>. QED
    BY <2>1, <2>2, <2>3, <2>4 DEF CacheInv
<1>7. CASE ~NoSpace(len'[e])
  <2>. DEFINE s == FirstFree(IF max_count >= max_entries
                                THEN smallest_free ELSE max_count)
  <2>1. Register(e, s) /\ custom' = [custom EXCEPT ![e] = Marked(@)]
    BY <1>1, <1>7 DEF queue_testcase_store_mem
  <2>2. GoodSlot(s)
    <3>1. count < max_entries - 1
      BY <1>7 DEF NoSpace, CacheInv, TypeOK
    <3>. QED
      BY <3>1, StoreSlot DEF CacheInv
  <2>. HIDE DEF s
  <2>3. /\ ArrayInv' /\ cache' \in [Slots -> Entry \cup {NoEntry}]
        /\ count' \in Nat /\ max_count' \in Nat /\ smallest_free' \in Nat
    BY <1>2, <2>1, <2>2, RegisterArray DEF CacheInv
  <2>4. SizeCoversUse' /\ size' \in Nat
    BY <1>2, <1>3, <1>5, <2>1, RegisterSize DEF CacheInv
  <2>5. /\ buf' = buf \cup {e} /\ UNCHANGED <<room, max_entries, do_once>>
        /\ custom' \in [Entry -> BOOLEAN]
    BY <2>1 DEF Register, CacheInv, TypeOK, Marked
  <2>6. TypeOK'
    BY <1>1, <1>2, <1>4, <2>3, <2>4, <2>5 DEF CacheInv, TypeOK, callVars
  <2>7. FetchInv' /\ CallerInv'
    BY <1>1, <1>2, <2>5 DEF CacheInv, FetchInv, CallerInv, callVars
  <2>. QED
    BY <2>3, <2>4, <2>6, <2>7 DEF CacheInv
<1>. QED
  BY <1>1, <1>6, <1>7 DEF queue_testcase_store_mem
LEMMA NextInv == CacheInv /\ [Next]_vars => CacheInv'
<1>. SUFFICES ASSUME CacheInv, [Next]_vars PROVE CacheInv'
  OBVIOUS
<1>1. CASE FuzzOne \/ Rescore \/ Splice
  BY <1>1, GetInv
<1>2. CASE Redraw
  <2>1. PICK t \in Slots : t < max_count /\ tid' = t
    BY <1>2 DEF Redraw
  <2>2. /\ pc = "fetch" /\ MustEvict(len[want])
        /\ UNCHANGED <<queueVars, cacheVars, pc, queue_cur, in_buf,
                       current_custom_fuzz, want, back>>
    BY <1>2 DEF Redraw
  <2>3. t \in Nat
    BY CacheAssumption DEF Slots
  <2>4. ArrayInv' /\ SizeCoversUse'
    BY <2>2, ArrayFrame, SizeFrame DEF CacheInv, queueVars, cacheVars
  <2>5. TypeOK' /\ CallerInv'
    BY <2>1, <2>2, <2>3 DEF CacheInv, TypeOK, CallerInv, queueVars, cacheVars, queue
  <2>6. FetchInv'
    BY <2>1, <2>2, <2>3
       DEF CacheInv, TypeOK, FetchInv, MustEvict, BySize, queueVars, cacheVars, queue
  <2>. QED
    BY <2>4, <2>5, <2>6 DEF CacheInv
<1>3. CASE Evict
  <2>1. PICK t \in Victims :
           /\ ArrayInv' /\ t \in Slots /\ t < max_count
           /\ cache[t] \in buf /\ cache[t] # queue_cur
           /\ cache' \in [Slots -> Entry \cup {NoEntry}] /\ cache'[t] = NoEntry
           /\ count' \in Nat /\ smallest_free' \in Nat
           /\ max_entries' \in Nat /\ room' \in Nat
           /\ buf' = buf \ {cache[t]} /\ size' = size - len[cache[t]]
           /\ tid' = t
    BY <1>3, EvictArray
  <2>2. /\ pc = "fetch" /\ do_once' = (do_once \/ Learns(len[want]))
        /\ UNCHANGED <<queueVars, max_count, pc, queue_cur, in_buf,
                       current_custom_fuzz, want, back>>
    BY <1>3 DEF Evict
  <2>3. t \in Nat
    BY <2>1, CacheAssumption DEF Slots
  <2>4. SizeCoversUse' /\ size' \in Nat
    BY <2>1, <2>2, EvictSize DEF CacheInv, queueVars
  <2>5. do_once' \in BOOLEAN
    BY <2>2 DEF Learns, CacheInv, TypeOK
  <2>6. TypeOK'
    BY <2>1, <2>2, <2>3, <2>4, <2>5 DEF CacheInv, TypeOK, queueVars, queue
  <2>7. FetchInv' /\ CallerInv'
    BY <2>1, <2>2, <2>3 DEF CacheInv, TypeOK, FetchInv, CallerInv, queueVars, queue
  <2>. QED
    BY <2>1, <2>4, <2>6, <2>7 DEF CacheInv
<1>4. CASE Load
  <2>. DEFINE s == NextSlot
  <2>1. /\ pc = "fetch" /\ ~MustEvict(len[want]) /\ Register(want, s)
        /\ UNCHANGED queueVars
        /\ pc' = back
        /\ in_buf' = IF back = "main" THEN "none"
                     ELSE IF want = queue_cur THEN "cache" ELSE in_buf
        /\ want' = NoEntry /\ tid' = 0 /\ back' = "main"
        /\ UNCHANGED <<queue_cur, current_custom_fuzz>>
    BY <1>4 DEF Load
  <2>2. GoodSlot(s)
    BY <2>1, FetchSlot DEF CacheInv
  <2>. HIDE DEF s
  <2>3. want \in queue /\ want \notin buf /\ want \in Entry
    BY <2>1, CacheAssumption DEF CacheInv, FetchInv, TypeOK, queue, Entry
  <2>4. /\ ArrayInv' /\ cache' \in [Slots -> Entry \cup {NoEntry}]
        /\ count' \in Nat /\ max_count' \in Nat /\ smallest_free' \in Nat
    BY <2>1, <2>2, <2>3, RegisterArray DEF CacheInv
  <2>5. SizeCoversUse' /\ size' \in Nat
    <3>1. len' \in LengthFn /\ \A x \in buf : len'[x] = len[x]
      BY <2>1 DEF CacheInv, TypeOK, queueVars, LengthFn
    <3>. QED
      BY <2>1, <2>3, <3>1, RegisterSize DEF CacheInv
  <2>6. buf' = buf \cup {want} /\ UNCHANGED <<room, max_entries, do_once>>
    BY <2>1 DEF Register
  <2>7. TypeOK'
    BY <2>1, <2>3, <2>4, <2>5, <2>6 DEF CacheInv, TypeOK, queueVars, queue
  <2>8. FetchInv' /\ CallerInv'
    BY <2>1, <2>3, <2>6
       DEF CacheInv, TypeOK, FetchInv, CallerInv, queueVars, queue
  <2>. QED
    BY <2>4, <2>5, <2>7, <2>8 DEF CacheInv
<1>5. CASE Trim
  <2>1. /\ trim_done' = [trim_done EXCEPT ![queue_cur] = TRUE] /\ pc = "loaded"
        /\ byte_trimmed' \in {byte_trimmed, byte_trimmed \cup {queue_cur}}
        /\ UNCHANGED <<disable_trim, queued_items, custom, made, buf, cache, room,
                       count, max_count, max_entries, smallest_free, do_once,
                       callVars>>
    BY <1>5 DEF Trim, trim_case
  <2>2. len' \in LengthFn /\ size' \in Nat /\ SizeCoversUse'
    BY <1>5, TrimSize
  <2>3. ArrayInv'
    BY <2>1, ArrayFrame DEF CacheInv
  <2>4. queue_cur \in queue
    BY <2>1 DEF CacheInv, CallerInv
  <2>5. TypeOK'
    BY <2>1, <2>2, <2>4 DEF CacheInv, TypeOK, LengthFn, callVars, queue
  <2>6. FetchInv' /\ CallerInv'
    BY <2>1 DEF CacheInv, FetchInv, CallerInv, callVars, queue
  <2>. QED
    BY <2>2, <2>3, <2>5, <2>6 DEF CacheInv
<1>6. CASE CustomStage \/ CustomStageEnds \/ AbandonEntry
  <2>1. /\ UNCHANGED <<queueVars, cacheVars, queue_cur, want, tid, back>>
        /\ current_custom_fuzz' \in {current_custom_fuzz, TRUE, FALSE}
        /\ \/ pc \in {"loaded", "custom"} /\ pc' \in {"custom", "havoc"} /\ UNCHANGED in_buf
           \/ pc' = "main" /\ in_buf' = "none"
    BY <1>6 DEF CustomStage, CustomStageEnds, AbandonEntry
  <2>2. ArrayInv' /\ SizeCoversUse'
    BY <2>1, ArrayFrame, SizeFrame DEF CacheInv, queueVars, cacheVars
  <2>3. TypeOK'
    BY <2>1, ZenonT(40) DEF CacheInv, TypeOK, queueVars, cacheVars, queue
  <2>4. FetchInv' /\ CallerInv'
    BY <2>1 DEF CacheInv, FetchInv, CallerInv, queueVars, cacheVars, queue
  <2>. QED
    BY <2>2, <2>3, <2>4 DEF CacheInv
<1>7. CASE SaveMutated \/ SaveHavoc \/ SaveImported
  BY <1>7, SaveInv DEF SaveMutated, SaveHavoc, SaveImported
<1>8. CASE UNCHANGED vars
  <2>1. ArrayInv' /\ SizeCoversUse'
    BY <1>8, ArrayFrame, SizeFrame DEF CacheInv, vars, queueVars, cacheVars
  <2>2. TypeOK' /\ CallerInv'
    BY <1>8 DEF CacheInv, TypeOK, CallerInv, vars, queueVars, cacheVars, callVars, queue
  <2>3. FetchInv'
    BY <1>8 DEF CacheInv, FetchInv, MustEvict, BySize, vars, queueVars, cacheVars,
                callVars, queue
  <2>. QED
    BY <2>1, <2>2, <2>3 DEF CacheInv
<1>. QED
  BY <1>1, <1>2, <1>3, <1>4, <1>5, <1>6, <1>7, <1>8 DEF Next

LEMMA AlwaysInv == Spec => []CacheInv
BY InitInv, NextInv, PTL DEF Spec

\* The fields of the cache keep their types; none of the unsigned counters goes
\* below zero, so no subtraction in the eviction of queue_testcase_get wraps.
THEOREM CacheTypeCorrect == Spec => []TypeOK
<1>1. CacheInv => TypeOK
  BY DEF CacheInv
<1>. QED
  BY <1>1, AlwaysInv, PTL

\* The array, the entries' testcase_buf and q_testcase_cache_count describe the
\* same entries, the hint q_testcase_smallest_free is right, and every search
\* for a slot ends inside the array, also after ck_realloc has cut it down to
\* the learnt limit.
THEOREM SlotsCorrect == Spec => []SlotsConsistent
<1>1. CacheInv => SlotsConsistent
  <2>. SUFFICES ASSUME CacheInv PROVE SlotsConsistent
    OBVIOUS
  <2>0. /\ max_count \in Nat /\ max_entries \in Nat /\ room \in Nat /\ count \in Nat
        /\ max_count <= max_entries /\ max_entries <= room /\ Slots \subseteq Nat
    BY CacheAssumption DEF CacheInv, TypeOK, ArrayInv, LimitInv, Slots
  <2>1. \A s \in Occupied : s < room
    <3>1. \A s \in Occupied : s \in Nat /\ s < max_count
      BY <2>0 DEF CacheInv, ArrayInv, SlotsMatchBuffers, Occupied
    <3>. QED
      BY <2>0, <3>1
  <2>2. \A s : GoodSlot(s) => s < room
    BY <2>0 DEF GoodSlot
  <2>3. (pc = "fetch" /\ ~MustEvict(len[want])) => NextSlot < room
    BY <2>2, FetchSlot DEF CacheInv
  <2>4. ~NoSpace(1) => FirstFree(IF max_count >= max_entries
                                    THEN smallest_free ELSE max_count) < room
    <3>1. ~NoSpace(1) => count < max_entries - 1
      BY <2>0 DEF NoSpace
    <3>. QED
      BY <2>2, <3>1, StoreSlot DEF CacheInv
  <2>. QED
    BY <2>1, <2>3, <2>4 DEF SlotsConsistent, SlotInArray, CacheInv, ArrayInv
<1>. QED
  BY <1>1, AlwaysInv, PTL

\* Whenever the eviction loop of queue_testcase_get draws, there is an entry it
\* may take, and the buffer fuzz_one works on is never freed under it.
THEOREM EvictionCorrect == Spec => []EvictionSound
<1>1. CacheInv => EvictionSound
  <2>. SUFFICES ASSUME CacheInv PROVE EvictionSound
    OBVIOUS
  <2>1. VictimExists
    BY VictimThere DEF VictimExists
  <2>2. InBufAlive
    BY DEF CacheInv, CallerInv, InBufAlive
  <2>. QED
    BY <2>1, <2>2 DEF EvictionSound
<1>. QED
  BY <1>1, AlwaysInv, PTL
-----------------------------------------------------------------------------
(* The custom flag                                                         *)

\* A find of the custom stage that had space carries the flag, which the byte
\* trimmer respects.
FlagInv ==
    /\ pc = "custom" => current_custom_fuzz
    /\ \A e \in made : custom[e]
    /\ MutatorCasesUntrimmed

LEMMA InitFlag == Init => FlagInv
BY DEF Init, FlagInv, MutatorCasesUntrimmed

LEMMA SaveFlag ==
    ASSUME CacheInv, FlagInv, NEW by, Save(by), by = "mutator" => pc = "custom"
    PROVE  FlagInv'
<1>1. PICK e \in Entry, l \in Lengths :
         /\ e = queued_items + 1
         /\ len' = [len EXCEPT ![e] = l]
         /\ made' = IF by = "mutator" /\ ~NoSpace(l) THEN made \cup {e} ELSE made
         /\ queue_testcase_store_mem(e)
         /\ UNCHANGED <<byte_trimmed, callVars>>
  BY DEF Save
<1>2. /\ e \notin made /\ e \notin byte_trimmed /\ made \in SUBSET Entry
      /\ custom \in [Entry -> BOOLEAN] /\ len'[e] = l
  BY <1>1, CacheAssumption DEF CacheInv, TypeOK, queue, Entry
<1>3. CASE NoSpace(l)
  <2>1. made' = made /\ custom' = custom
    BY <1>1, <1>2, <1>3 DEF queue_testcase_store_mem
  <2>. QED
    BY <1>1, <2>1 DEF FlagInv, MutatorCasesUntrimmed, callVars
<1>4. CASE ~NoSpace(l)
  <2>1. custom' = [custom EXCEPT ![e] = Marked(@)]
    BY <1>1, <1>2, <1>4 DEF queue_testcase_store_mem
  <2>2. by = "mutator" => custom'[e]
    BY <1>2, <2>1 DEF Marked, FlagInv
  <2>3. \A x \in made : custom'[x]
    BY <1>2, <2>1 DEF FlagInv
  <2>4. \A x \in made' : custom'[x]
    BY <1>1, <2>2, <2>3
  <2>5. byte_trimmed' \cap made' = {}
    BY <1>1, <1>2 DEF FlagInv, MutatorCasesUntrimmed
  <2>. QED
    BY <1>1, <2>4, <2>5 DEF FlagInv, MutatorCasesUntrimmed, callVars
<1>. QED
  BY <1>3, <1>4

LEMMA NextFlag == CacheInv /\ FlagInv /\ [Next]_vars => FlagInv'
<1>. SUFFICES ASSUME CacheInv, FlagInv, [Next]_vars PROVE FlagInv'
  OBVIOUS
<1>1. CASE FuzzOne \/ Rescore \/ Splice
  <2>1. UNCHANGED <<custom, made, byte_trimmed>> /\ pc' # "custom"
    BY <1>1 DEF FuzzOne, Rescore, Splice, queue_testcase_get, queueVars
  <2>. QED
    BY <2>1 DEF FlagInv, MutatorCasesUntrimmed
<1>2. CASE Redraw \/ Evict \/ Load
  <2>1. UNCHANGED <<custom, made, byte_trimmed>> /\ pc' # "custom"
    BY <1>2 DEF Redraw, Evict, Load, queueVars, CacheInv, TypeOK
  <2>. QED
    BY <2>1 DEF FlagInv, MutatorCasesUntrimmed
<1>3. CASE Trim
  <2>1. /\ pc = "loaded" /\ UNCHANGED <<custom, made, pc>>
        /\ \/ UNCHANGED byte_trimmed
           \/ ~custom[queue_cur] /\ byte_trimmed' = byte_trimmed \cup {queue_cur}
    BY <1>3 DEF Trim, trim_case, callVars
  <2>. QED
    BY <2>1 DEF FlagInv, MutatorCasesUntrimmed
<1>4. CASE CustomStage \/ CustomStageEnds \/ AbandonEntry
  <2>1. /\ UNCHANGED <<custom, made, byte_trimmed>>
        /\ pc' = "custom" => current_custom_fuzz'
    BY <1>4 DEF CustomStage, CustomStageEnds, AbandonEntry, queueVars
  <2>. QED
    BY <2>1 DEF FlagInv, MutatorCasesUntrimmed
<1>5. CASE SaveMutated \/ SaveHavoc \/ SaveImported
  <2>1. PICK by : Save(by) /\ (by = "mutator" => pc = "custom")
    BY <1>5 DEF SaveMutated, SaveHavoc, SaveImported
  <2>. QED
    BY <2>1, SaveFlag
<1>6. CASE UNCHANGED vars
  BY <1>6 DEF FlagInv, MutatorCasesUntrimmed, vars, queueVars, callVars
<1>. QED
  BY <1>1, <1>2, <1>3, <1>4, <1>5, <1>6 DEF Next

\* wasm_mutators.c means its cases not to be trimmed: those that
\* queue_testcase_store_mem had space for never reach the byte trimmer.
THEOREM MutatorCasesCorrect == Spec => []MutatorCasesUntrimmed
<1>1. FlagInv => MutatorCasesUntrimmed
  BY DEF FlagInv
<1>. QED
  BY <1>1, AlwaysInv, InitFlag, NextFlag, PTL DEF Spec

-----------------------------------------------------------------------------
(* The bounds on the size, with a mutator that does not trim               *)

\* What an entry may account for: its length while it is cached, and after a
\* trim whatever the trim took off as well.
Weight ==
    [e \in Entry |->
        IF e \in buf THEN IF trim_done[e] THEN MaxFile ELSE len[e]
                     ELSE IF trim_done[e] THEN MaxFile - len[e] ELSE 0]

WeightInv == size <= Cardinality(Area(queue, Weight))

BoundInv == MemoryWithinLimit /\ WeightInv

LEMMA WeightType ==
    ASSUME CacheInv
    PROVE  Weight \in LengthFn
BY CacheAssumption DEF Weight, LengthFn, CacheInv, TypeOK

LEMMA WeightTypeNext ==
    ASSUME CacheInv'
    PROVE  Weight' \in LengthFn
BY CacheAssumption DEF Weight, LengthFn, CacheInv, TypeOK

\* A step that changes the weight of one entry by no less than the size.
LEMMA WeightStep ==
    ASSUME CacheInv, CacheInv', WeightInv, NEW e \in queue,
           UNCHANGED queued_items,
           \A x \in queue : x # e => Weight'[x] = Weight[x],
           size' - size <= Weight'[e] - Weight[e]
    PROVE  WeightInv'
<1>1. /\ queue \in SUBSET Entry /\ queue' = queue
      /\ size \in Nat /\ size' \in Nat
  BY CacheAssumption DEF CacheInv, TypeOK, queue, Entry
<1>2. Weight \in LengthFn /\ Weight' \in LengthFn
  BY WeightType, WeightTypeNext
<1>3. /\ Weight[e] \in 0 .. MaxFile /\ Weight'[e] \in 0 .. MaxFile /\ MaxFile \in Nat
  BY <1>1, <1>2, CacheAssumption DEF LengthFn
<1>4. /\ Cardinality(Area(queue, Weight)) = Cardinality(Area(queue \ {e}, Weight)) + Weight[e]
      /\ Cardinality(Area(queue, Weight')) = Cardinality(Area(queue \ {e}, Weight')) + Weight'[e]
  BY <1>1, <1>2, AreaSplit
<1>5. Area(queue \ {e}, Weight') = Area(queue \ {e}, Weight)
  BY AreaSame
<1>6. Cardinality(Area(queue \ {e}, Weight)) \in Nat
  BY <1>1, AreaFinite
<1>7. size' <= Cardinality(Area(queue, Weight'))
  BY <1>1, <1>3, <1>4, <1>5, <1>6 DEF WeightInv
<1>8. (WeightInv)' <=> size' <= Cardinality(Area(queue', Weight'))
  BY DEF WeightInv, Area, Lengths
<1>. QED
  BY <1>1, <1>7, <1>8

LEMMA MemUse ==
    /\ MemoryWithinLimit <=> Cardinality(Area(buf, len)) <= MaxSize
    /\ MemoryWithinLimit' <=> Cardinality(Area(buf', len')) <= MaxSize
BY DEF MemoryWithinLimit, Bytes, Area

\* Registering an entry that fits keeps the cached bytes within the limit: its
\* size is below it, or at most one other entry is cached.
LEMMA RegisterMem ==
    ASSUME CacheInv, NEW e \in Entry, e \notin buf, NEW s, Register(e, s),
           len' \in LengthFn, \A x \in buf : len'[x] = len[x],
           ~BySize(len'[e]) \/ count <= 1
    PROVE  MemoryWithinLimit'
<1>1. /\ buf \in SUBSET Entry /\ size \in Nat /\ MaxFile \in Nat /\ MaxSize \in Nat
      /\ len \in LengthFn /\ len'[e] \in 0 .. MaxFile /\ MaxSize >= 2 * MaxFile
  BY CacheAssumption DEF CacheInv, TypeOK, queue, Entry, LengthFn
<1>2. buf' = buf \cup {e}
  BY DEF Register
<1>3. Cardinality(Area(buf', len')) = Cardinality(Area(buf, len)) + len'[e]
  <2>1. buf' \in SUBSET Entry /\ e \in buf' /\ buf' \ {e} = buf
    BY <1>1, <1>2
  <2>2. Cardinality(Area(buf', len')) = Cardinality(Area(buf, len')) + len'[e]
    BY <2>1, AreaSplit
  <2>. QED
    BY <2>2, AreaSame
<1>4. Cardinality(Area(buf, len)) \in Nat
  BY <1>1, AreaFinite
<1>5. CASE ~BySize(len'[e])
  <2>1. size >= Cardinality(Area(buf, len)) /\ size + len'[e] < MaxSize
    BY <1>1, <1>5, SizeUse DEF BySize, CacheInv
  <2>2. Cardinality(Area(buf', len')) <= MaxSize
    BY <1>1, <1>3, <1>4, <2>1
  <2>. QED
    BY <2>2, MemUse
<1>6. CASE count <= 1
  <2>1. Cardinality(Area(buf, len)) <= MaxFile
    <3>1. CASE buf = {}
      <4>1. Area(buf, len) = {}
        BY <3>1 DEF Area
      <4>. QED
        BY <1>1, <4>1, FS_EmptySet
    <3>2. CASE \E x \in buf : TRUE
      <4>1. PICK x \in buf : TRUE
        BY <3>2
      <4>2. \A t, u \in Occupied : t = u
        <5>1. count = Cardinality(Occupied)
          BY DEF CacheInv, ArrayInv, SlotsMatchBuffers
        <5>2. SUFFICES ASSUME NEW t \in Occupied, NEW u \in Occupied, t # u
                       PROVE  FALSE
          OBVIOUS
        <5>3. /\ Cardinality(Occupied \ {t}) = Cardinality(Occupied) - 1
              /\ IsFiniteSet(Occupied \ {t})
          BY OccupiedFinite, FS_RemoveElement
        <5>4. Occupied \ {t} # {} /\ Cardinality(Occupied \ {t}) \in Nat
          BY <5>2, <5>3, FS_CardinalityType
        <5>5. Cardinality(Occupied \ {t}) # 0
          BY <5>3, <5>4, FS_EmptySet
        <5>. QED
          BY <1>6, <5>1, <5>3, <5>4, <5>5, OccupiedFinite
      <4>3. \A y \in buf : y = x
        <5>1. {cache[t] : t \in Occupied} = buf
          BY DEF CacheInv, ArrayInv, SlotsMatchBuffers
        <5>2. PICK t \in Occupied : cache[t] = x
          BY <4>1, <5>1
        <5>. QED
          BY <4>2, <5>1, <5>2
      <4>4. buf \ {x} = {}
        BY <4>3
      <4>5. Area(buf \ {x}, len) = {}
        BY <4>4 DEF Area
      <4>6. Cardinality(Area(buf, len)) = Cardinality(Area(buf \ {x}, len)) + len[x]
        BY <1>1, AreaSplit
      <4>7. len[x] \in 0 .. MaxFile
        BY <1>1 DEF LengthFn
      <4>8. Cardinality(Area(buf \ {x}, len)) = 0
        BY <4>5, FS_EmptySet
      <4>. QED
        BY <1>1, <4>6, <4>7, <4>8
    <3>. QED
      BY <3>1, <3>2
  <2>2. Cardinality(Area(buf', len')) <= MaxSize
    BY <1>1, <1>3, <1>4, <2>1
  <2>. QED
    BY <2>2, MemUse
<1>. QED
  BY <1>5, <1>6

LEMMA InitBound == Init => BoundInv
<1>. SUFFICES ASSUME Init PROVE BoundInv
  OBVIOUS
<1>1. CacheInv
  BY InitInv
<1>2. Cardinality(Area(queue, Weight)) \in Nat
  <2>1. queue \in SUBSET Entry
    BY <1>1, CacheAssumption DEF CacheInv, TypeOK, queue, Entry
  <2>. QED
    BY <2>1, AreaFinite
<1>3. WeightInv
  BY <1>2 DEF Init, WeightInv
<1>4. Area(buf, len) = {}
  BY DEF Init, Area
<1>5. Cardinality(Area(buf, len)) <= MaxSize
  BY <1>4, FS_EmptySet, CacheAssumption
<1>. QED
  BY <1>3, <1>5, MemUse DEF BoundInv
LEMMA BasicTypes ==
    ASSUME CacheInv
    PROVE  /\ queue \in SUBSET Entry /\ buf \in SUBSET queue /\ len \in LengthFn
           /\ size \in Nat /\ MaxFile \in Nat /\ count \in Nat
           /\ queued_items \in Nat
           /\ \A x \in Entry : len[x] \in 0 .. MaxFile
<1>1. /\ buf \in SUBSET queue /\ len \in LengthFn /\ size \in Nat /\ count \in Nat
      /\ MaxFile \in Nat /\ queued_items \in Nat
  BY CacheAssumption DEF CacheInv, TypeOK, LengthFn, Entry
<1>2. queue \in SUBSET Entry
  BY CacheAssumption DEF CacheInv, TypeOK, queue, Entry
<1>. QED
  BY <1>1, <1>2 DEF LengthFn

LEMMA SaveBound ==
    ASSUME CacheInv, CacheInv', BoundInv, NEW by, Save(by)
    PROVE  BoundInv'
<1>1. PICK e \in Entry, l \in Lengths :
         /\ e = queued_items + 1 /\ queued_items' = e
         /\ len' = [len EXCEPT ![e] = l]
         /\ queue_testcase_store_mem(e)
         /\ UNCHANGED trim_done
  BY DEF Save
<1>2. /\ queue \in SUBSET Entry /\ queue' \in SUBSET Entry /\ e \notin queue
      /\ queue' = queue \cup {e}
      /\ len \in LengthFn /\ buf \in SUBSET queue /\ e \notin buf
      /\ size \in Nat /\ size' \in Nat /\ MaxFile \in Nat
  <2>1. /\ queue \in SUBSET Entry /\ buf \in SUBSET queue /\ len \in LengthFn
        /\ size \in Nat /\ MaxFile \in Nat /\ queued_items \in Nat
    BY BasicTypes
  <2>2. size' \in Nat
    BY DEF CacheInv, TypeOK
  <2>3. e \notin queue /\ queue' = queue \cup {e}
    BY <1>1, <2>1 DEF queue
  <2>. QED
    BY <2>1, <2>2, <2>3
<1>3. /\ len' \in LengthFn /\ len'[e] = l /\ l \in 1 .. MaxFile
      /\ \A x \in Entry : x # e => len'[x] = len[x]
  BY <1>1, <1>2, CacheAssumption DEF LengthFn, Lengths
<1>4. /\ \A x \in buf : len'[x] = len[x]
      /\ \A x \in queue : x # e
  BY <1>2, <1>3
<1>5. \/ UNCHANGED <<buf, size>>
      \/ /\ ~NoSpace(len'[e]) /\ buf' = buf \cup {e} /\ size' = size + len'[e]
         /\ \E s : Register(e, s)
  BY <1>1 DEF queue_testcase_store_mem, Register, cacheVars
<1>6. MemoryWithinLimit'
  <2>1. CASE UNCHANGED <<buf, size>>
    <3>1. Area(buf', len') = Area(buf, len)
      BY <1>4, <2>1, AreaSame
    <3>. QED
      BY <3>1, MemUse DEF BoundInv
  <2>2. CASE ~NoSpace(len'[e]) /\ \E s : Register(e, s)
    <3>1. ~BySize(len'[e])
      BY <2>2 DEF NoSpace
    <3>. QED
      BY <1>2, <1>3, <1>4, <2>2, <3>1, RegisterMem
  <2>. QED
    BY <1>5, <2>1, <2>2
<1>7. WeightInv'
  <2>1. \A x \in queue : Weight'[x] = Weight[x]
    BY <1>1, <1>2, <1>3, <1>4, <1>5 DEF Weight
  <2>2. Weight' \in LengthFn /\ Weight'[e] \in 0 .. MaxFile
    BY WeightTypeNext DEF LengthFn
  <2>3. size' - size <= Weight'[e]
    <3>1. CASE UNCHANGED <<buf, size>>
      BY <1>2, <2>2, <3>1
    <3>2. CASE buf' = buf \cup {e} /\ size' = size + len'[e]
      <4>1. Weight'[e] = IF trim_done'[e] THEN MaxFile ELSE len'[e]
        BY <3>2 DEF Weight
      <4>. QED
        BY <1>2, <1>3, <3>2, <4>1
    <3>. QED
      BY <1>5, <3>1, <3>2
  <2>4. Cardinality(Area(queue', Weight')) = Cardinality(Area(queue, Weight)) + Weight'[e]
    <3>1. queue' \ {e} = queue /\ e \in queue'
      BY <1>2
    <3>2. Cardinality(Area(queue', Weight')) = Cardinality(Area(queue, Weight')) + Weight'[e]
      <4>1. /\ Cardinality(Area(queue', Weight')) =
                 Cardinality(Area(queue' \ {e}, Weight')) + Weight'[e]
        BY <1>2, <2>2, <3>1, AreaSplit
      <4>. QED
        BY <3>1, <4>1
    <3>. QED
      BY <2>1, <3>2, AreaSame
  <2>5. Cardinality(Area(queue, Weight)) \in Nat
    BY <1>2, AreaFinite
  <2>6. size' <= Cardinality(Area(queue', Weight'))
    BY <1>2, <2>2, <2>3, <2>4, <2>5 DEF BoundInv, WeightInv
  <2>. QED
    BY <2>6 DEF WeightInv, Area, Lengths
<1>. QED
  BY <1>6, <1>7 DEF BoundInv

LEMMA NextBound ==
    ASSUME ~CustomTrims
    PROVE  CacheInv /\ CacheInv' /\ BoundInv /\ [Next]_vars => BoundInv'
<1>. SUFFICES ASSUME CacheInv, CacheInv', BoundInv, [Next]_vars PROVE BoundInv'
  OBVIOUS
<1>0. /\ queue \in SUBSET Entry /\ buf \in SUBSET queue /\ len \in LengthFn
      /\ size \in Nat /\ MaxFile \in Nat /\ count \in Nat
      /\ \A x \in Entry : len[x] \in 0 .. MaxFile
  BY BasicTypes
<1>1. CASE Evict
  <2>1. PICK t \in Victims :
           /\ cache[t] \in buf /\ buf' = buf \ {cache[t]}
           /\ size' = size - len[cache[t]]
    BY <1>1, EvictArray
  <2>2. UNCHANGED <<len, queued_items, trim_done>>
    BY <1>1 DEF Evict, queueVars
  <2>. DEFINE e == cache[t]
  <2>3. e \in buf /\ e \in queue /\ e \in Entry /\ buf' = buf \ {e} /\ size' = size - len[e]
    BY <1>0, <2>1
  <2>. HIDE DEF e
  <2>4. \A x \in queue : x # e => Weight'[x] = Weight[x]
    BY <1>0, <2>2, <2>3 DEF Weight
  <2>5. size' - size <= Weight'[e] - Weight[e]
    <3>1. /\ Weight[e] = IF trim_done[e] THEN MaxFile ELSE len[e]
          /\ Weight'[e] = IF trim_done[e] THEN MaxFile - len[e] ELSE 0
      BY <1>0, <2>2, <2>3 DEF Weight
    <3>2. len[e] \in 0 .. MaxFile
      BY <1>0, <2>3
    <3>. QED
      BY <1>0, <2>3, <3>1, <3>2
  <2>6. WeightInv'
    BY <2>2, <2>3, <2>4, <2>5, WeightStep DEF BoundInv
  <2>7. MemoryWithinLimit'
    <3>1. buf' \in SUBSET Entry /\ buf \in SUBSET Entry /\ buf' \subseteq buf
          /\ \A x \in buf' : len[x] <= len[x]
      BY <1>0, <2>3
    <3>2. Cardinality(Area(buf', len)) <= Cardinality(Area(buf, len))
      BY <1>0, <3>1, AreaMonotonic
    <3>3. Cardinality(Area(buf', len)) \in Nat /\ Cardinality(Area(buf, len)) \in Nat
      BY <3>1, AreaFinite
    <3>4. Cardinality(Area(buf', len')) <= MaxSize
      BY <2>2, <3>2, <3>3, MemUse, CacheAssumption DEF BoundInv
    <3>. QED
      BY <3>4, MemUse
  <2>. QED
    BY <2>6, <2>7 DEF BoundInv
<1>2. CASE Load
  <2>1. /\ pc = "fetch" /\ ~MustEvict(len[want]) /\ Register(want, NextSlot)
        /\ UNCHANGED <<len, queued_items, trim_done>>
    BY <1>2 DEF Load, queueVars
  <2>2. want \in queue /\ want \notin buf /\ want \in Entry
    BY <1>0, <2>1 DEF CacheInv, FetchInv
  <2>3. buf' = buf \cup {want} /\ size' = size + len[want]
    BY <2>1 DEF Register
  <2>4. \A x \in queue : x # want => Weight'[x] = Weight[x]
    BY <1>0, <2>1, <2>3 DEF Weight
  <2>5. size' - size <= Weight'[want] - Weight[want]
    <3>1. /\ Weight'[want] = IF trim_done[want] THEN MaxFile ELSE len[want]
          /\ Weight[want] = IF trim_done[want] THEN MaxFile - len[want] ELSE 0
      BY <1>0, <2>1, <2>2, <2>3 DEF Weight
    <3>2. len[want] \in 0 .. MaxFile
      BY <1>0, <2>2
    <3>. QED
      BY <1>0, <2>3, <3>1, <3>2
  <2>6. WeightInv'
    BY <2>1, <2>2, <2>4, <2>5, WeightStep DEF BoundInv
  <2>7. MemoryWithinLimit'
    <3>1. len' \in LengthFn /\ \A x \in buf : len'[x] = len[x]
      BY <1>0, <2>1
    <3>2. ~BySize(len'[want]) \/ count <= 1
      BY <1>0, <2>1 DEF MustEvict
    <3>. QED
      BY <2>1, <2>2, <3>1, <3>2, RegisterMem
  <2>. QED
    BY <2>6, <2>7 DEF BoundInv
<1>3. CASE Trim
  <2>. DEFINE q == queue_cur
  <2>1. /\ trim_done' = [trim_done EXCEPT ![q] = TRUE]
        /\ UNCHANGED <<queued_items, buf>> /\ q \in queue /\ ~trim_done[q]
        /\ trim_done \in [Entry -> BOOLEAN]
    BY <1>3 DEF Trim, CacheInv, CallerInv, TypeOK
  <2>2. /\ len' \in LengthFn /\ size' = size /\ len'[q] <= len[q]
        /\ \A x \in Entry : x # q => len'[x] = len[x]
    BY <1>3, TrimSize
  <2>3. \A x \in queue : x # q => Weight'[x] = Weight[x]
    BY <1>0, <2>1, <2>2 DEF Weight
  <2>4. size' - size <= Weight'[q] - Weight[q]
    <3>1. /\ Weight[q] = IF q \in buf THEN len[q] ELSE 0
          /\ Weight'[q] = IF q \in buf THEN MaxFile ELSE MaxFile - len'[q]
      BY <1>0, <2>1 DEF Weight
    <3>2. len[q] \in 0 .. MaxFile /\ len'[q] \in 0 .. MaxFile
      BY <1>0, <2>1, <2>2 DEF LengthFn
    <3>. QED
      BY <1>0, <2>2, <3>1, <3>2
  <2>5. WeightInv'
    BY <2>1, <2>3, <2>4, WeightStep DEF BoundInv
  <2>6. MemoryWithinLimit'
    <3>1. buf \in SUBSET Entry /\ \A x \in buf : len'[x] <= len[x]
      BY <1>0, <2>1, <2>2
    <3>2. Cardinality(Area(buf, len')) <= Cardinality(Area(buf, len))
      BY <1>0, <2>2, <3>1, AreaMonotonic
    <3>3. Cardinality(Area(buf, len')) \in Nat /\ Cardinality(Area(buf, len)) \in Nat
      BY <3>1, AreaFinite
    <3>4. Cardinality(Area(buf', len')) <= MaxSize
      BY <2>1, <3>2, <3>3, MemUse, CacheAssumption DEF BoundInv
    <3>. QED
      BY <3>4, MemUse
  <2>. QED
    BY <2>5, <2>6 DEF BoundInv
<1>4. CASE SaveMutated \/ SaveHavoc \/ SaveImported
  BY <1>4, SaveBound DEF SaveMutated, SaveHavoc, SaveImported
<1>5. CASE \/ FuzzOne \/ Rescore \/ Splice \/ Redraw \/ CustomStage
           \/ CustomStageEnds \/ AbandonEntry \/ UNCHANGED vars
  <2>1. UNCHANGED <<buf, size, len, trim_done, queued_items>>
    BY <1>5 DEF FuzzOne, Rescore, Splice, queue_testcase_get, Redraw, CustomStage,
                CustomStageEnds, AbandonEntry, vars, queueVars, cacheVars
  <2>2. MemoryWithinLimit'
    BY <2>1, MemUse DEF BoundInv
  <2>3. WeightInv'
    BY <2>1 DEF BoundInv, WeightInv, Weight, Area, queue
  <2>. QED
    BY <2>2, <2>3 DEF BoundInv
<1>. QED
  BY <1>1, <1>2, <1>3, <1>4, <1>5 DEF Next

\* With a mutator that does not trim (wasm_mutators.c: init_trim returns 0
\* steps), q_testcase_cache_size never falls below the bytes cached, these stay
\* within AFL_TESTCACHE_SIZE, and what byte trims leave in it is bounded: it
\* does not grow with the number of fetches and evictions.
THEOREM SizeCorrect ==
    ASSUME ~CustomTrims
    PROVE  Spec => []SizeSound
<1>1. CacheInv /\ BoundInv => SizeSound
  <2>. SUFFICES ASSUME CacheInv, BoundInv PROVE SizeSound
    OBVIOUS
  <2>1. /\ queued_items \in Nat /\ MaxFile \in Nat /\ size \in Nat /\ queue = 1 .. queued_items
        /\ 1 \in Int /\ queued_items >= 1 /\ MaxFile >= 1
    BY CacheAssumption DEF CacheInv, TypeOK, queue, Entry
  <2>2. /\ IsFiniteSet(queue) /\ Cardinality(queue) = queued_items
        /\ IsFiniteSet(Lengths) /\ Cardinality(Lengths) = MaxFile
    BY <2>1, FS_Interval DEF Lengths
  <2>3. IsFiniteSet(queue \X Lengths)
        /\ Cardinality(queue \X Lengths) = queued_items * MaxFile
    BY <2>2, FS_Product
  <2>4. Area(queue, Weight) \in SUBSET (queue \X Lengths)
    BY DEF Area
  <2>5. Cardinality(Area(queue, Weight)) <= Cardinality(queue \X Lengths)
        /\ Cardinality(Area(queue, Weight)) \in Nat
    BY <2>3, <2>4, FS_Subset, FS_CardinalityType
  <2>6. SizeBounded
    BY <2>1, <2>3, <2>5 DEF BoundInv, WeightInv, SizeBounded
  <2>. QED
    BY <2>6 DEF SizeSound, CacheInv, BoundInv
<1>. QED
  BY <1>1, AlwaysInv, InitBound, NextBound, PTL DEF Spec
=============================================================================
