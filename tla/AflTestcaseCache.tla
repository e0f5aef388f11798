-------------------------- MODULE AflTestcaseCache --------------------------
(***************************************************************************)
(* The testcase cache of afl-fuzz (afl-fuzz-queue.c): an array of pointers *)
(* to the queue entries whose bytes are kept in memory, filled by          *)
(* queue_testcase_get and queue_testcase_store_mem, thinned out by random  *)
(* eviction, and patched by the two retake functions after a trim.  The    *)
(* callers are modelled as far as they decide the order of the calls:      *)
(* fuzz_one loads, trims and mutates the current entry; every find of any  *)
(* stage is stored; the imports of sync_fuzzers are stored between two     *)
(* entries.  queue_testcase_store_mem also sets the entry's `custom' flag, *)
(* which later decides which trimmer the entry gets.                       *)
(*                                                                         *)
(* A fetch is a step per evicted entry and a final step that registers the *)
(* new one, so that the state between two evictions is a state of the      *)
(* model.  Everything else is one step per call.                           *)
(***************************************************************************)
EXTENDS Integers, FiniteSets

CONSTANTS
    MaxItems,       \* bound on the number of queue entries
    TrimItems,      \* the same in a session that trims
    MaxFile,        \* MAX_FILE: the longest testcase
    MaxSize,        \* AFL_TESTCACHE_SIZE in bytes
    MaxEntries,     \* AFL_TESTCACHE_ENTRIES
    Slack,          \* the 1024 bytes under which a buffer is not reallocated
    Word,           \* 2^32, the modulus of u32
    CustomTrims     \* the custom mutator's trimmer may change the length
                    \* (FALSE for SWAM: its init_trim returns 0 steps)

\* afl-fuzz.c refuses a cache below 2 * MAX_FILE; two entries must fit beside
\* the one being loaded, else the eviction loop has no victim to pick.
ASSUME CacheAssumption ==
    /\ MaxItems \in Nat \ {0} /\ TrimItems \in 1 .. MaxItems
    /\ MaxFile \in Nat \ {0}
    /\ MaxSize \in Nat /\ MaxSize >= 2 * MaxFile
    /\ MaxEntries \in Nat /\ MaxEntries >= 3
    /\ Slack \in Nat
    /\ Word \in Nat /\ Word > MaxSize
    /\ CustomTrims \in BOOLEAN

Entry == 1 .. MaxItems            \* queue_buf: entries in the order they came
NoEntry == 0                      \* the NULL pointer

VARIABLES
    disable_trim,   \* AFL_DISABLE_TRIM
    \* the queue
    queued_items,   \* how many entries there are
    len,            \* q->len
    custom,         \* q->custom
    trim_done,      \* q->trim_done
    buf,            \* the entries with q->testcase_buf # NULL
    \* the cache
    cache,          \* q_testcase_cache
    room,           \* the number of elements allocated for it
    size,           \* q_testcase_cache_size
    count,          \* q_testcase_cache_count
    max_count,      \* q_testcase_max_cache_count
    max_entries,    \* q_testcase_max_cache_entries
    smallest_free,  \* q_testcase_smallest_free
    do_once,        \* the entry limit has been learnt
    \* the caller
    pc,             \* where fuzz_one is
    queue_cur,      \* the entry being fuzzed
    in_buf,         \* what fuzz_one's in_buf points to
    current_custom_fuzz,  \* afl->current_custom_fuzz # NULL
    want, tid, back,      \* the running fetch: entry, slot, where to return
    \* ghosts
    made,           \* the entries the custom mutator made that had space in
                    \* the cache
    byte_trimmed    \* the entries the byte trimmer shortened

queueVars == <<disable_trim, queued_items, len, custom, trim_done, made,
               byte_trimmed>>
cacheVars == <<buf, cache, room, size, count, max_count, max_entries,
               smallest_free, do_once>>
callVars  == <<pc, queue_cur, in_buf, current_custom_fuzz, want, tid, back>>
vars == <<queueVars, cacheVars, callVars>>

queue == 1 .. queued_items

\* The indices of the array: MaxEntries + 1 at most are allocated, and one
\* more stands for an index past its end.
Slots == 0 .. MaxEntries + 1
Occupied == {s \in Slots : cache[s] # NoEntry}
Lengths == 1 .. MaxFile
\* The bytes of some entries: an entry and a position in it.
Bytes(S) == {b \in S \X Lengths : b[2] <= len[b[1]]}

\* The types of the cache's fields: the counters are unsigned in the code, so
\* none may go below zero.
TypeOK ==
    /\ disable_trim \in BOOLEAN /\ queued_items \in Entry
    /\ buf \subseteq queue
    /\ len \in [Entry -> 0 .. MaxFile]
    /\ custom \in [Entry -> BOOLEAN]
    /\ trim_done \in [Entry -> BOOLEAN]
    /\ made \subseteq queue
    /\ byte_trimmed \subseteq queue
    /\ cache \in [Slots -> Entry \cup {NoEntry}]
    /\ room \in Nat /\ size \in Nat /\ count \in Nat
    /\ max_count \in Nat /\ max_entries \in Nat /\ smallest_free \in Nat
    /\ do_once \in BOOLEAN
    /\ pc \in {"main", "fetch", "loaded", "custom", "havoc"}
    /\ back \in {"main", "loaded", "havoc"}
    /\ queue_cur \in queue \cup {NoEntry}
    /\ want \in queue \cup {NoEntry}
    /\ in_buf \in {"none", "cache", "temp"}
    /\ tid \in Nat
    /\ current_custom_fuzz \in BOOLEAN

Init ==
    /\ disable_trim \in BOOLEAN
    /\ queued_items = 1
    /\ \E l \in Lengths : len = [e \in Entry |-> IF e = 1 THEN l ELSE 0]
    /\ custom = [e \in Entry |-> FALSE]
    /\ trim_done = [e \in Entry |-> FALSE]
    /\ made = {}
    /\ byte_trimmed = {}
    /\ buf = {} /\ cache = [s \in Slots |-> NoEntry]
    /\ room = MaxEntries /\ max_entries = MaxEntries
    /\ size = 0 /\ count = 0 /\ max_count = 0 /\ smallest_free = 0
    /\ do_once = FALSE
    /\ pc = "main" /\ queue_cur = NoEntry /\ in_buf = "none"
    /\ current_custom_fuzz = FALSE
    /\ want = NoEntry /\ tid = 0 /\ back = "main"

-----------------------------------------------------------------------------
(* queue_testcase_get                                                      *)

\* The two reasons to evict.
BySize(l) == size + l >= MaxSize
EvictDownToNone(l) == BySize(l) \/ count >= max_entries - 1
MustEvict(l) == (BySize(l) /\ count > 1) \/ count >= max_entries - 1

\* The scan that skips the occupied slots from slot t on.
FirstFree(t) ==
    CHOOSE s \in Slots : /\ s >= t /\ cache[s] = NoEntry
                         /\ \A r \in Slots : t <= r /\ r < s
                                              => cache[r] # NoEntry

\* Where the entry that is about to be registered goes.
NextSlot == FirstFree(IF tid >= max_entries THEN smallest_free ELSE tid)

\* The random draw accepts a cached entry that is not in use.
Victims == {t \in Slots : /\ t < max_count
                          /\ cache[t] \notin {NoEntry, queue_cur}}

\* The call: a cached entry is returned at once; a light entry (weight below
\* 1.0) is read into a scratch buffer; any other is fetched into the cache.
\* `ret' is the caller's continuation, `cur' its queue_cur.
queue_testcase_get(e, light, cur, ret) ==
    /\ queue_cur' = cur
    /\ IF e \in buf \/ light
          THEN /\ pc' = ret
               /\ in_buf' = IF ret = "main" THEN "none"
                            ELSE IF e # cur THEN in_buf
                            ELSE IF e \in buf THEN "cache" ELSE "temp"
               /\ UNCHANGED <<want, tid, back>>
          ELSE /\ pc' = "fetch" /\ want' = e /\ tid' = max_count /\ back' = ret
               /\ UNCHANGED in_buf
    /\ UNCHANGED <<queueVars, cacheVars, current_custom_fuzz>>

\* A draw that hits an empty slot or the entry in use is repeated.
Redraw ==
    /\ pc = "fetch" /\ MustEvict(len[want])
    /\ \E t \in Slots \ Victims : t < max_count /\ tid' = t
    /\ UNCHANGED <<queueVars, cacheVars, pc, queue_cur, in_buf,
                   current_custom_fuzz, want, back>>

\* The entry limit is learnt once, when the cache is first full by size; the
\* array is cut to one slot more than that.
Learns(l) == /\ BySize(l) /\ ~do_once
             /\ count < max_entries /\ max_count < max_entries
Learnt == (IF max_count > count THEN max_count ELSE count) + 1
RoomLearnt == Learnt + 1

\* What the eviction of slot t leaves of the array, the size and the hint.
Freed(t) == [cache EXCEPT ![t] = NoEntry]
LostBuffer(t) == size - MaxFile
Remaining(t) == size - len[cache[t]]
HintKept(t) == smallest_free
Hint(t) == IF t < smallest_free THEN t ELSE smallest_free

Evict ==
    /\ pc = "fetch" /\ MustEvict(len[want])
    /\ \E t \in Victims :
          /\ buf' = buf \ {cache[t]}
          /\ size' = Remaining(t)
          /\ cache' = Freed(t)
          /\ smallest_free' = Hint(t)
          /\ tid' = t
    /\ count' = count - 1
    /\ do_once' = (do_once \/ Learns(len[want]))
    /\ max_entries' = IF Learns(len[want]) THEN Learnt ELSE max_entries
    /\ room' = IF Learns(len[want]) THEN RoomLearnt ELSE room
    /\ UNCHANGED <<queueVars, max_count, pc, queue_cur, in_buf,
                   current_custom_fuzz, want, back>>

\* Registering entry e in slot s, the common end of get and store_mem.
Register(e, s) ==
    /\ buf' = buf \cup {e}
    /\ cache' = [cache EXCEPT ![s] = e]
    /\ size' = size + len'[e]
    /\ count' = count + 1
    /\ max_count' = IF s >= max_count THEN s + 1 ELSE max_count
    /\ smallest_free' = IF s < max_count /\ s = smallest_free THEN s + 1
                        ELSE smallest_free
    /\ UNCHANGED <<room, max_entries, do_once>>

Load ==
    /\ pc = "fetch" /\ ~MustEvict(len[want])
    /\ UNCHANGED queueVars
    /\ Register(want, NextSlot)
    /\ pc' = back
    /\ in_buf' = IF back = "main" THEN "none"
                 ELSE IF want = queue_cur THEN "cache" ELSE in_buf
    /\ want' = NoEntry /\ tid' = 0 /\ back' = "main"
    /\ UNCHANGED <<queue_cur, current_custom_fuzz>>

-----------------------------------------------------------------------------
(* The callers                                                             *)

\* fuzz_one picks an entry and loads it.
FuzzOne ==
    /\ pc = "main"
    /\ \E e \in queue, light \in BOOLEAN :
           queue_testcase_get(e, light, e, "loaded")

\* recalculate_all_scores loads entries in the main loop, when the schedule
\* changes; queue_cur is still the entry fuzzed last.
Rescore ==
    /\ pc = "main"
    /\ \E e \in queue, light \in BOOLEAN :
           queue_testcase_get(e, light, queue_cur, "main")

\* queue_testcase_retake after a custom trim to length l.  The difference is
\* computed in 32 bits and added to the 64-bit size.
queue_testcase_retake(q, l) ==
    IF q \in buf /\ (l > len[q] \/ l + Slack < len[q])
       THEN size' = size + ((l - len[q]) % Word)
       ELSE UNCHANGED size

\* queue_testcase_retake_mem after a byte trim.  in_buf is the cached buffer
\* itself when the entry is cached (no post_process copies it): nothing to do.
RetakeAlways(q, l) ==
    IF q \in buf /\ l + Slack < len[q]
       THEN size' = size + ((l - len[q]) % Word)
       ELSE UNCHANGED size
queue_testcase_retake_mem(q, l) ==
    IF q \in buf /\ in_buf # "cache" /\ l + Slack < len[q]
       THEN size' = size + ((l - len[q]) % Word)
       ELSE UNCHANGED size

SetLen(q, l) == len' = [len EXCEPT ![q] = l]

\* trim_case, with the reload of in_buf and trim_done that follow it in
\* fuzz_one.  An entry with the custom flag goes to the mutator's trimmer.
trim_case(q) ==
    IF custom[q]
       THEN /\ \E l \in IF CustomTrims THEN Lengths ELSE {len[q]} :
                   SetLen(q, l) /\ queue_testcase_retake(q, l)
            /\ UNCHANGED byte_trimmed
       ELSE \E l \in 1 .. len[q] :
                   /\ SetLen(q, l)
                   /\ queue_testcase_retake_mem(q, l)
                   /\ byte_trimmed' = IF l < len[q] THEN byte_trimmed \cup {q}
                                      ELSE byte_trimmed

Trim ==
    /\ pc = "loaded" /\ ~trim_done[queue_cur] /\ ~disable_trim
    /\ trim_case(queue_cur)
    /\ trim_done' = [trim_done EXCEPT ![queue_cur] = TRUE]
    /\ UNCHANGED <<disable_trim, queued_items, custom, made, buf, cache, room,
                   count, max_count, max_entries, smallest_free, do_once,
                   callVars>>

\* The custom mutator stage sets current_custom_fuzz when it begins and
\* clears it when it ends; a stage that is abandoned (timeouts in a row, a
\* skip request) leaves it as it is.
CustomStage ==
    /\ pc = "loaded" /\ (trim_done[queue_cur] \/ disable_trim)
    /\ pc' = "custom" /\ current_custom_fuzz' = TRUE
    /\ UNCHANGED <<queueVars, cacheVars, queue_cur, in_buf, want, tid, back>>

CustomStageEnds ==
    /\ pc = "custom"
    /\ pc' = "havoc" /\ current_custom_fuzz' = FALSE
    /\ UNCHANGED <<queueVars, cacheVars, queue_cur, in_buf, want, tid, back>>

\* goto abandon_entry, from the custom stage or at the end of havoc.
AbandonEntry ==
    /\ pc \in {"loaded", "custom", "havoc"}
    /\ pc' = "main" /\ in_buf' = "none"
    /\ UNCHANGED <<queueVars, cacheVars, queue_cur, current_custom_fuzz,
                   want, tid, back>>

\* Havoc and splicing read another entry.
Splice ==
    /\ pc = "havoc"
    /\ \E e \in queue \ {queue_cur}, light \in BOOLEAN :
           queue_testcase_get(e, light, queue_cur, "havoc")

-----------------------------------------------------------------------------
(* queue_testcase_store_mem, on a find that add_to_queue just appended     *)

NoSpace(l) == BySize(l) \/ count >= max_entries - 1

\* The flag of an entry that is stored.
MarkLost(flag) == flag
Marked(flag) == flag \/ current_custom_fuzz

\* A find that has no space is not stored, and not marked either.
queue_testcase_store_mem(e) ==
    IF NoSpace(len'[e])
       THEN UNCHANGED <<cacheVars, custom>>
       ELSE /\ Register(e, FirstFree(IF max_count >= max_entries
                                        THEN smallest_free ELSE max_count))
            /\ custom' = [custom EXCEPT ![e] = Marked(@)]

Save(by) ==
    \E e \in Entry, l \in Lengths :
       /\ e = queued_items + 1
       /\ e <= IF disable_trim THEN MaxItems ELSE TrimItems
       /\ queued_items' = e
       /\ len' = [len EXCEPT ![e] = l]
       /\ made' = IF by = "mutator" /\ ~NoSpace(l) THEN made \cup {e} ELSE made
       /\ queue_testcase_store_mem(e)
       /\ UNCHANGED <<disable_trim, trim_done, byte_trimmed, callVars>>

\* A find of the custom stage, a find of havoc, an import of sync_fuzzers.
SaveMutated  == pc = "custom" /\ Save("mutator")
SaveHavoc    == pc = "havoc"  /\ Save("havoc")
SaveImported == pc = "main" /\ Save("import")

Next ==
    \/ FuzzOne \/ Rescore \/ Splice \/ Redraw \/ Evict \/ Load
    \/ Trim \/ CustomStage \/ CustomStageEnds \/ AbandonEntry
    \/ SaveMutated \/ SaveHavoc \/ SaveImported

Spec == Init /\ [][Next]_vars

-----------------------------------------------------------------------------
(* Properties                                                              *)

\* The array, the entries' buffers and the count describe one and the same
\* set of cached entries, no entry twice, none beyond max_count.
SlotsMatchBuffers ==
    /\ {cache[s] : s \in Occupied} = buf
    /\ \A s, t \in Occupied : cache[s] = cache[t] => s = t
    /\ count = Cardinality(Occupied)
    /\ \A s \in Occupied : s < max_count

\* The hint for the search from the start: no free slot lies below it.
FreeHintSound ==
    \A s \in Slots : s < smallest_free /\ s < max_count => s \in Occupied

\* A fetch that is done evicting and a store that has space find their slot
\* inside the allocated array, which the learnt limit has cut down.
SlotInArray ==
    /\ \A s \in Occupied : s < room
    /\ (pc = "fetch" /\ ~MustEvict(len[want])) => NextSlot < room
    /\ ~NoSpace(1) => FirstFree(IF max_count >= max_entries
                                   THEN smallest_free ELSE max_count) < room

\* Whatever is fetched, stored and evicted in between, the book-keeping of
\* the array is right, and every search in it ends inside it.
SlotsConsistent == SlotsMatchBuffers /\ FreeHintSound /\ SlotInArray

\* The draw of a victim ends: there is one that is not in use.
VictimExists ==
    (pc = "fetch" /\ MustEvict(len[want])) => Victims # {}

\* The buffer that fuzz_one works on is never freed under it.
InBufAlive ==
    (in_buf = "cache" /\ pc # "main") => queue_cur \in buf

\* An eviction always finds a victim, and never the buffer that is in use.
EvictionSound == VictimExists /\ InBufAlive

\* The accounted size never falls below what is cached, so the subtraction
\* in the eviction never wraps around.
SizeCoversUse == size >= Cardinality(Bytes(buf))

\* The bytes really cached stay within what the user allowed.
MemoryWithinLimit == Cardinality(Bytes(buf)) <= MaxSize

\* The accounted size stays below what all entries together may take: trims
\* leave it too high, but not more and more so as entries come and go, and no
\* difference wraps around.
SizeBounded == size <= queued_items * MaxFile

\* The accounted size follows what is cached, from above and not too far.
SizeSound == SizeCoversUse /\ MemoryWithinLimit /\ SizeBounded

\* wasm_mutators.c: "we disable trimming saved testcases that are introduced
\* by our custom mutators."  It holds of the finds that had space in the
\* cache, whatever is evicted, spliced or abandoned in between; one that came
\* when the cache was full is trimmed like any other.
MutatorCasesUntrimmed == byte_trimmed \cap made = {}
=============================================================================
