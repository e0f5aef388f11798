------------------------------ MODULE AflSync ------------------------------
(***************************************************************************)
(* How afl-fuzz instances that share a sync directory exchange test cases  *)
(* and agree on a main node (afl-fuzz-run.c, with the start and the end of *)
(* a session in afl-fuzz.c and afl-fuzz-init.c).                           *)
(*                                                                         *)
(* The instances are processes without locks between them.  They read each *)
(* other's directories: the files of queue/, the time of cmdline and the   *)
(* marker file is_main_node.  Of itself an instance keeps, per other       *)
(* instance, how far it has read (.synced/NAME) and how many files were    *)
(* there when it started (.synced/NAME.max).                               *)
(*                                                                         *)
(* A queue file is created empty and then written; trimming unlinks it and *)
(* creates it again.  Two entries hold the same input iff they hold the    *)
(* same case.  Files are never oversized.                                  *)
(***************************************************************************)
EXTENDS Integers, Sequences, FiniteSets

CONSTANTS
    Node,              \* the instances
    Mains,             \* the sets of instances that may be run with -M
    NoOne,             \* no instance
    MaxItems,          \* bound on the files of a queue
    MaxCases,          \* bound on the inputs ever found
    MaxEnds,           \* bound on how many sessions end; where entries are
                       \* trimmed none does
    TrimSettings,      \* whether entries are trimmed (not AFL_DISABLE_TRIM)
    Ends,              \* how an instance may end: "stop", "crash"
    Starts             \* how it may be started again: "fresh", "resume"

ASSUME SyncAssumption ==
    /\ Mains \subseteq SUBSET Node /\ NoOne \notin Node
    /\ MaxItems \in Nat \ {0} /\ MaxCases \in Nat /\ MaxEnds \in Nat
    /\ TrimSettings \subseteq BOOLEAN
    /\ Ends \subseteq {"stop", "crash"} /\ Starts \subseteq {"fresh", "resume"}

NoFile == -1                              \* there is no .max file
Id == 0 .. MaxItems - 1
Case == 1 .. MaxCases
File == [case : Case, from : Node \cup {NoOne},
         file : {"empty", "whole", "gone"}, trim_done : BOOLEAN]

VARIABLES
    main,              \* the instances run with -M; the others are run with -S
    trims,             \* entries are trimmed
    up,                \* the instances that run
    stop_soon,         \* the ones that were told to stop
    made,              \* the ones that have an output directory
    is_main_node,      \* the flag in memory
    marker,            \* the file is_main_node in the output directory
    queue,             \* the files of queue/; id k is at position k + 1
    busy,              \* the file being written or trimmed, if any
    fresh,             \* cmdline was written in the present second
    synced,            \* .synced/NAME: min_accept
    max_start,         \* .synced/NAME.max
    loc,               \* where an instance is in its code, and its locals
    cases, ends,       \* inputs found, and sessions ended, so far
    looked, missed     \* history: cases executed by the present session,
                       \* and cases passed by while their file was busy

setup == <<main, trims>>
files == <<queue, busy, cases>>
books == <<synced, max_start>>
life == <<up, stop_soon, made, fresh, ends>>
role == <<is_main_node, marker>>
seen == <<looked, missed>>
vars == <<setup, files, books, life, role, loc, seen>>

Local == [at : {"off", "start", "check", "fuzz", "dirs", "demote", "scan",
                "import"},
          todo : SUBSET Node, dir : Node \cup {NoOne},
          list : SUBSET [id : Id, case : Case], next : 0 .. MaxItems,
          max : 0 .. MaxItems, some : BOOLEAN, entries : BOOLEAN]

\* The types of the shared directory and of every instance's place in its
\* code: queues hold at most MaxItems files, offsets lie within them.
TypeOK ==
    /\ main \in Mains /\ trims \in TrimSettings
    /\ up \subseteq Node /\ stop_soon \subseteq up /\ up \subseteq made
    /\ made \subseteq Node /\ fresh \subseteq Node
    /\ is_main_node \subseteq up /\ marker \subseteq made
    /\ queue \in [Node -> Seq(File)]
    /\ \A i \in Node : Len(queue[i]) <= MaxItems
    /\ busy \in [Node -> Id \cup {NoFile}]
    /\ synced \in [Node -> [Node -> 0 .. MaxItems]]
    /\ max_start \in [Node -> [Node -> Id \cup {NoFile}]]
    /\ loc \in [Node -> Local]
    /\ cases \in 0 .. MaxCases /\ ends \in 0 .. MaxEnds
    /\ looked \in [Node -> SUBSET Case] /\ missed \in [Node -> SUBSET Case]

At(a) == [at |-> a, todo |-> {}, dir |-> NoOne, list |-> {}, next |-> 0,
          max |-> 0, some |-> FALSE, entries |-> FALSE]

Init ==
    /\ main \in Mains /\ trims \in TrimSettings
    /\ up = {} /\ stop_soon = {} /\ made = {} /\ fresh = {}
    /\ is_main_node = {} /\ marker = {}
    /\ queue = [i \in Node |-> <<>>] /\ busy = [i \in Node |-> NoFile]
    /\ synced = [i \in Node |-> [j \in Node |-> 0]]
    /\ max_start = [i \in Node |-> [j \in Node |-> NoFile]]
    /\ loc = [i \in Node |-> At("off")]
    /\ cases = 0 /\ ends = 0
    /\ looked = [i \in Node |-> {}] /\ missed = [i \in Node |-> {}]

Idle(i, a) == i \in up /\ loc[i].at = a /\ busy[i] = NoFile
Others(i) == made \ {i}
Present(j) == {k \in Id : k < Len(queue[j]) /\ queue[j][k + 1].file # "gone"}
CasesOf(i) == {queue[i][k].case : k \in DOMAIN queue[i]}
Entry(c, from, file, done) ==
    [case |-> c, from |-> from, file |-> file, trim_done |-> done]
Created(c, from) == Entry(c, from, "empty", FALSE)

-----------------------------------------------------------------------------
(* Sessions                                                                *)

\* A session that does not resume: the old queue and .synced are deleted, but
\* not a marker that is still there; the seed is linked into queue/ whole.
Start(i) ==
    /\ i \notin up /\ cases < MaxCases
    /\ i \notin made \/ "fresh" \in Starts
    /\ up' = up \cup {i} /\ made' = made \cup {i} /\ fresh' = fresh \cup {i}
    /\ is_main_node' = is_main_node \cup ({i} \cap main)
    /\ marker' = marker \cup ({i} \cap main)
    /\ queue' = [queue EXCEPT ![i] = <<Entry(cases + 1, NoOne, "whole", FALSE)>>]
    /\ busy' = [busy EXCEPT ![i] = NoFile] /\ cases' = cases + 1
    /\ synced' = [synced EXCEPT ![i] = [j \in Node |-> 0]]
    /\ max_start' = [max_start EXCEPT ![i] = [j \in Node |-> NoFile]]
    /\ loc' = [loc EXCEPT ![i] = At("start")]
    /\ looked' = [looked EXCEPT ![i] = {}]
    /\ missed' = [missed EXCEPT ![i] = {}]
    /\ UNCHANGED <<setup, stop_soon, ends>>

\* A session that resumes in place: the queue keeps its files under their
\* names, .synced is kept, and check_sync_fuzzers is not called.  (Sessions
\* that ended in the middle of a write are not resumed here.)
Resume(i) ==
    /\ i \in made \ up /\ "resume" \in Starts /\ busy[i] = NoFile
    /\ up' = up \cup {i} /\ fresh' = fresh \cup {i}
    /\ is_main_node' = is_main_node \cup ({i} \cap main)
    /\ marker' = marker \cup ({i} \cap main)
    /\ loc' = [loc EXCEPT ![i] = At("fuzz")]
    /\ UNCHANGED <<setup, files, books, seen, stop_soon, made, ends>>

\* Ctrl-C: stop_soon is set, and what runs comes to its end.
StopSignal(i) ==
    /\ "stop" \in Ends /\ ends < MaxEnds /\ ~trims
    /\ i \in up \ stop_soon
    /\ stop_soon' = stop_soon \cup {i} /\ ends' = ends + 1
    /\ UNCHANGED <<setup, files, books, seen, role, loc, up, made, fresh>>

Exit(i) ==
    /\ Idle(i, "fuzz") /\ i \in stop_soon
    /\ up' = up \ {i} /\ stop_soon' = stop_soon \ {i}
    /\ marker' = IF i \in is_main_node THEN marker \ {i} ELSE marker
    /\ is_main_node' = is_main_node \ {i}
    /\ loc' = [loc EXCEPT ![i] = At("off")]
    /\ UNCHANGED <<setup, files, books, seen, made, fresh, ends>>

\* The process is killed, or gives up with FATAL.
Crash(i) ==
    /\ "crash" \in Ends /\ ends < MaxEnds /\ ~trims /\ i \in up
    /\ up' = up \ {i} /\ stop_soon' = stop_soon \ {i}
    /\ is_main_node' = is_main_node \ {i}
    /\ loc' = [loc EXCEPT ![i] = At("off")]
    /\ ends' = ends + 1
    /\ UNCHANGED <<setup, files, books, seen, made, fresh, marker>>

Second == /\ fresh # {} /\ fresh' = {}
          /\ UNCHANGED <<setup, files, books, seen, role, loc, up, stop_soon,
                         made, ends>>

-----------------------------------------------------------------------------
(* Queue files                                                             *)

\* save_if_interesting stores an input the instance found itself.
Find(i) ==
    /\ Idle(i, "fuzz") /\ i \notin stop_soon
    /\ Len(queue[i]) < MaxItems /\ cases < MaxCases
    /\ queue' = [queue EXCEPT ![i] = Append(@, Created(cases + 1, NoOne))]
    /\ busy' = [busy EXCEPT ![i] = Len(queue[i])] /\ cases' = cases + 1
    /\ UNCHANGED <<setup, books, life, role, loc, seen>>

SetFile(i, k, f, done) ==
    LET e == queue[i][k + 1]
    IN  queue' = [queue EXCEPT ![i] =
                     [@ EXCEPT ![k + 1] = Entry(e.case, e.from, f, done)]]

\* trim_case, once for every entry: unlink, then create, then write.
TrimUnlinks(i) ==
    /\ trims /\ Idle(i, "fuzz") /\ i \notin stop_soon
    /\ \E k \in 0 .. Len(queue[i]) - 1 :
          /\ ~queue[i][k + 1].trim_done
          /\ SetFile(i, k, "gone", TRUE)
          /\ busy' = [busy EXCEPT ![i] = k]
    /\ UNCHANGED <<setup, cases, books, life, role, loc, seen>>

Creates(i) ==
    /\ i \in up /\ busy[i] # NoFile /\ queue[i][busy[i] + 1].file = "gone"
    /\ SetFile(i, busy[i], "empty", queue[i][busy[i] + 1].trim_done)
    /\ UNCHANGED <<setup, busy, cases, books, life, role, loc, seen>>

Writes(i) ==
    /\ i \in up /\ busy[i] # NoFile /\ queue[i][busy[i] + 1].file = "empty"
    /\ SetFile(i, busy[i], "whole", queue[i][busy[i] + 1].trim_done)
    /\ busy' = [busy EXCEPT ![i] = NoFile]
    /\ UNCHANGED <<setup, cases, books, life, role, loc, seen>>

-----------------------------------------------------------------------------
(* check_sync_fuzzers: once, when a session starts                         *)

CheckBegins(i) ==
    /\ Idle(i, "start")
    /\ loc' = [loc EXCEPT ![i] = [At("check") EXCEPT !.todo = Others(i)]]
    /\ UNCHANGED <<setup, files, books, life, role, seen>>

StartIdFromOne(n) == n
StartId(n) == n - 1

\* The number of files of another instance, from 0; `some' is have_main, and
\* `dir' the last directory whose marker was looked for (qd_main_path).
CheckDir(i, j) ==
    /\ Idle(i, "check") /\ j \in loc[i].todo
    /\ LET n == Cardinality(Present(j))
           have_main == loc[i].some \/ i \in is_main_node
       IN  /\ max_start' = IF n = 0 THEN max_start
                           ELSE [max_start EXCEPT ![i][j] = StartId(n)]
           /\ loc' = [loc EXCEPT ![i] = [@ EXCEPT
                         !.todo = loc[i].todo \ {j},
                         !.dir = IF have_main THEN loc[i].dir ELSE j,
                         !.some = have_main \/ j \in marker]]
    /\ UNCHANGED <<setup, files, life, role, synced, seen>>

\* Nobody is main: the instance becomes it, and puts the marker where it
\* looked last.  With no other instance there that name was never set.
MarkedBy(i) == loc[i].dir
CheckEnds(i) ==
    /\ Idle(i, "check") /\ loc[i].todo = {}
    /\ IF loc[i].some \/ i \in is_main_node
          THEN UNCHANGED role
          ELSE /\ is_main_node' = is_main_node \cup {i}
               /\ marker' = IF MarkedBy(i) = NoOne THEN marker
                            ELSE marker \cup {MarkedBy(i)}
    /\ loc' = [loc EXCEPT ![i] = At("fuzz")]
    /\ UNCHANGED <<setup, files, books, life, seen>>

-----------------------------------------------------------------------------
(* sync_fuzzers                                                            *)

\* From the main loop, every so often.
SyncBegins(i) ==
    /\ Idle(i, "fuzz") /\ i \notin stop_soon
    /\ loc' = [loc EXCEPT ![i] = [At("dirs") EXCEPT
                                     !.todo = Others(i),
                                     !.entries = Others(i) # {}]]
    /\ UNCHANGED <<setup, files, books, life, role, seen>>

\* The next directory.  A secondary reads from main nodes only; an elected
\* main node that sees another is about to step down.
NextDir(i) ==
    loc' = [loc EXCEPT ![i] = [At("dirs") EXCEPT
                                  !.todo = loc[i].todo, !.some = loc[i].some,
                                  !.entries = loc[i].entries]]

ChosenForGood(i, j) ==
    IF i \in main \cup is_main_node \cup marker THEN "scan"
    ELSE IF j \in marker THEN "scan" ELSE "dirs"

Chosen(i, j) ==
    IF i \in main THEN "scan"
    ELSE IF i \in is_main_node THEN (IF j \in marker THEN "demote" ELSE "scan")
    ELSE IF j \in marker THEN "scan" ELSE "dirs"

OpenDir(i, j) ==
    /\ Idle(i, "dirs") /\ j \in loc[i].todo
    /\ IF Chosen(i, j) = "dirs"
          THEN loc' = [loc EXCEPT ![i] = [@ EXCEPT !.todo = loc[i].todo \ {j}]]
          ELSE loc' = [loc EXCEPT ![i] = [@ EXCEPT
                          !.at = Chosen(i, j), !.todo = loc[i].todo \ {j},
                          !.dir = j, !.some = TRUE]]
    /\ UNCHANGED <<setup, files, books, life, role, seen>>

DemoteKeepsMarker(i) ==
    /\ Idle(i, "demote")
    /\ is_main_node' = is_main_node \ {i}
    /\ loc' = [loc EXCEPT ![i] = [@ EXCEPT !.at = "scan"]]
    /\ UNCHANGED <<setup, files, books, life, seen, marker>>

Demote(i) ==
    /\ Idle(i, "demote")
    /\ is_main_node' = is_main_node \ {i} /\ marker' = marker \ {i}
    /\ loc' = [loc EXCEPT ![i] = [@ EXCEPT !.at = "scan"]]
    /\ UNCHANGED <<setup, files, books, life, seen>>

Listed(j, ids) == {[id |-> k, case |-> queue[j][k + 1].case] : k \in ids}

NewFilesAfter(j, n) == Listed(j, {k \in Present(j) : k > n})

\* The files from id n on, if n is there.
NewFiles(j, n) ==
    IF n \notin Present(j) THEN {}
    ELSE Listed(j, {k \in Present(j) : k >= n})

Gaps(j, n) ==
    {queue[j][k + 1].case : k \in (n .. Len(queue[j]) - 1) \ Present(j)}

\* The file .last is written now, and the session counts as restarted if its
\* cmdline is not older than that.
RestartedIfOlder(j) == j \notin fresh
Restarted(j) == j \in fresh

Scan(i) ==
    /\ Idle(i, "scan")
    /\ LET j == loc[i].dir
           n == synced[i][j]
           m == max_start[i][j]
       IN  IF Restarted(j)
           THEN /\ synced' = [synced EXCEPT ![i][j] = 0]
                /\ NextDir(i)
                /\ UNCHANGED <<max_start, missed>>
           ELSE /\ max_start' = [max_start EXCEPT
                                    ![i][j] = IF m < n THEN NoFile ELSE m]
                /\ IF NewFiles(j, n) = {} THEN NextDir(i)
                   ELSE loc' = [loc EXCEPT ![i] = [@ EXCEPT
                           !.at = "import", !.next = n,
                           !.list = NewFiles(j, n),
                           !.max = IF m = NoFile THEN 0 ELSE m]]
                /\ missed' = [missed EXCEPT ![i] = @ \cup Gaps(j, n)]
                /\ UNCHANGED synced
    /\ UNCHANGED <<setup, files, life, role, looked>>

\* A file named in the listing, as it is when it is opened.
Readable(j, f) ==
    /\ f.id < Len(queue[j]) /\ queue[j][f.id + 1].case = f.case
    /\ queue[j][f.id + 1].file = "whole"

is_known_case(i, j, f) == queue[j][f.id + 1].from = i

\* Counted from 0, but compared after the increment.
Startup(i) == loc[i].next + 1 < loc[i].max
Executes(i, j, f) == Startup(i) \/ ~is_known_case(i, j, f)

\* The next file of the listing, in the order of the names.  An input this
\* instance holds already does not reach anything new; another may be saved, as
\* one that came from j.
Import(i) ==
    /\ Idle(i, "import")
    /\ \E f \in loc[i].list :
       LET j == loc[i].dir
           Pass == loc' = [loc EXCEPT ![i] = [@ EXCEPT
                              !.list = loc[i].list \ {f},
                              !.next = loc[i].next + 1]]
       IN  /\ \A g \in loc[i].list : f.id <= g.id
           /\ \/ /\ ~Readable(j, f)
                 /\ missed' = [missed EXCEPT ![i] = @ \cup {f.case}]
                 /\ Pass /\ UNCHANGED <<files, looked>>
              \/ /\ Readable(j, f) /\ ~Executes(i, j, f)
                 /\ Pass /\ UNCHANGED <<files, seen>>
              \/ /\ Readable(j, f) /\ Executes(i, j, f) /\ i \notin stop_soon
                 /\ looked' = [looked EXCEPT ![i] = @ \cup {f.case}]
                 /\ Pass
                 /\ \/ UNCHANGED files
                    \/ /\ f.case \notin CasesOf(i) /\ Len(queue[i]) < MaxItems
                       /\ queue' = [queue EXCEPT ![i] =
                                         Append(@, Created(f.case, j))]
                       /\ busy' = [busy EXCEPT ![i] = Len(queue[i])]
                       /\ UNCHANGED cases
                 /\ UNCHANGED missed
              \/ /\ Readable(j, f) /\ Executes(i, j, f) /\ i \in stop_soon
                 /\ NextDir(i)
                 /\ UNCHANGED <<files, seen>>
    /\ UNCHANGED <<setup, books, life, role>>

NextMinAccept(i) == loc[i].next

ImportEnds(i) ==
    /\ Idle(i, "import") /\ loc[i].list = {}
    /\ synced' = [synced EXCEPT ![i][loc[i].dir] = NextMinAccept(i)]
    /\ NextDir(i)
    /\ UNCHANGED <<setup, files, life, role, max_start, seen>>

\* A secondary that found nobody to read from becomes a temporary main node.
SyncEnds(i) ==
    /\ Idle(i, "dirs") /\ loc[i].todo = {}
    /\ IF ~loc[i].some /\ loc[i].entries /\ i \notin main
          THEN /\ is_main_node' = is_main_node \cup {i}
               /\ marker' = marker \cup {i}
          ELSE UNCHANGED role
    /\ loc' = [loc EXCEPT ![i] = At("fuzz")]
    /\ UNCHANGED <<setup, files, books, life, seen>>

-----------------------------------------------------------------------------

Sync(i) ==
    \/ SyncBegins(i) \/ \E j \in Node : OpenDir(i, j)
    \/ Demote(i) \/ Scan(i) \/ Import(i) \/ ImportEnds(i) \/ SyncEnds(i)
Check(i) == CheckBegins(i) \/ CheckEnds(i) \/ \E j \in Node : CheckDir(i, j)
Fuzz(i) == Find(i) \/ TrimUnlinks(i) \/ Creates(i) \/ Writes(i)

Next ==
    \/ Second
    \/ \E i \in Node : \/ Start(i) \/ Resume(i) \/ StopSignal(i) \/ Exit(i)
                       \/ Crash(i) \/ Fuzz(i) \/ Check(i) \/ Sync(i)

Spec == Init /\ [][Next]_vars

\* What a running instance does of its own accord: it comes back to
\* sync_fuzzers for ever (SYNC_TIME) and gets through it, completes the file
\* it writes, and ends when told to.  Every instance is started once.
Step(i) ==
    \/ Sync(i) \/ Check(i) \/ Creates(i) \/ Writes(i) \/ Exit(i)
    \/ i \notin made /\ Start(i)

\* The processes are scheduled, and seconds pass.
FairSpec ==
    /\ Spec /\ WF_vars(Second)
    /\ \A i \in Node : WF_vars(Step(i))

-----------------------------------------------------------------------------
(* Properties                                                              *)

Accepted(i, j) ==
    {queue[j][k].case : k \in DOMAIN queue[j] \cap 1 .. synced[i][j]}

\* What an instance has counted as read of another one, it has executed, or
\* holds itself, or met while its owner was still writing it.
AcceptedLooked ==
    \A i, j \in made : i # j =>
        Accepted(i, j) \subseteq looked[i] \cup missed[i] \cup CasesOf(i)

\* The count never runs ahead of the other's queue, not even while a listing
\* is read: a file that is yet to come is not counted as read.
CountWithinQueue ==
    \A i, j \in made :
        /\ synced[i][j] <= Len(queue[j])
        /\ loc[i].at = "import" => loc[i].next <= Len(queue[loc[i].dir])

\* The offset in .synced skips no file, whenever a session ends.
OffsetsSound == AcceptedLooked /\ CountWithinQueue

\* What a running instance i has not read of instance j, where one of the two
\* is a main node.
Backlog(i, j) ==
    IF i \in up /\ i # j /\ {i, j} \cap main # {}
       THEN CasesOf(j) \ (looked[i] \cup missed[i] \cup CasesOf(i)) ELSE {}

\* No input waits for ever behind the count: as the inputs found and the
\* sessions that end are bounded, every input has been executed, or passed by
\* while it was written, by every instance in the end.
CasesTravel == <>[](\A i, j \in Node : Backlog(i, j) = {})

\* Changelog: a secondary is "a temporary main node until a real main nodes
\* shows up".  A main node that stays is the only one in the end.
TemporaryMainYields ==
    <>[](main \cap up # {}) => <>[](is_main_node \subseteq main)

\* Changelog: "If no main node is present at a sync one secondary node
\* automatically becomes a temporary main node": while no session ends,
\* there is a main node again and again, though two elected ones that see
\* each other both step down.
AlwaysAMain ==
    ([](ends = 0) /\ <>(up = Node))
        => []<>(is_main_node # {})
=============================================================================
