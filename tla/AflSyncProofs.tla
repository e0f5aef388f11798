--------------------------- MODULE AflSyncProofs ---------------------------
(***************************************************************************)
(* Proofs about AflSync for every set of instances, queue bound and        *)
(* environment: the types, and that a resumed session skips no file.       *)
(***************************************************************************)
EXTENDS AflSync, FiniteSetTheorems, TLAPS

\* What a running listing, and an instance's place in its code, rest on: an
\* instance visits other instances' directories only, the file it writes is
\* there, and the files of a listing have different names, none before next.
Placed(dirs, i, l) ==
    /\ l.todo \subseteq dirs \ {i}
    /\ l.dir \in (dirs \ {i}) \cup {NoOne}
    /\ l.at \in {"demote", "scan", "import"} => l.dir # NoOne
    /\ \A f \in l.list : l.next <= f.id
    /\ \A f, g \in l.list : f.id = g.id => f = g

ControlInv ==
    \A i \in Node : Placed(made, i, loc[i]) /\ busy[i] < Len(queue[i])

TypeInv == TypeOK /\ ControlInv

-----------------------------------------------------------------------------
(***************************************************************************)
(* How steps change the place of an instance and its queue.                *)
(***************************************************************************)
Loc(a, t, d, l, n, m, s, e) ==
    [at |-> a, todo |-> t, dir |-> d, list |-> l, next |-> n, max |-> m,
     some |-> s, entries |-> e]

Moves(i, r) == loc' = [loc EXCEPT ![i] = r]

Place == {"off", "start", "check", "fuzz", "dirs", "demote", "scan", "import"}

LEMMA LocType ==
  ASSUME NEW a \in Place, NEW t \in SUBSET Node, NEW d \in Node \cup {NoOne},
         NEW l \in SUBSET [id : Id, case : Case], NEW n \in 0 .. MaxItems,
         NEW m \in 0 .. MaxItems, NEW s \in BOOLEAN, NEW e \in BOOLEAN
  PROVE  Loc(a, t, d, l, n, m, s, e) \in Local
BY DEF Loc, Local, Place

LEMMA LocFields ==
  ASSUME NEW a, NEW t, NEW d, NEW l, NEW n, NEW m, NEW s, NEW e, NEW r,
         r = Loc(a, t, d, l, n, m, s, e)
  PROVE  /\ r.at = a /\ r.todo = t /\ r.dir = d /\ r.list = l /\ r.next = n
         /\ r.max = m /\ r.some = s /\ r.entries = e
BY DEF Loc

LEMMA LocalFields ==
  ASSUME NEW r \in Local
  PROVE  /\ r.at \in Place /\ r.todo \subseteq Node /\ r.dir \in Node \cup {NoOne}
         /\ r.list \subseteq [id : Id, case : Case] /\ r.next \in 0 .. MaxItems
         /\ r.max \in 0 .. MaxItems /\ r.some \in BOOLEAN /\ r.entries \in BOOLEAN
BY DEF Local, Place

LEMMA MovesTo ==
  ASSUME NEW i \in Node, NEW r, loc \in [Node -> Local], Moves(i, r)
  PROVE  /\ loc'[i] = r
         /\ \A k \in Node \ {i} : loc'[k] = loc[k]
         /\ r \in Local => loc' \in [Node -> Local]
BY DEF Moves

\* The updates of an instance's locals, field by field.
LEMMA AtFields ==
  ASSUME NEW a
  PROVE  At(a) = Loc(a, {}, NoOne, {}, 0, 0, FALSE, FALSE)
BY DEF At, Loc

LEMMA CheckBeginsMoves ==
  ASSUME NEW i \in Node, CheckBegins(i)
  PROVE  Moves(i, Loc("check", Others(i), NoOne, {}, 0, 0, FALSE, FALSE))
<1>1. [At("check") EXCEPT !.todo = Others(i)]
         = Loc("check", Others(i), NoOne, {}, 0, 0, FALSE, FALSE)
  <2>1. PICK r : r = [At("check") EXCEPT !.todo = Others(i)]
    BY Zenon
  <2>2. r = Loc("check", Others(i), NoOne, {}, 0, 0, FALSE, FALSE)
    BY <2>1, Zenon DEF At, Loc
  <2>. QED
    BY <2>1, <2>2, Zenon
<1>. QED
  BY <1>1, Zenon DEF CheckBegins, Moves

LEMMA CheckDirMoves ==
  ASSUME NEW i \in Node, NEW j, loc[i] \in Local, CheckDir(i, j)
  PROVE  \E d \in {loc[i].dir, j}, s \in BOOLEAN :
           Moves(i, Loc(loc[i].at, loc[i].todo \ {j}, d, loc[i].list,
                        loc[i].next, loc[i].max, s, loc[i].entries))
<1>. DEFINE h == loc[i].some \/ i \in is_main_node
            d == IF h THEN loc[i].dir ELSE j
            s == h \/ j \in marker
<1>1. [loc[i] EXCEPT !.todo = loc[i].todo \ {j}, !.dir = d, !.some = s]
         = Loc(loc[i].at, loc[i].todo \ {j}, d, loc[i].list, loc[i].next,
               loc[i].max, s, loc[i].entries)
  <2>1. PICK r : r = [loc[i] EXCEPT !.todo = loc[i].todo \ {j}, !.dir = d, !.some = s]
    BY Zenon
  <2>2. r = Loc(loc[i].at, loc[i].todo \ {j}, d, loc[i].list, loc[i].next,
               loc[i].max, s, loc[i].entries)
    BY <2>1, Zenon DEF Local, Loc
  <2>. QED
    BY <2>1, <2>2, Zenon
<1>2. Moves(i, Loc(loc[i].at, loc[i].todo \ {j}, d, loc[i].list, loc[i].next,
                   loc[i].max, s, loc[i].entries))
  BY <1>1, Zenon DEF CheckDir, Moves
<1>3. d \in {loc[i].dir, j} /\ s \in BOOLEAN
  BY Zenon
<1>. HIDE DEF d, s
<1>. QED
  BY <1>2, <1>3, Zenon

LEMMA SyncBeginsMoves ==
  ASSUME NEW i \in Node, SyncBegins(i)
  PROVE  Moves(i, Loc("dirs", Others(i), NoOne, {}, 0, 0, FALSE, Others(i) # {}))
<1>1. [At("dirs") EXCEPT !.todo = Others(i), !.entries = Others(i) # {}]
         = Loc("dirs", Others(i), NoOne, {}, 0, 0, FALSE, Others(i) # {})
  <2>1. PICK r : r = [At("dirs") EXCEPT !.todo = Others(i), !.entries = Others(i) # {}]
    BY Zenon
  <2>2. r = Loc("dirs", Others(i), NoOne, {}, 0, 0, FALSE, Others(i) # {})
    BY <2>1, Zenon DEF At, Loc
  <2>. QED
    BY <2>1, <2>2, Zenon
<1>. QED
  BY <1>1, Zenon DEF SyncBegins, Moves

LEMMA NextDirMoves ==
  ASSUME NEW i \in Node, NextDir(i)
  PROVE  Moves(i, Loc("dirs", loc[i].todo, NoOne, {}, 0, 0, loc[i].some,
                      loc[i].entries))
<1>1. [At("dirs") EXCEPT !.todo = loc[i].todo, !.some = loc[i].some,
             !.entries = loc[i].entries]
         = Loc("dirs", loc[i].todo, NoOne, {}, 0, 0, loc[i].some, loc[i].entries)
  <2>1. PICK r : r = [At("dirs") EXCEPT !.todo = loc[i].todo, !.some = loc[i].some,
             !.entries = loc[i].entries]
    BY Zenon
  <2>2. r = Loc("dirs", loc[i].todo, NoOne, {}, 0, 0, loc[i].some, loc[i].entries)
    BY <2>1, Zenon DEF At, Loc
  <2>. QED
    BY <2>1, <2>2, Zenon
<1>. QED
  BY <1>1, Zenon DEF NextDir, Moves

LEMMA OpenDirMoves ==
  ASSUME NEW i \in Node, NEW j, loc[i] \in Local, OpenDir(i, j)
  PROVE  \/ Moves(i, Loc(loc[i].at, loc[i].todo \ {j}, loc[i].dir, loc[i].list,
                         loc[i].next, loc[i].max, loc[i].some, loc[i].entries))
         \/ /\ Chosen(i, j) \in {"demote", "scan"}
            /\ Moves(i, Loc(Chosen(i, j), loc[i].todo \ {j}, j, loc[i].list,
                            loc[i].next, loc[i].max, TRUE, loc[i].entries))
<1>1. [loc[i] EXCEPT !.todo = loc[i].todo \ {j}]
         = Loc(loc[i].at, loc[i].todo \ {j}, loc[i].dir, loc[i].list,
               loc[i].next, loc[i].max, loc[i].some, loc[i].entries)
  <2>1. PICK r : r = [loc[i] EXCEPT !.todo = loc[i].todo \ {j}]
    BY Zenon
  <2>2. r = Loc(loc[i].at, loc[i].todo \ {j}, loc[i].dir, loc[i].list,
               loc[i].next, loc[i].max, loc[i].some, loc[i].entries)
    BY <2>1, Zenon DEF Local, Loc
  <2>. QED
    BY <2>1, <2>2, Zenon
<1>2. [loc[i] EXCEPT !.at = Chosen(i, j), !.todo = loc[i].todo \ {j}, !.dir = j,
             !.some = TRUE]
         = Loc(Chosen(i, j), loc[i].todo \ {j}, j, loc[i].list,
               loc[i].next, loc[i].max, TRUE, loc[i].entries)
  <2>1. PICK r : r = [loc[i] EXCEPT !.at = Chosen(i, j), !.todo = loc[i].todo \ {j}, !.dir = j,
             !.some = TRUE]
    BY Zenon
  <2>2. r = Loc(Chosen(i, j), loc[i].todo \ {j}, j, loc[i].list,
               loc[i].next, loc[i].max, TRUE, loc[i].entries)
    BY <2>1, Zenon DEF Local, Loc
  <2>. QED
    BY <2>1, <2>2, Zenon
<1>3. Chosen(i, j) = "dirs" \/ Chosen(i, j) \in {"demote", "scan"}
  BY DEF Chosen
<1>4. CASE Chosen(i, j) = "dirs"
  BY <1>1, <1>4, Zenon DEF OpenDir, Moves
<1>5. CASE Chosen(i, j) # "dirs"
  BY <1>2, <1>3, <1>5, Zenon DEF OpenDir, Moves
<1>. QED
  BY <1>4, <1>5

LEMMA DemoteMoves ==
  ASSUME NEW i \in Node, loc[i] \in Local, Demote(i)
  PROVE  Moves(i, Loc("scan", loc[i].todo, loc[i].dir, loc[i].list,
                      loc[i].next, loc[i].max, loc[i].some, loc[i].entries))
<1>1. [loc[i] EXCEPT !.at = "scan"]
         = Loc("scan", loc[i].todo, loc[i].dir, loc[i].list, loc[i].next,
               loc[i].max, loc[i].some, loc[i].entries)
  <2>1. PICK r : r = [loc[i] EXCEPT !.at = "scan"]
    BY Zenon
  <2>2. r = Loc("scan", loc[i].todo, loc[i].dir, loc[i].list, loc[i].next,
               loc[i].max, loc[i].some, loc[i].entries)
    BY <2>1, Zenon DEF Local, Loc
  <2>. QED
    BY <2>1, <2>2, Zenon
<1>. QED
  BY <1>1, Zenon DEF Demote, Moves

\* Scan either leaves the directory or starts to read a listing of it.
ScanLeaves(i) ==
    /\ NextDir(i)
    /\ \/ /\ synced' = [synced EXCEPT ![i][loc[i].dir] = 0]
          /\ UNCHANGED <<max_start, missed>>
       \/ /\ max_start' = [max_start EXCEPT ![i][loc[i].dir] =
                              IF @ < synced[i][loc[i].dir] THEN NoFile ELSE @]
          /\ missed' = [missed EXCEPT ![i] =
                           @ \cup Gaps(loc[i].dir, synced[i][loc[i].dir])]
          /\ UNCHANGED synced

ScanReads(i) ==
    LET j == loc[i].dir
        n == synced[i][j]
        m == max_start[i][j]
    IN  /\ Moves(i, Loc("import", loc[i].todo, j, NewFiles(j, n), n,
                        IF m = NoFile THEN 0 ELSE m, loc[i].some,
                        loc[i].entries))
        /\ max_start' = [max_start EXCEPT ![i][j] = IF m < n THEN NoFile ELSE m]
        /\ missed' = [missed EXCEPT ![i] = @ \cup Gaps(j, n)]
        /\ UNCHANGED synced

LEMMA ScanCases ==
  ASSUME NEW i \in Node, loc[i] \in Local, Scan(i)
  PROVE  ScanLeaves(i) \/ ScanReads(i)
<1>. DEFINE j == loc[i].dir
            n == synced[i][j]
            m == max_start[i][j]
            x == IF m = NoFile THEN 0 ELSE m
<1>1. [loc[i] EXCEPT !.at = "import", !.next = n, !.list = NewFiles(j, n), !.max = x]
         = Loc("import", loc[i].todo, j, NewFiles(j, n), n, x, loc[i].some,
               loc[i].entries)
  <2>1. PICK r : r = [loc[i] EXCEPT !.at = "import", !.next = n, !.list = NewFiles(j, n), !.max = x]
    BY Zenon
  <2>2. r = Loc("import", loc[i].todo, j, NewFiles(j, n), n, x, loc[i].some,
               loc[i].entries)
    BY <2>1, Zenon DEF Local, Loc
  <2>. QED
    BY <2>1, <2>2, Zenon
<1>2. CASE Restarted(j)
  BY <1>2, Zenon DEF Scan, ScanLeaves
<1>3. CASE ~Restarted(j) /\ NewFiles(j, n) = {}
  BY <1>3, Zenon DEF Scan, ScanLeaves
<1>4. CASE ~Restarted(j) /\ NewFiles(j, n) # {}
  <2>1. Moves(i, Loc("import", loc[i].todo, j, NewFiles(j, n), n, x,
                     loc[i].some, loc[i].entries))
    BY <1>1, <1>4, Zenon DEF Scan, Moves
  <2>. QED
    BY <1>4, <2>1, Zenon DEF Scan, ScanReads
<1>. QED
  BY <1>2, <1>3, <1>4

\* Import takes the least file f of the listing: it passes f, having missed it,
\* knowing it or having run it, or leaves because it was told to stop.
Passes(i, f) ==
    Moves(i, Loc(loc[i].at, loc[i].todo, loc[i].dir, loc[i].list \ {f},
                 loc[i].next + 1, loc[i].max, loc[i].some, loc[i].entries))

ImportMisses(i, f) ==
    /\ Passes(i, f)
    /\ missed' = [missed EXCEPT ![i] = @ \cup {f.case}]
    /\ UNCHANGED <<files, looked>>

ImportKnows(i, f) ==
    /\ Passes(i, f)
    /\ queue[loc[i].dir][f.id + 1].from = i
    /\ UNCHANGED <<files, seen>>

ImportRuns(i, f) ==
    /\ Passes(i, f)
    /\ looked' = [looked EXCEPT ![i] = @ \cup {f.case}]
    /\ UNCHANGED missed
    /\ \/ UNCHANGED files
       \/ /\ Len(queue[i]) < MaxItems
          /\ Readable(loc[i].dir, f)
          /\ queue' = [queue EXCEPT ![i] = Append(@, Created(f.case, loc[i].dir))]
          /\ busy' = [busy EXCEPT ![i] = Len(queue[i])]
          /\ UNCHANGED cases

ImportLeaves(i) == NextDir(i) /\ UNCHANGED <<files, seen>>

LEMMA ImportCases ==
  ASSUME NEW i \in Node, loc[i] \in Local, Import(i)
  PROVE  \/ ImportLeaves(i)
         \/ \E f \in loc[i].list :
              /\ \A g \in loc[i].list : f.id <= g.id
              /\ ImportMisses(i, f) \/ ImportKnows(i, f) \/ ImportRuns(i, f)
<1>1. PICK f \in loc[i].list :
        LET j == loc[i].dir
            Pass == loc' = [loc EXCEPT ![i] = [@ EXCEPT
                               !.list = loc[i].list \ {f},
                               !.next = loc[i].next + 1]]
        IN  /\ \A g \in loc[i].list : f.id <= g.id
            /\ \/ /\ ~Readable(j, f)
                  /\ missed' = [missed EXCEPT ![i] = @ \cup {f.case}]
                  /\ Pass /\ UNCHANGED <<files, looked>>
               \/ /\ Readable(j, f) /\ ~Executes(i, j, f)
                  /\ Pass /\ UNCHANGED <<files, seen>>
               \/ /\ Readable(j, f) /\ Executes(i, j, f) /\ i \notin stop_soon
                  /\ looked' = [looked EXCEPT ![i] = @ \cup {f.case}]
                  /\ Pass
                  /\ \/ UNCHANGED files
                     \/ /\ f.case \notin CasesOf(i) /\ Len(queue[i]) < MaxItems
                        /\ queue' = [queue EXCEPT ![i] =
                                          Append(@, Created(f.case, j))]
                        /\ busy' = [busy EXCEPT ![i] = Len(queue[i])]
                        /\ UNCHANGED cases
                  /\ UNCHANGED missed
               \/ /\ Readable(j, f) /\ Executes(i, j, f) /\ i \in stop_soon
                  /\ NextDir(i)
                  /\ UNCHANGED <<files, seen>>
  BY Zenon DEF Import
<1>2. [loc[i] EXCEPT !.list = loc[i].list \ {f}, !.next = loc[i].next + 1]
        = Loc(loc[i].at, loc[i].todo, loc[i].dir, loc[i].list \ {f},
              loc[i].next + 1, loc[i].max, loc[i].some, loc[i].entries)
  <2>1. PICK r : r = [loc[i] EXCEPT !.list = loc[i].list \ {f},
                                    !.next = loc[i].next + 1]
    BY Zenon
  <2>2. r = Loc(loc[i].at, loc[i].todo, loc[i].dir, loc[i].list \ {f},
                loc[i].next + 1, loc[i].max, loc[i].some, loc[i].entries)
    BY <2>1, Zenon DEF Local, Loc
  <2>. QED
    BY <2>1, <2>2, Zenon
<1>3. loc' = [loc EXCEPT ![i] = [@ EXCEPT !.list = loc[i].list \ {f},
                                          !.next = loc[i].next + 1]]
        => Passes(i, f)
  BY <1>2, Zenon DEF Passes, Moves
<1>4. \/ NextDir(i) /\ UNCHANGED <<files, seen>>
      \/ ImportMisses(i, f) \/ ImportKnows(i, f) \/ ImportRuns(i, f)
  BY <1>1, <1>3, Zenon DEF ImportMisses, ImportKnows, ImportRuns, Executes,
     is_known_case
<1>. QED
  BY <1>1, <1>4, Zenon DEF ImportLeaves

-----------------------------------------------------------------------------
(* Queues                                                                  *)

LEMMA EntryType ==
  ASSUME NEW c \in Case, NEW n \in Node \cup {NoOne},
         NEW f \in {"empty", "whole", "gone"}, NEW d \in BOOLEAN
  PROVE  /\ Entry(c, n, f, d) \in File
         /\ Entry(c, n, f, d).case = c /\ Entry(c, n, f, d).from = n
BY DEF Entry, File

LEMMA Appended ==
  ASSUME NEW i \in Node, NEW e \in File, queue \in [Node -> Seq(File)],
         queue' = [queue EXCEPT ![i] = Append(@, e)]
  PROVE  /\ queue' \in [Node -> Seq(File)]
         /\ \A k \in Node \ {i} : queue'[k] = queue[k]
         /\ Len(queue'[i]) = Len(queue[i]) + 1
         /\ \A k \in 1 .. Len(queue[i]) : queue'[i][k] = queue[i][k]
         /\ queue'[i][Len(queue[i]) + 1] = e
<1>1. queue[i] \in Seq(File) /\ queue'[i] = Append(queue[i], e)
  OBVIOUS
<1>2. /\ Append(queue[i], e) \in Seq(File)
      /\ Len(Append(queue[i], e)) = Len(queue[i]) + 1
      /\ \A k \in 1 .. Len(queue[i]) : Append(queue[i], e)[k] = queue[i][k]
      /\ Append(queue[i], e)[Len(queue[i]) + 1] = e
  BY <1>1
<1>3. queue' \in [Node -> Seq(File)]
  BY <1>2
<1>. QED
  BY <1>1, <1>2, <1>3

LEMMA Rewritten ==
  ASSUME NEW i \in Node, NEW k \in Int, 0 <= k, k < Len(queue[i]),
         queue \in [Node -> Seq(File)],
         NEW f \in {"empty", "whole", "gone"}, NEW d \in BOOLEAN,
         SetFile(i, k, f, d)
  PROVE  /\ queue' \in [Node -> Seq(File)]
         /\ \A j \in Node :
              /\ Len(queue'[j]) = Len(queue[j])
              /\ \A m \in 1 .. Len(queue[j]) :
                   /\ queue'[j][m].case = queue[j][m].case
                   /\ queue'[j][m].from = queue[j][m].from
<1>. DEFINE old == queue[i][k + 1]
            new == Entry(old.case, old.from, f, d)
            q == [queue[i] EXCEPT ![k + 1] = new]
<1>1. queue[i] \in Seq(File) /\ k + 1 \in 1 .. Len(queue[i])
  OBVIOUS
<1>2. old \in File
  BY <1>1
<1>3. new \in File /\ new.case = old.case /\ new.from = old.from
  BY <1>2, EntryType DEF File
<1>4. queue' = [queue EXCEPT ![i] = q]
  BY DEF SetFile
<1>. HIDE DEF new
<1>5. /\ q \in Seq(File) /\ Len(q) = Len(queue[i])
      /\ \A m \in 1 .. Len(queue[i]) :
           q[m] = IF m = k + 1 THEN new ELSE queue[i][m]
  BY <1>1, <1>3
<1>. HIDE DEF q
<1>6. queue' \in [Node -> Seq(File)]
  BY <1>4, <1>5
<1>7. ASSUME NEW j \in Node
      PROVE  /\ Len(queue'[j]) = Len(queue[j])
             /\ \A m \in 1 .. Len(queue[j]) :
                  /\ queue'[j][m].case = queue[j][m].case
                  /\ queue'[j][m].from = queue[j][m].from
  <2>1. CASE j # i
    BY <1>4, <2>1
  <2>2. CASE j = i
    <3>1. queue'[j] = q
      BY <1>4, <2>2
    <3>. QED
      BY <1>3, <1>5, <2>2, <3>1
  <2>. QED
    BY <2>1, <2>2
<1>. QED
  BY <1>6, <1>7

LEMMA PresentCount ==
  ASSUME NEW j, MaxItems \in Nat
  PROVE  Cardinality(Present(j)) \in 0 .. MaxItems
<1>1. 0 \in Int /\ MaxItems - 1 \in Int
  OBVIOUS
<1>2. /\ IsFiniteSet(0 .. MaxItems - 1)
      /\ Cardinality(0 .. MaxItems - 1) = IF 0 > MaxItems - 1 THEN 0 ELSE MaxItems - 1 - 0 + 1
  BY <1>1, FS_Interval
<1>3. Cardinality(0 .. MaxItems - 1) = MaxItems
  BY <1>2
<1>4. Present(j) \subseteq 0 .. MaxItems - 1
  BY DEF Present, Id
<1>5. /\ IsFiniteSet(Present(j))
      /\ Cardinality(Present(j)) <= Cardinality(0 .. MaxItems - 1)
  BY <1>2, <1>4, FS_Subset
<1>6. Cardinality(Present(j)) \in Nat
  BY <1>5, FS_CardinalityType
<1>. QED
  BY <1>3, <1>5, <1>6

-----------------------------------------------------------------------------
(***************************************************************************)
(* Type correctness.                                                       *)
(***************************************************************************)
\* A step that takes i to the place r, and only adds directories.
LEMMA Relocated ==
  ASSUME loc \in [Node -> Local], ControlInv, made \subseteq made',
         NEW i \in Node, NEW r \in Local, Moves(i, r), Placed(made', i, r),
         \A k \in Node : busy'[k] < Len(queue'[k])
  PROVE  loc' \in [Node -> Local] /\ ControlInv'
<1>1. loc' \in [Node -> Local]
  BY MovesTo
<1>2. ASSUME NEW k \in Node PROVE Placed(made', k, loc'[k])
  <2>1. CASE k = i
    BY <2>1, MovesTo
  <2>2. CASE k # i
    BY <2>2, MovesTo DEF ControlInv, Placed
  <2>. QED
    BY <2>1, <2>2
<1>. QED
  BY <1>1, <1>2 DEF ControlInv

LEMMA AtPlaced ==
  ASSUME NEW dirs, NEW i, NEW a \in {"off", "start", "check", "fuzz", "dirs"}
  PROVE  At(a) \in Local /\ Placed(dirs, i, At(a))
<1>1. MaxItems \in Nat
  BY SyncAssumption
<1>. QED
  BY <1>1 DEF At, Local, Placed

LEMMA InitType == Init => TypeInv
<1>. SUFFICES ASSUME Init PROVE TypeInv
  OBVIOUS
<1>1. MaxItems \in Nat \ {0} /\ MaxCases \in Nat /\ MaxEnds \in Nat
  BY SyncAssumption
<1>2. loc \in [Node -> Local]
  BY AtPlaced DEF Init
<1>3. ControlInv
  <2>1. \A i \in Node : Placed(made, i, loc[i])
    BY AtPlaced DEF Init
  <2>2. \A i \in Node : busy[i] < Len(queue[i])
    BY DEF Init, NoFile
  <2>. QED
    BY <2>1, <2>2 DEF ControlInv
<1>4. /\ queue \in [Node -> Seq(File)] /\ \A i \in Node : Len(queue[i]) <= MaxItems
  BY <1>1 DEF Init
<1>5. /\ busy \in [Node -> Id \cup {NoFile}]
      /\ synced \in [Node -> [Node -> 0 .. MaxItems]]
      /\ max_start \in [Node -> [Node -> Id \cup {NoFile}]]
      /\ looked \in [Node -> SUBSET Case] /\ missed \in [Node -> SUBSET Case]
      /\ cases \in 0 .. MaxCases /\ ends \in 0 .. MaxEnds
  BY <1>1 DEF Init
<1>. QED
  BY <1>2, <1>3, <1>4, <1>5 DEF Init, TypeInv, TypeOK

\* Sessions begin and end.
LEMMA SessionType ==
  ASSUME TypeInv, NEW i \in Node,
         Start(i) \/ Resume(i) \/ StopSignal(i) \/ Exit(i) \/ Crash(i)
  PROVE  TypeInv'
<1>. USE DEF TypeInv
<1>1. MaxItems \in Nat \ {0} /\ MaxCases \in Nat /\ MaxEnds \in Nat
  BY SyncAssumption
<1>2. /\ loc \in [Node -> Local] /\ ControlInv
      /\ \A k \in Node : busy[k] < Len(queue[k])
  BY DEF TypeOK, ControlInv
<1>3. CASE Start(i)
  <2>1. Moves(i, At("start")) /\ made' = made \cup {i}
    BY <1>3 DEF Start, Moves
  <2>2. /\ cases + 1 \in Case /\ cases' \in 0 .. MaxCases
    BY <1>1, <1>3 DEF Start, TypeOK, Case
  <2>. DEFINE e == Entry(cases + 1, NoOne, "whole", FALSE)
  <2>3. e \in File
    BY <2>2, EntryType
  <2>4. queue' = [queue EXCEPT ![i] = <<e>>] /\ busy' = [busy EXCEPT ![i] = NoFile]
    BY <1>3 DEF Start
  <2>. HIDE DEF e
  <2>5. <<e>> \in Seq(File) /\ Len(<<e>>) = 1
    BY <2>3
  <2>6. queue' \in [Node -> Seq(File)]
    BY <2>4, <2>5 DEF TypeOK
  <2>7. \A k \in Node : Len(queue'[k]) <= MaxItems /\ busy'[k] < Len(queue'[k])
    <3>. SUFFICES ASSUME NEW k \in Node
                  PROVE  Len(queue'[k]) <= MaxItems /\ busy'[k] < Len(queue'[k])
      OBVIOUS
    <3>1. CASE k = i
      BY <1>1, <2>4, <2>5, <3>1 DEF TypeOK, NoFile
    <3>2. CASE k # i
      BY <1>2, <2>4, <3>2 DEF TypeOK
    <3>. QED
      BY <3>1, <3>2
  <2>8. loc' \in [Node -> Local] /\ ControlInv'
    BY <1>2, <2>1, <2>7, Relocated, AtPlaced
  <2>9. /\ busy' \in [Node -> Id \cup {NoFile}]
        /\ looked' \in [Node -> SUBSET Case] /\ missed' \in [Node -> SUBSET Case]
    BY <1>3 DEF Start, TypeOK
  <2>10. synced' \in [Node -> [Node -> 0 .. MaxItems]]
    BY <1>1, <1>3 DEF Start, TypeOK
  <2>11. max_start' \in [Node -> [Node -> Id \cup {NoFile}]]
    BY <1>3 DEF Start, TypeOK
  <2>12. /\ main' \in Mains /\ trims' \in TrimSettings
         /\ up' \subseteq Node /\ stop_soon' \subseteq up' /\ up' \subseteq made'
         /\ made' \subseteq Node /\ fresh' \subseteq Node
         /\ is_main_node' \subseteq up' /\ marker' \subseteq made'
         /\ ends' \in 0 .. MaxEnds
    BY <1>3 DEF Start, TypeOK, setup
  <2>. QED
    BY <2>2, <2>6, <2>7, <2>8, <2>9, <2>10, <2>11, <2>12 DEF TypeOK
<1>4. CASE Resume(i)
  <2>1. loc' \in [Node -> Local] /\ ControlInv'
    BY <1>2, <1>4, Relocated, AtPlaced DEF Resume, Moves, files
  <2>. QED
    BY <1>4, <2>1 DEF Resume, TypeOK, setup, files, books, seen
<1>5. CASE StopSignal(i)
  <2>1. ends' \in 0 .. MaxEnds
    BY <1>1, <1>5 DEF StopSignal, TypeOK
  <2>2. ControlInv'
    BY <1>5 DEF StopSignal, ControlInv, files
  <2>. QED
    BY <1>5, <2>1, <2>2 DEF StopSignal, TypeOK, setup, files, books, seen, role
<1>6. CASE Exit(i)
  <2>1. loc' \in [Node -> Local] /\ ControlInv'
    BY <1>2, <1>6, Relocated, AtPlaced DEF Exit, Moves, files
  <2>. QED
    BY <1>6, <2>1 DEF Exit, TypeOK, setup, files, books, seen
<1>7. CASE Crash(i)
  <2>1. loc' \in [Node -> Local] /\ ControlInv'
    BY <1>2, <1>7, Relocated, AtPlaced DEF Crash, Moves, files
  <2>2. ends' \in 0 .. MaxEnds
    BY <1>1, <1>7 DEF Crash, TypeOK
  <2>. QED
    BY <1>7, <2>1, <2>2 DEF Crash, TypeOK, setup, files, books, seen
<1>. QED
  BY <1>3, <1>4, <1>5, <1>6, <1>7

\* Files are added and rewritten.
LEMMA FileType ==
  ASSUME TypeInv, NEW i \in Node,
         Find(i) \/ TrimUnlinks(i) \/ Creates(i) \/ Writes(i)
  PROVE  TypeInv'
<1>. USE DEF TypeInv
<1>1. MaxItems \in Nat \ {0} /\ MaxCases \in Nat
  BY SyncAssumption
<1>2. /\ queue \in [Node -> Seq(File)] /\ busy \in [Node -> Id \cup {NoFile}]
      /\ \A k \in Node : busy[k] < Len(queue[k]) /\ Len(queue[k]) <= MaxItems
  BY DEF TypeOK, ControlInv
<1>3. ASSUME queue' \in [Node -> Seq(File)], busy' \in [Node -> Id \cup {NoFile}],
             \A k \in Node : busy'[k] < Len(queue'[k]) /\ Len(queue'[k]) <= MaxItems,
             cases' \in 0 .. MaxCases,
             UNCHANGED <<setup, books, life, role, loc, seen>>
      PROVE  TypeInv'
  <2>1. ControlInv'
    BY <1>3 DEF ControlInv, life
  <2>. QED
    BY <1>3, <2>1 DEF TypeOK, setup, books, life, role, seen
<1>4. CASE Find(i)
  <2>1. cases + 1 \in Case /\ cases' \in 0 .. MaxCases
    BY <1>1, <1>4 DEF Find, TypeOK, Case
  <2>2. Created(cases + 1, NoOne) \in File
    BY <2>1, EntryType DEF Created
  <2>3. /\ queue' \in [Node -> Seq(File)]
        /\ \A k \in Node \ {i} : queue'[k] = queue[k]
        /\ Len(queue'[i]) = Len(queue[i]) + 1
    BY <1>2, <1>4, <2>2, Appended DEF Find
  <2>4. Len(queue[i]) \in Id /\ Len(queue[i]) < MaxItems /\ Len(queue[i]) \in Nat
    BY <1>1, <1>2, <1>4 DEF Find, Id
  <2>5. busy' = [busy EXCEPT ![i] = Len(queue[i])]
    BY <1>4 DEF Find
  <2>6. busy' \in [Node -> Id \cup {NoFile}]
    BY <1>2, <2>4, <2>5
  <2>7. \A k \in Node : busy'[k] < Len(queue'[k]) /\ Len(queue'[k]) <= MaxItems
    BY <1>1, <1>2, <2>3, <2>4, <2>5
  <2>. QED
    BY <1>3, <1>4, <2>1, <2>3, <2>6, <2>7 DEF Find
<1>5. CASE TrimUnlinks(i)
  <2>1. PICK k \in 0 .. Len(queue[i]) - 1 :
          SetFile(i, k, "gone", TRUE) /\ busy' = [busy EXCEPT ![i] = k]
    BY <1>5 DEF TrimUnlinks
  <2>2. k \in Int /\ 0 <= k /\ k < Len(queue[i]) /\ k \in Id
    BY <1>1, <1>2 DEF Id
  <2>3. /\ queue' \in [Node -> Seq(File)]
        /\ \A j \in Node : Len(queue'[j]) = Len(queue[j])
    BY <1>2, <2>1, <2>2, Rewritten
  <2>4. busy' \in [Node -> Id \cup {NoFile}]
    BY <1>2, <2>1, <2>2
  <2>5. \A j \in Node : busy'[j] < Len(queue'[j]) /\ Len(queue'[j]) <= MaxItems
    BY <1>2, <2>1, <2>2, <2>3
  <2>6. cases' \in 0 .. MaxCases
    BY <1>5 DEF TrimUnlinks, TypeOK
  <2>. QED
    BY <1>3, <1>5, <2>3, <2>4, <2>5, <2>6 DEF TrimUnlinks
<1>6. CASE Creates(i) \/ Writes(i)
  <2>1. /\ busy[i] \in Id /\ busy[i] \in Int /\ 0 <= busy[i] /\ busy[i] < Len(queue[i])
    BY <1>1, <1>2, <1>6 DEF Creates, Writes, Id
  <2>2. queue[i][busy[i] + 1] \in File
    BY <1>2, <2>1
  <2>3. queue[i][busy[i] + 1].trim_done \in BOOLEAN
    BY <2>2 DEF File
  <2>. DEFINE d == queue[i][busy[i] + 1].trim_done
  <2>4. SetFile(i, busy[i], "empty", d) \/ SetFile(i, busy[i], "whole", d)
    BY <1>6 DEF Creates, Writes
  <2>. HIDE DEF d
  <2>5. /\ queue' \in [Node -> Seq(File)]
        /\ \A j \in Node : Len(queue'[j]) = Len(queue[j])
    BY <1>2, <2>1, <2>3, <2>4, Rewritten DEF d
  <2>6. busy' = busy \/ busy' = [busy EXCEPT ![i] = NoFile]
    BY <1>6 DEF Creates, Writes
  <2>7. busy' \in [Node -> Id \cup {NoFile}]
    BY <1>2, <2>6
  <2>8. \A j \in Node : busy'[j] < Len(queue'[j]) /\ Len(queue'[j]) <= MaxItems
    <3>1. \A j \in Node : NoFile < Len(queue[j])
      BY <1>2 DEF NoFile
    <3>2. \A j \in Node : busy'[j] = busy[j] \/ busy'[j] = NoFile
      BY <1>2, <2>6
    <3>. QED
      BY <1>2, <2>5, <3>1, <3>2
  <2>9. cases' \in 0 .. MaxCases
    BY <1>6 DEF Creates, Writes, TypeOK
  <2>. QED
    BY <1>3, <1>6, <2>5, <2>7, <2>8, <2>9 DEF Creates, Writes
<1>. QED
  BY <1>4, <1>5, <1>6

\* A place an instance takes within one session.
LEMMA PlaceTaken ==
  ASSUME TypeInv, NEW i \in Node, NEW a \in Place, NEW t \in SUBSET (made \ {i}),
         NEW d \in (made \ {i}) \cup {NoOne}, NEW l \in SUBSET [id : Id, case : Case],
         NEW n \in 0 .. MaxItems, NEW m \in 0 .. MaxItems, NEW s \in BOOLEAN,
         NEW e \in BOOLEAN,
         a \in {"demote", "scan", "import"} => d # NoOne,
         \A f \in l : n <= f.id,
         \A f, g \in l : f.id = g.id => f = g,
         made' = made, \A k \in Node : busy'[k] < Len(queue'[k]),
         Moves(i, Loc(a, t, d, l, n, m, s, e))
  PROVE  loc' \in [Node -> Local] /\ ControlInv'
<1>. DEFINE r == Loc(a, t, d, l, n, m, s, e)
<1>1. made \subseteq Node /\ loc \in [Node -> Local] /\ ControlInv
  BY DEF TypeInv, TypeOK
<1>2. r \in Local
  BY <1>1, LocType
<1>3. Placed(made, i, r)
  BY LocFields DEF Placed
<1>. QED
  BY <1>1, <1>2, <1>3, Relocated

\* The same for a place without a listing.
LEMMA PlaceCleared ==
  ASSUME TypeInv, NEW i \in Node, NEW a \in {"check", "dirs"},
         NEW t \in SUBSET (made \ {i}), NEW s \in BOOLEAN, NEW e \in BOOLEAN,
         made' = made, \A k \in Node : busy'[k] < Len(queue'[k]),
         Moves(i, Loc(a, t, NoOne, {}, 0, 0, s, e))
  PROVE  loc' \in [Node -> Local] /\ ControlInv'
<1>. DEFINE r == Loc(a, t, NoOne, {}, 0, 0, s, e)
<1>1. made \subseteq Node /\ loc \in [Node -> Local] /\ ControlInv
  BY DEF TypeInv, TypeOK
<1>2. MaxItems \in Nat
  BY SyncAssumption
<1>3. r \in Local
  BY <1>1, <1>2 DEF Loc, Local
<1>4. Placed(made, i, r)
  BY DEF Loc, Placed
<1>. HIDE DEF r
<1>5. Moves(i, r)
  BY DEF r
<1>. QED
  BY <1>1, <1>3, <1>4, <1>5, Relocated

LEMMA CheckType ==
  ASSUME TypeInv, NEW i \in Node, Check(i)
  PROVE  TypeInv'
<1>. USE DEF TypeInv
<1>0. MaxItems \in Nat \ {0}
  BY SyncAssumption
<1>1. /\ loc \in [Node -> Local] /\ loc[i] \in Local /\ Placed(made, i, loc[i])
      /\ \A k \in Node : busy[k] < Len(queue[k])
      /\ max_start \in [Node -> [Node -> Id \cup {NoFile}]]
  BY DEF TypeOK, ControlInv
<1>2. CASE CheckBegins(i)
  <2>1. Moves(i, Loc("check", Others(i), NoOne, {}, 0, 0, FALSE, FALSE))
    BY <1>2, CheckBeginsMoves
  <2>2. made' = made /\ busy' = busy /\ queue' = queue
    BY <1>2 DEF CheckBegins, life, files
  <2>3. loc' \in [Node -> Local] /\ ControlInv'
    BY <1>1, <2>1, <2>2, PlaceCleared DEF Others
  <2>. QED
    BY <1>2, <2>3
    DEF CheckBegins, TypeOK, setup, files, books, life, role, seen
<1>3. ASSUME NEW j \in Node, CheckDir(i, j)
      PROVE  TypeInv'
  <2>1. PICK d \in {loc[i].dir, j}, s \in BOOLEAN :
          Moves(i, Loc(loc[i].at, loc[i].todo \ {j}, d, loc[i].list,
                       loc[i].next, loc[i].max, s, loc[i].entries))
    BY <1>1, <1>3, CheckDirMoves
  <2>2. made' = made /\ busy' = busy /\ queue' = queue /\ j \in loc[i].todo
    BY <1>3, Zenon DEF CheckDir, life, files
  <2>3. loc[i].at = "check"
    BY <1>3, Zenon DEF CheckDir, Idle
  <2>4. /\ loc[i].todo \ {j} \subseteq made \ {i}
        /\ d \in (made \ {i}) \cup {NoOne}
        /\ \A f \in loc[i].list : loc[i].next <= f.id
        /\ \A f, g \in loc[i].list : f.id = g.id => f = g
    BY <1>1, <2>2 DEF Placed
  <2>5. loc' \in [Node -> Local] /\ ControlInv'
    BY <1>1, <2>1, <2>2, <2>3, <2>4, LocalFields, PlaceTaken, ZenonT(40)
  <2>6. max_start' \in [Node -> [Node -> Id \cup {NoFile}]]
    <3>. DEFINE n == Cardinality(Present(j))
    <3>1. n \in 0 .. MaxItems
      BY <1>0, PresentCount
    <3>2. max_start' = IF n = 0 THEN max_start
                       ELSE [max_start EXCEPT ![i][j] = StartId(n)]
      BY <1>3, Zenon DEF CheckDir
    <3>. HIDE DEF n
    <3>3. n # 0 => StartId(n) \in Id
      BY <1>0, <3>1 DEF StartId, Id
    <3>. QED
      BY <1>1, <3>2, <3>3
  <2>7. UNCHANGED <<setup, files, life, role, synced, seen>>
    BY <1>3, Zenon DEF CheckDir
  <2>. QED
    BY <2>5, <2>6, <2>7 DEF TypeOK, setup, files, life, role, seen
<1>4. CASE CheckEnds(i)
  <2>1. loc' \in [Node -> Local] /\ ControlInv'
    BY <1>1, <1>4, Relocated, AtPlaced DEF CheckEnds, Moves, files, life
  <2>2. is_main_node' \subseteq up /\ marker' \subseteq made
    BY <1>1, <1>4 DEF CheckEnds, TypeOK, role, MarkedBy, Placed, Idle
  <2>. QED
    BY <1>4, <2>1, <2>2
    DEF CheckEnds, TypeOK, setup, files, books, life, seen
<1>. QED
  BY <1>2, <1>3, <1>4 DEF Check

\* What Listed and Gaps give.
LEMMA ListType ==
  ASSUME TypeInv, NEW j \in Node, NEW n \in 0 .. MaxItems
  PROVE  /\ NewFiles(j, n) \subseteq [id : Id, case : Case]
         /\ \A f \in NewFiles(j, n) : n <= f.id
         /\ \A f, g \in NewFiles(j, n) : f.id = g.id => f = g
         /\ Gaps(j, n) \subseteq Case
<1>1. MaxItems \in Nat \ {0} /\ queue[j] \in Seq(File)
  BY SyncAssumption DEF TypeInv, TypeOK
<1>2. \A k \in 0 .. Len(queue[j]) - 1 : queue[j][k + 1].case \in Case
  <2>1. \A k \in 0 .. Len(queue[j]) - 1 : queue[j][k + 1] \in File
    BY <1>1
  <2>. QED
    BY <2>1 DEF File
<1>3. Present(j) \subseteq Id /\ Present(j) \subseteq 0 .. Len(queue[j]) - 1
  BY <1>1 DEF Present, Id
<1>4. \A f \in NewFiles(j, n) : \E k \in Present(j) :
         n <= k /\ f = [id |-> k, case |-> queue[j][k + 1].case]
  BY <1>1, <1>3 DEF NewFiles, Listed, Id
<1>5. NewFiles(j, n) \subseteq [id : Id, case : Case]
  BY <1>2, <1>3, <1>4
<1>6. \A f \in NewFiles(j, n) : n <= f.id
  BY <1>4
<1>7. \A f, g \in NewFiles(j, n) : f.id = g.id => f = g
  BY <1>4
<1>8. Gaps(j, n) \subseteq Case
  BY <1>1, <1>2 DEF Gaps
<1>. QED
  BY <1>5, <1>6, <1>7, <1>8

LEMMA SyncType ==
  ASSUME TypeInv, NEW i \in Node, Sync(i)
  PROVE  TypeInv'
<1>. USE DEF TypeInv
<1>0. MaxItems \in Nat \ {0}
  BY SyncAssumption
<1>1. /\ loc \in [Node -> Local] /\ loc[i] \in Local /\ Placed(made, i, loc[i])
      /\ \A k \in Node : busy[k] < Len(queue[k])
      /\ synced \in [Node -> [Node -> 0 .. MaxItems]]
      /\ max_start \in [Node -> [Node -> Id \cup {NoFile}]]
      /\ looked \in [Node -> SUBSET Case] /\ missed \in [Node -> SUBSET Case]
      /\ made \subseteq Node
  BY DEF TypeOK, ControlInv
<1>2. /\ loc[i].todo \subseteq made \ {i}
      /\ loc[i].dir \in (made \ {i}) \cup {NoOne}
      /\ loc[i].at \in {"demote", "scan", "import"} => loc[i].dir # NoOne
      /\ \A f \in loc[i].list : loc[i].next <= f.id
      /\ \A f, g \in loc[i].list : f.id = g.id => f = g
  BY <1>1 DEF Placed
<1>3. /\ loc[i].at \in Place /\ loc[i].todo \subseteq Node /\ loc[i].dir \in Node \cup {NoOne}
      /\ loc[i].list \subseteq [id : Id, case : Case] /\ loc[i].next \in 0 .. MaxItems
      /\ loc[i].max \in 0 .. MaxItems /\ loc[i].some \in BOOLEAN
      /\ loc[i].entries \in BOOLEAN
  BY <1>1, LocalFields
<1>4. ASSUME NextDir(i), made' = made, UNCHANGED <<queue, busy>>
      PROVE  loc' \in [Node -> Local] /\ ControlInv'
  <2>1. Moves(i, Loc("dirs", loc[i].todo, NoOne, {}, 0, 0, loc[i].some,
                     loc[i].entries))
    BY <1>4, NextDirMoves
  <2>. QED
    BY <1>1, <1>2, <1>3, <1>4, <2>1, PlaceCleared
<1>5. CASE SyncBegins(i)
  <2>1. Moves(i, Loc("dirs", Others(i), NoOne, {}, 0, 0, FALSE, Others(i) # {}))
    BY <1>5, SyncBeginsMoves
  <2>2. UNCHANGED <<setup, files, books, life, role, seen>>
    BY <1>5, Zenon DEF SyncBegins
  <2>3. PICK e \in BOOLEAN : Moves(i, Loc("dirs", Others(i), NoOne, {}, 0, 0, FALSE, e))
    BY <2>1, Zenon
  <2>4. made' = made /\ \A k \in Node : busy'[k] < Len(queue'[k])
    BY <1>1, <2>2 DEF life, files
  <2>5. loc' \in [Node -> Local] /\ ControlInv'
    BY <2>3, <2>4, PlaceCleared DEF Others
  <2>. QED
    BY <2>2, <2>5 DEF TypeOK, setup, files, books, life, role, seen
<1>6. ASSUME NEW j \in Node, OpenDir(i, j)
      PROVE  TypeInv'
  <2>1. \/ Moves(i, Loc(loc[i].at, loc[i].todo \ {j}, loc[i].dir, loc[i].list,
                        loc[i].next, loc[i].max, loc[i].some, loc[i].entries))
        \/ /\ Chosen(i, j) \in {"demote", "scan"}
           /\ Moves(i, Loc(Chosen(i, j), loc[i].todo \ {j}, j, loc[i].list,
                           loc[i].next, loc[i].max, TRUE, loc[i].entries))
    BY <1>1, <1>6, OpenDirMoves
  <2>2. UNCHANGED <<setup, files, books, life, role, seen>> /\ j \in loc[i].todo
    BY <1>6, Zenon DEF OpenDir
  <2>3. /\ made' = made /\ \A k \in Node : busy'[k] < Len(queue'[k])
        /\ loc[i].todo \ {j} \subseteq made \ {i} /\ j \in made \ {i}
        /\ j # NoOne /\ {"demote", "scan"} \subseteq Place
    BY <1>1, <1>2, <2>2, SyncAssumption DEF life, files, Place
  <2>4. ASSUME Moves(i, Loc(loc[i].at, loc[i].todo \ {j}, loc[i].dir, loc[i].list,
                            loc[i].next, loc[i].max, loc[i].some, loc[i].entries))
        PROVE  loc' \in [Node -> Local] /\ ControlInv'
    <3>. DEFINE r == Loc(loc[i].at, loc[i].todo \ {j}, loc[i].dir, loc[i].list,
                           loc[i].next, loc[i].max, loc[i].some, loc[i].entries)
    <3>11. r \in Local
      BY <1>3, Zenon DEF Loc, Local, Place
    <3>12. Placed(made, i, r)
      BY <1>2, <2>3 DEF Loc, Placed
    <3>13. Moves(i, r)
      BY <2>4
    <3>. HIDE DEF r
    <3>. QED
      BY <1>1, <2>3, <3>11, <3>12, <3>13, Relocated
  <2>5. ASSUME Chosen(i, j) \in {"demote", "scan"},
               Moves(i, Loc(Chosen(i, j), loc[i].todo \ {j}, j, loc[i].list,
                            loc[i].next, loc[i].max, TRUE, loc[i].entries))
        PROVE  loc' \in [Node -> Local] /\ ControlInv'
    <3>1. PICK s \in BOOLEAN :
            Moves(i, Loc(Chosen(i, j), loc[i].todo \ {j}, j, loc[i].list,
                         loc[i].next, loc[i].max, s, loc[i].entries))
      BY <2>5, Zenon
    <3>2. Chosen(i, j) \in Place
      BY <2>3, <2>5
    <3>. QED
      <4>. DEFINE r == Loc(Chosen(i, j), loc[i].todo \ {j}, j, loc[i].list,
                             loc[i].next, loc[i].max, s, loc[i].entries)
      <4>11. r \in Local
        BY <1>1, <1>3, <2>3, <3>2 DEF Loc, Local, Place
      <4>12. Placed(made, i, r)
        BY <1>2, <2>3 DEF Loc, Placed
      <4>13. Moves(i, r)
        BY <3>1
      <4>. HIDE DEF r
      <4>. QED
        BY <1>1, <2>3, <4>11, <4>12, <4>13, Relocated
  <2>6. loc' \in [Node -> Local] /\ ControlInv'
    BY <2>1, <2>4, <2>5, Zenon
  <2>. QED
    BY <2>2, <2>6 DEF TypeOK, setup, files, books, life, role, seen
<1>7. CASE Demote(i)
  <2>1. Moves(i, Loc("scan", loc[i].todo, loc[i].dir, loc[i].list,
                     loc[i].next, loc[i].max, loc[i].some, loc[i].entries))
    BY <1>1, <1>7, DemoteMoves
  <2>2. /\ UNCHANGED <<setup, files, books, life, seen>> /\ loc[i].at = "demote"
        /\ is_main_node' = is_main_node \ {i} /\ marker' = marker \ {i}
    BY <1>7, Zenon DEF Demote, Idle
  <2>3. loc' \in [Node -> Local] /\ ControlInv'
    <3>1. made' = made /\ \A k \in Node : busy'[k] < Len(queue'[k])
      BY <1>3, <2>2 DEF ControlInv, life, files
    <3>. DEFINE r == Loc("scan", loc[i].todo, loc[i].dir, loc[i].list,
                         loc[i].next, loc[i].max, loc[i].some, loc[i].entries)
    <3>2. r \in Local
      <4>1. "scan" \in Place
        BY DEF Place
      <4>. QED
        BY <1>1, <1>3, <4>1, LocType
    <3>3. Placed(made, i, r)
      BY <1>2, <2>2, LocFields DEF Placed
    <3>. HIDE DEF r
    <3>4. Moves(i, r)
      BY <2>1 DEF r
    <3>. QED
      BY <1>1, <3>1, <3>2, <3>3, <3>4, Relocated
  <2>. QED
    BY <2>2, <2>3 DEF TypeOK, setup, files, books, life, seen
<1>8. CASE Scan(i)
  <2>0. UNCHANGED <<setup, files, life, role, looked>> /\ loc[i].at = "scan"
    BY <1>8, Zenon DEF Scan, Idle
  <2>. DEFINE j == loc[i].dir
              n == synced[i][j]
              m == max_start[i][j]
  <2>1. j \in Node /\ j # NoOne /\ j \in made \ {i}
    BY <1>1, <1>2, <2>0
  <2>2. n \in 0 .. MaxItems /\ m \in Id \cup {NoFile}
    BY <1>1, <2>1
  <2>3. made' = made /\ queue' = queue /\ busy' = busy
    BY <2>0 DEF life, files
  <2>4. /\ NewFiles(j, n) \subseteq [id : Id, case : Case]
        /\ \A f \in NewFiles(j, n) : n <= f.id
        /\ \A f, g \in NewFiles(j, n) : f.id = g.id => f = g
        /\ Gaps(j, n) \subseteq Case
    BY <2>1, <2>2, ListType
  <2>5. ASSUME missed' = [missed EXCEPT ![i] = @ \cup Gaps(j, n)]
        PROVE  missed' \in [Node -> SUBSET Case]
    BY <1>1, <2>4, <2>5
  <2>6. ASSUME max_start' = [max_start EXCEPT ![i][j] = IF m < n THEN NoFile ELSE m]
        PROVE  max_start' \in [Node -> [Node -> Id \cup {NoFile}]]
    BY <1>1, <2>1, <2>2, <2>6
  <2>7. ASSUME synced' = [synced EXCEPT ![i][j] = 0]
        PROVE  synced' \in [Node -> [Node -> 0 .. MaxItems]]
    BY <1>0, <1>1, <2>1, <2>7
  <2>. HIDE DEF n, m
  <2>8. CASE ScanLeaves(i)
    <3>1. loc' \in [Node -> Local] /\ ControlInv'
      BY <1>4, <2>3, <2>8 DEF ScanLeaves
    <3>2. /\ missed' \in [Node -> SUBSET Case]
          /\ max_start' \in [Node -> [Node -> Id \cup {NoFile}]]
          /\ synced' \in [Node -> [Node -> 0 .. MaxItems]]
      BY <1>1, <2>5, <2>6, <2>7, <2>8 DEF ScanLeaves, n, m
    <3>. QED
      BY <2>0, <3>1, <3>2 DEF TypeOK, setup, files, life, role
  <2>9. CASE ScanReads(i)
    <3>. DEFINE x == IF m = NoFile THEN 0 ELSE m
    <3>1. Moves(i, Loc("import", loc[i].todo, j, NewFiles(j, n), n, x,
                       loc[i].some, loc[i].entries))
      BY <2>9 DEF ScanReads, n, m
    <3>2. x \in 0 .. MaxItems
      BY <1>0, <2>2 DEF Id
    <3>. HIDE DEF x
    <3>3. loc' \in [Node -> Local] /\ ControlInv'
      <4>1. "import" \in Place /\ \A k \in Node : busy'[k] < Len(queue'[k])
        BY <1>1, <2>3 DEF Place
      <4>. HIDE DEF j
      <4>2. loc[i].todo \subseteq made \ {i} /\ loc[i].some \in BOOLEAN
            /\ loc[i].entries \in BOOLEAN /\ made' = made
        BY <1>2, <1>3, <2>3
      <4>. QED
        <5>. DEFINE r == Loc("import", loc[i].todo, j, NewFiles(j, n), n, x,
                               loc[i].some, loc[i].entries)
        <5>11. r \in Local
          BY <1>1, <1>3, <2>1, <2>2, <2>4, <3>2, <4>1 DEF Loc, Local, Place
        <5>12. Placed(made, i, r)
          BY <2>1, <2>4, <4>2 DEF Loc, Placed
        <5>13. Moves(i, r)
          BY <3>1
        <5>. HIDE DEF r
        <5>. QED
          BY <1>1, <4>1, <4>2, <5>11, <5>12, <5>13, Relocated
    <3>4. /\ missed' \in [Node -> SUBSET Case]
          /\ max_start' \in [Node -> [Node -> Id \cup {NoFile}]]
          /\ synced' \in [Node -> [Node -> 0 .. MaxItems]]
      BY <1>1, <2>5, <2>6, <2>9 DEF ScanReads, n, m
    <3>. QED
      BY <2>0, <3>3, <3>4 DEF TypeOK, setup, files, life, role
  <2>. QED
    BY <1>1, <1>8, <2>8, <2>9, ScanCases
<1>9. CASE Import(i)
  <2>0. UNCHANGED <<setup, books, life, role>> /\ loc[i].at = "import"
    BY <1>9, Zenon DEF Import, Idle
  <2>1. made' = made /\ loc[i].dir \in Node /\ loc[i].dir # NoOne
    BY <1>1, <1>2, <2>0 DEF life
  <2>2. ASSUME NEW f \in loc[i].list, \A g \in loc[i].list : f.id <= g.id,
               Passes(i, f), \A k \in Node : busy'[k] < Len(queue'[k])
        PROVE  loc' \in [Node -> Local] /\ ControlInv'
    <3>1. f.id \in Id /\ loc[i].next <= f.id
      BY <1>2, <1>3
    <3>2. loc[i].next + 1 \in 0 .. MaxItems
      BY <1>0, <1>3, <3>1 DEF Id
    <3>3. \A g \in loc[i].list \ {f} : loc[i].next + 1 <= g.id
      <4>1. \A g \in loc[i].list \ {f} : g.id \in Id /\ g.id # f.id /\ f.id <= g.id
        BY <1>2, <1>3, <2>2
      <4>. QED
        BY <1>0, <1>3, <3>1, <4>1 DEF Id
    <3>4. /\ loc[i].list \ {f} \subseteq [id : Id, case : Case]
          /\ \A g, h \in loc[i].list \ {f} : g.id = h.id => g = h
      BY <1>2, <1>3
    <3>. QED
      <4>. DEFINE l == loc[i].list \ {f}
                  n == loc[i].next + 1
      <4>1. Moves(i, Loc(loc[i].at, loc[i].todo, loc[i].dir, l, n, loc[i].max,
                         loc[i].some, loc[i].entries))
        BY <2>2 DEF Passes
      <4>2. /\ l \in SUBSET [id : Id, case : Case] /\ n \in 0 .. MaxItems
            /\ \A g \in l : n <= g.id
            /\ \A g, h \in l : g.id = h.id => g = h
        BY <3>2, <3>3, <3>4
      <4>. HIDE DEF l, n
      <4>. QED
        <5>. DEFINE r == Loc(loc[i].at, loc[i].todo, loc[i].dir, l, n, loc[i].max,
                               loc[i].some, loc[i].entries)
        <5>11. r \in Local
          BY <1>3, <4>2 DEF Loc, Local, Place
        <5>12. Placed(made, i, r)
          BY <1>2, <2>1, <4>2 DEF Loc, Placed
        <5>13. Moves(i, r)
          BY <4>1
        <5>. HIDE DEF r
        <5>. QED
          BY <1>1, <2>1, <2>2, <5>11, <5>12, <5>13, Relocated
  <2>3. CASE ImportLeaves(i)
    <3>1. loc' \in [Node -> Local] /\ ControlInv'
      BY <1>4, <2>1, <2>3 DEF ImportLeaves, files
    <3>. QED
      BY <2>0, <2>3, <3>1 DEF ImportLeaves, TypeOK, setup, files, books, life, role, seen
  <2>4. ASSUME NEW f \in loc[i].list, \A g \in loc[i].list : f.id <= g.id,
               ImportMisses(i, f) \/ ImportKnows(i, f)
        PROVE  TypeInv'
    <3>1. Passes(i, f) /\ UNCHANGED files
      BY <2>4 DEF ImportMisses, ImportKnows
    <3>2. loc' \in [Node -> Local] /\ ControlInv'
      BY <1>1, <2>2, <2>4, <3>1 DEF files
    <3>3. f.case \in Case
      BY <1>3
    <3>4. looked' \in [Node -> SUBSET Case] /\ missed' \in [Node -> SUBSET Case]
      BY <1>1, <2>4, <3>3, ZenonT(40) DEF ImportMisses, ImportKnows, seen
    <3>. QED
      BY <2>0, <3>1, <3>2, <3>4 DEF TypeOK, setup, files, books, life, role
  <2>5. ASSUME NEW f \in loc[i].list, \A g \in loc[i].list : f.id <= g.id,
               ImportRuns(i, f)
        PROVE  TypeInv'
    <3>1. f.case \in Case
      BY <1>3
    <3>2. looked' \in [Node -> SUBSET Case] /\ missed' = missed /\ Passes(i, f)
      BY <1>1, <2>5, <3>1 DEF ImportRuns
    <3>3. CASE UNCHANGED files
      <4>1. loc' \in [Node -> Local] /\ ControlInv'
        BY <1>1, <2>2, <2>5, <3>2, <3>3 DEF files
      <4>. QED
        BY <2>0, <3>2, <3>3, <4>1 DEF TypeOK, setup, files, books, life, role
    <3>4. CASE ~UNCHANGED files
      <4>1. /\ queue' = [queue EXCEPT ![i] = Append(@, Created(f.case, loc[i].dir))]
            /\ busy' = [busy EXCEPT ![i] = Len(queue[i])]
            /\ cases' = cases /\ Len(queue[i]) < MaxItems
        BY <2>5, <3>4 DEF ImportRuns
      <4>2. Created(f.case, loc[i].dir) \in File
        BY <2>1, <3>1, EntryType DEF Created
      <4>3. queue \in [Node -> Seq(File)] /\ busy \in [Node -> Id \cup {NoFile}]
        BY DEF TypeOK
      <4>4. /\ queue' \in [Node -> Seq(File)]
            /\ \A k \in Node \ {i} : queue'[k] = queue[k]
            /\ Len(queue'[i]) = Len(queue[i]) + 1
        BY <4>1, <4>2, <4>3, Appended
      <4>5. Len(queue[i]) \in Id /\ Len(queue[i]) \in Nat
        BY <1>0, <4>1, <4>3 DEF Id
      <4>6. busy' \in [Node -> Id \cup {NoFile}]
        BY <4>1, <4>3, <4>5
      <4>7. \A k \in Node : Len(queue[k]) <= MaxItems
        BY DEF TypeOK
      <4>8. \A k \in Node : busy'[k] < Len(queue'[k]) /\ Len(queue'[k]) <= MaxItems
        BY <1>0, <1>1, <4>1, <4>3, <4>4, <4>5, <4>7
      <4>9. loc' \in [Node -> Local] /\ ControlInv'
        BY <2>2, <2>5, <3>2, <4>8
      <4>. QED
        BY <2>0, <3>2, <4>1, <4>4, <4>6, <4>8, <4>9 DEF TypeOK, setup, books, life, role
    <3>. QED
      BY <3>3, <3>4
  <2>. QED
    BY <1>1, <1>9, <2>3, <2>4, <2>5, ImportCases
<1>10. CASE ImportEnds(i)
  <2>1. /\ UNCHANGED <<setup, files, life, role, max_start, seen>> /\ NextDir(i)
        /\ synced' = [synced EXCEPT ![i][loc[i].dir] = loc[i].next]
        /\ loc[i].at = "import"
    BY <1>10, Zenon DEF ImportEnds, NextMinAccept, Idle
  <2>2. loc[i].dir \in Node
    BY <1>1, <1>2, <2>1
  <2>3. synced' \in [Node -> [Node -> 0 .. MaxItems]]
    BY <1>1, <1>3, <2>1, <2>2
  <2>4. loc' \in [Node -> Local] /\ ControlInv'
    BY <1>4, <2>1 DEF life, files
  <2>. QED
    BY <2>1, <2>3, <2>4 DEF TypeOK, setup, files, life, role, seen
<1>11. CASE SyncEnds(i)
  <2>1. loc' \in [Node -> Local] /\ ControlInv'
    BY <1>1, <1>11, Relocated, AtPlaced DEF SyncEnds, Moves, files, life
  <2>2. is_main_node' \subseteq up /\ marker' \subseteq made
    BY <1>11 DEF SyncEnds, Idle, TypeOK, role
  <2>. QED
    BY <1>11, <2>1, <2>2 DEF SyncEnds, TypeOK, setup, files, books, life, seen
<1>. QED
  BY <1>5, <1>6, <1>7, <1>8, <1>9, <1>10, <1>11 DEF Sync

LEMMA NextType == TypeInv /\ [Next]_vars => TypeInv'
<1>. SUFFICES ASSUME TypeInv, [Next]_vars PROVE TypeInv'
  OBVIOUS
<1>1. CASE Second
  <2>1. ControlInv'
    BY <1>1 DEF Second, TypeInv, ControlInv, files
  <2>. QED
    BY <1>1, <2>1 DEF Second, TypeInv, TypeOK, setup, files, books, seen, role
<1>2. CASE UNCHANGED vars
  <2>1. ControlInv'
    BY <1>2 DEF vars, TypeInv, ControlInv, files, life
  <2>. QED
    BY <1>2, <2>1 DEF vars, TypeInv, TypeOK, setup, files, books, life, seen, role
<1>. QED
  BY <1>1, <1>2, SessionType, FileType, CheckType, SyncType DEF Next, Fuzz

\* The shared directory and every instance's place in its code keep their types,
\* however the instances interleave, stop, crash and start again.
THEOREM SyncTypeCorrect == Spec => []TypeOK
<1>1. TypeInv => TypeOK
  BY DEF TypeInv
<1>. QED
  BY InitType, NextType, <1>1, PTL DEF Spec

-----------------------------------------------------------------------------
(***************************************************************************)
(* The offsets, where no session starts afresh in an old directory.        *)
(***************************************************************************)
Covered(i) == looked[i] \cup missed[i] \cup CasesOf(i)

\* An instance that was never started has no files.
UnmadeInv == \A j \in Node \ made : queue[j] = <<>>

\* A file that names an instance as its origin holds a case of that instance.
FromInv ==
    \A i, j \in Node : \A k \in 1 .. Len(queue[j]) :
        queue[j][k].from = i => queue[j][k].case \in CasesOf(i)

\* While a listing of the queue q is read by an instance at l that has covered
\* the cases C: the count is within q, the listed files are as they were listed,
\* and what lies below the count or below a listed file is covered or still
\* listed.
Read(q, C, l) ==
    /\ l.next <= Len(q)
    /\ \A f \in l.list : f.id < Len(q) /\ q[f.id + 1].case = f.case
    /\ \A k \in 0 .. Len(q) - 1 :
          (k < l.next \/ \E f \in l.list : k < f.id) =>
             q[k + 1].case \in C \/ \E f \in l.list : f.id = k

ListInv ==
    \A i \in Node :
        loc[i].at = "import" => Read(queue[loc[i].dir], Covered(i), loc[i])

\* What the offset counts is there and covered.
OffInv ==
    \A i, j \in Node :
        /\ synced[i][j] <= Len(queue[j])
        /\ \A k \in 0 .. Len(queue[j]) - 1 :
              k < synced[i][j] => queue[j][k + 1].case \in Covered(i)

SyncInv == UnmadeInv /\ FromInv /\ ListInv /\ OffInv

\* Queues only grow, keep the cases and origins of their files, and a new file
\* comes from nobody or from the instance that holds its case.
QueueKept(j) ==
    /\ Len(queue[j]) <= Len(queue'[j])
    /\ \A k \in 1 .. Len(queue[j]) :
          /\ queue'[j][k].case = queue[j][k].case
          /\ queue'[j][k].from = queue[j][k].from
    /\ \A k \in 1 .. Len(queue'[j]) :
          k > Len(queue[j]) /\ queue'[j][k].from \in Node =>
             queue'[j][k].case \in CasesOf(queue'[j][k].from)
    /\ j \notin made' => queue'[j] = queue[j]

LEMMA QueueSame ==
  ASSUME NEW j \in Node, queue \in [Node -> Seq(File)], queue'[j] = queue[j]
  PROVE  QueueKept(j)
<1>1. Len(queue[j]) \in Nat
  OBVIOUS
<1>. QED
  BY <1>1 DEF QueueKept

LEMMA QueueAppends ==
  ASSUME NEW i \in Node, NEW e \in File, queue \in [Node -> Seq(File)], i \in made',
         queue' = [queue EXCEPT ![i] = Append(@, e)],
         e.from \in Node => e.case \in CasesOf(e.from), NEW j \in Node
  PROVE  QueueKept(j)
<1>1. CASE j # i
  BY <1>1, QueueSame
<1>2. CASE j = i
  <2>1. /\ Len(queue'[i]) = Len(queue[i]) + 1
        /\ \A k \in 1 .. Len(queue[i]) : queue'[i][k] = queue[i][k]
        /\ queue'[i][Len(queue[i]) + 1] = e
    BY Appended
  <2>2. Len(queue[i]) \in Nat
    OBVIOUS
  <2>3. \A k \in 1 .. Len(queue'[i]) : k > Len(queue[i]) => k = Len(queue[i]) + 1
    BY <2>1, <2>2
  <2>4. Len(queue[i]) <= Len(queue'[i])
    BY <2>1, <2>2
  <2>. QED
    BY <1>2, <2>1, <2>3, <2>4 DEF QueueKept
<1>. QED
  BY <1>1, <1>2

LEMMA QueueRewrites ==
  ASSUME NEW i \in Node, NEW k \in Int, 0 <= k, k < Len(queue[i]), i \in made',
         queue \in [Node -> Seq(File)],
         NEW f \in {"empty", "whole", "gone"}, NEW d \in BOOLEAN,
         SetFile(i, k, f, d), NEW j \in Node
  PROVE  QueueKept(j)
<1>1. CASE j # i
  BY <1>1, QueueSame DEF SetFile
<1>2. CASE j = i
  <2>1. /\ Len(queue'[j]) = Len(queue[j])
        /\ \A m \in 1 .. Len(queue[j]) :
             /\ queue'[j][m].case = queue[j][m].case
             /\ queue'[j][m].from = queue[j][m].from
    BY Rewritten
  <2>2. Len(queue[j]) \in Nat
    OBVIOUS
  <2>. QED
    BY <1>2, <2>1, <2>2 DEF QueueKept
<1>. QED
  BY <1>1, <1>2

LEMMA QueueSteps ==
  ASSUME TypeInv, UnmadeInv, [Next]_vars, "fresh" \notin Starts, NEW j \in Node
  PROVE  QueueKept(j) /\ made \subseteq made'
<1>0. /\ queue \in [Node -> Seq(File)] /\ busy \in [Node -> Id \cup {NoFile}]
      /\ up \subseteq made /\ NoOne \notin Node /\ loc \in [Node -> Local]
      /\ \A k \in Node : busy[k] < Len(queue[k])
      /\ MaxItems \in Nat \ {0} /\ MaxCases \in Nat /\ cases \in 0 .. MaxCases
  BY SyncAssumption DEF TypeInv, TypeOK, ControlInv
<1>1. ASSUME NEW i \in Node, Start(i)
      PROVE  QueueKept(j) /\ made \subseteq made'
  <2>. DEFINE e == Entry(cases + 1, NoOne, "whole", FALSE)
  <2>1. queue' = [queue EXCEPT ![i] = <<e>>] /\ made' = made \cup {i} /\ i \notin made
    BY <1>1 DEF Start
  <2>2. queue[i] = <<>>
    BY <2>1 DEF UnmadeInv
  <2>3. e.from = NoOne
    BY DEF Entry
  <2>. HIDE DEF e
  <2>4. Len(<<>>) = 0 /\ Len(<<e>>) = 1 /\ <<e>>[1] = e
    OBVIOUS
  <2>5. CASE j = i
    <3>1. queue'[j] = <<e>>
      BY <1>0, <2>1, <2>5
    <3>. QED
      BY <1>0, <2>1, <2>2, <2>3, <2>4, <2>5, <3>1 DEF QueueKept
  <2>6. CASE j # i
    BY <1>0, <2>1, <2>6, QueueSame
  <2>. QED
    BY <2>1, <2>5, <2>6
<1>2. ASSUME NEW i \in Node, Find(i)
      PROVE  QueueKept(j) /\ made \subseteq made'
  <2>1. cases + 1 \in Case
    BY <1>0, <1>2 DEF Find, Case
  <2>. DEFINE e == Created(cases + 1, NoOne)
  <2>2. e \in File
    BY <2>1, EntryType DEF Created
  <2>3. e.from = NoOne
    BY DEF Created, Entry
  <2>4. queue' = [queue EXCEPT ![i] = Append(@, e)] /\ made' = made /\ i \in made
    BY <1>0, <1>2 DEF Find, life, Idle
  <2>. HIDE DEF e
  <2>. QED
    BY <1>0, <2>2, <2>3, <2>4, QueueAppends
<1>3. ASSUME NEW i \in Node, TrimUnlinks(i)
      PROVE  QueueKept(j) /\ made \subseteq made'
  <2>1. PICK k \in 0 .. Len(queue[i]) - 1 : SetFile(i, k, "gone", TRUE)
    BY <1>3 DEF TrimUnlinks
  <2>2. k \in Int /\ 0 <= k /\ k < Len(queue[i])
    BY <1>0
  <2>3. made' = made /\ i \in made
    BY <1>0, <1>3 DEF TrimUnlinks, life, Idle
  <2>. QED
    BY <1>0, <2>1, <2>2, <2>3, QueueRewrites
<1>4. ASSUME NEW i \in Node, Creates(i) \/ Writes(i)
      PROVE  QueueKept(j) /\ made \subseteq made'
  <2>1. /\ busy[i] \in Int /\ 0 <= busy[i] /\ busy[i] < Len(queue[i])
        /\ made' = made /\ i \in made
    BY <1>0, <1>4 DEF Creates, Writes, Id, life
  <2>2. queue[i][busy[i] + 1] \in File
    BY <1>0, <2>1
  <2>. DEFINE d == queue[i][busy[i] + 1].trim_done
  <2>3. d \in BOOLEAN
    BY <2>2 DEF File
  <2>4. SetFile(i, busy[i], "empty", d) \/ SetFile(i, busy[i], "whole", d)
    BY <1>4 DEF Creates, Writes
  <2>. HIDE DEF d
  <2>. QED
    BY <1>0, <2>1, <2>3, <2>4, QueueRewrites
<1>5. ASSUME NEW i \in Node, Import(i)
      PROVE  QueueKept(j) /\ made \subseteq made'
  <2>0. made' = made /\ i \in made /\ loc[i] \in Local /\ loc[i].at = "import"
    BY <1>0, <1>5, Zenon DEF Import, Idle, life
  <2>1. CASE UNCHANGED files
    BY <1>0, <2>0, <2>1, QueueSame DEF files
  <2>2. CASE ~UNCHANGED files
    <3>1. PICK f \in loc[i].list : ImportRuns(i, f)
      BY <1>5, <2>0, <2>2, ImportCases DEF ImportLeaves, ImportMisses, ImportKnows
    <3>2. /\ Readable(loc[i].dir, f)
          /\ queue' = [queue EXCEPT ![i] = Append(@, Created(f.case, loc[i].dir))]
      BY <2>2, <3>1 DEF ImportRuns
    <3>3. f \in [id : Id, case : Case]
      BY <2>0, LocalFields
    <3>4. f.case \in Case /\ f.id \in Id
      BY <3>3
    <3>5. loc[i].dir \in Node
      BY <2>0 DEF TypeInv, TypeOK, ControlInv, Placed
    <3>6. f.case \in CasesOf(loc[i].dir)
      <4>1. f.id + 1 \in DOMAIN queue[loc[i].dir]
        BY <1>0, <3>2, <3>4, <3>5 DEF Readable, Id
      <4>. QED
        BY <3>2, <4>1 DEF Readable, CasesOf
    <3>. DEFINE e == Created(f.case, loc[i].dir)
    <3>7. e \in File /\ e.case = f.case /\ e.from = loc[i].dir
      <4>1. e \in File
        BY <3>4, <3>5, EntryType DEF Created
      <4>2. e.case = f.case /\ e.from = loc[i].dir
        BY DEF Created, Entry
      <4>. QED
        BY <4>1, <4>2
    <3>. HIDE DEF e
    <3>8. queue' = [queue EXCEPT ![i] = Append(@, e)]
      BY <3>2 DEF e
    <3>. QED
      BY <1>0, <2>0, <3>6, <3>7, <3>8, QueueAppends
  <2>. QED
    BY <2>1, <2>2
<1>6. ASSUME NEW i \in Node,
             Resume(i) \/ StopSignal(i) \/ Exit(i) \/ Crash(i) \/ Check(i)
      PROVE  queue' = queue /\ made' = made
  BY <1>6, Zenon DEF Resume, StopSignal, Exit, Crash, Check, CheckBegins, CheckEnds,
     CheckDir, files, life
<1>7. ASSUME NEW i \in Node, Sync(i), ~Import(i)
      PROVE  queue' = queue /\ made' = made
  BY <1>7, Zenon DEF Sync, SyncBegins, OpenDir, Demote, Scan, ImportEnds, SyncEnds,
     files, life
<1>8. ASSUME Second \/ UNCHANGED vars
      PROVE  queue' = queue /\ made' = made
  BY <1>8, Zenon DEF Second, vars, files, life
<1>9. queue' = queue => QueueKept(j)
  BY <1>0, QueueSame
<1>. QED
  BY <1>1, <1>2, <1>3, <1>4, <1>5, <1>6, <1>7, <1>8, <1>9 DEF Next, Fuzz

\* How the place of an instance changes, as far as listings are concerned.
LEMMA PlaceSteps ==
  ASSUME TypeInv, [Next]_vars, NEW i \in Node
  PROVE  \/ loc'[i] = loc[i]
         \/ loc'[i].at # "import"
         \/ ScanReads(i) /\ queue' = queue /\ looked' = looked /\ loc[i].at = "scan"
         \/ \E f \in loc[i].list :
              /\ \A g \in loc[i].list : f.id <= g.id
              /\ loc[i].at = "import"
              /\ ImportMisses(i, f) \/ ImportKnows(i, f) \/ ImportRuns(i, f)
<1>0. loc \in [Node -> Local] /\ loc[i] \in Local
  BY DEF TypeInv, TypeOK
<1>1. ASSUME NEW k \in Node, k # i,
             \/ Start(k) \/ Resume(k) \/ StopSignal(k) \/ Exit(k) \/ Crash(k)
             \/ Fuzz(k) \/ Check(k) \/ Sync(k)
      PROVE  loc'[i] = loc[i]
  <2>1. loc' = loc \/ \E r : loc' = [loc EXCEPT ![k] = r]
    BY <1>1, Zenon DEF Start, Resume, StopSignal, Exit, Crash, Fuzz, Find,
       TrimUnlinks, Creates, Writes, Check, CheckBegins, CheckDir, CheckEnds,
       Sync, SyncBegins, OpenDir, Demote, Scan, NextDir, Import, ImportEnds, SyncEnds
  <2>. QED
    BY <1>0, <1>1, <2>1
<1>2. CASE Second \/ UNCHANGED vars \/ StopSignal(i) \/ Fuzz(i)
  BY <1>2, Zenon DEF Second, vars, StopSignal, Fuzz, Find, TrimUnlinks, Creates, Writes
<1>3. CASE Start(i) \/ Resume(i) \/ Exit(i) \/ Crash(i) \/ CheckEnds(i) \/ SyncEnds(i)
  <2>1. PICK a \in {"start", "fuzz", "off"} : loc' = [loc EXCEPT ![i] = At(a)]
    BY <1>3, Zenon DEF Start, Resume, Exit, Crash, CheckEnds, SyncEnds
  <2>2. At(a).at = a
    BY DEF At
  <2>. QED
    BY <1>0, <2>1, <2>2
<1>4. ASSUME NextDir(i) PROVE loc'[i].at # "import"
  <2>. DEFINE r == Loc("dirs", loc[i].todo, NoOne, {}, 0, 0, loc[i].some,
                         loc[i].entries)
  <2>1. Moves(i, r)
    BY <1>0, <1>4, NextDirMoves
  <2>2. r.at # "import"
    BY DEF Loc
  <2>. HIDE DEF r
  <2>. QED
    BY <1>0, <2>1, <2>2, MovesTo
<1>5. CASE CheckBegins(i)
  <2>. DEFINE r == Loc("check", Others(i), NoOne, {}, 0, 0, FALSE, FALSE)
  <2>1. Moves(i, r)
    BY <1>0, <1>5, CheckBeginsMoves
  <2>2. r.at # "import"
    BY DEF Loc
  <2>. HIDE DEF r
  <2>. QED
    BY <1>0, <2>1, <2>2, MovesTo
<1>6. CASE SyncBegins(i)
  <2>1. PICK e : Moves(i, Loc("dirs", Others(i), NoOne, {}, 0, 0, FALSE, e))
    BY <1>6, SyncBeginsMoves, Zenon
  <2>. QED
    BY <1>0, <2>1, MovesTo DEF Loc
<1>7. ASSUME NEW j \in Node, CheckDir(i, j) PROVE loc'[i].at # "import"
  <2>1. PICK d, s : Moves(i, Loc(loc[i].at, loc[i].todo \ {j}, d, loc[i].list,
                                 loc[i].next, loc[i].max, s, loc[i].entries))
    BY <1>0, <1>7, CheckDirMoves, Zenon
  <2>2. loc[i].at = "check"
    BY <1>7, Zenon DEF CheckDir, Idle
  <2>. QED
    BY <1>0, <2>1, <2>2, MovesTo DEF Loc
<1>8. ASSUME NEW j \in Node, OpenDir(i, j) PROVE loc'[i].at # "import"
  <2>1. loc[i].at = "dirs"
    BY <1>8, Zenon DEF OpenDir, Idle
  <2>2. CASE Moves(i, Loc("dirs", loc[i].todo \ {j}, loc[i].dir, loc[i].list,
                          loc[i].next, loc[i].max, loc[i].some, loc[i].entries))
    BY <1>0, <2>2, MovesTo DEF Loc
  <2>3. CASE /\ Chosen(i, j) \in {"demote", "scan"}
             /\ Moves(i, Loc(Chosen(i, j), loc[i].todo \ {j}, j, loc[i].list,
                             loc[i].next, loc[i].max, TRUE, loc[i].entries))
    BY <1>0, <2>3, MovesTo DEF Loc
  <2>. QED
    BY <1>0, <1>8, <2>1, <2>2, <2>3, OpenDirMoves, Zenon
<1>9. CASE Demote(i)
  <2>. DEFINE r == Loc("scan", loc[i].todo, loc[i].dir, loc[i].list,
                         loc[i].next, loc[i].max, loc[i].some, loc[i].entries)
  <2>1. Moves(i, r)
    BY <1>0, <1>9, DemoteMoves
  <2>2. r.at # "import"
    BY DEF Loc
  <2>. HIDE DEF r
  <2>. QED
    BY <1>0, <2>1, <2>2, MovesTo
<1>10. CASE Scan(i)
  <2>1. queue' = queue /\ looked' = looked /\ loc[i].at = "scan"
    BY <1>10, Zenon DEF Scan, Idle, files
  <2>. QED
    BY <1>0, <1>4, <1>10, <2>1, ScanCases, Zenon DEF ScanLeaves
<1>11. CASE Import(i)
  <2>1. loc[i].at = "import"
    BY <1>11, Zenon DEF Import, Idle
  <2>. QED
    BY <1>0, <1>4, <1>11, <2>1, ImportCases, Zenon DEF ImportLeaves
<1>12. CASE ImportEnds(i)
  <2>1. NextDir(i)
    BY <1>12, Zenon DEF ImportEnds
  <2>. QED
    BY <1>4, <2>1
<1>13. CASE Check(i)
  BY <1>3, <1>5, <1>7, <1>13 DEF Check
<1>14. CASE Sync(i)
  BY <1>3, <1>6, <1>8, <1>9, <1>10, <1>11, <1>12, <1>14, Zenon DEF Sync
<1>15. ASSUME NEW k \in Node,
             \/ Start(k) \/ Resume(k) \/ StopSignal(k) \/ Exit(k) \/ Crash(k)
             \/ Fuzz(k) \/ Check(k) \/ Sync(k)
      PROVE  \/ k # i
             \/ Start(i) \/ Resume(i) \/ StopSignal(i) \/ Exit(i) \/ Crash(i)
             \/ Fuzz(i) \/ Check(i) \/ Sync(i)
  BY <1>15, Zenon
<1>. QED
  BY <1>1, <1>2, <1>3, <1>13, <1>14, <1>15, Zenon DEF Next

\* How the offsets change.
LEMMA OffsetSteps ==
  ASSUME TypeInv, [Next]_vars, NEW i \in Node, NEW j \in Node
  PROVE  \/ synced'[i][j] = synced[i][j]
         \/ synced'[i][j] = 0
         \/ /\ loc[i].at = "import" /\ loc[i].list = {} /\ loc[i].dir = j
            /\ synced'[i][j] = loc[i].next
            /\ queue' = queue /\ looked' = looked /\ missed' = missed
<1>0. synced \in [Node -> [Node -> 0 .. MaxItems]] /\ loc \in [Node -> Local]
  BY DEF TypeInv, TypeOK
<1>1. CASE synced' = synced
  BY <1>1
<1>2. ASSUME NEW k \in Node, Start(k)
      PROVE  synced'[i][j] = synced[i][j] \/ synced'[i][j] = 0
  BY <1>0, <1>2 DEF Start
<1>3. ASSUME NEW k \in Node, Scan(k)
      PROVE  synced'[i][j] = synced[i][j] \/ synced'[i][j] = 0
  <2>1. synced' = synced \/ synced' = [synced EXCEPT ![k][loc[k].dir] = 0]
    BY <1>3, Zenon DEF Scan
  <2>. QED
    BY <1>0, <2>1
<1>4. ASSUME NEW k \in Node, ImportEnds(k)
      PROVE  \/ synced'[i][j] = synced[i][j]
             \/ /\ loc[i].at = "import" /\ loc[i].list = {} /\ loc[i].dir = j
                /\ synced'[i][j] = loc[i].next
                /\ queue' = queue /\ looked' = looked /\ missed' = missed
  <2>1. /\ synced' = [synced EXCEPT ![k][loc[k].dir] = loc[k].next]
        /\ loc[k].at = "import" /\ loc[k].list = {}
        /\ queue' = queue /\ looked' = looked /\ missed' = missed
    BY <1>4, Zenon DEF ImportEnds, NextMinAccept, Idle, files, seen
  <2>. QED
    BY <1>0, <2>1
<1>5. \/ synced' = synced
      \/ \E k \in Node : Start(k) \/ Scan(k) \/ ImportEnds(k)
  <2>1. CASE Second \/ UNCHANGED vars
    BY <2>1, Zenon DEF Second, vars, books
  <2>2. ASSUME NEW k \in Node, \/ Start(k) \/ Resume(k) \/ StopSignal(k)
                                \/ Exit(k) \/ Crash(k) \/ Fuzz(k)
        PROVE  Start(k) \/ synced' = synced
    BY <2>2, Zenon DEF Resume, StopSignal, Exit, Crash, Fuzz, Find, TrimUnlinks,
       Creates, Writes, books
  <2>3. ASSUME NEW k \in Node, Check(k) PROVE synced' = synced
    BY <2>3, Zenon DEF Check, CheckBegins, CheckDir, CheckEnds, books
  <2>4. ASSUME NEW k \in Node, Sync(k)
        PROVE  Scan(k) \/ ImportEnds(k) \/ synced' = synced
    BY <2>4, Zenon DEF Sync, SyncBegins, OpenDir, Demote, Import, SyncEnds, books
  <2>. QED
    BY <2>1, <2>2, <2>3, <2>4, Zenon DEF Next
<1>. QED
  BY <1>1, <1>2, <1>3, <1>4, <1>5

\* What was executed or missed stays so within a session.
LEMMA SeenSteps ==
  ASSUME TypeInv, [Next]_vars, NEW i \in Node
  PROVE  \/ looked[i] \subseteq looked'[i] /\ missed[i] \subseteq missed'[i]
         \/ loc'[i].at = "start" /\ \A j \in Node : synced'[i][j] = 0
<1>0. /\ looked \in [Node -> SUBSET Case] /\ missed \in [Node -> SUBSET Case]
      /\ synced \in [Node -> [Node -> 0 .. MaxItems]] /\ loc \in [Node -> Local]
  BY DEF TypeInv, TypeOK
<1>1. ASSUME NEW k \in Node, Start(k)
      PROVE  \/ looked[i] \subseteq looked'[i] /\ missed[i] \subseteq missed'[i]
             \/ loc'[i].at = "start" /\ \A j \in Node : synced'[i][j] = 0
  <2>1. CASE k = i
    BY <1>0, <1>1, <2>1 DEF Start, At
  <2>2. CASE k # i
    BY <1>0, <1>1, <2>2 DEF Start
  <2>. QED
    BY <2>1, <2>2
<1>2. ASSUME NEW k \in Node, Scan(k)
      PROVE  looked[i] \subseteq looked'[i] /\ missed[i] \subseteq missed'[i]
  <2>1. /\ looked' = looked
        /\ \/ missed' = missed
           \/ \E G : missed' = [missed EXCEPT ![k] = @ \cup G]
    BY <1>2, Zenon DEF Scan
  <2>. QED
    BY <1>0, <2>1
<1>3. ASSUME NEW k \in Node, Import(k)
      PROVE  looked[i] \subseteq looked'[i] /\ missed[i] \subseteq missed'[i]
  <2>1. /\ looked' = looked \/ \E G : looked' = [looked EXCEPT ![k] = @ \cup G]
        /\ missed' = missed \/ \E G : missed' = [missed EXCEPT ![k] = @ \cup G]
    BY <1>0, <1>3, ImportCases, Zenon DEF ImportLeaves, ImportMisses, ImportKnows,
       ImportRuns, seen
  <2>. QED
    BY <1>0, <2>1
<1>4. \/ looked' = looked /\ missed' = missed
      \/ \E k \in Node : Start(k) \/ Scan(k) \/ Import(k)
  <2>1. CASE Second \/ UNCHANGED vars
    BY <2>1, Zenon DEF Second, vars, seen
  <2>2. ASSUME NEW k \in Node, \/ Start(k) \/ Resume(k) \/ StopSignal(k)
                                \/ Exit(k) \/ Crash(k) \/ Fuzz(k)
        PROVE  Start(k) \/ (looked' = looked /\ missed' = missed)
    BY <2>2, Zenon DEF Resume, StopSignal, Exit, Crash, Fuzz, Find, TrimUnlinks,
       Creates, Writes, seen
  <2>3. ASSUME NEW k \in Node, Check(k)
        PROVE  looked' = looked /\ missed' = missed
    BY <2>3, Zenon DEF Check, CheckBegins, CheckDir, CheckEnds, seen
  <2>4. ASSUME NEW k \in Node, Sync(k)
        PROVE  Scan(k) \/ Import(k) \/ (looked' = looked /\ missed' = missed)
    BY <2>4, Zenon DEF Sync, SyncBegins, OpenDir, Demote, ImportEnds, SyncEnds,
       seen
  <2>. QED
    BY <2>1, <2>2, <2>3, <2>4, Zenon DEF Next
<1>. QED
  BY <1>1, <1>2, <1>3, <1>4

\* The cases of an instance stay its cases.
LEMMA CasesKept ==
  ASSUME NEW i \in Node, queue[i] \in Seq(File), queue'[i] \in Seq(File), QueueKept(i)
  PROVE  CasesOf(i) \subseteq CasesOf(i)'
<1>. SUFFICES ASSUME NEW k \in DOMAIN queue[i]
              PROVE  queue[i][k].case \in CasesOf(i)'
  BY DEF CasesOf
<1>1. k \in 1 .. Len(queue[i]) /\ Len(queue[i]) \in Nat /\ Len(queue'[i]) \in Nat
  OBVIOUS
<1>2. k \in 1 .. Len(queue'[i]) /\ queue'[i][k].case = queue[i][k].case
  BY <1>1 DEF QueueKept
<1>3. k \in DOMAIN queue'[i]
  BY <1>2
<1>. QED
  BY <1>2, <1>3 DEF CasesOf

\* A listing, or an offset, that was sound stays sound while queues grow.
LEMMA ReadKept ==
  ASSUME NEW i \in Node, NEW j \in Node, NEW l \in Local,
         queue[j] \in Seq(File), queue'[j] \in Seq(File), QueueKept(j),
         Covered(i) \subseteq Covered(i)', Read(queue[j], Covered(i), l),
         MaxItems \in Nat
  PROVE  Read(queue'[j], Covered(i)', l)
<1>1. /\ Len(queue[j]) \in Nat /\ Len(queue'[j]) \in Nat
      /\ Len(queue[j]) <= Len(queue'[j])
      /\ l.next \in Nat /\ l.next <= Len(queue[j])
  BY LocalFields DEF QueueKept, Read
<1>2. \A f \in l.list : f.id \in Nat /\ f.id < Len(queue[j])
                        /\ queue[j][f.id + 1].case = f.case
  <2>1. \A f \in l.list : f.id \in Id
    BY LocalFields
  <2>. QED
    BY <2>1 DEF Read, Id
<1>3. \A k \in 0 .. Len(queue[j]) - 1 : queue'[j][k + 1].case = queue[j][k + 1].case
  BY <1>1 DEF QueueKept
<1>4. l.next <= Len(queue'[j])
  BY <1>1
<1>5. \A f \in l.list : f.id < Len(queue'[j]) /\ queue'[j][f.id + 1].case = f.case
  BY <1>1, <1>2, <1>3
<1>6. ASSUME NEW k \in 0 .. Len(queue'[j]) - 1,
             k < l.next \/ \E f \in l.list : k < f.id
      PROVE  \/ queue'[j][k + 1].case \in Covered(i)'
             \/ \E f \in l.list : f.id = k
  <2>1. k \in 0 .. Len(queue[j]) - 1
    BY <1>1, <1>2, <1>6
  <2>2. \/ queue[j][k + 1].case \in Covered(i)
        \/ \E f \in l.list : f.id = k
    BY <1>6, <2>1 DEF Read
  <2>. QED
    BY <1>3, <2>1, <2>2
<1>. QED
  BY <1>4, <1>5, <1>6 DEF Read

LEMMA NextOffsets ==
  ASSUME "fresh" \notin Starts
  PROVE  TypeInv /\ TypeInv' /\ SyncInv /\ [Next]_vars => SyncInv'
<1>. SUFFICES ASSUME TypeInv, TypeInv', SyncInv, [Next]_vars PROVE SyncInv'
  OBVIOUS
<1>. USE DEF SyncInv
<1>1. /\ queue \in [Node -> Seq(File)] /\ queue' \in [Node -> Seq(File)]
      /\ loc \in [Node -> Local] /\ loc' \in [Node -> Local]
      /\ synced \in [Node -> [Node -> 0 .. MaxItems]]
      /\ synced' \in [Node -> [Node -> 0 .. MaxItems]]
      /\ looked \in [Node -> SUBSET Case] /\ missed \in [Node -> SUBSET Case]
      /\ MaxItems \in Nat /\ MaxItems \in Nat \ {0}
  BY SyncAssumption DEF TypeInv, TypeOK
<1>2. \A j \in Node : QueueKept(j)
  BY QueueSteps
<1>3. made \subseteq made'
  <2>1. CASE Node = {}
    BY <2>1 DEF TypeInv, TypeOK
  <2>2. CASE Node # {}
    BY <2>2, QueueSteps
  <2>. QED
    BY <2>1, <2>2
<1>4. \A j \in Node : CasesOf(j) \subseteq CasesOf(j)'
  BY <1>1, <1>2, CasesKept
<1>5. \A j \in Node : Len(queue[j]) \in Nat /\ Len(queue'[j]) \in Nat
  BY <1>1
<1>6. UnmadeInv'
  BY <1>2, <1>3 DEF UnmadeInv, QueueKept
<1>7. FromInv'
  <2>. SUFFICES ASSUME NEW i \in Node, NEW j \in Node, NEW k \in 1 .. Len(queue'[j]),
                       queue'[j][k].from = i
                PROVE  queue'[j][k].case \in CasesOf(i)'
    BY DEF FromInv
  <2>1. CASE k \in 1 .. Len(queue[j])
    BY <1>2, <1>4, <2>1 DEF QueueKept, FromInv
  <2>2. CASE k \notin 1 .. Len(queue[j])
    <3>1. k > Len(queue[j])
      BY <1>5, <2>2
    <3>. QED
      BY <1>2, <1>4, <3>1 DEF QueueKept
  <2>. QED
    BY <2>1, <2>2
<1>8. \A i \in Node : \/ Covered(i) \subseteq Covered(i)'
                      \/ loc'[i].at = "start" /\ \A j \in Node : synced'[i][j] = 0
  BY <1>4, SeenSteps DEF Covered
<1>9. ASSUME NEW i \in Node, loc'[i].at = "import"
      PROVE  Read(queue'[loc'[i].dir], Covered(i)', loc'[i])
  <2>1. Covered(i) \subseteq Covered(i)'
    BY <1>8, <1>9
  <2>2. CASE loc'[i] = loc[i]
    <3>1. loc[i].dir \in Node
      BY <1>9, <2>2 DEF TypeInv, TypeOK, ControlInv, Placed
    <3>2. Read(queue[loc[i].dir], Covered(i), loc[i])
      BY <1>9, <2>2 DEF ListInv
    <3>3. loc[i] \in Local
      BY <1>1
    <3>4. Read(queue'[loc[i].dir], Covered(i)', loc[i])
      BY <1>1, <1>2, <2>1, <3>1, <3>2, <3>3, ReadKept
    <3>. QED
      BY <2>2, <3>4
  <2>3. CASE ScanReads(i) /\ queue' = queue /\ looked' = looked /\ loc[i].at = "scan"
    <3>. DEFINE j == loc[i].dir
                n == synced[i][j]
    <3>1. j \in Node
      BY <2>3 DEF TypeInv, TypeOK, ControlInv, Placed
    <3>2. /\ loc'[i].next = n /\ loc'[i].list = NewFiles(j, n) /\ loc'[i].dir = j
      BY <1>1, <2>3, MovesTo DEF ScanReads, Loc
    <3>3. missed'[i] = missed[i] \cup Gaps(j, n)
      BY <1>1, <2>3 DEF ScanReads
    <3>4. /\ n <= Len(queue[j]) /\ n \in Nat
          /\ \A k \in 0 .. Len(queue[j]) - 1 :
               k < n => queue[j][k + 1].case \in Covered(i)
      BY <1>1, <3>1 DEF OffInv
    <3>. HIDE DEF n
    <3>5. \A f \in NewFiles(j, n) : \E k \in Present(j) :
             k >= n /\ f = [id |-> k, case |-> queue[j][k + 1].case]
      BY DEF NewFiles, Listed
    <3>6. Present(j) \subseteq 0 .. Len(queue[j]) - 1
      BY <1>1, <1>5, <3>1 DEF Present, Id
    <3>7. \A f \in NewFiles(j, n) : f.id < Len(queue[j]) /\ queue[j][f.id + 1].case = f.case
      BY <1>5, <3>1, <3>5, <3>6
    <3>8. ASSUME NEW k \in 0 .. Len(queue[j]) - 1,
                 k < n \/ \E f \in NewFiles(j, n) : k < f.id
          PROVE  \/ queue[j][k + 1].case \in Covered(i)'
                 \/ \E f \in NewFiles(j, n) : f.id = k
      <4>1. CASE k < n
        BY <2>1, <3>4, <4>1
      <4>2. CASE ~(k < n) /\ k \in Present(j)
        <5>1. NewFiles(j, n) = Listed(j, {m \in Present(j) : m >= n})
          BY <3>8, <4>2 DEF NewFiles
        <5>2. k >= n
          BY <1>5, <3>1, <3>4, <4>2
        <5>3. [id |-> k, case |-> queue[j][k + 1].case] \in NewFiles(j, n)
          BY <4>2, <5>1, <5>2 DEF Listed
        <5>. QED
          BY <5>3
      <4>3. CASE ~(k < n) /\ k \notin Present(j)
        <5>1. k \in n .. Len(queue[j]) - 1
          BY <1>5, <3>1, <3>4, <4>3
        <5>2. queue[j][k + 1].case \in Gaps(j, n)
          BY <4>3, <5>1 DEF Gaps
        <5>. QED
          BY <3>3, <5>2 DEF Covered
      <4>. QED
        BY <4>1, <4>2, <4>3
    <3>. HIDE DEF j
    <3>9. Read(queue'[j], Covered(i)', loc'[i])
      BY <2>3, <3>2, <3>4, <3>7, <3>8 DEF Read
    <3>. QED
      BY <3>2, <3>9
  <2>4. ASSUME NEW f \in loc[i].list, \A g \in loc[i].list : f.id <= g.id,
               loc[i].at = "import",
               ImportMisses(i, f) \/ ImportKnows(i, f) \/ ImportRuns(i, f)
        PROVE  Read(queue'[loc'[i].dir], Covered(i)', loc'[i])
    <3>. DEFINE j == loc[i].dir
    <3>1. j \in Node
      BY <2>4 DEF TypeInv, TypeOK, ControlInv, Placed
    <3>2. Passes(i, f)
      BY <2>4 DEF ImportMisses, ImportKnows, ImportRuns
    <3>3. /\ loc'[i].next = loc[i].next + 1 /\ loc'[i].list = loc[i].list \ {f}
          /\ loc'[i].dir = j
      <4>. DEFINE r == Loc(loc[i].at, loc[i].todo, loc[i].dir, loc[i].list \ {f},
                           loc[i].next + 1, loc[i].max, loc[i].some, loc[i].entries)
      <4>1. r.next = loc[i].next + 1 /\ r.list = loc[i].list \ {f} /\ r.dir = j
        BY DEF Loc
      <4>2. Moves(i, r)
        BY <3>2 DEF Passes
      <4>. HIDE DEF r
      <4>3. loc'[i] = r
        BY <1>1, <4>2, MovesTo
      <4>. QED
        BY <4>1, <4>3
    <3>4. Read(queue[j], Covered(i), loc[i])
      BY <2>4 DEF ListInv
    <3>5. loc[i] \in Local
      BY <1>1
    <3>6. /\ loc[i].next \in Nat /\ \A g \in loc[i].list : g.id \in Nat
          /\ f.id \in Nat /\ loc[i].next <= f.id /\ f.id < Len(queue[j])
          /\ queue[j][f.id + 1].case = f.case
      <4>1. \A g \in loc[i].list : g.id \in Id
        BY <3>5, LocalFields
      <4>2. \A g \in loc[i].list : g.id \in Nat
        BY <1>1, <4>1 DEF Id
      <4>3. loc[i].next <= f.id
        BY <2>4 DEF TypeInv, ControlInv, Placed
      <4>. QED
        BY <3>4, <3>5, <4>2, <4>3, LocalFields DEF Read
    <3>7. f.case \in Covered(i)'
      <4>1. CASE ImportMisses(i, f)
        BY <1>1, <4>1 DEF ImportMisses, Covered
      <4>2. CASE ImportRuns(i, f)
        BY <1>1, <4>2 DEF ImportRuns, Covered
      <4>3. CASE ImportKnows(i, f)
        <5>1. queue[j][f.id + 1].from = i
          BY <4>3 DEF ImportKnows
        <5>2. f.id + 1 \in 1 .. Len(queue[j])
          BY <1>5, <3>1, <3>6
        <5>3. f.case \in CasesOf(i)
          BY <3>1, <3>6, <5>1, <5>2 DEF FromInv
        <5>. QED
          BY <1>4, <5>3 DEF Covered
      <4>. QED
        BY <2>4, <4>1, <4>2, <4>3
    <3>8. Read(queue[j], Covered(i), loc[i]) => LET l == loc[i] IN
             \A k \in 0 .. Len(queue[j]) - 1 :
                (k < l.next \/ \E g \in l.list : k < g.id) =>
                   \/ queue[j][k + 1].case \in Covered(i)
                   \/ \E g \in l.list : g.id = k
      BY DEF Read
    <3>. HIDE DEF j
    <3>9. /\ Len(queue[j]) \in Nat /\ Len(queue'[j]) \in Nat
          /\ Len(queue[j]) <= Len(queue'[j])
          /\ \A k \in 0 .. Len(queue[j]) - 1 : queue'[j][k + 1].case = queue[j][k + 1].case
      BY <1>2, <1>5, <3>1 DEF QueueKept
    <3>10. loc[i].next + 1 <= Len(queue'[j])
      BY <3>6, <3>9
    <3>11. \A g \in loc[i].list \ {f} :
              g.id < Len(queue'[j]) /\ queue'[j][g.id + 1].case = g.case
      BY <3>4, <3>6, <3>9 DEF Read
    <3>12. ASSUME NEW k \in 0 .. Len(queue'[j]) - 1,
                  k < loc[i].next + 1 \/ \E g \in loc[i].list \ {f} : k < g.id
           PROVE  \/ queue'[j][k + 1].case \in Covered(i)'
                  \/ \E g \in loc[i].list \ {f} : g.id = k
      <4>1. k \in 0 .. Len(queue[j]) - 1
        BY <3>4, <3>6, <3>9, <3>12 DEF Read
      <4>2. CASE k = f.id
        BY <3>6, <3>7, <3>9, <4>1, <4>2
      <4>3. CASE k # f.id
        <5>1. k < loc[i].next \/ \E g \in loc[i].list : k < g.id
          <6>1. CASE k < loc[i].next + 1
            BY <3>6, <4>3, <6>1
          <6>2. CASE \E g \in loc[i].list \ {f} : k < g.id
            BY <6>2
          <6>. QED
            BY <3>12, <6>1, <6>2
        <5>2. \/ queue[j][k + 1].case \in Covered(i)
              \/ \E g \in loc[i].list : g.id = k
          BY <3>4, <3>8, <4>1, <5>1
        <5>. QED
          BY <2>1, <3>9, <4>1, <4>3, <5>2
      <4>. QED
        BY <4>2, <4>3
    <3>13. Read(queue'[j], Covered(i)', loc'[i])
      BY <3>3, <3>10, <3>11, <3>12 DEF Read
    <3>. QED
      BY <3>3, <3>13
  <2>. QED
    BY <1>9, <2>2, <2>3, <2>4, PlaceSteps
<1>10. ListInv'
  BY <1>9 DEF ListInv
<1>11. ASSUME NEW i \in Node, NEW j \in Node
       PROVE  /\ synced'[i][j] <= Len(queue'[j])
              /\ \A k \in 0 .. Len(queue'[j]) - 1 :
                    k < synced'[i][j] => queue'[j][k + 1].case \in Covered(i)'
  <2>1. /\ Len(queue[j]) \in Nat /\ Len(queue'[j]) \in Nat
        /\ Len(queue[j]) <= Len(queue'[j])
        /\ \A k \in 0 .. Len(queue[j]) - 1 : queue'[j][k + 1].case = queue[j][k + 1].case
    BY <1>2, <1>5 DEF QueueKept
  <2>2. CASE synced'[i][j] = 0
    BY <2>1, <2>2
  <2>3. CASE synced'[i][j] # 0 /\ synced'[i][j] = synced[i][j]
    <3>1. Covered(i) \subseteq Covered(i)'
      BY <1>8, <2>3
    <3>2. /\ synced[i][j] <= Len(queue[j]) /\ synced[i][j] \in Nat
          /\ \A k \in 0 .. Len(queue[j]) - 1 :
               k < synced[i][j] => queue[j][k + 1].case \in Covered(i)
      BY <1>1 DEF OffInv
    <3>3. \A k \in 0 .. Len(queue'[j]) - 1 :
            k < synced[i][j] => k \in 0 .. Len(queue[j]) - 1
      BY <2>1, <3>2
    <3>4. synced'[i][j] <= Len(queue'[j])
      BY <2>1, <2>3, <3>2
    <3>. QED
      BY <2>1, <2>3, <3>1, <3>2, <3>3, <3>4
  <2>4. CASE /\ loc[i].at = "import" /\ loc[i].list = {} /\ loc[i].dir = j
             /\ synced'[i][j] = loc[i].next
             /\ queue' = queue /\ looked' = looked /\ missed' = missed
    <3>1. Read(queue[j], Covered(i), loc[i])
      BY <2>4 DEF ListInv
    <3>2. Covered(i)' = Covered(i)
      BY <2>4 DEF Covered, CasesOf
    <3>. QED
      BY <2>4, <3>1, <3>2 DEF Read
  <2>. QED
    BY <2>2, <2>3, <2>4, OffsetSteps
<1>12. OffInv'
  BY <1>11 DEF OffInv
<1>. QED
  BY <1>6, <1>7, <1>10, <1>12

\* The offset in .synced skips no file and counts no file that is yet to come,
\* wherever the sessions of an instance end, as long as they resume in place
\* (sync_fuzzers).
THEOREM OffsetsCorrect ==
  ASSUME "fresh" \notin Starts
  PROVE  Spec => []OffsetsSound
<1>1. Init => SyncInv
  <2>. SUFFICES ASSUME Init PROVE SyncInv
    OBVIOUS
  <2>1. /\ queue = [i \in Node |-> <<>>] /\ Len(<<>>) = 0
        /\ synced = [i \in Node |-> [j \in Node |-> 0]]
        /\ loc = [i \in Node |-> At("off")] /\ At("off").at = "off"
    BY DEF Init, At
  <2>2. UnmadeInv /\ FromInv /\ ListInv
    BY <2>1 DEF UnmadeInv, FromInv, ListInv
  <2>3. OffInv
    BY <2>1 DEF OffInv
  <2>. QED
    BY <2>2, <2>3 DEF SyncInv
<1>2. TypeInv /\ SyncInv => OffsetsSound
  <2>. SUFFICES ASSUME TypeInv, SyncInv PROVE OffsetsSound
    OBVIOUS
  <2>1. /\ made \subseteq Node /\ queue \in [Node -> Seq(File)]
        /\ synced \in [Node -> [Node -> 0 .. MaxItems]] /\ MaxItems \in Nat
    BY SyncAssumption DEF TypeInv, TypeOK
  <2>2. ASSUME NEW i \in made, NEW j \in made
        PROVE  Accepted(i, j) \subseteq looked[i] \cup missed[i] \cup CasesOf(i)
    <3>. SUFFICES ASSUME NEW k \in DOMAIN queue[j] \cap 1 .. synced[i][j]
                  PROVE  queue[j][k].case \in Covered(i)
      BY DEF Accepted, Covered
    <3>1. /\ i \in Node /\ j \in Node /\ k \in 1 .. Len(queue[j])
          /\ Len(queue[j]) \in Nat /\ synced[i][j] \in Nat
      BY <2>1
    <3>2. k - 1 \in 0 .. Len(queue[j]) - 1 /\ k - 1 < synced[i][j] /\ (k - 1) + 1 = k
      BY <3>1
    <3>3. queue[j][(k - 1) + 1].case \in Covered(i)
      BY <3>1, <3>2 DEF SyncInv, OffInv
    <3>. QED
      BY <3>2, <3>3
  <2>3. CountWithinQueue
    BY <2>1 DEF SyncInv, OffInv, ListInv, Read, CountWithinQueue
  <2>. QED
    BY <2>2, <2>3 DEF OffsetsSound, AcceptedLooked
<1>. QED
  BY InitType, NextType, NextOffsets, <1>1, <1>2, PTL DEF Spec
=============================================================================
