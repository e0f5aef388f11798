--------------------------- MODULE SwamTreeProofs ---------------------------
(***************************************************************************)
(* What the mutators of the explore stage keep, for any seed and any       *)
(* bounds.                                                                 *)
(***************************************************************************)
EXTENDS SwamTree, SequenceTheorems, TLAPS

-----------------------------------------------------------------------------
(* An arena: the nodes 1 .. m, whose children are given by c.              *)

Arena(c, m) == m \in Nat /\ m <= MaxNodes /\ c \in [Node -> Seq(1 .. m)]
Shut(c, S) == \A n \in S : \A i \in 1 .. Len(c[n]) : c[n][i] \in S
Hangs(c, b, m) ==
    IF b = None THEN {}
    ELSE {n \in 1 .. m : \A S \in SUBSET ((1 .. m) \ {n}) : b \in S => ~Shut(c, S)}
Once(c, b, A) ==
    \A m, n \in A : \A i \in 1 .. Len(c[m]), j \in 1 .. Len(c[n]) :
        /\ c[m][i] # b
        /\ c[m][i] = c[n][j] => m = n /\ i = j

\* The places of an arena: their number and what they hold are of the types.
LEMMA ArenaPlaces ==
    ASSUME NEW c, NEW m, Arena(c, m)
    PROVE  /\ m \in Nat /\ m <= MaxNodes
           /\ \A n \in 1 .. m : Len(c[n]) \in Nat
           /\ \A n \in 1 .. m : \A i \in 1 .. Len(c[n]) : c[n][i] \in 1 .. m
<1>0. MaxNodes \in Nat
    BY TreeAssumption
<1>1. ASSUME NEW n \in 1 .. m
      PROVE  Len(c[n]) \in Nat /\ \A i \in 1 .. Len(c[n]) : c[n][i] \in 1 .. m
    <2>1. c[n] \in Seq(1 .. m)
        BY <1>0, <1>1 DEF Arena, Node
    <2>. QED  BY <2>1, LenProperties, ElementOfSeq
<1>. QED  BY <1>0, <1>1 DEF Arena

\* What hangs below the root holds the root and all its children.
LEMMA HangsShut ==
    ASSUME NEW c, NEW m, NEW b \in 1 .. m, Arena(c, m)
    PROVE  b \in Hangs(c, b, m) /\ Hangs(c, b, m) \subseteq 1 .. m /\ Shut(c, Hangs(c, b, m))
<1>0. b # None /\ m \in Nat
    BY ArenaPlaces DEF None
<1>1. Hangs(c, b, m) =
          {n \in 1 .. m : \A S \in SUBSET ((1 .. m) \ {n}) : b \in S => ~Shut(c, S)}
    BY <1>0 DEF Hangs
<1>2. ASSUME NEW n \in Hangs(c, b, m), NEW i \in 1 .. Len(c[n]), c[n][i] \notin Hangs(c, b, m)
      PROVE  FALSE
    <2>0. n \in 1 .. m /\ c[n][i] \in 1 .. m
        BY <1>1, <1>2, ArenaPlaces
    <2>1. PICK S \in SUBSET ((1 .. m) \ {c[n][i]}) : b \in S /\ Shut(c, S)
        BY <1>1, <1>2, <2>0
    <2>2. n \in S
        <3>. SUFFICES ASSUME n \notin S  PROVE FALSE
            OBVIOUS
        <3>1. S \in SUBSET ((1 .. m) \ {n})
            BY <2>1
        <3>. QED  BY <3>1, <2>1, <1>1
    <2>. QED  BY <2>1, <2>2, <1>2 DEF Shut
<1>3. b \in Hangs(c, b, m)
    BY <1>1
<1>. QED  BY <1>1, <1>2, <1>3 DEF Shut

\* It is the least such set.
LEMMA HangsLeast ==
    ASSUME NEW c, NEW m, NEW b \in 1 .. m, Arena(c, m), NEW S \in SUBSET (1 .. m),
           b \in S, Shut(c, S)
    PROVE  Hangs(c, b, m) \subseteq S
<1>0. b # None /\ m \in Nat
    BY ArenaPlaces DEF None
<1>1. ASSUME NEW n \in Hangs(c, b, m), n \notin S  PROVE FALSE
    <2>1. S \in SUBSET ((1 .. m) \ {n})
        BY <1>1
    <2>. QED  BY <1>0, <1>1, <2>1 DEF Hangs
<1>. QED  BY <1>1

\* What stays when the arena c becomes d: a part K of the tree that holds the
\* parents of its members, when no set closed in d loses an edge within K.
LEMMA Keeps ==
    ASSUME NEW c, NEW m, NEW b \in 1 .. m, Arena(c, m),
           NEW d, NEW w, NEW e \in 1 .. w, Arena(d, w),
           NEW K, K \subseteq Hangs(c, b, m),
           \A n \in Hangs(c, b, m) : \A i \in 1 .. Len(c[n]) : c[n][i] \in K => n \in K,
           \A S \in SUBSET (1 .. w) : e \in S /\ Shut(d, S) =>
               /\ b \in K => b \in S
               /\ \A n \in K \cap S : \A i \in 1 .. Len(c[n]) : c[n][i] \in K => c[n][i] \in S
    PROVE  K \subseteq Hangs(d, e, w)
<1>. DEFINE A == Hangs(c, b, m)
            S == Hangs(d, e, w)
            T == (S \cap K) \cup (A \ K)
<1>1. b \in A /\ A \subseteq 1 .. m /\ Shut(c, A)
    BY HangsShut
<1>2. e \in S /\ S \subseteq 1 .. w /\ Shut(d, S)
    BY HangsShut
<1>3. T \in SUBSET (1 .. m) /\ b \in T
    BY <1>1, <1>2
<1>4. Shut(c, T)
    <2>. SUFFICES ASSUME NEW n \in T, NEW i \in 1 .. Len(c[n])  PROVE c[n][i] \in T
        BY DEF Shut
    <2>1. n \in A
        OBVIOUS
    <2>2. c[n][i] \in A
        BY <1>1, <2>1 DEF Shut
    <2>. QED  BY <1>2, <2>1, <2>2
<1>5. A \subseteq T
    <2>. HIDE DEF T
    <2>. QED  BY <1>3, <1>4, HangsLeast
<1>. QED  BY <1>5

-----------------------------------------------------------------------------
(* A mutation: a place in the tree is given a new expression.              *)

\* The nodes D, which are new or had been q, hold only one another and what q
\* held, each of them once, and not their top t.
Regrown(c, q, d, D, t) ==
    \A n \in D : \A i \in 1 .. Len(d[n]) :
        /\ d[n][i] # t
        /\ d[n][i] \in D \/ \E j \in 1 .. Len(c[q]) : d[n][i] = c[q][j]
        /\ \A o \in D : \A j \in 1 .. Len(d[o]) : d[n][i] = d[o][j] => n = o /\ i = j

\* The k-th child q of p is replaced by d[p][k]; Q is {q} if q stays below it.
Graft(c, m, d, w, p, k, Q) ==
    /\ m <= w /\ Q \subseteq {c[p][k]}
    /\ \A n \in (1 .. m) \ {p, c[p][k]} : d[n] = c[n]
    /\ Len(d[p]) = Len(c[p])
    /\ \A i \in (1 .. Len(c[p])) \ {k} : d[p][i] = c[p][i]
    /\ d[p][k] \in (m + 1 .. w) \cup Q
    /\ Regrown(c, c[p][k], d, (m + 1 .. w) \cup Q, d[p][k])

\* The tree that is left is in the old one and the new nodes, and is a tree.
LEMMA GraftTree ==
    ASSUME NEW c, NEW m, NEW d, NEW w, Arena(c, m), Arena(d, w), NEW b \in 1 .. m,
           NEW H, H = Hangs(c, b, m), Once(c, b, H),
           NEW p \in H, NEW k \in 1 .. Len(c[p]), p # c[p][k],
           NEW Q, Graft(c, m, d, w, p, k, Q)
    PROVE  /\ Hangs(d, b, w) \subseteq (H \ {c[p][k]}) \cup (m + 1 .. w) \cup Q
           /\ Once(d, b, Hangs(d, b, w))
           /\ b \in 1 .. w
<1>. DEFINE q == c[p][k]
            D == (m + 1 .. w) \cup Q
            B == (H \ {q}) \cup D
            t == d[p][k]
<1>0. /\ m \in Nat /\ w \in Nat /\ m <= w /\ b \in 1 .. w
      /\ b \in H /\ H \subseteq 1 .. m /\ Shut(c, H)
      /\ Q \subseteq {q}
    BY HangsShut, ArenaPlaces DEF Graft
<1>1. q \in H /\ q # b
    BY <1>0 DEF Shut, Once
<1>2. p \in B /\ b \in B /\ B \subseteq 1 .. w
    BY <1>0, <1>1
<1>3. ASSUME NEW n \in B, n \notin D
      PROVE  /\ n \in H /\ n # q
             /\ Len(d[n]) = Len(c[n])
             /\ \A i \in 1 .. Len(d[n]) : ~(n = p /\ i = k) => d[n][i] = c[n][i]
    <2>1. n \in H /\ n # q /\ n \in 1 .. m
        BY <1>0, <1>3
    <2>2. CASE n = p
        BY <2>1, <2>2 DEF Graft
    <2>3. CASE n # p
        BY <2>1, <2>3 DEF Graft
    <2>. QED  BY <2>1, <2>2, <2>3
<1>4. ASSUME NEW n \in B, n \notin D, NEW i \in 1 .. Len(d[n]), ~(n = p /\ i = k)
      PROVE  /\ d[n][i] = c[n][i] /\ d[n][i] \in H /\ d[n][i] # q /\ d[n][i] # b
             /\ \A j \in 1 .. Len(c[q]) : d[n][i] # c[q][j]
    <2>1. n \in H /\ n # q /\ i \in 1 .. Len(c[n]) /\ d[n][i] = c[n][i]
        BY <1>3, <1>4
    <2>2. c[n][i] \in H
        BY <2>1, <1>0 DEF Shut
    <2>3. c[n][i] # q /\ c[n][i] # b
        BY <2>1, <1>4, <1>0 DEF Once
    <2>4. \A j \in 1 .. Len(c[q]) : c[n][i] # c[q][j]
        BY <2>1, <1>1 DEF Once
    <2>. QED  BY <2>1, <2>2, <2>3, <2>4
<1>5. t \in D /\ t # b
    BY <1>0, <1>1 DEF Graft
<1>6. ASSUME NEW n \in D, NEW i \in 1 .. Len(d[n])
      PROVE  /\ d[n][i] # t
             /\ d[n][i] \in D \/ \E j \in 1 .. Len(c[q]) : d[n][i] = c[q][j]
             /\ \A o \in D : \A j \in 1 .. Len(d[o]) : d[n][i] = d[o][j] => n = o /\ i = j
    BY DEF Graft, Regrown
<1>7. ASSUME NEW n \in D, NEW i \in 1 .. Len(d[n])
      PROVE  d[n][i] \in B /\ d[n][i] # b
    <2>1. CASE d[n][i] \in D
        BY <2>1, <1>0, <1>1
    <2>2. CASE \E j \in 1 .. Len(c[q]) : d[n][i] = c[q][j]
        <3>1. PICK j \in 1 .. Len(c[q]) : d[n][i] = c[q][j]
            BY <2>2
        <3>2. c[q][j] \in H /\ c[q][j] # b /\ c[q][j] # q
            BY <1>0, <1>1, SMTT(30), ZenonT(60) DEF Shut, Once
        <3>. QED  BY <3>1, <3>2
    <2>. QED  BY <2>1, <2>2, <1>6
<1>8. Shut(d, B)
    <2>. SUFFICES ASSUME NEW n \in B, NEW i \in 1 .. Len(d[n])  PROVE d[n][i] \in B
        BY DEF Shut
    <2>1. CASE n \in D
        BY <2>1, <1>7
    <2>2. CASE n = p /\ i = k
        BY <2>2, <1>5
    <2>3. CASE n \notin D /\ ~(n = p /\ i = k)
        BY <2>3, <1>4
    <2>. QED  BY <2>1, <2>2, <2>3
<1>9. p \notin D
    BY <1>0
<1>10. ASSUME NEW x \in H, x # q  PROVE x \notin D
    BY <1>0, <1>10
<1>11. Once(d, b, B)
    <2>. HIDE DEF B, D, q, t
    <2>. SUFFICES ASSUME NEW n \in B, NEW o \in B, NEW i \in 1 .. Len(d[n]), NEW j \in 1 .. Len(d[o])
                  PROVE  /\ d[n][i] # b
                         /\ d[n][i] = d[o][j] => n = o /\ i = j
        BY DEF Once
    <2>0. d[p][k] = t
        BY DEF t
    <2>1. d[n][i] # b
        BY <1>4, <1>5, <1>7, <2>0
    <2>2. CASE n \in D /\ o \in D
        BY <2>1, <2>2, <1>6
    <2>3. CASE n \in D /\ o = p /\ j = k
        BY <2>1, <2>3, <1>6, <2>0
    <2>4. CASE n = p /\ i = k /\ o \in D
        BY <2>1, <2>4, <1>6, <2>0
    <2>5. ASSUME NEW x \in B, NEW y \in B, NEW u \in 1 .. Len(d[x]), NEW v \in 1 .. Len(d[y]),
                 x \in D, y \notin D, ~(y = p /\ v = k)
          PROVE  d[x][u] # d[y][v]
        <3>1. d[y][v] \notin D
            BY <2>5, <1>4, <1>10
        <3>2. \A l \in 1 .. Len(c[q]) : d[y][v] # c[q][l]
            BY <2>5, <1>4
        <3>. QED  BY <2>5, <3>1, <3>2, <1>6
    <2>6. ASSUME NEW y \in B, NEW v \in 1 .. Len(d[y]), y \notin D, ~(y = p /\ v = k)
          PROVE  d[y][v] # t
        BY <2>6, <1>4, <1>5, <1>10
    <2>7. CASE n \notin D /\ ~(n = p /\ i = k) /\ o \notin D /\ ~(o = p /\ j = k)
        BY <2>7, <1>3, <1>4 DEF Once
    <2>8. CASE n \in D /\ o \notin D /\ ~(o = p /\ j = k)
        BY <2>1, <2>8, <2>5
    <2>9. CASE o \in D /\ n \notin D /\ ~(n = p /\ i = k)
        BY <2>1, <2>9, <2>5
    <2>10. CASE n = p /\ i = k /\ o \notin D
        BY <2>1, <2>10, <2>6, <2>0
    <2>11. CASE o = p /\ j = k /\ n \notin D
        BY <2>1, <2>11, <2>6, <2>0
    <2>. QED  BY <2>1, <2>2, <2>3, <2>4, <2>7, <2>8, <2>9, <2>10, <2>11
<1>12. Hangs(d, b, w) \subseteq B
    <2>. HIDE DEF B
    <2>. QED  BY <1>0, <1>2, <1>8, HangsLeast
<1>13. Once(d, b, Hangs(d, b, w))
    BY <1>12, <1>11 DEF Once
<1>. QED  BY <1>0, <1>12, <1>13

\* What the walk has opened (U) and what it has ahead (Y): everything but the
\* root is held by an opened node.
Open(c, b, H, U, Y) ==
    /\ U \subseteq H /\ U \cap Y = {}
    /\ \A x \in U \cup Y : x = b \/ \E n \in U : \E i \in 1 .. Len(c[n]) : c[n][i] = x

\* In a tree, nothing else holds them, and all of them are in it.
LEMMA OpenUp ==
    ASSUME NEW c, NEW m, Arena(c, m), NEW b \in 1 .. m, NEW H, H = Hangs(c, b, m),
           Once(c, b, H), NEW U, NEW Y, Open(c, b, H, U, Y)
    PROVE  /\ Y \subseteq H
           /\ \A n \in H : \A i \in 1 .. Len(c[n]) : c[n][i] \in U \cup Y => n \in U
<1>1. b \in H /\ Shut(c, H)
    BY HangsShut
<1>2. ASSUME NEW x \in Y  PROVE x \in H
    <2>1. CASE x = b
        BY <2>1, <1>1
    <2>2. CASE \E n \in U : \E i \in 1 .. Len(c[n]) : c[n][i] = x
        <3>1. PICK n \in U : \E i \in 1 .. Len(c[n]) : c[n][i] = x
            BY <2>2
        <3>. QED  BY <3>1, <1>1 DEF Open, Shut
    <2>. QED  BY <2>1, <2>2 DEF Open
<1>3. ASSUME NEW n \in H, NEW i \in 1 .. Len(c[n]), c[n][i] \in U \cup Y  PROVE n \in U
    <2>1. c[n][i] # b
        BY DEF Once
    <2>2. PICK o \in U : \E j \in 1 .. Len(c[o]) : c[o][j] = c[n][i]
        BY <1>3, <2>1 DEF Open
    <2>3. o \in H
        BY DEF Open
    <2>. QED  BY <2>2, <2>3 DEF Once
<1>. QED  BY <1>2, <1>3

\* What is open and ahead after a graft whose top is t.
StillOpen(d, b, G, D, t, U, X) ==
    /\ Open(d, b, G, U, X) /\ t \in G
    /\ \A n \in D : /\ n \notin U \cup X
                    /\ \A i \in 1 .. Len(d[n]) : d[n][i] \notin U \cup X
    /\ Open(d, b, G, U, X \cup {t})
    /\ \A Y : (\A y \in Y : \E i \in 1 .. Len(d[t]) : d[t][i] = y)
              => Open(d, b, G, U \cup {t}, X \cup Y)

\* A graft below an opened node p: what was open and ahead stays in the tree and
\* out of the new nodes; the new top is ahead, or open with its children ahead.
LEMMA GraftOpen ==
    ASSUME NEW c, NEW m, NEW d, NEW w, Arena(c, m), Arena(d, w), NEW b \in 1 .. m,
           NEW H, H = Hangs(c, b, m), Once(c, b, H),
           NEW p \in H, NEW k \in 1 .. Len(c[p]), p # c[p][k],
           NEW Q, Graft(c, m, d, w, p, k, Q),
           NEW U, NEW X, c[p][k] \notin X, p \in U, Open(c, b, H, U, X \cup {c[p][k]})
    PROVE  StillOpen(d, b, Hangs(d, b, w), (m + 1 .. w) \cup Q, d[p][k], U, X)
<1>. DEFINE q == c[p][k]
            D == (m + 1 .. w) \cup Q
            G == Hangs(d, b, w)
            t == d[p][k]
            K == U \cup X
<1>0. /\ m \in Nat /\ w \in Nat /\ m <= w /\ b \in 1 .. w
      /\ b \in H /\ H \subseteq 1 .. m /\ Shut(c, H)
      /\ Q \subseteq {q}
    BY HangsShut, ArenaPlaces DEF Graft
<1>1. /\ X \subseteq H /\ U \subseteq H /\ q \notin U
      /\ \A n \in H : \A i \in 1 .. Len(c[n]) : c[n][i] \in K \cup {q} => n \in U
    <2>1. X \cup {q} \subseteq H
          /\ \A n \in H : \A i \in 1 .. Len(c[n]) : c[n][i] \in U \cup (X \cup {q}) => n \in U
        BY OpenUp
    <2>. QED  BY <2>1 DEF Open
<1>2. b \in G /\ Shut(d, G)
    BY <1>0, HangsShut
<1>3. ASSUME NEW n \in U, NEW i \in 1 .. Len(c[n]), c[n][i] # q
      PROVE  i \in 1 .. Len(d[n]) /\ d[n][i] = c[n][i]
    <2>1. n \in 1 .. m /\ n # q
        BY <1>0, <1>1
    <2>2. CASE n = p
        BY <2>2, <1>3 DEF Graft
    <2>3. CASE n # p
        BY <2>1, <2>3 DEF Graft
    <2>. QED  BY <2>2, <2>3
<1>4. K \subseteq G
    <2>1. K \subseteq H
        BY <1>1
    <2>2. \A n \in H : \A i \in 1 .. Len(c[n]) : c[n][i] \in K => n \in K
        BY <1>1
    <2>3. ASSUME NEW S \in SUBSET (1 .. w), b \in S, Shut(d, S),
                 NEW n \in K \cap S, NEW i \in 1 .. Len(c[n]), c[n][i] \in K
          PROVE  c[n][i] \in S
        <3>1. n \in U /\ c[n][i] # q
            BY <2>1, <2>3, <1>1
        <3>. QED  BY <3>1, <1>3, <2>3 DEF Shut
    <2>. HIDE DEF K
    <2>. QED  BY <1>0, <2>1, <2>2, <2>3, Keeps
<1>5. t \in D /\ p \in G /\ k \in 1 .. Len(d[p])
    BY <1>4 DEF Graft
<1>6. t \in G
    BY <1>2, <1>5 DEF Shut
<1>7. ASSUME NEW x \in K
      PROVE  x = b \/ \E n \in U : \E i \in 1 .. Len(d[n]) : d[n][i] = x
    <2>0. x # q
        BY <1>1
    <2>1. CASE x # b
        <3>1. PICK n \in U : \E i \in 1 .. Len(c[n]) : c[n][i] = x
            BY <2>1 DEF Open
        <3>. QED  BY <3>1, <2>0, <1>3
    <2>. QED  BY <2>1
<1>8. \E n \in U : \E i \in 1 .. Len(d[n]) : d[n][i] = t
    BY <1>5
<1>9. ASSUME NEW n \in D
      PROVE  n \notin K /\ \A i \in 1 .. Len(d[n]) : d[n][i] \notin K
    <2>1. ASSUME NEW x \in D  PROVE x \notin K
        BY <1>0, <1>1
    <2>2. ASSUME NEW i \in 1 .. Len(d[n]), d[n][i] \in K  PROVE FALSE
        <3>1. PICK j \in 1 .. Len(c[q]) : d[n][i] = c[q][j]
            BY <2>1, <2>2, SMTT(30), ZenonT(60) DEF Graft, Regrown
        <3>2. q \in H
            BY <1>0 DEF Shut
        <3>. QED  BY <1>1, <2>2, <3>1, <3>2
    <2>. QED  BY <2>1, <2>2
<1>10. U \cap X = {}
    BY DEF Open
<1>11. Open(d, b, G, U, X)
    BY <1>4, <1>7, <1>10 DEF Open
<1>12. Open(d, b, G, U, X \cup {t})
    <2>1. t \notin U
        BY <1>5, <1>9
    <2>. HIDE DEF G, t, D
    <2>. QED  BY <1>4, <1>7, <1>8, <1>10, <2>1 DEF Open
<1>13. ASSUME NEW Y, \A y \in Y : \E i \in 1 .. Len(d[t]) : d[t][i] = y
       PROVE  Open(d, b, G, U \cup {t}, X \cup Y)
    <2>1. t \notin X
        BY <1>5, <1>9
    <2>2. t \notin Y
        <3>1. Regrown(c, q, d, D, t)
            BY DEF Graft
        <3>2. \A i \in 1 .. Len(d[t]) : d[t][i] # t
            <4>. HIDE DEF t, D, q
            <4>. QED  BY <1>5, <3>1 DEF Regrown
        <3>. QED  BY <3>2, <1>13
    <2>3. Y \cap U = {}
        BY <1>5, <1>9, <1>13
    <2>. HIDE DEF G, t, D
    <2>4. (U \cup {t}) \subseteq G /\ (U \cup {t}) \cap (X \cup Y) = {}
        BY <1>4, <1>6, <1>10, <2>1, <2>2, <2>3
    <2>5. ASSUME NEW x \in (U \cup {t}) \cup (X \cup Y)
          PROVE  x = b \/ \E n \in U \cup {t} : \E i \in 1 .. Len(d[n]) : d[n][i] = x
        BY <1>7, <1>8, <1>13
    <2>. QED  BY <2>4, <2>5 DEF Open
<1>. HIDE DEF q, D, G, t, K
<1>14. StillOpen(d, b, G, D, t, U, X)
    BY <1>6, <1>9, <1>11, <1>12, <1>13 DEF K, StillOpen
<1>. QED  BY <1>14 DEF D, G, t

\* What the walk has seen (s) has its children seen or ahead (Y), unless it is
\* still in the worklist (L).
Sown(c, b, H, s, L, Y) ==
    /\ b \in s \cup L
    /\ \A n \in (H \cap s) \ L : \A i \in 1 .. Len(c[n]) : c[n][i] \in s \cup Y

\* What is seen keeps its children seen or ahead after a graft whose new nodes
\* count as seen.
LEMMA GraftSown ==
    ASSUME NEW c, NEW m, NEW d, NEW w, Arena(c, m), Arena(d, w), NEW b \in 1 .. m,
           NEW H, H = Hangs(c, b, m), Once(c, b, H),
           NEW p \in H, NEW k \in 1 .. Len(c[p]), p # c[p][k],
           NEW Q, Graft(c, m, d, w, p, k, Q), d[p][k] \in m + 1 .. w,
           NEW s, NEW L, NEW R, Sown(c, b, H, s, L, L \cup R \cup {c[p][k]}),
           NEW M, L \subseteq M,
           \A n \in ((m + 1 .. w) \cup Q) \ M : \A i \in 1 .. Len(d[n]) :
               d[n][i] \in s \cup (m + 1 .. w) \cup M \cup R
    PROVE  Sown(d, b, Hangs(d, b, w), s \cup (m + 1 .. w), M, M \cup R)
<1>. DEFINE q == c[p][k]
            N == m + 1 .. w
            G == Hangs(d, b, w)
<1>0. /\ m \in Nat /\ w \in Nat /\ m <= w /\ H \subseteq 1 .. m
      /\ Q \subseteq {q} /\ q \in H
    BY HangsShut, ArenaPlaces DEF Graft, Shut
<1>1. G \subseteq (H \ {q}) \cup N \cup Q
    BY GraftTree
<1>2. ASSUME NEW n \in (G \cap (s \cup N)) \ M, NEW i \in 1 .. Len(d[n])
      PROVE  d[n][i] \in (s \cup N) \cup (M \cup R)
    <2>1. CASE n \in N \cup Q
        BY <2>1, <1>2
    <2>2. CASE n = p /\ i = k
        BY <2>2
    <2>3. CASE n \notin N \cup Q /\ ~(n = p /\ i = k)
        <3>1. n \in H /\ n # q /\ n \in s /\ n \notin L /\ n \in 1 .. m
            BY <1>0, <1>1, <1>2, <2>3
        <3>2. i \in 1 .. Len(c[n]) /\ d[n][i] = c[n][i]
            <4>1. CASE n = p
                BY <4>1, <2>3 DEF Graft
            <4>2. CASE n # p
                BY <4>2, <3>1 DEF Graft
            <4>. QED  BY <4>1, <4>2
        <3>3. c[n][i] # q
            BY <2>3, <3>1, <3>2 DEF Once
        <3>4. c[n][i] \in s \cup (L \cup R \cup {q})
            BY <3>1, <3>2 DEF Sown
        <3>. QED  BY <3>2, <3>3, <3>4
    <2>. QED  BY <2>1, <2>2, <2>3
<1>3. b \in (s \cup N) \cup M
    BY DEF Sown
<1>. HIDE DEF q, N, G
<1>4. Sown(d, b, G, s \cup N, M, M \cup R)
    BY <1>2, <1>3 DEF Sown
<1>. QED  BY <1>4 DEF N, G

\* The two together, at a place (p, k) of the tree.
Grafted(c, m, d, w, b, p, k, Q) ==
    /\ Arena(c, m) /\ Arena(d, w) /\ b \in 1 .. m /\ Once(c, b, Hangs(c, b, m))
    /\ p \in Hangs(c, b, m) /\ k \in 1 .. Len(c[p]) /\ p # c[p][k]
    /\ Graft(c, m, d, w, p, k, Q)

\* GraftOpen for a graft given as one fact.
LEMMA GraftedOpen ==
    ASSUME NEW c, NEW m, NEW d, NEW w, NEW b, NEW p, NEW k, NEW Q, Grafted(c, m, d, w, b, p, k, Q),
           NEW U, NEW X, c[p][k] \notin X, p \in U,
           Open(c, b, Hangs(c, b, m), U, X \cup {c[p][k]})
    PROVE  StillOpen(d, b, Hangs(d, b, w), (m + 1 .. w) \cup Q, d[p][k], U, X)
<1>. DEFINE H == Hangs(c, b, m)
<1>1. /\ Arena(c, m) /\ Arena(d, w) /\ b \in 1 .. m /\ Once(c, b, H)
      /\ p \in H /\ k \in 1 .. Len(c[p]) /\ p # c[p][k]
      /\ Graft(c, m, d, w, p, k, Q)
    BY DEF Grafted
<1>2. Open(c, b, H, U, X \cup {c[p][k]})
    OBVIOUS
<1>3. H = Hangs(c, b, m)
    OBVIOUS
<1>. HIDE DEF H
<1>. QED  BY <1>1, <1>2, <1>3, GraftOpen, Zenon

Sows(c, m, d, w, b, p, k, Q, s, L, R, M) ==
    /\ Grafted(c, m, d, w, b, p, k, Q) /\ d[p][k] \in m + 1 .. w
    /\ Sown(c, b, Hangs(c, b, m), s, L, L \cup R \cup {c[p][k]}) /\ L \subseteq M
    /\ \A n \in ((m + 1 .. w) \cup Q) \ M : \A i \in 1 .. Len(d[n]) :
          d[n][i] \in s \cup (m + 1 .. w) \cup M \cup R

\* GraftSown for a graft given as one fact.
LEMMA GraftedSown ==
    ASSUME NEW c, NEW m, NEW d, NEW w, NEW b, NEW p, NEW k, NEW Q, NEW s, NEW L, NEW R, NEW M,
           Sows(c, m, d, w, b, p, k, Q, s, L, R, M)
    PROVE  Sown(d, b, Hangs(d, b, w), s \cup (m + 1 .. w), M, M \cup R)
<1>. DEFINE H == Hangs(c, b, m)
<1>1. /\ Arena(c, m) /\ Arena(d, w) /\ b \in 1 .. m /\ Once(c, b, H)
      /\ p \in H /\ k \in 1 .. Len(c[p]) /\ p # c[p][k]
      /\ Graft(c, m, d, w, p, k, Q)
    BY DEF Grafted, Sows
<1>2. /\ Sown(c, b, H, s, L, L \cup R \cup {c[p][k]}) /\ d[p][k] \in m + 1 .. w /\ L \subseteq M
      /\ \A n \in ((m + 1 .. w) \cup Q) \ M : \A i \in 1 .. Len(d[n]) :
            d[n][i] \in s \cup (m + 1 .. w) \cup M \cup R
    BY DEF Sows
<1>3. H = Hangs(c, b, m)
    OBVIOUS
<1>. HIDE DEF H
<1>. QED  BY <1>1, <1>2, <1>3, GraftSown, Zenon

\* The root is replaced by t; Q is {b} if it stays below it.
Crowned(c, m, d, w, b, t, Q) ==
    /\ Arena(c, m) /\ Arena(d, w) /\ b \in 1 .. m /\ Once(c, b, Hangs(c, b, m)) /\ m <= w
    /\ t \in m + 1 .. w /\ Q \subseteq {b}
    /\ \A n \in (1 .. m) \ {b} : d[n] = c[n]
    /\ Regrown(c, b, d, (m + 1 .. w) \cup Q, t)

\* What hangs below the new top is in the old tree and the new nodes, and is a
\* tree.
LEMMA CrownedTree ==
    ASSUME NEW c, NEW m, NEW d, NEW w, NEW b, NEW t, NEW Q, Crowned(c, m, d, w, b, t, Q)
    PROVE  /\ Hangs(d, t, w) \subseteq (Hangs(c, b, m) \ {b}) \cup (m + 1 .. w) \cup Q
           /\ Once(d, t, Hangs(d, t, w))
           /\ t \in Hangs(d, t, w) /\ Shut(d, Hangs(d, t, w))
<1>. DEFINE H == Hangs(c, b, m)
<1>a. /\ Arena(c, m) /\ Arena(d, w) /\ b \in 1 .. m /\ Once(c, b, H) /\ m <= w
      /\ t \in m + 1 .. w /\ Q \subseteq {b}
      /\ \A n \in (1 .. m) \ {b} : d[n] = c[n]
      /\ Regrown(c, b, d, (m + 1 .. w) \cup Q, t)
      /\ H = Hangs(c, b, m)
    BY DEF Crowned
<1>. HIDE DEF H
<1>. USE <1>a
<1>. DEFINE D == (m + 1 .. w) \cup Q
            B == (H \ {b}) \cup D
<1>0. /\ m \in Nat /\ w \in Nat /\ t \in 1 .. w
      /\ b \in H /\ H \subseteq 1 .. m /\ Shut(c, H)
    BY HangsShut, ArenaPlaces
<1>1. t \in D /\ t \in B /\ B \subseteq 1 .. w
    <2>1. 1 .. m \subseteq 1 .. w /\ m + 1 .. w \subseteq 1 .. w
        BY <1>0
    <2>. QED  BY <1>0, <2>1
<1>2. ASSUME NEW n \in B, n \notin D, NEW i \in 1 .. Len(d[n])
      PROVE  /\ n \in H /\ i \in 1 .. Len(c[n]) /\ d[n][i] = c[n][i]
             /\ d[n][i] \in H /\ d[n][i] # b
             /\ \A j \in 1 .. Len(c[b]) : d[n][i] # c[b][j]
    <2>1. n \in H /\ n # b /\ n \in 1 .. m
        BY <1>0, <1>2
    <2>2. d[n] = c[n]
        BY <2>1
    <2>3. c[n][i] \in H /\ c[n][i] # b
        BY <2>1, <2>2, <1>0 DEF Shut, Once
    <2>4. \A j \in 1 .. Len(c[b]) : c[n][i] # c[b][j]
        BY <2>1, <2>2, <1>0 DEF Once
    <2>. QED  BY <2>1, <2>2, <2>3, <2>4
<1>3. ASSUME NEW n \in D, NEW i \in 1 .. Len(d[n])
      PROVE  /\ d[n][i] # t
             /\ d[n][i] \in D \/ \E j \in 1 .. Len(c[b]) : d[n][i] = c[b][j]
             /\ \A o \in D : \A j \in 1 .. Len(d[o]) : d[n][i] = d[o][j] => n = o /\ i = j
    BY DEF Regrown
<1>4. ASSUME NEW n \in D, NEW i \in 1 .. Len(d[n])  PROVE d[n][i] \in B
    <2>1. CASE \E j \in 1 .. Len(c[b]) : d[n][i] = c[b][j]
        <3>1. PICK j \in 1 .. Len(c[b]) : d[n][i] = c[b][j]
            BY <2>1
        <3>2. c[b][j] \in H /\ c[b][j] # b
            BY <1>0 DEF Shut, Once
        <3>. QED  BY <3>1, <3>2
    <2>. QED  BY <2>1, <1>3
<1>5. ASSUME NEW x \in H, x # b  PROVE x \notin D /\ x # t
    BY <1>0, <1>5
<1>6. Shut(d, B)
    BY <1>2, <1>4, SMTT(30), ZenonT(60) DEF Shut
<1>7. Once(d, t, B)
    <2>. HIDE DEF B, D
    <2>. SUFFICES ASSUME NEW n \in B, NEW o \in B, NEW i \in 1 .. Len(d[n]), NEW j \in 1 .. Len(d[o])
                  PROVE  /\ d[n][i] # t
                         /\ d[n][i] = d[o][j] => n = o /\ i = j
        BY DEF Once
    <2>1. d[n][i] # t
        BY <1>2, <1>3, <1>5
    <2>2. CASE n \in D /\ o \in D
        BY <2>1, <2>2, <1>3
    <2>3. ASSUME NEW x \in B, NEW y \in B, NEW u \in 1 .. Len(d[x]), NEW v \in 1 .. Len(d[y]),
                 x \in D, y \notin D
          PROVE  d[x][u] # d[y][v]
        <3>1. d[y][v] \notin D
            BY <2>3, <1>2, <1>5
        <3>2. \A l \in 1 .. Len(c[b]) : d[y][v] # c[b][l]
            BY <2>3, <1>2
        <3>. QED  BY <2>3, <3>1, <3>2, <1>3, SMTT(30), ZenonT(60)
    <2>4. CASE n \in D /\ o \notin D
        BY <2>1, <2>4, <2>3
    <2>5. CASE n \notin D /\ o \in D
        BY <2>1, <2>5, <2>3
    <2>6. CASE n \notin D /\ o \notin D
        BY <2>1, <2>6, <1>2 DEF Once
    <2>. QED  BY <2>2, <2>4, <2>5, <2>6
<1>8. Hangs(d, t, w) \subseteq B
    <2>. HIDE DEF B
    <2>. QED  BY <1>0, <1>1, <1>6, HangsLeast
<1>9. Once(d, t, Hangs(d, t, w))
    BY <1>7, <1>8 DEF Once
<1>10. t \in Hangs(d, t, w) /\ Shut(d, Hangs(d, t, w))
    BY <1>0, HangsShut
<1>. QED  BY <1>0, <1>8, <1>9, <1>10

\* A new leaf between two children of p.
Spliced(c, m, d, b, p, k, U, X) ==
    /\ Arena(c, m) /\ Arena(d, m + 1) /\ b \in 1 .. m /\ Once(c, b, Hangs(c, b, m))
    /\ p \in Hangs(c, b, m) /\ k \in 1 .. Len(c[p])
    /\ \A n \in (1 .. m) \ {p} : d[n] = c[n]
    /\ Len(d[m + 1]) = 0 /\ Len(d[p]) = Len(c[p]) + 1
    /\ \A i \in 1 .. Len(c[p]) + 1 :
          d[p][i] = IF i < k THEN c[p][i] ELSE IF i = k THEN m + 1 ELSE c[p][i - 1]
    /\ Open(c, b, Hangs(c, b, m), U, X)

\* It stays a tree, with the same nodes open and ahead.
LEMMA SplicedTree ==
    ASSUME NEW c, NEW m, NEW d, NEW b, NEW p, NEW k, NEW U, NEW X, Spliced(c, m, d, b, p, k, U, X)
    PROVE  /\ Once(d, b, Hangs(d, b, m + 1))
           /\ Open(d, b, Hangs(d, b, m + 1), U, X)
           /\ \A s, L, Y : Sown(c, b, Hangs(c, b, m), s, L, Y) =>
                  Sown(d, b, Hangs(d, b, m + 1), s \cup {m + 1}, L, Y)
<1>. DEFINE H == Hangs(c, b, m)
<1>a. /\ Arena(c, m) /\ Arena(d, m + 1) /\ b \in 1 .. m /\ Once(c, b, H)
      /\ p \in H /\ k \in 1 .. Len(c[p])
      /\ \A n \in (1 .. m) \ {p} : d[n] = c[n]
      /\ Len(d[m + 1]) = 0 /\ Len(d[p]) = Len(c[p]) + 1
      /\ \A i \in 1 .. Len(c[p]) + 1 :
            d[p][i] = IF i < k THEN c[p][i] ELSE IF i = k THEN m + 1 ELSE c[p][i - 1]
      /\ Open(c, b, H, U, X)
      /\ H = Hangs(c, b, m)
    BY DEF Spliced
<1>. HIDE DEF H
<1>. USE <1>a
<1>. DEFINE B == H \cup {m + 1}
            G == Hangs(d, b, m + 1)
            was(n, i) == IF n = p /\ i > k THEN i - 1 ELSE i
<1>0. /\ m \in Nat /\ b \in 1 .. m + 1 /\ b # m + 1 /\ m + 1 \notin H
      /\ b \in H /\ H \subseteq 1 .. m /\ Shut(c, H) /\ B \subseteq 1 .. m + 1
      /\ Len(c[p]) \in Nat
    BY HangsShut, ArenaPlaces
<1>1. ASSUME NEW n \in B, NEW i \in 1 .. Len(d[n])
      PROVE  \/ n = p /\ i = k /\ d[n][i] = m + 1
             \/ /\ n \in H /\ ~(n = p /\ i = k) /\ was(n, i) \in 1 .. Len(c[n])
                /\ d[n][i] = c[n][was(n, i)]
    <2>1. CASE n = m + 1
        BY <2>1
    <2>2. CASE n \in H /\ n # p
        <3>1. d[n] = c[n]
            BY <2>2, <1>0
        <3>. QED  BY <2>2, <3>1
    <2>3. CASE n = p
        <3>1. i \in 1 .. Len(c[p]) + 1
            BY <2>3
        <3>2. d[p][i] = IF i < k THEN c[p][i] ELSE IF i = k THEN m + 1 ELSE c[p][i - 1]
            BY <3>1
        <3>3. i < k => i \in 1 .. Len(c[p])
            BY <3>1, <1>0
        <3>4. i > k => i - 1 \in 1 .. Len(c[p])
            BY <3>1, <1>0
        <3>5. i < k \/ i = k \/ i > k
            BY <3>1, <1>0
        <3>6. i > k => ~(i < k) /\ i # k
            BY <3>1, <1>0
        <3>. QED  BY <2>3, <3>2, <3>3, <3>4, <3>5, <3>6
    <2>. QED  BY <2>1, <2>2, <2>3
<1>. HIDE DEF was
<1>2. ASSUME NEW n \in H, NEW i \in 1 .. Len(c[n])
      PROVE  \E j \in 1 .. Len(d[n]) : d[n][j] = c[n][i]
    <2>1. CASE n # p
        <3>1. d[n] = c[n]
            BY <2>1, <1>0
        <3>. QED  BY <3>1
    <2>2. CASE n = p /\ i < k
        <3>1. i \in 1 .. Len(d[p]) /\ d[p][i] = c[p][i]
            BY <2>2, <1>0
        <3>. QED  BY <2>2, <3>1
    <2>3. CASE n = p /\ i >= k
        <3>0. i \in 1 .. Len(c[p])
            BY <2>3
        <3>2. i + 1 \in 1 .. Len(c[p]) + 1 /\ ~(i + 1 < k) /\ i + 1 # k /\ (i + 1) - 1 = i
            BY <2>3, <3>0, <1>0
        <3>1. i + 1 \in 1 .. Len(d[p]) /\ d[p][i + 1] = c[p][i]
            BY <3>2
        <3>. QED  BY <2>3, <3>1
    <2>. QED  BY <2>1, <2>2, <2>3, <1>0
<1>3. Shut(d, B)
    <2>1. ASSUME NEW n \in B, NEW i \in 1 .. Len(d[n])  PROVE d[n][i] \in B
        <3>1. CASE d[n][i] = m + 1
            BY <3>1
        <3>2. CASE n \in H /\ was(n, i) \in 1 .. Len(c[n]) /\ d[n][i] = c[n][was(n, i)]
            BY <3>2, <1>0 DEF Shut
        <3>. QED  BY <1>1, <3>1, <3>2
    <2>. QED  BY <2>1 DEF Shut
<1>4. Once(d, b, B)
    <2>. SUFFICES ASSUME NEW n \in B, NEW o \in B, NEW i \in 1 .. Len(d[n]), NEW j \in 1 .. Len(d[o])
                  PROVE  /\ d[n][i] # b
                         /\ d[n][i] = d[o][j] => n = o /\ i = j
        BY DEF Once
    <2>1. \A x \in H : \A y \in 1 .. Len(c[x]) : c[x][y] \in 1 .. m /\ c[x][y] # m + 1
        BY <1>0 DEF Shut
    <2>2. \A x, z \in H : \A y \in 1 .. Len(c[x]), u \in 1 .. Len(c[z]) :
              c[x][y] # b /\ (c[x][y] = c[z][u] => x = z /\ y = u)
        BY DEF Once
    <2>3. d[n][i] # b
        <3>1. CASE d[n][i] = m + 1
            BY <3>1, <1>0
        <3>2. CASE n \in H /\ was(n, i) \in 1 .. Len(c[n]) /\ d[n][i] = c[n][was(n, i)]
            BY <3>2, <2>2
        <3>. QED  BY <1>1, <3>1, <3>2
    <2>4. ASSUME d[n][i] = d[o][j]  PROVE n = o /\ i = j
        <3>. HIDE DEF B
        <3>1. CASE n = p /\ i = k
            BY <3>1, <1>1, <2>1, <2>4, SMTT(30), ZenonT(60)
        <3>2. CASE o = p /\ j = k
            BY <3>2, <1>1, <2>1, <2>4, SMTT(30), ZenonT(60)
        <3>3. CASE ~(n = p /\ i = k) /\ ~(o = p /\ j = k)
            <4>1. /\ n \in H /\ was(n, i) \in 1 .. Len(c[n]) /\ d[n][i] = c[n][was(n, i)]
                  /\ o \in H /\ was(o, j) \in 1 .. Len(c[o]) /\ d[o][j] = c[o][was(o, j)]
                BY <3>3, <1>1
            <4>2. n = o /\ was(n, i) = was(o, j)
                <5>1. c[n][was(n, i)] = c[o][was(o, j)]
                    BY <4>1, <2>4
                <5>. QED  BY <4>1, <5>1, <2>2, SMTT(30), ZenonT(60)
            <4>3. i \in Int /\ j \in Int /\ k \in Int
                OBVIOUS
            <4>. QED  BY <3>3, <4>2, <4>3 DEF was
        <3>. QED  BY <3>1, <3>2, <3>3
    <2>. QED  BY <2>3, <2>4
<1>5. G \subseteq B
    <2>. HIDE DEF B
    <2>1. b \in B
        BY <1>0 DEF B
    <2>. QED  BY <1>0, <1>3, <2>1, HangsLeast
<1>6. Once(d, b, G)
    BY <1>4, <1>5 DEF Once
<1>7. U \subseteq H /\ X \subseteq H
      /\ \A n \in H : \A i \in 1 .. Len(c[n]) : c[n][i] \in U \cup X => n \in U
    <2>1. X \subseteq H /\ \A n \in H : \A i \in 1 .. Len(c[n]) : c[n][i] \in U \cup X => n \in U
        BY OpenUp
    <2>. QED  BY <2>1 DEF Open
<1>8. U \subseteq G
    <2>1. ASSUME NEW S \in SUBSET (1 .. m + 1), b \in S, Shut(d, S),
                 NEW n \in U \cap S, NEW i \in 1 .. Len(c[n]), c[n][i] \in U
          PROVE  c[n][i] \in S
        <3>1. n \in H /\ n \in S
            BY <1>7
        <3>2. PICK j \in 1 .. Len(d[n]) : d[n][j] = c[n][i]
            BY <1>2, <3>1
        <3>. QED  BY <3>1, <3>2, <2>1 DEF Shut
    <2>2. \A n \in H : \A i \in 1 .. Len(c[n]) : c[n][i] \in U => n \in U
        BY <1>7
    <2>. QED  BY <1>0, <1>7, <2>1, <2>2, Keeps
<1>9. Open(d, b, G, U, X)
    <2>1. ASSUME NEW x \in U \cup X, x # b
          PROVE  \E n \in U : \E i \in 1 .. Len(d[n]) : d[n][i] = x
        <3>1. PICK n \in U : \E i \in 1 .. Len(c[n]) : c[n][i] = x
            BY <2>1 DEF Open
        <3>2. n \in H
            BY <1>7
        <3>3. PICK i \in 1 .. Len(c[n]) : c[n][i] = x
            BY <3>1
        <3>4. \E j \in 1 .. Len(d[n]) : d[n][j] = x
            BY <1>2, <3>2, <3>3
        <3>. QED  BY <3>4
    <2>2. U \cap X = {}
        BY DEF Open
    <2>. HIDE DEF G
    <2>. QED  BY <1>8, <2>1, <2>2 DEF Open
<1>10. ASSUME NEW s, NEW L, NEW Y, Sown(c, b, H, s, L, Y)
       PROVE  Sown(d, b, G, s \cup {m + 1}, L, Y)
    <2>1. ASSUME NEW n \in (G \cap (s \cup {m + 1})) \ L, NEW i \in 1 .. Len(d[n])
          PROVE  d[n][i] \in (s \cup {m + 1}) \cup Y
        <3>1. n \in B /\ n # m + 1 /\ n \in s
            BY <1>5, <2>1
        <3>2. CASE d[n][i] = m + 1
            BY <3>2
        <3>3. CASE n \in H /\ was(n, i) \in 1 .. Len(c[n]) /\ d[n][i] = c[n][was(n, i)]
            <4>1. n \in (H \cap s) \ L
                BY <2>1, <3>1, <3>3
            <4>2. c[n][was(n, i)] \in s \cup Y
                BY <1>10, <3>3, <4>1 DEF Sown
            <4>. QED  BY <3>3, <4>2
        <3>. QED  BY <3>1, <1>1, <3>2, <3>3
    <2>. HIDE DEF G
    <2>. QED  BY <1>10, <2>1 DEF Sown
<1>. QED  BY <1>5, <1>6, <1>9, <1>10
-----------------------------------------------------------------------------
(* The arena of the module.                                                *)

Wrote == AllKinds \cup {"local"}

\* The conjuncts of TypeOK about the expressions.
ArenaOK ==
    /\ made \in Node /\ kind \in [Node -> Wrote] /\ kids \in [Node -> Seq(1 .. made)]
    /\ \A n \in 1 .. made : kind[n] # "local" => Arity(kind[n], Len(kids[n]))

\* ArenaOK as an arena.
LEMMA ArenaOKs ==
    ASSUME ArenaOK
    PROVE  /\ Arena(kids, made) /\ made \in Nat /\ MaxNodes \in Nat /\ made <= MaxNodes
           /\ \A n \in 1 .. made : /\ kids[n] \in Seq(1 .. made) /\ Len(kids[n]) \in Nat
                                   /\ \A i \in 1 .. Len(kids[n]) : kids[n][i] \in 1 .. made
<1>0. MaxNodes \in Nat
    BY TreeAssumption
<1>1. made \in Nat /\ made <= MaxNodes
    BY <1>0 DEF ArenaOK, Node
<1>2. Arena(kids, made)
    BY <1>1 DEF Arena, ArenaOK
<1>3. \A n \in 1 .. made : kids[n] \in Seq(1 .. made)
    BY <1>0, <1>1 DEF ArenaOK, Node
<1>. QED  BY <1>0, <1>1, <1>2, <1>3, ArenaPlaces

\* What Edit does to each node.
LEMMA EditIs ==
    ASSUME ArenaOK, NEW new, NEW given, Len(new) \in Nat, Edit(new, given)
    PROVE  /\ made' = made + Len(new) /\ made' \in Node /\ made' \in Nat /\ made' <= MaxNodes
           /\ seen' = seen \cup (made + 1 .. made')
           /\ \A j \in 1 .. Len(new) : /\ made + j \in made + 1 .. made'
                                       /\ kind'[made + j] = new[j].k
                                       /\ kids'[made + j] = new[j].c
           /\ \A n \in made + 1 .. made' : n - made \in 1 .. Len(new)
           /\ \A n \in 1 .. made : /\ kind'[n] = kind[n]
                                   /\ kids'[n] = IF n \in DOMAIN given THEN given[n] ELSE kids[n]
           /\ 1 .. made \subseteq 1 .. made' /\ made + 1 .. made' \subseteq 1 .. made'
           /\ DOMAIN kind' = Node /\ DOMAIN kids' = Node
<1>0. made \in Nat /\ made >= 1 /\ MaxNodes \in Nat
    BY ArenaOKs DEF ArenaOK, Node
<1>1. /\ made' = made + Len(new) /\ made' <= MaxNodes
      /\ seen' = seen \cup (made + 1 .. made')
      /\ kind' = [n \in Node |-> IF n \in made + 1 .. made' THEN new[n - made].k ELSE kind[n]]
      /\ kids' = [n \in Node |-> IF n \in made + 1 .. made' THEN new[n - made].c
                                 ELSE IF n \in DOMAIN given THEN given[n] ELSE kids[n]]
    BY DEF Edit
<1>2. made' \in Nat /\ made' \in Node
    BY <1>0, <1>1 DEF Node
<1>3. ASSUME NEW j \in 1 .. Len(new)
      PROVE  /\ made + j \in made + 1 .. made'
             /\ kind'[made + j] = new[j].k
             /\ kids'[made + j] = new[j].c
    <2>1. made + j \in Node /\ made + j \in made + 1 .. made' /\ (made + j) - made = j
        BY <1>0, <1>1 DEF Node
    <2>. QED  BY <1>1, <2>1
<1>4. ASSUME NEW n \in 1 .. made
      PROVE  /\ kind'[n] = kind[n]
             /\ kids'[n] = IF n \in DOMAIN given THEN given[n] ELSE kids[n]
    <2>1. n \in Node /\ n \notin made + 1 .. made'
        BY <1>0, <1>1 DEF Node
    <2>. QED  BY <1>1, <2>1
<1>5. \A n \in made + 1 .. made' : n - made \in 1 .. Len(new)
    BY <1>0, <1>1
<1>6. 1 .. made \subseteq 1 .. made' /\ made + 1 .. made' \subseteq 1 .. made'
    BY <1>0, <1>1
<1>7. DOMAIN kind' = Node /\ DOMAIN kids' = Node
    BY <1>1
<1>. QED  BY <1>1, <1>2, <1>3, <1>4, <1>5, <1>6, <1>7

\* An arena stays one when what it is given fits the kinds.
LEMMA EditTypes ==
    ASSUME ArenaOK, NEW new, NEW given, Len(new) \in Nat, Edit(new, given),
           DOMAIN given \subseteq 1 .. made,
           \A j \in 1 .. Len(new) :
               /\ new[j].k \in Wrote /\ new[j].c \in Seq(1 .. made')
               /\ new[j].k # "local" => Arity(new[j].k, Len(new[j].c)),
           \A n \in DOMAIN given :
               /\ given[n] \in Seq(1 .. made')
               /\ kind[n] # "local" => Arity(kind[n], Len(given[n]))
    PROVE  ArenaOK' /\ (seen \subseteq 1 .. made => seen' \subseteq 1 .. made')
<1>. DEFINE N == made + 1 .. made'
            W == 1 .. made'
<1>1. /\ made' = made + Len(new) /\ made' \in Node /\ made' \in Nat /\ made' <= MaxNodes
      /\ seen' = seen \cup N
      /\ \A j \in 1 .. Len(new) : kind'[made + j] = new[j].k /\ kids'[made + j] = new[j].c
      /\ \A n \in N : n - made \in 1 .. Len(new)
      /\ \A n \in 1 .. made : /\ kind'[n] = kind[n]
                              /\ kids'[n] = IF n \in DOMAIN given THEN given[n] ELSE kids[n]
      /\ 1 .. made \subseteq W /\ N \subseteq W
    BY EditIs
<1>2. made \in Nat /\ MaxNodes \in Nat
    BY ArenaOKs
<1>3. ASSUME NEW n \in N
      PROVE  /\ kind'[n] = new[n - made].k /\ kids'[n] = new[n - made].c
             /\ n - made \in 1 .. Len(new)
    <2>1. made + (n - made) = n
        BY <1>1, <1>2
    <2>. QED  BY <1>1, <2>1
<1>4. ASSUME NEW n \in 1 .. made'
      PROVE  /\ kind'[n] \in Wrote /\ kids'[n] \in Seq(W)
             /\ kind'[n] # "local" => Arity(kind'[n], Len(kids'[n]))
    <2>1. CASE n \in N
        BY <2>1, <1>3
    <2>2. CASE n \in 1 .. made /\ n \in DOMAIN given
        <3>1. n \in Node
            BY <2>2, ArenaOKs DEF Node
        <3>. QED  BY <2>2, <3>1, <1>1 DEF ArenaOK
    <2>3. CASE n \in 1 .. made /\ n \notin DOMAIN given
        <3>1. n \in Node
            BY <2>3, ArenaOKs DEF Node
        <3>2. kids'[n] = kids[n] /\ kind'[n] = kind[n]
            BY <2>3, <1>1
        <3>3. kids[n] \in Seq(1 .. made)
            BY <3>1 DEF ArenaOK
        <3>4. kids[n] \in Seq(W)
            BY <3>3, <1>1, SeqMonotonic
        <3>. QED  BY <2>3, <3>1, <3>2, <3>4 DEF ArenaOK
    <2>4. n \in N \/ n \in 1 .. made
        BY <1>1, <1>2
    <2>. QED  BY <2>1, <2>2, <2>3, <2>4
<1>5. ASSUME NEW n \in Node, n \notin 1 .. made'
      PROVE  kind'[n] \in Wrote /\ kids'[n] \in Seq(W)
    <2>1. n \notin N /\ n \notin DOMAIN given
        BY <1>1, <1>5
    <2>2. kind'[n] = kind[n] /\ kids'[n] = kids[n]
        BY <2>1 DEF Edit
    <2>3. kids[n] \in Seq(1 .. made) /\ kind[n] \in Wrote
        BY DEF ArenaOK
    <2>. QED  BY <2>2, <2>3, <1>1, SeqMonotonic
<1>6. kind' \in [Node -> Wrote]
    <2>1. kind' = [n \in Node |-> kind'[n]]
        BY DEF Edit
    <2>. QED  BY <2>1, <1>4, <1>5
<1>7. kids' \in [Node -> Seq(W)]
    <2>1. kids' = [n \in Node |-> kids'[n]]
        BY DEF Edit
    <2>. QED  BY <2>1, <1>4, <1>5
<1>8. ArenaOK'
    BY <1>1, <1>4, <1>6, <1>7 DEF ArenaOK
<1>. QED  BY <1>1, <1>8
\* What existing nodes are given when the arena grows to w nodes fits them.
Gives(given, w) ==
    /\ DOMAIN given \subseteq 1 .. made
    /\ \A n \in DOMAIN given : /\ given[n] \in Seq(1 .. w)
                               /\ kind[n] # "local" => Arity(kind[n], Len(given[n]))
Fits(k, c, w) == k \in Wrote /\ c \in Seq(1 .. w) /\ (k # "local" => Arity(k, Len(c)))

\* The nodes are kept, but for what some are given.
Kept(given) ==
    /\ ArenaOK' /\ (seen \subseteq 1 .. made => seen' \subseteq 1 .. made')
    /\ seen' = seen \cup (made + 1 .. made') /\ 1 .. made \subseteq 1 .. made'
    /\ \A n \in 1 .. made : /\ kind'[n] = kind[n]
                            /\ kids'[n] = IF n \in DOMAIN given THEN given[n] ELSE kids[n]

\* Edit with no, one, two and three new nodes.
LEMMA EditNone ==
    ASSUME ArenaOK, NEW given, Gives(given, made), Edit(<<>>, given)
    PROVE  Kept(given) /\ made' = made
<1>. DEFINE new == <<>>
<1>1. Len(new) = 0 /\ made \in Nat
    BY ArenaOKs
<1>2. Edit(new, given) /\ Len(new) \in Nat
    BY <1>1
<1>. HIDE DEF new
<1>3. /\ made' = made + Len(new) /\ seen' = seen \cup (made + 1 .. made')
      /\ \A n \in 1 .. made : /\ kind'[n] = kind[n]
                              /\ kids'[n] = IF n \in DOMAIN given THEN given[n] ELSE kids[n]
      /\ 1 .. made \subseteq 1 .. made'
    BY <1>2, EditIs
<1>4. made' = made
    BY <1>1, <1>3
<1>5. \A j \in 1 .. Len(new) : FALSE
    BY <1>1
<1>6. ArenaOK' /\ (seen \subseteq 1 .. made => seen' \subseteq 1 .. made')
    BY <1>2, <1>4, <1>5, EditTypes DEF Gives
<1>. QED  BY <1>3, <1>4, <1>6 DEF Kept

\* One new expression.
LEMMA EditOne ==
    ASSUME ArenaOK, NEW given, Gives(given, made + 1), NEW k, NEW c,
           Fits(k, c, made + 1),
           Edit(<<Expr(k, c)>>, given)
    PROVE  /\ Kept(given) /\ made' = made + 1
           /\ kind'[made + 1] = k /\ kids'[made + 1] = c /\ made + 1 \in 1 .. made'
<1>. DEFINE new == <<Expr(k, c)>>
<1>1. /\ Len(new) = 1 /\ made \in Nat
      /\ new[1].k = k /\ new[1].c = c
    BY ArenaOKs DEF Expr
<1>2. Edit(new, given) /\ Len(new) \in Nat
    BY <1>1
<1>. HIDE DEF new
<1>3. /\ made' = made + Len(new) /\ seen' = seen \cup (made + 1 .. made')
      /\ \A j \in 1 .. Len(new) : kind'[made + j] = new[j].k /\ kids'[made + j] = new[j].c
      /\ \A n \in 1 .. made : /\ kind'[n] = kind[n]
                              /\ kids'[n] = IF n \in DOMAIN given THEN given[n] ELSE kids[n]
      /\ 1 .. made \subseteq 1 .. made'
    BY <1>2, EditIs
<1>4. made' = made + 1 /\ made + 1 \in 1 .. made + 1
    BY <1>1, <1>3
<1>5. 1 \in 1 .. Len(new) /\ \A j \in 1 .. Len(new) : j = 1
    BY <1>1
<1>6. ArenaOK' /\ (seen \subseteq 1 .. made => seen' \subseteq 1 .. made')
    <2>1. \A j \in 1 .. Len(new) :
              /\ new[j].k \in Wrote /\ new[j].c \in Seq(1 .. made')
              /\ new[j].k # "local" => Arity(new[j].k, Len(new[j].c))
        BY <1>1, <1>4, <1>5 DEF Fits
    <2>. QED  BY <1>2, <1>4, <2>1, EditTypes DEF Gives
<1>7. kind'[made + 1] = k /\ kids'[made + 1] = c /\ made + 1 \in 1 .. made'
    BY <1>1, <1>3, <1>4, <1>5
<1>. QED  BY <1>3, <1>4, <1>6, <1>7 DEF Kept

\* Two new expressions.
LEMMA EditTwo ==
    ASSUME ArenaOK, NEW given, Gives(given, made + 2), NEW k, NEW c, NEW l, NEW e,
           Fits(k, c, made + 2), Fits(l, e, made + 2),
           Edit(<<Expr(k, c), Expr(l, e)>>, given)
    PROVE  /\ Kept(given) /\ made' = made + 2
           /\ kind'[made + 1] = k /\ kids'[made + 1] = c /\ made + 1 \in 1 .. made'
           /\ kind'[made + 2] = l /\ kids'[made + 2] = e /\ made + 2 \in 1 .. made'
<1>. DEFINE new == <<Expr(k, c), Expr(l, e)>>
<1>1. /\ Len(new) = 2 /\ made \in Nat
      /\ new[1].k = k /\ new[1].c = c
      /\ new[2].k = l /\ new[2].c = e
    BY ArenaOKs DEF Expr
<1>2. Edit(new, given) /\ Len(new) \in Nat
    BY <1>1
<1>. HIDE DEF new
<1>3. /\ made' = made + Len(new) /\ seen' = seen \cup (made + 1 .. made')
      /\ \A j \in 1 .. Len(new) : kind'[made + j] = new[j].k /\ kids'[made + j] = new[j].c
      /\ \A n \in 1 .. made : /\ kind'[n] = kind[n]
                              /\ kids'[n] = IF n \in DOMAIN given THEN given[n] ELSE kids[n]
      /\ 1 .. made \subseteq 1 .. made'
    BY <1>2, EditIs
<1>4. made' = made + 2 /\ made + 1 \in 1 .. made + 2 /\ made + 2 \in 1 .. made + 2
    BY <1>1, <1>3
<1>5. 1 \in 1 .. Len(new) /\ 2 \in 1 .. Len(new) /\ \A j \in 1 .. Len(new) : j = 1 \/ j = 2
    BY <1>1
<1>6. ArenaOK' /\ (seen \subseteq 1 .. made => seen' \subseteq 1 .. made')
    <2>1. \A j \in 1 .. Len(new) :
              /\ new[j].k \in Wrote /\ new[j].c \in Seq(1 .. made')
              /\ new[j].k # "local" => Arity(new[j].k, Len(new[j].c))
        BY <1>1, <1>4, <1>5 DEF Fits
    <2>. QED  BY <1>2, <1>4, <2>1, EditTypes DEF Gives
<1>7. /\ kind'[made + 1] = k /\ kids'[made + 1] = c /\ made + 1 \in 1 .. made'
      /\ kind'[made + 2] = l /\ kids'[made + 2] = e /\ made + 2 \in 1 .. made'
    BY <1>1, <1>3, <1>4, <1>5
<1>. QED  BY <1>3, <1>4, <1>6, <1>7 DEF Kept

\* Three new expressions.
LEMMA EditThree ==
    ASSUME ArenaOK, NEW given, Gives(given, made + 3), NEW k, NEW c, NEW l, NEW e, NEW o, NEW f,
           Fits(k, c, made + 3), Fits(l, e, made + 3), Fits(o, f, made + 3),
           Edit(<<Expr(k, c), Expr(l, e), Expr(o, f)>>, given)
    PROVE  /\ Kept(given) /\ made' = made + 3
           /\ kind'[made + 1] = k /\ kids'[made + 1] = c /\ made + 1 \in 1 .. made'
           /\ kind'[made + 2] = l /\ kids'[made + 2] = e /\ made + 2 \in 1 .. made'
           /\ kind'[made + 3] = o /\ kids'[made + 3] = f /\ made + 3 \in 1 .. made'
<1>. DEFINE new == <<Expr(k, c), Expr(l, e), Expr(o, f)>>
<1>1. /\ Len(new) = 3 /\ made \in Nat
      /\ new[1].k = k /\ new[1].c = c
      /\ new[2].k = l /\ new[2].c = e
      /\ new[3].k = o /\ new[3].c = f
    BY ArenaOKs DEF Expr
<1>2. Edit(new, given) /\ Len(new) \in Nat
    BY <1>1
<1>. HIDE DEF new
<1>3. /\ made' = made + Len(new) /\ seen' = seen \cup (made + 1 .. made')
      /\ \A j \in 1 .. Len(new) : kind'[made + j] = new[j].k /\ kids'[made + j] = new[j].c
      /\ \A n \in 1 .. made : /\ kind'[n] = kind[n]
                              /\ kids'[n] = IF n \in DOMAIN given THEN given[n] ELSE kids[n]
      /\ 1 .. made \subseteq 1 .. made'
    BY <1>2, EditIs
<1>4. /\ made' = made + 3 /\ made + 1 \in 1 .. made + 3
      /\ made + 2 \in 1 .. made + 3 /\ made + 3 \in 1 .. made + 3
    BY <1>1, <1>3
<1>5. /\ 1 \in 1 .. Len(new) /\ 2 \in 1 .. Len(new) /\ 3 \in 1 .. Len(new)
      /\ \A j \in 1 .. Len(new) : j = 1 \/ j = 2 \/ j = 3
    BY <1>1
<1>6. ArenaOK' /\ (seen \subseteq 1 .. made => seen' \subseteq 1 .. made')
    <2>1. \A j \in 1 .. Len(new) :
              /\ new[j].k \in Wrote /\ new[j].c \in Seq(1 .. made')
              /\ new[j].k # "local" => Arity(new[j].k, Len(new[j].c))
        BY <1>1, <1>4, <1>5 DEF Fits
    <2>. QED  BY <1>2, <1>4, <2>1, EditTypes DEF Gives
<1>7. /\ kind'[made + 1] = k /\ kids'[made + 1] = c /\ made + 1 \in 1 .. made'
      /\ kind'[made + 2] = l /\ kids'[made + 2] = e /\ made + 2 \in 1 .. made'
      /\ kind'[made + 3] = o /\ kids'[made + 3] = f /\ made + 3 \in 1 .. made'
    BY <1>1, <1>3, <1>4, <1>5
<1>. QED  BY <1>3, <1>4, <1>6, <1>7 DEF Kept

-----------------------------------------------------------------------------
(* Types and control.                                                      *)

RootMutators == {"operators", "call", "recursive"}
Walking == pc \in {"list", "root", "child"}

StageOK ==
    /\ pc \in {"stage", "funcs", "list", "root", "child", "done"}
    /\ mutator \in Mutators /\ max_cnt \in 1 .. MaxCnt /\ max_ins \in 1 .. MaxCnt
    /\ stage_cur \in Nat /\ cur_cnt \in Nat /\ cur_ins \in Nat
    /\ funcs \in 0 .. Imports + 1 /\ root \in BOOLEAN
WalkOK ==
    /\ list \in Seq(1 .. made) /\ child \in Seq(1 .. made) /\ seen \subseteq 1 .. made
    /\ el \in 0 .. made /\ ind \in 1 .. Len(child) + 1

\* What is walked when: the body first, and the root mutators treat it before
\* its children.
ControlInv ==
    /\ body \in 0 .. made
    /\ pc \notin {"root", "child"} => child = <<>>
    /\ ~Walking => list = <<>>
    /\ Walking => body # None
    /\ pc = "list" /\ root /\ mutator \in RootMutators => list = <<body>>
    /\ pc = "root" => /\ ind = 1 /\ list = <<>> /\ el = body /\ child = kids[el]
                      /\ mutator \in RootMutators
    /\ pc = "child" => el # None /\ (mutator \in RootMutators => root = FALSE)

\* TypeOK in these parts.
LEMMA TypeParts ==
    TypeOK <=> ArenaOK /\ StageOK /\ WalkOK /\ body \in 0 .. MaxNodes
BY DEF TypeOK, ArenaOK, StageOK, WalkOK, Wrote

TypeInv == ArenaOK /\ StageOK /\ WalkOK /\ ControlInv

\* The invariant implies TypeOK.
LEMMA TypeInvType ==
    TypeInv => TypeOK
<1>. SUFFICES ASSUME TypeInv  PROVE TypeOK
    OBVIOUS
<1>1. body \in 0 .. MaxNodes
    BY ArenaOKs DEF TypeInv, ControlInv
<1>. QED  BY <1>1, TypeParts DEF TypeInv

\* A sequence with another element at place i, if it has that place.
Put(s, i, e) == [s EXCEPT ![i] = e]

\* It is a sequence of the same length, with that element at that place.
LEMMA PutSeq ==
    ASSUME NEW S, NEW s \in Seq(S), NEW i, NEW e \in S
    PROVE  /\ Put(s, i, e) \in Seq(S)
           /\ Len(Put(s, i, e)) = Len(s)
           /\ i \in 1 .. Len(s) => Put(s, i, e)[i] = e
           /\ \A j \in 1 .. Len(s) : j # i => Put(s, i, e)[j] = s[j]
<1>0. Len(s) \in Nat /\ DOMAIN s = 1 .. Len(s) /\ s \in [1 .. Len(s) -> S]
    BY LenProperties
<1>1. CASE i \in 1 .. Len(s)
    BY <1>1, ExceptSeq DEF Put
<1>2. CASE i \notin 1 .. Len(s)
    <2>1. [s EXCEPT ![i] = e] = s
        BY <1>0, <1>2
    <2>. QED  BY <2>1, <1>2 DEF Put
<1>. QED  BY <1>1, <1>2

\* The seed has the types.
LEMMA InitTypes ==
    Init => TypeInv
<1>. SUFFICES ASSUME Init  PROVE TypeInv
    OBVIOUS
<1>0. /\ SeedNodes \in Nat /\ MaxNodes \in Nat /\ SeedNodes <= MaxNodes /\ Kinds \subseteq AllKinds
      /\ Imports \in Nat /\ MaxCnt \in Nat \ {0}
    BY TreeAssumption
<1>1. PICK n \in 1 .. SeedNodes : \E c \in Trees(n), k \in [1 .. n -> Kinds] :
          /\ \A i \in 1 .. n : Arity(k[i], Len(c[i]))
          /\ kind = [i \in Node |-> IF i <= n THEN k[i] ELSE "const"]
          /\ kids = [i \in Node |-> IF i <= n THEN c[i] ELSE <<>>]
          /\ made = n
    BY DEF Init
<1>2. PICK c \in Trees(n), k \in [1 .. n -> Kinds] :
          /\ \A i \in 1 .. n : Arity(k[i], Len(c[i]))
          /\ kind = [i \in Node |-> IF i <= n THEN k[i] ELSE "const"]
          /\ kids = [i \in Node |-> IF i <= n THEN c[i] ELSE <<>>]
          /\ made = n
    BY <1>1
<1>3. n \in Node /\ n \in Nat /\ 1 .. n \subseteq Node
    BY <1>0 DEF Node
<1>4. \A i \in Node : i <= n => i \in 1 .. n
    BY <1>3 DEF Node
<1>5. kind \in [Node -> Wrote]
    BY <1>0, <1>2, <1>4 DEF Wrote, AllKinds
<1>6. ASSUME NEW i \in 1 .. n  PROVE c[i] \in Seq(1 .. n)
    <2>1. c[i] \in UNION {[1 .. m -> 2 .. n] : m \in 0 .. n - 1}
        BY <1>2 DEF Trees
    <2>2. PICK m \in 0 .. n - 1 : c[i] \in [1 .. m -> 2 .. n]
        BY <2>1
    <2>3. m \in Nat /\ 2 .. n \subseteq 1 .. n
        BY <1>3
    <2>4. c[i] \in [1 .. m -> 1 .. n]
        BY <2>2, <2>3
    <2>. QED  BY <2>3, <2>4, SeqDef
<1>7. kids \in [Node -> Seq(1 .. made)]
    BY <1>2, <1>4, <1>6, EmptySeq
<1>8. ASSUME NEW i \in 1 .. made  PROVE kind[i] = k[i] /\ kids[i] = c[i]
    BY <1>2, <1>3
<1>9. ArenaOK
    BY <1>2, <1>3, <1>5, <1>7, <1>8 DEF ArenaOK
<1>10. /\ pc = "stage" /\ stage_cur = 0 /\ mutator = "call"
       /\ cur_cnt = 0 /\ max_cnt = 1 /\ cur_ins = 0 /\ max_ins = 1
       /\ funcs = 0 /\ list = <<>> /\ root = FALSE
       /\ el = None /\ child = <<>> /\ ind = 1 /\ seen = {}
       /\ body \in {1, None}
    BY DEF Init
<1>11. StageOK
    <2>1. 1 \in 1 .. MaxCnt /\ 0 \in 0 .. Imports + 1
        BY <1>0
    <2>2. "call" \in Mutators /\ FALSE \in BOOLEAN
        BY DEF Mutators
    <2>. QED  BY <1>10, <2>1, <2>2 DEF StageOK
<1>12. WalkOK
    <2>1. <<>> \in Seq(1 .. made) /\ Len(<<>>) = 0 /\ None \in 0 .. made
        BY <1>2, <1>3, EmptySeq DEF None
    <2>. QED  BY <1>10, <2>1 DEF WalkOK
<1>13. body \in 0 .. made
    BY <1>2, <1>3, <1>10 DEF None
<1>14. ControlInv
    BY <1>10, <1>13 DEF ControlInv, Walking
<1>. QED  BY <1>9, <1>11, <1>12, <1>14 DEF TypeInv

\* The steps that leave the expressions alone.
LEMMA StageTypes ==
    ASSUME TypeInv, Draw \/ NextFunc \/ WalkEnds \/ Return \/ Done
    PROVE  TypeInv' /\ UNCHANGED <<kind, kids, made, body>>
<1>0. ArenaOK /\ StageOK /\ WalkOK /\ ControlInv
    BY DEF TypeInv
<1>1. UNCHANGED <<kind, kids, made, body>>
    BY DEF Draw, NextFunc, WalkEnds, Return, Done, tree
<1>2. ArenaOK'
    BY <1>0, <1>1 DEF ArenaOK
<1>3. <<>> \in Seq(1 .. made) /\ Imports \in Nat /\ MaxCnt \in Nat \ {0} /\ made \in Nat
    BY EmptySeq, TreeAssumption, ArenaOKs, <1>0
<1>4. CASE Draw
    <2>1. /\ UNCHANGED <<stage_cur, cur_cnt, cur_ins, list, root, el, child, ind, seen>>
          /\ mutator' \in Mutators /\ max_cnt' \in 1 .. MaxCnt
          /\ max_ins' \in 1 .. MaxCnt \/ max_ins' \in {1}
          /\ funcs' \in {Imports, Imports + 1}
          /\ pc = "stage" /\ pc' = "funcs"
        BY <1>3, <1>4 DEF Draw
    <2>2. max_ins' \in 1 .. MaxCnt /\ funcs' \in 0 .. Imports + 1
        BY <2>1, <1>3
    <2>3. StageOK'
        BY <1>0, <2>1, <2>2 DEF StageOK
    <2>4. WalkOK'
        BY <1>0, <1>1, <2>1 DEF WalkOK
    <2>5. ControlInv'
        BY <1>0, <1>1, <2>1 DEF ControlInv, Walking
    <2>. QED  BY <1>1, <1>2, <2>3, <2>4, <2>5 DEF TypeInv
<1>5. CASE NextFunc
    <2>1. /\ UNCHANGED <<stage_cur, mutator, max_cnt, max_ins, cur_cnt, cur_ins, el, child, ind, seen>>
          /\ pc = "funcs" /\ funcs > 0 /\ funcs' = funcs - 1
          /\ \/ body # None /\ list' = <<body>> /\ root' = TRUE /\ pc' = "list"
             \/ UNCHANGED <<pc, list, root>>
        BY <1>5 DEF NextFunc, counts
    <2>2. funcs' \in 0 .. Imports + 1
        BY <2>1, <1>0, <1>3 DEF StageOK
    <2>3. StageOK'
        BY <1>0, <2>1, <2>2 DEF StageOK
    <2>4. CASE body # None /\ list' = <<body>> /\ root' = TRUE /\ pc' = "list"
        <3>1. body \in 1 .. made
            BY <1>0, <1>3, <2>4 DEF ControlInv, None
        <3>2. list' \in Seq(1 .. made)
            BY <2>4, <3>1
        <3>3. WalkOK'
            BY <1>0, <1>1, <2>1, <3>2 DEF WalkOK
        <3>4. ControlInv'
            BY <1>0, <1>1, <2>1, <2>4 DEF ControlInv, Walking
        <3>. QED  BY <1>1, <1>2, <2>3, <3>3, <3>4 DEF TypeInv
    <2>5. CASE UNCHANGED <<pc, list, root>>
        <3>1. WalkOK'
            BY <1>0, <1>1, <2>1, <2>5 DEF WalkOK
        <3>2. ControlInv'
            BY <1>0, <1>1, <2>1, <2>5 DEF ControlInv, Walking
        <3>. QED  BY <1>1, <1>2, <2>3, <3>1, <3>2 DEF TypeInv
    <2>. QED  BY <2>1, <2>4, <2>5
<1>6. CASE WalkEnds
    <2>1. /\ UNCHANGED <<stage_cur, mutator, max_cnt, max_ins, cur_cnt, cur_ins, funcs, list, el,
                         child, ind, seen>>
          /\ pc = "list" /\ list = <<>> /\ pc' = "funcs" /\ root' = FALSE
        BY <1>6 DEF WalkEnds, counts
    <2>2. StageOK'
        BY <1>0, <2>1 DEF StageOK
    <2>3. WalkOK'
        BY <1>0, <1>1, <2>1 DEF WalkOK
    <2>4. ControlInv'
        BY <1>0, <1>1, <2>1 DEF ControlInv, Walking
    <2>. QED  BY <1>1, <1>2, <2>2, <2>3, <2>4 DEF TypeInv
<1>7. CASE Return
    <2>1. /\ UNCHANGED <<mutator, max_cnt, max_ins, el, child, ind>>
          /\ pc \in {"funcs", "list"} /\ pc' = "stage" /\ cur_cnt' = 0 /\ cur_ins' = 0
          /\ funcs' = 0 /\ list' = <<>> /\ root' = FALSE /\ seen' = {}
          /\ stage_cur' = Advance(cur_cnt + cur_ins)
        BY <1>7 DEF Return
    <2>2. stage_cur' \in Nat
        BY <2>1, <1>0 DEF Advance, StageOK
    <2>3. 0 \in 0 .. Imports + 1 /\ FALSE \in BOOLEAN
        BY <1>3
    <2>4. StageOK'
        BY <1>0, <2>1, <2>2, <2>3 DEF StageOK
    <2>5. WalkOK'
        BY <1>0, <1>1, <1>3, <2>1 DEF WalkOK
    <2>6. ControlInv'
        BY <1>0, <1>1, <2>1 DEF ControlInv, Walking
    <2>. QED  BY <1>1, <1>2, <2>4, <2>5, <2>6 DEF TypeInv
<1>8. CASE Done
    <2>1. /\ UNCHANGED <<stage_cur, mutator, max_cnt, max_ins, cur_cnt, cur_ins, funcs, list, root,
                         el, child, ind, seen>>
          /\ pc = "stage" /\ pc' = "done"
        BY <1>8 DEF Done, counts, walk
    <2>2. StageOK'
        BY <1>0, <2>1 DEF StageOK
    <2>3. WalkOK'
        BY <1>0, <1>1, <2>1 DEF WalkOK
    <2>4. ControlInv'
        BY <1>0, <1>1, <2>1 DEF ControlInv, Walking
    <2>. QED  BY <1>1, <1>2, <2>2, <2>3, <2>4 DEF TypeInv
<1>. QED  BY <1>4, <1>5, <1>6, <1>7, <1>8

\* Visit: the head of the worklist becomes the element at hand.
LEMMA VisitTypes ==
    ASSUME TypeInv, Visit
    PROVE  /\ TypeInv' /\ UNCHANGED <<kind, kids, made, body, mutator>>
           /\ pc = "list" /\ list # <<>> /\ Len(list) \in Nat \ {0}
           /\ el' = list[1] /\ el' \in 1 .. made /\ child' = kids[el'] /\ ind' = 1
           /\ Len(list') = Len(list) - 1
           /\ \A i \in 1 .. Len(list') : list'[i] = list[i + 1]
           /\ seen' = seen \cup {el'}
           /\ pc' \in {"root", "child"}
<1>0. ArenaOK /\ StageOK /\ WalkOK /\ ControlInv
    BY DEF TypeInv
<1>1. /\ UNCHANGED <<kind, kids, made, body, stage_cur, mutator, max_cnt, max_ins, cur_ins, funcs, root>>
      /\ pc = "list" /\ list # <<>>
      /\ el' = Head(list) /\ child' = kids[el'] /\ ind' = 1
      /\ list' = Tail(list) /\ seen' = seen \cup {el'}
      /\ cur_cnt' \in {cur_cnt, cur_cnt + 1}
      /\ pc' = IF root /\ mutator \in RootMutators THEN "root" ELSE "child"
    BY DEF Visit, tree, counts, Mutated, RootMutators
<1>2. list \in Seq(1 .. made)
    BY <1>0 DEF WalkOK
<1>3. /\ Head(list) = list[1] /\ Head(list) \in 1 .. made
      /\ Tail(list) \in Seq(1 .. made) /\ Len(Tail(list)) = Len(list) - 1
      /\ \A i \in 1 .. Len(Tail(list)) : Tail(list)[i] = list[i + 1]
      /\ Len(list) \in Nat \ {0}
    <2>1. Head(list) = list[1]
        BY <1>1, <1>2
    <2>2. Len(list) \in Nat \ {0}
        BY <1>1, <1>2, EmptySeq
    <2>. QED  BY <1>1, <1>2, <2>1, <2>2, HeadTailProperties
<1>4. /\ kids[el'] \in Seq(1 .. made) /\ Len(kids[el']) \in Nat /\ el' \in 0 .. made
      /\ 1 \in 1 .. Len(kids[el']) + 1 /\ el' # None
    <2>1. kids[el'] \in Seq(1 .. made) /\ Len(kids[el']) \in Nat
        BY <1>0, <1>1, <1>3, ArenaOKs
    <2>2. made \in Nat
        BY <1>0, ArenaOKs
    <2>. QED  BY <2>1, <2>2, <1>1, <1>3 DEF None
<1>5. ArenaOK'
    BY <1>0, <1>1 DEF ArenaOK
<1>6. StageOK'
    <2>1. cur_cnt' \in Nat
        BY <1>0, <1>1 DEF StageOK
    <2>. QED  BY <1>0, <1>1, <2>1 DEF StageOK
<1>7. WalkOK'
    BY <1>0, <1>1, <1>3, <1>4 DEF WalkOK
<1>8. ControlInv'
    <2>1. CASE root /\ mutator \in RootMutators
        <3>1. list = <<body>>
            BY <1>0, <1>1, <2>1 DEF ControlInv
        <3>2. list' = <<>> /\ el' = body
            BY <1>1, <1>3, <3>1, EmptySeq
        <3>. QED  BY <1>0, <1>1, <2>1, <3>2 DEF ControlInv, Walking
    <2>2. CASE ~(root /\ mutator \in RootMutators)
        <3>1. root \in BOOLEAN
            BY <1>0 DEF StageOK
        <3>. QED  BY <1>0, <1>1, <1>4, <2>2, <3>1 DEF ControlInv, Walking
    <2>. QED  BY <2>1, <2>2
<1>. QED  BY <1>1, <1>3, <1>5, <1>6, <1>7, <1>8 DEF TypeInv

\* What holds at any step from pc = "child" to a child.
LEMMA ChildAt ==
    ASSUME TypeInv, ChildStep
    PROVE  /\ pc = "child" /\ pc' = "child" /\ ind' = ind + 1 /\ ind \in 1 .. Len(child)
           /\ ind' \in 1 .. Len(child) + 1 /\ Len(child) \in Nat
           /\ UNCHANGED <<stage_cur, mutator, max_cnt, max_ins, cur_ins, funcs, root, el, body>>
           /\ made \in Nat /\ el \in 1 .. made /\ kid \in 1 .. made /\ body \in 1 .. made
           /\ ArenaOK /\ kids[el] \in Seq(1 .. made) /\ kids[kid] \in Seq(1 .. made)
           /\ list \in Seq(1 .. made) /\ child \in Seq(1 .. made) /\ seen \subseteq 1 .. made
           /\ Arity(kind[el], Len(kids[el])) \/ kind[el] = "local"
           /\ Arity(kind[kid], Len(kids[kid])) \/ kind[kid] = "local"
           /\ kind[el] \in Wrote /\ kind[kid] \in Wrote
<1>0. ArenaOK /\ StageOK /\ WalkOK /\ ControlInv
    BY DEF TypeInv
<1>1. /\ pc = "child" /\ pc' = "child" /\ ind <= Len(child) /\ ind' = ind + 1
      /\ UNCHANGED <<stage_cur, mutator, max_cnt, max_ins, cur_ins, funcs, root, el, body>>
    BY DEF ChildStep, counts
<1>2. /\ list \in Seq(1 .. made) /\ child \in Seq(1 .. made) /\ seen \subseteq 1 .. made
      /\ ind \in 1 .. Len(child) + 1 /\ el \in 0 .. made
    BY <1>0 DEF WalkOK
<1>3. Len(child) \in Nat /\ made \in Nat /\ MaxNodes \in Nat /\ made <= MaxNodes
    BY <1>0, <1>2, LenProperties, ArenaOKs
<1>4. ind \in 1 .. Len(child) /\ ind' \in 1 .. Len(child) + 1
    BY <1>1, <1>2, <1>3
<1>5. kid \in 1 .. made
    BY <1>2, <1>4, ElementOfSeq DEF kid
<1>6. el \in 1 .. made /\ body \in 1 .. made
    BY <1>0, <1>1, <1>2, <1>3 DEF ControlInv, Walking, None
<1>7. ASSUME NEW n \in 1 .. made
      PROVE  /\ kids[n] \in Seq(1 .. made) /\ kind[n] \in Wrote
             /\ Arity(kind[n], Len(kids[n])) \/ kind[n] = "local"
    <2>1. n \in Node
        BY <1>3 DEF Node
    <2>. QED  BY <1>0, <2>1 DEF ArenaOK
<1>. QED  BY <1>0, <1>1, <1>2, <1>3, <1>4, <1>5, <1>6, <1>7

\* The rest of the types at such a step.
LEMMA ChildTypes ==
    ASSUME TypeInv, ChildStep, cur_cnt' \in {cur_cnt, cur_cnt + 1}, ArenaOK',
           1 .. made \subseteq 1 .. made', seen' \subseteq 1 .. made',
           list' \in Seq(1 .. made'), child' \in Seq(1 .. made'), Len(child') = Len(child)
    PROVE  TypeInv'
<1>0. ArenaOK /\ StageOK /\ WalkOK /\ ControlInv
    BY DEF TypeInv
<1>1. /\ pc = "child" /\ pc' = "child" /\ ind' \in 1 .. Len(child) + 1
      /\ UNCHANGED <<stage_cur, mutator, max_cnt, max_ins, cur_ins, funcs, root, el, body>>
      /\ made \in Nat /\ el \in 1 .. made /\ body \in 1 .. made
    BY ChildAt
<1>2. made' \in Nat
    BY ArenaOKs, TreeAssumption DEF ArenaOK, Node
<1>3. StageOK'
    <2>1. cur_cnt' \in Nat
        BY <1>0 DEF StageOK
    <2>. QED  BY <1>0, <1>1, <2>1 DEF StageOK
<1>4. el' \in 0 .. made' /\ body' \in 0 .. made' /\ el' # None /\ body' # None
    <2>1. el' \in 1 .. made' /\ body' \in 1 .. made'
        BY <1>1
    <2>. QED  BY <1>2, <2>1 DEF None
<1>5. WalkOK'
    BY <1>1, <1>4 DEF WalkOK
<1>6. ControlInv'
    BY <1>0, <1>1, <1>4 DEF ControlInv, Walking
<1>. QED  BY <1>3, <1>5, <1>6 DEF TypeInv

\* ChildKept: the child goes to the worklist.
LEMMA ChildKeptTypes ==
    ASSUME TypeInv, ChildKept
    PROVE  TypeInv' /\ UNCHANGED <<kind, kids, made, child, seen>> /\ list' = Append(list, kid)
<1>1. /\ ChildStep /\ UNCHANGED <<kind, kids, made, child, seen>> /\ list' = Append(list, kid)
      /\ cur_cnt' \in {cur_cnt, cur_cnt + 1}
    BY DEF ChildKept, Mutated, Requeue
<1>2. /\ ArenaOK /\ list \in Seq(1 .. made) /\ child \in Seq(1 .. made) /\ seen \subseteq 1 .. made
      /\ kid \in 1 .. made
    BY <1>1, ChildAt
<1>3. ArenaOK'
    BY <1>1, <1>2 DEF ArenaOK
<1>4. list' \in Seq(1 .. made')
    BY <1>1, <1>2, AppendProperties
<1>5. TypeInv'
    BY <1>1, <1>2, <1>3, <1>4, ChildTypes
<1>. QED  BY <1>1, <1>5

\* PutSeq when the arena grows.
LEMMA PutGrows ==
    ASSUME NEW v \in Nat, NEW w \in Nat, v <= w, NEW s \in Seq(1 .. v), NEW i, NEW e \in 1 .. w
    PROVE  /\ s \in Seq(1 .. w)
           /\ Put(s, i, e) \in Seq(1 .. w) /\ Len(Put(s, i, e)) = Len(s)
<1>1. 1 .. v \subseteq 1 .. w
    OBVIOUS
<1>2. s \in Seq(1 .. w)
    BY <1>1, SeqMonotonic
<1>3. \A S : s \in Seq(S) /\ e \in S => Put(s, i, e) \in Seq(S) /\ Len(Put(s, i, e)) = Len(s)
    BY PutSeq
<1>. QED  BY <1>2, <1>3

\* Which node is given what, and what that leaves.
LEMMA OneGiven ==
    ASSUME NEW e \in 1 .. made, NEW s, NEW w, s \in Seq(1 .. w),
           kind[e] # "local" => Arity(kind[e], Len(s))
    PROVE  LET g == [n \in {e} |-> s]
           IN  Gives(g, w) /\ (Kept(g) => \A n \in 1 .. made : kids'[n] = IF n = e THEN s ELSE kids[n])
<1>. DEFINE g == [n \in {e} |-> s]
<1>1. DOMAIN g = {e} /\ g[e] = s
    OBVIOUS
<1>. HIDE DEF g
<1>2. Gives(g, w) /\ (Kept(g) => \A n \in 1 .. made : kids'[n] = IF n = e THEN s ELSE kids[n])
    BY <1>1 DEF Gives, Kept
<1>. QED  BY <1>2 DEF g

Both(e, s, f, r) == [n \in {e, f} |-> IF n = e THEN s ELSE r]

\* OneGiven for two nodes.
LEMMA TwoGiven ==
    ASSUME NEW e \in 1 .. made, NEW f \in 1 .. made, NEW s, NEW r, NEW w,
           s \in Seq(1 .. w), kind[e] # "local" => Arity(kind[e], Len(s)),
           r \in Seq(1 .. w), kind[f] # "local" => Arity(kind[f], Len(r))
    PROVE  /\ Gives(Both(e, s, f, r), w)
           /\ Kept(Both(e, s, f, r)) => \A n \in 1 .. made :
                  kids'[n] = IF n = e THEN s ELSE IF n = f THEN r ELSE kids[n]
<1>1. LET g == Both(e, s, f, r) IN DOMAIN g = {e, f} /\ g[e] = s /\ (f # e => g[f] = r)
    BY DEF Both
<1>. QED  BY <1>1 DEF Gives, Kept

\* What a step to a child leaves of the other nodes.
Others == \A n \in 1 .. made : kind'[n] = kind[n] /\ (n \notin {el, kid} => kids'[n] = kids[n])

\* ChildReplaced: what it makes and gives to whom.
LEMMA ReplacedTypes ==
    ASSUME TypeInv, ChildReplaced
    PROVE  /\ TypeInv' /\ ChildStep /\ mutator = "operators"
           /\ made' = made + 1 /\ seen' = seen \cup (made + 1 .. made')
           /\ kind[kid] \in {"op", "const"} /\ Others
           /\ kids'[made + 1] = kids[kid] /\ kind'[made + 1] = kind[kid]
           /\ kids'[el] = Put(kids[el], ind, made + 1) /\ (kid # el => kids'[kid] = kids[kid])
           /\ child' = Put(child, ind, made + 1)
           /\ list' = Append(list, made + 1)
<1>. DEFINE s == Put(kids[el], ind, made + 1)
            given == [n \in {el} |-> s]
<1>1. /\ ChildStep /\ mutator = "operators" /\ kind[kid] \in {"op", "const"}
      /\ Edit(<<Expr(kind[kid], kids[kid])>>, given)
      /\ child' = Put(child, ind, made + 1)
      /\ list' = Append(list, made + 1) /\ cur_cnt' \in {cur_cnt, cur_cnt + 1}
    BY DEF ChildReplaced, Queued, Mutated, With, Put
<1>2. /\ ArenaOK /\ made \in Nat /\ el \in 1 .. made /\ kid \in 1 .. made
      /\ kids[el] \in Seq(1 .. made) /\ kids[kid] \in Seq(1 .. made)
      /\ list \in Seq(1 .. made) /\ child \in Seq(1 .. made) /\ seen \subseteq 1 .. made
      /\ Arity(kind[el], Len(kids[el])) \/ kind[el] = "local"
      /\ Arity(kind[kid], Len(kids[kid])) \/ kind[kid] = "local"
      /\ kind[kid] \in Wrote
    BY <1>1, ChildAt
<1>3. 1 .. made \subseteq 1 .. made + 1 /\ made + 1 \in 1 .. made + 1
    BY <1>2
<1>4. /\ kids[kid] \in Seq(1 .. made + 1) /\ kids[el] \in Seq(1 .. made + 1)
      /\ list \in Seq(1 .. made + 1) /\ child \in Seq(1 .. made + 1)
    BY <1>2, <1>3, SeqMonotonic
<1>5. s \in Seq(1 .. made + 1) /\ Len(s) = Len(kids[el])
    <2>1. made + 1 \in Nat /\ made <= made + 1
        BY <1>2
    <2>. QED  BY <1>2, <1>3, <2>1, PutGrows
<1>6. Fits(kind[kid], kids[kid], made + 1)
    BY <1>2, <1>4 DEF Fits
<1>. HIDE DEF s
<1>7. /\ Gives(given, made + 1)
      /\ Kept(given) => \A n \in 1 .. made : kids'[n] = IF n = el THEN s ELSE kids[n]
    BY <1>2, <1>5, OneGiven
<1>. HIDE DEF given
<1>8. /\ Kept(given) /\ made' = made + 1
      /\ kind'[made + 1] = kind[kid] /\ kids'[made + 1] = kids[kid]
    BY <1>1, <1>2, <1>6, <1>7, EditOne
<1>9. child' \in Seq(1 .. made') /\ Len(child') = Len(child) /\ list' \in Seq(1 .. made')
    BY <1>1, <1>3, <1>4, <1>8, PutSeq, AppendProperties
<1>10. TypeInv'
    BY <1>1, <1>2, <1>8, <1>9, ChildTypes DEF Kept
<1>11. Others /\ kids'[el] = s /\ (kid # el => kids'[kid] = kids[kid])
    BY <1>2, <1>7, <1>8 DEF Others, Kept
<1>. QED  BY <1>1, <1>8, <1>10, <1>11 DEF s, Kept

\* ChildWrapped: what it makes and gives to whom.
LEMMA WrappedTypes ==
    ASSUME TypeInv, ChildWrapped
    PROVE  /\ TypeInv' /\ ChildStep /\ mutator = "recursive"
           /\ made' = made + 1 /\ seen' = seen \cup (made + 1 .. made')
           /\ kind[kid] = "block" /\ Others
           /\ kids'[made + 1] = <<kid>> /\ kind'[made + 1] = "block"
           /\ kids'[el] = Put(kids[el], ind, made + 1) /\ (kid # el => kids'[kid] = kids[kid])
           /\ child' = child /\ list' = Append(list, kid)
<1>. DEFINE s == Put(kids[el], ind, made + 1)
            given == [n \in {el} |-> s]
<1>1. /\ ChildStep /\ mutator = "recursive" /\ kind[kid] = "block"
      /\ Edit(<<Expr("block", <<kid>>)>>, given)
      /\ child' = child
      /\ list' = Append(list, kid) /\ cur_cnt' \in {cur_cnt, cur_cnt + 1}
    BY DEF ChildWrapped, Requeue, Mutated, With, Put
<1>2. /\ ArenaOK /\ made \in Nat /\ el \in 1 .. made /\ kid \in 1 .. made
      /\ kids[el] \in Seq(1 .. made)
      /\ list \in Seq(1 .. made) /\ child \in Seq(1 .. made) /\ seen \subseteq 1 .. made
      /\ Arity(kind[el], Len(kids[el])) \/ kind[el] = "local"
    BY <1>1, ChildAt
<1>3. 1 .. made \subseteq 1 .. made + 1 /\ made + 1 \in 1 .. made + 1
    BY <1>2
<1>4. /\ kids[el] \in Seq(1 .. made + 1) /\ kid \in 1 .. made + 1
      /\ list \in Seq(1 .. made + 1) /\ child \in Seq(1 .. made + 1)
    BY <1>2, <1>3, SeqMonotonic
<1>5. s \in Seq(1 .. made + 1) /\ Len(s) = Len(kids[el])
    <2>1. made + 1 \in Nat /\ made <= made + 1
        BY <1>2
    <2>. QED  BY <1>2, <1>3, <2>1, PutGrows
<1>6. Fits("block", <<kid>>, made + 1)
    <2>1. <<kid>> \in Seq(1 .. made + 1)
        BY <1>4
    <2>2. "block" \in Wrote /\ Arity("block", Len(<<kid>>))
        BY DEF Wrote, AllKinds, Arity
    <2>. QED  BY <2>1, <2>2 DEF Fits
<1>. HIDE DEF s
<1>7. /\ Gives(given, made + 1)
      /\ Kept(given) => \A n \in 1 .. made : kids'[n] = IF n = el THEN s ELSE kids[n]
    BY <1>2, <1>5, OneGiven
<1>. HIDE DEF given
<1>8. /\ Kept(given) /\ made' = made + 1
      /\ kind'[made + 1] = "block" /\ kids'[made + 1] = <<kid>>
    BY <1>1, <1>2, <1>6, <1>7, EditOne
<1>9. child' \in Seq(1 .. made') /\ Len(child') = Len(child) /\ list' \in Seq(1 .. made')
    BY <1>1, <1>4, <1>8, AppendProperties
<1>10. TypeInv'
    BY <1>1, <1>2, <1>8, <1>9, ChildTypes DEF Kept
<1>11. Others /\ kids'[el] = s /\ (kid # el => kids'[kid] = kids[kid])
    BY <1>2, <1>7, <1>8 DEF Others, Kept
<1>. QED  BY <1>1, <1>8, <1>10, <1>11 DEF s, Kept

\* Overwritten: what it makes and gives to whom.
LEMMA OverwrittenTypes ==
    ASSUME TypeInv, Overwritten
    PROVE  /\ TypeInv' /\ ChildStep /\ mutator = "splice"
           /\ made' = made + 1 /\ seen' = seen \cup (made + 1 .. made') /\ Others
           /\ kids'[made + 1] = <<>> /\ kind'[made + 1] = "const"
           /\ kids'[el] = Put(kids[el], ind, made + 1) /\ (kid # el => kids'[kid] = kids[kid])
           /\ child' = child /\ list' = list
<1>. DEFINE s == Put(kids[el], ind, made + 1)
            given == [n \in {el} |-> s]
<1>1. /\ ChildStep /\ mutator = "splice"
      /\ Edit(<<Expr("const", <<>>)>>, given)
      /\ child' = child /\ list' = list /\ cur_cnt' \in {cur_cnt, cur_cnt + 1}
    BY DEF Overwritten, Mutated, With, Put
<1>2. /\ ArenaOK /\ made \in Nat /\ el \in 1 .. made /\ kid \in 1 .. made
      /\ kids[el] \in Seq(1 .. made)
      /\ list \in Seq(1 .. made) /\ child \in Seq(1 .. made) /\ seen \subseteq 1 .. made
      /\ Arity(kind[el], Len(kids[el])) \/ kind[el] = "local"
    BY <1>1, ChildAt
<1>3. 1 .. made \subseteq 1 .. made + 1 /\ made + 1 \in 1 .. made + 1
    BY <1>2
<1>4. /\ kids[el] \in Seq(1 .. made + 1)
      /\ list \in Seq(1 .. made + 1) /\ child \in Seq(1 .. made + 1)
    BY <1>2, <1>3, SeqMonotonic
<1>5. s \in Seq(1 .. made + 1) /\ Len(s) = Len(kids[el])
    <2>1. made + 1 \in Nat /\ made <= made + 1
        BY <1>2
    <2>. QED  BY <1>2, <1>3, <2>1, PutGrows
<1>6. Fits("const", <<>>, made + 1)
    BY EmptySeq DEF Fits, Wrote, AllKinds, Arity
<1>. HIDE DEF s
<1>7. /\ Gives(given, made + 1)
      /\ Kept(given) => \A n \in 1 .. made : kids'[n] = IF n = el THEN s ELSE kids[n]
    BY <1>2, <1>5, OneGiven
<1>. HIDE DEF given
<1>8. /\ Kept(given) /\ made' = made + 1
      /\ kind'[made + 1] = "const" /\ kids'[made + 1] = <<>>
    BY <1>1, <1>2, <1>6, <1>7, EditOne
<1>9. TypeInv'
    BY <1>1, <1>2, <1>4, <1>8, ChildTypes DEF Kept
<1>10. Others /\ kids'[el] = s /\ (kid # el => kids'[kid] = kids[kid])
    BY <1>2, <1>7, <1>8 DEF Others, Kept
<1>. QED  BY <1>1, <1>8, <1>9, <1>10 DEF s, Kept

\* The target of a call_indirect is its last child.
LEMMA TargetAt ==
    ASSUME ArenaOK, NEW n \in 1 .. made, kind[n] \in {"call_indirect", "br_if", "switch"}
    PROVE  /\ Len(kids[n]) \in Nat \ {0} /\ Len(kids[n]) \in 1 .. Len(kids[n])
           /\ Last(kids[n]) = kids[n][Len(kids[n])] /\ Last(kids[n]) \in 1 .. made
           /\ kind[n] # "call_indirect" => Len(kids[n]) \in 1 .. 2
<1>1. kids[n] \in Seq(1 .. made) /\ Len(kids[n]) \in Nat
    BY ArenaOKs
<1>2. Arity(kind[n], Len(kids[n]))
    BY DEF ArenaOK
<1>3. Len(kids[n]) >= 1 /\ (kind[n] # "call_indirect" => Len(kids[n]) \in 1 .. 2)
    BY <1>1, <1>2 DEF Arity
<1>4. Len(kids[n]) \in 1 .. Len(kids[n])
    BY <1>1, <1>3
<1>5. Last(kids[n]) = kids[n][Len(kids[n])]
    BY DEF Last
<1>6. kids[n][Len(kids[n])] \in 1 .. made
    BY <1>4, ArenaOKs
<1>. QED  BY <1>1, <1>3, <1>4, <1>5, <1>6

\* ChildCallIndirect: what it makes and gives to whom.
LEMMA CallTypes ==
    ASSUME TypeInv, ChildCallIndirect
    PROVE  /\ TypeInv' /\ ChildStep /\ mutator = "call"
           /\ made' = made + 3 /\ seen' = seen \cup (made + 1 .. made')
           /\ kind[kid] = "call_indirect" /\ Others
           /\ kids'[made + 1] = <<Last(kids[kid])>> /\ kind'[made + 1] = "local"
           /\ kids'[made + 2] = <<>> /\ kind'[made + 2] = "local"
           /\ kids'[made + 3] = <<made + 1, kid>> /\ kind'[made + 3] = "block"
           /\ kids'[kid] = Put(kids[kid], Len(kids[kid]), made + 2)
           /\ kid # el => kids'[el] = Put(kids[el], ind, made + 3)
           /\ child' = child /\ list' = Append(list, kid)
<1>. DEFINE s == Put(kids[kid], Len(kids[kid]), made + 2)
            r == Put(kids[el], ind, made + 3)
            given == Both(kid, s, el, r)
<1>1. /\ ChildStep /\ mutator = "call" /\ kind[kid] = "call_indirect"
      /\ Edit(<<Expr("local", <<Last(kids[kid])>>), Expr("local", <<>>),
                Expr("block", <<made + 1, kid>>)>>, given)
      /\ child' = child
      /\ list' = Append(list, kid) /\ cur_cnt' \in {cur_cnt, cur_cnt + 1}
    BY DEF ChildCallIndirect, Hoisted, Retargeted, Requeue, Mutated, With, Put, Both
<1>2. /\ ArenaOK /\ made \in Nat /\ el \in 1 .. made /\ kid \in 1 .. made
      /\ kids[el] \in Seq(1 .. made) /\ kids[kid] \in Seq(1 .. made)
      /\ list \in Seq(1 .. made) /\ child \in Seq(1 .. made) /\ seen \subseteq 1 .. made
      /\ Arity(kind[el], Len(kids[el])) \/ kind[el] = "local"
      /\ Arity(kind[kid], Len(kids[kid])) \/ kind[kid] = "local"
    BY <1>1, ChildAt
<1>3. /\ made + 3 \in Nat /\ made <= made + 3 /\ 1 .. made \subseteq 1 .. made + 3
      /\ made + 1 \in 1 .. made + 3 /\ made + 2 \in 1 .. made + 3 /\ made + 3 \in 1 .. made + 3
    BY <1>2
<1>4. /\ list \in Seq(1 .. made + 3) /\ child \in Seq(1 .. made + 3) /\ kid \in 1 .. made + 3
    BY <1>2, <1>3, SeqMonotonic
<1>5. s \in Seq(1 .. made + 3) /\ Len(s) = Len(kids[kid])
    BY <1>2, <1>3, PutGrows
<1>6. r \in Seq(1 .. made + 3) /\ Len(r) = Len(kids[el])
    BY <1>2, <1>3, PutGrows
<1>7. Last(kids[kid]) \in 1 .. made + 3
    BY <1>1, <1>2, <1>3, TargetAt
<1>8. Fits("local", <<Last(kids[kid])>>, made + 3)
    <2>1. <<Last(kids[kid])>> \in Seq(1 .. made + 3)
        BY <1>7
    <2>. QED  BY <2>1 DEF Fits, Wrote
<1>9. Fits("local", <<>>, made + 3)
    BY EmptySeq DEF Fits, Wrote
<1>10. Fits("block", <<made + 1, kid>>, made + 3)
    <2>1. <<made + 1, kid>> \in Seq(1 .. made + 3)
        BY <1>3, <1>4
    <2>2. "block" \in Wrote /\ \A n : Arity("block", n)
        BY DEF Wrote, AllKinds, Arity
    <2>. QED  BY <2>1, <2>2 DEF Fits
<1>. HIDE DEF s, r
<1>11. /\ Gives(given, made + 3)
       /\ Kept(given) => \A n \in 1 .. made :
              kids'[n] = IF n = kid THEN s ELSE IF n = el THEN r ELSE kids[n]
    <2>1. kind[kid] # "local" => Arity(kind[kid], Len(s))
        BY <1>2, <1>5
    <2>2. kind[el] # "local" => Arity(kind[el], Len(r))
        BY <1>2, <1>6
    <2>. HIDE DEF given
    <2>3. \A w : s \in Seq(1 .. w) /\ r \in Seq(1 .. w) =>
              /\ Gives(Both(kid, s, el, r), w)
              /\ Kept(Both(kid, s, el, r)) => \A n \in 1 .. made :
                     kids'[n] = IF n = kid THEN s ELSE IF n = el THEN r ELSE kids[n]
        BY <1>2, <2>1, <2>2, TwoGiven
    <2>. QED  BY <1>5, <1>6, <2>3 DEF given
<1>. HIDE DEF given
<1>12. /\ Kept(given) /\ made' = made + 3
       /\ kind'[made + 1] = "local" /\ kids'[made + 1] = <<Last(kids[kid])>>
       /\ kind'[made + 2] = "local" /\ kids'[made + 2] = <<>>
       /\ kind'[made + 3] = "block" /\ kids'[made + 3] = <<made + 1, kid>>
    BY <1>1, <1>2, <1>8, <1>9, <1>10, <1>11, EditThree
<1>13. child' \in Seq(1 .. made') /\ Len(child') = Len(child) /\ list' \in Seq(1 .. made')
    BY <1>1, <1>4, <1>12, AppendProperties
<1>14. TypeInv'
    BY <1>1, <1>2, <1>12, <1>13, ChildTypes DEF Kept
<1>15. Others /\ kids'[kid] = s /\ (kid # el => kids'[el] = r)
    BY <1>2, <1>11, <1>12 DEF Others, Kept
<1>. QED  BY <1>1, <1>12, <1>14, <1>15 DEF s, r, Kept

\* ValueAt of no value and of one.
LEMMA ValueAtIs ==
    ASSUME NEW x
    PROVE  /\ ValueAt(<<>>, x) = <<>>
           /\ \A e : ValueAt(<<e>>, x) = <<x>>
<1>1. ValueAt(<<>>, x) = <<>>
    BY DEF ValueAt
<1>2. ASSUME NEW e  PROVE ValueAt(<<e>>, x) = <<x>>
    <2>1. Len(<<e>>) = 1 /\ 1 .. 1 = {1}
        OBVIOUS
    <2>. QED  BY <2>1 DEF ValueAt
<1>. QED  BY <1>1, <1>2

\* br: the value is dropped, or a new one takes its place.
LEMMA BreakTypes ==
    ASSUME TypeInv, BreakRetargeted
    PROVE  /\ TypeInv' /\ ChildStep /\ mutator = "branch"
           /\ kind[kid] = "br" /\ Others /\ (kid # el => kids'[el] = kids[el])
           /\ \/ made' = made /\ kids'[kid] = <<>>
              \/ /\ made' = made + 1 /\ kids'[kid] = <<made + 1>>
                 /\ kids'[made + 1] = <<>> /\ kind'[made + 1] = "const"
           /\ child' = child /\ list' = list
<1>. DEFINE given(v) == [n \in {kid} |-> v]
<1>0. /\ ChildStep /\ mutator = "branch" /\ kind[kid] = "br"
      /\ \E val \in Values : Edit(val, [n \in {kid} |-> ValueAt(val, made + 1)])
      /\ child' = child /\ list' = list /\ cur_cnt' \in {cur_cnt, cur_cnt + 1}
    BY DEF BreakRetargeted, BreakSetValue, Mutated
<1>1. \/ Edit(<<>>, given(<<>>))
      \/ Edit(<<Expr("const", <<>>)>>, given(<<made + 1>>))
    <2>1. PICK val \in Values : Edit(val, [n \in {kid} |-> ValueAt(val, made + 1)])
        BY <1>0
    <2>2. CASE val = <<>>
        <3>1. ValueAt(val, made + 1) = <<>>
            BY <2>2, ValueAtIs
        <3>. QED  BY <2>1, <2>2, <3>1
    <2>3. CASE val = <<Expr("const", <<>>)>>
        <3>1. ValueAt(val, made + 1) = <<made + 1>>
            BY <2>3, ValueAtIs
        <3>. QED  BY <2>1, <2>3, <3>1
    <2>. QED  BY <2>2, <2>3 DEF Values
<1>2. /\ ArenaOK /\ made \in Nat /\ el \in 1 .. made /\ kid \in 1 .. made
      /\ list \in Seq(1 .. made) /\ child \in Seq(1 .. made) /\ seen \subseteq 1 .. made
    BY <1>0, ChildAt
<1>3. Arity("br", 0) /\ Arity("br", 1)
    BY DEF Arity
<1>4. CASE Edit(<<>>, given(<<>>))
    <2>1. Gives(given(<<>>), made)
          /\ (Kept(given(<<>>)) => \A n \in 1 .. made : kids'[n] = IF n = kid THEN <<>> ELSE kids[n])
        <3>1. <<>> \in Seq(1 .. made) /\ Len(<<>>) = 0
            BY EmptySeq
        <3>2. kind[kid] # "local" => Arity(kind[kid], Len(<<>>))
            BY <1>0, <1>3, <3>1
        <3>. QED  BY <1>2, <3>1, <3>2, OneGiven, SMTT(30), ZenonT(60)
    <2>. HIDE DEF given
    <2>2. Kept(given(<<>>)) /\ made' = made
        BY <1>2, <1>4, <2>1, EditNone
    <2>3. TypeInv'
        BY <1>0, <1>2, <2>2, ChildTypes DEF Kept
    <2>4. Others /\ kids'[kid] = <<>> /\ (kid # el => kids'[el] = kids[el])
        BY <1>2, <2>1, <2>2 DEF Others, Kept
    <2>. QED  BY <1>0, <2>2, <2>3, <2>4
<1>5. CASE Edit(<<Expr("const", <<>>)>>, given(<<made + 1>>))
    <2>0. 1 .. made \subseteq 1 .. made + 1 /\ made + 1 \in 1 .. made + 1
        BY <1>2
    <2>1. Gives(given(<<made + 1>>), made + 1)
          /\ (Kept(given(<<made + 1>>)) =>
                  \A n \in 1 .. made : kids'[n] = IF n = kid THEN <<made + 1>> ELSE kids[n])
        <3>1. <<made + 1>> \in Seq(1 .. made + 1) /\ Len(<<made + 1>>) = 1
            BY <2>0
        <3>2. kind[kid] # "local" => Arity(kind[kid], Len(<<made + 1>>))
            BY <1>0, <1>3, <3>1
        <3>. QED  BY <1>2, <3>1, <3>2, OneGiven
    <2>. HIDE DEF given
    <2>2. Fits("const", <<>>, made + 1)
        BY EmptySeq DEF Fits, Wrote, AllKinds, Arity
    <2>3. /\ Kept(given(<<made + 1>>)) /\ made' = made + 1
          /\ kind'[made + 1] = "const" /\ kids'[made + 1] = <<>>
        BY <1>2, <1>5, <2>1, <2>2, EditOne
    <2>4. list \in Seq(1 .. made') /\ child \in Seq(1 .. made')
        BY <1>2, <2>0, <2>3, SeqMonotonic
    <2>5. TypeInv'
        BY <1>0, <1>2, <2>3, <2>4, ChildTypes DEF Kept
    <2>6. Others /\ kids'[kid] = <<made + 1>> /\ (kid # el => kids'[el] = kids[el])
        BY <1>2, <2>1, <2>3 DEF Others, Kept
    <2>. QED  BY <1>0, <2>3, <2>5, <2>6
<1>. QED  BY <1>1, <1>4, <1>5

\* Short tuples put together.
LEMMA Tuples ==
    ASSUME NEW x, NEW y, NEW z
    PROVE  /\ <<>> \o <<x>> = <<x>> /\ Append(<<>>, x) = <<x>>
           /\ <<x>> \o <<y>> = <<x, y>> /\ Append(<<x>>, y) = <<x, y>>
           /\ <<x, y>> \o <<z>> = <<x, y, z>>
           /\ <<>> \o <<>> = <<>> /\ <<x>> \o <<>> = <<x>>
<1>1. <<>> \o <<x>> = <<x>>
    OBVIOUS
<1>2. Append(<<>>, x) = <<x>>
    OBVIOUS
<1>. DEFINE S == {x, y, z}
<1>0. /\ <<x>> \in Seq(S) /\ <<y>> \in Seq(S) /\ <<z>> \in Seq(S)
      /\ <<x, y>> \in Seq(S) /\ <<x, y, z>> \in Seq(S)
    OBVIOUS
<1>. HIDE DEF S
<1>8. /\ Len(<<x>>) = 1 /\ Len(<<y>>) = 1 /\ Len(<<z>>) = 1
      /\ Len(<<x, y>>) = 2 /\ Len(<<x, y, z>>) = 3
    OBVIOUS
<1>3. <<x>> \o <<y>> = <<x, y>>
    <2>1. /\ <<x>> \o <<y>> \in Seq(S) /\ Len(<<x>> \o <<y>>) = 2
          /\ \A i \in 1 .. 2 : (<<x>> \o <<y>>)[i] = IF i <= 1 THEN <<x>>[i] ELSE <<y>>[i - 1]
        BY <1>0, <1>8, ConcatProperties
    <2>2. (<<x>> \o <<y>>)[1] = x /\ (<<x>> \o <<y>>)[2] = y
        BY <2>1
    <2>3. \A i \in 1 .. Len(<<x>> \o <<y>>) : (<<x>> \o <<y>>)[i] = <<x, y>>[i]
        BY <2>1, <2>2
    <2>. QED  BY <1>0, <1>8, <2>1, <2>3, SeqEqual
<1>4. Append(<<x>>, y) = <<x, y>>
    <2>1. y \in S
        BY DEF S
    <2>. QED  BY <1>0, <1>3, <2>1, AppendIsConcat
<1>5. <<x, y>> \o <<z>> = <<x, y, z>>
    <2>1. /\ <<x, y>> \o <<z>> \in Seq(S) /\ Len(<<x, y>> \o <<z>>) = 3
          /\ \A i \in 1 .. 3 : (<<x, y>> \o <<z>>)[i] = IF i <= 2 THEN <<x, y>>[i] ELSE <<z>>[i - 2]
        BY <1>0, <1>8, ConcatProperties
    <2>2. /\ (<<x, y>> \o <<z>>)[1] = x /\ (<<x, y>> \o <<z>>)[2] = y
          /\ (<<x, y>> \o <<z>>)[3] = z
        BY <2>1
    <2>3. \A i \in 1 .. Len(<<x, y>> \o <<z>>) : (<<x, y>> \o <<z>>)[i] = <<x, y, z>>[i]
        BY <2>1, <2>2
    <2>. QED  BY <1>0, <1>8, <2>1, <2>3, SeqEqual
<1>6. <<>> \o <<>> = <<>>
    OBVIOUS
<1>7. <<x>> \o <<>> = <<x>>
    OBVIOUS
<1>. QED  BY <1>1, <1>2, <1>3, <1>4, <1>5, <1>6, <1>7

\* br_if: the four cases of its value being saved and of another being given.
LEMMA BreakIfEdits ==
    ASSUME TypeInv, BreakIfRetargeted
    PROVE  /\ ChildStep /\ mutator = "branch" /\ kind[kid] = "br_if"
           /\ cur_cnt' \in {cur_cnt, cur_cnt + 1}
           /\ LET last == Last(kids[kid])
                  local == Expr("local", <<kids[kid][1]>>)
                  value == Expr("const", <<>>)
              IN  \/ /\ Edit(<<Expr("block", <<kid>>)>>,
                             Both(kid, <<last>>, el, Put(kids[el], ind, made + 1)))
                     /\ child' = Put(child, ind, made + 1) /\ list' = list
                  \/ /\ Edit(<<value, Expr("block", <<kid>>)>>,
                             Both(kid, <<made + 1, last>>, el, Put(kids[el], ind, made + 2)))
                     /\ child' = Put(child, ind, made + 2) /\ list' = list
                  \/ /\ Len(kids[kid]) = 2
                     /\ Edit(<<local, Expr("block", <<made + 1, kid>>)>>,
                             Both(kid, <<last>>, el, Put(kids[el], ind, made + 2)))
                     /\ child' = Put(child, ind, made + 2) /\ list' = Append(list, made + 1)
                  \/ /\ Len(kids[kid]) = 2
                     /\ Edit(<<local, value, Expr("block", <<made + 1, kid>>)>>,
                             Both(kid, <<made + 2, last>>, el, Put(kids[el], ind, made + 3)))
                     /\ child' = Put(child, ind, made + 3) /\ list' = Append(list, made + 1)
<1>. DEFINE last == Last(kids[kid])
            local == Expr("local", <<kids[kid][1]>>)
            value == Expr("const", <<>>)
            blk(c) == Expr("block", c)
<1>1. /\ ChildStep /\ mutator = "branch" /\ kind[kid] = "br_if"
      /\ cur_cnt' \in {cur_cnt, cur_cnt + 1}
    BY DEF BreakIfRetargeted, Mutated
<1>2. PICK val \in Values :
          LET s == Len(Saved)
              block == made + Len(val) + s + 1
          IN  /\ Edit(Saved \o val \o <<blk(ValueAt(Saved, made + 1) \o <<kid>>)>>,
                      Both(kid, Append(ValueAt(val, made + s + 1), last), el,
                           Put(kids[el], ind, block)))
              /\ child' = Put(child, ind, block)
              /\ list' = list \o ValueAt(Saved, made + 1)
    BY DEF BreakIfRetargeted, With, Put, Both
<1>3. made \in Nat /\ list \in Seq(1 .. made)
    BY <1>1, ChildAt
<1>4. list \o <<>> = list
    BY <1>3, ConcatEmptySeq
<1>5. list \o <<made + 1>> = Append(list, made + 1)
    <2>1. 1 .. made \subseteq 1 .. made + 1 /\ made + 1 \in 1 .. made + 1
        BY <1>3
    <2>2. list \in Seq(1 .. made + 1)
        BY <1>3, <2>1, SeqMonotonic
    <2>. QED  BY <2>1, <2>2, AppendIsConcat
<1>6. ASSUME NEW x  PROVE ValueAt(<<>>, x) = <<>> /\ ValueAt(<<value>>, x) = <<x>>
                          /\ ValueAt(<<local>>, x) = <<x>>
    BY ValueAtIs
<1>7. Len(<<>>) = 0 /\ Len(<<value>>) = 1 /\ Len(<<local>>) = 1
    OBVIOUS
<1>. HIDE DEF last, local, value, blk
<1>8. val = <<>> \/ val = <<value>>
    BY DEF Values, value
<1>9. Saved = <<>> \/ (Saved = <<local>> /\ Len(kids[kid]) = 2)
    BY DEF Saved, local
<1>10. CASE Saved = <<>> /\ val = <<>>
    <2>1. made + Len(val) + Len(Saved) + 1 = made + 1
        BY <1>3, <1>7, <1>10
    <2>2. /\ Edit(<<blk(<<kid>>)>>, Both(kid, <<last>>, el, Put(kids[el], ind, made + 1)))
          /\ child' = Put(child, ind, made + 1) /\ list' = list
        BY <1>2, <1>4, <1>6, <1>10, <2>1, Tuples
    <2>. QED  BY <1>1, <2>2 DEF blk, last
<1>11. CASE Saved = <<>> /\ val = <<value>>
    <2>1. made + Len(val) + Len(Saved) + 1 = made + 2 /\ made + Len(Saved) + 1 = made + 1
        BY <1>3, <1>7, <1>11
    <2>2. /\ Edit(<<value, blk(<<kid>>)>>,
                  Both(kid, <<made + 1, last>>, el, Put(kids[el], ind, made + 2)))
          /\ child' = Put(child, ind, made + 2) /\ list' = list
        <3>1. /\ (Saved \o val) \o <<blk(<<kid>>)>> = <<value, blk(<<kid>>)>>
              /\ ValueAt(Saved, made + 1) \o <<kid>> = <<kid>>
              /\ Append(ValueAt(val, made + Len(Saved) + 1), last) = <<made + 1, last>>
              /\ list \o ValueAt(Saved, made + 1) = list
            <4>1. Saved \o val = <<value>>
                BY <1>11, Tuples
            <4>2. (Saved \o val) \o <<blk(<<kid>>)>> = <<value, blk(<<kid>>)>>
                BY <4>1, Tuples
            <4>3. ValueAt(Saved, made + 1) = <<>> /\ ValueAt(val, made + Len(Saved) + 1) = <<made + 1>>
                BY <1>6, <1>11, <2>1
            <4>4. Append(<<made + 1>>, last) = <<made + 1, last>> /\ <<>> \o <<kid>> = <<kid>>
                BY Tuples
            <4>. QED  BY <1>4, <4>2, <4>3, <4>4
        <3>. QED  BY <1>2, <2>1, <3>1
    <2>. QED  BY <1>1, <2>2 DEF blk, last, value
<1>12. CASE Saved = <<local>> /\ Len(kids[kid]) = 2 /\ val = <<>>
    <2>1. made + Len(val) + Len(Saved) + 1 = made + 2
        BY <1>3, <1>7, <1>12
    <2>2. /\ Edit(<<local, blk(<<made + 1, kid>>)>>,
                  Both(kid, <<last>>, el, Put(kids[el], ind, made + 2)))
          /\ child' = Put(child, ind, made + 2) /\ list' = Append(list, made + 1)
        <3>1. /\ (Saved \o val) \o <<blk(<<made + 1, kid>>)>> = <<local, blk(<<made + 1, kid>>)>>
              /\ ValueAt(Saved, made + 1) \o <<kid>> = <<made + 1, kid>>
              /\ Append(ValueAt(val, made + Len(Saved) + 1), last) = <<last>>
              /\ list \o ValueAt(Saved, made + 1) = Append(list, made + 1)
            BY <1>5, <1>6, <1>12, <2>1, Tuples
        <3>. QED  BY <1>2, <2>1, <3>1
    <2>. QED  BY <1>1, <1>12, <2>2 DEF blk, last, local
<1>13. CASE Saved = <<local>> /\ Len(kids[kid]) = 2 /\ val = <<value>>
    <2>1. made + Len(val) + Len(Saved) + 1 = made + 3 /\ made + Len(Saved) + 1 = made + 2
        BY <1>3, <1>7, <1>13
    <2>2. /\ Edit(<<local, value, blk(<<made + 1, kid>>)>>,
                  Both(kid, <<made + 2, last>>, el, Put(kids[el], ind, made + 3)))
          /\ child' = Put(child, ind, made + 3) /\ list' = Append(list, made + 1)
        <3>1. /\ (Saved \o val) \o <<blk(<<made + 1, kid>>)>>
                     = <<local, value, blk(<<made + 1, kid>>)>>
              /\ ValueAt(Saved, made + 1) \o <<kid>> = <<made + 1, kid>>
              /\ Append(ValueAt(val, made + Len(Saved) + 1), last) = <<made + 2, last>>
              /\ list \o ValueAt(Saved, made + 1) = Append(list, made + 1)
            <4>1. Saved \o val = <<local, value>>
                BY <1>13, Tuples
            <4>2. (Saved \o val) \o <<blk(<<made + 1, kid>>)>>
                     = <<local, value, blk(<<made + 1, kid>>)>>
                BY <4>1, Tuples
            <4>3. /\ ValueAt(Saved, made + 1) = <<made + 1>>
                  /\ ValueAt(val, made + Len(Saved) + 1) = <<made + 2>>
                BY <1>6, <1>13, <2>1
            <4>4. /\ Append(<<made + 2>>, last) = <<made + 2, last>>
                  /\ <<made + 1>> \o <<kid>> = <<made + 1, kid>>
                BY Tuples
            <4>. QED  BY <1>5, <4>2, <4>3, <4>4
        <3>. QED  BY <1>2, <2>1, <3>1
    <2>. QED  BY <1>1, <1>13, <2>2 DEF blk, last, local, value
<1>. QED  BY <1>8, <1>9, <1>10, <1>11, <1>12, <1>13

\* What BreakIfRetargeted gives to the br_if and to the element.
LEMMA BreakIfGives ==
    ASSUME TypeInv, ChildStep, \A n \in 1 .. 2 : Arity(kind[kid], n), NEW w \in Nat, made <= w,
           NEW t \in 1 .. w, NEW s, s \in Seq(1 .. w), Len(s) \in 1 .. 2
    PROVE  LET given == Both(kid, s, el, Put(kids[el], ind, t))
           IN  /\ Gives(given, w) /\ list \in Seq(1 .. w)
               /\ Put(child, ind, t) \in Seq(1 .. w) /\ Len(Put(child, ind, t)) = Len(child)
               /\ Kept(given) => /\ Others /\ kids'[kid] = s
                                 /\ kid # el => kids'[el] = Put(kids[el], ind, t)
<1>. DEFINE r == Put(kids[el], ind, t)
            given == Both(kid, s, el, r)
<1>1. /\ ArenaOK /\ made \in Nat /\ el \in 1 .. made /\ kid \in 1 .. made
      /\ kids[el] \in Seq(1 .. made)
      /\ list \in Seq(1 .. made) /\ child \in Seq(1 .. made)
      /\ Arity(kind[el], Len(kids[el])) \/ kind[el] = "local"
    BY ChildAt
<1>2. r \in Seq(1 .. w) /\ Len(r) = Len(kids[el])
    BY <1>1, PutGrows
<1>3. list \in Seq(1 .. w) /\ Put(child, ind, t) \in Seq(1 .. w)
      /\ Len(Put(child, ind, t)) = Len(child)
    BY <1>1, PutGrows
<1>. HIDE DEF r
<1>4. kind[el] # "local" => Arity(kind[el], Len(r))
    BY <1>1, <1>2
<1>5. kind[kid] # "local" => Arity(kind[kid], Len(s))
    OBVIOUS
<1>6. /\ Gives(given, w)
      /\ Kept(given) => \A n \in 1 .. made :
             kids'[n] = IF n = kid THEN s ELSE IF n = el THEN r ELSE kids[n]
    <2>. HIDE DEF given
    <2>1. \A v : s \in Seq(1 .. v) /\ r \in Seq(1 .. v) =>
              /\ Gives(Both(kid, s, el, r), v)
              /\ Kept(Both(kid, s, el, r)) => \A n \in 1 .. made :
                     kids'[n] = IF n = kid THEN s ELSE IF n = el THEN r ELSE kids[n]
        BY <1>1, <1>4, <1>5, TwoGiven
    <2>. QED  BY <1>2, <2>1 DEF given
<1>. HIDE DEF given
<1>7. Kept(given) => Others /\ kids'[kid] = s /\ (kid # el => kids'[el] = r)
    BY <1>1, <1>6 DEF Kept, Others
<1>. QED  BY <1>3, <1>6, <1>7 DEF r, given

\* br_if: with sv = 1 its value is saved, with vl = 1 it is given another one.
LEMMA BreakIfTypes ==
    ASSUME TypeInv, BreakIfRetargeted
    PROVE  /\ TypeInv' /\ ChildStep /\ mutator = "branch" /\ kind[kid] = "br_if" /\ Others
           /\ kid # el => kids'[el] = Put(kids[el], ind, made')
           /\ child' = Put(child, ind, made') /\ kind'[made'] = "block"
           /\ \E sv, vl \in 0 .. 1 :
                 /\ made' = made + sv + vl + 1
                 /\ kids'[made'] = IF sv = 1 THEN <<made + 1, kid>> ELSE <<kid>>
                 /\ sv = 1 => /\ Len(kids[kid]) = 2 /\ kids'[made + 1] = <<kids[kid][1]>>
                              /\ kind'[made + 1] = "local"
                 /\ kids'[kid] = IF vl = 1 THEN <<made + sv + 1, Last(kids[kid])>>
                                 ELSE <<Last(kids[kid])>>
                 /\ vl = 1 => kids'[made + sv + 1] = <<>> /\ kind'[made + sv + 1] = "const"
                 /\ list' = IF sv = 1 THEN Append(list, made + 1) ELSE list
<1>. DEFINE last == Last(kids[kid])
<1>1. /\ ChildStep /\ mutator = "branch" /\ kind[kid] = "br_if"
      /\ cur_cnt' \in {cur_cnt, cur_cnt + 1}
    BY BreakIfEdits
<1>2. /\ ArenaOK /\ made \in Nat /\ kid \in 1 .. made /\ seen \subseteq 1 .. made
      /\ list \in Seq(1 .. made)
    BY <1>1, ChildAt
<1>3. last \in 1 .. made
    BY <1>1, <1>2, TargetAt
<1>4. Len(kids[kid]) = 2 => kids[kid][1] \in 1 .. made
    BY <1>2, ArenaOKs
<1>5. (\A n : Arity("block", n)) /\ \A n \in 1 .. 2 : Arity(kind[kid], n)
    BY <1>1 DEF Arity
<1>6. "block" \in Wrote /\ "local" \in Wrote /\ "const" \in Wrote
    BY DEF Wrote, AllKinds
<1>7. ASSUME NEW w  PROVE Fits("const", <<>>, w)
    BY <1>6, EmptySeq DEF Fits, Arity
<1>. HIDE DEF last
<1>8. CASE /\ Edit(<<Expr("block", <<kid>>)>>,
                     Both(kid, <<last>>, el, Put(kids[el], ind, made + 1)))
           /\ child' = Put(child, ind, made + 1) /\ list' = list
    <2>. DEFINE s == <<last>>
                given == Both(kid, s, el, Put(kids[el], ind, made + 1))
    <2>1. /\ made + 1 \in Nat /\ made <= made + 1 /\ 1 .. made \subseteq 1 .. made + 1
          /\ made + 1 \in 1 .. made + 1
        BY <1>2
    <2>2. <<kid>> \in Seq(1 .. made + 1)
        BY <1>2, <2>1
    <2>3. s \in Seq(1 .. made + 1) /\ Len(s) \in 1 .. 2
        BY <1>3, <2>1
    <2>4. Fits("block", <<kid>>, made + 1)
        BY <1>5, <1>6, <2>2 DEF Fits
    <2>. HIDE DEF s
    <2>5. /\ Gives(given, made + 1) /\ list \in Seq(1 .. made + 1)
          /\ child' \in Seq(1 .. made + 1) /\ Len(child') = Len(child)
          /\ Kept(given) => /\ Others /\ kids'[kid] = s
                            /\ kid # el => kids'[el] = Put(kids[el], ind, made + 1)
        BY <1>1, <1>5, <1>8, <2>1, <2>3, BreakIfGives
    <2>6. Edit(<<Expr("block", <<kid>>)>>, given)
        BY <1>8 DEF s
    <2>. HIDE DEF given
    <2>7. /\ Kept(given) /\ made' = made + 1
          /\ kind'[made + 1] = "block" /\ kids'[made + 1] = <<kid>>
        BY <1>2, <2>4, <2>5, <2>6, EditOne
    <2>8. list' \in Seq(1 .. made')
        BY <1>8, <2>1, <2>5, <2>7
    <2>9. TypeInv'
        BY <1>1, <1>2, <2>5, <2>7, <2>8, ChildTypes DEF Kept
    <2>10. 0 \in 0 .. 1 /\ 0 \in 0 .. 1 /\ made' = made + 0 + 0 + 1 /\ made + 0 + 1 = made + 1
        BY <1>2, <2>7
    <2>. QED  BY <1>1, <1>8, <2>5, <2>7, <2>9, <2>10 DEF s, last
<1>9. CASE /\ Edit(<<Expr("const", <<>>), Expr("block", <<kid>>)>>,
                     Both(kid, <<made + 1, last>>, el, Put(kids[el], ind, made + 2)))
           /\ child' = Put(child, ind, made + 2) /\ list' = list
    <2>. DEFINE s == <<made + 1, last>>
                given == Both(kid, s, el, Put(kids[el], ind, made + 2))
    <2>1. /\ made + 2 \in Nat /\ made <= made + 2 /\ 1 .. made \subseteq 1 .. made + 2
          /\ made + 1 \in 1 .. made + 2 /\ made + 2 \in 1 .. made + 2
        BY <1>2
    <2>2. <<kid>> \in Seq(1 .. made + 2)
        BY <1>2, <2>1
    <2>3. s \in Seq(1 .. made + 2) /\ Len(s) \in 1 .. 2
        BY <1>3, <2>1
    <2>4. Fits("block", <<kid>>, made + 2)
        BY <1>5, <1>6, <2>2 DEF Fits
    <2>. HIDE DEF s
    <2>5. /\ Gives(given, made + 2) /\ list \in Seq(1 .. made + 2)
          /\ child' \in Seq(1 .. made + 2) /\ Len(child') = Len(child)
          /\ Kept(given) => /\ Others /\ kids'[kid] = s
                            /\ kid # el => kids'[el] = Put(kids[el], ind, made + 2)
        BY <1>1, <1>5, <1>9, <2>1, <2>3, BreakIfGives
    <2>6. Edit(<<Expr("const", <<>>), Expr("block", <<kid>>)>>, given)
        BY <1>9 DEF s
    <2>. HIDE DEF given
    <2>7. /\ Kept(given) /\ made' = made + 2
          /\ kind'[made + 1] = "const" /\ kids'[made + 1] = <<>>
          /\ kind'[made + 2] = "block" /\ kids'[made + 2] = <<kid>>
        BY <1>2, <1>7, <2>4, <2>5, <2>6, EditTwo
    <2>8. list' \in Seq(1 .. made')
        BY <1>9, <2>1, <2>5, <2>7
    <2>9. TypeInv'
        BY <1>1, <1>2, <2>5, <2>7, <2>8, ChildTypes DEF Kept
    <2>10. 0 \in 0 .. 1 /\ 1 \in 0 .. 1 /\ made' = made + 0 + 1 + 1 /\ made + 0 + 1 = made + 1
        BY <1>2, <2>7
    <2>. QED  BY <1>1, <1>9, <2>5, <2>7, <2>9, <2>10 DEF s, last
<1>10. CASE /\ Len(kids[kid]) = 2 /\ Edit(<<Expr("local", <<kids[kid][1]>>), Expr("block", <<made + 1, kid>>)>>,
                     Both(kid, <<last>>, el, Put(kids[el], ind, made + 2)))
           /\ child' = Put(child, ind, made + 2) /\ list' = Append(list, made + 1)
    <2>. DEFINE s == <<last>>
                given == Both(kid, s, el, Put(kids[el], ind, made + 2))
    <2>1. /\ made + 2 \in Nat /\ made <= made + 2 /\ 1 .. made \subseteq 1 .. made + 2
          /\ made + 1 \in 1 .. made + 2 /\ made + 2 \in 1 .. made + 2
        BY <1>2
    <2>2. <<kids[kid][1]>> \in Seq(1 .. made + 2) /\ <<made + 1, kid>> \in Seq(1 .. made + 2)
        BY <1>2, <1>4, <1>10, <2>1
    <2>3. s \in Seq(1 .. made + 2) /\ Len(s) \in 1 .. 2
        BY <1>3, <2>1
    <2>4. Fits("block", <<made + 1, kid>>, made + 2) /\ Fits("local", <<kids[kid][1]>>, made + 2)
        BY <1>5, <1>6, <2>2 DEF Fits
    <2>. HIDE DEF s
    <2>5. /\ Gives(given, made + 2) /\ list \in Seq(1 .. made + 2)
          /\ child' \in Seq(1 .. made + 2) /\ Len(child') = Len(child)
          /\ Kept(given) => /\ Others /\ kids'[kid] = s
                            /\ kid # el => kids'[el] = Put(kids[el], ind, made + 2)
        BY <1>1, <1>5, <1>10, <2>1, <2>3, BreakIfGives
    <2>6. Edit(<<Expr("local", <<kids[kid][1]>>), Expr("block", <<made + 1, kid>>)>>, given)
        BY <1>10 DEF s
    <2>. HIDE DEF given
    <2>7. /\ Kept(given) /\ made' = made + 2
          /\ kind'[made + 1] = "local" /\ kids'[made + 1] = <<kids[kid][1]>>
          /\ kind'[made + 2] = "block" /\ kids'[made + 2] = <<made + 1, kid>>
        BY <1>2, <2>4, <2>5, <2>6, EditTwo
    <2>8. list' \in Seq(1 .. made')
        BY <1>10, <2>1, <2>5, <2>7, AppendProperties
    <2>9. TypeInv'
        BY <1>1, <1>2, <2>5, <2>7, <2>8, ChildTypes DEF Kept
    <2>10. 1 \in 0 .. 1 /\ 0 \in 0 .. 1 /\ made' = made + 1 + 0 + 1 /\ made + 1 + 1 = made + 2
        BY <1>2, <2>7
    <2>. QED  BY <1>1, <1>10, <2>5, <2>7, <2>9, <2>10 DEF s, last
<1>11. CASE /\ Len(kids[kid]) = 2
            /\ Edit(<<Expr("local", <<kids[kid][1]>>), Expr("const", <<>>),
                      Expr("block", <<made + 1, kid>>)>>,
                     Both(kid, <<made + 2, last>>, el, Put(kids[el], ind, made + 3)))
            /\ child' = Put(child, ind, made + 3) /\ list' = Append(list, made + 1)
    <2>. DEFINE s == <<made + 2, last>>
                given == Both(kid, s, el, Put(kids[el], ind, made + 3))
    <2>1. /\ made + 3 \in Nat /\ made <= made + 3 /\ 1 .. made \subseteq 1 .. made + 3
          /\ made + 1 \in 1 .. made + 3 /\ made + 2 \in 1 .. made + 3 /\ made + 3 \in 1 .. made + 3
        BY <1>2
    <2>2. <<kids[kid][1]>> \in Seq(1 .. made + 3) /\ <<made + 1, kid>> \in Seq(1 .. made + 3)
        BY <1>2, <1>4, <1>11, <2>1
    <2>3. s \in Seq(1 .. made + 3) /\ Len(s) \in 1 .. 2
        BY <1>3, <2>1
    <2>4. Fits("block", <<made + 1, kid>>, made + 3) /\ Fits("local", <<kids[kid][1]>>, made + 3)
        BY <1>5, <1>6, <2>2 DEF Fits
    <2>. HIDE DEF s
    <2>5. /\ Gives(given, made + 3) /\ list \in Seq(1 .. made + 3)
          /\ child' \in Seq(1 .. made + 3) /\ Len(child') = Len(child)
          /\ Kept(given) => /\ Others /\ kids'[kid] = s
                            /\ kid # el => kids'[el] = Put(kids[el], ind, made + 3)
        BY <1>1, <1>5, <1>11, <2>1, <2>3, BreakIfGives
    <2>6. Edit(<<Expr("local", <<kids[kid][1]>>), Expr("const", <<>>),
                 Expr("block", <<made + 1, kid>>)>>, given)
        BY <1>11 DEF s
    <2>. HIDE DEF given
    <2>7. /\ Kept(given) /\ made' = made + 3
          /\ kind'[made + 1] = "local" /\ kids'[made + 1] = <<kids[kid][1]>>
          /\ kind'[made + 2] = "const" /\ kids'[made + 2] = <<>>
          /\ kind'[made + 3] = "block" /\ kids'[made + 3] = <<made + 1, kid>>
        BY <1>2, <1>7, <2>4, <2>5, <2>6, EditThree
    <2>8. list' \in Seq(1 .. made')
        BY <1>11, <2>1, <2>5, <2>7, AppendProperties
    <2>9. TypeInv'
        BY <1>1, <1>2, <2>5, <2>7, <2>8, ChildTypes DEF Kept
    <2>10. 1 \in 0 .. 1 /\ 1 \in 0 .. 1 /\ made' = made + 1 + 1 + 1 /\ made + 1 + 1 = made + 2
        BY <1>2, <2>7
    <2>. QED  BY <1>1, <1>11, <2>5, <2>7, <2>9, <2>10 DEF s, last
<1>. QED  BY <1>8, <1>9, <1>10, <1>11, BreakIfEdits DEF last

\* br_table: a new one with the old condition, and with vl = 1 a value.
LEMMA SwitchTypes ==
    ASSUME TypeInv, SwitchReplaced
    PROVE  /\ TypeInv' /\ ChildStep /\ mutator = "branch" /\ kind[kid] = "switch" /\ Others
           /\ kids'[el] = Put(kids[el], ind, made')
           /\ child' = Put(child, ind, made') /\ list' = Append(list, Last(kids[kid]))
           /\ kind'[made'] = "switch"
           /\ \/ made' = made + 1 /\ kids'[made'] = <<Last(kids[kid])>>
              \/ /\ made' = made + 2 /\ kids'[made'] = <<made + 1, Last(kids[kid])>>
                 /\ kids'[made + 1] = <<>> /\ kind'[made + 1] = "const"
<1>. DEFINE last == Last(kids[kid])
            r(w) == Put(kids[el], ind, w)
            given(w) == [n \in {el} |-> r(w)]
<1>0. /\ ChildStep /\ mutator = "branch" /\ kind[kid] = "switch"
      /\ cur_cnt' \in {cur_cnt, cur_cnt + 1} /\ list' = Append(list, last)
      /\ \E val \in Values :
             /\ Edit(val \o <<Expr("switch", Append(ValueAt(val, made + 1), last))>>,
                     given(made + Len(val) + 1))
             /\ child' = Put(child, ind, made + Len(val) + 1)
    BY DEF SwitchReplaced, Mutated, With, Put
<1>1. /\ ArenaOK /\ made \in Nat /\ kid \in 1 .. made /\ seen \subseteq 1 .. made /\ el \in 1 .. made
      /\ list \in Seq(1 .. made) /\ child \in Seq(1 .. made) /\ kids[el] \in Seq(1 .. made)
      /\ Arity(kind[el], Len(kids[el])) \/ kind[el] = "local"
    BY <1>0, ChildAt
<1>2. last \in 1 .. made
    BY <1>0, <1>1, TargetAt
<1>3. Arity("switch", 1) /\ Arity("switch", 2) /\ "switch" \in Wrote
    BY DEF Arity, Wrote, AllKinds
<1>. HIDE DEF last
<1>4. ASSUME NEW w \in Nat, made < w
      PROVE  /\ Gives(given(w), w)
             /\ Kept(given(w)) /\ made' = w => Others /\ kids'[el] = r(w)
             /\ Put(child, ind, w) \in Seq(1 .. w) /\ Len(Put(child, ind, w)) = Len(child)
             /\ Append(list, last) \in Seq(1 .. w) /\ last \in 1 .. w /\ w \in 1 .. w
    <2>1. w \in 1 .. w /\ made <= w /\ 1 .. made \subseteq 1 .. w
        BY <1>1, <1>4
    <2>2. r(w) \in Seq(1 .. w) /\ Len(r(w)) = Len(kids[el])
        BY <1>1, <2>1, PutGrows
    <2>3. Put(child, ind, w) \in Seq(1 .. w) /\ Len(Put(child, ind, w)) = Len(child)
        BY <1>1, <2>1, PutGrows
    <2>4. Append(list, last) \in Seq(1 .. w) /\ last \in 1 .. w
        BY <1>1, <1>2, <2>1, SeqMonotonic, AppendProperties
    <2>5. kind[el] # "local" => Arity(kind[el], Len(r(w)))
        BY <1>1, <2>2
    <2>. HIDE DEF r
    <2>6. Gives(given(w), w)
          /\ (Kept(given(w)) => \A n \in 1 .. made : kids'[n] = IF n = el THEN r(w) ELSE kids[n])
        BY <1>1, <2>2, <2>5, OneGiven
    <2>. HIDE DEF given
    <2>7. Kept(given(w)) => Others /\ kids'[el] = r(w)
        BY <1>1, <2>6 DEF Kept, Others
    <2>. QED  BY <2>1, <2>3, <2>4, <2>6, <2>7
<1>. HIDE DEF given
<1>5. PICK val \in Values :
          /\ Edit(val \o <<Expr("switch", Append(ValueAt(val, made + 1), last))>>,
                  given(made + Len(val) + 1))
          /\ child' = Put(child, ind, made + Len(val) + 1)
    BY <1>0
<1>6. CASE val = <<>>
    <2>1. made + Len(val) + 1 = made + 1 /\ made + 1 \in Nat /\ made < made + 1
        BY <1>1, <1>6
    <2>2. val \o <<Expr("switch", Append(ValueAt(val, made + 1), last))>> = <<Expr("switch", <<last>>)>>
        BY <1>6, ValueAtIs, Tuples, SMTT(30), ZenonT(60)
    <2>3. Edit(<<Expr("switch", <<last>>)>>, given(made + 1)) /\ child' = Put(child, ind, made + 1)
        BY <1>5, <2>1, <2>2
    <2>4. <<last>> \in Seq(1 .. made + 1) /\ Len(<<last>>) = 1
        BY <1>4, <2>1
    <2>5. Fits("switch", <<last>>, made + 1)
        BY <1>3, <2>4 DEF Fits
    <2>6. /\ Kept(given(made + 1)) /\ made' = made + 1
          /\ kind'[made + 1] = "switch" /\ kids'[made + 1] = <<last>>
        BY <1>1, <1>4, <2>1, <2>3, <2>5, EditOne
    <2>7. /\ Others /\ kids'[el] = r(made + 1) /\ list' \in Seq(1 .. made')
          /\ child' \in Seq(1 .. made') /\ Len(child') = Len(child)
        BY <1>0, <1>4, <2>1, <2>3, <2>6
    <2>8. TypeInv'
        BY <1>0, <1>1, <2>6, <2>7, ChildTypes DEF Kept
    <2>. QED  BY <1>0, <2>3, <2>6, <2>7, <2>8 DEF last
<1>7. CASE val = <<Expr("const", <<>>)>>
    <2>1. Len(val) = 1 /\ made + 2 \in Nat /\ made < made + 2 /\ made + 1 \in 1 .. made + 2
        BY <1>1, <1>7
    <2>2. made + Len(val) + 1 = made + 2
        BY <1>1, <2>1
    <2>3. Append(ValueAt(val, made + 1), last) = <<made + 1, last>>
        BY <1>7, ValueAtIs, Tuples
    <2>4. val \o <<Expr("switch", <<made + 1, last>>)>>
              = <<Expr("const", <<>>), Expr("switch", <<made + 1, last>>)>>
        BY <1>7, Tuples
    <2>5. /\ Edit(<<Expr("const", <<>>), Expr("switch", <<made + 1, last>>)>>, given(made + 2))
          /\ child' = Put(child, ind, made + 2)
        BY <1>5, <2>2, <2>3, <2>4
    <2>6. <<made + 1, last>> \in Seq(1 .. made + 2) /\ Len(<<made + 1, last>>) = 2
        BY <1>4, <2>1
    <2>7. Fits("switch", <<made + 1, last>>, made + 2)
        BY <1>3, <2>6 DEF Fits
    <2>8. Fits("const", <<>>, made + 2)
        BY EmptySeq DEF Fits, Wrote, AllKinds, Arity
    <2>9. /\ Kept(given(made + 2)) /\ made' = made + 2
          /\ kind'[made + 1] = "const" /\ kids'[made + 1] = <<>>
          /\ kind'[made + 2] = "switch" /\ kids'[made + 2] = <<made + 1, last>>
        BY <1>1, <1>4, <2>1, <2>5, <2>7, <2>8, EditTwo, SMTT(30), ZenonT(60)
    <2>10. /\ Others /\ kids'[el] = r(made + 2) /\ list' \in Seq(1 .. made')
           /\ child' \in Seq(1 .. made') /\ Len(child') = Len(child)
        BY <1>0, <1>4, <2>1, <2>5, <2>9
    <2>11. TypeInv'
        BY <1>0, <1>1, <2>9, <2>10, ChildTypes DEF Kept
    <2>. QED  BY <1>0, <2>5, <2>9, <2>10, <2>11 DEF last
<1>. QED  BY <1>6, <1>7 DEF Values

\* InsertAt moves what is behind the place by one.
LEMMA InsertSeq ==
    ASSUME NEW S, NEW s \in Seq(S), NEW k \in 1 .. Len(s), NEW e \in S
    PROVE  /\ InsertAt(s, k, e) \in Seq(S)
           /\ Len(InsertAt(s, k, e)) = Len(s) + 1
           /\ \A i \in 1 .. Len(s) + 1 :
                 InsertAt(s, k, e)[i] = IF i < k THEN s[i] ELSE IF i = k THEN e ELSE s[i - 1]
<1>. DEFINE a == SubSeq(s, 1, k - 1)
            b == SubSeq(s, k, Len(s))
            f == a \o <<e>>
<1>1. Len(s) \in Nat /\ k \in Nat /\ k >= 1 /\ k <= Len(s)
    BY LenProperties
<1>2. /\ a \in Seq(S) /\ Len(a) = k - 1
      /\ \A i \in 1 .. k - 1 : a[i] = s[i]
    <2>1. \A i \in 1 .. k - 1 : s[i] \in S
        BY <1>1, ElementOfSeq
    <2>2. k - 1 \in Int /\ 1 \in Int
        BY <1>1
    <2>3. /\ a \in Seq(S) /\ Len(a) = IF 1 <= k - 1 THEN (k - 1) - 1 + 1 ELSE 0
          /\ \A i \in 1 .. (k - 1) - 1 + 1 : a[i] = s[1 + i - 1]
        BY <2>1, <2>2, SubSeqProperties
    <2>. QED  BY <1>1, <2>3
<1>3. /\ b \in Seq(S) /\ Len(b) = Len(s) - k + 1
      /\ \A i \in 1 .. Len(s) - k + 1 : b[i] = s[k + i - 1]
    <2>1. \A i \in k .. Len(s) : s[i] \in S
        BY <1>1, ElementOfSeq
    <2>2. /\ b \in Seq(S) /\ Len(b) = IF k <= Len(s) THEN Len(s) - k + 1 ELSE 0
          /\ \A i \in 1 .. Len(s) - k + 1 : b[i] = s[k + i - 1]
        BY <1>1, <2>1, SubSeqProperties
    <2>. QED  BY <1>1, <2>2
<1>. HIDE DEF a, b
<1>4. <<e>> \in Seq(S) /\ Len(<<e>>) = 1 /\ <<e>>[1] = e
    OBVIOUS
<1>5. /\ f \in Seq(S) /\ Len(f) = k
      /\ \A i \in 1 .. k : f[i] = IF i < k THEN s[i] ELSE e
    <2>1. /\ f \in Seq(S) /\ Len(f) = Len(a) + Len(<<e>>)
          /\ \A i \in 1 .. Len(a) + Len(<<e>>) :
                f[i] = IF i <= Len(a) THEN a[i] ELSE <<e>>[i - Len(a)]
        BY <1>2, <1>4, ConcatProperties
    <2>2. Len(a) + Len(<<e>>) = k
        BY <1>1, <1>2, <1>4
    <2>3. ASSUME NEW i \in 1 .. k  PROVE f[i] = IF i < k THEN s[i] ELSE e
        <3>1. CASE i < k
            <4>1. i <= Len(a) /\ i \in 1 .. k - 1
                BY <1>1, <1>2, <3>1
            <4>. QED  BY <1>2, <2>1, <2>2, <3>1, <4>1
        <3>2. CASE i = k
            <4>1. ~(i <= Len(a)) /\ i - Len(a) = 1
                BY <1>1, <1>2, <3>2
            <4>2. f[i] = <<e>>[i - Len(a)]
                BY <2>1, <2>2, <4>1
            <4>. QED  BY <1>1, <1>4, <3>2, <4>1, <4>2
        <3>3. i < k \/ i = k
            BY <1>1
        <3>. QED  BY <3>1, <3>2, <3>3
    <2>. QED  BY <2>1, <2>2, <2>3
<1>. HIDE DEF f
<1>6. InsertAt(s, k, e) = f \o b
    BY DEF InsertAt, f, a, b
<1>7. /\ f \o b \in Seq(S) /\ Len(f \o b) = Len(f) + Len(b)
      /\ \A i \in 1 .. Len(f) + Len(b) : (f \o b)[i] = IF i <= Len(f) THEN f[i] ELSE b[i - Len(f)]
    BY <1>3, <1>5, ConcatProperties
<1>8. Len(f) + Len(b) = Len(s) + 1
    BY <1>1, <1>3, <1>5
<1>9. ASSUME NEW i \in 1 .. Len(s) + 1
      PROVE  (f \o b)[i] = IF i < k THEN s[i] ELSE IF i = k THEN e ELSE s[i - 1]
    <2>1. CASE i <= k
        <3>1. i \in 1 .. k /\ (f \o b)[i] = f[i] /\ (i < k \/ i = k)
            BY <1>1, <1>5, <1>7, <1>8, <2>1
        <3>. QED  BY <1>1, <1>5, <3>1
    <2>2. CASE i > k
        <3>1. /\ ~(i <= Len(f)) /\ i - Len(f) = i - k /\ i - k \in 1 .. Len(s) - k + 1
              /\ k + (i - k) - 1 = i - 1 /\ ~(i < k) /\ i # k
            BY <1>1, <1>5, <2>2
        <3>2. (f \o b)[i] = b[i - k]
            BY <1>7, <1>8, <3>1
        <3>. QED  BY <1>3, <3>1, <3>2
    <2>3. i <= k \/ i > k
        BY <1>1
    <2>. QED  BY <2>1, <2>2, <2>3
<1>. QED  BY <1>6, <1>7, <1>8, <1>9

\* The types at the end of the children.
LEMMA EndTypes ==
    ASSUME TypeInv, ChildrenEnd, ArenaOK', 1 .. made \subseteq 1 .. made', seen' \subseteq 1 .. made',
           cur_ins' \in Nat
    PROVE  /\ TypeInv' /\ pc = "child" /\ pc' = "list" /\ list' = list /\ child' = <<>> /\ ind' = 1
           /\ UNCHANGED <<body, mutator>> /\ el \in 1 .. made /\ made \in Nat /\ body \in 1 .. made
           /\ ArenaOK /\ seen \subseteq 1 .. made /\ ind > Len(child)
<1>0. ArenaOK /\ StageOK /\ WalkOK /\ ControlInv
    BY DEF TypeInv
<1>1. /\ pc = "child" /\ pc' = "list" /\ el' = None /\ child' = <<>> /\ ind' = 1
      /\ ind > Len(child)
      /\ UNCHANGED <<body, stage_cur, mutator, max_cnt, max_ins, cur_cnt, funcs, list, root>>
    BY DEF ChildrenEnd, counts
<1>2. made \in Nat /\ made' \in Nat /\ list \in Seq(1 .. made) /\ seen \subseteq 1 .. made
    BY <1>0, ArenaOKs, TreeAssumption DEF ArenaOK, Node, WalkOK
<1>3. list' \in Seq(1 .. made') /\ <<>> \in Seq(1 .. made') /\ Len(<<>>) = 0 /\ None \in 0 .. made'
    BY <1>1, <1>2, SeqMonotonic, EmptySeq DEF None
<1>4. body \in 1 .. made /\ el \in 1 .. made
    BY <1>0, <1>1, <1>2 DEF ControlInv, Walking, None, WalkOK
<1>5. body \in 0 .. made' /\ body # None
    <2>1. body \in 1 .. made'
        BY <1>4
    <2>. QED  BY <1>2, <2>1 DEF None
<1>6. StageOK'
    BY <1>0, <1>1 DEF StageOK
<1>7. WalkOK'
    BY <1>1, <1>3 DEF WalkOK
<1>8. ControlInv'
    BY <1>0, <1>1, <1>5 DEF ControlInv, Walking
<1>. QED  BY <1>0, <1>1, <1>2, <1>4, <1>6, <1>7, <1>8 DEF TypeInv

\* NotInserted leaves the expressions alone.
LEMMA NotInsertedTypes ==
    ASSUME TypeInv, NotInserted
    PROVE  TypeInv' /\ ChildrenEnd /\ UNCHANGED <<kind, kids, made, seen>>
<1>1. ChildrenEnd /\ UNCHANGED <<kind, kids, made, seen, cur_ins>>
    BY DEF NotInserted
<1>2. ArenaOK' /\ seen' \subseteq 1 .. made' /\ cur_ins' \in Nat
    BY <1>1 DEF TypeInv, ArenaOK, WalkOK, StageOK
<1>. QED  BY <1>1, <1>2, EndTypes

\* Inserted: a new constant among the children of the element.
LEMMA InsertedTypes ==
    ASSUME TypeInv, Inserted
    PROVE  /\ TypeInv' /\ ChildrenEnd /\ mutator = "splice"
           /\ made' = made + 1 /\ seen' = seen \cup (made + 1 .. made')
           /\ kind'[made + 1] = "const" /\ kids'[made + 1] = <<>>
           /\ \A n \in 1 .. made : kind'[n] = kind[n] /\ (n # el => kids'[n] = kids[n])
           /\ \E k \in 1 .. Len(kids[el]) :
                 /\ Len(kids'[el]) = Len(kids[el]) + 1
                 /\ \A i \in 1 .. Len(kids[el]) + 1 :
                       kids'[el][i] = IF i < k THEN kids[el][i]
                                      ELSE IF i = k THEN made + 1 ELSE kids[el][i - 1]
           /\ kind[el] = "block"
<1>0. ArenaOK /\ StageOK /\ WalkOK /\ ControlInv
    BY DEF TypeInv
<1>1. /\ ChildrenEnd /\ mutator = "splice" /\ kind[el] = "block" /\ cur_ins' = cur_ins + 1
      /\ pc = "child"
      /\ \E i \in 1 .. Len(kids[el]) :
            Edit(<<Expr("const", <<>>)>>, [n \in {el} |-> InsertAt(kids[el], i, made + 1)])
    BY DEF Inserted, ChildrenEnd
<1>2. PICK k \in 1 .. Len(kids[el]) :
            Edit(<<Expr("const", <<>>)>>, [n \in {el} |-> InsertAt(kids[el], k, made + 1)])
    BY <1>1
<1>3. made \in Nat /\ seen \subseteq 1 .. made /\ el \in 1 .. made /\ kids[el] \in Seq(1 .. made)
    <2>1. made \in Nat
        BY <1>0, ArenaOKs
    <2>2. el \in 1 .. made
        BY <1>0, <1>1, <2>1 DEF ControlInv, WalkOK, None
    <2>. QED  BY <1>0, <2>1, <2>2, ArenaOKs DEF WalkOK
<1>. DEFINE s == InsertAt(kids[el], k, made + 1)
            given == [n \in {el} |-> s]
<1>4. 1 .. made \subseteq 1 .. made + 1 /\ made + 1 \in 1 .. made + 1
    BY <1>3
<1>5. kids[el] \in Seq(1 .. made + 1)
    BY <1>3, <1>4, SeqMonotonic
<1>6. /\ s \in Seq(1 .. made + 1) /\ Len(s) = Len(kids[el]) + 1
      /\ \A i \in 1 .. Len(kids[el]) + 1 :
            s[i] = IF i < k THEN kids[el][i] ELSE IF i = k THEN made + 1 ELSE kids[el][i - 1]
    <2>1. ASSUME NEW S, NEW q \in Seq(S), q = kids[el], NEW e \in S, e = made + 1
          PROVE  /\ s \in Seq(S) /\ Len(s) = Len(q) + 1
                 /\ \A i \in 1 .. Len(q) + 1 :
                       s[i] = IF i < k THEN q[i] ELSE IF i = k THEN e ELSE q[i - 1]
        <3>1. k \in 1 .. Len(q) /\ s = InsertAt(q, k, e)
            BY <2>1
        <3>. HIDE DEF s
        <3>2. /\ InsertAt(q, k, e) \in Seq(S) /\ Len(InsertAt(q, k, e)) = Len(q) + 1
              /\ \A i \in 1 .. Len(q) + 1 :
                    InsertAt(q, k, e)[i] = IF i < k THEN q[i] ELSE IF i = k THEN e ELSE q[i - 1]
            BY <3>1, InsertSeq
        <3>. QED  BY <3>1, <3>2
    <2>. HIDE DEF s
    <2>2. ASSUME NEW S, kids[el] \in Seq(S), made + 1 \in S
          PROVE  /\ s \in Seq(S) /\ Len(s) = Len(kids[el]) + 1
                 /\ \A i \in 1 .. Len(kids[el]) + 1 : s[i] =
                       IF i < k THEN kids[el][i] ELSE IF i = k THEN made + 1 ELSE kids[el][i - 1]
        BY <2>1, <2>2
    <2>. QED  BY <1>4, <1>5, <2>2
<1>7. Edit(<<Expr("const", <<>>)>>, given)
    BY <1>2
<1>. HIDE DEF s
<1>8. kind[el] # "local" => Arity(kind[el], Len(s))
    BY <1>1 DEF Arity
<1>9. /\ Gives(given, made + 1)
      /\ Kept(given) => \A n \in 1 .. made : kids'[n] = IF n = el THEN s ELSE kids[n]
    BY <1>3, <1>6, <1>8, OneGiven
<1>. HIDE DEF given
<1>10. Fits("const", <<>>, made + 1)
    BY EmptySeq DEF Fits, Wrote, AllKinds, Arity
<1>11. /\ Kept(given) /\ made' = made + 1
       /\ kind'[made + 1] = "const" /\ kids'[made + 1] = <<>>
    BY <1>0, <1>7, <1>9, <1>10, EditOne
<1>12. cur_ins' \in Nat
    BY <1>0, <1>1 DEF StageOK
<1>13. TypeInv'
    BY <1>1, <1>3, <1>11, <1>12, EndTypes DEF Kept
<1>14. kids'[el] = s /\ \A n \in 1 .. made : kind'[n] = kind[n] /\ (n # el => kids'[n] = kids[n])
    BY <1>3, <1>9, <1>11 DEF Kept
<1>. QED  BY <1>1, <1>6, <1>11, <1>13, <1>14 DEF Kept

\* What holds at any step from pc = "root".
LEMMA RootAt ==
    ASSUME TypeInv, RootStep
    PROVE  /\ pc = "root" /\ pc' = "child" /\ root' = FALSE /\ list' = <<>> /\ list = <<>>
           /\ child' = child /\ child = kids[el] /\ ind' = 1 /\ ind = 1 /\ el = body
           /\ UNCHANGED <<stage_cur, mutator, max_cnt, max_ins, cur_ins, funcs>>
           /\ made \in Nat /\ el \in 1 .. made /\ kids[el] \in Seq(1 .. made)
           /\ ArenaOK /\ seen \subseteq 1 .. made /\ kind[el] \in Wrote
           /\ Arity(kind[el], Len(kids[el])) \/ kind[el] = "local"
<1>0. ArenaOK /\ StageOK /\ WalkOK /\ ControlInv
    BY DEF TypeInv
<1>1. /\ pc = "root" /\ pc' = "child" /\ root' = FALSE
      /\ UNCHANGED <<stage_cur, mutator, max_cnt, max_ins, cur_ins, funcs, list, child, ind>>
    BY DEF RootStep, counts
<1>2. ind = 1 /\ list = <<>> /\ el = body /\ child = kids[el] /\ body # None
    BY <1>0, <1>1 DEF ControlInv, Walking
<1>3. made \in Nat /\ seen \subseteq 1 .. made /\ MaxNodes \in Nat /\ made <= MaxNodes
    BY <1>0, ArenaOKs DEF WalkOK
<1>4. el \in 1 .. made
    BY <1>0, <1>2, <1>3 DEF ControlInv, None
<1>5. kids[el] \in Seq(1 .. made) /\ el \in Node
    BY <1>0, <1>3, <1>4, ArenaOKs DEF Node
<1>6. kind[el] \in Wrote /\ (Arity(kind[el], Len(kids[el])) \/ kind[el] = "local")
    BY <1>0, <1>4, <1>5 DEF ArenaOK
<1>. QED  BY <1>0, <1>1, <1>2, <1>3, <1>4, <1>5, <1>6

\* The rest of the types at such a step.
LEMMA RootTypes ==
    ASSUME TypeInv, RootStep, cur_cnt' \in {cur_cnt, cur_cnt + 1}, ArenaOK',
           1 .. made \subseteq 1 .. made', seen' \subseteq 1 .. made',
           el' \in 1 .. made', body' \in 1 .. made'
    PROVE  TypeInv'
<1>0. StageOK
    BY DEF TypeInv
<1>1. /\ pc' = "child" /\ root' = FALSE /\ list' = <<>> /\ child' = child /\ ind' = 1
      /\ UNCHANGED <<stage_cur, mutator, max_cnt, max_ins, cur_ins, funcs>>
      /\ made \in Nat /\ child \in Seq(1 .. made)
    BY RootAt
<1>2. made' \in Nat
    BY TreeAssumption DEF ArenaOK, Node
<1>3. StageOK'
    <2>1. cur_cnt' \in Nat /\ FALSE \in BOOLEAN
        BY <1>0 DEF StageOK
    <2>. QED  BY <1>0, <1>1, <2>1 DEF StageOK
<1>4. /\ list' \in Seq(1 .. made') /\ child' \in Seq(1 .. made') /\ Len(child') \in Nat
      /\ 1 \in 1 .. Len(child') + 1
    <2>1. child' \in Seq(1 .. made')
        BY <1>1, SeqMonotonic
    <2>2. Len(child') \in Nat
        BY <2>1, LenProperties
    <2>. QED  BY <1>1, <2>1, <2>2, EmptySeq
<1>5. el' \in 0 .. made' /\ body' \in 0 .. made' /\ el' # None /\ body' # None
    BY <1>2 DEF None
<1>6. WalkOK'
    BY <1>1, <1>4, <1>5 DEF WalkOK
<1>7. ControlInv'
    BY <1>1, <1>5 DEF ControlInv, Walking
<1>. QED  BY <1>3, <1>6, <1>7 DEF TypeInv

\* RootKept leaves the expressions alone.
LEMMA RootKeptTypes ==
    ASSUME TypeInv, RootKept
    PROVE  TypeInv' /\ RootStep /\ UNCHANGED <<kind, kids, made, body, el, seen>>
<1>1. /\ RootStep /\ UNCHANGED <<kind, kids, made, body, el, seen>>
      /\ cur_cnt' \in {cur_cnt, cur_cnt + 1}
    BY DEF RootKept, Mutated, tree
<1>2. ArenaOK /\ seen \subseteq 1 .. made /\ el \in 1 .. made /\ el = body
    BY <1>1, RootAt
<1>3. ArenaOK' /\ seen' \subseteq 1 .. made' /\ el' \in 1 .. made' /\ body' \in 1 .. made'
    BY <1>1, <1>2 DEF ArenaOK
<1>. QED  BY <1>1, <1>3, RootTypes

\* RootReplaced: what it makes.
LEMMA RootReplacedTypes ==
    ASSUME TypeInv, RootReplaced
    PROVE  /\ TypeInv' /\ RootStep /\ mutator = "operators"
           /\ made' = made + 1 /\ seen' = seen \cup (made + 1 .. made')
           /\ kind[el] \in {"op", "const"} /\ body' = made + 1 /\ el' = made + 1
           /\ kids'[made + 1] = kids[el] /\ kind'[made + 1] = kind[el]
           /\ \A n \in 1 .. made : kind'[n] = kind[n] /\ kids'[n] = kids[n]
<1>1. /\ RootStep /\ mutator = "operators" /\ kind[el] \in {"op", "const"}
      /\ Edit(<<Expr(kind[el], child)>>, <<>>)
      /\ body' = made + 1 /\ el' = made + 1 /\ cur_cnt' \in {cur_cnt, cur_cnt + 1}
    BY DEF RootReplaced, SetRoot, Mutated
<1>2. /\ ArenaOK /\ made \in Nat /\ child = kids[el] /\ kids[el] \in Seq(1 .. made)
      /\ seen \subseteq 1 .. made /\ kind[el] \in Wrote
      /\ Arity(kind[el], Len(kids[el])) \/ kind[el] = "local"
    BY <1>1, RootAt
<1>3. 1 .. made \subseteq 1 .. made + 1 /\ made + 1 \in 1 .. made + 1
    BY <1>2
<1>4. kids[el] \in Seq(1 .. made + 1)
    BY <1>2, <1>3, SeqMonotonic
<1>5. Fits(kind[el], kids[el], made + 1)
    BY <1>2, <1>4 DEF Fits
<1>6. DOMAIN <<>> = {}
    OBVIOUS
<1>7. Gives(<<>>, made + 1)
    BY <1>6 DEF Gives
<1>8. /\ Kept(<<>>) /\ made' = made + 1
      /\ kind'[made + 1] = kind[el] /\ kids'[made + 1] = kids[el]
    BY <1>1, <1>2, <1>5, <1>7, EditOne
<1>9. \A n \in 1 .. made : kind'[n] = kind[n] /\ kids'[n] = kids[n]
    BY <1>6, <1>8 DEF Kept
<1>10. TypeInv'
    BY <1>1, <1>2, <1>3, <1>8, RootTypes DEF Kept
<1>. QED  BY <1>1, <1>8, <1>9, <1>10 DEF Kept

\* RootWrapped: what it makes.
LEMMA RootWrappedTypes ==
    ASSUME TypeInv, RootWrapped
    PROVE  /\ TypeInv' /\ RootStep /\ mutator = "recursive"
           /\ made' = made + 1 /\ seen' = seen \cup (made + 1 .. made')
           /\ kind[el] = "block" /\ body' = made + 1 /\ el' = el
           /\ kids'[made + 1] = <<el>> /\ kind'[made + 1] = "block"
           /\ \A n \in 1 .. made : kind'[n] = kind[n] /\ kids'[n] = kids[n]
<1>1. /\ RootStep /\ mutator = "recursive" /\ kind[el] = "block"
      /\ Edit(<<Expr("block", <<el>>)>>, <<>>)
      /\ body' = made + 1 /\ el' = el /\ cur_cnt' \in {cur_cnt, cur_cnt + 1}
    BY DEF RootWrapped, Mutated
<1>2. /\ ArenaOK /\ made \in Nat /\ el \in 1 .. made /\ seen \subseteq 1 .. made
    BY <1>1, RootAt
<1>3. 1 .. made \subseteq 1 .. made + 1 /\ made + 1 \in 1 .. made + 1
    BY <1>2
<1>4. <<el>> \in Seq(1 .. made + 1) /\ el \in 1 .. made + 1
    BY <1>2, <1>3
<1>5. Fits("block", <<el>>, made + 1)
    BY <1>4 DEF Fits, Wrote, AllKinds, Arity
<1>6. DOMAIN <<>> = {}
    OBVIOUS
<1>7. Gives(<<>>, made + 1)
    BY <1>6 DEF Gives
<1>8. /\ Kept(<<>>) /\ made' = made + 1
      /\ kind'[made + 1] = "block" /\ kids'[made + 1] = <<el>>
    BY <1>1, <1>2, <1>5, <1>7, EditOne
<1>9. \A n \in 1 .. made : kind'[n] = kind[n] /\ kids'[n] = kids[n]
    BY <1>6, <1>8 DEF Kept
<1>10. TypeInv'
    BY <1>1, <1>2, <1>3, <1>4, <1>8, RootTypes DEF Kept
<1>. QED  BY <1>1, <1>8, <1>9, <1>10 DEF Kept

\* RootCallIndirect: what it makes and what the call_indirect is given.
LEMMA RootCallTypes ==
    ASSUME TypeInv, RootCallIndirect
    PROVE  /\ TypeInv' /\ RootStep /\ mutator = "call"
           /\ made' = made + 3 /\ seen' = seen \cup (made + 1 .. made')
           /\ kind[el] = "call_indirect" /\ body' = made + 3 /\ el' = el
           /\ kids'[made + 1] = <<Last(kids[el])>> /\ kind'[made + 1] = "local"
           /\ kids'[made + 2] = <<>> /\ kind'[made + 2] = "local"
           /\ kids'[made + 3] = <<made + 1, el>> /\ kind'[made + 3] = "block"
           /\ kids'[el] = Put(kids[el], Len(kids[el]), made + 2)
           /\ \A n \in 1 .. made : kind'[n] = kind[n] /\ (n # el => kids'[n] = kids[n])
<1>. DEFINE s == Put(kids[el], Len(kids[el]), made + 2)
            given == [n \in {el} |-> s]
<1>1. /\ RootStep /\ mutator = "call" /\ kind[el] = "call_indirect"
      /\ Edit(<<Expr("local", <<Last(kids[el])>>), Expr("local", <<>>),
                Expr("block", <<made + 1, el>>)>>, given)
      /\ body' = made + 3 /\ el' = el /\ cur_cnt' \in {cur_cnt, cur_cnt + 1}
    BY DEF RootCallIndirect, Hoisted, Retargeted, Mutated, Put
<1>2. /\ ArenaOK /\ made \in Nat /\ el \in 1 .. made /\ seen \subseteq 1 .. made
      /\ kids[el] \in Seq(1 .. made)
      /\ Arity(kind[el], Len(kids[el])) \/ kind[el] = "local"
    BY <1>1, RootAt
<1>3. /\ made + 3 \in Nat /\ made <= made + 3 /\ 1 .. made \subseteq 1 .. made + 3
      /\ made + 1 \in 1 .. made + 3 /\ made + 2 \in 1 .. made + 3 /\ made + 3 \in 1 .. made + 3
    BY <1>2
<1>4. Last(kids[el]) \in 1 .. made + 3 /\ el \in 1 .. made + 3
    BY <1>1, <1>2, <1>3, TargetAt
<1>5. s \in Seq(1 .. made + 3) /\ Len(s) = Len(kids[el])
    BY <1>2, <1>3, PutGrows
<1>6. Fits("local", <<Last(kids[el])>>, made + 3)
    <2>1. <<Last(kids[el])>> \in Seq(1 .. made + 3)
        BY <1>4
    <2>. QED  BY <2>1 DEF Fits, Wrote
<1>7. Fits("local", <<>>, made + 3)
    BY EmptySeq DEF Fits, Wrote
<1>8. Fits("block", <<made + 1, el>>, made + 3)
    <2>1. <<made + 1, el>> \in Seq(1 .. made + 3)
        BY <1>3, <1>4
    <2>2. "block" \in Wrote /\ \A n : Arity("block", n)
        BY DEF Wrote, AllKinds, Arity
    <2>. QED  BY <2>1, <2>2 DEF Fits
<1>. HIDE DEF s
<1>9. /\ Gives(given, made + 3)
      /\ Kept(given) => \A n \in 1 .. made : kids'[n] = IF n = el THEN s ELSE kids[n]
    BY <1>2, <1>5, OneGiven
<1>. HIDE DEF given
<1>10. /\ Kept(given) /\ made' = made + 3
       /\ kind'[made + 1] = "local" /\ kids'[made + 1] = <<Last(kids[el])>>
       /\ kind'[made + 2] = "local" /\ kids'[made + 2] = <<>>
       /\ kind'[made + 3] = "block" /\ kids'[made + 3] = <<made + 1, el>>
    BY <1>1, <1>2, <1>6, <1>7, <1>8, <1>9, EditThree
<1>11. kids'[el] = s /\ \A n \in 1 .. made : kind'[n] = kind[n] /\ (n # el => kids'[n] = kids[n])
    BY <1>2, <1>9, <1>10 DEF Kept
<1>12. TypeInv'
    BY <1>1, <1>2, <1>3, <1>4, <1>10, RootTypes DEF Kept
<1>. QED  BY <1>1, <1>10, <1>11, <1>12 DEF s, Kept

\* Every step keeps the types and the control.
LEMMA NextTypes ==
    TypeInv /\ [Next]_vars => TypeInv'
<1>. SUFFICES ASSUME TypeInv, [Next]_vars  PROVE TypeInv'
    OBVIOUS
<1>1. CASE Draw \/ NextFunc \/ WalkEnds \/ Return \/ Done
    BY <1>1, StageTypes
<1>2. CASE Visit
    BY <1>2, VisitTypes
<1>3. CASE RootKept
    BY <1>3, RootKeptTypes
<1>4. CASE RootReplaced
    BY <1>4, RootReplacedTypes
<1>5. CASE RootCallIndirect
    BY <1>5, RootCallTypes
<1>6. CASE RootWrapped
    BY <1>6, RootWrappedTypes
<1>7. CASE ChildKept
    BY <1>7, ChildKeptTypes
<1>8. CASE ChildReplaced
    BY <1>8, ReplacedTypes
<1>9. CASE ChildCallIndirect
    BY <1>9, CallTypes
<1>10. CASE ChildWrapped
    BY <1>10, WrappedTypes
<1>11. CASE BreakRetargeted
    BY <1>11, BreakTypes
<1>12. CASE BreakIfRetargeted
    BY <1>12, BreakIfTypes
<1>13. CASE SwitchReplaced
    BY <1>13, SwitchTypes
<1>14. CASE Overwritten
    BY <1>14, OverwrittenTypes
<1>15. CASE NotInserted
    BY <1>15, NotInsertedTypes
<1>16. CASE Inserted
    BY <1>16, InsertedTypes
<1>17. CASE Terminated \/ UNCHANGED vars
    <2>1. UNCHANGED <<kind, kids, made, body, pc, stage_cur, mutator, max_cnt, max_ins, cur_cnt,
                      cur_ins, funcs, list, root, el, child, ind, seen>>
        BY <1>17 DEF Terminated, vars, tree, counts, walk
    <2>2. ArenaOK'
        BY <2>1 DEF TypeInv, ArenaOK
    <2>3. StageOK'
        BY <2>1 DEF TypeInv, StageOK
    <2>4. WalkOK'
        BY <2>1 DEF TypeInv, WalkOK
    <2>5. ControlInv'
        BY <2>1 DEF TypeInv, ControlInv, Walking
    <2>. QED  BY <2>2, <2>3, <2>4, <2>5 DEF TypeInv
<1>. QED  BY <1>1, <1>2, <1>3, <1>4, <1>5, <1>6, <1>7, <1>8, <1>9, <1>10, <1>11, <1>12, <1>13,
             <1>14, <1>15, <1>16, <1>17 DEF Next

\* TypeOK, whatever the mutators do and also with nested targets: the arena only
\* holds expressions that exist, with the children their kinds require, and the
\* worklist and the copy of the children refer to them.
THEOREM TreeTypeCorrect == Spec => []TypeOK
<1>1. Init => TypeInv
    BY InitTypes
<1>2. TypeInv /\ [Next]_vars => TypeInv'
    BY NextTypes
<1>3. TypeInv => TypeOK
    BY TypeInvType
<1>. QED  BY <1>1, <1>2, <1>3, PTL DEF Spec
-----------------------------------------------------------------------------
(* The tree and the walk.                                                  *)

Thorough == {"interest", "operators", "recursive", "splice"}

\* The children still to be looked at, the worklist, and what is ahead.
Rest == {child[i] : i \in ind .. Len(child)}
Listed == {list[i] : i \in 1 .. Len(list)}
Ahead == Listed \cup Rest

\* The target of a call_indirect is not one: it can be moved out of the copy of
\* the children without being treated at its old place.
NestInv ==
    \A n \in 1 .. made : kind[n] = "call_indirect" => kind[Last(kids[n])] # "call_indirect"

\* What is left of the copy are the children, but for a target moved out.
CopyInv ==
    pc = "child" =>
        /\ Len(child) = Len(kids[el])
        /\ \A i \in ind .. Len(child) :
              child[i] = kids[el][i] \/ (mutator = "call" /\ kind[child[i]] # "call_indirect")

\* Nothing is ahead twice.
OnceInv ==
    /\ \A i, j \in 1 .. Len(list) : list[i] = list[j] => i = j
    /\ \A i, j \in ind .. Len(child) : child[i] = child[j] => i = j
    /\ Listed \cap Rest = {}

\* The function is a tree, and there is a part of it that has been opened, with
\* the element at hand, which holds all that is ahead.
TreeInv ==
    body # None =>
        /\ Once(kids, body, Attached)
        /\ \E U : /\ Open(kids, body, Attached, U, Ahead)
                  /\ pc \in {"root", "child"} => el \in U

\* The mutators that visit everything: each child of an element they have done
\* with was visited or is ahead.
SeenInv ==
    Walking /\ mutator \in Thorough => Sown(kids, body, Attached, seen, Listed, Ahead)

WalkInv == NestInv /\ CopyInv /\ OnceInv /\ TreeInv /\ SeenInv

\* Attached is what hangs below the body, before and after a step.
LEMMA AttachedHangs ==
    /\ Attached = Hangs(kids, body, made)
    /\ Attached' = Hangs(kids', body', made')
<1>1. Attached = Hangs(kids, body, made)
    BY DEF Attached, Hangs, Closed, Shut
<1>2. Attached' = Hangs(kids', body', made')
    BY DEF Attached, Hangs, Closed, Shut
<1>. QED  BY <1>1, <1>2

\* An arena as one of ArenaPlaces, before and after a step.
LEMMA Arenas ==
    /\ TypeInv => Arena(kids, made)
    /\ TypeInv' => Arena(kids', made')
<1>1. TypeInv => Arena(kids, made)
    BY ArenaOKs DEF TypeInv
<1>2. ASSUME TypeInv'  PROVE Arena(kids', made')
    <2>1. made' \in Node /\ kids' \in [Node -> Seq(1 .. made')]
        BY <1>2 DEF TypeInv, ArenaOK
    <2>2. made' \in Nat /\ made' <= MaxNodes
        BY <2>1, TreeAssumption DEF Node
    <2>. QED  BY <2>1, <2>2 DEF Arena
<1>. QED  BY <1>1, <1>2

\* A new kind is not a call_indirect, and only new nodes become last children.
LEMMA NestKept ==
    ASSUME TypeInv, TypeInv', NestInv, made <= made',
           \A n \in 1 .. made : kind'[n] = kind[n],
           \A n \in made + 1 .. made' : kind'[n] # "call_indirect",
           \A n \in 1 .. made : kind[n] = "call_indirect" =>
               Last(kids'[n]) = Last(kids[n]) \/ Last(kids'[n]) \in made + 1 .. made'
    PROVE  NestInv'
<1>1. made \in Nat /\ made' \in Nat
    BY Arenas DEF Arena
<1>2. ASSUME NEW n \in 1 .. made', kind'[n] = "call_indirect"
      PROVE  kind'[Last(kids'[n])] # "call_indirect"
    <2>1. n \in 1 .. made
        BY <1>1, <1>2
    <2>2. kind[n] = "call_indirect"
        BY <1>2, <2>1
    <2>3. Last(kids[n]) \in 1 .. made
        BY <2>1, <2>2, TargetAt DEF TypeInv
    <2>4. kind'[Last(kids[n])] # "call_indirect"
        BY <2>1, <2>2, <2>3 DEF NestInv
    <2>. QED  BY <2>1, <2>2, <2>4
<1>3. NestInv' = \A n \in 1 .. made' : kind'[n] = "call_indirect" =>
                                           kind'[Last(kids'[n])] # "call_indirect"
    BY DEF NestInv, Last
<1>. QED  BY <1>2, <1>3

\* The last child is the old one or the new one.
LEMMA PutLast ==
    ASSUME NEW S, NEW s \in Seq(S), NEW i, NEW e \in S, Len(s) \in Nat \ {0}
    PROVE  Last(Put(s, i, e)) = Last(s) \/ Last(Put(s, i, e)) = e
<1>1. Len(s) \in 1 .. Len(s)
    OBVIOUS
<1>2. Len(Put(s, i, e)) = Len(s)
    BY PutSeq
<1>3. CASE i = Len(s)
    BY <1>1, <1>2, <1>3, PutSeq DEF Last
<1>4. CASE i # Len(s)
    BY <1>1, <1>2, <1>4, PutSeq DEF Last
<1>. QED  BY <1>3, <1>4

\* The child at hand is ahead, once.
Later == {child[i] : i \in ind + 1 .. Len(child)}

\* What else is ahead, and that the child at hand is not among it.
LEMMA KidAhead ==
    ASSUME TypeInv, OnceInv, ChildStep
    PROVE  /\ Rest = Later \cup {kid} /\ kid \notin Listed \cup Later
           /\ Ahead = (Listed \cup Later) \cup {kid} /\ Listed \cap Later = {}
<1>1. ind \in 1 .. Len(child) /\ Len(child) \in Nat
    BY ChildAt
<1>2. Rest = Later \cup {kid}
    <2>1. ind .. Len(child) = (ind + 1 .. Len(child)) \cup {ind}
        BY <1>1
    <2>. QED  BY <2>1 DEF Rest, Later, kid
<1>3. kid \notin Later
    <2>. SUFFICES ASSUME NEW i \in ind + 1 .. Len(child), kid = child[i]  PROVE FALSE
        BY DEF Later
    <2>1. i \in ind .. Len(child) /\ ind \in ind .. Len(child) /\ i # ind
        BY <1>1
    <2>. QED  BY <2>1 DEF OnceInv, kid
<1>4. Listed \cap Rest = {}
    BY DEF OnceInv
<1>. QED  BY <1>2, <1>3, <1>4 DEF Ahead

\* Appending something new to the worklist.
LEMMA Appended ==
    ASSUME TypeInv, OnceInv, NEW w, NEW y \in 1 .. w, list \in Seq(1 .. w), y \notin Listed,
           list' = Append(list, y)
    PROVE  Listed' = Listed \cup {y} /\ \A i, j \in 1 .. Len(list') : list'[i] = list'[j] => i = j
<1>1. /\ Len(list') = Len(list) + 1 /\ list'[Len(list) + 1] = y
      /\ \A i \in 1 .. Len(list) : list'[i] = list[i]
    BY AppendProperties
<1>2. Len(list) \in Nat
    BY LenProperties
<1>3. 1 .. Len(list') = (1 .. Len(list)) \cup {Len(list) + 1}
    BY <1>1, <1>2
<1>4. Listed' = {list'[i] : i \in 1 .. Len(list')}
    BY DEF Listed
<1>5. Listed' = Listed \cup {y}
    BY <1>1, <1>3, <1>4 DEF Listed
<1>6. \A i \in 1 .. Len(list) : list[i] # y
    BY DEF Listed
<1>7. \A i, j \in 1 .. Len(list) : list[i] = list[j] => i = j
    BY DEF OnceInv
<1>8. ASSUME NEW i \in 1 .. Len(list'), NEW j \in 1 .. Len(list'), list'[i] = list'[j]
      PROVE  i = j
    <2>1. i \in 1 .. Len(list) \/ i = Len(list) + 1
        BY <1>3
    <2>2. j \in 1 .. Len(list) \/ j = Len(list) + 1
        BY <1>3
    <2>. QED  BY <1>1, <1>6, <1>7, <1>8, <2>1, <2>2
<1>. QED  BY <1>5, <1>8

\* A step to a child that grafts something in its place, and puts at most the
\* new top, or a child of it, into the worklist.
LEMMA ChildGraft ==
    ASSUME TypeInv, CopyInv, OnceInv, TreeInv, SeenInv, ChildStep, TypeInv', kid = kids[el][ind],
           NEW Q, Graft(kids, made, kids', made', el, ind, Q),
           \A n \in 1 .. made : kind'[n] = kind[n],
           Len(child') = Len(child), \A i \in ind + 1 .. Len(child) : child'[i] = child[i],
           NEW t, t = kids'[el][ind],
           \/ list' = list
           \/ \E y : /\ list' = Append(list, y)
                     /\ y = t \/ \E i \in 1 .. Len(kids'[t]) : kids'[t][i] = y,
           mutator \in Thorough =>
               /\ seen' = seen \cup (made + 1 .. made') /\ t \in made + 1 .. made'
               /\ \A n \in ((made + 1 .. made') \cup Q) \ Listed' : \A i \in 1 .. Len(kids'[n]) :
                      kids'[n][i] \in seen \cup (made + 1 .. made') \cup Listed' \cup Later
    PROVE  CopyInv' /\ OnceInv' /\ TreeInv' /\ SeenInv'
<1>. DEFINE A == Attached
            G == Attached'
            X == Listed \cup Later
            D == (made + 1 .. made') \cup Q
<1>0. /\ Arena(kids, made) /\ Arena(kids', made')
      /\ A = Hangs(kids, body, made) /\ G = Hangs(kids', body, made')
    <2>1. body' = body
        BY DEF ChildStep
    <2>. QED  BY <2>1, Arenas, AttachedHangs
<1>1. /\ pc = "child" /\ pc' = "child" /\ ind' = ind + 1 /\ ind \in 1 .. Len(child)
      /\ Len(child) \in Nat /\ mutator' = mutator /\ el' = el /\ body' = body
      /\ made \in Nat /\ el \in 1 .. made /\ body \in 1 .. made /\ body # None
      /\ list \in Seq(1 .. made) /\ kid \in 1 .. made
    <2>1. body \in 1 .. made /\ made \in Nat
        BY ChildAt
    <2>. QED  BY <2>1, ChildAt DEF None
<1>2. made' \in Nat /\ made <= made' /\ 1 .. made \subseteq 1 .. made'
    BY <1>0, <1>1 DEF Graft, Arena
<1>3. /\ Rest = Later \cup {kid} /\ kid \notin X /\ Ahead = X \cup {kid} /\ Listed \cap Later = {}
    BY KidAhead
<1>4. Len(child) = Len(kids[el]) /\ ind \in 1 .. Len(kids[el])
    BY <1>1 DEF CopyInv
<1>5. PICK U : Open(kids, body, A, U, X \cup {kid}) /\ el \in U
    BY <1>1, <1>3 DEF TreeInv
<1>6. el \in A /\ el # kid
    BY <1>5 DEF Open
<1>7. Once(kids, body, A)
    BY <1>1 DEF TreeInv
<1>. HIDE DEF A, G, X, D
<1>8. Once(kids', body, G) /\ Grafted(kids, made, kids', made', body, el, ind, Q)
    <2>1. Once(kids', body, G)
        BY <1>0, <1>1, <1>4, <1>6, <1>7, GraftTree
    <2>2. Grafted(kids, made, kids', made', body, el, ind, Q)
        BY <1>0, <1>1, <1>4, <1>6, <1>7 DEF Grafted
    <2>. QED  BY <2>1, <2>2
<1>9. /\ Open(kids', body, G, U, X) /\ t \in G
      /\ \A n \in D : /\ n \notin U \cup X
                      /\ \A i \in 1 .. Len(kids'[n]) : kids'[n][i] \notin U \cup X
      /\ Open(kids', body, G, U, X \cup {t})
      /\ \A Y : (\A y \in Y : \E i \in 1 .. Len(kids'[t]) : kids'[t][i] = y)
                => Open(kids', body, G, U \cup {t}, X \cup Y)
    <2>1. kids[el][ind] \notin X /\ Open(kids, body, A, U, X \cup {kids[el][ind]}) /\ el # kids[el][ind]
        BY <1>3, <1>5, <1>6
    <2>2. StillOpen(kids', body, Hangs(kids', body, made'), (made + 1 .. made') \cup Q,
                    kids'[el][ind], U, X)
        BY <1>0, <1>5, <1>8, <2>1, GraftedOpen
    <2>3. StillOpen(kids', body, G, D, t, U, X)
        BY <1>0, <2>2 DEF D
    <2>. QED  BY <2>3 DEF StillOpen
<1>10. t \in D
    BY DEF Graft, D
<1>11. Rest' = Later
    <2>1. Rest' = {child'[i] : i \in ind + 1 .. Len(child)}
        BY <1>1 DEF Rest
    <2>. QED  BY <2>1 DEF Later
<1>12. CopyInv'
    <2>1. Len(kids'[el]) = Len(kids[el]) /\ \A i \in (1 .. Len(kids[el])) \ {ind} : kids'[el][i] = kids[el][i]
        BY DEF Graft
    <2>2. ASSUME NEW i \in ind + 1 .. Len(child)
          PROVE  child'[i] = kids'[el][i] \/ (mutator = "call" /\ kind'[child'[i]] # "call_indirect")
        <3>1. i \in ind .. Len(child) /\ i \in (1 .. Len(kids[el])) \ {ind} /\ i \in 1 .. Len(child)
            BY <1>1, <1>4
        <3>2. child[i] = kids[el][i] \/ (mutator = "call" /\ kind[child[i]] # "call_indirect")
            BY <1>1, <3>1 DEF CopyInv
        <3>3. child[i] \in 1 .. made
            BY <3>1, ChildAt, ElementOfSeq
        <3>. QED  BY <2>1, <3>1, <3>2, <3>3
    <2>. QED  BY <1>1, <1>4, <2>1, <2>2 DEF CopyInv
<1>13. \A i, j \in ind' .. Len(child') : child'[i] = child'[j] => i = j
    <2>1. \A i \in ind + 1 .. Len(child) : i \in ind .. Len(child)
        BY <1>1
    <2>2. \A i, j \in ind + 1 .. Len(child) : child[i] = child[j] => i = j
        BY <2>1 DEF OnceInv
    <2>. QED  BY <1>1, <2>2
<1>14. ASSUME list' = list  PROVE OnceInv' /\ TreeInv'
    <2>1. Listed' = Listed
        BY <1>14 DEF Listed
    <2>2. OnceInv'
        BY <1>3, <1>11, <1>13, <1>14, <2>1 DEF OnceInv
    <2>3. Ahead' = X
        BY <1>11, <2>1 DEF Ahead, X
    <2>4. TreeInv'
        BY <1>1, <1>5, <1>8, <1>9, <2>3 DEF TreeInv, G
    <2>. QED  BY <2>1, <2>2, <2>3, <2>4
<1>15. ASSUME list' # list  PROVE OnceInv' /\ TreeInv'
    <2>1. PICK y : /\ list' = Append(list, y)
                   /\ y = t \/ \E i \in 1 .. Len(kids'[t]) : kids'[t][i] = y
        BY <1>15
    <2>2. y \notin U \cup X
        BY <1>9, <1>10, <2>1
    <2>3. y \in 1 .. made'
        <3>1. t \in 1 .. made'
            BY <1>0, <1>4, <1>1, <1>2, ArenaPlaces DEF Graft
        <3>2. \A i \in 1 .. Len(kids'[t]) : kids'[t][i] \in 1 .. made'
            BY <1>0, <3>1, ArenaPlaces
        <3>. QED  BY <2>1, <3>1, <3>2
    <2>4. list \in Seq(1 .. made')
        BY <1>1, <1>2, SeqMonotonic
    <2>5. y \notin Listed /\ y \notin Later
        BY <2>2 DEF X
    <2>6. Listed' = Listed \cup {y} /\ \A i, j \in 1 .. Len(list') : list'[i] = list'[j] => i = j
        BY <2>1, <2>3, <2>4, <2>5, Appended
    <2>7. OnceInv'
        BY <1>3, <1>11, <1>13, <2>5, <2>6 DEF OnceInv
    <2>8. Ahead' = X \cup {y}
        BY <1>11, <2>6 DEF Ahead, X
    <2>9. \E V : Open(kids', body, G, V, Ahead') /\ el \in V
        <3>1. CASE y = t
            BY <1>5, <1>9, <2>8, <3>1
        <3>2. CASE \E i \in 1 .. Len(kids'[t]) : kids'[t][i] = y
            <4>1. Open(kids', body, G, U \cup {t}, X \cup {y})
                BY <1>9, <3>2
            <4>. QED  BY <1>5, <2>8, <4>1
        <3>. QED  BY <2>1, <3>1, <3>2
    <2>10. TreeInv'
        BY <1>1, <1>8, <2>9 DEF TreeInv, G
    <2>. QED  BY <2>7, <2>10
<1>16. SeenInv'
    <2>. SUFFICES ASSUME mutator \in Thorough
                  PROVE  Sown(kids', body, G, seen', Listed', Ahead')
        BY <1>1 DEF SeenInv, G
    <2>1. Sown(kids, body, A, seen, Listed, (Listed \cup Later) \cup {kid})
        BY <1>1, <1>3 DEF SeenInv, A, X, Walking
    <2>2. Listed \subseteq Listed'
        <3>1. CASE list' = list
            BY <3>1 DEF Listed
        <3>2. CASE \E y : list' = Append(list, y) /\ y \in 1 .. made'
            <4>1. PICK y : list' = Append(list, y) /\ y \in 1 .. made'
                BY <3>2
            <4>2. list \in Seq(1 .. made')
                BY <1>1, <1>2, SeqMonotonic
            <4>3. Len(list') = Len(list) + 1 /\ \A i \in 1 .. Len(list) : list'[i] = list[i]
                BY <4>1, <4>2, AppendProperties
            <4>4. Len(list) \in Nat
                BY <4>2, LenProperties
            <4>. QED  BY <4>3, <4>4 DEF Listed
        <3>3. t \in 1 .. made'
            BY <1>0, <1>4, <1>1, <1>2, ArenaPlaces DEF Graft
        <3>4. \A i \in 1 .. Len(kids'[t]) : kids'[t][i] \in 1 .. made'
            BY <1>0, <3>3, ArenaPlaces
        <3>. QED  BY <3>1, <3>2, <3>3, <3>4
    <2>3. Sown(kids', body, G, seen \cup (made + 1 .. made'), Listed', Listed' \cup Later)
        <3>1. /\ Sown(kids, body, Hangs(kids, body, made), seen, Listed,
                      Listed \cup Later \cup {kids[el][ind]})
              /\ kids'[el][ind] \in made + 1 .. made'
            BY <1>0, <2>1
        <3>2. \A n \in ((made + 1 .. made') \cup Q) \ Listed' : \A i \in 1 .. Len(kids'[n]) :
                  kids'[n][i] \in seen \cup (made + 1 .. made') \cup Listed' \cup Later
            OBVIOUS
        <3>3. Sows(kids, made, kids', made', body, el, ind, Q, seen, Listed, Later, Listed')
            BY <1>8, <2>2, <3>1, <3>2 DEF Sows
        <3>4. Sown(kids', body, Hangs(kids', body, made'), seen \cup (made + 1 .. made'),
                   Listed', Listed' \cup Later)
            BY <3>3, GraftedSown
        <3>. QED  BY <1>0, <3>4
    <2>4. Ahead' = Listed' \cup Later
        BY <1>11 DEF Ahead
    <2>. QED  BY <2>3, <2>4
<1>. QED  BY <1>12, <1>14, <1>15, <1>16

\* The child at hand in the tree: it is not above the element, and its children
\* are all different.
LEMMA KidPlace ==
    ASSUME TypeInv, CopyInv, OnceInv, TreeInv, ChildStep,
           mutator # "call" \/ kind[kid] = "call_indirect"
    PROVE  /\ kid = kids[el][ind] /\ ind \in 1 .. Len(kids[el]) /\ el # kid
           /\ Len(child) = Len(kids[el])
           /\ \A i \in 1 .. Len(kids[kid]) : /\ kids[kid][i] # kid /\ kids[kid][i] \in 1 .. made
                                             /\ \A j \in 1 .. Len(kids[kid]) :
                                                    kids[kid][i] = kids[kid][j] => i = j
<1>1. /\ pc = "child" /\ ind \in 1 .. Len(child) /\ Len(child) \in Nat /\ kid \in 1 .. made
      /\ body \in 1 .. made /\ made \in Nat /\ ArenaOK
    BY ChildAt
<1>2. body # None
    BY <1>1 DEF None
<1>3. ind \in ind .. Len(child)
    BY <1>1
<1>4. Len(child) = Len(kids[el]) /\ kid = kids[el][ind] /\ ind \in 1 .. Len(kids[el])
    BY <1>1, <1>3 DEF CopyInv, kid
<1>5. PICK U : Open(kids, body, Attached, U, Ahead) /\ el \in U
    BY <1>1, <1>2 DEF TreeInv
<1>6. kid \in Ahead
    BY KidAhead
<1>7. el # kid /\ el \in Attached
    BY <1>5, <1>6 DEF Open
<1>8. Arena(kids, made) /\ Attached = Hangs(kids, body, made)
    BY Arenas, AttachedHangs
<1>9. kid \in Attached
    BY <1>1, <1>4, <1>7, <1>8, HangsShut DEF Shut
<1>10. Once(kids, body, Attached)
    BY <1>2 DEF TreeInv
<1>11. \A i \in 1 .. Len(kids[kid]) : kids[kid][i] \in 1 .. made
    BY <1>1, <1>8, ArenaPlaces
<1>12. ASSUME NEW i \in 1 .. Len(kids[kid])
       PROVE  /\ kids[kid][i] # kid
              /\ \A j \in 1 .. Len(kids[kid]) : kids[kid][i] = kids[kid][j] => i = j
    BY <1>4, <1>7, <1>9, <1>10 DEF Once
<1>. QED  BY <1>4, <1>7, <1>11, <1>12

\* A step to a child as a graft.
LEMMA GraftAt ==
    ASSUME TypeInv, ChildStep, kid = kids[el][ind], Others, made <= made',
           NEW Q, Q \subseteq {kid}, NEW t, t \in (made + 1 .. made') \cup Q,
           Len(kids'[el]) = Len(kids[el]), kids'[el][ind] = t,
           \A i \in (1 .. Len(kids[el])) \ {ind} : kids'[el][i] = kids[el][i],
           Regrown(kids, kid, kids', (made + 1 .. made') \cup Q, t)
    PROVE  Graft(kids, made, kids', made', el, ind, Q)
<1>1. \A n \in (1 .. made) \ {el, kids[el][ind]} : kids'[n] = kids[n]
    BY DEF Others
<1>. QED  BY <1>1 DEF Graft

\* The element with another child.
LEMMA PutAt ==
    ASSUME TypeInv, TypeInv', ChildStep, NEW t \in made + 1 .. made', made <= made',
           ind \in 1 .. Len(kids[el]), kids'[el] = Put(kids[el], ind, t)
    PROVE  /\ Len(kids'[el]) = Len(kids[el]) /\ kids'[el][ind] = t
           /\ \A i \in (1 .. Len(kids[el])) \ {ind} : kids'[el][i] = kids[el][i]
<1>1. kids[el] \in Seq(1 .. made) /\ made \in Nat
    BY ChildAt
<1>2. made' \in Nat
    BY Arenas DEF Arena
<1>3. 1 .. made \subseteq 1 .. made' /\ t \in 1 .. made'
    BY <1>1, <1>2
<1>4. kids[el] \in Seq(1 .. made')
    BY <1>1, <1>3, SeqMonotonic
<1>5. \A S : kids[el] \in Seq(S) /\ t \in S =>
          /\ Len(Put(kids[el], ind, t)) = Len(kids[el]) /\ Put(kids[el], ind, t)[ind] = t
          /\ \A i \in 1 .. Len(kids[el]) : i # ind => Put(kids[el], ind, t)[i] = kids[el][i]
    BY PutSeq
<1>. QED  BY <1>3, <1>4, <1>5

\* No step to a child makes a call_indirect the target of another.
LEMMA NestChild ==
    ASSUME TypeInv, TypeInv', NestInv, ChildStep, Others, made <= made',
           \A n \in made + 1 .. made' : kind'[n] # "call_indirect",
           kid # el,
           \/ kids'[el] = kids[el]
           \/ \E e \in made + 1 .. made' : kids'[el] = Put(kids[el], ind, e),
           kind[kid] = "call_indirect" =>
               \/ kids'[kid] = kids[kid]
               \/ \E i : \E e \in made + 1 .. made' : kids'[kid] = Put(kids[kid], i, e)
    PROVE  NestInv'
<1>1. /\ made \in Nat /\ ArenaOK /\ el \in 1 .. made /\ kid \in 1 .. made
    BY ChildAt
<1>2. made' \in Nat
    BY Arenas DEF Arena
<1>3. 1 .. made \subseteq 1 .. made' /\ made + 1 .. made' \subseteq 1 .. made'
    BY <1>1, <1>2
<1>4. ASSUME NEW n \in 1 .. made, kind[n] = "call_indirect",
             NEW i, NEW e \in made + 1 .. made', kids'[n] = Put(kids[n], i, e)
      PROVE  Last(kids'[n]) = Last(kids[n]) \/ Last(kids'[n]) \in made + 1 .. made'
    <2>1. kids[n] \in Seq(1 .. made)
        BY <1>1, ArenaOKs
    <2>2. kids[n] \in Seq(1 .. made') /\ e \in 1 .. made'
        BY <1>3, <2>1, SeqMonotonic
    <2>3. Len(kids[n]) \in Nat \ {0}
        BY <1>1, <1>4, TargetAt
    <2>4. \A S : kids[n] \in Seq(S) /\ e \in S =>
              Last(Put(kids[n], i, e)) = Last(kids[n]) \/ Last(Put(kids[n], i, e)) = e
        BY <2>3, PutLast
    <2>. QED  BY <1>4, <2>2, <2>4
<1>5. ASSUME NEW n \in 1 .. made, kind[n] = "call_indirect"
      PROVE  Last(kids'[n]) = Last(kids[n]) \/ Last(kids'[n]) \in made + 1 .. made'
    <2>1. CASE n \notin {el, kid}
        BY <2>1 DEF Others
    <2>2. CASE n = el
        BY <1>4, <1>5, <2>2
    <2>3. CASE n = kid
        BY <1>4, <1>5, <2>3
    <2>. QED  BY <2>1, <2>2, <2>3
<1>6. \A n \in 1 .. made : kind'[n] = kind[n]
    BY DEF Others
<1>. QED  BY <1>5, <1>6, NestKept

\* The copy of the children with another one for the child at hand.
LEMMA ChildPut ==
    ASSUME TypeInv, TypeInv', ChildStep, NEW t \in 1 .. made', made <= made',
           child' = Put(child, ind, t)
    PROVE  Len(child') = Len(child) /\ \A i \in ind + 1 .. Len(child) : child'[i] = child[i]
<1>1. child \in Seq(1 .. made) /\ made \in Nat /\ ind \in 1 .. Len(child) /\ Len(child) \in Nat
    BY ChildAt
<1>2. made' \in Nat
    BY Arenas DEF Arena
<1>3. 1 .. made \subseteq 1 .. made'
    BY <1>1, <1>2
<1>4. child \in Seq(1 .. made')
    BY <1>1, <1>3, SeqMonotonic
<1>5. \A i \in ind + 1 .. Len(child) : i \in 1 .. Len(child) /\ i # ind
    BY <1>1
<1>6. \A S : child \in Seq(S) /\ t \in S =>
          /\ Len(Put(child, ind, t)) = Len(child)
          /\ \A i \in 1 .. Len(child) : i # ind => Put(child, ind, t)[i] = child[i]
    BY PutSeq
<1>. QED  BY <1>4, <1>5, <1>6

\* What is appended to the worklist is in it.
LEMMA Requeued ==
    ASSUME TypeInv, TypeInv', NEW y, y \in 1 .. made', made <= made', list' = Append(list, y)
    PROVE  y \in Listed'
<1>1. list \in Seq(1 .. made) /\ made \in Nat
    BY ArenaOKs DEF TypeInv, WalkOK
<1>2. made' \in Nat
    BY Arenas DEF Arena
<1>3. 1 .. made \subseteq 1 .. made'
    BY <1>1, <1>2
<1>4. list \in Seq(1 .. made') /\ Len(list) \in Nat
    BY <1>1, <1>3, SeqMonotonic, LenProperties
<1>5. Len(list') = Len(list) + 1 /\ list'[Len(list) + 1] = y
    BY <1>4, AppendProperties
<1>6. Len(list) + 1 \in 1 .. Len(list')
    BY <1>4, <1>5
<1>. QED  BY <1>5, <1>6 DEF Listed

\* ChildReplaced: the new instruction takes the place and the operands.
LEMMA ReplacedWalk ==
    ASSUME TypeInv, WalkInv, ChildReplaced
    PROVE  WalkInv'
<1>0. NestInv /\ CopyInv /\ OnceInv /\ TreeInv /\ SeenInv
    BY DEF WalkInv
<1>1. /\ TypeInv' /\ ChildStep /\ mutator = "operators"
      /\ made' = made + 1 /\ seen' = seen \cup (made + 1 .. made')
      /\ kind[kid] \in {"op", "const"} /\ Others
      /\ kids'[made + 1] = kids[kid] /\ kind'[made + 1] = kind[kid]
      /\ kids'[el] = Put(kids[el], ind, made + 1) /\ (kid # el => kids'[kid] = kids[kid])
      /\ child' = Put(child, ind, made + 1)
      /\ list' = Append(list, made + 1)
    BY ReplacedTypes
<1>2. /\ kid = kids[el][ind] /\ ind \in 1 .. Len(kids[el]) /\ el # kid
      /\ \A i \in 1 .. Len(kids[kid]) : /\ kids[kid][i] # kid /\ kids[kid][i] \in 1 .. made
                                        /\ \A j \in 1 .. Len(kids[kid]) :
                                               kids[kid][i] = kids[kid][j] => i = j
    BY <1>0, <1>1, KidPlace
<1>3. /\ made + 1 .. made' = {made + 1} /\ made <= made' /\ made + 1 \notin 1 .. made
      /\ made + 1 \in 1 .. made'
    <2>1. made \in Nat
        BY <1>1, ChildAt
    <2>. QED  BY <1>1, <2>1
<1>4. NestInv'
    BY <1>0, <1>1, <1>2, <1>3, NestChild
<1>5. Regrown(kids, kid, kids', (made + 1 .. made') \cup {}, made + 1)
    BY <1>1, <1>2, <1>3 DEF Regrown
<1>6. /\ Len(kids'[el]) = Len(kids[el]) /\ kids'[el][ind] = made + 1
      /\ \A i \in (1 .. Len(kids[el])) \ {ind} : kids'[el][i] = kids[el][i]
    BY <1>1, <1>2, <1>3, PutAt
<1>7. Graft(kids, made, kids', made', el, ind, {})
    BY <1>1, <1>2, <1>3, <1>5, <1>6, GraftAt
<1>8. Len(child') = Len(child) /\ \A i \in ind + 1 .. Len(child) : child'[i] = child[i]
    BY <1>1, <1>3, ChildPut
<1>9. made + 1 \in Listed'
    BY <1>1, <1>3, Requeued
<1>10. CopyInv' /\ OnceInv' /\ TreeInv' /\ SeenInv'
    <2>1. \A n \in 1 .. made : kind'[n] = kind[n]
        BY <1>1 DEF Others
    <2>2. \A n \in ((made + 1 .. made') \cup {}) \ Listed' : \A i \in 1 .. Len(kids'[n]) :
                      kids'[n][i] \in seen \cup (made + 1 .. made') \cup Listed' \cup Later
        BY <1>3, <1>9
    <2>. QED  BY <1>0, <1>1, <1>2, <1>3, <1>6, <1>7, <1>8, <2>1, <2>2, ChildGraft
<1>. QED  BY <1>4, <1>10 DEF WalkInv

\* ChildWrapped: the child stays, below the new block.
LEMMA WrappedWalk ==
    ASSUME TypeInv, WalkInv, ChildWrapped
    PROVE  WalkInv'
<1>0. NestInv /\ CopyInv /\ OnceInv /\ TreeInv /\ SeenInv
    BY DEF WalkInv
<1>1. /\ TypeInv' /\ ChildStep /\ mutator = "recursive"
      /\ made' = made + 1 /\ seen' = seen \cup (made + 1 .. made')
      /\ kind[kid] = "block" /\ Others
      /\ kids'[made + 1] = <<kid>> /\ kind'[made + 1] = "block"
      /\ kids'[el] = Put(kids[el], ind, made + 1) /\ (kid # el => kids'[kid] = kids[kid])
      /\ child' = child /\ list' = Append(list, kid)
    BY WrappedTypes
<1>2. /\ kid = kids[el][ind] /\ ind \in 1 .. Len(kids[el]) /\ el # kid
      /\ \A i \in 1 .. Len(kids[kid]) : /\ kids[kid][i] # kid /\ kids[kid][i] \in 1 .. made
                                        /\ \A j \in 1 .. Len(kids[kid]) :
                                               kids[kid][i] = kids[kid][j] => i = j
    BY <1>0, <1>1, KidPlace
<1>3. /\ made + 1 .. made' = {made + 1} /\ made <= made' /\ made + 1 \notin 1 .. made
      /\ made + 1 \in 1 .. made' /\ kid # made + 1
    <2>1. made \in Nat /\ kid \in 1 .. made
        BY <1>1, ChildAt
    <2>. QED  BY <1>1, <2>1
<1>4. NestInv'
    BY <1>0, <1>1, <1>2, <1>3, NestChild
<1>5. Len(kids'[made + 1]) = 1 /\ kids'[made + 1][1] = kid
    BY <1>1
<1>6. Regrown(kids, kid, kids', (made + 1 .. made') \cup {kid}, made + 1)
    <2>1. \A n \in (made + 1 .. made') \cup {kid} : n = made + 1 \/ n = kid
        BY <1>3
    <2>2. kids'[kid] = kids[kid]
        BY <1>1, <1>2
    <2>3. \A i \in 1 .. Len(kids'[made + 1]) : i = 1 /\ kids'[made + 1][i] = kid
        BY <1>5
    <2>4. \A i \in 1 .. Len(kids'[kid]) :
              /\ kids'[kid][i] # made + 1 /\ kids'[kid][i] # kid
              /\ \E j \in 1 .. Len(kids[kid]) : kids'[kid][i] = kids[kid][j]
              /\ \A j \in 1 .. Len(kids'[kid]) : kids'[kid][i] = kids'[kid][j] => i = j
        BY <1>2, <1>3, <2>2
    <2>5. kid \in (made + 1 .. made') \cup {kid} /\ kid # made + 1
        BY <1>3
    <2>. QED  BY <2>1, <2>3, <2>4, <2>5 DEF Regrown
<1>7. /\ Len(kids'[el]) = Len(kids[el]) /\ kids'[el][ind] = made + 1
      /\ \A i \in (1 .. Len(kids[el])) \ {ind} : kids'[el][i] = kids[el][i]
    BY <1>1, <1>2, <1>3, PutAt
<1>8. Graft(kids, made, kids', made', el, ind, {kid})
    BY <1>1, <1>2, <1>3, <1>6, <1>7, GraftAt
<1>9. kid \in Listed'
    <2>1. kid \in 1 .. made'
        BY <1>1, <1>3, ChildAt
    <2>. QED  BY <1>1, <1>3, <2>1, Requeued
<1>10. \E y : /\ list' = Append(list, y)
              /\ y = made + 1 \/ \E i \in 1 .. Len(kids'[made + 1]) : kids'[made + 1][i] = y
    BY <1>1, <1>5
<1>11. CopyInv' /\ OnceInv' /\ TreeInv' /\ SeenInv'
    <2>1. \A n \in 1 .. made : kind'[n] = kind[n]
        BY <1>1 DEF Others
    <2>2. \A n \in ((made + 1 .. made') \cup {kid}) \ Listed' : \A i \in 1 .. Len(kids'[n]) :
                      kids'[n][i] \in seen \cup (made + 1 .. made') \cup Listed' \cup Later
        <3>1. \A i \in 1 .. Len(kids'[made + 1]) : kids'[made + 1][i] = kid
            BY <1>5
        <3>. QED  BY <1>3, <1>9, <3>1
    <2>. QED  BY <1>0, <1>1, <1>2, <1>3, <1>7, <1>8, <1>10, <2>1, <2>2, ChildGraft
<1>. QED  BY <1>4, <1>11 DEF WalkInv

\* Overwritten: the child and all below it leave the function.
LEMMA OverwrittenWalk ==
    ASSUME TypeInv, WalkInv, Overwritten
    PROVE  WalkInv'
<1>0. NestInv /\ CopyInv /\ OnceInv /\ TreeInv /\ SeenInv
    BY DEF WalkInv
<1>1. /\ TypeInv' /\ ChildStep /\ mutator = "splice"
      /\ made' = made + 1 /\ seen' = seen \cup (made + 1 .. made') /\ Others
      /\ kids'[made + 1] = <<>> /\ kind'[made + 1] = "const"
      /\ kids'[el] = Put(kids[el], ind, made + 1) /\ (kid # el => kids'[kid] = kids[kid])
      /\ child' = child /\ list' = list
    BY OverwrittenTypes
<1>2. /\ kid = kids[el][ind] /\ ind \in 1 .. Len(kids[el]) /\ el # kid
      /\ \A i \in 1 .. Len(kids[kid]) : /\ kids[kid][i] # kid /\ kids[kid][i] \in 1 .. made
                                        /\ \A j \in 1 .. Len(kids[kid]) :
                                               kids[kid][i] = kids[kid][j] => i = j
    BY <1>0, <1>1, KidPlace
<1>3. /\ made + 1 .. made' = {made + 1} /\ made <= made' /\ made + 1 \notin 1 .. made
      /\ made + 1 \in 1 .. made' /\ kid # made + 1
    <2>1. made \in Nat /\ kid \in 1 .. made
        BY <1>1, ChildAt
    <2>. QED  BY <1>1, <2>1
<1>4. NestInv'
    BY <1>0, <1>1, <1>2, <1>3, NestChild
<1>5. Len(kids'[made + 1]) = 0
    BY <1>1
<1>6. Regrown(kids, kid, kids', (made + 1 .. made') \cup {}, made + 1)
    BY <1>3, <1>5 DEF Regrown
<1>7. /\ Len(kids'[el]) = Len(kids[el]) /\ kids'[el][ind] = made + 1
      /\ \A i \in (1 .. Len(kids[el])) \ {ind} : kids'[el][i] = kids[el][i]
    BY <1>1, <1>2, <1>3, PutAt
<1>8. Graft(kids, made, kids', made', el, ind, {})
    BY <1>1, <1>2, <1>3, <1>6, <1>7, GraftAt
<1>9. CopyInv' /\ OnceInv' /\ TreeInv' /\ SeenInv'
    <2>1. \A n \in 1 .. made : kind'[n] = kind[n]
        BY <1>1 DEF Others
    <2>2. \A n \in ((made + 1 .. made') \cup {}) \ Listed' : \A i \in 1 .. Len(kids'[n]) :
                      kids'[n][i] \in seen \cup (made + 1 .. made') \cup Listed' \cup Later
        BY <1>3, <1>5
    <2>. QED  BY <1>0, <1>1, <1>2, <1>3, <1>7, <1>8, <2>1, <2>2, ChildGraft
<1>. QED  BY <1>4, <1>9 DEF WalkInv

\* SwitchReplaced: the condition moves to the new br_table and is walked.
LEMMA SwitchWalk ==
    ASSUME TypeInv, WalkInv, SwitchReplaced
    PROVE  WalkInv'
<1>. DEFINE x == Last(kids[kid])
<1>0. NestInv /\ CopyInv /\ OnceInv /\ TreeInv /\ SeenInv
    BY DEF WalkInv
<1>1. /\ TypeInv' /\ ChildStep /\ mutator = "branch" /\ kind[kid] = "switch" /\ Others
      /\ kids'[el] = Put(kids[el], ind, made')
      /\ child' = Put(child, ind, made') /\ list' = Append(list, x)
      /\ kind'[made'] = "switch"
      /\ \/ made' = made + 1 /\ kids'[made'] = <<x>>
         \/ /\ made' = made + 2 /\ kids'[made'] = <<made + 1, x>>
            /\ kids'[made + 1] = <<>> /\ kind'[made + 1] = "const"
    BY SwitchTypes
<1>2. /\ kid = kids[el][ind] /\ ind \in 1 .. Len(kids[el]) /\ el # kid
      /\ \A i \in 1 .. Len(kids[kid]) : /\ kids[kid][i] # kid /\ kids[kid][i] \in 1 .. made
                                        /\ \A j \in 1 .. Len(kids[kid]) :
                                               kids[kid][i] = kids[kid][j] => i = j
    BY <1>0, <1>1, KidPlace
<1>3. made \in Nat /\ kid \in 1 .. made /\ ArenaOK
    BY <1>1, ChildAt
<1>4. /\ Len(kids[kid]) \in 1 .. Len(kids[kid]) /\ x = kids[kid][Len(kids[kid])] /\ x \in 1 .. made
    BY <1>1, <1>3, TargetAt
<1>. HIDE DEF x
<1>5. /\ made' \in made + 1 .. made' /\ made <= made' /\ made' \in 1 .. made' /\ x # made' /\ x # made + 1
      /\ \A n \in made + 1 .. made' : n = made' \/ (n = made + 1 /\ made' = made + 2)
    BY <1>1, <1>3, <1>4, SMTT(30), ZenonT(60)
<1>6. NestInv'
    <2>1. \A n \in made + 1 .. made' : kind'[n] # "call_indirect"
        BY <1>1, <1>5
    <2>. QED  BY <1>0, <1>1, <1>2, <1>5, <2>1, NestChild
<1>7. /\ \A i \in 1 .. Len(kids'[made']) : \/ kids'[made'][i] = x /\ i = Len(kids'[made'])
                                           \/ /\ kids'[made'][i] = made + 1 /\ i = 1
                                              /\ made' = made + 2
      /\ Len(kids'[made']) \in 1 .. Len(kids'[made']) /\ kids'[made'][Len(kids'[made'])] = x
    <2>1. CASE made' = made + 1 /\ kids'[made'] = <<x>>
        <3>1. Len(kids'[made']) = 1 /\ kids'[made'][1] = x
            BY <2>1
        <3>. QED  BY <3>1
    <2>2. CASE made' = made + 2 /\ kids'[made'] = <<made + 1, x>>
        <3>1. Len(kids'[made']) = 2 /\ kids'[made'][1] = made + 1 /\ kids'[made'][2] = x
            BY <2>2
        <3>. QED  BY <2>2, <3>1
    <2>. QED  BY <1>1, <2>1, <2>2
<1>8. made' = made + 2 => Len(kids'[made + 1]) = 0 /\ made + 1 # made'
    BY <1>1, <1>3
<1>9. Regrown(kids, kid, kids', (made + 1 .. made') \cup {}, made')
    <2>1. \E j \in 1 .. Len(kids[kid]) : x = kids[kid][j]
        BY <1>4
    <2>2. ASSUME NEW n \in made + 1 .. made', NEW i \in 1 .. Len(kids'[n])
          PROVE  n = made' /\ (kids'[n][i] = x \/ (kids'[n][i] = made + 1 /\ made' = made + 2))
        BY <1>5, <1>7, <1>8
    <2>3. ASSUME NEW i \in 1 .. Len(kids'[made']), NEW j \in 1 .. Len(kids'[made']),
                 kids'[made'][i] = kids'[made'][j]
          PROVE  i = j
        BY <1>5, <1>7, <2>3
    <2>4. made' = made + 2 => made + 1 \in made + 1 .. made' /\ made + 1 # made'
        BY <1>3
    <2>. QED  BY <1>5, <2>1, <2>2, <2>3, <2>4 DEF Regrown
<1>10. /\ Len(kids'[el]) = Len(kids[el]) /\ kids'[el][ind] = made'
       /\ \A i \in (1 .. Len(kids[el])) \ {ind} : kids'[el][i] = kids[el][i]
    BY <1>1, <1>2, <1>5, PutAt
<1>11. Graft(kids, made, kids', made', el, ind, {})
    BY <1>1, <1>2, <1>5, <1>9, <1>10, GraftAt
<1>12. Len(child') = Len(child) /\ \A i \in ind + 1 .. Len(child) : child'[i] = child[i]
    BY <1>1, <1>5, ChildPut
<1>13. \E y : /\ list' = Append(list, y)
              /\ y = made' \/ \E i \in 1 .. Len(kids'[made']) : kids'[made'][i] = y
    BY <1>1, <1>7
<1>14. CopyInv' /\ OnceInv' /\ TreeInv' /\ SeenInv'
    <2>1. \A n \in 1 .. made : kind'[n] = kind[n]
        BY <1>1 DEF Others
    <2>2. mutator \notin Thorough
        BY <1>1 DEF Thorough
    <2>. QED  BY <1>0, <1>1, <1>2, <1>10, <1>11, <1>12, <1>13, <2>1, <2>2, ChildGraft
<1>. QED  BY <1>6, <1>14 DEF WalkInv

\* BreakRetargeted: the br stays and its value leaves the function.
LEMMA BreakWalk ==
    ASSUME TypeInv, WalkInv, BreakRetargeted
    PROVE  WalkInv'
<1>0. NestInv /\ CopyInv /\ OnceInv /\ TreeInv /\ SeenInv
    BY DEF WalkInv
<1>1. /\ TypeInv' /\ ChildStep /\ mutator = "branch"
      /\ kind[kid] = "br" /\ Others /\ (kid # el => kids'[el] = kids[el])
      /\ \/ made' = made /\ kids'[kid] = <<>>
         \/ /\ made' = made + 1 /\ kids'[kid] = <<made + 1>>
            /\ kids'[made + 1] = <<>> /\ kind'[made + 1] = "const"
      /\ child' = child /\ list' = list
    BY BreakTypes
<1>2. /\ kid = kids[el][ind] /\ ind \in 1 .. Len(kids[el]) /\ el # kid
      /\ \A i \in 1 .. Len(kids[kid]) : /\ kids[kid][i] # kid /\ kids[kid][i] \in 1 .. made
                                        /\ \A j \in 1 .. Len(kids[kid]) :
                                               kids[kid][i] = kids[kid][j] => i = j
    BY <1>0, <1>1, KidPlace
<1>3. made \in Nat /\ kid \in 1 .. made
    BY <1>1, ChildAt
<1>4. /\ made <= made' /\ made + 1 # kid
      /\ \A n \in made + 1 .. made' : n = made + 1 /\ made' = made + 1
      /\ made' = made + 1 => made + 1 \in made + 1 .. made'
    BY <1>1, <1>3
<1>5. NestInv'
    <2>1. \A n \in made + 1 .. made' : kind'[n] # "call_indirect"
        BY <1>1, <1>3, <1>4
    <2>. QED  BY <1>0, <1>1, <1>2, <1>4, <2>1, NestChild
<1>6. /\ \A i \in 1 .. Len(kids'[kid]) : i = 1 /\ kids'[kid][i] = made + 1 /\ made' = made + 1
      /\ made' = made + 1 => Len(kids'[made + 1]) = 0
    BY <1>1, <1>3
<1>7. Regrown(kids, kid, kids', (made + 1 .. made') \cup {kid}, kid)
    BY <1>4, <1>6 DEF Regrown
<1>8. Graft(kids, made, kids', made', el, ind, {kid})
    BY <1>1, <1>2, <1>4, <1>7, GraftAt
<1>9. CopyInv' /\ OnceInv' /\ TreeInv' /\ SeenInv'
    <2>1. \A n \in 1 .. made : kind'[n] = kind[n]
        BY <1>1 DEF Others
    <2>2. mutator \notin Thorough
        BY <1>1 DEF Thorough
    <2>. QED  BY <1>0, <1>1, <1>2, <1>8, <2>1, <2>2, ChildGraft
<1>. QED  BY <1>5, <1>9 DEF WalkInv

\* BreakIfRetargeted: the br_if, its old value and the new one, each once below
\* the new block.
LEMMA BreakIfWalk ==
    ASSUME TypeInv, WalkInv, BreakIfRetargeted
    PROVE  WalkInv'
<1>. DEFINE x == Last(kids[kid])
            f == kids[kid][1]
            D == (made + 1 .. made') \cup {kid}
<1>0. NestInv /\ CopyInv /\ OnceInv /\ TreeInv /\ SeenInv
    BY DEF WalkInv
<1>1. /\ TypeInv' /\ ChildStep /\ mutator = "branch" /\ kind[kid] = "br_if" /\ Others
      /\ kid # el => kids'[el] = Put(kids[el], ind, made')
      /\ child' = Put(child, ind, made') /\ kind'[made'] = "block"
    BY BreakIfTypes
<1>2. PICK sv \in 0 .. 1, vl \in 0 .. 1 :
          /\ made' = made + sv + vl + 1
          /\ kids'[made'] = IF sv = 1 THEN <<made + 1, kid>> ELSE <<kid>>
          /\ sv = 1 => /\ Len(kids[kid]) = 2 /\ kids'[made + 1] = <<f>>
                       /\ kind'[made + 1] = "local"
          /\ kids'[kid] = IF vl = 1 THEN <<made + sv + 1, x>> ELSE <<x>>
          /\ vl = 1 => kids'[made + sv + 1] = <<>> /\ kind'[made + sv + 1] = "const"
          /\ list' = IF sv = 1 THEN Append(list, made + 1) ELSE list
    BY BreakIfTypes
<1>3. /\ kid = kids[el][ind] /\ ind \in 1 .. Len(kids[el]) /\ el # kid
      /\ \A i \in 1 .. Len(kids[kid]) : /\ kids[kid][i] # kid /\ kids[kid][i] \in 1 .. made
                                        /\ \A j \in 1 .. Len(kids[kid]) :
                                               kids[kid][i] = kids[kid][j] => i = j
    BY <1>0, <1>1, KidPlace
<1>4. made \in Nat /\ kid \in 1 .. made /\ ArenaOK
    BY <1>1, ChildAt
<1>5. /\ Len(kids[kid]) \in 1 .. Len(kids[kid]) /\ x = kids[kid][Len(kids[kid])] /\ x \in 1 .. made
    BY <1>1, <1>4, TargetAt
<1>6. sv = 1 => f \in 1 .. made /\ f # x /\ f # kid /\ 1 \in 1 .. Len(kids[kid])
    <2>. HAVE sv = 1
    <2>1. Len(kids[kid]) = 2
        BY <1>2, Zenon
    <2>2. \A n : n = 2 => 1 \in 1 .. n /\ 1 # n
        OBVIOUS
    <2>3. 1 \in 1 .. Len(kids[kid]) /\ 1 # Len(kids[kid])
        BY <2>1, <2>2, Zenon
    <2>. QED  BY <1>3, <1>5, <2>3
<1>7. x # kid
    BY <1>3, <1>5
<1>. HIDE DEF x, f
<1>8. /\ made' \in made + 1 .. made' /\ made <= made' /\ made' \in 1 .. made'
      /\ \A n \in made + 1 .. made' : \/ n = made'
                                      \/ n = made + 1 /\ sv = 1
                                      \/ n = made + sv + 1 /\ vl = 1
      /\ sv = 1 => /\ made + 1 # made' /\ made + 1 # made + sv + 1
                   /\ made + 1 \in made + 1 .. made'
      /\ vl = 1 => made + sv + 1 # made' /\ made + sv + 1 \in made + 1 .. made'
      /\ \A y \in 1 .. made : y # made' /\ y # made + 1 /\ y # made + sv + 1
    BY <1>2, <1>4
<1>9. NestInv'
    <2>1. \A n \in made + 1 .. made' : kind'[n] # "call_indirect"
        BY <1>1, <1>2, <1>8
    <2>. QED  BY <1>0, <1>1, <1>3, <1>8, <2>1, NestChild
<1>10. \A i \in 1 .. Len(kids'[made']) :
           \/ i = 1 /\ sv = 1 /\ kids'[made'][i] = made + 1
           \/ i = 1 + sv /\ kids'[made'][i] = kid
    <2>1. CASE sv = 1
        <3>1. Len(kids'[made']) = 2 /\ kids'[made'][1] = made + 1 /\ kids'[made'][2] = kid
            BY <1>2, <2>1
        <3>. QED  BY <2>1, <3>1
    <2>2. CASE sv = 0
        <3>1. Len(kids'[made']) = 1 /\ kids'[made'][1] = kid
            BY <1>2, <2>2
        <3>. QED  BY <2>2, <3>1
    <2>. QED  BY <2>1, <2>2
<1>11. \A i \in 1 .. Len(kids'[kid]) :
           \/ i = 1 /\ vl = 1 /\ kids'[kid][i] = made + sv + 1
           \/ i = 1 + vl /\ kids'[kid][i] = x
    <2>1. CASE vl = 1
        <3>1. Len(kids'[kid]) = 2 /\ kids'[kid][1] = made + sv + 1 /\ kids'[kid][2] = x
            BY <1>2, <2>1
        <3>. QED  BY <2>1, <3>1
    <2>2. CASE vl = 0
        <3>1. Len(kids'[kid]) = 1 /\ kids'[kid][1] = x
            BY <1>2, <2>2
        <3>. QED  BY <2>2, <3>1
    <2>. QED  BY <2>1, <2>2
<1>12. sv = 1 => \A i \in 1 .. Len(kids'[made + 1]) : i = 1 /\ kids'[made + 1][i] = f
    <2>1. sv = 1 => Len(kids'[made + 1]) = 1 /\ kids'[made + 1][1] = f
        BY <1>2
    <2>. QED  BY <2>1
<1>13. vl = 1 => Len(kids'[made + sv + 1]) = 0
    BY <1>2
<1>14. ASSUME NEW n \in D, NEW i \in 1 .. Len(kids'[n])
       PROVE  \/ n = made' /\ i = 1 /\ sv = 1 /\ kids'[n][i] = made + 1
              \/ n = made' /\ i = 1 + sv /\ kids'[n][i] = kid
              \/ n = kid /\ i = 1 /\ vl = 1 /\ kids'[n][i] = made + sv + 1
              \/ n = kid /\ i = 1 + vl /\ kids'[n][i] = x
              \/ n = made + 1 /\ i = 1 /\ sv = 1 /\ kids'[n][i] = f
    <2>1. CASE n = made'
        BY <2>1, <1>10
    <2>2. CASE n = kid
        BY <2>2, <1>11
    <2>3. CASE n = made + 1 /\ sv = 1
        BY <2>3, <1>12
    <2>4. CASE n = made + sv + 1 /\ vl = 1
        BY <2>4, <1>13
    <2>. QED  BY <2>1, <2>2, <2>3, <2>4, <1>8
<1>15. Regrown(kids, kid, kids', D, made')
    <2>1. (sv = 1 => made + 1 \in D) /\ (vl = 1 => made + sv + 1 \in D) /\ kid \in D
        BY <1>8
    <2>. HIDE DEF D
    <2>2. ASSUME NEW n \in D, NEW i \in 1 .. Len(kids'[n])
          PROVE  /\ kids'[n][i] # made'
                 /\ kids'[n][i] \in D \/ \E j \in 1 .. Len(kids[kid]) : kids'[n][i] = kids[kid][j]
        BY <1>4, <1>5, <1>6, <1>8, <1>14, <2>1 DEF f
    <2>3. ASSUME NEW n \in D, NEW i \in 1 .. Len(kids'[n]), NEW o \in D, NEW j \in 1 .. Len(kids'[o]),
                 kids'[n][i] = kids'[o][j]
          PROVE  n = o /\ i = j
        <3>0. /\ kid \in 1 .. made /\ x \in 1 .. made /\ (sv = 1 => f \in 1 .. made /\ f # x /\ f # kid)
              /\ x # kid
            BY <1>4, <1>5, <1>6, <1>7
        <3>. QED  BY <1>8, <1>14, <2>3, <3>0, SMTT(30), ZenonT(60)
    <2>. QED  BY <2>2, <2>3 DEF Regrown
<1>16. /\ Len(kids'[el]) = Len(kids[el]) /\ kids'[el][ind] = made'
       /\ \A i \in (1 .. Len(kids[el])) \ {ind} : kids'[el][i] = kids[el][i]
    BY <1>1, <1>3, <1>8, PutAt
<1>17. Graft(kids, made, kids', made', el, ind, {kid})
    BY <1>1, <1>3, <1>8, <1>15, <1>16, GraftAt
<1>18. Len(child') = Len(child) /\ \A i \in ind + 1 .. Len(child) : child'[i] = child[i]
    BY <1>1, <1>8, ChildPut
<1>19. \/ list' = list
       \/ \E y : /\ list' = Append(list, y)
                 /\ y = made' \/ \E i \in 1 .. Len(kids'[made']) : kids'[made'][i] = y
    <2>1. CASE sv = 1
        <3>1. Len(kids'[made']) = 2 /\ kids'[made'][1] = made + 1
            BY <1>2, <2>1
        <3>. QED  BY <1>2, <2>1, <3>1
    <2>. QED  BY <1>2, <2>1
<1>20. CopyInv' /\ OnceInv' /\ TreeInv' /\ SeenInv'
    <2>1. \A n \in 1 .. made : kind'[n] = kind[n]
        BY <1>1 DEF Others
    <2>2. mutator \notin Thorough
        BY <1>1 DEF Thorough
    <2>. QED  BY <1>0, <1>1, <1>3, <1>16, <1>17, <1>18, <1>19, <2>1, <2>2, ChildGraft
<1>. QED  BY <1>9, <1>20 DEF WalkInv

\* ChildCallIndirect: the target moves into the local in front of the call.
LEMMA CallWalk ==
    ASSUME TypeInv, WalkInv, ChildCallIndirect
    PROVE  WalkInv'
<1>. DEFINE x == Last(kids[kid])
            len == Len(kids[kid])
            D == (made + 1 .. made') \cup {kid}
<1>0. NestInv /\ CopyInv /\ OnceInv /\ TreeInv /\ SeenInv
    BY DEF WalkInv
<1>1. /\ TypeInv' /\ ChildStep /\ mutator = "call"
      /\ made' = made + 3 /\ kind[kid] = "call_indirect" /\ Others
      /\ kids'[made + 1] = <<x>> /\ kind'[made + 1] = "local"
      /\ kids'[made + 2] = <<>> /\ kind'[made + 2] = "local"
      /\ kids'[made + 3] = <<made + 1, kid>> /\ kind'[made + 3] = "block"
      /\ kids'[kid] = Put(kids[kid], len, made + 2)
      /\ kid # el => kids'[el] = Put(kids[el], ind, made + 3)
      /\ child' = child /\ list' = Append(list, kid)
    BY CallTypes
<1>2. /\ kid = kids[el][ind] /\ ind \in 1 .. Len(kids[el]) /\ el # kid
      /\ \A i \in 1 .. Len(kids[kid]) : /\ kids[kid][i] # kid /\ kids[kid][i] \in 1 .. made
                                        /\ \A j \in 1 .. Len(kids[kid]) :
                                               kids[kid][i] = kids[kid][j] => i = j
    BY <1>0, <1>1, KidPlace
<1>3. made \in Nat /\ kid \in 1 .. made /\ ArenaOK /\ kids[kid] \in Seq(1 .. made)
    BY <1>1, ChildAt
<1>4. len \in Nat /\ len \in 1 .. len /\ x = kids[kid][len] /\ x \in 1 .. made
    BY <1>1, <1>3, TargetAt
<1>. HIDE DEF x
<1>5. /\ made + 1 .. made' = {made + 1, made + 2, made + 3} /\ made <= made'
      /\ made + 1 # made + 2 /\ made + 1 # made + 3 /\ made + 2 # made + 3
      /\ made + 2 \in 1 .. made'
      /\ 1 .. made \subseteq 1 .. made'
      /\ \A y \in 1 .. made : y # made + 1 /\ y # made + 2 /\ y # made + 3
    <2>1. made + 1 .. made + 3 = {made + 1, made + 2, made + 3}
        <3>1. \A n \in made + 1 .. made + 3 : n = made + 1 \/ n = made + 2 \/ n = made + 3
            BY <1>3
        <3>2. made + 1 \in made + 1 .. made + 3 /\ made + 2 \in made + 1 .. made + 3
              /\ made + 3 \in made + 1 .. made + 3
            BY <1>3
        <3>. QED  BY <3>1, <3>2
    <2>. QED  BY <1>1, <1>3, <2>1
<1>6. NestInv'
    <2>1. \A n \in made + 1 .. made' : kind'[n] # "call_indirect"
        BY <1>1, <1>5
    <2>2. \E e \in made + 1 .. made' : kids'[el] = Put(kids[el], ind, e)
        BY <1>1, <1>2, <1>5
    <2>3. \E i : \E e \in made + 1 .. made' : kids'[kid] = Put(kids[kid], i, e)
        BY <1>1, <1>5
    <2>. QED  BY <1>0, <1>1, <1>2, <1>5, <2>1, <2>2, <2>3, NestChild
<1>7. \A i \in 1 .. Len(kids'[made + 1]) : i = 1 /\ kids'[made + 1][i] = x
    <2>1. Len(kids'[made + 1]) = 1 /\ kids'[made + 1][1] = x
        BY <1>1
    <2>. QED  BY <2>1
<1>8. Len(kids'[made + 2]) = 0
    BY <1>1
<1>9. /\ Len(kids'[made + 3]) = 2 /\ kids'[made + 3][1] = made + 1 /\ kids'[made + 3][2] = kid
      /\ \A i \in 1 .. Len(kids'[made + 3]) : i = 1 \/ i = 2
    <2>1. Len(kids'[made + 3]) = 2 /\ kids'[made + 3][1] = made + 1 /\ kids'[made + 3][2] = kid
        BY <1>1
    <2>. QED  BY <2>1
<1>10. /\ Len(kids'[kid]) = len /\ kids'[kid][len] = made + 2
       /\ \A i \in 1 .. len : i # len => kids'[kid][i] = kids[kid][i] /\ kids[kid][i] # x
    <2>1. kids[kid] \in Seq(1 .. made') /\ made + 2 \in 1 .. made'
        BY <1>3, <1>5, SeqMonotonic
    <2>2. \A S : kids[kid] \in Seq(S) /\ made + 2 \in S =>
              /\ Len(Put(kids[kid], len, made + 2)) = len
              /\ Put(kids[kid], len, made + 2)[len] = made + 2
              /\ \A i \in 1 .. len : i # len => Put(kids[kid], len, made + 2)[i] = kids[kid][i]
        BY <1>4, PutSeq
    <2>3. \A i \in 1 .. len : i # len => kids[kid][i] # x
        BY <1>2, <1>4
    <2>. QED  BY <1>1, <2>1, <2>2, <2>3
<1>. HIDE DEF len
<1>11. ASSUME NEW n \in D, NEW i \in 1 .. Len(kids'[n])
       PROVE  \/ n = made + 1 /\ i = 1 /\ kids'[n][i] = x
              \/ n = made + 3 /\ i = 1 /\ kids'[n][i] = made + 1
              \/ n = made + 3 /\ i = 2 /\ kids'[n][i] = kid
              \/ n = kid /\ i = len /\ kids'[n][i] = made + 2
              \/ n = kid /\ i # len /\ i \in 1 .. len /\ kids'[n][i] = kids[kid][i] /\ kids[kid][i] # x
    <2>1. n = made + 1 \/ n = made + 2 \/ n = made + 3 \/ n = kid
        BY <1>5
    <2>2. CASE n = made + 1
        BY <1>7, <2>2
    <2>3. CASE n = made + 2
        BY <1>8, <2>3
    <2>4. CASE n = made + 3
        BY <1>9, <2>4
    <2>5. CASE n = kid
        BY <1>10, <2>5
    <2>. QED  BY <2>1, <2>2, <2>3, <2>4, <2>5
<1>12. Regrown(kids, kid, kids', D, made + 3)
    <2>0. /\ made + 1 \in D /\ made + 2 \in D /\ kid \in D
        BY <1>5
    <2>. HIDE DEF D
    <2>1. \A i \in 1 .. len : /\ kids[kid][i] # kid /\ kids[kid][i] \in 1 .. made
                              /\ \A j \in 1 .. len : kids[kid][i] = kids[kid][j] => i = j
        BY <1>2 DEF len
    <2>2. ASSUME NEW n \in D, NEW i \in 1 .. Len(kids'[n])
          PROVE  /\ kids'[n][i] # made + 3
                 /\ kids'[n][i] \in D \/ \E j \in 1 .. Len(kids[kid]) : kids'[n][i] = kids[kid][j]
        <3>1. \E j \in 1 .. Len(kids[kid]) : x = kids[kid][j]
            BY <1>4 DEF len
        <3>2. 1 .. len = 1 .. Len(kids[kid])
            BY DEF len
        <3>. QED  BY <1>3, <1>4, <1>5, <1>11, <2>0, <2>1, <3>1, <3>2, SMTT(30), ZenonT(60)
    <2>3. ASSUME NEW n \in D, NEW i \in 1 .. Len(kids'[n]), NEW o \in D, NEW j \in 1 .. Len(kids'[o]),
                 kids'[n][i] = kids'[o][j]
          PROVE  n = o /\ i = j
        <3>1. x # kid
            BY <1>4, <2>1
        <3>2. made + 2 # kid /\ made + 1 # kid /\ x # made + 1 /\ x # made + 2
            BY <1>3, <1>4, <1>5
        <3>. QED  BY <1>5, <1>11, <2>1, <2>3, <3>1, <3>2, SMTT(30), ZenonT(60)
    <2>. QED  BY <2>2, <2>3 DEF Regrown
<1>13. /\ Len(kids'[el]) = Len(kids[el]) /\ kids'[el][ind] = made + 3
       /\ \A i \in (1 .. Len(kids[el])) \ {ind} : kids'[el][i] = kids[el][i]
    BY <1>1, <1>2, <1>5, PutAt
<1>14. Graft(kids, made, kids', made', el, ind, {kid})
    BY <1>1, <1>2, <1>5, <1>12, <1>13, GraftAt
<1>15. \E y : /\ list' = Append(list, y)
              /\ y = made + 3 \/ \E i \in 1 .. Len(kids'[made + 3]) : kids'[made + 3][i] = y
    BY <1>1, <1>9
<1>16. CopyInv' /\ OnceInv' /\ TreeInv' /\ SeenInv'
    <2>1. \A n \in 1 .. made : kind'[n] = kind[n]
        BY <1>1 DEF Others
    <2>2. mutator \notin Thorough
        BY <1>1 DEF Thorough
    <2>. QED  BY <1>0, <1>1, <1>2, <1>13, <1>14, <1>15, <2>1, <2>2, ChildGraft
<1>. QED  BY <1>6, <1>16 DEF WalkInv

\* A step that leaves the tree alone.
LEMMA TreeSame ==
    ASSUME UNCHANGED <<kind, kids, made, body>>
    PROVE  Attached' = Attached /\ (NestInv => NestInv')
<1>1. kind' = kind /\ kids' = kids /\ made' = made /\ body' = body
    OBVIOUS
<1>2. Attached' = Attached
    BY <1>1, AttachedHangs
<1>3. NestInv => NestInv'
    BY <1>1 DEF NestInv
<1>. QED  BY <1>2, <1>3

\* ChildKept moves the child from the copy to the worklist.
LEMMA ChildKeptWalk ==
    ASSUME TypeInv, WalkInv, ChildKept
    PROVE  WalkInv'
<1>0. NestInv /\ CopyInv /\ OnceInv /\ TreeInv /\ SeenInv
    BY DEF WalkInv
<1>1. /\ TypeInv' /\ kind' = kind /\ kids' = kids /\ made' = made /\ child' = child /\ seen' = seen
      /\ list' = Append(list, kid)
    BY ChildKeptTypes
<1>2. ChildStep
    BY DEF ChildKept
<1>3. /\ pc = "child" /\ pc' = "child" /\ ind' = ind + 1 /\ ind \in 1 .. Len(child)
      /\ Len(child) \in Nat /\ mutator' = mutator /\ el' = el /\ body' = body
      /\ list \in Seq(1 .. made) /\ kid \in 1 .. made
    BY <1>2, ChildAt
<1>4. /\ Rest = Later \cup {kid} /\ kid \notin Listed \cup Later
      /\ Ahead = (Listed \cup Later) \cup {kid} /\ Listed \cap Later = {}
    BY <1>0, <1>2, KidAhead
<1>5. Listed' = Listed \cup {kid} /\ \A i, j \in 1 .. Len(list') : list'[i] = list'[j] => i = j
    BY <1>0, <1>1, <1>3, <1>4, Appended
<1>6. Rest' = Later
    BY <1>1, <1>3 DEF Rest, Later
<1>7. Ahead' = Ahead
    BY <1>4, <1>5, <1>6 DEF Ahead
<1>8. Attached' = Attached /\ NestInv'
    BY <1>0, <1>1, <1>3, TreeSame
<1>9. \A i \in ind + 1 .. Len(child) : i \in ind .. Len(child)
    BY <1>3
<1>10. CopyInv'
    BY <1>0, <1>1, <1>3, <1>9 DEF CopyInv
<1>11. OnceInv'
    <2>1. \A i, j \in ind' .. Len(child') : child'[i] = child'[j] => i = j
        BY <1>0, <1>1, <1>3, <1>9 DEF OnceInv
    <2>. QED  BY <1>4, <1>5, <1>6, <2>1 DEF OnceInv
<1>12. TreeInv'
    BY <1>0, <1>1, <1>3, <1>7, <1>8 DEF TreeInv
<1>13. SeenInv'
    <2>. SUFFICES ASSUME mutator \in Thorough
                  PROVE  Sown(kids, body, Attached, seen, Listed', Ahead)
        BY <1>1, <1>3, <1>7, <1>8 DEF SeenInv
    <2>1. Sown(kids, body, Attached, seen, Listed, Ahead)
        BY <1>0, <1>3 DEF SeenInv, Walking
    <2>. QED  BY <1>5, <2>1 DEF Sown
<1>. QED  BY <1>8, <1>10, <1>11, <1>12, <1>13 DEF WalkInv

\* The next element e: it is opened, and its children are ahead.
Kids(c, e) == {c[e][i] : i \in 1 .. Len(c[e])}

Opens(c, m, b, U, X, e) ==
    /\ Arena(c, m) /\ b \in 1 .. m /\ Once(c, b, Hangs(c, b, m))
    /\ e \notin X /\ Open(c, b, Hangs(c, b, m), U, X \cup {e})

\* Its children are ahead only through it.
LEMMA OpenNext ==
    ASSUME NEW c, NEW m, NEW b, NEW U, NEW X, NEW e, Opens(c, m, b, U, X, e)
    PROVE  /\ Open(c, b, Hangs(c, b, m), U \cup {e}, X \cup Kids(c, e))
           /\ X \cap Kids(c, e) = {} /\ e \in Hangs(c, b, m)
           /\ \A i, j \in 1 .. Len(c[e]) : c[e][i] = c[e][j] => i = j
<1>. DEFINE H == Hangs(c, b, m)
<1>0. /\ Arena(c, m) /\ b \in 1 .. m /\ Once(c, b, H)
      /\ e \notin X /\ Open(c, b, H, U, X \cup {e})
    BY DEF Opens
<1>1. /\ X \cup {e} \subseteq H
      /\ \A n \in H : \A i \in 1 .. Len(c[n]) : c[n][i] \in U \cup (X \cup {e}) => n \in U
    BY <1>0, OpenUp
<1>. HIDE DEF H
<1>2. e \in H /\ e \notin U /\ U \subseteq H /\ U \cap X = {}
    BY <1>0, <1>1 DEF Open
<1>3. \A i \in 1 .. Len(c[e]) : c[e][i] \notin U \cup (X \cup {e})
    BY <1>1, <1>2
<1>4. Kids(c, e) \cap (U \cup X \cup {e}) = {}
    BY <1>3 DEF Kids
<1>5. ASSUME NEW x \in (U \cup {e}) \cup (X \cup Kids(c, e))
      PROVE  x = b \/ \E n \in U \cup {e} : \E i \in 1 .. Len(c[n]) : c[n][i] = x
    <2>1. CASE x \in Kids(c, e)
        BY <2>1 DEF Kids
    <2>2. CASE x \in U \cup (X \cup {e})
        BY <1>0, <2>2 DEF Open
    <2>. QED  BY <2>1, <2>2
<1>6. (U \cup {e}) \subseteq H /\ (U \cup {e}) \cap (X \cup Kids(c, e)) = {}
    BY <1>0, <1>2, <1>4
<1>7. Open(c, b, H, U \cup {e}, X \cup Kids(c, e))
    BY <1>5, <1>6 DEF Open
<1>8. \A i, j \in 1 .. Len(c[e]) : c[e][i] = c[e][j] => i = j
    BY <1>0, <1>2 DEF Once
<1>. QED  BY <1>2, <1>4, <1>7, <1>8 DEF H

\* Visit opens the head of the worklist.
LEMMA VisitWalk ==
    ASSUME TypeInv, WalkInv, Visit
    PROVE  WalkInv'
<1>0. NestInv /\ CopyInv /\ OnceInv /\ TreeInv /\ SeenInv
    BY DEF WalkInv
<1>1. /\ TypeInv' /\ kind' = kind /\ kids' = kids /\ made' = made /\ body' = body
      /\ mutator' = mutator /\ pc = "list" /\ Len(list) \in Nat \ {0}
      /\ el' = list[1] /\ child' = kids[el'] /\ ind' = 1
      /\ Len(list') = Len(list) - 1 /\ \A i \in 1 .. Len(list') : list'[i] = list[i + 1]
      /\ seen' = seen \cup {el'} /\ pc' \in {"root", "child"}
    BY VisitTypes
<1>2. Attached' = Attached /\ NestInv'
    BY <1>0, <1>1, TreeSame
<1>3. child = <<>> /\ body \in 1 .. made /\ made \in Nat /\ body # None /\ Len(child) = 0 /\ ind = 1
    <2>1. child = <<>> /\ body \in 0 .. made /\ body # None /\ made \in Nat /\ ind \in 1 .. Len(child) + 1
        BY <1>1, ArenaOKs DEF TypeInv, ControlInv, Walking, WalkOK
    <2>2. Len(child) = 0
        BY <2>1
    <2>. QED  BY <2>1, <2>2 DEF None
<1>4. Rest = {}
    BY <1>3 DEF Rest
<1>5. Rest' = Kids(kids, el')
    BY <1>1 DEF Rest, Kids
<1>6. /\ Listed = Listed' \cup {el'} /\ el' \notin Listed'
      /\ \A i, j \in 1 .. Len(list') : list'[i] = list'[j] => i = j
    <2>1. \A i, j \in 1 .. Len(list) : list[i] = list[j] => i = j
        BY <1>0 DEF OnceInv
    <2>2. \A i \in 1 .. Len(list') : i + 1 \in 1 .. Len(list) /\ i + 1 # 1
        BY <1>1
    <2>3. ASSUME NEW i \in 1 .. Len(list), i # 1
          PROVE  \E j \in 1 .. Len(list') : list'[j] = list[i]
        <3>1. i - 1 \in 1 .. Len(list') /\ (i - 1) + 1 = i
            BY <1>1, <2>3
        <3>. QED  BY <1>1, <3>1
    <2>4. 1 \in 1 .. Len(list)
        BY <1>1
    <2>5. Listed' \subseteq Listed
        BY <1>1, <2>2 DEF Listed
    <2>6. Listed \subseteq Listed' \cup {el'}
        <3>1. ASSUME NEW i \in 1 .. Len(list), i # 1  PROVE list[i] \in Listed'
            BY <2>3, <3>1 DEF Listed
        <3>2. \A i \in 1 .. Len(list) : list[i] \in Listed' \cup {el'}
            BY <1>1, <3>1
        <3>. QED  BY <3>2 DEF Listed
    <2>7. el' \in Listed
        BY <1>1, <2>4 DEF Listed
    <2>8. el' \notin Listed'
        <3>1. \A i \in 1 .. Len(list') : list'[i] # list[1]
            BY <1>1, <2>1, <2>2, <2>4
        <3>. QED  BY <1>1, <3>1 DEF Listed
    <2>9. ASSUME NEW i \in 1 .. Len(list'), NEW j \in 1 .. Len(list'), list'[i] = list'[j]
          PROVE  i = j
        <3>1. i + 1 = j + 1
            BY <1>1, <2>1, <2>2, <2>9
        <3>. QED  BY <3>1
    <2>. QED  BY <2>5, <2>6, <2>7, <2>8, <2>9
<1>7. PICK U : Open(kids, body, Attached, U, Listed' \cup {el'})
    <2>1. Ahead = Listed' \cup {el'}
        BY <1>4, <1>6 DEF Ahead
    <2>. QED  BY <1>0, <1>3, <2>1 DEF TreeInv
<1>8. Once(kids, body, Attached)
    BY <1>0, <1>3 DEF TreeInv
<1>9. /\ Open(kids, body, Attached, U \cup {el'}, Listed' \cup Kids(kids, el'))
      /\ Listed' \cap Kids(kids, el') = {} /\ el' \in Attached
      /\ \A i, j \in 1 .. Len(kids[el']) : kids[el'][i] = kids[el'][j] => i = j
    <2>1. Arena(kids, made) /\ Attached = Hangs(kids, body, made)
        BY Arenas, AttachedHangs
    <2>2. Opens(kids, made, body, U, Listed', el')
        BY <1>3, <1>6, <1>7, <1>8, <2>1 DEF Opens
    <2>3. /\ Open(kids, body, Hangs(kids, body, made), U \cup {el'}, Listed' \cup Kids(kids, el'))
          /\ Listed' \cap Kids(kids, el') = {} /\ el' \in Hangs(kids, body, made)
          /\ \A i, j \in 1 .. Len(kids[el']) : kids[el'][i] = kids[el'][j] => i = j
        BY <2>2, OpenNext
    <2>. QED  BY <2>1, <2>3
<1>10. Ahead' = Listed' \cup Kids(kids, el')
    BY <1>5 DEF Ahead
<1>11. CopyInv'
    BY <1>1 DEF CopyInv
<1>12. OnceInv'
    BY <1>1, <1>5, <1>6, <1>9 DEF OnceInv
<1>13. TreeInv'
    <2>1. Open(kids', body', Attached', U \cup {el'}, Ahead') /\ el' \in U \cup {el'}
        BY <1>1, <1>2, <1>9, <1>10
    <2>2. Once(kids', body', Attached')
        BY <1>1, <1>2, <1>8
    <2>. QED  BY <2>1, <2>2 DEF TreeInv
<1>14. SeenInv'
    <2>. SUFFICES ASSUME mutator \in Thorough
                  PROVE  Sown(kids, body, Attached, seen \cup {el'}, Listed', Listed' \cup Kids(kids, el'))
        BY <1>1, <1>2, <1>10 DEF SeenInv
    <2>1. Sown(kids, body, Attached, seen, Listed, Listed)
        <3>1. Ahead = Listed
            BY <1>4 DEF Ahead
        <3>. QED  BY <1>0, <1>1, <3>1 DEF SeenInv, Walking
    <2>2. body \in (seen \cup {el'}) \cup Listed'
        BY <1>6, <2>1 DEF Sown
    <2>3. ASSUME NEW n \in (Attached \cap (seen \cup {el'})) \ Listed', NEW i \in 1 .. Len(kids[n])
          PROVE  kids[n][i] \in (seen \cup {el'}) \cup (Listed' \cup Kids(kids, el'))
        <3>1. CASE n = el'
            BY <3>1 DEF Kids
        <3>2. CASE n # el'
            <4>1. n \in (Attached \cap seen) \ Listed
                BY <1>6, <2>3, <3>2
            <4>2. kids[n][i] \in seen \cup Listed
                BY <2>1, <4>1 DEF Sown
            <4>. QED  BY <1>6, <4>2
        <3>. QED  BY <3>1, <3>2
    <2>. QED  BY <2>2, <2>3 DEF Sown
<1>. QED  BY <1>2, <1>11, <1>12, <1>13, <1>14 DEF WalkInv

\* After the last child only the worklist is ahead.
LEMMA EndsAhead ==
    ASSUME TypeInv, ChildrenEnd
    PROVE  /\ Listed' = Listed /\ Ahead' = Listed' /\ Ahead = Listed
           /\ Rest' = {} /\ Len(child') = 0
<1>1. list' = list /\ child' = <<>> /\ ind' = 1 /\ ind > Len(child)
    BY DEF ChildrenEnd
<1>2. child \in Seq(1 .. made) /\ ind \in 1 .. Len(child) + 1
    BY DEF TypeInv, WalkOK
<1>3. Len(child) \in Nat
    BY <1>2, LenProperties
<1>4. ind .. Len(child) = {}
    BY <1>1, <1>2, <1>3
<1>5. Rest = {}
    BY <1>4 DEF Rest
<1>6. Len(child') = 0
    BY <1>1
<1>7. Rest' = {}
    BY <1>1, <1>6 DEF Rest
<1>8. Listed' = Listed
    BY <1>1 DEF Listed
<1>. QED  BY <1>5, <1>6, <1>7, <1>8 DEF Ahead

\* NotInserted only leaves the element.
LEMMA NotInsertedWalk ==
    ASSUME TypeInv, WalkInv, NotInserted
    PROVE  WalkInv'
<1>0. NestInv /\ CopyInv /\ OnceInv /\ TreeInv /\ SeenInv
    BY DEF WalkInv
<1>1. TypeInv' /\ ChildrenEnd /\ kind' = kind /\ kids' = kids /\ made' = made /\ seen' = seen
    BY NotInsertedTypes
<1>2. /\ pc = "child" /\ pc' = "list" /\ list' = list /\ child' = <<>> /\ ind' = 1
      /\ body' = body /\ mutator' = mutator /\ ind > Len(child)
    BY <1>1 DEF ChildrenEnd, counts
<1>3. Attached' = Attached /\ NestInv'
    BY <1>0, <1>1, <1>2, TreeSame
<1>4. Listed' = Listed /\ Ahead' = Listed' /\ Ahead = Listed /\ Rest' = {} /\ Len(child') = 0
    BY <1>1, <1>2, EndsAhead
<1>5. CopyInv'
    BY <1>2 DEF CopyInv
<1>6. OnceInv'
    BY <1>0, <1>2, <1>4 DEF OnceInv
<1>7. TreeInv'
    BY <1>0, <1>1, <1>2, <1>3, <1>4 DEF TreeInv
<1>8. SeenInv'
    BY <1>0, <1>1, <1>2, <1>3, <1>4 DEF SeenInv, Walking
<1>. QED  BY <1>3, <1>5, <1>6, <1>7, <1>8 DEF WalkInv

\* Inserted: the other children move by one place.
LEMMA InsertedWalk ==
    ASSUME TypeInv, WalkInv, Inserted
    PROVE  WalkInv'
<1>0. NestInv /\ CopyInv /\ OnceInv /\ TreeInv /\ SeenInv
    BY DEF WalkInv
<1>1. /\ TypeInv' /\ ChildrenEnd /\ mutator = "splice"
      /\ made' = made + 1 /\ seen' = seen \cup (made + 1 .. made')
      /\ kind'[made + 1] = "const" /\ kids'[made + 1] = <<>>
      /\ \A n \in 1 .. made : kind'[n] = kind[n] /\ (n # el => kids'[n] = kids[n])
      /\ kind[el] = "block"
    BY InsertedTypes
<1>2. PICK k \in 1 .. Len(kids[el]) :
          /\ Len(kids'[el]) = Len(kids[el]) + 1
          /\ \A i \in 1 .. Len(kids[el]) + 1 :
                kids'[el][i] = IF i < k THEN kids[el][i] ELSE IF i = k THEN made + 1 ELSE kids[el][i - 1]
    BY InsertedTypes
<1>3. /\ pc = "child" /\ pc' = "list" /\ list' = list /\ child' = <<>> /\ ind' = 1
      /\ body' = body /\ mutator' = mutator
    BY <1>1 DEF ChildrenEnd, counts
<1>4. Listed' = Listed /\ Ahead' = Listed' /\ Ahead = Listed /\ Rest' = {} /\ Len(child') = 0
    BY <1>1, EndsAhead
<1>5. made \in Nat /\ body \in 1 .. made /\ body # None
    <2>1. body \in 0 .. made /\ body # None /\ made \in Nat
        BY <1>3, ArenaOKs DEF TypeInv, ControlInv, Walking
    <2>. QED  BY <2>1 DEF None
<1>6. made <= made' /\ made + 1 .. made' = {made + 1}
    BY <1>1, <1>5
<1>7. NestInv'
    <2>1. \A n \in made + 1 .. made' : kind'[n] # "call_indirect"
        BY <1>1, <1>6
    <2>2. \A n \in 1 .. made : kind[n] = "call_indirect" => n # el
        BY <1>1
    <2>. QED  BY <1>0, <1>1, <1>6, <2>1, <2>2, NestKept
<1>8. PICK U : Open(kids, body, Attached, U, Listed) /\ el \in U
    BY <1>0, <1>3, <1>4, <1>5 DEF TreeInv
<1>9. Once(kids, body, Attached)
    BY <1>0, <1>5 DEF TreeInv
<1>10. el \in Attached
    BY <1>8 DEF Open
<1>11. /\ Arena(kids, made) /\ Arena(kids', made + 1)
       /\ Attached = Hangs(kids, body, made) /\ Attached' = Hangs(kids', body, made + 1)
    BY <1>1, <1>3, Arenas, AttachedHangs
<1>12. (\A n \in (1 .. made) \ {el} : kids'[n] = kids[n]) /\ Len(kids'[made + 1]) = 0
    BY <1>1
<1>13. /\ Once(kids', body, Attached')
       /\ Open(kids', body, Attached', U, Listed)
       /\ \A s, L, Y : Sown(kids, body, Attached, s, L, Y) =>
              Sown(kids', body, Attached', s \cup {made + 1}, L, Y)
    <2>1. Spliced(kids, made, kids', body, el, k, U, Listed)
        BY <1>2, <1>5, <1>8, <1>9, <1>10, <1>11, <1>12 DEF Spliced
    <2>2. /\ Once(kids', body, Hangs(kids', body, made + 1))
          /\ Open(kids', body, Hangs(kids', body, made + 1), U, Listed)
          /\ \A s, L, Y : Sown(kids, body, Hangs(kids, body, made), s, L, Y) =>
                 Sown(kids', body, Hangs(kids', body, made + 1), s \cup {made + 1}, L, Y)
        BY <2>1, SplicedTree
    <2>. QED  BY <1>11, <2>2
<1>14. CopyInv'
    BY <1>3 DEF CopyInv
<1>15. OnceInv'
    BY <1>0, <1>3, <1>4 DEF OnceInv
<1>16. TreeInv'
    BY <1>3, <1>4, <1>13 DEF TreeInv
<1>17. SeenInv'
    <2>1. mutator \in Thorough => Sown(kids, body, Attached, seen, Listed, Listed)
        BY <1>0, <1>3, <1>4 DEF SeenInv, Walking
    <2>2. mutator \in Thorough => Sown(kids', body, Attached', seen \cup {made + 1}, Listed, Listed)
        BY <1>13, <2>1
    <2>. QED  BY <1>1, <1>3, <1>4, <1>6, <2>2 DEF SeenInv
<1>. QED  BY <1>7, <1>14, <1>15, <1>16, <1>17 DEF WalkInv

\* RootKept goes on to the children.
LEMMA RootKeptWalk ==
    ASSUME TypeInv, WalkInv, RootKept
    PROVE  WalkInv'
<1>0. NestInv /\ CopyInv /\ OnceInv /\ TreeInv /\ SeenInv
    BY DEF WalkInv
<1>1. TypeInv' /\ RootStep /\ UNCHANGED <<kind, kids, made, body, el, seen>>
    BY RootKeptTypes
<1>2. /\ pc = "root" /\ pc' = "child" /\ list' = <<>> /\ list = <<>>
      /\ child' = child /\ child = kids[el] /\ ind' = ind /\ mutator' = mutator
    BY <1>1, RootAt
<1>3. Attached' = Attached /\ NestInv'
    BY <1>0, <1>1, TreeSame
<1>4. Listed' = Listed /\ Rest' = Rest /\ Ahead' = Ahead
    BY <1>2 DEF Listed, Rest, Ahead
<1>5. CopyInv'
    BY <1>1, <1>2 DEF CopyInv
<1>6. OnceInv'
    BY <1>0, <1>2, <1>4 DEF OnceInv
<1>7. TreeInv'
    BY <1>0, <1>1, <1>2, <1>3, <1>4 DEF TreeInv
<1>8. SeenInv'
    BY <1>0, <1>1, <1>2, <1>3, <1>4 DEF SeenInv, Walking
<1>. QED  BY <1>3, <1>5, <1>6, <1>7, <1>8 DEF WalkInv

\* A step at the root that puts a new top t above it or in its place: V is what
\* is opened then.
Rooted(t, Q, V) ==
    /\ made <= made' /\ t = body' /\ t \in made + 1 .. made' /\ Q \subseteq {el}
    /\ \A n \in 1 .. made : n # el => kids'[n] = kids[n]
    /\ Regrown(kids, el, kids', (made + 1 .. made') \cup Q, t)
    /\ Len(kids'[el']) = Len(child)
    /\ \A i \in 1 .. Len(child) : child[i] = kids'[el'][i]
                                  \/ (mutator = "call" /\ kind'[child[i]] # "call_indirect")
    /\ el' \in V /\ V \subseteq (made + 1 .. made') \cup Q
    /\ \A S : t \in S /\ Shut(kids', S) => V \subseteq S
    /\ \A x \in V \cup Rest : x = t \/ \E n \in V : \E i \in 1 .. Len(kids'[n]) : kids'[n][i] = x
    /\ mutator \in Thorough =>
           /\ seen' = seen \cup (made + 1 .. made')
           /\ \A n \in (made + 1 .. made') \cup Q : \A i \in 1 .. Len(kids'[n]) :
                  kids'[n][i] \in Rest \cup {el}

\* The invariant after such a step.
LEMMA RootGraft ==
    ASSUME TypeInv, TypeInv', WalkInv, RootStep, NEW t, NEW Q, NEW V, Rooted(t, Q, V)
    PROVE  CopyInv' /\ OnceInv' /\ TreeInv' /\ SeenInv'
<1>. USE DEF Rooted
<1>. DEFINE A == Attached
            G == Attached'
            N == made + 1 .. made'
<1>0. NestInv /\ CopyInv /\ OnceInv /\ TreeInv /\ SeenInv
    BY DEF WalkInv
<1>1. /\ pc = "root" /\ pc' = "child" /\ list' = <<>> /\ list = <<>>
      /\ child' = child /\ child = kids[el] /\ ind' = 1 /\ ind = 1 /\ el = body /\ mutator' = mutator
      /\ made \in Nat /\ el \in 1 .. made
    BY RootAt
<1>2. /\ Arena(kids, made) /\ Arena(kids', made')
      /\ A = Hangs(kids, body, made) /\ G = Hangs(kids', t, made')
    BY Arenas, AttachedHangs
<1>3. body # None /\ body' # None
    BY <1>1 DEF None
<1>4. Once(kids, body, A)
    BY <1>0, <1>3 DEF TreeInv
<1>5. /\ G \subseteq (A \ {el}) \cup N \cup Q
      /\ Once(kids', t, G) /\ t \in G /\ Shut(kids', G)
    <2>1. \A n \in (1 .. made) \ {body} : kids'[n] = kids[n]
        BY <1>1
    <2>2. Regrown(kids, body, kids', (made + 1 .. made') \cup Q, t) /\ Q \subseteq {body}
          /\ body \in 1 .. made
        BY <1>1
    <2>. HIDE DEF A, G
    <2>3. Crowned(kids, made, kids', made', body, t, Q)
        BY <1>1, <1>2, <1>4, <2>1, <2>2 DEF Crowned
    <2>4. /\ Hangs(kids', t, made') \subseteq (Hangs(kids, body, made) \ {body}) \cup (made + 1 .. made') \cup Q
          /\ Once(kids', t, Hangs(kids', t, made'))
          /\ t \in Hangs(kids', t, made') /\ Shut(kids', Hangs(kids', t, made'))
        BY <2>3, CrownedTree
    <2>. QED  BY <1>1, <1>2, <2>4
<1>6. /\ Listed = {} /\ Listed' = {} /\ Rest' = Rest /\ Ahead' = Rest /\ Ahead = Rest
    <2>1. Len(list) = 0 /\ Len(list') = 0
        BY <1>1
    <2>2. Listed = {} /\ Listed' = {}
        BY <2>1 DEF Listed
    <2>3. Rest' = Rest
        BY <1>1 DEF Rest
    <2>. QED  BY <2>2, <2>3 DEF Ahead
<1>7. \A x \in Rest : x \in 1 .. made /\ x # el
    <2>1. el \in A /\ \A i \in 1 .. Len(kids[el]) : kids[el][i] \in 1 .. made
        BY <1>1, <1>2, HangsShut, ArenaPlaces
    <2>2. \A i \in 1 .. Len(kids[el]) : kids[el][i] # el
        BY <1>1, <1>4, <2>1 DEF Once
    <2>. QED  BY <1>1, <2>1, <2>2 DEF Rest
<1>8. V \cap Rest = {}
    <2>1. N \cap (1 .. made) = {}
        BY <1>1
    <2>. QED  BY <1>7, <2>1
<1>9. V \subseteq G
    BY <1>5
<1>10. Open(kids', t, G, V, Rest)
    BY <1>8, <1>9 DEF Open
<1>11. CopyInv'
    BY <1>1 DEF CopyInv
<1>12. OnceInv'
    <2>1. \A i, j \in ind' .. Len(child') : child'[i] = child'[j] => i = j
        BY <1>0, <1>1 DEF OnceInv
    <2>2. \A i, j \in 1 .. Len(list') : list'[i] = list'[j] => i = j
        BY <1>1
    <2>. QED  BY <1>6, <2>1, <2>2 DEF OnceInv
<1>13. TreeInv'
    BY <1>5, <1>6, <1>10 DEF TreeInv
<1>14. SeenInv'
    <2>. SUFFICES ASSUME mutator \in Thorough  PROVE Sown(kids', t, G, seen \cup N, {}, Rest)
        BY <1>1, <1>6 DEF SeenInv
    <2>1. Sown(kids, body, A, seen, {}, Rest)
        BY <1>0, <1>1, <1>6 DEF SeenInv, Walking
    <2>2. el \in seen
        BY <1>1, <2>1 DEF Sown
    <2>3. ASSUME NEW n \in (G \cap (seen \cup N)) \ {}, NEW i \in 1 .. Len(kids'[n])
          PROVE  kids'[n][i] \in (seen \cup N) \cup Rest
        <3>1. CASE n \in N \cup Q
            BY <2>2, <3>1
        <3>2. CASE n \notin N \cup Q
            <4>1. n \in (A \cap seen) \ {} /\ n # el
                BY <1>5, <3>2
            <4>2. n \in 1 .. made
                BY <1>1, <1>2, <4>1, HangsShut
            <4>3. kids'[n] = kids[n]
                BY <4>1, <4>2
            <4>. QED  BY <2>1, <4>1, <4>3 DEF Sown
        <3>. QED  BY <3>1, <3>2
    <2>. HIDE DEF G, N
    <2>. QED  BY <2>3 DEF Sown, N
<1>. QED  BY <1>11, <1>12, <1>13, <1>14

\* The root and its children.
LEMMA RootPlace ==
    ASSUME TypeInv, WalkInv, RootStep
    PROVE  /\ Rest = Kids(kids, el) /\ made \in Nat /\ el \in 1 .. made
           /\ child = kids[el] /\ Len(kids[el]) \in Nat /\ kids[el] \in Seq(1 .. made)
           /\ \A i \in 1 .. Len(kids[el]) : /\ kids[el][i] # el /\ kids[el][i] \in 1 .. made
                                            /\ \A j \in 1 .. Len(kids[el]) :
                                                   kids[el][i] = kids[el][j] => i = j
<1>1. /\ child = kids[el] /\ ind = 1 /\ el = body /\ made \in Nat /\ el \in 1 .. made
      /\ kids[el] \in Seq(1 .. made)
    BY RootAt
<1>2. Arena(kids, made) /\ Attached = Hangs(kids, body, made) /\ body # None
    BY <1>1, Arenas, AttachedHangs DEF None
<1>3. Once(kids, body, Attached)
    BY <1>2 DEF WalkInv, TreeInv
<1>4. el \in Attached
    BY <1>1, <1>2, HangsShut
<1>5. Len(kids[el]) \in Nat /\ \A i \in 1 .. Len(kids[el]) : kids[el][i] \in 1 .. made
    BY <1>1, <1>2, ArenaPlaces
<1>6. Rest = Kids(kids, el)
    BY <1>1 DEF Rest, Kids
<1>7. ASSUME NEW i \in 1 .. Len(kids[el])
      PROVE  /\ kids[el][i] # el
             /\ \A j \in 1 .. Len(kids[el]) : kids[el][i] = kids[el][j] => i = j
    BY <1>1, <1>3, <1>4 DEF Once
<1>. QED  BY <1>1, <1>5, <1>6, <1>7

\* RootReplaced: the new body takes over the operands, and is the element.
LEMMA RootReplacedWalk ==
    ASSUME TypeInv, WalkInv, RootReplaced
    PROVE  WalkInv'
<1>. DEFINE t == made + 1
<1>1. /\ TypeInv' /\ RootStep /\ mutator = "operators"
      /\ made' = made + 1 /\ seen' = seen \cup (made + 1 .. made')
      /\ kind[el] \in {"op", "const"} /\ body' = t /\ el' = t
      /\ kids'[t] = kids[el] /\ kind'[t] = kind[el]
      /\ \A n \in 1 .. made : kind'[n] = kind[n] /\ kids'[n] = kids[n]
    BY RootReplacedTypes
<1>2. /\ Rest = Kids(kids, el) /\ made \in Nat /\ el \in 1 .. made
      /\ child = kids[el] /\ Len(kids[el]) \in Nat /\ kids[el] \in Seq(1 .. made)
      /\ \A i \in 1 .. Len(kids[el]) : /\ kids[el][i] # el /\ kids[el][i] \in 1 .. made
                                       /\ \A j \in 1 .. Len(kids[el]) :
                                              kids[el][i] = kids[el][j] => i = j
    BY <1>1, RootPlace
<1>3. made + 1 .. made' = {t} /\ made <= made' /\ t \notin 1 .. made
    BY <1>1, <1>2
<1>. HIDE DEF t
<1>4. NestInv'
    BY <1>1, <1>3, NestKept DEF WalkInv
<1>5. Regrown(kids, el, kids', (made + 1 .. made') \cup {}, t)
    <2>1. \A n \in (made + 1 .. made') \cup {} : n = t /\ kids'[n] = kids[el]
        BY <1>1, <1>3
    <2>2. \A i \in 1 .. Len(kids[el]) : kids[el][i] # t
        BY <1>2, <1>3
    <2>. QED  BY <1>2, <2>1, <2>2 DEF Regrown
<1>6. \A x \in {t} \cup Rest : x = t \/ \E n \in {t} : \E i \in 1 .. Len(kids'[n]) : kids'[n][i] = x
    BY <1>1, <1>2 DEF Kids
<1>7. \A n \in (made + 1 .. made') \cup {} : \A i \in 1 .. Len(kids'[n]) : kids'[n][i] \in Rest \cup {el}
    BY <1>1, <1>2, <1>3 DEF Kids
<1>8. CopyInv' /\ OnceInv' /\ TreeInv' /\ SeenInv'
    <2>1. Rooted(t, {}, {t})
        BY <1>1, <1>2, <1>3, <1>5, <1>6, <1>7 DEF Rooted
    <2>. QED  BY <1>1, <2>1, RootGraft
<1>. QED  BY <1>4, <1>8 DEF WalkInv

\* RootWrapped: the element stays, below the new body.
LEMMA RootWrappedWalk ==
    ASSUME TypeInv, WalkInv, RootWrapped
    PROVE  WalkInv'
<1>. DEFINE t == made + 1
<1>1. /\ TypeInv' /\ RootStep /\ mutator = "recursive"
      /\ made' = made + 1 /\ seen' = seen \cup (made + 1 .. made')
      /\ kind[el] = "block" /\ body' = t /\ el' = el
      /\ kids'[t] = <<el>> /\ kind'[t] = "block"
      /\ \A n \in 1 .. made : kind'[n] = kind[n] /\ kids'[n] = kids[n]
    BY RootWrappedTypes
<1>2. /\ Rest = Kids(kids, el) /\ made \in Nat /\ el \in 1 .. made
      /\ child = kids[el] /\ Len(kids[el]) \in Nat /\ kids[el] \in Seq(1 .. made)
      /\ \A i \in 1 .. Len(kids[el]) : /\ kids[el][i] # el /\ kids[el][i] \in 1 .. made
                                       /\ \A j \in 1 .. Len(kids[el]) :
                                              kids[el][i] = kids[el][j] => i = j
    BY <1>1, RootPlace
<1>3. made + 1 .. made' = {t} /\ made <= made' /\ t \notin 1 .. made
    BY <1>1, <1>2
<1>. HIDE DEF t
<1>4. NestInv'
    BY <1>1, <1>3, NestKept DEF WalkInv
<1>5. /\ Len(kids'[t]) = 1 /\ kids'[t][1] = el /\ 1 \in 1 .. Len(kids'[t])
      /\ \A i \in 1 .. Len(kids'[t]) : i = 1 /\ kids'[t][i] = el
    <2>1. Len(kids'[t]) = 1 /\ kids'[t][1] = el
        BY <1>1
    <2>. QED  BY <2>1
<1>6. kids'[el] = kids[el] /\ el # t
    BY <1>1, <1>2, <1>3
<1>7. Regrown(kids, el, kids', (made + 1 .. made') \cup {el}, t)
    <2>1. \A n \in (made + 1 .. made') \cup {el} : n = t \/ n = el
        BY <1>3
    <2>2. \A i \in 1 .. Len(kids'[el]) :
              /\ kids'[el][i] # t /\ kids'[el][i] # el
              /\ \E j \in 1 .. Len(kids[el]) : kids'[el][i] = kids[el][j]
              /\ \A j \in 1 .. Len(kids'[el]) : kids'[el][i] = kids'[el][j] => i = j
        BY <1>2, <1>3, <1>6
    <2>. QED  BY <1>5, <1>6, <2>1, <2>2 DEF Regrown
<1>8. \A x \in {t, el} \cup Rest :
          x = t \/ \E n \in {t, el} : \E i \in 1 .. Len(kids'[n]) : kids'[n][i] = x
    BY <1>2, <1>5, <1>6 DEF Kids
<1>9. \A n \in (made + 1 .. made') \cup {el} : \A i \in 1 .. Len(kids'[n]) : kids'[n][i] \in Rest \cup {el}
    BY <1>2, <1>3, <1>5, <1>6 DEF Kids
<1>10. \A S : t \in S /\ Shut(kids', S) => {t, el} \subseteq S
    BY <1>5 DEF Shut
<1>11. CopyInv' /\ OnceInv' /\ TreeInv' /\ SeenInv'
    <2>1. Rooted(t, {el}, {t, el})
        BY <1>1, <1>2, <1>3, <1>6, <1>7, <1>8, <1>9, <1>10 DEF Rooted
    <2>. QED  BY <1>1, <2>1, RootGraft
<1>. QED  BY <1>4, <1>11 DEF WalkInv

\* RootCallIndirect: the copy of the children still holds the target, which is
\* now below the local.
LEMMA RootCallWalk ==
    ASSUME TypeInv, WalkInv, RootCallIndirect
    PROVE  WalkInv'
<1>. DEFINE x == Last(kids[el])
            len == Len(kids[el])
            D == (made + 1 .. made') \cup {el}
            V == {made + 3, made + 1, el}
<1>1. /\ TypeInv' /\ RootStep /\ mutator = "call"
      /\ made' = made + 3 /\ kind[el] = "call_indirect" /\ body' = made + 3 /\ el' = el
      /\ kids'[made + 1] = <<x>> /\ kind'[made + 1] = "local"
      /\ kids'[made + 2] = <<>> /\ kind'[made + 2] = "local"
      /\ kids'[made + 3] = <<made + 1, el>> /\ kind'[made + 3] = "block"
      /\ kids'[el] = Put(kids[el], len, made + 2)
      /\ \A n \in 1 .. made : kind'[n] = kind[n] /\ (n # el => kids'[n] = kids[n])
    BY RootCallTypes
<1>2. /\ Rest = Kids(kids, el) /\ made \in Nat /\ el \in 1 .. made
      /\ child = kids[el] /\ Len(kids[el]) \in Nat /\ kids[el] \in Seq(1 .. made)
      /\ \A i \in 1 .. Len(kids[el]) : /\ kids[el][i] # el /\ kids[el][i] \in 1 .. made
                                       /\ \A j \in 1 .. Len(kids[el]) :
                                              kids[el][i] = kids[el][j] => i = j
    BY <1>1, RootPlace
<1>3. len \in Nat /\ len \in 1 .. len /\ x = kids[el][len] /\ x \in 1 .. made
    <2>1. ArenaOK
        BY DEF TypeInv
    <2>. QED  BY <1>1, <1>2, <2>1, TargetAt
<1>4. kind[x] # "call_indirect"
    BY <1>1, <1>2 DEF WalkInv, NestInv
<1>. HIDE DEF x
<1>5. /\ made + 1 .. made' = {made + 1, made + 2, made + 3} /\ made <= made'
      /\ made + 1 # made + 2 /\ made + 1 # made + 3 /\ made + 2 # made + 3
      /\ made + 2 \in 1 .. made' /\ 1 .. made \subseteq 1 .. made'
      /\ \A y \in 1 .. made : y # made + 1 /\ y # made + 2 /\ y # made + 3
    <2>1. made + 1 .. made + 3 = {made + 1, made + 2, made + 3}
        <3>1. \A n \in made + 1 .. made + 3 : n = made + 1 \/ n = made + 2 \/ n = made + 3
            BY <1>2
        <3>2. made + 1 \in made + 1 .. made + 3 /\ made + 2 \in made + 1 .. made + 3
              /\ made + 3 \in made + 1 .. made + 3
            BY <1>2
        <3>. QED  BY <3>1, <3>2
    <2>. QED  BY <1>1, <1>2, <2>1
<1>6. /\ Len(kids'[el]) = len /\ kids'[el][len] = made + 2
      /\ \A i \in 1 .. len : i # len => kids'[el][i] = kids[el][i] /\ kids[el][i] # x
      /\ Last(kids'[el]) = made + 2
    <2>1. kids[el] \in Seq(1 .. made') /\ made + 2 \in 1 .. made'
        BY <1>2, <1>5, SeqMonotonic
    <2>2. \A S : kids[el] \in Seq(S) /\ made + 2 \in S =>
              /\ Len(Put(kids[el], len, made + 2)) = len
              /\ Put(kids[el], len, made + 2)[len] = made + 2
              /\ \A i \in 1 .. len : i # len => Put(kids[el], len, made + 2)[i] = kids[el][i]
        BY <1>3, PutSeq
    <2>3. \A i \in 1 .. len : i # len => kids[el][i] # x
        BY <1>2, <1>3
    <2>4. /\ Len(kids'[el]) = len /\ kids'[el][len] = made + 2
          /\ \A i \in 1 .. len : i # len => kids'[el][i] = kids[el][i]
        BY <1>1, <2>1, <2>2
    <2>. QED  BY <2>3, <2>4 DEF Last
<1>7. NestInv'
    <2>1. \A n \in made + 1 .. made' : kind'[n] # "call_indirect"
        BY <1>1, <1>5
    <2>2. \A n \in 1 .. made : Last(kids'[n]) = Last(kids[n]) \/ Last(kids'[n]) \in made + 1 .. made'
        BY <1>1, <1>5, <1>6
    <2>. QED  BY <1>1, <1>5, <2>1, <2>2, NestKept DEF WalkInv
<1>8. \A i \in 1 .. Len(kids'[made + 1]) : i = 1 /\ kids'[made + 1][i] = x
    <2>1. Len(kids'[made + 1]) = 1 /\ kids'[made + 1][1] = x
        BY <1>1
    <2>. QED  BY <2>1
<1>9. Len(kids'[made + 2]) = 0
    BY <1>1
<1>10. /\ kids'[made + 3][1] = made + 1 /\ kids'[made + 3][2] = el
       /\ 1 \in 1 .. Len(kids'[made + 3]) /\ 2 \in 1 .. Len(kids'[made + 3])
       /\ \A i \in 1 .. Len(kids'[made + 3]) : i = 1 \/ i = 2
    <2>1. Len(kids'[made + 3]) = 2 /\ kids'[made + 3][1] = made + 1 /\ kids'[made + 3][2] = el
        BY <1>1
    <2>. QED  BY <2>1
<1>11. 1 \in 1 .. Len(kids'[made + 1]) /\ kids'[made + 1][1] = x
    BY <1>1
<1>. HIDE DEF len
<1>12. ASSUME NEW n \in D, NEW i \in 1 .. Len(kids'[n])
       PROVE  \/ n = made + 1 /\ i = 1 /\ kids'[n][i] = x
              \/ n = made + 3 /\ i = 1 /\ kids'[n][i] = made + 1
              \/ n = made + 3 /\ i = 2 /\ kids'[n][i] = el
              \/ n = el /\ i = len /\ kids'[n][i] = made + 2
              \/ n = el /\ i # len /\ i \in 1 .. len /\ kids'[n][i] = kids[el][i] /\ kids[el][i] # x
    <2>1. n = made + 1 \/ n = made + 2 \/ n = made + 3 \/ n = el
        BY <1>5
    <2>2. CASE n = made + 1
        BY <1>8, <2>2
    <2>3. CASE n = made + 2
        BY <1>9, <2>3
    <2>4. CASE n = made + 3
        BY <1>10, <2>4
    <2>5. CASE n = el
        BY <1>6, <2>5
    <2>. QED  BY <2>1, <2>2, <2>3, <2>4, <2>5
<1>13. Regrown(kids, el, kids', D, made + 3)
    <2>0. /\ made + 1 \in D /\ made + 2 \in D /\ el \in D
        BY <1>5
    <2>. HIDE DEF D
    <2>1. \A i \in 1 .. len : /\ kids[el][i] # el /\ kids[el][i] \in 1 .. made
                              /\ \A j \in 1 .. len : kids[el][i] = kids[el][j] => i = j
        BY <1>2 DEF len
    <2>2. ASSUME NEW n \in D, NEW i \in 1 .. Len(kids'[n])
          PROVE  /\ kids'[n][i] # made + 3
                 /\ kids'[n][i] \in D \/ \E j \in 1 .. Len(kids[el]) : kids'[n][i] = kids[el][j]
        <3>1. \E j \in 1 .. Len(kids[el]) : x = kids[el][j]
            BY <1>3 DEF len
        <3>2. 1 .. len = 1 .. Len(kids[el])
            BY DEF len
        <3>. QED  BY <1>2, <1>3, <1>5, <1>12, <2>0, <2>1, <3>1, <3>2, SMTT(30), ZenonT(60)
    <2>3. ASSUME NEW n \in D, NEW i \in 1 .. Len(kids'[n]), NEW o \in D, NEW j \in 1 .. Len(kids'[o]),
                 kids'[n][i] = kids'[o][j]
          PROVE  n = o /\ i = j
        <3>1. x # el
            BY <1>3, <2>1
        <3>2. made + 2 # el /\ made + 1 # el /\ x # made + 1 /\ x # made + 2
            BY <1>2, <1>3, <1>5
        <3>3. \A u \in 1 .. len : kids[el][u] # made + 1 /\ kids[el][u] # made + 2
            BY <1>5, <2>1
        <3>4. made + 1 # made + 2
            BY <1>5
        <3>. QED  BY <1>12, <2>1, <2>3, <3>1, <3>2, <3>3, <3>4
    <2>. QED  BY <2>2, <2>3 DEF Regrown
<1>14. \A y \in V \cup Rest :
           y = made + 3 \/ \E n \in V : \E i \in 1 .. Len(kids'[n]) : kids'[n][i] = y
    <2>1. \E i \in 1 .. Len(kids'[made + 3]) : kids'[made + 3][i] = made + 1
        BY <1>10
    <2>2. \E i \in 1 .. Len(kids'[made + 3]) : kids'[made + 3][i] = el
        BY <1>10
    <2>3. ASSUME NEW y \in Rest
          PROVE  \E n \in V : \E i \in 1 .. Len(kids'[n]) : kids'[n][i] = y
        <3>1. PICK i \in 1 .. len : y = kids[el][i]
            BY <1>2 DEF Kids, len
        <3>2. CASE i = len
            BY <1>3, <1>11, <3>1, <3>2
        <3>3. CASE i # len
            BY <1>6, <3>1, <3>3
        <3>. QED  BY <3>2, <3>3
    <2>. QED  BY <2>1, <2>2, <2>3
<1>15. \A S : made + 3 \in S /\ Shut(kids', S) => V \subseteq S
    BY <1>10 DEF Shut
<1>16. V \subseteq D /\ el' \in V /\ made + 3 \in made + 1 .. made'
    BY <1>1, <1>5
<1>17. ASSUME NEW i \in 1 .. Len(child)
       PROVE  child[i] = kids'[el'][i] \/ (mutator = "call" /\ kind'[child[i]] # "call_indirect")
    <2>1. i \in 1 .. len /\ child[i] = kids[el][i]
        BY <1>2 DEF len
    <2>2. CASE i = len
        BY <1>1, <1>3, <1>4, <2>1, <2>2
    <2>3. CASE i # len
        BY <1>1, <1>6, <2>1, <2>3
    <2>. QED  BY <2>2, <2>3
<1>18. Len(kids'[el']) = Len(child) /\ mutator \notin Thorough
    BY <1>1, <1>2, <1>6 DEF len, Thorough
<1>. HIDE DEF V, D
<1>19. CopyInv' /\ OnceInv' /\ TreeInv' /\ SeenInv'
    <2>1. Rooted(made + 3, {el}, V)
        BY <1>1, <1>5, <1>13, <1>14, <1>15, <1>16, <1>17, <1>18 DEF D, Rooted
    <2>. QED  BY <1>1, <2>1, RootGraft
<1>. QED  BY <1>7, <1>19 DEF WalkInv

\* Nothing is ahead while no function is walked.
LEMMA IdleWalk ==
    ASSUME TypeInv, WalkInv, TypeInv', UNCHANGED <<kind, kids, made, body>>, ~Walking'
    PROVE  WalkInv'
<1>0. NestInv /\ CopyInv /\ OnceInv /\ TreeInv /\ SeenInv
    BY DEF WalkInv
<1>1. pc' \notin {"list", "root", "child"} /\ child' = <<>> /\ list' = <<>>
      /\ kids' = kids /\ body' = body /\ ind' \in 1 .. Len(child') + 1
    BY DEF TypeInv, ControlInv, Walking, WalkOK
<1>2. Attached' = Attached /\ NestInv'
    BY <1>0, TreeSame
<1>3. Len(child') = 0 /\ Len(list') = 0
    BY <1>1
<1>4. ind' .. Len(child') = {} /\ 1 .. Len(list') = {}
    BY <1>1, <1>3
<1>5. Listed' = {} /\ Rest' = {} /\ Ahead' = {}
    BY <1>4 DEF Listed, Rest, Ahead
<1>6. CopyInv' /\ SeenInv'
    BY <1>1 DEF CopyInv, SeenInv, Walking
<1>7. OnceInv'
    BY <1>4, <1>5 DEF OnceInv
<1>8. TreeInv'
    <2>1. Open(kids', body', Attached', {}, {})
        BY DEF Open
    <2>2. body' # None => Once(kids', body', Attached')
        BY <1>0, <1>1, <1>2 DEF TreeInv
    <2>. QED  BY <1>1, <1>5, <2>1, <2>2 DEF TreeInv
<1>. QED  BY <1>2, <1>6, <1>7, <1>8 DEF WalkInv

\* A function is walked from its body.
LEMMA StartWalk ==
    ASSUME TypeInv, WalkInv, NextFunc, pc' = "list"
    PROVE  WalkInv'
<1>0. NestInv /\ CopyInv /\ OnceInv /\ TreeInv /\ SeenInv
    BY DEF WalkInv
<1>1. TypeInv' /\ UNCHANGED <<kind, kids, made, body>>
    BY StageTypes
<1>2. /\ pc = "funcs" /\ body # None /\ seen = {} /\ list' = <<body>>
      /\ UNCHANGED <<el, child, ind, seen>> /\ child = <<>> /\ ind \in 1 .. Len(child) + 1
    BY DEF NextFunc, TypeInv, ControlInv, WalkOK
<1>3. Attached' = Attached /\ NestInv' /\ kids' = kids /\ body' = body
    BY <1>0, <1>1, TreeSame
<1>4. Len(child') = 0 /\ Len(list') = 1 /\ list'[1] = body
    BY <1>2
<1>5. ind' .. Len(child') = {} /\ 1 .. Len(list') = {1}
    BY <1>2, <1>4
<1>6. Listed' = {body} /\ Rest' = {} /\ Ahead' = {body}
    BY <1>4, <1>5 DEF Listed, Rest, Ahead
<1>7. CopyInv'
    BY DEF CopyInv
<1>8. OnceInv'
    BY <1>5, <1>6 DEF OnceInv
<1>9. TreeInv'
    <2>1. Open(kids, body, Attached, {}, {body})
        BY DEF Open
    <2>2. Once(kids, body, Attached)
        BY <1>0, <1>2 DEF TreeInv
    <2>. QED  BY <1>3, <1>6, <2>1, <2>2 DEF TreeInv
<1>10. SeenInv'
    <2>1. Sown(kids, body, Attached, {}, {body}, {body})
        BY DEF Sown
    <2>. QED  BY <1>2, <1>3, <1>6, <2>1 DEF SeenInv
<1>. QED  BY <1>3, <1>7, <1>8, <1>9, <1>10 DEF WalkInv

\* The seed is a tree, and nothing is walked.
LEMMA InitWalk ==
    ASSUME Init, ~NestedTargets
    PROVE  WalkInv
<1>0. TypeInv /\ SeedNodes \in Nat /\ MaxNodes \in Nat /\ SeedNodes <= MaxNodes
    BY InitTypes, TreeAssumption
<1>1. PICK n \in 1 .. SeedNodes : \E c \in Trees(n), k \in [1 .. n -> Kinds] :
          /\ \A i \in 1 .. n : k[i] = "call_indirect" => k[Last(c[i])] # "call_indirect"
          /\ \A i \in 1 .. n : Arity(k[i], Len(c[i]))
          /\ kind = [i \in Node |-> IF i <= n THEN k[i] ELSE "const"]
          /\ kids = [i \in Node |-> IF i <= n THEN c[i] ELSE <<>>]
          /\ made = n
    BY DEF Init
<1>2. PICK c \in Trees(n), k \in [1 .. n -> Kinds] :
          /\ \A i \in 1 .. n : k[i] = "call_indirect" => k[Last(c[i])] # "call_indirect"
          /\ \A i \in 1 .. n : Arity(k[i], Len(c[i]))
          /\ kind = [i \in Node |-> IF i <= n THEN k[i] ELSE "const"]
          /\ kids = [i \in Node |-> IF i <= n THEN c[i] ELSE <<>>]
          /\ made = n
    BY <1>1
<1>3. n \in Nat /\ 1 .. n \subseteq Node
    BY <1>0 DEF Node
<1>4. ASSUME NEW i \in 1 .. made  PROVE kind[i] = k[i] /\ kids[i] = c[i]
    BY <1>2, <1>3
<1>5. pc = "stage" /\ list = <<>> /\ child = <<>> /\ ind = 1 /\ body \in {1, None}
    BY DEF Init
<1>6. NestInv
    <2>1. ASSUME NEW i \in 1 .. made, kind[i] = "call_indirect"
          PROVE  kind[Last(kids[i])] # "call_indirect"
        <3>1. Last(kids[i]) \in 1 .. made
            BY <1>0, <2>1, TargetAt DEF TypeInv
        <3>2. kind[Last(kids[i])] = k[Last(kids[i])] /\ kids[i] = c[i] /\ k[i] = "call_indirect"
            BY <1>4, <2>1, <3>1
        <3>. QED  BY <1>2, <3>2
    <2>. QED  BY <2>1 DEF NestInv
<1>7. Once(kids, 1, 1 .. made)
    <2>1. /\ \A p \in 1 .. n : \A i \in 1 .. Len(c[p]) :
                p < c[p][i] /\ \A j \in 1 .. i - 1 : c[p][j] < c[p][i]
          /\ \A o, p \in 1 .. n : o # p => ToSet(c[o]) \cap ToSet(c[p]) = {}
        BY DEF Trees
    <2>2. ASSUME NEW p \in 1 .. n
          PROVE  /\ Len(c[p]) \in Nat /\ DOMAIN c[p] = 1 .. Len(c[p])
                 /\ \A i \in 1 .. Len(c[p]) : c[p][i] \in 1 .. n
        <3>1. c[p] \in Seq(1 .. n)
            BY <1>0, <1>2, <1>4, ArenaOKs DEF TypeInv
        <3>. QED  BY <3>1, LenProperties, ElementOfSeq
    <2>3. ASSUME NEW o \in 1 .. n, NEW p \in 1 .. n,
                 NEW i \in 1 .. Len(c[o]), NEW j \in 1 .. Len(c[p])
          PROVE  c[o][i] # 1 /\ (c[o][i] = c[p][j] => o = p /\ i = j)
        <3>1. c[o][i] \in 1 .. n /\ o < c[o][i] /\ c[o][i] # 1
            BY <1>3, <2>1, <2>2
        <3>2. CASE o # p
            <4>1. c[o][i] \in ToSet(c[o]) /\ c[p][j] \in ToSet(c[p])
                BY <2>2 DEF ToSet
            <4>. QED  BY <2>1, <3>1, <3>2, <4>1
        <3>3. CASE o = p /\ i # j
            <4>1. i \in 1 .. Len(c[p]) /\ j \in 1 .. Len(c[p]) /\ Len(c[p]) \in Nat
                BY <2>2, <3>3
            <4>2. j \in 1 .. i - 1 \/ i \in 1 .. j - 1
                BY <3>3, <4>1
            <4>3. c[p][j] < c[p][i] \/ c[p][i] < c[p][j]
                BY <2>1, <4>1, <4>2
            <4>4. c[p][i] \in 1 .. n /\ c[p][j] \in 1 .. n
                BY <2>2, <4>1
            <4>5. c[p][i] # c[p][j]
                BY <4>3, <4>4
            <4>. QED  BY <3>1, <3>3, <4>5
        <3>. QED  BY <3>1, <3>2, <3>3
    <2>4. \A o \in 1 .. n : kids[o] = c[o]
        BY <1>2, <1>4
    <2>5. ASSUME NEW o \in 1 .. made, NEW p \in 1 .. made,
                 NEW i \in 1 .. Len(kids[o]), NEW j \in 1 .. Len(kids[p])
          PROVE  kids[o][i] # 1 /\ (kids[o][i] = kids[p][j] => o = p /\ i = j)
        <3>1. /\ o \in 1 .. n /\ p \in 1 .. n /\ kids[o] = c[o] /\ kids[p] = c[p]
              /\ i \in 1 .. Len(c[o]) /\ j \in 1 .. Len(c[p])
            BY <1>2, <2>4
        <3>2. c[o][i] # 1 /\ (c[o][i] = c[p][j] => o = p /\ i = j)
            BY <2>3, <3>1
        <3>. QED  BY <3>1, <3>2
    <2>. QED  BY <2>5 DEF Once
<1>8. body # None => Once(kids, body, Attached)
    <2>. SUFFICES ASSUME body # None  PROVE Once(kids, body, Attached)
        OBVIOUS
    <2>1. body = 1 /\ 1 \in 1 .. made
        BY <1>2, <1>3, <1>5
    <2>2. Attached \subseteq 1 .. made
        BY <1>0, <2>1, Arenas, AttachedHangs, HangsShut
    <2>3. ASSUME NEW H, H \subseteq 1 .. made  PROVE Once(kids, 1, H)
        BY <1>7, <2>3 DEF Once
    <2>. QED  BY <2>1, <2>2, <2>3
<1>9. Len(list) = 0 /\ Len(child) = 0
    BY <1>5
<1>10. Listed = {} /\ Rest = {} /\ Ahead = {}
    BY <1>5, <1>9 DEF Listed, Rest, Ahead
<1>11. CopyInv /\ SeenInv
    BY <1>5 DEF CopyInv, SeenInv, Walking
<1>12. OnceInv
    BY <1>5, <1>9, <1>10 DEF OnceInv
<1>13. TreeInv
    <2>1. Open(kids, body, Attached, {}, {})
        BY DEF Open
    <2>. QED  BY <1>5, <1>8, <1>10, <2>1 DEF TreeInv
<1>. QED  BY <1>6, <1>11, <1>12, <1>13 DEF WalkInv

\* Every step keeps the tree and the walk.
LEMMA NextWalk ==
    TypeInv /\ WalkInv /\ [Next]_vars => WalkInv'
<1>. SUFFICES ASSUME TypeInv, WalkInv, [Next]_vars  PROVE WalkInv'
    OBVIOUS
<1>0. TypeInv'
    BY NextTypes
<1>1. CASE Draw \/ NextFunc \/ WalkEnds \/ Return \/ Done
    <2>1. UNCHANGED <<kind, kids, made, body>>
        BY <1>1, StageTypes
    <2>2. CASE NextFunc /\ pc' = "list"
        BY <2>2, StartWalk
    <2>3. CASE ~(NextFunc /\ pc' = "list")
        <3>1. ~Walking'
            BY <1>1, <2>3 DEF Draw, NextFunc, WalkEnds, Return, Done, Walking
        <3>. QED  BY <1>0, <2>1, <3>1, IdleWalk
    <2>. QED  BY <2>2, <2>3
<1>2. CASE Visit
    BY <1>2, VisitWalk
<1>3. CASE RootKept
    BY <1>3, RootKeptWalk
<1>4. CASE RootReplaced
    BY <1>4, RootReplacedWalk
<1>5. CASE RootCallIndirect
    BY <1>5, RootCallWalk
<1>6. CASE RootWrapped
    BY <1>6, RootWrappedWalk
<1>7. CASE ChildKept
    BY <1>7, ChildKeptWalk
<1>8. CASE ChildReplaced
    BY <1>8, ReplacedWalk
<1>9. CASE ChildCallIndirect
    BY <1>9, CallWalk
<1>10. CASE ChildWrapped
    BY <1>10, WrappedWalk
<1>11. CASE BreakRetargeted
    BY <1>11, BreakWalk
<1>12. CASE BreakIfRetargeted
    BY <1>12, BreakIfWalk
<1>13. CASE SwitchReplaced
    BY <1>13, SwitchWalk
<1>14. CASE Overwritten
    BY <1>14, OverwrittenWalk
<1>15. CASE NotInserted
    BY <1>15, NotInsertedWalk
<1>16. CASE Inserted
    BY <1>16, InsertedWalk
<1>17. CASE Terminated \/ UNCHANGED vars
    <2>1. UNCHANGED <<kind, kids, made, body, pc, mutator, list, el, child, ind, seen>>
        BY <1>17 DEF Terminated, vars, tree, counts, walk
    <2>2. Attached' = Attached /\ NestInv'
        BY <2>1, TreeSame DEF WalkInv
    <2>3. Listed' = Listed /\ Rest' = Rest /\ Ahead' = Ahead
        BY <2>1 DEF Listed, Rest, Ahead
    <2>4. CopyInv'
        BY <2>1 DEF WalkInv, CopyInv
    <2>5. OnceInv'
        BY <2>1, <2>3 DEF WalkInv, OnceInv
    <2>6. TreeInv'
        BY <2>1, <2>2, <2>3 DEF WalkInv, TreeInv
    <2>7. SeenInv'
        BY <2>1, <2>2, <2>3 DEF WalkInv, SeenInv, Walking
    <2>. QED  BY <2>2, <2>4, <2>5, <2>6, <2>7 DEF WalkInv
<1>. QED  BY <1>1, <1>2, <1>3, <1>4, <1>5, <1>6, <1>7, <1>8, <1>9, <1>10, <1>11, <1>12, <1>13,
             <1>14, <1>15, <1>16, <1>17 DEF Next

-----------------------------------------------------------------------------
(* What the invariant says of the tree and of the walk.                    *)

\* The invariant implies the properties.
LEMMA WalkInvTree ==
    ASSUME TypeInv, WalkInv
    PROVE  TreeShaped /\ WalkSound
<1>. DEFINE A == Attached
<1>0. NestInv /\ CopyInv /\ OnceInv /\ TreeInv /\ SeenInv
    BY DEF WalkInv
<1>1. CASE body = None
    <2>1. A = {}
        BY <1>1 DEF Attached
    <2>2. ~Walking /\ list = <<>> /\ child = <<>> /\ ind \in 1 .. Len(child) + 1
        BY <1>1 DEF TypeInv, ControlInv, Walking, WalkOK
    <2>3. Len(child) = 0 /\ Len(list) = 0
        BY <2>2
    <2>4. ToSet(list) = {} /\ ind .. Len(child) = {}
        BY <2>2, <2>3 DEF ToSet
    <2>5. TreeShaped
        BY <2>1 DEF TreeShaped
    <2>6. EditsTheFunction
        BY <2>1, <2>2, <2>4 DEF EditsTheFunction, Walking
    <2>7. WalkComplete
        BY <2>1 DEF WalkComplete
    <2>. QED  BY <2>5, <2>6, <2>7 DEF WalkSound
<1>2. CASE body # None
    <2>0. Arena(kids, made) /\ A = Hangs(kids, body, made) /\ body \in 1 .. made /\ made \in Nat
        <3>1. body \in 0 .. made /\ made \in Nat
            BY ArenaOKs DEF TypeInv, ControlInv
        <3>. QED  BY <1>2, <3>1, Arenas, AttachedHangs DEF None
    <2>1. PICK U : Open(kids, body, A, U, Ahead) /\ (pc \in {"root", "child"} => el \in U)
        BY <1>0, <1>2 DEF TreeInv
    <2>2. Once(kids, body, A)
        BY <1>0, <1>2 DEF TreeInv
    <2>3. Ahead \subseteq A /\ U \subseteq A
        <3>. HIDE DEF A
        <3>1. Ahead \subseteq A
            BY <2>0, <2>1, <2>2, OpenUp
        <3>2. U \subseteq A
            BY <2>1 DEF Open
        <3>. QED  BY <3>1, <3>2
    <2>4. TreeShaped
        BY <2>2 DEF TreeShaped, Once
    <2>5. EditsTheFunction
        <3>1. list \in Seq(1 .. made)
            BY DEF TypeInv, WalkOK
        <3>2. DOMAIN list = 1 .. Len(list)
            BY <3>1, LenProperties
        <3>3. ToSet(list) = Listed
            BY <3>2 DEF ToSet, Listed
        <3>4. \A i \in ind .. Len(child) : child[i] \in Rest
            BY DEF Rest
        <3>. QED  BY <2>1, <2>3, <3>3, <3>4 DEF EditsTheFunction, Ahead
    <2>6. WalkComplete
        <3>. SUFFICES ASSUME pc = "list", list = <<>>, mutator \in Thorough
                      PROVE  A \subseteq seen
            BY DEF WalkComplete, Thorough
        <3>1. child = <<>> /\ ind \in 1 .. Len(child) + 1 /\ seen \subseteq 1 .. made
            BY DEF TypeInv, ControlInv, WalkOK
        <3>2. Len(child) = 0 /\ Len(list) = 0
            BY <3>1
        <3>3. Listed = {} /\ Ahead = {}
            BY <3>1, <3>2 DEF Listed, Rest, Ahead
        <3>4. Sown(kids, body, A, seen, {}, {})
            BY <1>0, <3>3 DEF SeenInv, Walking
        <3>5. A \cap seen \in SUBSET (1 .. made) /\ body \in A \cap seen
            BY <2>0, <3>1, <3>4, HangsShut DEF Sown
        <3>6. Shut(kids, A)
            BY <2>0, HangsShut
        <3>. HIDE DEF A
        <3>7. Shut(kids, A \cap seen)
            BY <3>4, <3>6 DEF Sown, Shut
        <3>8. A \subseteq A \cap seen
            BY <2>0, <3>5, <3>7, HangsLeast
        <3>. QED  BY <3>8
    <2>. QED  BY <2>4, <2>5, <2>6 DEF WalkSound
<1>. QED  BY <1>1, <1>2

\* TreeShaped: no mutation, in whatever order they are made, lets an expression
\* be the child of two others, twice that of one, or the parent of the body.
\* (Without the assumption it is refuted: wasm_call_target_function_mutate
\* handles a call_indirect that it has moved out at its old place, which the copy
\* of the children still names.)
THEOREM StaysATree ==
    ASSUME ~NestedTargets
    PROVE  Spec => []TreeShaped
<1>1. Init => TypeInv /\ WalkInv
    BY InitTypes, InitWalk
<1>2. (TypeInv /\ WalkInv) /\ [Next]_vars => (TypeInv /\ WalkInv)'
    BY NextTypes, NextWalk
<1>3. TypeInv /\ WalkInv => TreeShaped
    BY WalkInvTree
<1>. QED  BY <1>1, <1>2, <1>3, PTL DEF Spec

\* WalkSound: what a mutator looks at is in the function that is written out,
\* and a walk that runs out of work has come to all of it, though the list is
\* appended to and the tree rebuilt while both are gone through.
THEOREM WalksTheFunction ==
    ASSUME ~NestedTargets
    PROVE  Spec => []WalkSound
<1>1. Init => TypeInv /\ WalkInv
    BY InitTypes, InitWalk
<1>2. (TypeInv /\ WalkInv) /\ [Next]_vars => (TypeInv /\ WalkInv)'
    BY NextTypes, NextWalk
<1>3. TypeInv /\ WalkInv => WalkSound
    BY WalkInvTree
<1>. QED  BY <1>1, <1>2, <1>3, PTL DEF Spec

\* A place is given a new top that holds the child it had.
LEMMA WrapKeeps ==
    ASSUME TypeInv, WalkInv, TypeInv', WalkInv', ChildWrapped \/ ChildCallIndirect
    PROVE  Attached \subseteq Attached'
<1>. DEFINE A == Attached
            G == Attached'
            x == Last(kids[kid])
<1>0. NestInv /\ CopyInv /\ OnceInv /\ TreeInv /\ SeenInv
    BY DEF WalkInv
<1>1. /\ ChildStep /\ Others
      /\ mutator # "call" \/ kind[kid] = "call_indirect"
    BY WrappedTypes, CallTypes
<1>2. /\ pc = "child" /\ pc' = "child" /\ el' = el /\ body' = body /\ body \in 1 .. made
      /\ made \in Nat /\ kid \in 1 .. made /\ el \in 1 .. made
    BY <1>1, ChildAt
<1>3. kid = kids[el][ind] /\ ind \in 1 .. Len(kids[el]) /\ el # kid
    BY <1>0, <1>1, KidPlace
<1>4. /\ made <= made'
      /\ \E t \in made + 1 .. made' : /\ kids'[el] = Put(kids[el], ind, t)
                                      /\ \E i \in 1 .. Len(kids'[t]) : kids'[t][i] = kid
      /\ \/ kids'[kid] = kids[kid]
         \/ /\ ChildCallIndirect /\ kids'[kid] = Put(kids[kid], Len(kids[kid]), made + 2)
            /\ kids'[el] = Put(kids[el], ind, made + 3)
            /\ kids'[made + 3] = <<made + 1, kid>> /\ kids'[made + 1] = <<x>>
    <2>1. CASE ChildWrapped
        <3>1. /\ made' = made + 1 /\ kids'[made + 1] = <<kid>>
              /\ kids'[el] = Put(kids[el], ind, made + 1) /\ (kid # el => kids'[kid] = kids[kid])
            BY <2>1, WrappedTypes
        <3>2. 1 \in 1 .. Len(kids'[made + 1]) /\ kids'[made + 1][1] = kid
            BY <3>1
        <3>3. made + 1 \in made + 1 .. made' /\ made <= made'
            BY <1>2, <3>1
        <3>. QED  BY <1>3, <3>1, <3>2, <3>3
    <2>2. CASE ChildCallIndirect
        <3>1. /\ made' = made + 3 /\ kids'[made + 1] = <<x>> /\ kids'[made + 3] = <<made + 1, kid>>
              /\ kids'[kid] = Put(kids[kid], Len(kids[kid]), made + 2)
              /\ kid # el => kids'[el] = Put(kids[el], ind, made + 3)
            BY <2>2, CallTypes
        <3>2. 2 \in 1 .. Len(kids'[made + 3]) /\ kids'[made + 3][2] = kid
            BY <3>1
        <3>3. made + 3 \in made + 1 .. made' /\ made <= made'
            BY <1>2, <3>1
        <3>. QED  BY <1>3, <2>2, <3>1, <3>2, <3>3
    <2>. QED  BY <2>1, <2>2
<1>5. /\ Arena(kids, made) /\ Arena(kids', made')
      /\ A = Hangs(kids, body, made) /\ G = Hangs(kids', body, made')
    BY <1>2, Arenas, AttachedHangs
<1>6. A \subseteq 1 .. made /\ Shut(kids, A)
    BY <1>2, <1>5, HangsShut
<1>7. body \in 1 .. made' /\ body # None
    <2>1. made' \in Nat
        BY <1>5 DEF Arena
    <2>. QED  BY <1>2, <1>4, <2>1 DEF None
<1>8. body \in G /\ Shut(kids', G) /\ el \in G
    <2>1. body \in G /\ Shut(kids', G)
        BY <1>5, <1>7, HangsShut
    <2>2. TreeInv'
        BY DEF WalkInv
    <2>3. \E U : Open(kids', body, G, U, Ahead') /\ el \in U
        BY <1>2, <1>7, <2>2 DEF TreeInv
    <2>. QED  BY <2>1, <2>3 DEF Open
<1>9. PICK t \in made + 1 .. made' : /\ kids'[el] = Put(kids[el], ind, t)
                                     /\ \E i \in 1 .. Len(kids'[t]) : kids'[t][i] = kid
    BY <1>4
<1>10. /\ Len(kids'[el]) = Len(kids[el]) /\ kids'[el][ind] = t
       /\ \A i \in (1 .. Len(kids[el])) \ {ind} : kids'[el][i] = kids[el][i]
    BY <1>1, <1>3, <1>4, <1>9, PutAt
<1>11. t \in G /\ kid \in G
    <2>1. t \in G
        BY <1>3, <1>8, <1>10 DEF Shut
    <2>. QED  BY <1>8, <1>9, <2>1 DEF Shut
<1>12. ASSUME NEW n \in A \cap G, NEW i \in 1 .. Len(kids[n])
       PROVE  kids[n][i] \in G
    <2>1. CASE n \notin {el, kid}
        <3>1. kids'[n] = kids[n]
            BY <1>1, <1>6, <2>1 DEF Others
        <3>. QED  BY <1>8, <3>1 DEF Shut
    <2>2. CASE n = el
        <3>1. CASE i = ind
            BY <1>3, <1>11, <2>2, <3>1
        <3>2. CASE i # ind
            BY <1>8, <1>10, <2>2, <3>2 DEF Shut
        <3>. QED  BY <3>1, <3>2
    <2>3. CASE n = kid /\ kids'[kid] = kids[kid]
        BY <1>8, <2>3 DEF Shut
    <2>4. CASE n = kid /\ kids'[kid] # kids[kid]
        <3>1. /\ ChildCallIndirect /\ kids'[kid] = Put(kids[kid], Len(kids[kid]), made + 2)
              /\ kids'[el] = Put(kids[el], ind, made + 3)
              /\ kids'[made + 3] = <<made + 1, kid>> /\ kids'[made + 1] = <<x>>
            BY <1>4, <2>4
        <3>2. made' = made + 3 /\ kind[kid] = "call_indirect" /\ mutator = "call"
            BY <3>1, CallTypes
        <3>3. made + 3 \in made + 1 .. made'
            BY <1>2, <3>2
        <3>4. made + 3 \in G
            <4>1. kids'[el][ind] = made + 3 /\ Len(kids'[el]) = Len(kids[el])
                BY <1>1, <1>3, <1>4, <3>1, <3>3, PutAt
            <4>. QED  BY <1>3, <1>8, <4>1 DEF Shut
        <3>5. made + 1 \in G
            <4>1. 1 \in 1 .. Len(kids'[made + 3]) /\ kids'[made + 3][1] = made + 1
                BY <3>1
            <4>. QED  BY <1>8, <3>4, <4>1 DEF Shut
        <3>6. x \in G
            <4>1. 1 \in 1 .. Len(kids'[made + 1]) /\ kids'[made + 1][1] = x
                BY <3>1
            <4>. QED  BY <1>8, <3>5, <4>1 DEF Shut
        <3>7. x = kids[kid][Len(kids[kid])]
            BY <1>2, <3>2, TargetAt DEF TypeInv
        <3>8. CASE i = Len(kids[kid])
            BY <2>4, <3>6, <3>7, <3>8
        <3>9. CASE i # Len(kids[kid])
            <4>1. kids[kid] \in Seq(1 .. made) /\ 1 .. made \subseteq 1 .. made' /\ made + 2 \in 1 .. made'
                BY <1>1, <1>2, <3>2, ChildAt
            <4>2. kids[kid] \in Seq(1 .. made')
                BY <4>1, SeqMonotonic
            <4>3. \A S : kids[kid] \in Seq(S) /\ made + 2 \in S =>
                      LET r == Put(kids[kid], Len(kids[kid]), made + 2)
                      IN  Len(r) = Len(kids[kid])
                          /\ \A j \in 1 .. Len(kids[kid]) : j # Len(kids[kid]) => r[j] = kids[kid][j]
                BY PutSeq, SMTT(30), ZenonT(60)
            <4>4. i \in 1 .. Len(kids'[kid]) /\ kids'[kid][i] = kids[kid][i]
                BY <2>4, <3>1, <3>9, <4>1, <4>2, <4>3
            <4>. QED  BY <1>8, <2>4, <4>4 DEF Shut
        <3>. QED  BY <3>8, <3>9
    <2>. QED  BY <2>1, <2>2, <2>3, <2>4
<1>13. A \cap G \in SUBSET (1 .. made) /\ body \in A \cap G
    BY <1>2, <1>5, <1>6, <1>8, HangsShut
<1>. HIDE DEF A, G
<1>14. Shut(kids, A \cap G)
    BY <1>6, <1>12 DEF Shut
<1>15. A \subseteq A \cap G
    BY <1>2, <1>5, <1>13, <1>14, HangsLeast
<1>. QED  BY <1>15 DEF A, G

\* The body is given a new top that holds it.
LEMMA RootKeeps ==
    ASSUME TypeInv, WalkInv, TypeInv', RootWrapped \/ RootCallIndirect
    PROVE  Attached \subseteq Attached'
<1>. DEFINE A == Attached
            G == Attached'
            x == Last(kids[el])
            len == Len(kids[el])
<1>1. RootStep
    BY RootWrappedTypes, RootCallTypes
<1>2. /\ el = body /\ made \in Nat /\ body \in 1 .. made /\ kids[el] \in Seq(1 .. made)
    BY <1>1, RootAt
<1>3. /\ body' \in made + 1 .. made' /\ made <= made'
      /\ \A n \in 1 .. made : n # el => kids'[n] = kids[n]
      /\ \E i \in 1 .. Len(kids'[body']) : kids'[body'][i] = el
      /\ \/ kids'[el] = kids[el]
         \/ /\ RootCallIndirect /\ made' = made + 3 /\ kind[el] = "call_indirect"
            /\ kids'[el] = Put(kids[el], len, made + 2)
            /\ body' = made + 3 /\ kids'[made + 3] = <<made + 1, el>> /\ kids'[made + 1] = <<x>>
    <2>1. CASE RootWrapped
        <3>1. /\ made' = made + 1 /\ body' = made + 1 /\ kids'[made + 1] = <<el>>
              /\ \A n \in 1 .. made : kids'[n] = kids[n]
            BY <2>1, RootWrappedTypes
        <3>2. 1 \in 1 .. Len(kids'[made + 1]) /\ kids'[made + 1][1] = el
            BY <3>1
        <3>3. made + 1 \in made + 1 .. made' /\ made <= made'
            BY <1>2, <3>1
        <3>. QED  BY <1>2, <3>1, <3>2, <3>3
    <2>2. CASE RootCallIndirect
        <3>1. /\ made' = made + 3 /\ body' = made + 3 /\ kids'[made + 3] = <<made + 1, el>>
              /\ kids'[made + 1] = <<x>> /\ kids'[el] = Put(kids[el], len, made + 2)
              /\ kind[el] = "call_indirect"
              /\ \A n \in 1 .. made : n # el => kids'[n] = kids[n]
            BY <2>2, RootCallTypes
        <3>2. 2 \in 1 .. Len(kids'[made + 3]) /\ kids'[made + 3][2] = el
            BY <3>1
        <3>3. made + 3 \in made + 1 .. made' /\ made <= made'
            BY <1>2, <3>1
        <3>. QED  BY <2>2, <3>1, <3>2, <3>3
    <2>. QED  BY <2>1, <2>2
<1>4. /\ Arena(kids, made) /\ Arena(kids', made')
      /\ A = Hangs(kids, body, made) /\ G = Hangs(kids', body', made')
    BY Arenas, AttachedHangs
<1>5. A \subseteq 1 .. made /\ Shut(kids, A) /\ body \in A
    BY <1>2, <1>4, HangsShut
<1>6. body' \in G /\ Shut(kids', G)
    <2>1. body' \in 1 .. made'
        BY <1>2, <1>3
    <2>. QED  BY <1>4, <2>1, HangsShut
<1>7. el \in G
    BY <1>3, <1>6 DEF Shut
<1>8. ASSUME NEW n \in A \cap G, NEW i \in 1 .. Len(kids[n])
      PROVE  kids[n][i] \in G
    <2>1. CASE n # el
        <3>1. kids'[n] = kids[n]
            BY <1>3, <1>5, <2>1
        <3>. QED  BY <1>6, <3>1 DEF Shut
    <2>2. CASE n = el /\ kids'[el] = kids[el]
        BY <1>6, <2>2 DEF Shut
    <2>3. CASE n = el /\ kids'[el] # kids[el]
        <3>1. /\ RootCallIndirect /\ made' = made + 3 /\ kind[el] = "call_indirect"
              /\ kids'[el] = Put(kids[el], len, made + 2)
              /\ body' = made + 3 /\ kids'[made + 3] = <<made + 1, el>> /\ kids'[made + 1] = <<x>>
            BY <1>3, <2>3
        <3>2. made + 1 \in G
            <4>1. 1 \in 1 .. Len(kids'[made + 3]) /\ kids'[made + 3][1] = made + 1
                BY <3>1
            <4>. QED  BY <1>6, <3>1, <4>1 DEF Shut
        <3>3. x \in G
            <4>1. 1 \in 1 .. Len(kids'[made + 1]) /\ kids'[made + 1][1] = x
                BY <3>1
            <4>. QED  BY <1>6, <3>2, <4>1 DEF Shut
        <3>4. x = kids[el][len]
            BY <1>2, <3>1, TargetAt DEF TypeInv
        <3>5. CASE i = len
            BY <2>3, <3>3, <3>4, <3>5
        <3>6. CASE i # len
            <4>1. 1 .. made \subseteq 1 .. made' /\ made + 2 \in 1 .. made'
                BY <1>2, <3>1
            <4>2. kids[el] \in Seq(1 .. made')
                BY <1>2, <4>1, SeqMonotonic
            <4>3. \A S : kids[el] \in Seq(S) /\ made + 2 \in S =>
                      LET r == Put(kids[el], len, made + 2)
                      IN  Len(r) = len /\ \A j \in 1 .. len : j # len => r[j] = kids[el][j]
                BY PutSeq
            <4>4. i \in 1 .. Len(kids'[el]) /\ kids'[el][i] = kids[el][i]
                BY <2>3, <3>1, <3>6, <4>1, <4>2, <4>3
            <4>. QED  BY <1>6, <2>3, <4>4 DEF Shut
        <3>. QED  BY <3>5, <3>6
    <2>. QED  BY <2>1, <2>2, <2>3
<1>9. A \cap G \in SUBSET (1 .. made) /\ body \in A \cap G
    BY <1>2, <1>5, <1>7
<1>. HIDE DEF A, G
<1>10. Shut(kids, A \cap G)
    BY <1>5, <1>8 DEF Shut
<1>11. A \subseteq A \cap G
    BY <1>2, <1>4, <1>9, <1>10, HangsLeast
<1>. QED  BY <1>11 DEF A, G

\* The other steps of those mutators leave the tree alone.
LEMMA NextKeeps ==
    ASSUME TypeInv, WalkInv, [Next]_vars, mutator \in {"call", "interest", "recursive"}
    PROVE  Attached \subseteq Attached'
<1>0. TypeInv' /\ WalkInv'
    BY NextTypes, NextWalk
<1>1. CASE ChildWrapped \/ ChildCallIndirect
    BY <1>0, <1>1, WrapKeeps
<1>2. CASE RootWrapped \/ RootCallIndirect
    BY <1>0, <1>2, RootKeeps
<1>3. CASE UNCHANGED <<kind, kids, made, body>>
    BY <1>3, TreeSame
<1>4. CASE Draw \/ NextFunc \/ WalkEnds \/ Return \/ Done
    BY <1>3, <1>4, StageTypes
<1>5. CASE Visit
    BY <1>3, <1>5, VisitTypes
<1>6. CASE RootKept
    BY <1>3, <1>6, RootKeptTypes
<1>7. CASE ChildKept
    <2>1. kind' = kind /\ kids' = kids /\ made' = made /\ body' = body
        BY <1>7 DEF ChildKept, ChildStep
    <2>. QED  BY <1>3, <2>1
<1>8. CASE NotInserted
    <2>1. kind' = kind /\ kids' = kids /\ made' = made /\ body' = body
        BY <1>8 DEF NotInserted, ChildrenEnd
    <2>. QED  BY <1>3, <2>1
<1>9. CASE Terminated \/ UNCHANGED vars
    <2>1. UNCHANGED <<kind, kids, made, body>>
        BY <1>9 DEF Terminated, vars, tree
    <2>. QED  BY <1>3, <2>1
<1>10. CASE RootReplaced \/ ChildReplaced \/ BreakRetargeted \/ BreakIfRetargeted \/ SwitchReplaced
            \/ Overwritten \/ Inserted
    BY <1>10 DEF RootReplaced, ChildReplaced, BreakRetargeted, BreakIfRetargeted, SwitchReplaced,
                 Overwritten, Inserted
<1>. QED  BY <1>1, <1>2, <1>4, <1>5, <1>6, <1>7, <1>8, <1>9, <1>10 DEF Next

\* NothingLost: the mutators that change a target, a constant or the nesting
\* take no expression out of the function, though the target of a
\* call_indirect is moved and the body may get another root.
THEOREM LosesNothing ==
    ASSUME ~NestedTargets
    PROVE  Spec => NothingLost
<1>1. Init => TypeInv /\ WalkInv
    BY InitTypes, InitWalk
<1>2. (TypeInv /\ WalkInv) /\ [Next]_vars => (TypeInv /\ WalkInv)'
    BY NextTypes, NextWalk
<1>3. (TypeInv /\ WalkInv) /\ [Next]_vars =>
          [(mutator \in {"call", "interest", "recursive"} => Attached \subseteq Attached')]_vars
    BY NextKeeps
<1>. QED  BY <1>1, <1>2, <1>3, PTL DEF Spec, NothingLost
=============================================================================
