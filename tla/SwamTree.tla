------------------------------ MODULE SwamTree ------------------------------
(***************************************************************************)
(* The explore stage of afl_custom_fuzz (wasm_mutators.c) and the six      *)
(* mutators it draws from (mutator_func.c), as operations on the           *)
(* expression tree of a function.                                          *)
(*                                                                         *)
(* A mutator walks the functions with a worklist.  For every element it    *)
(* copies the list of its children, then goes through that copy and edits  *)
(* the element and the children in place: it wraps a child, replaces it,   *)
(* or moves a part of it elsewhere.  Binaryen expects a tree, and what is  *)
(* edited has to be a part of it.                                          *)
(*                                                                         *)
(* An expression is a node with a kind and its children; a structured one  *)
(* (block, loop, if) is a "block".  Of what a mutator adds around or next  *)
(* to an expression (constants, table.set, the local that takes the result *)
(* of a br_if) only what holds or replaces another expression is a node.   *)
(* The last child of a call_indirect is its target, that of a br_if or a   *)
(* switch its condition.  There is one function with a body.               *)
(***************************************************************************)
EXTENDS Integers, Sequences, FiniteSets, SequencesExt

CONSTANTS
    SeedNodes,         \* bound on the expressions of the seed
    MaxNodes,          \* bound on the expressions ever made
    Kinds,             \* the kinds of expression in the seed
    NestedTargets,     \* a call_indirect may be the target of another one
    Imports,           \* the number of functions without a body
    MaxCnt,            \* bound for max_cnt, the mutations asked of a mutator
    StageMax           \* stage_max

AllKinds == {"const", "op", "call", "call_indirect", "br", "br_if", "switch", "block"}
Mutators == {"call", "interest", "branch", "operators", "recursive", "splice"}
Node == 1 .. MaxNodes
None == 0

ASSUME TreeAssumption ==
    /\ SeedNodes \in Nat \ {0} /\ MaxNodes \in Nat /\ SeedNodes <= MaxNodes
    /\ Kinds \subseteq AllKinds /\ NestedTargets \in BOOLEAN
    /\ Imports \in Nat /\ MaxCnt \in Nat \ {0} /\ StageMax \in Nat \ {0}

VARIABLES
    kind, kids,        \* the expressions
    made,              \* how many there are
    body,              \* the root of the function, None in a module of imports
    pc, stage_cur,     \* the stage
    mutator,           \* the mutator drawn
    cur_cnt, max_cnt,  \* its mutations and their limit; of splicing: overwrites
    cur_ins, max_ins,  \* the insertions of splicing and their limit
    funcs,             \* how many functions are left to walk
    list,              \* child_node_list
    root,              \* whether_root_node
    el, child, ind,    \* the element at hand, the copy of its children
    seen               \* the elements of this walk, and what it has made

tree == <<kind, kids, made, body>>
counts == <<stage_cur, mutator, max_cnt, max_ins>>
walk == <<funcs, list, root, el, child, ind, seen>>
vars == <<tree, pc, counts, cur_cnt, cur_ins, walk>>

\* The expressions of the function: the body and all that hang below it, which
\* are in every set that holds the body and the children of its members.
Closed(S) == \A n \in S : \A i \in 1 .. Len(kids[n]) : kids[n][i] \in S
Attached ==
    IF body = None THEN {}
    ELSE {n \in 1 .. made : \A S \in SUBSET ((1 .. made) \ {n}) :
                               body \in S => ~Closed(S)}

\* A seed: a tree whose nodes n > 1 hang below earlier ones.
Arity(k, n) == CASE k = "const" -> n = 0
                 [] k = "op" -> n \in 1 .. 2
                 [] k = "br" -> n <= 1
                 [] k \in {"br_if", "switch"} -> n \in 1 .. 2
                 [] k = "call_indirect" -> n >= 1
                 [] OTHER -> TRUE

Trees(n) ==
    {c \in [1 .. n -> UNION {[1 .. m -> 2 .. n] : m \in 0 .. n - 1}] :
        /\ \A p \in 1 .. n : \A i \in 1 .. Len(c[p]) :
              p < c[p][i] /\ \A j \in 1 .. i - 1 : c[p][j] < c[p][i]
        /\ \A x \in 2 .. n : \E p \in 1 .. n : x \in ToSet(c[p])
        /\ \A o, p \in 1 .. n : o # p => ToSet(c[o]) \cap ToSet(c[p]) = {}}

Init ==
    /\ \E n \in 1 .. SeedNodes : \E c \in Trees(n), k \in [1 .. n -> Kinds] :
          /\ \A i \in 1 .. n : Arity(k[i], Len(c[i]))
          /\ ~NestedTargets => \A i \in 1 .. n : k[i] = "call_indirect" =>
                                 k[Last(c[i])] # "call_indirect"
          /\ kind = [i \in Node |-> IF i <= n THEN k[i] ELSE "const"]
          /\ kids = [i \in Node |-> IF i <= n THEN c[i] ELSE <<>>]
          /\ made = n
    /\ body \in IF Imports > 0 /\ made = 1 THEN {1, None} ELSE {1}
    /\ pc = "stage" /\ stage_cur = 0 /\ mutator = "call"
    /\ cur_cnt = 0 /\ max_cnt = 1 /\ cur_ins = 0 /\ max_ins = 1
    /\ funcs = 0 /\ list = <<>> /\ root = FALSE
    /\ el = None /\ child = <<>> /\ ind = 1 /\ seen = {}

-----------------------------------------------------------------------------
(* The stage                                                               *)

\* The mutator is drawn, and how many mutations it is to make at most.
Draw ==
    /\ pc = "stage" /\ stage_cur < StageMax
    /\ mutator' \in Mutators /\ max_cnt' \in 1 .. MaxCnt
    /\ max_ins' \in IF mutator' = "splice" THEN 1 .. MaxCnt ELSE {1}
    /\ funcs' = Imports + (IF body = None THEN 0 ELSE 1) /\ pc' = "funcs"
    /\ UNCHANGED <<tree, stage_cur, cur_cnt, cur_ins, list, root, el, child, ind, seen>>

\* The functions, in any order: one is walked, an import is passed over.
NextFunc ==
    /\ pc = "funcs" /\ funcs > 0 /\ funcs' = funcs - 1
    /\ \/ /\ body # None /\ seen = {}
          /\ list' = <<body>> /\ root' = TRUE /\ pc' = "list"
       \/ /\ seen # {} \/ body = None \/ funcs > 1
          /\ UNCHANGED <<pc, list, root>>
    /\ UNCHANGED <<tree, counts, cur_cnt, cur_ins, el, child, ind, seen>>

Enough == cur_cnt >= max_cnt \/ cur_ins >= max_ins

\* The worklist is empty: the next function.
WalkEnds ==
    /\ pc = "list" /\ list = <<>> /\ ~Enough
    /\ pc' = "funcs" /\ root' = FALSE
    /\ UNCHANGED <<tree, counts, cur_cnt, cur_ins, funcs, list, el, child, ind, seen>>

\* The mutator returns the mutations it made; a stage counts at least one.
AdvanceByCount(n) == stage_cur + n
Advance(n) == stage_cur + (IF n = 0 THEN 1 ELSE n)

Return ==
    /\ (pc = "funcs" /\ funcs = 0) \/ (pc = "list" /\ Enough)
    /\ stage_cur' = Advance(cur_cnt + cur_ins)
    /\ pc' = "stage" /\ cur_cnt' = 0 /\ cur_ins' = 0
    /\ funcs' = 0 /\ list' = <<>> /\ root' = FALSE /\ seen' = {}
    /\ UNCHANGED <<tree, mutator, max_cnt, max_ins, el, child, ind>>

Done ==
    /\ pc = "stage" /\ stage_cur >= StageMax
    /\ pc' = "done" /\ UNCHANGED <<tree, counts, cur_cnt, cur_ins, walk>>

-----------------------------------------------------------------------------
(* The walk                                                                *)

\* New expressions, and the children that existing ones are given.
Edit(new, given) ==
    /\ made + Len(new) <= MaxNodes
    /\ made' = made + Len(new)
    /\ kind' = [n \in Node |-> IF n \in made + 1 .. made' THEN new[n - made].k ELSE kind[n]]
    /\ kids' = [n \in Node |-> IF n \in made + 1 .. made' THEN new[n - made].c
                               ELSE IF n \in DOMAIN given THEN given[n] ELSE kids[n]]
    /\ seen' = seen \cup (made + 1 .. made')
Expr(k, c) == [k |-> k, c |-> c]

\* wasm_set_children_expr
WithFirst(n) == [kids[el] EXCEPT ![1] = n]
With(n) == [kids[el] EXCEPT ![ind] = n]

Mutated == cur_cnt' = cur_cnt + 1

\* The next element; the interesting values are put in right away.
Visit ==
    /\ pc = "list" /\ ~Enough /\ list # <<>>
    /\ el' = Head(list) /\ child' = kids[el'] /\ ind' = 1
    /\ list' = Tail(list) /\ seen' = seen \cup {el'}
    /\ \/ mutator = "interest" /\ kind[el'] = "const" /\ Mutated
       \/ UNCHANGED cur_cnt
    /\ pc' = IF root /\ mutator \in {"operators", "call", "recursive"} THEN "root" ELSE "child"
    /\ UNCHANGED <<tree, counts, cur_ins, funcs, root>>

\* What the mutators change in an expression without moving it.
InPlace(n) ==
    \/ mutator = "operators" /\ kind[n] \in {"op", "const"}
    \/ mutator = "call" /\ kind[n] = "call"
    \/ mutator = "branch" /\ kind[n] = "switch"

RootStep == pc = "root" /\ pc' = "child" /\ root' = FALSE
            /\ UNCHANGED <<counts, cur_ins, funcs, list, child, ind>>

RootKept ==
    /\ RootStep
    /\ (InPlace(el) /\ Mutated) \/ UNCHANGED cur_cnt
    /\ UNCHANGED <<tree, el, seen>>

\* Another instruction with the same operands takes the place of the body.
SetRootForgets(n) == el' = el
SetRoot(n) == el' = n

RootReplaced ==
    /\ RootStep /\ mutator = "operators" /\ kind[el] \in {"op", "const"}
    /\ Edit(<<Expr(kind[el], child)>>, <<>>)
    /\ body' = made + 1 /\ SetRoot(made + 1) /\ Mutated

\* A call_indirect c: its target goes into a local, the local is read instead.
HoistedLost(c) == <<Expr("local", <<>>), Expr("local", <<>>),
                    Expr("block", <<made + 1, c>>)>>
Hoisted(c) == <<Expr("local", <<Last(kids[c])>>), Expr("local", <<>>),
                Expr("block", <<made + 1, c>>)>>
Retargeted(c) == [kids[c] EXCEPT ![Len(kids[c])] = made + 2]

RootCallIndirect ==
    /\ RootStep /\ mutator = "call" /\ kind[el] = "call_indirect"
    /\ Edit(Hoisted(el), [n \in {el} |-> Retargeted(el)])
    /\ body' = made + 3 /\ Mutated /\ UNCHANGED el

RootWrapped ==
    /\ RootStep /\ mutator = "recursive" /\ kind[el] = "block"
    /\ Edit(<<Expr("block", <<el>>)>>, <<>>)
    /\ body' = made + 1 /\ Mutated /\ UNCHANGED el

-----------------------------------------------------------------------------
(* The children                                                            *)

kid == child[ind]
ChildStep == pc = "child" /\ ind <= Len(child) /\ ind' = ind + 1
             /\ UNCHANGED <<pc, counts, cur_ins, funcs, root, el, body>>

\* list_append of the child, mutated or not
Requeue == list' = Append(list, kid)

ChildKept ==
    /\ ChildStep
    /\ (InPlace(kid) /\ Mutated) \/ UNCHANGED cur_cnt
    /\ Requeue /\ UNCHANGED <<kind, kids, made, child, seen>>

\* The operand list moves to another instruction, which is walked instead.
Queued(new) == list' = Append(list, new)

ChildReplaced ==
    /\ ChildStep /\ mutator = "operators" /\ kind[kid] \in {"op", "const"}
    /\ Edit(<<Expr(kind[kid], kids[kid])>>, [n \in {el} |-> With(made + 1)])
    /\ child' = [child EXCEPT ![ind] = made + 1]
    /\ Queued(made + 1) /\ Mutated

ChildCallIndirect ==
    /\ ChildStep /\ mutator = "call" /\ kind[kid] = "call_indirect"
    /\ Edit(Hoisted(kid), [n \in {kid, el} |->
                              IF n = kid THEN Retargeted(kid) ELSE With(made + 3)])
    /\ Mutated /\ Requeue /\ UNCHANGED child

ChildWrapped ==
    /\ ChildStep /\ mutator = "recursive" /\ kind[kid] = "block"
    /\ Edit(<<Expr("block", <<kid>>)>>, [n \in {el} |-> With(made + 1)])
    /\ Mutated /\ Requeue /\ UNCHANGED child

\* The value that a branch to another label needs, if that label takes one.
Values == {<<>>, <<Expr("const", <<>>)>>}
ValueAt(val, at) == [i \in 1 .. Len(val) |-> at]

\* br: the value is replaced or dropped.
BreakKeepsValue(val) == kids[kid] \o ValueAt(val, made + 1)
BreakSetValue(val) == ValueAt(val, made + 1)

BreakRetargeted ==
    /\ ChildStep /\ mutator = "branch" /\ kind[kid] = "br"
    /\ \E val \in Values : Edit(val, [n \in {kid} |-> BreakSetValue(val)])
    /\ Mutated /\ UNCHANGED <<list, child>>

\* br_if: its value, if it has one, goes into a local before it.
Saved == IF Len(kids[kid]) = 2 THEN <<Expr("local", <<kids[kid][1]>>)>> ELSE <<>>

BreakIfRetargeted ==
    /\ ChildStep /\ mutator = "branch" /\ kind[kid] = "br_if"
    /\ \E val \in Values :
          LET s == Len(Saved)
              block == made + Len(val) + s + 1
          IN  /\ Edit(Saved \o val \o <<Expr("block", ValueAt(Saved, made + 1) \o <<kid>>)>>,
                      [n \in {kid, el} |-> IF n = kid THEN Append(ValueAt(val, made + s + 1),
                                                              Last(kids[kid]))
                                         ELSE With(block)])
              /\ child' = [child EXCEPT ![ind] = block]
              /\ list' = list \o ValueAt(Saved, made + 1)
    /\ Mutated

\* br_table: a new one for labels of another type takes over the condition.
SwitchReplaced ==
    /\ ChildStep /\ mutator = "branch" /\ kind[kid] = "switch"
    /\ \E val \in Values :
          /\ Edit(val \o <<Expr("switch", Append(ValueAt(val, made + 1), Last(kids[kid])))>>,
                  [n \in {el} |-> With(made + Len(val) + 1)])
          /\ child' = [child EXCEPT ![ind] = made + Len(val) + 1]
    /\ list' = Append(list, Last(kids[kid])) /\ Mutated

\* A fragment of the other seed takes the place of the child.
Overwritten ==
    /\ ChildStep /\ mutator = "splice"
    /\ Edit(<<Expr("const", <<>>)>>, [n \in {el} |-> With(made + 1)])
    /\ Mutated /\ UNCHANGED <<list, child>>

\* After the last child: a fragment may be inserted into a block.
ChildrenEnd == pc = "child" /\ ind > Len(child) /\ pc' = "list"
               /\ el' = None /\ child' = <<>> /\ ind' = 1
               /\ UNCHANGED <<body, counts, cur_cnt, funcs, list, root>>

NotInserted == ChildrenEnd /\ UNCHANGED <<kind, kids, made, cur_ins, seen>>

Inserted ==
    /\ ChildrenEnd /\ mutator = "splice" /\ kind[el] = "block"
    /\ \E i \in 1 .. Len(kids[el]) :
          Edit(<<Expr("const", <<>>)>>, [n \in {el} |-> InsertAt(kids[el], i, made + 1)])
    /\ cur_ins' = cur_ins + 1

-----------------------------------------------------------------------------
Terminated == pc = "done" /\ UNCHANGED vars

Next ==
    \/ Draw \/ NextFunc \/ WalkEnds \/ Return \/ Done
    \/ Visit \/ RootKept \/ RootReplaced \/ RootCallIndirect \/ RootWrapped
    \/ ChildKept \/ ChildReplaced \/ ChildCallIndirect \/ ChildWrapped
    \/ BreakRetargeted \/ BreakIfRetargeted \/ SwitchReplaced \/ Overwritten
    \/ NotInserted \/ Inserted
    \/ Terminated

Spec == Init /\ [][Next]_vars
\* The stage is one call of afl_custom_fuzz: it runs until it returns.
FairSpec == Spec /\ WF_vars(Next)
-----------------------------------------------------------------------------
(* Properties                                                              *)

\* The types of the arena of expressions: every node has the children its
\* kind requires, and they exist.
TypeOK ==
    /\ made \in Node /\ body \in 0 .. MaxNodes
    /\ kind \in [Node -> AllKinds \cup {"local"}]
    /\ kids \in [Node -> Seq(1 .. made)]
    /\ \A n \in 1 .. made : kind[n] # "local" => Arity(kind[n], Len(kids[n]))
    /\ pc \in {"stage", "funcs", "list", "root", "child", "done"}
    /\ mutator \in Mutators /\ max_cnt \in 1 .. MaxCnt /\ max_ins \in 1 .. MaxCnt
    /\ stage_cur \in Nat /\ cur_cnt \in Nat /\ cur_ins \in Nat
    /\ funcs \in 0 .. Imports + 1 /\ root \in BOOLEAN
    /\ list \in Seq(1 .. made) /\ child \in Seq(1 .. made) /\ seen \subseteq 1 .. made
    /\ el \in 0 .. made /\ ind \in 1 .. Len(child) + 1

\* Whatever was mutated before, no expression is a child twice: Binaryen's IR
\* has to be a tree, and an expression that is shared is emitted, and run, once
\* for every parent.
TreeShaped ==
    LET A == Attached IN
    \A m, n \in A : \A i \in 1 .. Len(kids[m]), j \in 1 .. Len(kids[n]) :
        /\ kids[m][i] # body
        /\ kids[m][i] = kids[n][j] => m = n /\ i = j

\* The element at hand, the children still to be looked at and the worklist
\* are parts of the function: a mutation that is counted is made in the module
\* that is written out, not in an expression that has been taken out of it.
EditsTheFunction ==
    LET A == Attached IN
    /\ ToSet(list) \subseteq A
    /\ pc \in {"root", "child"} => el \in A
    /\ \A i \in ind .. Len(child) : child[i] \in A

\* A walk that ends without having made its mutations has come to every
\* expression of the function (list_append while the list is iterated, and the
\* children taken over by other expressions, lose none).  Only the mutators
\* of branches and of calls leave out what they have moved into a local.
WalkComplete ==
    /\ pc = "list" /\ list = <<>> /\ ~Enough
    /\ mutator \in {"interest", "operators", "recursive", "splice"}
    => Attached \subseteq seen

\* The worklist misses no expression and holds none that has been taken out.
WalkSound == EditsTheFunction /\ WalkComplete

\* The mutators that change a target, a constant or the nesting take nothing
\* out of the function.
NothingLost ==
    [][(mutator \in {"call", "interest", "recursive"}) => Attached \subseteq Attached']_vars

\* The stage ends, also when no mutator finds anything to mutate.
StageEnds == <>(pc = "done")
=============================================================================
