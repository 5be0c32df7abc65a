----------------------------- MODULE GraphiteStacks ----------------------------
(***************************************************************************)
(* The stacks that are computed from Graphite's metadata (internal/gt and  *)
(* internal/discovery): the order of all branches, the path below one,     *)
(* the root its siblings share and what a gather folds into which tip.     *)
(*                                                                         *)
(* Branches are numbers, in the order of their names; a state maps those   *)
(* it knows to [trunk, parents].  A parent may be unknown, and nothing     *)
(* rules out a cycle.  The metadata is the input, chosen in one step.      *)
(***************************************************************************)
EXTENDS Naturals, Sequences, FiniteSets, SequencesExt

CONSTANTS
    MaxBranch,  \* branches
    MaxParents  \* bound: parents of one branch

ASSUME GraphiteAssumption == MaxBranch \in Nat \ {0} /\ MaxParents \in Nat

Known == 1 .. MaxBranch
BranchState == {[trunk |-> TRUE, parents |-> <<>>]} \cup
    {[trunk |-> FALSE, parents |-> ps] : ps \in SeqOf(1 .. MaxBranch + 1, MaxParents)}

VARIABLES metadata, trunkName \* the input, and the trunk a walk begins at
stacksVars == <<metadata, trunkName>>

Trunks(s) == {b \in DOMAIN s : s[b].trunk}
FirstParent(s, b) == s[b].parents[1]
HasParent(s, b) == s[b].parents # <<>>
Children(s, b) == {c \in DOMAIN s : Contains(s[c].parents, b)}
Names(list) == [i \in DOMAIN list |-> list[i].name]

-----------------------------------------------------------------------------
\* Ordered: breadth first from a trunk, children by name; then what it did not
\* reach, by name.  With several trunks the map's order picks one.

BFS(s, trunk) ==
    LET walk[n \in 0 .. MaxBranch * MaxBranch + 1] ==
            IF n = 0 THEN [queue |-> IF trunk = 0 THEN <<>> ELSE <<[name |-> trunk, depth |-> 0]>>,
                           out |-> <<>>]
            ELSE LET w == walk[n - 1]
                     cur == Head(w.queue)
                     seen == ToSet(Names(w.out))
                     below == SetToSortSeq(Children(s, cur.name) \ (seen \cup {cur.name}), <)
                     added == [i \in DOMAIN below |-> [name |-> below[i], depth |-> cur.depth + 1]]
                 IN  IF w.queue = <<>> THEN w
                     ELSE IF cur.name \in seen THEN [w EXCEPT !.queue = Tail(@)]
                     ELSE [queue |-> Tail(w.queue) \o added, out |-> Append(w.out, cur)]
    IN  walk[MaxBranch * MaxBranch + 1].out

\* Faulty Ordered: the names alone order the branches.
OrderedByName(s, trunk) ==
    LET all == SetToSortSeq(DOMAIN s, <)
    IN  [i \in DOMAIN all |-> [name |-> all[i], depth |-> 0]]

Ordered(s, trunk) ==
    LET reached == BFS(s, trunk)
        rest == SetToSortSeq(DOMAIN s \ ToSet(Names(reached)), <)
    IN  reached \o [i \in DOMAIN rest |-> [name |-> rest[i], depth |-> 0]]

OnlyThose(list, names) == SelectSeq(Names(list), LAMBDA b : b \in names)

-----------------------------------------------------------------------------
\* First parents from a branch on, up to those to stop before; a branch that was
\* seen ends the walk.
WalkUp(s, b, stops) ==
    LET walk[n \in 0 .. MaxBranch] ==
            IF n = 0 THEN <<b>>
            ELSE LET w == walk[n - 1]
                     cur == Last(w)
                 IN  IF cur \notin DOMAIN s THEN w
                     ELSE IF s[cur].trunk \/ ~HasParent(s, cur) THEN w
                     ELSE IF FirstParent(s, cur) \in ToSet(w) \cup stops THEN w
                     ELSE Append(w, FirstParent(s, cur))
    IN  walk[MaxBranch]

Lineage(s, trunk, b) ==
    IF b \notin DOMAIN s THEN <<>>
    ELSE OnlyThose(Ordered(s, trunk), ToSet(WalkUp(s, b, {})))

\* The branches below the trunk; the last one is the root.
Chain(s, b) == WalkUp(s, b, Trunks(s) \cup ((1 .. MaxBranch + 1) \ DOMAIN s))
InAStack(s, b) == b \in DOMAIN s /\ ~s[b].trunk
\* Faulty StackRoot: the trunk counts as a branch of the stack.
RootWithTrunk(s, b) ==
    LET path == WalkUp(s, b, {}) IN [root |-> Last(path), depth |-> Len(path) - 1]

StackRoot(s, b) == [root |-> Last(Chain(s, b)), depth |-> Len(Chain(s, b)) - 1]

WholeStack(s, trunk, b) ==
    LET root == StackRoot(s, b).root
    IN  OnlyThose(Ordered(s, trunk),
                  ToSet(Lineage(s, trunk, root))
                  \cup {c \in DOMAIN s : InAStack(s, c) /\ StackRoot(s, c).root = root})

\* Refs hold one parent per branch; what is only a parent is taken for the trunk.
StackFromRefMeta(meta) ==
    [b \in DOMAIN meta \cup {meta[c] : c \in DOMAIN meta} |->
        IF b \in DOMAIN meta THEN [trunk |-> FALSE, parents |-> <<meta[b]>>]
        ELSE [trunk |-> TRUE, parents |-> <<>>]]

-----------------------------------------------------------------------------
\* GatherStack: the branch's ancestors and, from the branch itself, all that is
\* stacked upon it; never a trunk, though one may be asked for.
Component(s, b) ==
    LET path == IF s[b].trunk THEN {} ELSE ToSet(Chain(s, b))
        grown[n \in 0 .. MaxBranch] ==
            IF n = 0 THEN {b}
            ELSE grown[n - 1] \cup {c \in DOMAIN s \ (path \cup Trunks(s)) :
                                       \E p \in grown[n - 1] : c \in Children(s, p)}
    IN  path \cup (grown[MaxBranch] \ Trunks(s))

stackIsLinear(s, names) == \A b \in names : Cardinality(Children(s, b) \cap names) <= 1

NoGather == [ok |-> FALSE, tip |-> 0, folded |-> {}, linear |-> TRUE]
GatherStack(s, trunk, b) ==
    LET names == Component(s, b)
        ordered == OnlyThose(Ordered(s, trunk), names)
    IN  IF b \notin DOMAIN s THEN NoGather
        ELSE IF Cardinality(names) < 2 THEN NoGather
        ELSE [ok |-> TRUE, tip |-> Last(ordered), folded |-> ToSet(Front(ordered)),
              linear |-> stackIsLinear(s, names)]

-----------------------------------------------------------------------------
StacksInit == metadata = <<>> /\ trunkName = 0

ReadMetadata ==
    /\ metadata = <<>>
    /\ \/ metadata' \in [Known -> BranchState]
       \/ \E known \in SUBSET Known \ {{}} :
             \E meta \in [known -> Known] : metadata' = StackFromRefMeta(meta)
    /\ trunkName' \in IF Trunks(metadata') = {} THEN {0} ELSE Trunks(metadata')

StacksNext == ReadMetadata
StacksSpec == StacksInit /\ [][StacksNext]_stacksVars

-----------------------------------------------------------------------------
\* The relations the lists are to respect, by sets alone: stacked directly on,
\* over any number of branches, and on first parents only.
On(s, b) == DOMAIN s \cap ToSet(s[b].parents)
Below(s, b, parents(_)) ==
    LET grown[n \in 0 .. MaxBranch] ==
            IF n = 0 THEN parents(b) ELSE grown[n - 1] \cup UNION {parents(p) : p \in grown[n - 1]}
    IN  grown[MaxBranch]
FirstOn(s, b) == IF HasParent(s, b) THEN {FirstParent(s, b)} \cap DOMAIN s ELSE {}
Acyclic(s) == \A b \in DOMAIN s : b \notin Below(s, b, LAMBDA c : On(s, c))

\* With one trunk and no cycle, Lineage is the branch and all its first ancestors,
\* each of them before what stands on it; a branch has the same stack and root as
\* the branch below it and is one deeper, so that siblings are clustered together,
\* and no two stacks are: the root is never the trunk.
LineageAndRootsAgree ==
    LET s == metadata
    IN  Acyclic(s) /\ Cardinality(Trunks(s)) = 1 =>
            \A b \in DOMAIN s :
                LET path == Lineage(s, trunkName, b)
                    ancestors == Below(s, b, LAMBDA c : FirstOn(s, c))
                IN  /\ ToSet(path) = {b} \cup ancestors
                    /\ \A i, j \in DOMAIN path :
                          i < j /\ trunkName \in ToSet(path) /\ MaxParents = 1
                             => path[j] \notin Below(s, path[i], LAMBDA c : FirstOn(s, c))
                    /\ \A p \in FirstOn(s, b) : InAStack(s, b) /\ InAStack(s, p) =>
                          /\ StackRoot(s, b) = [root |-> StackRoot(s, p).root,
                                                depth |-> StackRoot(s, p).depth + 1]
                          /\ WholeStack(s, trunkName, b) = WholeStack(s, trunkName, p)
                    /\ InAStack(s, b) =>
                          /\ ToSet(path) \subseteq ToSet(WholeStack(s, trunkName, b))
                          /\ InAStack(s, StackRoot(s, b).root)

\* A linear stack that stands on the trunk is folded into the one branch that
\* stands on all others, so that no commit of a folded branch is missing in it.
GatherTipHoldsTheStack ==
    LET s == metadata
    IN  \A b \in DOMAIN s :
            LET g == GatherStack(s, trunkName, b)
            IN  /\ Acyclic(s) /\ InAStack(s, b)
                /\ trunkName \in Below(s, b, LAMBDA c : On(s, c))
                /\ g.ok /\ g.linear
                => \A f \in g.folded : f \in Below(s, g.tip, LAMBDA c : On(s, c))

\* Stacks that are computed by walks are the stacks of the relation, and a gather
\* on one of them loses no commit.
StackWalksAgree == LineageAndRootsAgree /\ GatherTipHoldsTheStack
=============================================================================
