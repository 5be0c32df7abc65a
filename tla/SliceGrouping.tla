----------------------------- MODULE SliceGrouping -----------------------------
(***************************************************************************)
(* How worktrees become slices (internal/discovery and the registry of     *)
(* internal/config): pure operators over what git lists, the registry and  *)
(* the overrides file.                                                     *)
(*                                                                         *)
(* A place is a directory that may hold a worktree: [repo, tree, dir],     *)
(* tree the slice whose managed directory it is, None outside of           *)
(* <root>/.slis/worktrees.  A record is a worktree that was listed, a      *)
(* member one that belongs to a slice.  Registry, slices and overrides are *)
(* functions of slice and repository; None stands for no entry.            *)
(***************************************************************************)
EXTENDS Naturals, FiniteSets

CONSTANTS
    Slice,     \* slice names
    Repo,      \* the workspace's repositories
    Ref,       \* branch names
    NameOf,    \* the slice name of a branch: its name without the prefix
    Kin,       \* pairs of a group and a branch that reads as its work
    Place,     \* directories that may hold a worktree
    AgentDirs, \* places that slis's own globs ignore (.claude/worktrees)
    AgentRefs, \* branches in the namespace of such a place's agent
    None       \* no branch, slice, member or process

ASSUME GroupingAssumption ==
    /\ NameOf \in [Ref -> Slice]
    /\ Kin \subseteq Slice \X Ref
    /\ \A p \in Place : p.repo \in Repo /\ p.tree \in Slice \cup {None}
    /\ AgentDirs \subseteq Place /\ AgentRefs \subseteq Ref

\* restored: a detached worktree that is listed under its registered branch.
\* The restored ones come after all others.
worktreeRec(place, ref, restored) == [place |-> place, ref |-> ref, restored |-> restored]
RegistryMember(place, ref) == [place |-> place, ref |-> ref]
member(rec) == RegistryMember(rec.place, rec.ref)

ASSUME NoMemberAssumption == None \notin Ref /\ None \notin [place : Place, ref : Ref]

NoEntries == [s \in Slice |-> [r \in Repo |-> None]]
NoFolds == [s \in Slice |-> [r \in Repo |-> {}]]
Entries(reg) == {reg[s][r] : s \in Slice, r \in Repo} \ {None}
underManagedTree(place) == place.tree # None

\* The first record of a repository, in the order of the listing.
First(recs) ==
    IF \E x \in recs : ~x.restored THEN CHOOSE x \in recs : ~x.restored
    ELSE CHOOSE x \in recs : TRUE

-----------------------------------------------------------------------------
\* A registered member's worktree: at its recorded path, else on its branch.
Match(r, m, recs) ==
    LET byPath == {x \in recs : x.place = m.place}
        byRef == {x \in recs : x.place.repo = r /\ x.ref = m.ref}
    IN  IF byPath # {} THEN member(First(byPath))
        ELSE IF byRef # {} THEN member(First(byRef)) ELSE None

restoreRegisteredDetached(reg, detached) ==
    {worktreeRec(p, (CHOOSE m \in Entries(reg) : m.place = p).ref, TRUE) :
        p \in {q \in detached : \E m \in Entries(reg) : m.place = q}}

\* Faulty reconcileRegistry: a missing worktree of the user's loses its entry too.
reconcileMissing(reg, recs, empty) ==
    [s \in Slice |-> [r \in Repo |-> IF reg[s][r] = None THEN None ELSE Match(r, reg[s][r], recs)]]

\* A member without a worktree loses its entry when its place was slis's own and
\* holds nothing; a missing worktree of the user's is kept.
reconcileRegistry(reg, recs, empty) ==
    [s \in Slice |-> [r \in Repo |->
        LET m == reg[s][r]
        IN  IF m = None THEN None
            ELSE IF Match(r, m, recs) # None THEN Match(r, m, recs)
            ELSE IF underManagedTree(m.place) /\ m.place \in empty THEN None ELSE m]]

missingMembers(reg, recs) ==
    {sr \in Slice \X Repo :
        LET m == reg[sr[1]][sr[2]] IN m # None /\ Match(sr[2], m, recs) = None}

\* registeredIndex(reg).has: by repository and branch, or by path.
registered(reg, x) ==
    \E m \in Entries(reg) : m.place = x.place \/ (m.place.repo = x.place.repo /\ m.ref = x.ref)

agentOwnedCheckout(x) == x.place \in AgentDirs /\ x.ref \in AgentRefs
grandfatherable(x) == ~agentOwnedCheckout(x)

Managed(recs, reg, exists) ==
    {x \in recs : underManagedTree(x.place) \/ registered(reg, x) \/ (~exists /\ grandfatherable(x))}

Ignored(recs, reg, exists, globs) ==
    {x \in recs \ Managed(recs, reg, exists) : ~exists \/ x.place \in globs}

-----------------------------------------------------------------------------
\* Slices by the names of the branches; of two worktrees of one repository the
\* first is the member.
groupByName(recs) ==
    [s \in Slice |-> [r \in Repo |->
        LET named == {x \in recs : x.place.repo = r /\ NameOf[x.ref] = s}
        IN  IF named = {} THEN None ELSE member(First(named))]]

\* Faulty collisions: two worktrees of one name are passed over in silence.
noCollisions(recs) == {}

collisions(recs) == {x \in recs : member(x) \notin Entries(groupByName(recs))}

\* Faulty membershipOverrides: only managed directories decide.
managedOverrides(reg, recs) ==
    [s \in Slice |-> [r \in Repo |->
        LET inTree == {x \in recs : x.place.repo = r /\ x.place.tree = s}
        IN  IF inTree # {} THEN First(inTree).ref ELSE None]]

\* The slice of a managed directory, then the registry.
membershipOverrides(reg, recs) ==
    [s \in Slice |-> [r \in Repo |->
        LET recorded == IF reg[s][r] = None THEN None ELSE Match(r, reg[s][r], recs)
            inTree == {x \in recs : x.place.repo = r /\ x.place.tree = s}
        IN  IF recorded # None THEN recorded.ref
            ELSE IF inTree # {} THEN First(inTree).ref ELSE None]]

\* Members that an override names move into its slice; then the others go
\* where they were, in place of what an override has put there.
Lookup(slices, r, ref) ==
    LET of == {s \in Slice : slices[s][r] # None /\ slices[s][r].ref = ref}
    IN  IF of = {} THEN None ELSE slices[CHOOSE s \in of : TRUE][r]

claimed(ov, r, m) == \E s \in Slice : ov[s][r] = m.ref

Apply(slices, ov) ==
    [s \in Slice |-> [r \in Repo |->
        IF slices[s][r] # None /\ ~claimed(ov, r, slices[s][r]) THEN slices[s][r]
        ELSE IF ov[s][r] = None THEN None ELSE Lookup(slices, r, ov[s][r])]]

ApplyFolds(slices, folds) ==
    [s \in Slice |-> [r \in Repo |->
        IF slices[s][r] # None /\ \E t \in Slice : slices[s][r].ref \in folds[t][r]
        THEN None ELSE slices[s][r]]]

\* An override whose branch is gone follows the slice that bears its name, to a
\* branch of the same work or one git says was renamed; else any renamed branch.
branchBelongsToGroup(s, ref) == NameOf[ref] = s \/ <<s, ref>> \in Kin

movedOverrideTarget(slices, s, r, ref, renamed) ==
    LET heir == slices[NameOf[ref]][r]
        others == {m \in {slices[t][r] : t \in Slice} \ {None} : <<ref, m.ref>> \in renamed}
    IN  IF heir # None /\ (branchBelongsToGroup(s, heir.ref) \/ <<ref, heir.ref>> \in renamed)
        THEN heir.ref
        ELSE IF others # {} THEN (CHOOSE m \in others : TRUE).ref ELSE ref

retargetMovedOverrideMembers(slices, ov, renamed) ==
    [s \in Slice |-> [r \in Repo |->
        IF ov[s][r] = None \/ Lookup(slices, r, ov[s][r]) # None THEN ov[s][r]
        ELSE movedOverrideTarget(slices, s, r, ov[s][r], renamed)]]

Resolve(slices, ov, folds, renamed) ==
    ApplyFolds(Apply(slices, retargetMovedOverrideMembers(slices, ov, renamed)), folds)

-----------------------------------------------------------------------------
\* Every healthy managed worktree gets an entry of its slice.
registerManagedSlices(reg, slices) ==
    [s \in Slice |-> [r \in Repo |->
        IF slices[s][r] # None /\ underManagedTree(slices[s][r].place) THEN slices[s][r]
        ELSE reg[s][r]]]

\* What Report returns of a listing.
Result(recs, unusable, reg, exists, globs) ==
    LET managed == Managed(recs, reg, exists)
        slices == Apply(groupByName(managed), membershipOverrides(reg, managed))
    IN  [slices |-> slices,
         skipped |-> unusable \cup {x.place : x \in Ignored(recs, reg, exists, globs) \cup collisions(managed)},
         candidates |-> {member(x) : x \in recs \ (managed \cup Ignored(recs, reg, exists, globs))}]
=============================================================================
