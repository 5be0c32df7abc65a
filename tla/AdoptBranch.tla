------------------------------ MODULE AdoptBranch ------------------------------
(***************************************************************************)
(* slis adopt of one branch in one repository (internal/cli/adopt.go): a   *)
(* managed worktree for a branch that exists locally, on origin or not     *)
(* yet.  With --move a branch that the primary holds is freed: its         *)
(* uncommitted work is stashed and popped in the new worktree.             *)
(*                                                                         *)
(* The stash belongs to the whole repository: the user and other commands  *)
(* push to it and pop from it between any two git commands.                *)
(***************************************************************************)
EXTENDS Naturals, Sequences, SequencesExt

CONSTANTS
    OwnWork,        \* pieces of uncommitted work in the primary
    ForeignWork,    \* pieces of uncommitted work of other worktrees
    MaxRepoSteps    \* bound: steps of users, and commands of git that fail

ASSUME AdoptAssumption == OwnWork \cap ForeignWork = {} /\ MaxRepoSteps \in Nat

VARIABLES
    branch,      \* "local", "remote" or "absent"
    holder,      \* who has it checked out: "primary", "worktree", "other", "nobody"
    primaryWork, \* uncommitted work in the primary
    treeWork,    \* in the new worktree
    otherWork,   \* in the repository's other worktrees
    stashed,     \* the stash, its top first: sets of pieces
    adopt,       \* the command: [at, move, create, ref, index, held]
    adopted,     \* "no", "yes" or "failed"
    repoSteps,
    raced        \* somebody changed the primary while its work was stashed, or the
                 \* stash before its entry was named or between list and pop

adoptVars == <<branch, holder, primaryWork, treeWork, otherWork, stashed, adopt, adopted,
               repoSteps, raced>>
workPlaces == <<primaryWork, treeWork, otherWork, stashed>>
NoStash == {}

AdoptInit ==
    /\ branch \in {"local", "remote", "absent"}
    /\ holder \in IF branch = "local" THEN {"primary", "other", "nobody"} ELSE {"nobody"}
    /\ primaryWork \in {{}, OwnWork} /\ treeWork = {} /\ otherWork = ForeignWork
    /\ stashed = <<>>
    /\ adopt \in [at : {"begin"}, move : BOOLEAN, create : BOOLEAN, ref : {NoStash},
                  index : {0}, held : {{}}]
    /\ adopted = "no" /\ repoSteps = 0 /\ raced = FALSE

AdoptAt(place) == adopt.at = place
AdoptGoes(place) == adopt' = [adopt EXCEPT !.at = place]
AdoptEnds(how) == adopt' = [adopt EXCEPT !.at = "ended"] /\ adopted' = how
GitFails == repoSteps < MaxRepoSteps /\ repoSteps' = repoSteps + 1

\* git worktree add of the branch refuses one that is checked out.
adoptBranch ==
    /\ AdoptAt("begin")
    /\ \/ /\ branch = "local" /\ holder # "nobody"
          /\ IF adopt.move THEN AdoptGoes("free") /\ UNCHANGED adopted ELSE AdoptEnds("failed")
          /\ UNCHANGED <<branch, holder, repoSteps>>
       \/ /\ holder = "nobody" /\ (branch # "absent" \/ adopt.create)
          /\ branch' = "local" /\ holder' = "worktree" /\ AdoptEnds("yes")
          /\ UNCHANGED repoSteps
       \/ /\ branch = "absent" /\ ~adopt.create
          /\ AdoptEnds("failed") /\ UNCHANGED <<branch, holder, repoSteps>>
       \/ GitFails /\ AdoptEnds("failed") /\ UNCHANGED <<branch, holder>>
    /\ UNCHANGED <<workPlaces, raced>>

\* freePrimaryBranch, only for a primary that is on the branch.
freePrimaryBranch ==
    /\ AdoptAt("free")
    /\ \/ /\ holder = "primary"
          /\ adopt' = [adopt EXCEPT !.at = IF primaryWork = {} THEN "detach" ELSE "stash",
                                   !.held = primaryWork]
          /\ UNCHANGED <<adopted, repoSteps>>
       \/ holder # "primary" /\ AdoptEnds("failed") /\ UNCHANGED repoSteps
       \/ GitFails /\ AdoptEnds("failed")
    /\ UNCHANGED <<branch, holder, workPlaces, raced>>

\* git stash push; with nothing left to stash it succeeds and pushes nothing.
StashPush ==
    /\ AdoptAt("stash")
    /\ \/ /\ stashed' = IF primaryWork = {} THEN stashed ELSE <<primaryWork>> \o stashed
          /\ primaryWork' = {}
          /\ AdoptGoes("name") /\ UNCHANGED <<adopted, repoSteps>>
       \/ GitFails /\ AdoptEnds("failed") /\ UNCHANGED <<stashed, primaryWork>>
    /\ UNCHANGED <<branch, holder, treeWork, otherWork, raced>>

\* The commit that is on top of the stash now, if git says so.
NameStash ==
    /\ AdoptAt("name")
    /\ \/ /\ adopt' = [adopt EXCEPT !.at = "detach",
                                   !.ref = IF stashed = <<>> THEN NoStash ELSE Head(stashed)]
          /\ UNCHANGED repoSteps
       \/ GitFails /\ AdoptGoes("detach")
    /\ UNCHANGED <<branch, holder, workPlaces, adopted, raced>>

DetachPrimary ==
    /\ AdoptAt("detach")
    /\ \/ /\ holder' = IF holder = "primary" THEN "nobody" ELSE holder
          /\ AdoptGoes("add again") /\ UNCHANGED <<adopted, repoSteps>>
       \/ GitFails /\ AdoptEnds("failed") /\ UNCHANGED holder
    /\ UNCHANGED <<branch, workPlaces, raced>>

addWorktree ==
    /\ AdoptAt("add again")
    /\ \/ /\ holder = "nobody" /\ holder' = "worktree"
          /\ IF adopt.ref = NoStash THEN AdoptEnds("yes") ELSE AdoptGoes("pop") /\ UNCHANGED adopted
          /\ UNCHANGED repoSteps
       \/ holder # "nobody" /\ AdoptEnds("failed") /\ UNCHANGED <<holder, repoSteps>>
       \/ GitFails /\ AdoptEnds("failed") /\ UNCHANGED holder
    /\ UNCHANGED <<branch, workPlaces, raced>>

\* popStash, git stash list: the first entry with the named commit; without one
\* nothing is popped in its stead.
FindStash ==
    /\ AdoptAt("pop")
    /\ \/ /\ \E i \in DOMAIN stashed :
                /\ stashed[i] = adopt.ref /\ \A j \in 1 .. i - 1 : stashed[j] # adopt.ref
                /\ adopt' = [adopt EXCEPT !.at = "pop entry", !.index = i]
          /\ UNCHANGED <<adopted, repoSteps>>
       \/ /\ \A i \in DOMAIN stashed : stashed[i] # adopt.ref
          /\ AdoptEnds("yes") /\ UNCHANGED repoSteps
       \/ GitFails /\ AdoptEnds("yes")
    /\ UNCHANGED <<branch, holder, workPlaces, raced>>

\* Faulty popStash: what is on top is popped.
popTopStash ==
    /\ AdoptAt("pop entry")
    /\ \/ /\ stashed # <<>>
          /\ stashed' = Tail(stashed) /\ treeWork' = treeWork \cup Head(stashed)
       \/ stashed = <<>> /\ UNCHANGED <<stashed, treeWork>>
    /\ AdoptEnds("yes")
    /\ UNCHANGED <<branch, holder, primaryWork, otherWork, repoSteps, raced>>

\* popStash, git stash pop stash@{n}: the entry that has this number by now, if
\* there is one; one that does not apply stays.
popStash ==
    /\ AdoptAt("pop entry")
    /\ \/ /\ adopt.index \in DOMAIN stashed
          /\ stashed' = RemoveAt(stashed, adopt.index)
          /\ treeWork' = treeWork \cup stashed[adopt.index]
          /\ UNCHANGED repoSteps
       \/ adopt.index \notin DOMAIN stashed /\ UNCHANGED <<stashed, treeWork, repoSteps>>
       \/ GitFails /\ UNCHANGED <<stashed, treeWork>>
    /\ AdoptEnds("yes")
    /\ UNCHANGED <<branch, holder, primaryWork, otherWork, raced>>

\* The user, or another command: stashes the work of a worktree, or pops the top.
Meanwhile(step) ==
    /\ GitFails /\ step
    /\ raced' = (raced \/ adopt.at \in {"stash", "name", "pop entry"})
    /\ UNCHANGED <<branch, holder, treeWork, adopt, adopted>>

UserStashes ==
    \/ Meanwhile(/\ otherWork # {} /\ stashed' = <<otherWork>> \o stashed
                 /\ otherWork' = {} /\ UNCHANGED primaryWork)
    \/ Meanwhile(/\ primaryWork # {} /\ stashed' = <<primaryWork>> \o stashed
                 /\ primaryWork' = {} /\ UNCHANGED otherWork)

UserPops ==
    /\ stashed # <<>>
    /\ \/ Meanwhile(/\ stashed' = Tail(stashed)
                    /\ otherWork' = otherWork \cup Head(stashed) /\ UNCHANGED primaryWork)
       \/ Meanwhile(/\ stashed' = Tail(stashed)
                    /\ primaryWork' = primaryWork \cup Head(stashed) /\ UNCHANGED otherWork)

\* A worktree leaves the branch, or takes it.
UserSwitches ==
    /\ GitFails
    /\ \/ holder \in {"primary", "other"} /\ holder' = "nobody"
       \/ holder = "nobody" /\ branch = "local" /\ holder' \in {"primary", "other"}
    /\ UNCHANGED <<branch, workPlaces, adopt, adopted, raced>>

AdoptNext ==
    \/ adoptBranch \/ freePrimaryBranch \/ StashPush \/ NameStash \/ DetachPrimary
    \/ addWorktree \/ FindStash \/ popStash \/ UserStashes \/ UserPops \/ UserSwitches

AdoptSpec == AdoptInit /\ [][AdoptNext]_adoptVars

-----------------------------------------------------------------------------
\* Every variable has its type.
AdoptTypeOK ==
    /\ branch \in {"local", "remote", "absent"}
    /\ holder \in {"primary", "worktree", "other", "nobody"}
    /\ adopted \in {"no", "yes", "failed"} /\ (adopted = "no" <=> ~AdoptAt("ended"))
    /\ repoSteps \in 0 .. MaxRepoSteps /\ raced \in BOOLEAN

InStash == UNION {stashed[i] : i \in DOMAIN stashed}

\* Adopting loses no uncommitted work, wherever it stops and whatever else moves
\* the stash.  What arrives in the new worktree is what the primary held when it
\* was found dirty, though users push and pop while the primary is detached and
\* the worktree added; unless somebody changes the primary before it is stashed,
\* or the stash before the entry is named or between its list and its pop.
AdoptLosesNoWork ==
    [][/\ primaryWork' \cup treeWork' \cup otherWork' \cup UNION {stashed'[i] : i \in DOMAIN stashed'}
             = primaryWork \cup treeWork \cup otherWork \cup InStash
       /\ treeWork \subseteq treeWork'
       /\ raced \/ treeWork' \subseteq adopt.held]_adoptVars
=============================================================================
