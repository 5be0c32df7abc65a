----------------------------- MODULE SliceLifecycle ----------------------------
(***************************************************************************)
(* The commands that make, list, group and remove slices (internal/cli,    *)
(* internal/cleanup), each a process of its own, beside users who work in  *)
(* the worktrees with git.  The registry and the overrides are files that  *)
(* a command reads, changes and writes back without a lock.                *)
(*                                                                         *)
(* A step is one read or write of a file, or the git commands a command    *)
(* runs for one repository; the listing of all repositories is one step.   *)
(***************************************************************************)
EXTENDS SliceGrouping

CONSTANTS
    Command,       \* processes
    Starts,        \* what is checked out at first, per place
    Gathered,      \* Graphite stacks: [repo, folded (branches), tip (branch)]
    Joins,         \* bound: groups and the slices whose members they get, <<group, slice>>
    MaxLifecycle,  \* bound: commands
    MaxUserSteps   \* bound: steps of users and failures

Detached == "detached"

\* git checks a branch out once.
ASSUME LifecycleAssumption ==
    /\ Detached # None /\ Detached \notin Ref
    /\ Starts \subseteq [Place -> Ref \cup {None, Detached}]
    /\ \A start \in Starts : \A p, q \in Place :
          p.repo = q.repo /\ p # q /\ start[p] \in Ref => start[p] # start[q]
    /\ Gathered \subseteq [repo : Repo, folded : SUBSET Ref, tip : Ref]
    /\ Joins \subseteq Slice \X Slice
    /\ MaxLifecycle \in Nat /\ MaxUserSteps \in Nat

NoFile == [file |-> "none", slices |-> NoEntries]
Broken == [file |-> "broken", slices |-> NoEntries]
File(slices) == [file |-> "ok", slices |-> slices]

VARIABLES
    checkout,    \* per place: what git records for it, None if it is no worktree
    content,     \* per place: "full", "gone", or an "empty" directory, "fresh" for five minutes
    refState,    \* per repository and branch: "absent", "merged" or "ahead" of trunk
    registry,    \* registry.yaml
    overrides, folds, \* overrides.yaml
    ignoreGlobs, \* places that grouping.ignore names
    renamed,     \* renames that reflogs prove, <<old, new>>
    live,        \* the slice that is swapped in
    cmd,         \* per process: its command
    lifecycles, userSteps

disk == <<checkout, content, refState>>
files == <<registry, overrides, folds>>
lifecycleVars == <<disk, files, ignoreGlobs, renamed, live, cmd, lifecycles, userSteps>>

NoReport == [slices |-> NoEntries, skipped |-> {}, candidates |-> {}, missing |-> {}]
NoCommand == [op |-> None, at |-> "idle", slice |-> None, ref |-> None, other |-> None,
              recs |-> {}, unusable |-> {}, detached |-> {}, read |-> NoFile, exists |-> FALSE,
              lost |-> {}, report |-> NoReport, write |-> NoEntries, folds |-> NoFolds,
              todo |-> {}, done |-> {}]

LifecycleInit ==
    /\ checkout \in Starts
    /\ content = [p \in Place |-> IF checkout[p] = None THEN "gone" ELSE "full"]
    /\ refState = [r \in Repo |-> [b \in Ref |->
          IF \E p \in Place : p.repo = r /\ checkout[p] = b THEN "ahead" ELSE "absent"]]
    /\ registry \in {NoFile, Broken}
    /\ overrides = NoEntries /\ folds = NoFolds
    /\ ignoreGlobs = AgentDirs /\ renamed = {} /\ live = None
    /\ cmd = [c \in Command |-> NoCommand]
    /\ lifecycles = 0 /\ userSteps = 0

Stage(c, place) == cmd[c].at = place
Is(c, ops) == cmd[c].op \in ops
Become(c, record) == cmd' = [cmd EXCEPT ![c] = record]
Proceed(c, place) == Become(c, [cmd[c] EXCEPT !.at = place])
Finish(c) == Become(c, NoCommand)
Failure == userSteps < MaxUserSteps /\ userSteps' = userSteps + 1

-----------------------------------------------------------------------------
\* slis create, ls (and all that lists), import, forget, rm, group, ungroup,
\* gather, scatter; ignore is one step.
Launch(c, op, s, ref, other, place) ==
    /\ Stage(c, "idle") /\ lifecycles < MaxLifecycle
    /\ lifecycles' = lifecycles + 1
    /\ Become(c, [NoCommand EXCEPT !.op = op, !.slice = s, !.ref = ref, !.other = other,
                                   !.at = place, !.todo = Repo])
    /\ UNCHANGED <<disk, files, ignoreGlobs, renamed, live, userSteps>>

LaunchCommand(c) ==
    \/ Launch(c, "ls", None, None, None, "prune")
    \/ Launch(c, "import", None, None, None, "prune")
    \/ \E b \in Ref : Launch(c, "create", NameOf[b], b, None, "create")
    \/ \E s \in Slice :
          \/ Launch(c, "forget", s, None, None, "read registry")
          \/ live # s /\ Launch(c, "rm", s, None, None, "prune")
          \/ \E t \in Slice, op \in {"group", "gather"} : <<s, t>> \in Joins /\ Launch(c, op, s, None, t, "prune")
          \/ \E op \in {"ungroup", "scatter"} : Launch(c, op, s, None, None, "read overrides")

ignoreCmd(p) ==
    /\ p \notin ignoreGlobs /\ Failure
    /\ ignoreGlobs' = ignoreGlobs \cup {p}
    /\ UNCHANGED <<disk, files, renamed, live, cmd, lifecycles>>

-----------------------------------------------------------------------------
\* Report, step by step.

Prunable(p) == checkout[p] # None /\ content[p] # "full"

\* Repositories whose listing fails are passed over, now and in the next step.
ListingFails(failing) ==
    \/ failing = {} /\ UNCHANGED userSteps
    \/ Cardinality(failing) = 1 /\ Failure

\* git's record of a managed worktree that is gone; then old empty directories.
pruneStaleManagedWorktreeMetadata(c) ==
    /\ Stage(c, "prune")
    /\ \E failing \in SUBSET Repo :
          /\ ListingFails(failing)
          /\ checkout' = [p \in Place |->
                IF underManagedTree(p) /\ content[p] = "gone" /\ p.repo \notin failing
                THEN None ELSE checkout[p]]
    /\ content' = [p \in Place |->
          IF underManagedTree(p) /\ content[p] = "empty" THEN "gone" ELSE content[p]]
    /\ Proceed(c, "collect")
    /\ UNCHANGED <<refState, files, ignoreGlobs, renamed, live, lifecycles>>

collect(c) ==
    /\ Stage(c, "collect")
    /\ \E failing \in SUBSET Repo :
          /\ ListingFails(failing)
          /\ LET listed == {p \in Place : p.repo \notin failing /\ checkout[p] # None}
                 healthy == {p \in listed : ~Prunable(p) /\ checkout[p] # Detached}
             IN  Become(c, [cmd[c] EXCEPT !.at = "load",
                    !.recs = {worktreeRec(p, checkout[p], FALSE) : p \in healthy},
                    !.detached = {p \in listed : ~Prunable(p) /\ checkout[p] = Detached},
                    !.unusable = listed \ healthy])
    /\ UNCHANGED <<disk, files, ignoreGlobs, renamed, live, lifecycles>>

\* A registry that cannot be parsed, or cannot be read this once, is moved aside
\* and the report begins anew; if that fails too, it goes on with an empty one.
RegistryLoaded(read) ==
    \/ registry.file # "broken" /\ read = registry /\ UNCHANGED <<registry, userSteps>>
    \/ registry.file = "broken" /\ read = NoFile /\ registry' = NoFile /\ UNCHANGED userSteps
    \/ registry.file = "broken" /\ read = File(NoEntries) /\ UNCHANGED registry /\ Failure
    \/ registry.file = "ok" /\ read = NoFile /\ registry' \in {NoFile, registry} /\ Failure

LoadForReport(c) ==
    /\ Stage(c, "load")
    /\ \E read \in {registry, NoFile, File(NoEntries)} :
          /\ RegistryLoaded(read)
          /\ LET restored == restoreRegisteredDetached(read.slices, cmd[c].detached)
             IN  Become(c, [cmd[c] EXCEPT !.at = "reconcile", !.read = read,
                    !.exists = (read.file = "ok"), !.recs = @ \cup restored,
                    !.unusable = @ \ {x.place : x \in restored}])
    /\ UNCHANGED <<disk, overrides, folds, ignoreGlobs, renamed, live, lifecycles>>

\* What was read is written with the command's change, whatever the file is now.
Save(c, slices) ==
    IF slices = cmd[c].read.slices /\ cmd[c].read.file = "ok"
    THEN UNCHANGED registry ELSE registry' = File(slices)

missingOrEmpty == {p \in Place : content[p] \in {"gone", "empty"}}

\* The entries are changed in memory, an empty directory of a dropped one goes.
Reconcile(c) ==
    /\ Stage(c, "reconcile")
    /\ LET was == cmd[c].read.slices
           reg == reconcileRegistry(was, cmd[c].recs, missingOrEmpty)
           dropped == {sr \in Slice \X Repo :
                          was[sr[1]][sr[2]] # None /\ reg[sr[1]][sr[2]] = None}
           emptied == {was[sr[1]][sr[2]].place : sr \in dropped}
       IN  IF cmd[c].exists /\ reg # was
           THEN /\ Become(c, [cmd[c] EXCEPT !.at = "save reconciled", !.write = reg,
                                            !.lost = missingOrEmpty])
                /\ content' = [p \in Place |->
                      IF p \in emptied /\ content[p] = "empty" THEN "gone" ELSE content[p]]
           ELSE Proceed(c, "publish") /\ UNCHANGED content
    /\ UNCHANGED <<checkout, refState, files, ignoreGlobs, renamed, live, lifecycles, userSteps>>

SaveReconciled(c) ==
    /\ Stage(c, "save reconciled")
    /\ Save(c, cmd[c].write)
    /\ Become(c, [cmd[c] EXCEPT !.at = "publish", !.read = File(cmd[c].write),
                                !.write = NoEntries, !.lost = {}])
    /\ UNCHANGED <<disk, overrides, folds, ignoreGlobs, renamed, live, lifecycles, userSteps>>

Report(c) ==
    /\ Stage(c, "publish")
    /\ LET was == cmd[c].read.slices
           result == Result(cmd[c].recs, cmd[c].unusable, was, cmd[c].exists, ignoreGlobs)
           reg == registerManagedSlices(IF cmd[c].exists THEN was ELSE result.slices, result.slices)
       IN  /\ Save(c, reg)
           /\ Become(c, [cmd[c] EXCEPT !.at = "reported",
                 !.report = [slices |-> result.slices, skipped |-> result.skipped,
                             candidates |-> result.candidates,
                             missing |-> missingMembers(reg, cmd[c].recs)]])
    /\ UNCHANGED <<disk, overrides, folds, ignoreGlobs, renamed, live, lifecycles, userSteps>>

Resolved(c) == Resolve(cmd[c].report.slices, overrides, folds, renamed)

\* ls prints them with what was skipped, the candidates and the missing; it
\* writes nothing.
ListSlices(c) ==
    /\ Stage(c, "reported") /\ Is(c, {"ls"})
    /\ Finish(c)
    /\ UNCHANGED <<disk, files, ignoreGlobs, renamed, live, lifecycles, userSteps>>

\* rm works on its slice as the overrides and the folds make it.
FindSlice(c) ==
    /\ Stage(c, "reported") /\ Is(c, {"rm"})
    /\ LET members == {r \in Repo : Resolved(c)[cmd[c].slice][r] # None}
       IN  IF members = {} THEN Finish(c)
           ELSE Become(c, [NoCommand EXCEPT !.op = "rm", !.slice = cmd[c].slice, !.at = "live check",
                              !.report.slices[cmd[c].slice] = Resolved(c)[cmd[c].slice],
                              !.todo = members])
    /\ UNCHANGED <<disk, files, ignoreGlobs, renamed, live, lifecycles, userSteps>>

\* import of one candidate or of all, registered under the names of their branches.
importCmd(c) ==
    /\ Stage(c, "reported") /\ Is(c, {"import"})
    /\ IF cmd[c].report.candidates = {} THEN Finish(c)
       ELSE \E toImport \in {{m} : m \in cmd[c].report.candidates} \cup {cmd[c].report.candidates} :
               Become(c, [NoCommand EXCEPT !.op = "import", !.at = "read registry", !.done = toImport])
    /\ UNCHANGED <<disk, files, ignoreGlobs, renamed, live, lifecycles, userSteps>>

-----------------------------------------------------------------------------
\* The registry is read, changed in memory and written back.

\* The members a command registers, last of all those of one slice and repository.
Registering(c, s, r) == {m \in cmd[c].done : m.place.repo = r /\ s = NameOf[m.ref]}

LoadRegistry(c) ==
    /\ Stage(c, "read registry")
    /\ \/ registry.file = "broken" /\ Finish(c) /\ UNCHANGED userSteps
       \/ registry.file = "ok" /\ Finish(c) /\ Failure
       \/ registry.file = "none" /\ Is(c, {"forget", "rm"}) /\ Finish(c) /\ UNCHANGED userSteps
       \/ /\ UNCHANGED userSteps
          /\ registry.file = "ok" \/ (registry.file = "none" /\ Is(c, {"create", "import"}))
          /\ Become(c, [cmd[c] EXCEPT !.at = "write registry", !.read = registry,
                !.write = [s \in Slice |-> [r \in Repo |->
                   IF Is(c, {"forget", "rm"})
                   THEN IF s = cmd[c].slice THEN None ELSE registry.slices[s][r]
                   ELSE IF Registering(c, s, r) # {} THEN CHOOSE m \in Registering(c, s, r) : TRUE
                   ELSE registry.slices[s][r]]]])
    /\ UNCHANGED <<disk, files, ignoreGlobs, renamed, live, lifecycles>>

SaveRegistry(c) ==
    /\ Stage(c, "write registry")
    /\ Save(c, cmd[c].write)
    /\ Finish(c)
    /\ UNCHANGED <<disk, overrides, folds, ignoreGlobs, renamed, live, lifecycles, userSteps>>

-----------------------------------------------------------------------------
\* create: per repository a worktree on the branch, which may have to be made or,
\* when all of it is in trunk, to be moved there.  git refuses a branch that is
\* checked out elsewhere and a directory that holds something.
createFreshWorktree(c) ==
    /\ Stage(c, "create") /\ cmd[c].todo # {}
    /\ \E r \in cmd[c].todo :
          LET b == cmd[c].ref
              places == {p \in Place : p.repo = r /\ p.tree = cmd[c].slice}
              elsewhere == \E p \in Place : p.repo = r /\ checkout[p] = b
              Next == [cmd[c] EXCEPT !.todo = @ \ {r}]
          IN  \/ \E p \in places :
                    /\ \/ checkout[p] = b /\ content[p] = "full" /\ UNCHANGED disk
                       \/ /\ ~elsewhere /\ checkout[p] = None /\ content[p] # "full"
                          /\ checkout' = [checkout EXCEPT ![p] = b]
                          /\ content' = [content EXCEPT ![p] = "full"]
                          /\ refState' = [refState EXCEPT ![r][b] = IF @ = "absent" THEN "merged" ELSE @]
                    /\ Become(c, [Next EXCEPT !.done = @ \cup {RegistryMember(p, b)}])
                    /\ UNCHANGED userSteps
              \/ /\ \A p \in places :
                       ~(checkout[p] = b /\ content[p] = "full")
                       /\ (elsewhere \/ checkout[p] # None \/ content[p] = "full")
                 /\ cmd' = [cmd EXCEPT ![c] = Next] /\ UNCHANGED <<disk, userSteps>>
              \/ Failure /\ cmd' = [cmd EXCEPT ![c] = Next] /\ UNCHANGED disk
    /\ UNCHANGED <<files, ignoreGlobs, renamed, live, lifecycles>>

\* Only what was made is registered.
CreatedAll(c) ==
    /\ Stage(c, "create") /\ cmd[c].todo = {}
    /\ IF cmd[c].done = {} THEN Finish(c) ELSE Proceed(c, "read registry")
    /\ UNCHANGED <<disk, files, ignoreGlobs, renamed, live, lifecycles, userSteps>>

-----------------------------------------------------------------------------
\* rm: the slice as it was resolved, unless it is live by name.
RemoveUnlessLive(c) ==
    /\ Stage(c, "live check")
    /\ IF live = cmd[c].slice THEN Finish(c) ELSE Proceed(c, "remove")
    /\ UNCHANGED <<disk, files, ignoreGlobs, renamed, live, lifecycles, userSteps>>

\* git refuses a worktree with work in it; the branch goes only when it is merged.
RemoveWorktree(c) ==
    /\ Stage(c, "remove") /\ cmd[c].todo # {}
    /\ \E r \in cmd[c].todo :
          LET m == cmd[c].report.slices[cmd[c].slice][r]
              p == m.place
              away == checkout[p] = None /\ content[p] = "gone"
              strange == content[p] # "gone" /\ (checkout[p] = None \/ content[p] # "full")
          IN  \/ /\ ~strange
                 /\ checkout' = [checkout EXCEPT ![p] = None]
                 /\ content' = [content EXCEPT ![p] = "gone"]
                 /\ \/ /\ refState[r][m.ref] = "merged"
                       /\ \A q \in Place \ {p} : q.repo = r => checkout[q] # m.ref
                       /\ refState' = [refState EXCEPT ![r][m.ref] = "absent"]
                    \/ UNCHANGED refState
                 /\ Become(c, [cmd[c] EXCEPT !.todo = @ \ {r}, !.done = @ \cup {m}])
                 /\ UNCHANGED userSteps
              \/ /\ strange /\ Become(c, [cmd[c] EXCEPT !.todo = @ \ {r}])
                 /\ UNCHANGED <<disk, userSteps>>
              \/ /\ ~away /\ Failure /\ Become(c, [cmd[c] EXCEPT !.todo = @ \ {r}])
                 /\ UNCHANGED disk
    /\ UNCHANGED <<files, ignoreGlobs, renamed, live, lifecycles>>

fullyRemoved(c) ==
    \A r \in Repo : LET m == cmd[c].report.slices[cmd[c].slice][r]
                    IN  m # None => m \in cmd[c].done

\* With the worktrees gone the slice's session is killed; when that fails,
\* nothing is cleared.
KillSession(c) ==
    /\ Stage(c, "remove") /\ cmd[c].todo = {}
    /\ \/ Proceed(c, "read overrides") /\ UNCHANGED userSteps
       \/ fullyRemoved(c) /\ Failure /\ Finish(c)
    /\ UNCHANGED <<disk, files, ignoreGlobs, renamed, live, lifecycles>>

-----------------------------------------------------------------------------
\* The overrides file is read whole, edited and written back.

Afterwards(c) == IF Is(c, {"rm"}) /\ fullyRemoved(c) THEN "read registry" ELSE "idle"

GroupMembers(c) ==
    LET slices == Apply(cmd[c].report.slices, overrides)
    IN  [r \in Repo |-> slices[cmd[c].other][r]]

Edit(c, of, gathered) ==
    Become(c, [NoCommand EXCEPT !.op = cmd[c].op, !.slice = cmd[c].slice, !.done = cmd[c].done,
                  !.report.slices = IF Is(c, {"rm"}) THEN cmd[c].report.slices ELSE NoEntries,
                  !.at = "write overrides", !.write = of, !.folds = gathered])

\* group: the members of another slice, beside those the group has.
groupCmd(c) ==
    /\ Stage(c, "reported") /\ Is(c, {"group"})
    /\ IF \A r \in Repo : GroupMembers(c)[r] = None THEN Finish(c)
       ELSE Edit(c, [overrides EXCEPT ![cmd[c].slice] = [r \in Repo |->
                        IF GroupMembers(c)[r] # None THEN GroupMembers(c)[r].ref ELSE @[r]]], folds)
    /\ UNCHANGED <<disk, files, ignoreGlobs, renamed, live, lifecycles, userSteps>>

\* gather: per repository the tip of the stack its member is on stands for all of it.
gatherCmd(c) ==
    /\ Stage(c, "reported") /\ Is(c, {"gather"})
    /\ LET s == cmd[c].slice
           of == GroupMembers(c)
           On(r) == {g \in Gathered : g.repo = r /\ of[r] # None /\ of[r].ref \in g.folded \cup {g.tip}}
           stack == [r \in {q \in Repo : On(q) # {}} |-> CHOOSE g \in On(r) : TRUE]
       IN  IF DOMAIN stack = {} THEN Finish(c)
           ELSE Edit(c, [overrides EXCEPT ![s] = [r \in Repo |-> IF r \in DOMAIN stack THEN stack[r].tip ELSE @[r]]],
                        [folds EXCEPT ![s] = [r \in Repo |-> IF r \in DOMAIN stack THEN stack[r].folded ELSE @[r]]])
    /\ UNCHANGED <<disk, files, ignoreGlobs, renamed, live, lifecycles, userSteps>>

ungroupCmd(c) ==
    /\ Stage(c, "read overrides") /\ Is(c, {"ungroup"})
    /\ LET s == cmd[c].slice
       IN  IF overrides[s] = NoEntries[s] THEN Finish(c)
           ELSE Edit(c, [overrides EXCEPT ![s] = NoEntries[s]], folds)
    /\ UNCHANGED <<disk, files, ignoreGlobs, renamed, live, lifecycles, userSteps>>

scatterCmd(c) ==
    /\ Stage(c, "read overrides") /\ Is(c, {"scatter"})
    /\ LET s == cmd[c].slice
       IN  IF overrides[s] = NoEntries[s] /\ folds[s] = NoFolds[s] THEN Finish(c)
           ELSE Edit(c, [overrides EXCEPT ![s] = NoEntries[s]], [folds EXCEPT ![s] = NoFolds[s]])
    /\ UNCHANGED <<disk, files, ignoreGlobs, renamed, live, lifecycles, userSteps>>

\* rm drops the override of its slice, not its folds; the registry's entry when
\* every worktree is gone.
clearSliceState(c) ==
    /\ Stage(c, "read overrides") /\ Is(c, {"rm"})
    /\ LET s == cmd[c].slice
       IN  IF overrides[s] # NoEntries[s] THEN Edit(c, [overrides EXCEPT ![s] = NoEntries[s]], folds)
           ELSE IF Afterwards(c) = "idle" THEN Finish(c) ELSE Proceed(c, Afterwards(c))
    /\ UNCHANGED <<disk, files, ignoreGlobs, renamed, live, lifecycles, userSteps>>

\* Only gather and scatter write the folds; the others keep what the file has.
SaveOverrides(c) ==
    /\ Stage(c, "write overrides")
    /\ overrides' = cmd[c].write
    /\ folds' = IF Is(c, {"gather", "scatter"}) THEN cmd[c].folds ELSE folds
    /\ IF Afterwards(c) = "idle" THEN Finish(c) ELSE Proceed(c, Afterwards(c))
    /\ UNCHANGED <<disk, registry, ignoreGlobs, renamed, live, lifecycles, userSteps>>

-----------------------------------------------------------------------------
\* Users work with git, disks go away, slices are activated.

UserChecksOut(p, b) ==
    /\ checkout[p] # None /\ content[p] = "full" /\ checkout[p] # b
    /\ \A q \in Place : q.repo = p.repo => checkout[q] # b
    /\ checkout' = [checkout EXCEPT ![p] = b]
    /\ refState' = IF b = Detached \/ refState[p.repo][b] # "absent" THEN refState
                   ELSE [refState EXCEPT ![p.repo][b] = "merged"]
    /\ UNCHANGED <<content, renamed>>

UserRenames(p, b) ==
    /\ checkout[p] \in Ref /\ content[p] = "full" /\ refState[p.repo][b] = "absent"
    /\ checkout' = [checkout EXCEPT ![p] = b]
    /\ refState' = [refState EXCEPT ![p.repo][b] = refState[p.repo][checkout[p]],
                                    ![p.repo][checkout[p]] = "absent"]
    /\ renamed' = renamed \cup {<<checkout[p], b>>}
    /\ UNCHANGED content

\* git worktree add, and the loss of a directory or of what it holds.
UserAdds(p, b) ==
    /\ ~underManagedTree(p) /\ checkout[p] = None /\ content[p] = "gone"
    /\ \A q \in Place : q.repo = p.repo => checkout[q] # b
    /\ checkout' = [checkout EXCEPT ![p] = b] /\ content' = [content EXCEPT ![p] = "full"]
    /\ refState' = [refState EXCEPT ![p.repo][b] = "ahead"]
    /\ UNCHANGED renamed

UserLoses(p) ==
    /\ content[p] = "full"
    /\ \E what \in {"gone", "fresh"} : content' = [content EXCEPT ![p] = what]
    /\ UNCHANGED <<checkout, refState, renamed>>

UserStep ==
    /\ Failure
    /\ \/ \E p \in Place, b \in Ref : UserChecksOut(p, b) \/ UserRenames(p, b) \/ UserAdds(p, b)
       \/ \E p \in Place : UserChecksOut(p, Detached) \/ UserLoses(p)
    /\ UNCHANGED <<files, ignoreGlobs, live, cmd, lifecycles>>

\* Five minutes pass for an empty directory.
GracePasses(p) ==
    /\ content[p] = "fresh"
    /\ content' = [content EXCEPT ![p] = "empty"]
    /\ UNCHANGED <<checkout, refState, files, ignoreGlobs, renamed, live, cmd, lifecycles,
                   userSteps>>

Activated(s) ==
    /\ Failure /\ live # s
    /\ live' = s
    /\ UNCHANGED <<disk, files, ignoreGlobs, renamed, cmd, lifecycles>>

-----------------------------------------------------------------------------
LifecycleNext ==
    \/ \E c \in Command :
          \/ LaunchCommand(c) \/ pruneStaleManagedWorktreeMetadata(c) \/ collect(c)
          \/ LoadForReport(c) \/ Reconcile(c) \/ SaveReconciled(c) \/ Report(c)
          \/ ListSlices(c) \/ FindSlice(c)
          \/ importCmd(c) \/ LoadRegistry(c) \/ SaveRegistry(c)
          \/ createFreshWorktree(c) \/ CreatedAll(c)
          \/ RemoveUnlessLive(c) \/ RemoveWorktree(c) \/ KillSession(c)
          \/ groupCmd(c) \/ gatherCmd(c) \/ ungroupCmd(c) \/ scatterCmd(c) \/ clearSliceState(c)
          \/ SaveOverrides(c)
    \/ \E p \in Place : ignoreCmd(p) \/ GracePasses(p)
    \/ UserStep
    \/ \E s \in Slice : Activated(s)

LifecycleSpec == LifecycleInit /\ [][LifecycleNext]_lifecycleVars

-----------------------------------------------------------------------------
\* Every variable has its type, and git checks a branch out once.
LifecycleTypeOK ==
    /\ checkout \in [Place -> Ref \cup {None, Detached}]
    /\ content \in [Place -> {"full", "fresh", "empty", "gone"}]
    /\ refState \in [Repo -> [Ref -> {"absent", "merged", "ahead"}]]
    /\ \A p, q \in Place : p.repo = q.repo /\ p # q /\ checkout[p] \in Ref => checkout[p] # checkout[q]
    /\ registry.file \in {"none", "broken", "ok"}
    /\ Entries(registry.slices) \subseteq [place : Place, ref : Ref]
    /\ Entries(overrides) \subseteq Ref
    /\ lifecycles \in 0 .. MaxLifecycle /\ userSteps \in 0 .. MaxUserSteps

\* A registration goes only by a command that is forget or rm of its slice, that
\* has found its managed directory missing or empty, that cannot read the file
\* (Report then moves it aside), or that writes back what the file no longer is.
RegistrationIsKept ==
    [][\A s \in Slice, r \in Repo :
          LET m == registry.slices[s][r]
          IN  registry.file = "ok" /\ m # None /\ registry'.slices[s][r] = None =>
                 \E c \in Command : cmd'[c] # cmd[c] /\
                    \/ Is(c, {"forget", "rm"}) /\ cmd[c].slice = s
                    \/ underManagedTree(m.place) /\ m.place \in cmd[c].lost
                    \/ registry' = NoFile /\ userSteps' = userSteps + 1
                    \/ cmd[c].read # registry]_lifecycleVars

\* The slices of a worktree: its branch is that of a worktree whose directory or
\* whose entry in the registry says so.
SlicesOf(x, recs, reg) ==
    {s \in Slice : \E y \in recs :
        /\ y.place.repo = x.place.repo /\ y.ref = x.ref
        /\ \/ y.place.tree = s
           \/ LET m == reg[s][y.place.repo]
              IN  m # None /\ (m.place = y.place \/ m.ref = y.ref)}

\* No healthy worktree vanishes from a report without explanation: it is in a
\* slice, skipped or a candidate; but for one that gave way, in a slice of its
\* own, to another worktree of its repository whose branch bears the slice's name.
NothingVanishes ==
    \A c \in Command : Stage(c, "reported") =>
        LET report == cmd[c].report
        IN  \A x \in cmd[c].recs :
               \/ \E s \in Slice : report.slices[s][x.place.repo] = member(x)
               \/ x.place \in report.skipped
               \/ member(x) \in report.candidates
               \/ \E s \in SlicesOf(x, cmd[c].recs, cmd[c].read.slices) :
                     LET m == report.slices[s][x.place.repo]
                     IN  m # None /\ m.place # x.place /\ NameOf[m.ref] = s

\* A registered worktree stays in its slice whatever branch it holds, and
\* whatever the listing of the other repositories does; but for one that gave way
\* to another worktree of its repository with a name that became the same.
RegisteredKeepsItsSlice ==
    \A c \in Command : Stage(c, "reported") /\ cmd[c].exists =>
        \A s \in Slice, r \in Repo :
            LET m == cmd[c].read.slices[s][r]
                shown == cmd[c].report.slices[s][r]
            IN  m # None /\ (\E x \in cmd[c].recs : x.place = m.place) =>
                   \/ shown # None /\ (shown.place = m.place \/ NameOf[shown.ref] = s)
                   \/ m.place \in cmd[c].report.skipped

\* What a command reports is what is there: every worktree is accounted for, and a
\* registered one in the slice it was registered to.
ReportsAreFaithful == NothingVanishes /\ RegisteredKeepsItsSlice
=============================================================================
