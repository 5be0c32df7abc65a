------------------------------ MODULE SwapEngine ------------------------------
(***************************************************************************)
(* The swap engine of slis (internal/swap): the commands that put the      *)
(* primary checkout of every repository of a slice on a temporary branch   *)
(* (activate), keep it there in step with the slice (refresh, live-sync),  *)
(* and give it back (deactivate, deactivate --force), with the journal     *)
(* that lets an interrupted command be undone.                             *)
(*                                                                         *)
(* One command runs at a time.  It advances by one mutating git command or *)
(* one journal write per step; the reads that guard a mutation belong to   *)
(* its step.  Between two steps the command may be killed (Crash), a git   *)
(* command or a journal write may fail, and, when Racing, the user works   *)
(* in the primary checkout.                                                *)
(*                                                                         *)
(* Content is abstracted to Items, the user's pieces of uncommitted work:  *)
(* an item sits in a working tree, in a stash entry or in a commit.        *)
(***************************************************************************)
EXTENDS Naturals, FiniteSets

CONSTANTS
    Repo,            \* the repositories of the one slice
    Mirrored,        \* those whose member has a worktree path (live-mirrored)
    Work,            \* work the user may do in a primary checkout
    SrcWork,         \* uncommitted work the user may have in a slice worktree
    MaxTip,          \* bound: the slice branch moves among the tips 0 to MaxTip
    Ancestors,       \* the tips each tip descends from, itself one of them
    MaxStash,        \* bound: auto-stashes pushed per repository
    MaxFaults,       \* bound: crashes and failures of git or of a save
    MaxUserActs,     \* bound: actions of the user in the primaries
    MaxSrcActs,      \* bound: actions of the user in the slice worktrees
    Racing,          \* may the user touch a primary while a command runs?
    DetachedCommits, \* may the user commit on a detached HEAD while swapped?
    None             \* no commit, entry, snapshot or repository

Item == Work \cup SrcWork
Live == {"live", "recovered"}
Branch == {"trunk", "other", "slice", "rescue"} \cup Live
Commit == [line : 0..MaxTip, own : SUBSET Item]
Snapshot == [at : Commit, items : SUBSET Item]
\* RepoState without Branch, which live-sync takes from the worktree
\* (live.go:258-260): worktrees stay on their slice's branch here.
Entry == [prior : Branch \cup {"detached"}, priorAt : Commit,
          stash : 0..MaxStash, target : Commit, temp : Live,
          mirror : Snapshot \cup {None}]
Origin == [head : Branch \cup {"detached"}, at : Commit \cup {None},
           items : SUBSET Item, live : SUBSET Live]

ASSUME ConstantsAssumption ==
    /\ Mirrored \subseteq Repo
    /\ MaxTip \in Nat \ {0}
    /\ MaxStash \in Nat
    /\ MaxFaults \in Nat
    /\ MaxUserActs \in Nat
    /\ MaxSrcActs \in Nat
    /\ Work \cap SrcWork = {}
    /\ Racing \in BOOLEAN
    /\ DetachedCommits \in BOOLEAN

\* History is a partial order: a restack or an amend makes a tip that does not
\* descend from the one before it.
ASSUME AncestorsAssumption ==
    /\ Ancestors \in [0..MaxTip -> SUBSET (0..MaxTip)]
    /\ \A c \in 0..MaxTip :
         /\ c \in Ancestors[c]
         /\ \A b \in Ancestors[c] :
              Ancestors[b] \subseteq Ancestors[c] /\ (b # c => c \notin Ancestors[b])

ASSUME RepoAssumption == IsFiniteSet(Repo)

ASSUME NoneAssumption ==
    /\ None \notin Commit
    /\ None \notin Entry
    /\ None \notin Snapshot
    /\ None \notin Repo
    /\ None \notin Origin

VARIABLES
    head,     \* the branch a primary is on, or "detached"
    at,       \* the commit of a detached HEAD
    refs,     \* the commit each branch names, None when it does not exist
    wt,       \* the items uncommitted in the primary
    stash,    \* stash entries: the items of each, {} once popped or dropped
    pushed,   \* how many auto-stashes were pushed
    srcWt     \* the items uncommitted in the slice worktree
VARIABLES
    journal,  \* active.json: an entry per swapped repository, or None
    archived  \* the repositories of an activation-recovery record
VARIABLES
    cmd,      \* the running command: "idle" when there is none
    pc,       \* where it is
    cur,      \* the repository it is working on
    todo,     \* the repositories its current loop has left
    mem,      \* its copy of the journal (j.Repos)
    draft,    \* the RepoState activateRepo is building
    failed,   \* repositories deactivateRepo returned an error for
    restored, \* alreadyRestored of Deactivate
    srcs,     \* tips (refresh) or worktree snapshots (sync) read up front
    opt,      \* activate: the live branch and the --stash flag
    mirroring \* is a live-sync process up?
VARIABLES
    faults,   \* crashes and failures so far
    acts,     \* actions of the user in the primaries so far
    srcActs,  \* actions of the user in the worktrees so far
    made,     \* every item the user ever made in a primary
    rewound,  \* repositories a refresh recorded a target of that the live branch
              \* is ahead of, with no commit of the user's
    origin    \* what the primaries were when the command started

git == <<head, at, refs, wt, stash, pushed>>
disk == <<journal, archived>>
loop == <<cur, todo, mem, draft, failed, restored, srcs, opt, mirroring>>
ghosts == <<faults, acts, srcActs, made, rewound, origin>>
vars == <<head, at, refs, wt, stash, pushed, srcWt, journal, archived, cmd, pc,
          cur, todo, mem, draft, failed, restored, srcs, opt, mirroring,
          faults, acts, srcActs, made, rewound, origin>>

Empty == [r \in Repo |-> None]
NoOpt == [live |-> "live", stash |-> FALSE]
Entries(j) == {r \in Repo : j[r] # None}
OnlyNone(j, S) == Empty  \* faulty Only: a journal cleared with failures in it
Only(j, S) == [r \in Repo |-> IF r \in S THEN j[r] ELSE None]

-----------------------------------------------------------------------------
(* What git answers and does in one primary checkout.                      *)

\* Faulty IsAncestor: commits the user made on c are not looked at.
IsAncestorByAge(c, d) == c.line \in Ancestors[d.line]
\* c is an ancestor of d, or d itself.
IsAncestor(c, d) ==
    IF c.own = {} THEN c.line \in Ancestors[d.line]
    ELSE c.line = d.line /\ c.own \subseteq d.own

HeadCommit(r) == IF head[r] = "detached" THEN at[r] ELSE refs[r][head[r]]
CaptureSnapshot(r) == [at |-> HeadCommit(r), items |-> wt[r]]
IsDirty(r) == wt[r] # {}
Exists(r, b) == refs[r][b] # None

SwitchTo(r, b) ==
    /\ head' = [head EXCEPT ![r] = b]
    /\ at' = [at EXCEPT ![r] = None]

DetachAt(r, c) ==
    /\ head' = [head EXCEPT ![r] = "detached"]
    /\ at' = [at EXCEPT ![r] = c]

\* Move what HEAD names (its branch, or the detached HEAD) to commit c.
ResetHead(r, c) ==
    IF head[r] = "detached"
    THEN at' = [at EXCEPT ![r] = c] /\ UNCHANGED refs
    ELSE refs' = [refs EXCEPT ![r][head[r]] = c] /\ UNCHANGED at

Fault == faults < MaxFaults /\ faults' = faults + 1
NoFault == UNCHANGED faults

-----------------------------------------------------------------------------
(* The life of a command.                                                  *)

\* The interface stops live-sync before it runs any other command.
Begin(c, p, j, S) ==
    /\ mirroring' = (c = "sync")
    /\ cmd' = c /\ pc' = p /\ mem' = j /\ todo' = S
    /\ cur' = None /\ draft' = None /\ failed' = {}
    /\ origin' = [r \in Repo |->
                    [head |-> head[r], at |-> HeadCommit(r), items |-> wt[r],
                     live |-> {b \in Live : Exists(r, b)}]]

\* The memory of a command that is over.
EndOfCommand ==
    /\ cmd' = "idle" /\ pc' = "idle" /\ mem' = Empty /\ todo' = {}
    /\ cur' = None /\ draft' = None /\ failed' = {} /\ restored' = {}
    /\ srcs' = Empty /\ opt' = NoOpt /\ origin' = Empty

\* The process is gone.
Quit == EndOfCommand /\ mirroring' = FALSE

\* Killed between two steps.
Crash ==
    /\ cmd # "idle" /\ Fault /\ Quit
    /\ UNCHANGED <<git, srcWt, disk, acts, srcActs, made, rewound>>

\* Start undoing the repositories in S; activate's rollback, or the loop of
\* Deactivate.
Unwind(c, j, S) ==
    /\ cmd' = c /\ pc' = "repo" /\ mem' = j /\ todo' = S
    /\ cur' = None /\ draft' = None /\ failed' = {}
    /\ UNCHANGED <<restored, srcs, opt, mirroring, origin>>

-----------------------------------------------------------------------------
(* slis activate <slice> [--stash]                                         *)

\* Refused while a journal exists.  The live branch is a fresh name when a
\* recovery record of the slice exists, so that record's branch is not reused.
StartActivate(stashFlag) ==
    /\ cmd = "idle" /\ Entries(journal) = {}
    /\ stashFlag => \A r \in Repo : pushed[r] < MaxStash
    /\ \E b \in Live :
         /\ IF archived = {} THEN b = "live"
            ELSE b # "live" /\ \A r \in Repo : ~Exists(r, b)
         /\ opt' = [live |-> b, stash |-> stashFlag]
    /\ Begin("activate", "repo", Empty, Repo)
    /\ UNCHANGED <<git, srcWt, disk, restored, srcs, faults, acts, srcActs, made, rewound>>

\* activateRepo, up to and including the auto-stash: read the prior branch and
\* the target, then push and pin the stash of a dirty primary.
ActivateRepo(r) ==
    /\ cmd = "activate" /\ pc = "repo" /\ r \in todo
    /\ ~Exists(r, opt.live)
    /\ IsDirty(r) => opt.stash
    /\ cur' = r /\ pc' = "switch"
    /\ draft' = [prior |-> head[r], priorAt |-> HeadCommit(r),
                 stash |-> IF IsDirty(r) THEN pushed[r] + 1 ELSE 0,
                 target |-> refs[r]["slice"], temp |-> opt.live,
                 mirror |-> None]
    /\ IF IsDirty(r)
       THEN /\ pushed' = [pushed EXCEPT ![r] = @ + 1]
            /\ stash' = [stash EXCEPT ![r][pushed[r] + 1] = wt[r]]
            /\ wt' = [wt EXCEPT ![r] = {}]
       ELSE UNCHANGED <<pushed, stash, wt>>
    /\ UNCHANGED <<head, at, refs, srcWt, disk, cmd, todo, mem, failed,
                   restored, srcs, opt, mirroring, ghosts>>

\* activateRepo refuses before it changes anything; every repository already
\* activated is rolled back.
ActivateRefused(r) ==
    /\ cmd = "activate" /\ pc = "repo" /\ r \in todo
    /\ \/ (Exists(r, opt.live) \/ (IsDirty(r) /\ ~opt.stash)) /\ NoFault
       \/ Fault
    /\ Unwind("rollback", mem, Entries(mem))
    /\ UNCHANGED <<git, srcWt, disk, acts, srcActs, made, rewound>>

\* The auto-stash is pushed but cannot be pinned to its commit: the work stays
\* in a stash entry no journal will name.
StashNotPinned(r) ==
    /\ cmd = "activate" /\ pc = "repo" /\ r \in todo
    /\ ~Exists(r, opt.live) /\ IsDirty(r) /\ opt.stash /\ Fault
    /\ pushed' = [pushed EXCEPT ![r] = @ + 1]
    /\ stash' = [stash EXCEPT ![r][pushed[r] + 1] = wt[r]]
    /\ wt' = [wt EXCEPT ![r] = {}]
    /\ Unwind("rollback", mem, Entries(mem))
    /\ UNCHANGED <<head, at, refs, srcWt, disk, acts, srcActs, made, rewound>>

\* git switch -c <temp> <target>; without a worktree to mirror the repository
\* is done.
SwitchToLive ==
    /\ pc = "switch"
    /\ ~Exists(cur, draft.temp)
    /\ refs' = [refs EXCEPT ![cur][draft.temp] = draft.target]
    /\ SwitchTo(cur, draft.temp)
    /\ IF cur \in Mirrored
       THEN pc' = "baseline" /\ UNCHANGED <<mem, draft>>
       ELSE /\ pc' = "journal" /\ draft' = None
            /\ mem' = [mem EXCEPT ![cur] = draft]
    /\ UNCHANGED <<wt, stash, pushed, srcWt, disk, cmd, cur, todo, failed,
                   restored, srcs, opt, mirroring, ghosts>>

\* The switch fails: pop the stash just pushed back, or leave it to the user
\* when that fails too.
SwitchToLiveFails ==
    /\ pc = "switch" /\ Fault
    /\ \/ /\ draft.stash # 0
          /\ wt' = [wt EXCEPT ![cur] = @ \cup stash[cur][draft.stash]]
          /\ stash' = [stash EXCEPT ![cur][draft.stash] = {}]
       \/ UNCHANGED <<wt, stash>>
    /\ Unwind("rollback", mem, Entries(mem))
    /\ UNCHANGED <<head, at, refs, pushed, srcWt, disk, acts, srcActs, made, rewound>>

\* The mirror baseline: what the primary holds now.
CaptureBaseline ==
    /\ pc = "baseline"
    /\ mem' = [mem EXCEPT ![cur] = [draft EXCEPT !.mirror = CaptureSnapshot(cur)]]
    /\ pc' = "journal" /\ draft' = None
    /\ UNCHANGED <<git, srcWt, disk, cmd, cur, todo, failed, restored, srcs,
                   opt, mirroring, ghosts>>

\* Capturing fails: activateRepo undoes its own switch first.
CaptureBaselineFails ==
    /\ pc = "baseline" /\ Fault
    /\ Unwind("undo", [mem EXCEPT ![cur] = draft], {cur})
    /\ UNCHANGED <<git, srcWt, disk, acts, srcActs, made, rewound>>

\* The incremental journal write after each repository.
JournalActivated ==
    /\ cmd = "activate" /\ pc = "journal"
    /\ journal' = mem /\ archived' = archived
    /\ pc' = "repo" /\ todo' = todo \ {cur} /\ cur' = None
    /\ UNCHANGED <<git, srcWt, cmd, mem, draft, failed, restored, srcs, opt,
                   mirroring, ghosts>>

JournalActivatedFails ==
    /\ cmd = "activate" /\ pc = "journal" /\ Fault
    /\ Unwind("rollback", mem, Entries(mem))
    /\ UNCHANGED <<git, srcWt, disk, acts, srcActs, made, rewound>>

\* The final write after dep-reconcile, which changes no state kept here.
FinishActivate ==
    /\ cmd = "activate" /\ pc = "repo" /\ todo = {}
    /\ \/ journal' = mem /\ NoFault
       \/ UNCHANGED journal /\ Fault
    /\ Quit
    /\ UNCHANGED <<git, srcWt, archived, acts, srcActs, made, rewound>>

-----------------------------------------------------------------------------
(* deactivateRepo: the inverse of activateRepo, for the unwinding commands *)
(* "undo", "rollback", "deactivate" and "force".                           *)

Unwinding == cmd \in {"undo", "rollback", "deactivate", "force"}
ClearsJournal == cmd \in {"rollback", "deactivate", "force"}

\* Faulty RepoFails: a refused repository is tried again, or is not recorded.
RepoRetried(r) ==
    /\ failed' = failed \cup {r} /\ UNCHANGED todo
    /\ pc' = "repo" /\ cur' = None
RepoForgotten(r) ==
    /\ todo' = todo \ {r} /\ pc' = "repo" /\ cur' = None /\ UNCHANGED failed
RepoFails(r) ==
    /\ failed' = failed \cup {r} /\ todo' = todo \ {r}
    /\ pc' = "repo" /\ cur' = None
RepoDone(r) ==
    /\ todo' = todo \ {r} /\ pc' = "repo" /\ cur' = None /\ UNCHANGED failed
RepoGoesOn(r, step) ==
    /\ pc' = step /\ cur' = r /\ UNCHANGED <<todo, failed>>

\* restorePriorBranch: the prior branch, the prior commit when that branch
\* cannot be switched to, or the detached HEAD it was.
RestorePriorBranch(r) ==
    LET e == mem[r] IN
    \/ /\ e.prior # "detached" /\ Exists(r, e.prior) /\ NoFault
       /\ SwitchTo(r, e.prior)
    \/ /\ e.prior # "detached" /\ Exists(r, e.prior) /\ Fault
       /\ DetachAt(r, e.priorAt)
    \/ /\ e.prior = "detached" /\ NoFault
       /\ DetachAt(r, e.priorAt)

PriorBranchGone(r) == mem[r].prior # "detached" /\ ~Exists(r, mem[r].prior)

\* What is verified before commits on the temp branch are moved aside: that
\* the primary can then go back, and that the rescue branch is free.
\* RescueUnchecked, a faulty CanRescue, looks at the rescue branch only.
RescueUnchecked(r) == ~Exists(r, "rescue")
CanRescue(r) == ~PriorBranchGone(r) /\ ~Exists(r, "rescue")

\* deleteTempBranchIfAtSHA: git branch -D, its tip verified just before.  Two
\* faulty variants: the tip is not verified, the branch is not deleted.
DeleteTempBranchUnverified(r) ==
    /\ head[r] # mem[r].temp /\ Exists(r, mem[r].temp)
    /\ refs' = [refs EXCEPT ![r][mem[r].temp] = None]
LeaveTempBranch(r) ==
    /\ refs[r][mem[r].temp] = mem[r].target
    /\ head[r] # mem[r].temp
    /\ UNCHANGED refs
DeleteTempBranchIfAtTarget(r) ==
    /\ refs[r][mem[r].temp] = mem[r].target
    /\ head[r] # mem[r].temp
    /\ refs' = [refs EXCEPT ![r][mem[r].temp] = None]

DeactivateRepo(r) ==
    LET e == mem[r]
        force == cmd = "force"
    IN
    /\ Unwinding /\ pc = "repo" /\ r \in todo
    /\ \/ \* already on the prior branch, clean: only the temp branch is left
          /\ head[r] = e.prior /\ ~IsDirty(r) /\ NoFault
          /\ DeleteTempBranchIfAtTarget(r)
          /\ RepoGoesOn(r, "pop") /\ UNCHANGED <<head, at>>
       \/ \* drifted off the temp branch, forced: the branch is left alone
          /\ head[r] \notin {e.prior, e.temp} /\ force
          /\ RestorePriorBranch(r) /\ RepoGoesOn(r, "pop") /\ UNCHANGED refs
       \/ \* on the temp branch with no new commit
          /\ head[r] = e.temp /\ refs[r][e.temp] = e.target
          /\ RestorePriorBranch(r) /\ RepoGoesOn(r, "delete") /\ UNCHANGED refs
       \/ \* committed on the temp branch, forced: rename it to the rescue branch
          /\ head[r] = e.temp /\ refs[r][e.temp] # e.target
          /\ force /\ CanRescue(r) /\ NoFault
          /\ refs' = [refs EXCEPT ![r] = [@ EXCEPT !["rescue"] = refs[r][e.temp],
                                                   ![e.temp] = None]]
          /\ SwitchTo(r, "rescue") /\ RepoGoesOn(r, "restore")
    /\ UNCHANGED <<wt, stash, pushed, srcWt, disk, cmd, mem, draft, restored,
                   srcs, opt, mirroring, acts, srcActs, made, rewound, origin>>

\* Every refusal of deactivateRepo before it changed anything.
DeactivateRepoFails(r) ==
    LET e == mem[r]
        force == cmd = "force"
    IN
    /\ Unwinding /\ pc = "repo" /\ r \in todo
    /\ \/ Fault
       \/ /\ NoFault
          /\ \/ head[r] = e.prior /\ (IsDirty(r) \/ refs[r][e.temp] # e.target)
             \/ head[r] \notin {e.prior, e.temp} /\ (~force \/ PriorBranchGone(r))
             \/ /\ head[r] = e.temp
                /\ refs[r][e.temp] = e.target /\ PriorBranchGone(r)
             \/ /\ head[r] = e.temp
                /\ refs[r][e.temp] # e.target
                /\ ~force \/ ~CanRescue(r)
    /\ RepoFails(r)
    /\ UNCHANGED <<git, srcWt, disk, cmd, mem, draft, restored, srcs, opt,
                   mirroring, acts, srcActs, made, rewound, origin>>

RestoreAfterRescue ==
    /\ pc = "restore"
    /\ \/ RestorePriorBranch(cur) /\ RepoGoesOn(cur, "pop")
       \/ /\ IF PriorBranchGone(cur) THEN NoFault ELSE Fault
          /\ RepoFails(cur) /\ UNCHANGED <<head, at>>
    /\ UNCHANGED <<refs, wt, stash, pushed, srcWt, disk, cmd, mem, draft,
                   restored, srcs, opt, mirroring, acts, srcActs, made, rewound, origin>>

DeleteTempBranch ==
    /\ pc = "delete"
    /\ \/ DeleteTempBranchIfAtTarget(cur) /\ RepoGoesOn(cur, "pop") /\ NoFault
       \/ /\ \/ Fault
             \/ refs[cur][mem[cur].temp] # mem[cur].target /\ NoFault
             \/ head[cur] = mem[cur].temp /\ NoFault
          /\ RepoFails(cur) /\ UNCHANGED refs
    /\ UNCHANGED <<head, at, wt, stash, pushed, srcWt, disk, cmd, mem, draft,
                   restored, srcs, opt, mirroring, acts, srcActs, made, rewound, origin>>

\* popPinnedStash: the exact entry.  A conflict leaves the entry, and may have
\* applied it to the working tree.
PopPinnedStash ==
    LET id == mem[cur].stash
        items == IF id = 0 THEN {} ELSE stash[cur][id]
    IN
    /\ pc = "pop"
    /\ \/ /\ items # {} /\ RepoDone(cur) /\ NoFault
          /\ wt' = [wt EXCEPT ![cur] = @ \cup items]
          /\ stash' = [stash EXCEPT ![cur][id] = {}]
       \/ /\ items # {} /\ RepoFails(cur) /\ Fault
          /\ \/ wt' = [wt EXCEPT ![cur] = @ \cup items]
             \/ UNCHANGED wt
          /\ UNCHANGED stash
       \/ /\ id # 0 /\ items = {} /\ RepoFails(cur) /\ NoFault
          /\ UNCHANGED <<wt, stash>>
       \/ /\ id = 0 /\ RepoDone(cur) /\ NoFault
          /\ UNCHANGED <<wt, stash>>
    /\ UNCHANGED <<head, at, refs, pushed, srcWt, disk, cmd, mem, draft,
                   restored, srcs, opt, mirroring, acts, srcActs, made, rewound, origin>>

\* The undo of a failed activateRepo is over: its entry is kept only when it
\* could not be undone, and the repositories before it are rolled back.
FinishUndo ==
    /\ cmd = "undo" /\ pc = "repo" /\ todo = {}
    /\ LET kept == Only(mem, failed \cup Entries(journal))  \* those before it
       IN  Unwind("rollback", kept, Entries(kept))
    /\ UNCHANGED <<git, srcWt, disk, faults, acts, srcActs, made, rewound>>

\* Clear the journal when every repository was restored, else save the failed
\* ones, best effort.
FinishUnwind ==
    /\ ClearsJournal /\ pc = "repo" /\ todo = {}
    /\ \/ journal' = Only(mem, failed) /\ NoFault
       \/ UNCHANGED journal /\ Fault
    /\ Quit
    /\ UNCHANGED <<git, srcWt, archived, acts, srcActs, made, rewound>>

-----------------------------------------------------------------------------
(* slis deactivate [--force]: validate and clear the mirrors, then unwind.  *)

\* validatePrimaryMirror: the primary is exactly what the journal says.
\* SameHead, a faulty variant, does not look at the files.
SameHead(r, e) == head[r] = e.temp /\ refs[r][e.temp] = e.target
ValidMirror(r, e) ==
    /\ head[r] = e.temp
    /\ refs[r][e.temp] = e.target
    /\ IF e.mirror = None THEN ~IsDirty(r) ELSE CaptureSnapshot(r) = e.mirror

\* primaryAlreadyRestored, whose last check fails when the temp branch is gone.
BackOnPrior(r, e) == e.prior # "detached" /\ head[r] = e.prior /\ ~IsDirty(r)
AlreadyRestored(r, e) == BackOnPrior(r, e) /\ refs[r][e.temp] = e.target
RestoredCheckFails(r, e) == BackOnPrior(r, e) /\ ~Exists(r, e.temp)

MirroredEntries(j) == {r \in Entries(j) : j[r].mirror # None}

\* Every mirrored primary is restored already or as recorded.
StartDeactivate(c) ==
    /\ cmd = "idle" /\ c \in {"deactivate", "force"} /\ Entries(journal) # {}
    /\ \A r \in MirroredEntries(journal) :
         AlreadyRestored(r, journal[r]) \/ ValidMirror(r, journal[r])
    /\ Begin(c, "clear", journal, MirroredEntries(journal))
    /\ restored' = {r \in MirroredEntries(journal) : AlreadyRestored(r, journal[r])}
    /\ UNCHANGED <<git, srcWt, disk, srcs, opt, faults, acts, srcActs, made, rewound>>

\* Some mirrored primary is neither: the command ends here, whatever --force
\* says, and archives the activation.
StartDeactivateDrifted(c) ==
    /\ cmd = "idle" /\ c \in {"deactivate", "force"}
    /\ \E r \in MirroredEntries(journal) :
         /\ ~AlreadyRestored(r, journal[r]) /\ ~RestoredCheckFails(r, journal[r])
         /\ ~ValidMirror(r, journal[r])
    /\ Begin(c, "drifted", journal, {})
    /\ UNCHANGED <<git, srcWt, disk, restored, srcs, opt, faults, acts, srcActs, made, rewound>>

\* clearWorkingMirror: validated again, then the mirrored untracked files are
\* removed and reset --hard drops the rest.
ClearWorkingMirror(r) ==
    /\ pc = "clear" /\ r \in todo
    /\ r \notin restored => ValidMirror(r, mem[r])
    /\ wt' = [wt EXCEPT ![r] = IF r \in restored THEN @ ELSE {}]
    /\ cur' = r /\ pc' = "cleared"
    /\ mem' = [mem EXCEPT ![r].mirror = None]
    /\ UNCHANGED <<head, at, refs, stash, pushed, srcWt, disk, cmd, todo,
                   draft, failed, restored, srcs, opt, mirroring, ghosts>>

\* Changed since the first validation, or half cleared.
ClearWorkingMirrorFails(r) ==
    /\ pc = "clear" /\ r \in todo \ restored
    /\ \/ ~ValidMirror(r, mem[r]) /\ NoFault /\ pc' = "drifted"
          /\ UNCHANGED <<wt, cmd, cur, todo, mem, draft, failed, restored,
                         srcs, opt, mirroring, origin>>
       \/ /\ Fault /\ Quit
          /\ \E S \in SUBSET wt[r] :
               /\ S # wt[r] => ValidMirror(r, mem[r])
               /\ wt' = [wt EXCEPT ![r] = S]
    /\ UNCHANGED <<head, at, refs, stash, pushed, srcWt, disk, acts, srcActs, made, rewound>>

SaveCleared ==
    /\ pc = "cleared"
    /\ \/ /\ journal' = mem /\ NoFault
          /\ pc' = "clear" /\ todo' = todo \ {cur} /\ cur' = None
          /\ UNCHANGED <<cmd, mem, draft, failed, restored, srcs, opt,
                         mirroring, origin>>
       \/ Fault /\ Quit /\ UNCHANGED journal
    /\ UNCHANGED <<git, srcWt, archived, acts, srcActs, made, rewound>>

MirrorsCleared ==
    /\ pc = "clear" /\ todo = {}
    /\ pc' = "repo" /\ todo' = Entries(mem)
    /\ UNCHANGED <<git, srcWt, disk, cmd, cur, mem, draft, failed, restored,
                   srcs, opt, mirroring, ghosts>>

\* ArchiveDriftedActivation: move the journal aside, leave every primary as it
\* is.  It looks at the primaries again.
Drifted == \E r \in Entries(journal) : ~ValidMirror(r, journal[r])

Archive ==
    /\ journal' = Empty
    /\ archived' = archived \cup Entries(journal)

ArchiveDrift ==
    /\ pc = "drifted"
    /\ \/ (IF Drifted THEN Archive ELSE UNCHANGED disk) /\ NoFault
       \/ UNCHANGED disk /\ Fault
    /\ Quit
    /\ UNCHANGED <<git, srcWt, acts, srcActs, made, rewound>>

\* slis recover-activation, which the interface runs when it starts.
RecoverActivation ==
    /\ cmd = "idle" /\ Drifted /\ Archive
    /\ UNCHANGED <<git, srcWt, cmd, pc, loop, ghosts>>

-----------------------------------------------------------------------------
(* slis refresh                                                            *)

\* Every tip is read, and a dirty primary that has to move refuses the whole
\* refresh, before any primary moves.
Behind(j) == {r \in Entries(j) : refs[r]["slice"] # j[r].target}

StartRefresh ==
    /\ cmd = "idle" /\ Behind(journal) # {}
    /\ \A r \in Behind(journal) : ~IsDirty(r)
    /\ Begin("refresh", "repo", journal, Behind(journal))
    /\ srcs' = [r \in Repo |-> IF r \in Behind(journal)
                                 THEN [at |-> refs[r]["slice"], items |-> {}]
                                 ELSE None]
    /\ UNCHANGED <<git, srcWt, disk, restored, opt, faults, acts, srcActs, made, rewound>>

\* rebaselineMirror: the primary was clean, so what it holds is the engine's.
\* StaleBaseline, a faulty variant, leaves the baseline of before the merge.
StaleBaseline(r, tip) == mem[r].mirror
RebaselineMirror(r, tip) ==
    IF mem[r].mirror = None THEN None ELSE [at |-> tip, items |-> wt[r]]

\* git merge --ff-only on the temp branch, then the mirror baseline again.  The
\* merge has nothing to do when the slice branch went back (git reset), and the
\* target goes back all the same.
RefreshRepo(r) ==
    LET new == srcs[r].at
        tip == refs[r][mem[r].temp]
    IN
    /\ cmd = "refresh" /\ pc = "repo" /\ r \in todo
    /\ head[r] = mem[r].temp
    /\ \/ IsAncestor(tip, new) /\ refs' = [refs EXCEPT ![r][mem[r].temp] = new]
       \/ IsAncestor(new, tip) /\ UNCHANGED refs
    /\ mem' = [mem EXCEPT ![r].target = new,
                          ![r].mirror = RebaselineMirror(r, refs'[r][mem[r].temp])]
    /\ rewound' = IF IsAncestor(tip, new) \/ tip.own # {} THEN rewound
                  ELSE rewound \cup {r}
    /\ cur' = r /\ pc' = "refreshed"
    /\ UNCHANGED <<head, at, wt, stash, pushed, srcWt, disk, cmd, todo, draft,
                   failed, restored, srcs, opt, mirroring, faults, acts,
                   srcActs, made, origin>>

RefreshRepoFails(r) ==
    /\ cmd = "refresh" /\ pc = "repo" /\ r \in todo
    /\ \/ Fault
       \/ head[r] # mem[r].temp /\ NoFault
       \/ /\ head[r] = mem[r].temp /\ NoFault
          /\ ~IsAncestor(HeadCommit(r), srcs[r].at)
          /\ ~IsAncestor(srcs[r].at, HeadCommit(r))
    /\ Quit
    /\ UNCHANGED <<git, srcWt, disk, acts, srcActs, made, rewound>>

\* The journal is written after each repository (Fix W1), and was once, in the
\* faulty variant, only after the last.
SaveLastRefreshed ==
    /\ pc = "refreshed"
    /\ journal' = (IF todo = {cur} THEN mem ELSE journal) /\ NoFault
    /\ pc' = "repo" /\ todo' = todo \ {cur} /\ cur' = None
    /\ UNCHANGED <<git, srcWt, archived, cmd, mem, draft, failed, restored,
                   srcs, opt, mirroring, acts, srcActs, made, rewound, origin>>
SaveRefreshed ==
    /\ pc = "refreshed"
    /\ \/ /\ journal' = mem /\ NoFault
          /\ pc' = "repo" /\ todo' = todo \ {cur} /\ cur' = None
          /\ UNCHANGED <<cmd, mem, draft, failed, restored, srcs, opt,
                         mirroring, origin>>
       \/ Fault /\ Quit /\ UNCHANGED journal
    /\ UNCHANGED <<git, srcWt, archived, acts, srcActs, made, rewound>>

\* Every repository is done; live-sync waits for the next round.
FinishRefresh ==
    /\ cmd \in {"refresh", "sync"} /\ pc = "repo" /\ todo = {} /\ EndOfCommand
    /\ UNCHANGED <<mirroring, git, srcWt, disk, faults, acts, srcActs, made, rewound>>

-----------------------------------------------------------------------------
(* slis live-sync: rounds of syncWorkingTree, which a timer and a watcher   *)
(* start again until the process is stopped or a round fails.              *)

\* The interface starts it after a swap that left a slice active, and when the
\* user accepts to reactivate the slice found active at its start.
StartMirror ==
    /\ cmd = "idle" /\ Entries(journal) # {} /\ ~mirroring /\ mirroring' = TRUE
    /\ UNCHANGED <<git, srcWt, disk, cmd, pc, cur, todo, mem, draft, failed,
                   restored, srcs, opt, ghosts>>

\* A round that fails before it changed anything, for a repository without a
\* worktree or because git failed, ends the process.
SyncRefused ==
    /\ cmd = "idle" /\ mirroring /\ mirroring' = FALSE
    /\ \/ ~(Entries(journal) \subseteq Mirrored) /\ NoFault
       \/ Fault
    /\ UNCHANGED <<git, srcWt, disk, cmd, pc, cur, todo, mem, draft, failed,
                   restored, srcs, opt, acts, srcActs, made, rewound, origin>>

SourceOfPrimary(r) == [at |-> at[r], items |-> srcWt[r]]  \* faulty Source
Source(r) == [at |-> refs[r]["slice"], items |-> srcWt[r]]

\* All primaries are validated and all worktrees captured before any primary
\* is written.
StartSync ==
    /\ cmd = "idle" /\ mirroring
    /\ Entries(journal) # {} /\ Entries(journal) \subseteq Mirrored
    /\ ~Drifted
    /\ Begin("sync", "repo", journal, Entries(journal))
    /\ srcs' = [r \in Repo |-> IF journal[r] = None THEN None ELSE Source(r)]
    /\ UNCHANGED <<git, srcWt, disk, restored, opt, faults, acts, srcActs, made, rewound>>

StartSyncDrifted ==
    /\ cmd = "idle" /\ mirroring
    /\ \E r \in Entries(journal) \cap Mirrored : ~ValidMirror(r, journal[r])
    /\ Begin("sync", "drifted", journal, {})
    /\ UNCHANGED <<git, srcWt, disk, restored, srcs, opt, faults, acts, srcActs, made, rewound>>

\* SameTip, a faulty variant, compares the commits only.
SameTip(r) == mem[r].target = srcs[r].at
UpToDate(r) == mem[r].target = srcs[r].at /\ mem[r].mirror = srcs[r]

SyncSkip(r) ==
    /\ cmd = "sync" /\ pc = "repo" /\ r \in todo /\ UpToDate(r)
    /\ todo' = todo \ {r}
    /\ UNCHANGED <<git, srcWt, disk, cmd, pc, cur, mem, draft, failed,
                   restored, srcs, opt, mirroring, ghosts>>

\* applyWorkingSnapshot: reset --mixed to the captured HEAD, copy the files,
\* compare.  srcs keeps what the primary was, for a rollback.
SyncApply(r) ==
    /\ cmd = "sync" /\ pc = "repo" /\ r \in todo /\ ~UpToDate(r)
    /\ srcs[r] = Source(r)
    /\ ResetHead(r, srcs[r].at)
    /\ wt' = [wt EXCEPT ![r] = srcs[r].items]
    /\ mem' = [mem EXCEPT ![r].target = srcs[r].at, ![r].mirror = srcs[r]]
    /\ srcs' = [srcs EXCEPT ![r] = CaptureSnapshot(r)]
    /\ cur' = r /\ pc' = "synced"
    /\ UNCHANGED <<head, stash, pushed, srcWt, disk, cmd, todo, draft, failed,
                   restored, opt, mirroring, ghosts>>

\* The worktree changed during the copy, or the copy failed: everything
\* written is put back, or left half written when that fails too.
SyncApplyFails(r) ==
    /\ cmd = "sync" /\ pc = "repo" /\ r \in todo /\ ~UpToDate(r)
    /\ \/ srcs[r] # Source(r) /\ NoFault /\ UNCHANGED <<at, refs, wt>>
       \/ Fault /\ UNCHANGED <<at, refs, wt>>
       \/ Fault /\ ResetHead(r, srcs[r].at)
          /\ wt' = [wt EXCEPT ![r] = @ \cup srcs[r].items]
    /\ Quit
    /\ UNCHANGED <<head, stash, pushed, srcWt, disk, acts, srcActs, made, rewound>>

SaveSynced ==
    /\ pc = "synced"
    /\ \/ /\ journal' = mem /\ NoFault
          /\ pc' = "repo" /\ todo' = todo \ {cur} /\ cur' = None
          /\ UNCHANGED <<at, refs, wt, cmd, mem, draft, failed, restored, srcs,
                         opt, mirroring, origin>>
       \/ /\ Fault /\ Quit /\ UNCHANGED journal
          /\ ResetHead(cur, srcs[cur].at)
          /\ wt' = [wt EXCEPT ![cur] = srcs[cur].items]
    /\ UNCHANGED <<head, stash, pushed, srcWt, archived, acts, srcActs, made, rewound>>

-----------------------------------------------------------------------------
(* slis doctor --fix                                                       *)

\* A journal none of whose primaries is swapped in is deleted, when all are on
\* a branch and it pins no stash.
DoctorDropsStaleJournal ==
    /\ cmd = "idle" /\ Entries(journal) # {}
    /\ \A r \in Entries(journal) :
         head[r] \notin {journal[r].temp, "detached"} /\ journal[r].stash = 0
    /\ journal' = Empty
    /\ UNCHANGED <<git, srcWt, archived, cmd, pc, loop, ghosts>>

\* A live branch with no journal, contained in the slice branch, is deleted.
\* The branch of a recovered activation names no slice and is left alone.
DoctorDropsOrphan(r) ==
    /\ cmd = "idle" /\ Entries(journal) = {}
    /\ head[r] = "live" /\ ~IsDirty(r) /\ Exists(r, "trunk")
    /\ IsAncestor(refs[r]["live"], refs[r]["slice"])
    /\ SwitchTo(r, "trunk")
    /\ \/ refs' = [refs EXCEPT ![r]["live"] = None] /\ NoFault
       \/ UNCHANGED refs /\ Fault
    /\ UNCHANGED <<wt, stash, pushed, srcWt, disk, cmd, pc, loop, acts,
                   srcActs, made, rewound, origin>>

-----------------------------------------------------------------------------
(* The user, who may work in a primary while a command runs when Racing.   *)

InPrimary ==
    /\ cmd = "idle" \/ Racing
    /\ acts < MaxUserActs /\ acts' = acts + 1 /\ UNCHANGED srcActs
InWorktree ==
    /\ srcActs < MaxSrcActs /\ srcActs' = srcActs + 1 /\ UNCHANGED acts
userUnchanged == <<pushed, disk, cmd, pc, loop, faults, rewound, origin>>

UserEdit(r) ==
    /\ InPrimary
    /\ \E w \in Work \ made[r] :
         /\ wt' = [wt EXCEPT ![r] = @ \cup {w}]
         /\ made' = [made EXCEPT ![r] = @ \cup {w}]
    /\ UNCHANGED <<head, at, refs, stash, srcWt, userUnchanged>>

UserCommit(r) ==
    /\ InPrimary /\ IsDirty(r)
    /\ head[r] = "detached" => DetachedCommits /\ journal[r] # None
    /\ ResetHead(r, [HeadCommit(r) EXCEPT !.own = @ \cup wt[r]])
    /\ wt' = [wt EXCEPT ![r] = {}]
    /\ UNCHANGED <<head, stash, srcWt, made, userUnchanged>>

\* git switch, which carries uncommitted work along; a careful user does not
\* leave commits behind that no branch holds.
UserSwitch(r, b) ==
    /\ InPrimary /\ Exists(r, b) /\ b # head[r]
    /\ b \in {"trunk", "other"} \/ (journal[r] # None /\ b = journal[r].temp)
    /\ head[r] = "detached" => at[r].own = {}
    /\ SwitchTo(r, b)
    /\ UNCHANGED <<refs, wt, stash, srcWt, made, userUnchanged>>

UserDetach(r) ==
    /\ InPrimary /\ head[r] # "detached"
    /\ DetachAt(r, HeadCommit(r))
    /\ UNCHANGED <<refs, wt, stash, srcWt, made, userUnchanged>>

\* Delete the trunk while away from it, or recreate it as the error advises.
UserDeletesPrior(r) ==
    /\ InPrimary /\ head[r] # "trunk" /\ Exists(r, "trunk")
    /\ refs[r]["trunk"].own = {}
    /\ refs' = [refs EXCEPT ![r]["trunk"] = None]
    /\ UNCHANGED <<head, at, wt, stash, srcWt, made, userUnchanged>>

UserRecreatesPrior(r) ==
    /\ InPrimary /\ journal[r] # None
    /\ journal[r].prior # "detached" /\ ~Exists(r, journal[r].prior)
    /\ refs' = [refs EXCEPT ![r][journal[r].prior] = journal[r].priorAt]
    /\ UNCHANGED <<head, at, wt, stash, srcWt, made, userUnchanged>>

\* Drop a stash entry whose content is in the working tree (a conflict that
\* was resolved by hand).
UserDropsStash(r) ==
    /\ InPrimary
    /\ \E i \in 1..MaxStash :
         /\ stash[r][i] # {} /\ stash[r][i] \subseteq wt[r]
         /\ stash' = [stash EXCEPT ![r][i] = {}]
    /\ UNCHANGED <<head, at, refs, wt, srcWt, made, userUnchanged>>

\* Work in the slice worktree, at any time.
SourceEdit(r) ==
    /\ InWorktree /\ r \in Mirrored
    /\ \E S \in SUBSET SrcWork : S # srcWt[r] /\ srcWt' = [srcWt EXCEPT ![r] = S]
    /\ UNCHANGED <<head, at, refs, wt, stash, made, userUnchanged>>

\* A commit, an amend or a restack: a tip the branch has not gone through.
SourceCommit(r) ==
    /\ InWorktree
    /\ \E t \in 0..MaxTip \ Ancestors[refs[r]["slice"].line] :
         refs' = [refs EXCEPT ![r]["slice"].line = t]
    /\ srcWt' = [srcWt EXCEPT ![r] = {}]
    /\ UNCHANGED <<head, at, wt, stash, made, userUnchanged>>

\* git reset to an earlier tip; what it takes out and leaves uncommitted is an
\* edit of its own.
SourceReset(r) ==
    /\ InWorktree
    /\ \E t \in Ancestors[refs[r]["slice"].line] \ {refs[r]["slice"].line} :
         refs' = [refs EXCEPT ![r]["slice"].line = t]
    /\ \E S \in {srcWt[r], {}} : srcWt' = [srcWt EXCEPT ![r] = S]
    /\ UNCHANGED <<head, at, wt, stash, made, userUnchanged>>

SourceMove(r) == SourceCommit(r) \/ SourceReset(r)

-----------------------------------------------------------------------------

Init ==
    /\ head \in [Repo -> {"trunk", "detached"}]
    /\ at = [r \in Repo |-> IF head[r] = "detached"
                            THEN [line |-> 0, own |-> {}] ELSE None]
    /\ refs = [r \in Repo |-> [b \in Branch |->
                 IF b \in {"trunk", "other", "slice"} THEN [line |-> 0, own |-> {}]
                 ELSE None]]
    /\ wt \in [Repo -> SUBSET Work]
    /\ made = wt /\ rewound = {}
    /\ stash = [r \in Repo |-> [i \in 1..MaxStash |-> {}]]
    /\ pushed = [r \in Repo |-> 0]
    /\ srcWt = [r \in Repo |-> {}]
    /\ journal = Empty /\ archived = {}
    /\ cmd = "idle" /\ pc = "idle" /\ cur = None /\ todo = {} /\ mem = Empty
    /\ draft = None /\ failed = {} /\ restored = {} /\ srcs = Empty
    /\ opt = NoOpt /\ mirroring = FALSE /\ origin = Empty
    /\ faults = 0 /\ acts = 0 /\ srcActs = 0

Activate ==
    \/ \E r \in Repo : ActivateRepo(r) \/ ActivateRefused(r) \/ StashNotPinned(r)
    \/ SwitchToLive \/ SwitchToLiveFails
    \/ CaptureBaseline \/ CaptureBaselineFails
    \/ JournalActivated \/ JournalActivatedFails \/ FinishActivate

Deactivate ==
    \/ \E r \in Repo : ClearWorkingMirror(r) \/ ClearWorkingMirrorFails(r)
    \/ SaveCleared \/ MirrorsCleared \/ ArchiveDrift

Unwinds ==
    \/ \E r \in Repo : DeactivateRepo(r) \/ DeactivateRepoFails(r)
    \/ RestoreAfterRescue \/ DeleteTempBranch \/ PopPinnedStash
    \/ FinishUndo \/ FinishUnwind

Refresh ==
    \/ \E r \in Repo : RefreshRepo(r) \/ RefreshRepoFails(r)
    \/ SaveRefreshed \/ FinishRefresh

Sync ==
    \/ \E r \in Repo : SyncSkip(r) \/ SyncApply(r) \/ SyncApplyFails(r)
    \/ SaveSynced

\* A step of the command that runs.
CommandStep == Activate \/ Deactivate \/ Unwinds \/ Refresh \/ Sync

\* A round of the live-sync process that is up.
SyncRound == StartSync \/ StartSyncDrifted \/ SyncRefused

\* A command the user, or the interface, starts.
StartCommand ==
    \/ \E f \in BOOLEAN : StartActivate(f)
    \/ \E c \in {"deactivate", "force"} :
         StartDeactivate(c) \/ StartDeactivateDrifted(c)
    \/ StartRefresh \/ StartMirror \/ RecoverActivation
    \/ DoctorDropsStaleJournal \/ \E r \in Repo : DoctorDropsOrphan(r)

User ==
    \E r \in Repo :
       \/ UserEdit(r) \/ UserCommit(r) \/ UserDetach(r)
       \/ \E b \in Branch : UserSwitch(r, b)
       \/ UserDeletesPrior(r) \/ UserRecreatesPrior(r) \/ UserDropsStash(r)
       \/ SourceEdit(r) \/ SourceMove(r)

Next == StartCommand \/ SyncRound \/ CommandStep \/ Crash \/ User

Spec == Init /\ [][Next]_vars

\* A command runs until it ends, and a live-sync process that is up starts its
\* next round (the ticker and the watcher of RunLiveSync).  Nobody has to start
\* a command, or live-sync again after a round of it failed.
FairSpec ==
    /\ Spec
    /\ WF_vars(CommandStep)
    /\ WF_vars(SyncRound)

-----------------------------------------------------------------------------

CmdName == {"idle", "activate", "undo", "rollback", "deactivate", "force",
            "refresh", "sync"}
PcName == {"idle", "repo", "switch", "baseline", "journal", "restore", "delete",
           "pop", "clear", "cleared", "drifted", "refreshed", "synced"}

GitOK ==
    /\ head \in [Repo -> Branch \cup {"detached"}]
    /\ at \in [Repo -> Commit \cup {None}]
    /\ refs \in [Repo -> [Branch -> Commit \cup {None}]]
    /\ wt \in [Repo -> SUBSET Item]
    /\ stash \in [Repo -> [1..MaxStash -> SUBSET Item]]
    /\ pushed \in [Repo -> 0..MaxStash]
    /\ srcWt \in [Repo -> SUBSET SrcWork]

JournalOK ==
    /\ journal \in [Repo -> Entry \cup {None}]
    /\ archived \subseteq Repo

CommandOK ==
    /\ cmd \in CmdName /\ pc \in PcName
    /\ cur \in Repo \cup {None} /\ todo \subseteq Repo
    /\ mem \in [Repo -> Entry \cup {None}]
    /\ draft \in Entry \cup {None}
    /\ failed \subseteq Repo /\ restored \subseteq Repo
    /\ srcs \in [Repo -> Snapshot \cup {None}]
    /\ opt \in [live : Live, stash : BOOLEAN]
    /\ mirroring \in BOOLEAN

GhostOK ==
    /\ faults \in 0..MaxFaults /\ acts \in 0..MaxUserActs
    /\ srcActs \in 0..MaxSrcActs
    /\ made \in [Repo -> SUBSET Work] /\ rewound \subseteq Repo
    /\ origin \in [Repo -> Origin \cup {None}]

TypeOK == GitOK /\ JournalOK /\ CommandOK /\ GhostOK

\* Where an item of a primary can still be found.
Kept(r) ==
    wt[r] \cup (UNION {stash[r][i] : i \in 1..MaxStash})
          \cup (UNION {refs[r][b].own : b \in {b \in Branch : Exists(r, b)}})
          \cup (IF head[r] = "detached" THEN at[r].own ELSE {})

\* No command, crash or failure at any step makes work the user did in a
\* primary unreachable: it is in the working tree, in a stash entry, or in a
\* commit some branch reaches (engine.go:599-623 "never uses a force git
\* switch and never drops or clears the stash").
WorkNeverLost == \A r \in Repo : made[r] \subseteq Kept(r)

\* Only a crash or a failure leaves a primary on a live branch that no journal
\* and no recovery record names, and each leaves at most one: the journal is
\* written after every repository (engine.go:78-79, Fix A).
UnjournaledNeedsFault ==
    cmd = "idle" =>
      Cardinality({r \in Repo : head[r] \in Live /\ journal[r] = None
                                /\ r \notin archived}) <= faults

\* An entry leaves the journal only once its primary is off the live branch
\* with the stash it pinned taken out, or when the whole journal is archived.
EntryDroppedOnlyWhenRestored ==
    [][\A r \in Repo :
         journal[r] # None /\ journal'[r] = None =>
           \/ /\ journal' = Empty /\ r \in archived' /\ UNCHANGED git
              /\ pc = "drifted" \/ (cmd = "idle" /\ Drifted)
           \/ /\ head'[r] # journal[r].temp
              /\ journal[r].stash # 0 => stash'[r][journal[r].stash] = {}]_vars

\* When a failed activation has finished rolling back, every repository it
\* could roll back is at the commit it was, on its branch unless that could
\* not be checked out, without a live branch of this activation, and with its
\* uncommitted work in the working tree or, when even the pop failed, in the
\* stash.
RolledBack(r) ==
    /\ HeadCommit(r) = origin[r].at
    /\ head[r] \in {origin[r].head, "detached"}
    /\ {b \in Live : Exists(r, b)} = origin[r].live
    /\ \/ origin[r].items = wt[r]
       \/ faults > 0 /\ origin[r].items \subseteq Kept(r)

FailedActivationRestores ==
    cmd = "rollback" /\ pc = "repo" /\ todo = {} =>
      \A r \in Repo \ failed : RolledBack(r)

\* A repository deactivate refuses is left with no branch moved, created or
\* renamed and HEAD where it was, unless git failed half way or the user
\* dropped the pinned stash (engine.go:157-159 "refused with zero state
\* change").
RefusalChangesNothing ==
    cmd \in {"deactivate", "force"} /\ pc = "repo" /\ todo = {} /\ faults = 0 =>
      \A r \in failed :
        \/ mem[r].stash # 0 /\ stash[r][mem[r].stash] = {}
        \/ /\ head[r] = origin[r].head /\ HeadCommit(r) = origin[r].at
           /\ {b \in Live : Exists(r, b)} = origin[r].live

\* Without a fault the journal never lags a live branch nobody committed on:
\* a stale target would make the next deactivate take the slice's own commits
\* for the user's (engine.go:335-339, Fix W1).  The one exception is a refresh
\* after the slice branch was reset (RefreshKeepsTarget below).
TargetTracksTemp ==
    cmd = "idle" /\ faults = 0 =>
      \A r \in Entries(journal) \ rewound :
        LET tip == refs[r][journal[r].temp] IN
        tip # None => tip.own # {} \/ tip = journal[r].target

\* The engine never mistakes its own doing for the user's: as long as nobody
\* touched a primary, nothing failed and no reset slice branch was refreshed, no
\* command finds drift (engine.go:373-376).
NeverSelfDrift ==
    faults = 0 /\ acts = 0 /\ rewound = {} =>
      /\ pc # "drifted" /\ (cmd = "idle" => ~Drifted)
      /\ cmd \in {"deactivate", "force"} => failed = {}

\* No command waits for ever: each one that was not killed ends, whatever git
\* refuses and in whatever state the user left the primaries.
CommandsEnd == cmd # "idle" ~> cmd = "idle"

\* What the user does in a slice worktree reaches the primary: as long as the
\* live-sync process is up and the activation lasts, a primary mirrors its
\* worktree again and again (live.go:19-96).
MirrorConverges ==
    \A r \in Mirrored :
      journal[r] # None /\ mirroring ~>
        \/ ~mirroring \/ journal[r] = None
        \/ journal[r].mirror = Source(r) /\ CaptureSnapshot(r) = Source(r)

(* What the documentation promises and the code does not keep.             *)

\* A refresh leaves every primary it moved at the target it recorded, unless the
\* user committed there: it fast-forwards the live branch to the slice's tip, and
\* refuses a branch that diverged (engine.go:273-277, docs/AGENT.md:419).
RefreshKeepsTarget ==
    [][\A r \in Repo :
         pc = "refreshed" /\ r = cur /\ journal'[r] # journal[r] =>
           LET tip == refs'[r][journal'[r].temp] IN
           tip.own # {} \/ tip = journal'[r].target]_vars

\* A swap that looks undone, its primaries clean on their prior branches and
\* its live branches deleted or untouched, is reconciled by deactivate
\* (doctor_swap.go:83-84, engine.go:151-153).
UndoneSwapReconciles ==
    [][\A r \in failed' \ failed :
         cmd \in {"deactivate", "force"} /\ faults' = faults =>
           ~( /\ BackOnPrior(r, mem[r])
              /\ refs[r][mem[r].temp] \in {None, mem[r].target} )]_vars

\* deactivate --force that nothing disturbs leaves no primary on a live branch
\* holding the user's commits: it renames that branch to the rescue branch and
\* restores the prior one (docs/AGENT.md:419).
ForceRescuesCommits ==
    [][cmd = "force" /\ cmd' = "idle" /\ faults' = faults =>
         \A r \in Entries(mem) :
           head'[r] = mem[r].temp => refs'[r][mem[r].temp].own = {}]_vars

=============================================================================
