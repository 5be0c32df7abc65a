-------------------------------- MODULE SwapInv --------------------------------
(***************************************************************************)
(* The inductive invariants behind the safety of the swap engine: what     *)
(* each step relies on the steps before it having established.  TLC checks *)
(* them on small instances, SwapSafetyProofs proves them.                  *)
(***************************************************************************)
EXTENDS SwapEngine

\* The steps that work on one repository, named by cur.
RepoSteps == {"switch", "baseline", "journal", "restore", "delete", "pop",
              "cleared", "refreshed", "synced"}
\* The commands that work on repositories their journal lists.
Listed == {"undo", "rollback", "deactivate", "force", "refresh", "sync"}

\* HEAD names a commit: no step deletes the branch a primary is on.
HeadResolves ==
    \A r \in Repo :
      IF head[r] = "detached" THEN at[r] \in Commit ELSE refs[r][head[r]] \in Commit

\* Which step belongs to which command.
PcFitsCommand ==
    /\ pc = "idle" <=> cmd = "idle"
    /\ pc \in {"switch", "baseline", "journal"} => cmd = "activate"
    /\ pc \in {"restore", "delete", "pop"} => Unwinding
    /\ pc \in {"clear", "cleared"} => cmd \in {"deactivate", "force"}
    /\ pc = "drifted" => cmd \in {"deactivate", "force", "sync"}
    /\ pc = "refreshed" => cmd = "refresh"
    /\ pc = "synced" => cmd = "sync"

\* What a step reads is there: the repository it works on, its entry, the
\* draft, the tip or the worktree that was read up front.
Operands ==
    /\ pc \in RepoSteps => cur \in todo
    /\ pc \in {"switch", "baseline"} => draft \in Entry
    /\ pc = "journal" => mem[cur] \in Entry
    /\ cmd \in Listed => \A r \in todo : mem[r] \in Entry
    /\ cmd \in {"refresh", "sync"} => \A r \in todo : srcs[r] \in Snapshot

\* An activation that may stash has room for the stash of each repository.
StashRoom ==
    cmd = "activate" /\ opt.stash =>
      \A r \in todo : pc = "repo" \/ r # cur => pushed[r] < MaxStash

SliceExists == \A r \in Repo : refs[r]["slice"] \in Commit

Control == HeadResolves /\ PcFitsCommand /\ Operands /\ StashRoom /\ SliceExists

-----------------------------------------------------------------------------

\* What the engine may overwrite is never the user's: a target is a commit of
\* the slice, and a mirror holds only what came from a worktree.
OursOnly(e) ==
    e # None => /\ e.target.own = {}
                /\ e.mirror # None => e.mirror.items \subseteq SrcWork

EntriesOurs ==
    /\ \A r \in Repo : OursOnly(journal[r]) /\ OursOnly(mem[r])
    /\ OursOnly(draft)

SourcesOurs ==
    \A r \in Repo :
      /\ refs[r]["slice"].own = {}
      /\ srcs[r] # None => srcs[r].at.own = {} /\ srcs[r].items \subseteq SrcWork

\* A primary is never on the slice branch, which its worktree has checked out,
\* and no entry goes back to it: no commit made in a primary moves the slice.
OffSlice(e) == e # None => e.prior # "slice"
NeverOnSlice ==
    /\ \A r \in Repo : head[r] # "slice" /\ OffSlice(journal[r]) /\ OffSlice(mem[r])
    /\ OffSlice(draft)

\* The next auto-stash takes an entry nothing is in.
StashFresh ==
    \A r \in Repo : \A i \in 1..MaxStash : i > pushed[r] => stash[r][i] = {}

\* Nothing uncommitted is in a primary whose state is about to be recorded as
\* the engine's own.
CleanWhenRecorded ==
    /\ pc \in {"switch", "baseline"} => wt[cur] = {}
    /\ cmd = "refresh" => \A r \in todo : wt[r] = {}

\* A round of live-sync writes only primaries that still are as validated, or
\* that it wrote itself.
ValidUntilSynced ==
    cmd = "sync" =>
      \A r \in todo :
        \/ ValidMirror(r, mem[r])
        \/ /\ pc = "synced" /\ r = cur
           /\ head[r] = mem[r].temp /\ refs[r][head[r]].own = {}
           /\ wt[r] \subseteq SrcWork

\* Work is kept without the help of a detached HEAD.
KeptOnBranches(r) ==
    wt[r] \cup (UNION {stash[r][i] : i \in 1..MaxStash})
          \cup (UNION {refs[r][b].own : b \in {b \in Branch : Exists(r, b)}})
WorkOnBranches == \A r \in Repo : made[r] \subseteq KeptOnBranches(r)

Safe ==
    /\ EntriesOurs /\ SourcesOurs /\ NeverOnSlice /\ StashFresh /\ CleanWhenRecorded
    /\ ValidUntilSynced /\ WorkOnBranches

\* What no work is lost without.
SafeInvariant == TypeOK /\ Control /\ Safe

-----------------------------------------------------------------------------
(* What a command knows of the primaries it has changed, and what of it is *)
(* on disk.                                                                *)

\* Repositories the running command has an entry of and the journal has not.
Ahead == Entries(mem) \ Entries(journal)

\* Two records of one swap: only the target and the mirror move.
SameSwap(e, f) ==
    /\ e.prior = f.prior /\ e.priorAt = f.priorAt
    /\ e.stash = f.stash /\ e.temp = f.temp

\* A command knows every entry of the journal, as it is but for the one
\* repository it has changed and not saved yet.
JournalRemembered ==
    cmd # "idle" =>
      \A r \in Entries(journal) :
        /\ mem[r] # None /\ SameSwap(journal[r], mem[r])
        /\ \/ journal[r] = mem[r]
           \/ r = cur /\ pc \in {"cleared", "refreshed", "synced"}

\* An activation is one repository ahead of the journal at most (Fix A).
OneAhead ==
    /\ cmd = "idle" => mem = Empty
    /\ \A r, s \in Ahead : r = s
    /\ Ahead # {} => cmd \in {"activate", "undo", "rollback"}
    /\ cmd = "activate" =>
         /\ Repo = todo \cup Entries(mem)
         /\ \A r \in Entries(mem) :
              r \in todo \cup Ahead => r = cur /\ pc = "journal"

\* No entry leads back to the live branch it names.
OffTemp(e) == e # None => e.prior # e.temp
EntriesOffTemp ==
    /\ \A r \in Repo : OffTemp(journal[r]) /\ OffTemp(mem[r])
    /\ OffTemp(draft)

\* The loop over deactivateRepo, and the repositories it has restored: the
\* primary went back, and the stash pinned for it is out.
Undoing == Unwinding /\ pc \in {"repo", "restore", "delete", "pop"}
BackOff(r) == head[r] \in {mem[r].prior, "detached"}
Undone(r) ==
    /\ Undoing /\ r \in Entries(mem) \ (todo \cup failed)
    /\ cmd = "undo" => r \in Ahead
UnwindTracked ==
    /\ failed # {} => Undoing
    /\ failed \cap todo = {} /\ failed \subseteq Entries(mem)
    /\ pc = "restore" => cmd = "force"
    /\ pc \in {"delete", "pop"} => BackOff(cur)
    /\ \A r \in Repo : Undone(r) =>
         BackOff(r) /\ (mem[r].stash # 0 => stash[r][mem[r].stash] = {})

\* The entry that stands for a primary: that of the journal, or the one the
\* command is about to write.
RecordOf(r) ==
    IF journal[r] # None THEN journal[r]
    ELSE IF mem[r] # None THEN mem[r]
    ELSE IF pc = "baseline" /\ r = cur THEN draft
    ELSE None

\* The primaries on a live branch nothing names, or that go back to one: each
\* has cost a fault.
Orphan(r) ==
    /\ r \notin archived
    /\ LET e == RecordOf(r) IN
       IF e = None THEN head[r] \in Live
       ELSE e.prior \in Live \/ head[r] \in Live \ {e.temp}
Orphans == {r \in Repo : Orphan(r)}
OrphansNeedFaults ==
    /\ pc = "switch" => head[cur] = draft.prior
    /\ Cardinality(Orphans) <= faults

\* Unless something failed, or a refresh followed a reset of the slice branch, a
\* live branch is at the target of its entry or holds commits of the user.
Tracks(r, e) ==
    LET tip == refs[r][e.temp] IN
    tip # None => r \in rewound \/ tip.own # {} \/ tip = e.target
TargetsTrack ==
    faults = 0 =>
      /\ \A r \in Entries(mem) : Tracks(r, mem[r])
      /\ \A r \in Entries(journal) :
           \/ r = cur /\ pc \in {"refreshed", "synced"}
           \/ Tracks(r, journal[r])
      /\ pc = "baseline" => refs[cur][draft.temp] = draft.target

Recorded ==
    /\ JournalRemembered /\ OneAhead /\ EntriesOffTemp /\ UnwindTracked
    /\ OrphansNeedFaults /\ TargetsTrack

-----------------------------------------------------------------------------
(* What is left of the primaries as they were when the command started.    *)

LiveBranches(r) == {b \in Live : Exists(r, b)}
HeadAsStarted(r) ==
    /\ head[r] = origin[r].head /\ HeadCommit(r) = origin[r].at
    /\ LiveBranches(r) = origin[r].live

\* A repository deactivate has not come to, or refused, is as it was, unless
\* the user dropped the stash it pins.
RefusedAsStarted ==
    cmd \in {"deactivate", "force"} /\ faults = 0 =>
      /\ pc \in {"clear", "cleared"} => \A r \in Repo : HeadAsStarted(r)
      /\ \A r \in todo : pc = "repo" \/ r # cur => HeadAsStarted(r)
      /\ \A r \in failed :
           \/ mem[r].stash # 0 /\ stash[r][mem[r].stash] = {}
           \/ HeadAsStarted(r)
      /\ pc = "restore" => ~PriorBranchGone(cur)
      /\ pc = "delete" => refs[cur][mem[cur].temp] = mem[cur].target

\* The entry of an activation leads back to where the primary was, and says
\* where its uncommitted work is.
LeadsBack(r, e) ==
    /\ e.prior = origin[r].head /\ e.priorAt = origin[r].at
    /\ e.temp \notin origin[r].live
    /\ e.prior # "detached" => refs[r][e.prior] = origin[r].at
PutAside(r, e) ==
    IF e.stash = 0 THEN wt[r] = origin[r].items
    ELSE wt[r] = {} /\ stash[r][e.stash] = origin[r].items
StillHeld(r) ==
    /\ faults > 0
    /\ origin[r].items
         \subseteq wt[r] \cup UNION {stash[r][i] : i \in 1..MaxStash}
Back(r) ==
    head[r] \in {origin[r].head, "detached"} /\ HeadCommit(r) = origin[r].at
SwappedIn(r, e) ==
    /\ LeadsBack(r, e) /\ PutAside(r, e) /\ head[r] = e.temp
    /\ LiveBranches(r) = origin[r].live \cup {e.temp}

ActivationKnowsOrigin ==
    cmd = "activate" =>
      /\ \A r \in todo :
           \/ r = cur /\ pc \in {"switch", "baseline", "journal"}
           \/ HeadAsStarted(r) /\ wt[r] = origin[r].items
      /\ pc = "switch" =>
           LeadsBack(cur, draft) /\ PutAside(cur, draft) /\ HeadAsStarted(cur)
      /\ pc = "baseline" => SwappedIn(cur, draft)
      /\ \A r \in Entries(mem) : SwappedIn(r, mem[r])

RollbackKnowsOrigin ==
    cmd \in {"undo", "rollback"} =>
      /\ \A r \in Repo : mem[r] = None \/ Undone(r) =>
           /\ Back(r) /\ LiveBranches(r) = origin[r].live
           /\ origin[r].items = wt[r] \/ StillHeld(r)
      /\ \A r \in Entries(mem) :
           /\ LeadsBack(r, mem[r])
           /\ ~Undone(r) =>
                /\ PutAside(r, mem[r]) \/ StillHeld(r)
                /\ head[r] = mem[r].temp \/ Back(r)
                /\ LiveBranches(r) \ {mem[r].temp} = origin[r].live
      /\ pc = "pop" => LiveBranches(cur) = origin[cur].live
      /\ cmd = "undo" => todo \subseteq Ahead

OriginKnown == RefusedAsStarted /\ ActivationKnowsOrigin /\ RollbackKnowsOrigin

-----------------------------------------------------------------------------
(* What the primaries are as long as nothing fails, nobody touches them and *)
(* no refresh follows a reset of the slice branch.                          *)

Plain(r) == head[r] \in {"trunk", "detached"} /\ LiveBranches(r) = {}
CanUndo(r, e) ==
    /\ e.prior \in {"trunk", "detached"} /\ e.temp = "live"
    /\ e.stash # 0 => stash[r][e.stash] # {}
    /\ LiveBranches(r) \subseteq {"live"}
\* A primary is as its entry says, and as it was when it has none.
AsTaken(r, e) == IF e = None THEN Plain(r) ELSE CanUndo(r, e) /\ ValidMirror(r, e)
InHand(r) ==
    \/ r = cur /\ pc = "baseline"
    \/ r = cur /\ pc \in {"delete", "pop"} /\ CanUndo(r, mem[r])
    \/ AsTaken(r, IF Undone(r) THEN None ELSE mem[r])

\* Nothing went wrong so far.
Smooth ==
    /\ archived = {} /\ failed = {} /\ restored = {}
    /\ pc \notin {"drifted", "restore"} /\ cmd # "undo"
    /\ cmd = "activate" => opt.live = "live"
AtHand ==
    /\ pc \in {"switch", "baseline"} =>
         CanUndo(cur, draft) /\ wt[cur] = {} /\ draft.mirror = None
    /\ pc = "baseline" => head[cur] = draft.temp /\ refs[cur][draft.temp] = draft.target
    /\ pc = "delete" =>
         head[cur] = mem[cur].prior /\ refs[cur][mem[cur].temp] = mem[cur].target
    /\ pc = "pop" => Plain(cur)
Calm ==
    /\ Smooth /\ AtHand
    /\ \A r \in Repo :
         /\ Exists(r, "trunk")
         /\ IF cmd = "idle" THEN AsTaken(r, journal[r]) ELSE InHand(r)
Undisturbed == faults = 0 /\ acts = 0 /\ rewound = {} => Calm

-----------------------------------------------------------------------------

\* The invariant the proofs carry through every step.
SwapInvariant == SafeInvariant /\ Recorded /\ OriginKnown /\ Undisturbed

=============================================================================
