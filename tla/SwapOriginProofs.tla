---------------------------- MODULE SwapOriginProofs ----------------------------
(***************************************************************************)
(* What a command leaves of the primaries as it found them: a deactivation *)
(* that refuses a repository, an activation that fails and rolls back, and *)
(* the commands of a user who touches no primary.  As in the modules these *)
(* proofs build on, the user leaves the primaries alone while a command    *)
(* runs (~Racing).                                                         *)
(***************************************************************************)
EXTENDS SwapRecordProofs

USE DEF git, disk, loop, ghosts

\* A primary in which a step moves neither HEAD nor a branch but the slice's.
AsItIs(r) ==
    /\ head'[r] = head[r] /\ at'[r] = at[r]
    /\ \A x \in Branch \ {"slice"} : refs'[r][x] = refs[r][x]

LEMMA AsItIsKept ==
    ASSUME InOrder, NEW r \in Repo, AsItIs(r)
    PROVE  /\ head'[r] = head[r] /\ HeadCommit(r)' = HeadCommit(r)
           /\ LiveBranches(r)' = LiveBranches(r)
           /\ origin'[r] = origin[r] => HeadAsStarted(r)' = HeadAsStarted(r)
<1>1. head[r] # "slice" /\ head[r] \in Branch \cup {"detached"}
  BY SoundParts DEF InOrder, Sound, HeadsOffSlice, Typed, TypeOK, GitOK
<1>2. HeadCommit(r)' = HeadCommit(r)
  BY <1>1 DEF AsItIs, HeadCommit
<1>3. \A b \in Live : refs'[r][b] = refs[r][b]
  BY DEF AsItIs, Live, Branch
<1>4. LiveBranches(r)' = LiveBranches(r)
  BY <1>3 DEF LiveBranches, Exists
<1> QED BY <1>2, <1>4 DEF AsItIs, HeadAsStarted

\* A command begins with what it finds.
LEMMA BegunAsStarted ==
    ASSUME NEW c, NEW p, NEW j, NEW S, Begin(c, p, j, S), UNCHANGED git, NEW r \in Repo
    PROVE  /\ HeadAsStarted(r)' /\ origin'[r].items = wt'[r]
           /\ origin'[r].head = head[r] /\ origin'[r].at = HeadCommit(r)
           /\ origin'[r].live = LiveBranches(r)
<1>1. origin'[r] = [head |-> head[r], at |-> HeadCommit(r), items |-> wt[r],
                    live |-> {b \in Live : Exists(r, b)}]
  BY DEF Begin
<1>2. HeadCommit(r)' = HeadCommit(r) /\ LiveBranches(r)' = LiveBranches(r)
  BY DEF HeadCommit, LiveBranches, Exists
<1> QED BY <1>1, <1>2 DEF HeadAsStarted, LiveBranches

-----------------------------------------------------------------------------
(* deactivate: what it refuses is as it was.                               *)

\* Neither a step of the user in a worktree nor one of the command that reads
\* only moves a primary.
LEMMA WorktreeMovesNoHead ==
    ASSUME InOrder, UserInWorktree, NEW r \in Repo
    PROVE  AsItIs(r) /\ UNCHANGED <<wt, stash>>
<1>1. UNCHANGED <<head, at, wt, stash>>
  BY UserSteps
<1>2. UNCHANGED refs \/ \E q \in Repo : \E c : refs' = [refs EXCEPT ![q]["slice"] = c]
  BY SliceSteps DEF UserInWorktree, SourceEdit
<1>3. refs \in [Repo -> [Branch -> Commit \cup {None}]]
  BY DEF InOrder, Sound, Typed, TypeOK, GitOK
<1> QED BY <1>1, <1>2, <1>3 DEF AsItIs

\* A loop of deactivate that leaves all primaries but q alone.
LEMMA RefusedElsewhere ==
    ASSUME InOrder, RefusedAsStarted, cmd \in {"deactivate", "force"}, faults = 0,
           NEW q, UNCHANGED <<origin, mem>>,
           \A r \in Repo \ {q} : AsItIs(r) /\ stash'[r] = stash[r],
           pc \in {"repo", "restore", "delete", "pop"}, pc = "repo" \/ q = cur,
           pc' \in {"repo", "restore", "delete", "pop"},
           todo' \subseteq todo, failed' \subseteq failed \cup {q}, pc' = "repo" \/ cur' = q,
           q \in todo' => pc' # "repo" \/ HeadAsStarted(q)',
           q \in failed' => \/ mem[q].stash # 0 /\ stash'[q][mem[q].stash] = {}
                            \/ HeadAsStarted(q)',
           pc' = "restore" => ~PriorBranchGone(cur)',
           pc' = "delete" => (refs[cur][mem[cur].temp] = mem[cur].target)'
    PROVE  RefusedAsStarted'
<1>1. todo \subseteq Repo /\ failed \subseteq Repo
  BY DEF InOrder, Sound, Typed, TypeOK, CommandOK
<1>2. \A r \in todo' : (pc' = "repo" \/ r # cur') => HeadAsStarted(r)'
  BY <1>1, AsItIsKept DEF RefusedAsStarted
<1>3. \A r \in failed' : \/ mem'[r].stash # 0 /\ stash'[r][mem'[r].stash] = {}
                         \/ HeadAsStarted(r)'
  BY <1>1, AsItIsKept DEF RefusedAsStarted
<1> QED BY <1>2, <1>3 DEF RefusedAsStarted
LEMMA RefusedDeactivateRepo ==
    ASSUME InOrder, RefusedAsStarted, cmd \in {"deactivate", "force"}, faults = 0,
           NEW q \in Repo, DeactivateRepo(q)
    PROVE  RefusedAsStarted'
<1>1. /\ Undoing /\ pc = "repo" /\ q \in todo /\ q \notin failed
      /\ mem[q] \in Entry /\ mem[q] # None
      /\ UNCHANGED <<origin, mem, stash, todo, failed>>
      /\ cur' = q /\ pc' \in {"restore", "delete", "pop"}
  BY UndoingParts DEF DeactivateRepo, Undoing, RepoGoesOn
<1>2. \A r \in Repo \ {q} : AsItIs(r)
  <2>1. \A r \in Repo \ {q} : head'[r] = head[r] /\ at'[r] = at[r]
    BY DEF DeactivateRepo, RestorePriorBranch, SwitchTo, DetachAt, InOrder, Sound, Typed,
       TypeOK, GitOK
  <2>2. \A r \in Repo \ {q} : \A x \in Branch : refs'[r][x] = refs[r][x]
    <3>1. CASE refs' = [refs EXCEPT ![q][mem[q].temp] = None]
      BY <3>1 DEF InOrder, Sound, Typed, TypeOK, GitOK
    <3> QED BY <3>1, UnwindRefs
  <2> QED BY <2>1, <2>2 DEF AsItIs
<1>3. pc' = "restore" => ~PriorBranchGone(q)'
  <2> SUFFICES ASSUME pc' = "restore" PROVE ~PriorBranchGone(q)'
    OBVIOUS
  <2>1. /\ CanRescue(q)
        /\ refs' = [refs EXCEPT ![q] = [@ EXCEPT !["rescue"] = refs[q][mem[q].temp],
                                                 ![mem[q].temp] = None]]
    BY DEF DeactivateRepo, RepoGoesOn
  <2>2. (~PriorBranchGone(q) /\ mem[q].prior # "rescue") \/ mem[q].prior = "detached"
    BY <2>1 DEF CanRescue, PriorBranchGone
  <2>3. mem[q].prior # mem[q].temp
    BY <1>1 DEF InOrder, Booked, EntriesOffTemp, OffTemp
  <2>4. mem[q].prior \in Branch \cup {"detached"}
    BY <1>1, EntryFields
  <2>5. mem[q].prior # "detached" => refs'[q][mem[q].prior] = refs[q][mem[q].prior]
    BY <2>1, <2>2, <2>3, <2>4 DEF InOrder, Sound, Typed, TypeOK, GitOK
  <2> QED BY <1>1, <2>2, <2>5 DEF PriorBranchGone, Exists
<1>4. pc' = "delete" => (refs[q][mem[q].temp] = mem[q].target)'
  BY <1>1 DEF DeactivateRepo, RepoGoesOn
<1> QED BY <1>1, <1>2, <1>3, <1>4, RefusedElsewhere

LEMMA RefusedSteps ==
    ASSUME InOrder, RefusedAsStarted, cmd \in {"deactivate", "force"}, faults = 0,
           UNCHANGED faults,
           RestoreAfterRescue \/ DeleteTempBranch \/ PopPinnedStash
    PROVE  RefusedAsStarted'
<1>0. faults + 1 # faults
  BY DEF InOrder, Sound, Typed, TypeOK, GhostOK
<1>1. /\ Undoing /\ cur \in todo /\ cur \in Repo /\ cur \notin failed
      /\ mem[cur] \in Entry /\ mem[cur] # None /\ pc \in {"restore", "delete", "pop"}
      /\ UNCHANGED <<origin, mem>>
  BY UndoingParts, AtStep DEF RestoreAfterRescue, DeleteTempBranch, PopPinnedStash
<1>2. CASE RestoreAfterRescue
  <2>1. ~PriorBranchGone(cur)
    BY <1>2 DEF RestoreAfterRescue, RefusedAsStarted
  <2>2. /\ RestorePriorBranch(cur) /\ RepoGoesOn(cur, "pop") /\ UNCHANGED <<refs, stash>>
    BY <1>0, <1>2, <2>1 DEF RestoreAfterRescue, Fault
  <2>3. \A r \in Repo \ {cur} : AsItIs(r)
    BY <2>2 DEF RestorePriorBranch, SwitchTo, DetachAt, AsItIs, InOrder, Sound, Typed,
       TypeOK, GitOK
  <2> QED BY <1>1, <2>2, <2>3, RefusedElsewhere DEF RepoGoesOn
<1>3. CASE DeleteTempBranch
  <2>1. head[cur] # mem[cur].temp
    <3>1. BackOff(cur) /\ mem[cur].prior # mem[cur].temp /\ mem[cur].temp # "detached"
      BY <1>1, <1>3, AtStep, EntryBranches
      DEF DeleteTempBranch, InOrder, Booked, EntriesOffTemp, OffTemp, Live
    <3> QED BY <3>1 DEF BackOff
  <2>2. refs[cur][mem[cur].temp] = mem[cur].target
    BY <1>3 DEF DeleteTempBranch, RefusedAsStarted
  <2>3. /\ refs' = [refs EXCEPT ![cur][mem[cur].temp] = None] /\ RepoGoesOn(cur, "pop")
        /\ UNCHANGED <<head, at, stash>>
    BY <1>0, <1>3, <2>1, <2>2 DEF DeleteTempBranch, DeleteTempBranchIfAtTarget, Fault
  <2>4. \A r \in Repo \ {cur} : AsItIs(r)
    BY <2>3 DEF AsItIs, InOrder, Sound, Typed, TypeOK, GitOK
  <2> QED BY <1>1, <2>3, <2>4, RefusedElsewhere DEF RepoGoesOn
<1>4. CASE PopPinnedStash
  <2>1. /\ UNCHANGED <<head, at, refs>> /\ (RepoDone(cur) \/ RepoFails(cur))
        /\ \A r \in Repo \ {cur} : stash'[r] = stash[r]
    BY <1>4 DEF PopPinnedStash, InOrder, Sound, Typed, TypeOK, GitOK
  <2>2. RepoFails(cur) => mem[cur].stash # 0 /\ stash'[cur][mem[cur].stash] = {}
    BY <1>0, <1>1, <1>4 DEF PopPinnedStash, Fault, RepoFails, RepoDone
  <2>3. \A r \in Repo \ {cur} : AsItIs(r)
    BY <2>1 DEF AsItIs
  <2> QED BY <1>1, <2>1, <2>2, <2>3, RefusedElsewhere DEF RepoDone, RepoFails
<1> QED BY <1>2, <1>3, <1>4

\* Where deactivate comes from.
LEMMA DeactivateSteps ==
    ASSUME ~Racing, InOrder, [Next]_vars, cmd' \in {"deactivate", "force"}, UNCHANGED faults
    PROVE  \/ \E c \in {"deactivate", "force"} :
                StartDeactivate(c) \/ StartDeactivateDrifted(c)
           \/ /\ cmd' = cmd
              /\ \/ \E r \in Repo : \/ ClearWorkingMirror(r) \/ ClearWorkingMirrorFails(r)
                                    \/ DeactivateRepo(r) \/ DeactivateRepoFails(r)
                 \/ SaveCleared \/ MirrorsCleared
                 \/ RestoreAfterRescue \/ DeleteTempBranch \/ PopPinnedStash
                 \/ UserInWorktree \/ UNCHANGED vars
<1>0. pc = "idle" <=> cmd = "idle"
  BY DEF InOrder, Sound, Typed, Control, PcFitsCommand
<1>1. CASE StartCommand \/ SyncRound
  <2>1. CASE StartMirror \/ RecoverActivation \/ DoctorDropsStaleJournal \/ SyncRefused
             \/ \E r \in Repo : DoctorDropsOrphan(r)
    BY <2>1 DEF StartMirror, RecoverActivation, DoctorDropsStaleJournal, SyncRefused,
       DoctorDropsOrphan
  <2> QED BY <1>1, <2>1 DEF StartCommand, SyncRound, StartActivate, Begin,
          StartRefresh, StartSync, StartSyncDrifted
<1>2. CASE Activate
  <2>1. cmd = "activate"
    BY <1>2 DEF Activate, ActivateRepo, ActivateRefused, StashNotPinned, SwitchToLive,
       SwitchToLiveFails, CaptureBaseline, CaptureBaselineFails, JournalActivated,
       JournalActivatedFails, FinishActivate, InOrder, Sound, Typed, Control, PcFitsCommand
  <2>2. cmd' \in {cmd, "idle", "undo", "rollback"}
    BY <1>2 DEF Activate, ActivateRepo, ActivateRefused, StashNotPinned, SwitchToLive,
       SwitchToLiveFails, CaptureBaseline, CaptureBaselineFails, JournalActivated,
       JournalActivatedFails, FinishActivate, Quit, EndOfCommand, Unwind
  <2> QED BY <2>1, <2>2
<1>3. CASE Deactivate
  BY <1>3 DEF Deactivate, ClearWorkingMirror, ClearWorkingMirrorFails, SaveCleared,
     MirrorsCleared, ArchiveDrift, Quit, EndOfCommand
<1>4. CASE Unwinds
  BY <1>4 DEF Unwinds, DeactivateRepo, DeactivateRepoFails, RestoreAfterRescue,
     DeleteTempBranch, PopPinnedStash, FinishUndo, FinishUnwind, Quit, EndOfCommand, Unwind
<1>5. CASE Refresh \/ Sync
  <2>1. cmd \in {"refresh", "sync"} /\ cmd' \in {cmd, "idle"}
    BY <1>5 DEF Refresh, RefreshRepo, RefreshRepoFails, SaveRefreshed, FinishRefresh, Sync,
       SyncSkip, SyncApply, SyncApplyFails, SaveSynced, Quit, EndOfCommand,
       InOrder, Sound, Typed, Control, PcFitsCommand
  <2> QED BY <2>1
<1>6. CASE Crash
  BY <1>6 DEF Crash, Quit, EndOfCommand
<1>7. CASE User \/ UNCHANGED vars
  BY <1>7, UserSteps DEF vars
<1> QED BY <1>1, <1>2, <1>3, <1>4, <1>5, <1>6, <1>7 DEF Next, CommandStep

LEMMA NextRefused ==
    ASSUME ~Racing, InOrder, RefusedAsStarted, [Next]_vars
    PROVE  RefusedAsStarted'
<1> SUFFICES ASSUME cmd' \in {"deactivate", "force"}, faults' = 0
             PROVE  RefusedAsStarted'
  BY DEF RefusedAsStarted
<1>1. faults \in Nat /\ faults + 1 # faults /\ todo \subseteq Repo /\ failed \subseteq Repo
  BY ConstantsAssumption DEF InOrder, Sound, Typed, TypeOK, GhostOK, CommandOK
<1>2. faults = 0 /\ UNCHANGED faults
  BY <1>1, FaultsGrow
<1>3. CASE \E c \in {"deactivate", "force"} :
             StartDeactivate(c) \/ StartDeactivateDrifted(c)
  <2>1. /\ \A r \in Repo : HeadAsStarted(r)'
        /\ failed' = {} /\ pc' \in {"clear", "drifted"} /\ todo' \subseteq Repo
    BY <1>3, BegunAsStarted DEF StartDeactivate, StartDeactivateDrifted, Begin,
       MirroredEntries, Entries
  <2> QED BY <2>1 DEF RefusedAsStarted
<1>4. CASE /\ cmd' = cmd
           /\ \/ \E r \in Repo : ClearWorkingMirror(r) \/ ClearWorkingMirrorFails(r)
              \/ SaveCleared \/ MirrorsCleared
  <2>1. /\ pc \in {"clear", "cleared"} /\ UNCHANGED <<origin, head, at, refs, failed>>
        /\ pc' \in {"clear", "cleared", "drifted", "repo"} /\ todo' \subseteq Repo
    BY <1>1, <1>2, <1>4 DEF ClearWorkingMirror, ClearWorkingMirrorFails, SaveCleared,
       MirrorsCleared, Quit, EndOfCommand, Entries, Fault
  <2>2. \A r \in Repo : HeadAsStarted(r)'
    BY <1>2, <1>4, <2>1, AsItIsKept DEF AsItIs, RefusedAsStarted
  <2>3. failed' = {}
    BY <2>1 DEF InOrder, Booked, UnwindTracked, Undoing
  <2> QED BY <2>1, <2>2, <2>3 DEF RefusedAsStarted
<1>5. CASE cmd' = cmd /\ \E r \in Repo : DeactivateRepoFails(r)
  <2>1. PICK q \in Repo : DeactivateRepoFails(q)
    BY <1>5
  <2>2. /\ pc = "repo" /\ q \in todo /\ RepoFails(q) /\ UNCHANGED <<git, origin, mem>>
    BY <2>1 DEF DeactivateRepoFails
  <2>3. \A r \in Repo : AsItIs(r)
    BY <2>2 DEF AsItIs
  <2>4. HeadAsStarted(q)'
    BY <1>2, <1>5, <2>2, <2>3, AsItIsKept DEF RefusedAsStarted
  <2> QED BY <1>2, <1>5, <2>2, <2>3, <2>4, RefusedElsewhere DEF RepoFails
<1>6. CASE cmd' = cmd /\ (UserInWorktree \/ UNCHANGED vars)
  <2>1. UNCHANGED <<cmd, pc, cur, todo, failed, mem, origin>>
    BY <1>6, UserSteps DEF vars
  <2>2. ASSUME NEW r \in Repo
        PROVE  AsItIs(r) /\ UNCHANGED stash
    BY <1>6, WorktreeMovesNoHead DEF vars, AsItIs
  <2>3. pc = "restore" => /\ cur \in Repo /\ mem[cur] \in Entry
                          /\ mem[cur].prior \in Branch \cup {"detached"}
                          /\ mem[cur].prior # "slice"
    BY AtStep, SoundParts, EntryFields, NoneAssumption DEF InOrder, AllFine, Fine, OffSlice
  <2>4. pc' = "restore" => ~PriorBranchGone(cur)'
    BY <1>2, <1>6, <2>1, <2>2, <2>3 DEF RefusedAsStarted, AsItIs, PriorBranchGone, Exists
  <2>5. pc = "delete" => /\ cur \in Repo /\ mem[cur].temp \in Branch \ {"slice"}
    BY AtStep, EntryFields DEF Live, Branch
  <2>6. pc' = "delete" => (refs[cur][mem[cur].temp] = mem[cur].target)'
    BY <1>2, <1>6, <2>1, <2>2, <2>5 DEF RefusedAsStarted, AsItIs
  <2>7. \A r \in Repo : HeadAsStarted(r)' = HeadAsStarted(r)
    BY <2>1, <2>2, AsItIsKept
  <2>8. \A r \in Repo : stash'[r] = stash[r]
    BY <2>2
  <2> QED BY <1>1, <1>2, <1>6, <2>1, <2>4, <2>6, <2>7, <2>8 DEF RefusedAsStarted
<1> QED BY <1>2, <1>3, <1>4, <1>5, <1>6, DeactivateSteps, RefusedDeactivateRepo, RefusedSteps

\* A repository deactivate refuses is left with no branch moved, created or
\* renamed and HEAD where it was, unless git failed half way or the user had
\* dropped the stash it pins (engine.go:157-159).
THEOREM RefusalsChangeNothing ==
    ASSUME ~Racing, ~DetachedCommits
    PROVE  Spec => []RefusalChangesNothing
<1> DEFINE Inv == InOrder /\ RefusedAsStarted
<1>1. Init => Inv
  <2>1. Init => RefusedAsStarted
    BY DEF Init, RefusedAsStarted
  <2> QED BY <2>1, InitKept
<1>2. Inv /\ [Next]_vars => Inv'
  BY NextKept, NextRefused
<1>3. Inv => RefusalChangesNothing
  BY DEF RefusedAsStarted, RefusalChangesNothing, HeadAsStarted, LiveBranches
<1> QED BY <1>1, <1>2, <1>3, PTL DEF Spec

-----------------------------------------------------------------------------
(* activate: every entry leads back to where its primary was.              *)

\* An entry that leads neither to the slice nor to the branch it names.
Usable(e) == e \in Entry /\ e.prior # "slice" /\ e.prior # e.temp

LEMMA EntriesUsable ==
    ASSUME InOrder
    PROVE  /\ \A r \in Repo : mem[r] # None => Usable(mem[r])
           /\ draft # None => Usable(draft)
BY SoundParts DEF Usable, InOrder, Sound, Typed, TypeOK, CommandOK, Booked, EntriesOffTemp,
   OffTemp, AllFine, Fine, OffSlice

LEMMA UsableFields ==
    ASSUME NEW e, Usable(e)
    PROVE  /\ e.prior \in (Branch \ {"slice"}) \cup {"detached"} /\ e.prior # e.temp
           /\ e.temp \in Live /\ e.temp \in Branch /\ e.temp \notin {"slice", "detached"}
           /\ e.stash \in 0..MaxStash
BY EntryFields DEF Usable, Live, Branch

\* What was known of a primary a step leaves alone.
LEMMA StillKnown ==
    ASSUME InOrder, NEW r \in Repo, AsItIs(r), wt'[r] = wt[r], stash'[r] = stash[r],
           origin'[r] = origin[r]
    PROVE  /\ HeadAsStarted(r)' = HeadAsStarted(r)
           /\ Back(r)' = Back(r) /\ LiveBranches(r)' = LiveBranches(r)
           /\ \A e : Usable(e) => /\ LeadsBack(r, e) => LeadsBack(r, e)'
                                  /\ PutAside(r, e) => PutAside(r, e)'
                                  /\ SwappedIn(r, e) => SwappedIn(r, e)'
<1>1. /\ head'[r] = head[r] /\ HeadCommit(r)' = HeadCommit(r)
      /\ LiveBranches(r)' = LiveBranches(r) /\ HeadAsStarted(r)' = HeadAsStarted(r)
  BY AsItIsKept
<1>2. Back(r)' = Back(r)
  BY <1>1 DEF Back
<1>3. ASSUME NEW e, Usable(e)
      PROVE  /\ LeadsBack(r, e) => LeadsBack(r, e)'
             /\ PutAside(r, e) => PutAside(r, e)'
             /\ SwappedIn(r, e) => SwappedIn(r, e)'
  <2>1. LeadsBack(r, e) => LeadsBack(r, e)'
    BY <1>3, UsableFields DEF LeadsBack, AsItIs
  <2>2. PutAside(r, e) => PutAside(r, e)'
    BY DEF PutAside
  <2> QED BY <1>1, <2>1, <2>2 DEF SwappedIn
<1> QED BY <1>1, <1>2, <1>3

LEMMA StartActivateKnows ==
    ASSUME InOrder, NEW f \in BOOLEAN, StartActivate(f)
    PROVE  ActivationKnowsOrigin'
<1>1. /\ \A r \in Repo : HeadAsStarted(r)' /\ origin'[r].items = wt'[r]
      /\ pc' = "repo" /\ mem' = Empty /\ todo' = Repo
  BY BegunAsStarted DEF StartActivate, Begin
<1> QED BY <1>1 DEF ActivationKnowsOrigin, Entries, Empty

LEMMA ActivateRepoKnows ==
    ASSUME InOrder, Typed', ActivationKnowsOrigin, NEW q \in Repo, ActivateRepo(q)
    PROVE  ActivationKnowsOrigin'
<1>1. /\ cmd = "activate" /\ pc = "repo" /\ q \in todo /\ ~Exists(q, opt.live)
      /\ pc' = "switch" /\ cur' = q
      /\ UNCHANGED <<head, at, refs, cmd, todo, mem, origin>>
      /\ wt[q] # {} => opt.stash
  BY DEF ActivateRepo, IsDirty
<1>2. HeadAsStarted(q) /\ wt[q] = origin[q].items
  BY <1>1 DEF ActivationKnowsOrigin
<1>3. /\ \A r \in Repo \ {q} : wt'[r] = wt[r] /\ stash'[r] = stash[r]
      /\ \A r \in Repo : AsItIs(r)
  BY <1>1 DEF ActivateRepo, AsItIs, InOrder, Sound, Typed, TypeOK, GitOK
<1>4. HeadAsStarted(q)'
  BY <1>1, <1>2, <1>3, AsItIsKept
<1>5. /\ draft'.prior = head[q] /\ draft'.priorAt = HeadCommit(q)
      /\ draft'.stash = (IF IsDirty(q) THEN pushed[q] + 1 ELSE 0)
      /\ draft'.temp = opt.live
  BY DEF ActivateRepo
<1>6. ASSUME NEW e, e = draft'
      PROVE  LeadsBack(q, e)'
  <2>1. opt.live \notin origin[q].live
    BY <1>1, <1>2 DEF HeadAsStarted, LiveBranches, InOrder, Sound, Typed, TypeOK, CommandOK
  <2>2. head[q] # "detached" => refs[q][head[q]] = origin[q].at
    BY <1>2 DEF HeadAsStarted, HeadCommit
  <2> QED BY <1>1, <1>2, <1>5, <1>6, <2>1, <2>2 DEF LeadsBack, HeadAsStarted
<1>7. ASSUME NEW e, e = draft'
      PROVE  PutAside(q, e)'
  <2>1. CASE IsDirty(q)
    <3>1. pushed[q] < MaxStash
      BY <1>1, <2>1 DEF IsDirty, InOrder, Sound, Typed, Control, StashRoom
    <3>2. pushed[q] \in Nat /\ pushed[q] + 1 \in 1..MaxStash /\ pushed[q] + 1 # 0
      BY <3>1, ConstantsAssumption DEF InOrder, Sound, Typed, TypeOK, GitOK
    <3>3. wt'[q] = {} /\ stash'[q][pushed[q] + 1] = wt[q]
      <4>1. /\ wt' = [wt EXCEPT ![q] = {}]
            /\ stash' = [stash EXCEPT ![q][pushed[q] + 1] = wt[q]]
        BY <2>1 DEF ActivateRepo
      <4>2. /\ wt \in [Repo -> SUBSET Item]
            /\ stash \in [Repo -> [1..MaxStash -> SUBSET Item]]
        BY DEF InOrder, Sound, Typed, TypeOK, GitOK
      <4> QED BY <3>2, <4>1, <4>2
    <3> QED BY <1>1, <1>2, <1>5, <1>7, <2>1, <3>2, <3>3 DEF PutAside
  <2>2. CASE ~IsDirty(q)
    <3>1. UNCHANGED wt
      BY <2>2 DEF ActivateRepo
    <3> QED BY <1>1, <1>2, <1>5, <1>7, <2>2, <3>1 DEF PutAside
  <2> QED BY <2>1, <2>2
<1>8. ASSUME NEW r \in Repo, mem[r] # None
      PROVE  SwappedIn(r, mem[r])'
  <2>1. r # q /\ SwappedIn(r, mem[r]) /\ Usable(mem[r])
    BY <1>1, <1>8, ActivateMemory, EntriesUsable DEF ActivationKnowsOrigin, Entries
  <2>2. ASSUME NEW x, x = mem[r] PROVE SwappedIn(r, x)'
    BY <1>1, <1>3, <2>1, <2>2, StillKnown
  <2> QED BY <1>1, <2>2 DEF SwappedIn, LeadsBack, PutAside
<1>9. ASSUME NEW r \in todo, r # q
      PROVE  HeadAsStarted(r)' /\ wt'[r] = origin'[r].items
  <2>1. r \in Repo /\ HeadAsStarted(r) /\ wt[r] = origin[r].items
    BY <1>1, <1>9 DEF ActivationKnowsOrigin, InOrder, Sound, Typed, TypeOK, CommandOK
  <2> QED BY <1>1, <1>3, <1>9, <2>1, StillKnown
<1>10. LeadsBack(cur, draft)' /\ PutAside(cur, draft)' /\ HeadAsStarted(cur)'
  BY <1>1, <1>4, <1>5, <1>6, <1>7 DEF LeadsBack, PutAside, HeadAsStarted
<1> QED BY <1>1, <1>8, <1>9, <1>10 DEF ActivationKnowsOrigin, Entries

\* An entry in memory, once more after a step that left its primary alone.
LEMMA EntryStillIn ==
    ASSUME InOrder, NEW r \in Repo, AsItIs(r), wt'[r] = wt[r], stash'[r] = stash[r],
           origin'[r] = origin[r], mem[r] # None, mem'[r] = mem[r], SwappedIn(r, mem[r])
    PROVE  SwappedIn(r, mem[r])'
<1>1. ASSUME NEW x, x = mem[r] PROVE SwappedIn(r, x)'
  BY <1>1, EntriesUsable, StillKnown
<1> QED BY <1>1 DEF SwappedIn, LeadsBack, PutAside

LEMMA SwitchKnows ==
    ASSUME InOrder, ActivationKnowsOrigin, SwitchToLive
    PROVE  ActivationKnowsOrigin'
<1>1. /\ cmd = "activate" /\ pc = "switch" /\ pc' \in {"baseline", "journal"}
      /\ cur \in Repo /\ cur \in todo /\ mem[cur] = None /\ draft # None
      /\ UNCHANGED <<wt, stash, cmd, cur, todo, origin>>
      /\ ~Exists(cur, draft.temp)
      /\ head' = [head EXCEPT ![cur] = draft.temp] /\ at' = [at EXCEPT ![cur] = None]
      /\ refs' = [refs EXCEPT ![cur][draft.temp] = draft.target]
  BY InActivation, NoneAssumption DEF SwitchToLive, SwitchTo
<1>2. Usable(draft)
  BY <1>1, EntriesUsable
<1>3. LeadsBack(cur, draft) /\ PutAside(cur, draft) /\ HeadAsStarted(cur)
  BY <1>1 DEF ActivationKnowsOrigin
<1>4. /\ \A r \in Repo \ {cur} : AsItIs(r)
      /\ \A x \in Branch : refs'[cur][x] = IF x = draft.temp THEN draft.target ELSE refs[cur][x]
      /\ head'[cur] = draft.temp
  BY <1>1, <1>2, UsableFields DEF AsItIs, InOrder, Sound, Typed, TypeOK, GitOK
<1>5. ASSUME NEW q \in Repo, q = cur, NEW e, e.prior = draft.prior, e.priorAt = draft.priorAt,
             e.stash = draft.stash, e.temp = draft.temp
      PROVE  SwappedIn(q, e)'
  <2>1. LeadsBack(q, e)'
    BY <1>1, <1>2, <1>3, <1>4, <1>5, UsableFields DEF LeadsBack
  <2>2. PutAside(q, e)'
    BY <1>1, <1>3, <1>5 DEF PutAside
  <2>3. LiveBranches(q)' = origin[q].live \cup {e.temp}
    <3>1. draft.target # None
      BY <1>2, EntryFields, NoneAssumption DEF Usable
    <3>2. \A b \in Live : refs'[q][b] = IF b = e.temp THEN draft.target ELSE refs[q][b]
      BY <1>4, <1>5 DEF Live, Branch
    <3>3. LiveBranches(q)' = LiveBranches(q) \cup {e.temp}
      BY <1>2, <1>5, <3>1, <3>2, UsableFields DEF LiveBranches, Exists
    <3> QED BY <1>3, <1>5, <3>3 DEF HeadAsStarted
  <2> QED BY <1>1, <1>4, <1>5, <2>1, <2>2, <2>3 DEF SwappedIn
<1>6. \A r \in Repo \ {cur} : mem'[r] = mem[r]
  BY <1>1 DEF SwitchToLive, InOrder, Sound, Typed, TypeOK, CommandOK
<1>7. \/ pc' = "baseline" /\ draft' = draft /\ mem'[cur] = None
      \/ pc' = "journal" /\ mem'[cur] = draft
  BY <1>1 DEF SwitchToLive, InOrder, Sound, Typed, TypeOK, CommandOK
<1>8. ASSUME NEW r \in Repo, mem'[r] # None
      PROVE  SwappedIn(r, mem[r])'
  <2>1. CASE r = cur
    <3>1. ASSUME NEW e, e = mem'[r] PROVE SwappedIn(r, e)'
      BY <1>5, <1>7, <1>8, <2>1, <3>1
    <3> QED BY <3>1 DEF SwappedIn, LeadsBack, PutAside
  <2>2. CASE r # cur
    <3>1. SwappedIn(r, mem[r]) /\ mem[r] # None
      BY <1>1, <1>6, <1>8, <2>2 DEF ActivationKnowsOrigin, Entries
    <3> QED BY <1>1, <1>4, <1>6, <2>2, <3>1, EntryStillIn
  <2> QED BY <2>1, <2>2
<1>9. ASSUME pc' = "baseline"
      PROVE  SwappedIn(cur, draft)'
  <2>1. ASSUME NEW q \in Repo, q = cur, NEW e, e = draft' PROVE SwappedIn(q, e)'
    BY <1>5, <1>7, <1>9, <2>1
  <2> QED BY <1>1, <2>1 DEF SwappedIn, LeadsBack, PutAside
<1>10. ASSUME NEW r \in todo, r # cur
       PROVE  HeadAsStarted(r)' /\ wt'[r] = origin'[r].items
  <2>1. r \in Repo /\ HeadAsStarted(r) /\ wt[r] = origin[r].items
    BY <1>1, <1>10 DEF ActivationKnowsOrigin, InOrder, Sound, Typed, TypeOK, CommandOK
  <2> QED BY <1>1, <1>4, <1>10, <2>1, StillKnown
<1> QED BY <1>1, <1>8, <1>9, <1>10 DEF ActivationKnowsOrigin, Entries

LEMMA CaptureKnows ==
    ASSUME InOrder, ActivationKnowsOrigin, CaptureBaseline
    PROVE  ActivationKnowsOrigin'
<1>1. /\ cmd = "activate" /\ pc = "baseline" /\ pc' = "journal"
      /\ cur \in Repo /\ cur \in todo /\ mem[cur] = None /\ draft \in Entry
      /\ UNCHANGED <<head, at, refs, wt, stash, cmd, cur, todo, origin>>
      /\ mem' = [mem EXCEPT ![cur] = [draft EXCEPT !.mirror = CaptureSnapshot(cur)]]
  BY InActivation DEF CaptureBaseline
<1>2. \A r \in Repo : AsItIs(r)
  BY <1>1 DEF AsItIs
<1>3. \A r \in Repo \ {cur} : mem'[r] = mem[r]
  BY <1>1 DEF InOrder, Sound, Typed, TypeOK, CommandOK
<1>4. /\ mem'[cur].prior = draft.prior /\ mem'[cur].priorAt = draft.priorAt
      /\ mem'[cur].stash = draft.stash /\ mem'[cur].temp = draft.temp
  BY <1>1 DEF InOrder, Sound, Typed, TypeOK, CommandOK, Entry
<1>5. SwappedIn(cur, draft)
  BY <1>1 DEF ActivationKnowsOrigin
<1>6. ASSUME NEW r \in Repo, mem'[r] # None
      PROVE  SwappedIn(r, mem[r])'
  <2>1. CASE r = cur
    BY <1>1, <1>2, <1>4, <1>5, <2>1, AsItIsKept DEF SwappedIn, LeadsBack, PutAside
  <2>2. CASE r # cur
    <3>1. SwappedIn(r, mem[r]) /\ mem[r] # None
      BY <1>1, <1>3, <1>6, <2>2 DEF ActivationKnowsOrigin, Entries
    <3> QED BY <1>1, <1>2, <1>3, <2>2, <3>1, EntryStillIn
  <2> QED BY <2>1, <2>2
<1>7. ASSUME NEW r \in todo, r # cur
      PROVE  HeadAsStarted(r)' /\ wt'[r] = origin'[r].items
  <2>1. r \in Repo /\ HeadAsStarted(r) /\ wt[r] = origin[r].items
    BY <1>1, <1>7 DEF ActivationKnowsOrigin, InOrder, Sound, Typed, TypeOK, CommandOK
  <2> QED BY <1>1, <1>2, <2>1, StillKnown
<1> QED BY <1>1, <1>6, <1>7 DEF ActivationKnowsOrigin, Entries

\* The command goes on with no primary, or is done with the one it saved.
LEMMA ActivationGoesOn ==
    ASSUME InOrder, ActivationKnowsOrigin, cmd = "activate",
           UNCHANGED <<cmd, mem, draft, origin, wt, stash>>, todo' \subseteq todo,
           \/ UNCHANGED <<pc, cur>>
           \/ pc = "journal" /\ pc' = "repo" /\ cur \notin todo',
           \A r \in Repo : AsItIs(r)
    PROVE  ActivationKnowsOrigin'
<1>0. todo \subseteq Repo
  BY DEF InOrder, Sound, Typed, TypeOK, CommandOK
<1>1. ASSUME NEW r \in Repo
      PROVE  /\ wt'[r] = wt[r] /\ stash'[r] = stash[r] /\ origin'[r] = origin[r]
             /\ HeadAsStarted(r)' = HeadAsStarted(r)
  BY <1>1, StillKnown
<1>2. ASSUME NEW r \in todo', ~(r = cur' /\ pc' \in {"switch", "baseline", "journal"})
      PROVE  HeadAsStarted(r)' /\ wt'[r] = origin'[r].items
  BY <1>0, <1>1, <1>2 DEF ActivationKnowsOrigin
<1>3. ASSUME NEW r \in Repo, mem[r] # None
      PROVE  SwappedIn(r, mem[r])'
  BY <1>1, <1>3, EntryStillIn DEF ActivationKnowsOrigin, Entries
<1>4. CASE pc' \in {"switch", "baseline"}
  <2>1. pc' = pc /\ cur' = cur /\ cur \in Repo /\ Usable(draft)
    BY <1>4, InActivation, EntriesUsable, NoneAssumption
  <2>2. ASSUME NEW q, q = cur, NEW e, e = draft
        PROVE  /\ pc = "switch" => LeadsBack(q, e)' /\ PutAside(q, e)' /\ HeadAsStarted(q)'
               /\ pc = "baseline" => SwappedIn(q, e)'
    BY <1>1, <2>1, <2>2, StillKnown DEF ActivationKnowsOrigin
  <2>3. /\ pc = "switch" => LeadsBack(cur, draft)' /\ PutAside(cur, draft)'
                            /\ HeadAsStarted(cur)'
        /\ pc = "baseline" => SwappedIn(cur, draft)'
    BY <2>1, <2>2 DEF LeadsBack, PutAside, HeadAsStarted, SwappedIn
  <2> QED BY <1>2, <1>3, <2>1, <2>3 DEF ActivationKnowsOrigin, Entries
<1> QED BY <1>2, <1>3, <1>4 DEF ActivationKnowsOrigin, Entries

\* Where activate, and the unwinding of one that failed, come from.
LEMMA ActivationSteps ==
    ASSUME ~Racing, InOrder, [Next]_vars, cmd' \in {"activate", "undo", "rollback"}
    PROVE  \/ \E f \in BOOLEAN : StartActivate(f)
           \/ /\ cmd = "activate"
              /\ \/ \E r \in Repo : \/ ActivateRepo(r) \/ ActivateRefused(r)
                                    \/ StashNotPinned(r)
                 \/ SwitchToLive \/ SwitchToLiveFails
                 \/ CaptureBaseline \/ CaptureBaselineFails
                 \/ JournalActivated \/ JournalActivatedFails
           \/ FinishUndo
           \/ /\ cmd' = cmd /\ cmd \in {"undo", "rollback"}
              /\ \/ \E r \in Repo : DeactivateRepo(r) \/ DeactivateRepoFails(r)
                 \/ DeleteTempBranch \/ PopPinnedStash
           \/ cmd' = cmd /\ (UserInWorktree \/ UNCHANGED vars)
<1>0. pc = "idle" <=> cmd = "idle"
  BY DEF InOrder, Sound, Typed, Control, PcFitsCommand
<1>1. CASE StartCommand \/ SyncRound
  <2>1. CASE StartMirror \/ RecoverActivation \/ DoctorDropsStaleJournal \/ SyncRefused
             \/ \E r \in Repo : DoctorDropsOrphan(r)
    BY <2>1 DEF StartMirror, RecoverActivation, DoctorDropsStaleJournal, SyncRefused,
       DoctorDropsOrphan
  <2> QED BY <1>1, <2>1 DEF StartCommand, SyncRound, StartDeactivate,
          StartDeactivateDrifted, Begin, StartRefresh, StartSync, StartSyncDrifted
<1>2. CASE Activate
  <2>1. cmd = "activate"
    BY <1>2 DEF Activate, ActivateRepo, ActivateRefused, StashNotPinned, SwitchToLive,
       SwitchToLiveFails, CaptureBaseline, CaptureBaselineFails, JournalActivated,
       JournalActivatedFails, FinishActivate, InOrder, Sound, Typed, Control, PcFitsCommand
  <2>2. ~FinishActivate
    BY DEF FinishActivate, Quit, EndOfCommand
  <2> QED BY <1>2, <2>1, <2>2 DEF Activate
<1>3. CASE Deactivate
  <2>1. cmd \in {"deactivate", "force", "sync"} /\ cmd' \in {cmd, "idle"}
    BY <1>3 DEF Deactivate, ClearWorkingMirror, ClearWorkingMirrorFails, SaveCleared,
       MirrorsCleared, ArchiveDrift, Quit, EndOfCommand, InOrder, Sound, Typed, Control,
       PcFitsCommand
  <2> QED BY <2>1
<1>4. CASE Unwinds
  <2>1. CASE FinishUndo
    BY <2>1
  <2>2. CASE FinishUnwind
    BY <2>2 DEF FinishUnwind, Quit, EndOfCommand
  <2>3. CASE RestoreAfterRescue
    <3>1. cmd = "force" /\ cmd' = cmd
      BY <2>3 DEF RestoreAfterRescue, InOrder, Booked, UnwindTracked
    <3> QED BY <3>1
  <2>4. CASE \/ \E r \in Repo : DeactivateRepo(r) \/ DeactivateRepoFails(r)
             \/ DeleteTempBranch \/ PopPinnedStash
    <3>1. cmd' = cmd /\ Unwinding
      BY <2>4 DEF DeactivateRepo, DeactivateRepoFails, DeleteTempBranch, PopPinnedStash,
         InOrder, Sound, Typed, Control, PcFitsCommand
    <3> QED BY <2>4, <3>1 DEF Unwinding
  <2> QED BY <1>4, <2>1, <2>2, <2>3, <2>4 DEF Unwinds
<1>5. CASE Refresh \/ Sync
  <2>1. cmd \in {"refresh", "sync"} /\ cmd' \in {cmd, "idle"}
    BY <1>5 DEF Refresh, RefreshRepo, RefreshRepoFails, SaveRefreshed, FinishRefresh, Sync,
       SyncSkip, SyncApply, SyncApplyFails, SaveSynced, Quit, EndOfCommand,
       InOrder, Sound, Typed, Control, PcFitsCommand
  <2> QED BY <2>1
<1>6. CASE Crash
  BY <1>6 DEF Crash, Quit, EndOfCommand
<1>7. CASE User \/ UNCHANGED vars
  BY <1>7, UserSteps DEF vars
<1> QED BY <1>1, <1>2, <1>3, <1>4, <1>5, <1>6, <1>7 DEF Next, CommandStep

LEMMA NextActivation ==
    ASSUME ~Racing, InOrder, Typed', ActivationKnowsOrigin, [Next]_vars
    PROVE  ActivationKnowsOrigin'
<1> SUFFICES ASSUME cmd' = "activate" PROVE ActivationKnowsOrigin'
  BY DEF ActivationKnowsOrigin
<1>1. ASSUME NEW r \in Repo, ActivateRefused(r) \/ StashNotPinned(r) PROVE FALSE
  BY <1>1 DEF ActivateRefused, StashNotPinned, Unwind
<1>2. ~(SwitchToLiveFails \/ CaptureBaselineFails \/ JournalActivatedFails \/ FinishUndo)
  BY DEF SwitchToLiveFails, CaptureBaselineFails, JournalActivatedFails, FinishUndo, Unwind
<1>3. CASE JournalActivated
  <2>1. /\ cmd = "activate" /\ UNCHANGED <<git, cmd, mem, draft, origin>>
        /\ pc = "journal" /\ pc' = "repo" /\ todo' = todo \ {cur}
    BY <1>3 DEF JournalActivated
  <2>2. \A r \in Repo : AsItIs(r)
    BY <2>1 DEF AsItIs
  <2> QED BY <2>1, <2>2, ActivationGoesOn
<1>4. CASE cmd' = cmd /\ (UserInWorktree \/ UNCHANGED vars)
  <2>1. UNCHANGED <<cmd, pc, cur, todo, mem, draft, origin, wt, stash>>
    BY <1>4, UserSteps DEF vars
  <2>2. \A r \in Repo : AsItIs(r)
    BY <1>4, WorktreeMovesNoHead DEF vars, AsItIs
  <2> QED BY <1>4, <2>1, <2>2, ActivationGoesOn
<1> QED BY <1>1, <1>2, <1>3, <1>4, ActivationSteps, StartActivateKnows, ActivateRepoKnows,
           SwitchKnows, CaptureKnows

-----------------------------------------------------------------------------
(* The rollback of an activation that failed.                              *)

\* A primary that is back where it was, and one that can still be put back.
IsRestored(r) ==
    /\ Back(r) /\ LiveBranches(r) = origin[r].live
    /\ origin[r].items = wt[r] \/ StillHeld(r)
CanGoBack(r) ==
    /\ PutAside(r, mem[r]) \/ StillHeld(r)
    /\ head[r] = mem[r].temp \/ Back(r)
    /\ LiveBranches(r) \ {mem[r].temp} = origin[r].live

LEMMA RollbackParts ==
    RollbackKnowsOrigin <=>
      (cmd \in {"undo", "rollback"} =>
         /\ \A r \in Repo : mem[r] = None \/ Undone(r) => IsRestored(r)
         /\ \A r \in Entries(mem) : LeadsBack(r, mem[r]) /\ (~Undone(r) => CanGoBack(r))
         /\ pc = "pop" => LiveBranches(cur) = origin[cur].live
         /\ cmd = "undo" => todo \subseteq Ahead)
BY DEF RollbackKnowsOrigin, IsRestored, CanGoBack

LEMMA RollbackPartsNext ==
    RollbackKnowsOrigin' <=>
      (cmd' \in {"undo", "rollback"} =>
         /\ \A r \in Repo : mem'[r] = None \/ Undone(r)' => IsRestored(r)'
         /\ \A r \in Entries(mem)' :
              LeadsBack(r, mem[r])' /\ (~Undone(r)' => CanGoBack(r)')
         /\ pc' = "pop" => (LiveBranches(cur) = origin[cur].live)'
         /\ cmd' = "undo" => todo' \subseteq Ahead')
BY DEF RollbackKnowsOrigin, IsRestored, CanGoBack, Back, LeadsBack, PutAside, StillHeld,
   LiveBranches, Exists, Entries

\* What a primary in its prior place, or not yet in it, is to a rollback.
LEMMA StartedIsRestored ==
    ASSUME NEW r \in Repo, HeadAsStarted(r), wt[r] = origin[r].items
    PROVE  IsRestored(r)
BY DEF IsRestored, HeadAsStarted, Back

LEMMA SwappedCanGoBack ==
    ASSUME NEW r \in Repo, SwappedIn(r, mem[r])
    PROVE  LeadsBack(r, mem[r]) /\ CanGoBack(r)
BY DEF CanGoBack, SwappedIn, LeadsBack

\* A rollback begins with every primary in memory swapped in, or still to be.
LEMMA UnwindKnows ==
    ASSUME NEW c \in {"undo", "rollback"}, NEW j, NEW S, Unwind(c, j, S),
           \/ c = "rollback" /\ S = {r \in Repo : j[r] # None}
           \/ c = "undo" /\ S = {r \in Repo : j[r] # None /\ journal'[r] = None},
           \A r \in Repo : mem'[r] = None => IsRestored(r)',
           \A r \in Repo : mem'[r] # None => LeadsBack(r, mem[r])' /\ CanGoBack(r)'
    PROVE  RollbackKnowsOrigin'
<1>1. cmd' = c /\ pc' = "repo" /\ mem' = j /\ todo' = S
  BY DEF Unwind
<1>2. \A r \in Repo : mem'[r] # None => ~Undone(r)'
  BY <1>1 DEF Undone, Ahead, Entries
<1>3. c = "undo" => todo' \subseteq Ahead'
  BY <1>1 DEF Ahead, Entries
<1>4. \A r \in Repo : Undone(r)' => mem'[r] # None
  BY DEF Undone, Entries
<1> QED BY <1>1, <1>2, <1>3, <1>4, RollbackPartsNext DEF Entries

\* What an activation that fails knows of a primary.
LEMMA ActivationParts ==
    ASSUME InOrder, ActivationKnowsOrigin, cmd = "activate", NEW r \in Repo
    PROVE  /\ mem[r] # None => SwappedIn(r, mem[r])
           /\ mem[r] = None /\ ~(r = cur /\ pc \in {"switch", "baseline"}) =>
                HeadAsStarted(r) /\ wt[r] = origin[r].items
<1>1. mem[r] = None => r \in todo
  BY ActivateMemory DEF Entries
<1>2. pc = "journal" => mem[cur] # None
  BY NoneAssumption DEF InOrder, Sound, Typed, Control, Operands
<1> QED BY <1>1, <1>2 DEF ActivationKnowsOrigin, Entries

\* The memory of an activation is rolled back with its primaries as they are.
LEMMA PlainRollbackKnows ==
    ASSUME InOrder, ActivationKnowsOrigin, cmd = "activate", pc \in {"repo", "journal"},
           UNCHANGED <<git, journal>>, Unwind("rollback", mem, Entries(mem))
    PROVE  RollbackKnowsOrigin'
<1>1. UNCHANGED <<mem, origin, wt, stash>> /\ \A r \in Repo : AsItIs(r)
  BY DEF Unwind, AsItIs
<1>2. ASSUME NEW r \in Repo, mem'[r] = None PROVE IsRestored(r)'
  <2>1. HeadAsStarted(r)' /\ wt'[r] = origin'[r].items
    BY <1>1, <1>2, ActivationParts, StillKnown
  <2> QED BY <2>1 DEF IsRestored, HeadAsStarted, Back
<1>3. ASSUME NEW r \in Repo, mem'[r] # None
      PROVE  LeadsBack(r, mem[r])' /\ CanGoBack(r)'
  <2>1. SwappedIn(r, mem[r])'
    BY <1>1, <1>3, ActivationParts, EntryStillIn
  <2> QED BY <2>1 DEF CanGoBack, SwappedIn, LeadsBack
<1> QED BY <1>2, <1>3, UnwindKnows DEF Entries

\* The stash was pushed but cannot be pinned: the work is in it.
LEMMA StashNotPinnedKnows ==
    ASSUME InOrder, Typed', ActivationKnowsOrigin, NEW q \in Repo, StashNotPinned(q)
    PROVE  RollbackKnowsOrigin'
<1>1. /\ cmd = "activate" /\ pc = "repo" /\ q \in todo /\ wt[q] # {} /\ opt.stash
      /\ Unwind("rollback", mem, Entries(mem)) /\ UNCHANGED <<head, at, refs, journal>>
      /\ pushed' = [pushed EXCEPT ![q] = @ + 1]
      /\ stash' = [stash EXCEPT ![q][pushed[q] + 1] = wt[q]]
      /\ wt' = [wt EXCEPT ![q] = {}] /\ faults' = faults + 1
  BY DEF StashNotPinned, IsDirty, Fault
<1>2. UNCHANGED <<mem, origin>> /\ \A r \in Repo : AsItIs(r)
  BY <1>1 DEF Unwind, AsItIs
<1>3. mem[q] = None /\ HeadAsStarted(q) /\ wt[q] = origin[q].items
  BY <1>1, ActivateMemory DEF ActivationKnowsOrigin, Entries
<1>4. \A r \in Repo \ {q} : wt'[r] = wt[r] /\ stash'[r] = stash[r]
  BY <1>1 DEF InOrder, Sound, Typed, TypeOK, GitOK
<1>5. IsRestored(q)'
  <2>1. pushed[q] < MaxStash
    BY <1>1 DEF InOrder, Sound, Typed, Control, StashRoom
  <2>2. pushed[q] + 1 \in 1..MaxStash /\ faults' > 0
    BY <1>1, <2>1, ConstantsAssumption DEF InOrder, Sound, Typed, TypeOK, GitOK, GhostOK
  <2>3. stash'[q][pushed[q] + 1] = wt[q]
    <3>1. stash \in [Repo -> [1..MaxStash -> SUBSET Item]]
      BY DEF InOrder, Sound, Typed, TypeOK, GitOK
    <3> QED BY <1>1, <2>2, <3>1
  <2>4. StillHeld(q)'
    BY <1>2, <1>3, <2>2, <2>3 DEF StillHeld
  <2>5. HeadAsStarted(q)'
    BY <1>2, <1>3, AsItIsKept
  <2> QED BY <2>4, <2>5 DEF IsRestored, HeadAsStarted, Back
<1>6. ASSUME NEW r \in Repo, mem'[r] = None PROVE IsRestored(r)'
  <2>1. CASE r # q
    <3>1. HeadAsStarted(r)' /\ wt'[r] = origin'[r].items
      BY <1>1, <1>2, <1>4, <1>6, <2>1, ActivationParts, StillKnown
    <3> QED BY <3>1 DEF IsRestored, HeadAsStarted, Back
  <2> QED BY <1>5, <2>1
<1>7. ASSUME NEW r \in Repo, mem'[r] # None
      PROVE  LeadsBack(r, mem[r])' /\ CanGoBack(r)'
  <2>1. SwappedIn(r, mem[r])'
    BY <1>1, <1>2, <1>3, <1>4, <1>7, ActivationParts, EntryStillIn
  <2> QED BY <2>1 DEF CanGoBack, SwappedIn, LeadsBack
<1> QED BY <1>1, <1>6, <1>7, UnwindKnows DEF Entries

\* The switch fails: the stash pushed for it goes back, or stays.
LEMMA SwitchFailsKnows ==
    ASSUME InOrder, Typed', ActivationKnowsOrigin, SwitchToLiveFails
    PROVE  RollbackKnowsOrigin'
<1>1. /\ cmd = "activate" /\ pc = "switch" /\ cur \in Repo /\ mem[cur] = None
      /\ Unwind("rollback", mem, Entries(mem)) /\ UNCHANGED <<head, at, refs, journal>>
      /\ faults' = faults + 1
      /\ \/ /\ draft.stash # 0
            /\ wt' = [wt EXCEPT ![cur] = @ \cup stash[cur][draft.stash]]
            /\ stash' = [stash EXCEPT ![cur][draft.stash] = {}]
         \/ UNCHANGED <<wt, stash>>
  BY InActivation DEF SwitchToLiveFails, Fault
<1>2. UNCHANGED <<mem, origin>> /\ \A r \in Repo : AsItIs(r)
  BY <1>1 DEF Unwind, AsItIs
<1>3. HeadAsStarted(cur) /\ PutAside(cur, draft) /\ Usable(draft)
  BY <1>1, InActivation, EntriesUsable, NoneAssumption DEF ActivationKnowsOrigin
<1>4. \A r \in Repo \ {cur} : wt'[r] = wt[r] /\ stash'[r] = stash[r]
  BY <1>1 DEF InOrder, Sound, Typed, TypeOK, GitOK
<1>5. ASSUME NEW q \in Repo, q = cur PROVE IsRestored(q)'
  <2>1. faults' > 0 /\ draft.stash \in 0..MaxStash
    BY <1>1, <1>3, UsableFields, ConstantsAssumption DEF InOrder, Sound, Typed, TypeOK, GhostOK
  <2>2. CASE wt' = [wt EXCEPT ![cur] = @ \cup stash[cur][draft.stash]] /\ draft.stash # 0
    <3>1. wt'[q] = origin[q].items
      <4>1. wt'[q] = wt[q] \cup stash[q][draft.stash]
        BY <1>1, <1>5, <2>2 DEF InOrder, Sound, Typed, TypeOK, GitOK
      <4> QED BY <1>3, <1>5, <2>2, <4>1 DEF PutAside
    <3> QED BY <1>2, <1>3, <1>5, <3>1, AsItIsKept DEF IsRestored, HeadAsStarted, Back
  <2>3. CASE UNCHANGED <<wt, stash>>
    <3>1. origin'[q].items = wt'[q] \/ StillHeld(q)'
      <4>1. CASE draft.stash = 0
        BY <1>2, <1>3, <1>5, <2>3, <4>1 DEF PutAside
      <4>2. CASE draft.stash # 0
        <5>1. draft.stash \in 1..MaxStash /\ stash'[q][draft.stash] = origin'[q].items
          BY <1>2, <1>3, <1>5, <2>1, <2>3, <4>2, ConstantsAssumption DEF PutAside
        <5> QED BY <2>1, <5>1 DEF StillHeld
      <4> QED BY <4>1, <4>2
    <3> QED BY <1>2, <1>3, <1>5, <3>1, AsItIsKept DEF IsRestored, HeadAsStarted, Back
  <2> QED BY <1>1, <2>2, <2>3
<1>6. ASSUME NEW r \in Repo, mem'[r] = None PROVE IsRestored(r)'
  <2>1. CASE r # cur
    <3>1. HeadAsStarted(r)' /\ wt'[r] = origin'[r].items
      BY <1>1, <1>2, <1>4, <1>6, <2>1, ActivationParts, StillKnown
    <3> QED BY <3>1 DEF IsRestored, HeadAsStarted, Back
  <2> QED BY <1>5, <2>1
<1>7. ASSUME NEW r \in Repo, mem'[r] # None
      PROVE  LeadsBack(r, mem[r])' /\ CanGoBack(r)'
  <2>1. SwappedIn(r, mem[r])'
    BY <1>1, <1>2, <1>4, <1>7, ActivationParts, EntryStillIn
  <2> QED BY <2>1 DEF CanGoBack, SwappedIn, LeadsBack
<1> QED BY <1>1, <1>6, <1>7, UnwindKnows DEF Entries

\* The baseline cannot be captured: the switch just made is undone first.
LEMMA CaptureFailsKnows ==
    ASSUME InOrder, ActivationKnowsOrigin, CaptureBaselineFails
    PROVE  RollbackKnowsOrigin'
<1>1. /\ cmd = "activate" /\ pc = "baseline" /\ cur \in Repo /\ mem[cur] = None
      /\ journal[cur] = None /\ Ahead = {} /\ draft \in Entry /\ draft # None
      /\ Unwind("undo", [mem EXCEPT ![cur] = draft], {cur}) /\ UNCHANGED <<git, journal>>
  BY InActivation, NoneAssumption DEF CaptureBaselineFails
<1>2. UNCHANGED <<origin, wt, stash>> /\ \A r \in Repo : AsItIs(r)
  BY <1>1 DEF Unwind, AsItIs
<1>3. /\ \A r \in Repo : mem'[r] = IF r = cur THEN draft ELSE mem[r]
      /\ SwappedIn(cur, draft) /\ Usable(draft)
  BY <1>1, EntriesUsable DEF Unwind, InOrder, Sound, Typed, TypeOK, CommandOK,
     ActivationKnowsOrigin
<1>4. {cur} = {r \in Repo : [mem EXCEPT ![cur] = draft][r] # None /\ journal'[r] = None}
  <2>1. \A r \in Repo : [mem EXCEPT ![cur] = draft][r] = IF r = cur THEN draft ELSE mem[r]
    BY <1>1 DEF InOrder, Sound, Typed, TypeOK, CommandOK
  <2> QED BY <1>1, <2>1 DEF Ahead, Entries
<1>5. ASSUME NEW r \in Repo, mem'[r] = None PROVE IsRestored(r)'
  <2>1. HeadAsStarted(r)' /\ wt'[r] = origin'[r].items
    BY <1>1, <1>2, <1>3, <1>5, ActivationParts, StillKnown
  <2> QED BY <2>1 DEF IsRestored, HeadAsStarted, Back
<1>6. ASSUME NEW r \in Repo, mem'[r] # None
      PROVE  LeadsBack(r, mem[r])' /\ CanGoBack(r)'
  <2>1. SwappedIn(r, mem[r])'
    <3>1. CASE r = cur
      <4>1. ASSUME NEW e, e = mem'[r] PROVE SwappedIn(r, e)'
        BY <1>2, <1>3, <3>1, <4>1, StillKnown
      <4> QED BY <4>1 DEF SwappedIn, LeadsBack, PutAside
    <3>2. CASE r # cur
      BY <1>1, <1>2, <1>3, <1>6, <3>2, ActivationParts, EntryStillIn
    <3> QED BY <3>1, <3>2
  <2> QED BY <2>1 DEF CanGoBack, SwappedIn, LeadsBack
<1> QED BY <1>1, <1>4, <1>5, <1>6, UnwindKnows

-----------------------------------------------------------------------------
(* The loop over deactivateRepo, for activate.                             *)

\* What is known of a primary the step leaves alone.
LEMMA RollbackLeavesAlone ==
    ASSUME InOrder, NEW r \in Repo, AsItIs(r), wt'[r] = wt[r], stash'[r] = stash[r],
           origin'[r] = origin[r], mem'[r] = mem[r], faults \in Nat, faults' \in Nat,
           faults <= faults'
    PROVE  /\ IsRestored(r) => IsRestored(r)'
           /\ mem[r] # None /\ LeadsBack(r, mem[r]) => LeadsBack(r, mem[r])'
           /\ CanGoBack(r) => CanGoBack(r)'
<1>1. /\ head'[r] = head[r] /\ Back(r)' = Back(r) /\ LiveBranches(r)' = LiveBranches(r)
  BY StillKnown, AsItIsKept
<1>2. StillHeld(r) => StillHeld(r)'
  BY DEF StillHeld
<1>3. mem[r] # None /\ LeadsBack(r, mem[r]) => LeadsBack(r, mem[r])'
  <2>1. ASSUME mem[r] # None, LeadsBack(r, mem[r]), NEW e, e = mem[r] PROVE LeadsBack(r, e)'
    BY <2>1, EntriesUsable, StillKnown
  <2> QED BY <2>1 DEF LeadsBack
<1>4. PutAside(r, mem[r]) => PutAside(r, mem[r])'
  BY DEF PutAside
<1> QED BY <1>1, <1>2, <1>3, <1>4 DEF IsRestored, CanGoBack

\* One step of the loop on q.
LEMMA RollbackStep ==
    ASSUME InOrder, RollbackKnowsOrigin, cmd \in {"undo", "rollback"}, Undoing, NEW q \in todo,
           UNCHANGED <<journal, cmd, mem, origin>>,
           faults \in Nat, faults' \in Nat, faults <= faults',
           \A r \in Repo \ {q} : AsItIs(r) /\ wt'[r] = wt[r] /\ stash'[r] = stash[r],
           \/ RepoGoesOn(q, pc') /\ pc' \in {"delete", "pop"}
           \/ RepoFails(q) \/ RepoDone(q),
           LeadsBack(q, mem[q])',
           RepoDone(q) => IsRestored(q)',
           ~RepoDone(q) => CanGoBack(q)',
           pc' = "pop" => LiveBranches(q)' = origin[q].live
    PROVE  RollbackKnowsOrigin'
<1>1. q \in Repo /\ mem[q] # None /\ q \notin failed /\ todo \subseteq Repo
  BY UndoingParts
<1>2. Undoing' /\ todo' \subseteq todo /\ Ahead' = Ahead /\ (pc' = "pop" => cur' = q)
  BY DEF Undoing, Unwinding, RepoGoesOn, RepoFails, RepoDone, Ahead, Entries
<1>3. ASSUME NEW r \in Repo \ {q} PROVE Undone(r)' = Undone(r)
  BY <1>2, <1>3 DEF Undone, Entries, RepoGoesOn, RepoFails, RepoDone
<1>4. cmd = "undo" => todo \subseteq Ahead
  BY RollbackParts
<1>5. RepoDone(q) => Undone(q)'
  BY <1>1, <1>2, <1>4 DEF Undone, Entries, RepoDone
<1>6. ~RepoDone(q) => ~Undone(q)'
  BY <1>1 DEF Undone, RepoGoesOn, RepoFails
<1>7. ASSUME NEW r \in Repo, mem'[r] = None \/ Undone(r)' PROVE IsRestored(r)'
  BY <1>1, <1>3, <1>6, <1>7, RollbackParts, RollbackLeavesAlone
<1>8. ASSUME NEW r \in Repo, mem'[r] # None
      PROVE  LeadsBack(r, mem[r])' /\ (~Undone(r)' => CanGoBack(r)')
  BY <1>1, <1>3, <1>5, <1>8, RollbackParts, RollbackLeavesAlone DEF Entries
<1>9. pc' = "pop" => (LiveBranches(cur) = origin[cur].live)'
  BY <1>2 DEF LiveBranches, Exists
<1> QED BY <1>2, <1>4, <1>7, <1>8, <1>9, RollbackPartsNext DEF Entries

\* A primary off its live branch can go back on when that branch is deleted.
LEMMA DeletedCanGoBack ==
    ASSUME InOrder, NEW q \in Repo, mem[q] # None, LeadsBack(q, mem[q]), CanGoBack(q),
           head[q] # mem[q].temp,
           refs' = [refs EXCEPT ![q][mem[q].temp] = None],
           UNCHANGED <<head, at, wt, stash, mem, origin>>,
           faults \in Nat, faults' \in Nat, faults <= faults'
    PROVE  LeadsBack(q, mem[q])' /\ CanGoBack(q)' /\ LiveBranches(q)' = origin[q].live
<1>1. Usable(mem[q])
  BY EntriesUsable
<1>2. \A x \in Branch : refs'[q][x] = IF x = mem[q].temp THEN None ELSE refs[q][x]
  BY <1>1, UsableFields DEF InOrder, Sound, Typed, TypeOK, GitOK
<1>3. LiveBranches(q)' = LiveBranches(q) \ {mem[q].temp}
  <2>1. Live \subseteq Branch
    BY DEF Live, Branch
  <2> QED BY <1>2, <2>1 DEF LiveBranches, Exists
<1>4. mem[q].temp \notin origin[q].live /\ LiveBranches(q)' = origin[q].live
  BY <1>3 DEF LeadsBack, CanGoBack
<1>5. LeadsBack(q, mem[q])'
  BY <1>1, <1>2, UsableFields DEF LeadsBack
<1>6. Back(q)'
  <2>1. head[q] \in Branch \cup {"detached"}
    BY DEF InOrder, Sound, Typed, TypeOK, GitOK
  <2>2. HeadCommit(q)' = HeadCommit(q)
    BY <1>2, <2>1 DEF HeadCommit
  <2> QED BY <2>2 DEF CanGoBack, Back
<1>7. PutAside(q, mem[q])' \/ StillHeld(q)'
  BY DEF CanGoBack, PutAside, StillHeld
<1> QED BY <1>4, <1>5, <1>6, <1>7 DEF CanGoBack

\* It can go back on when it is put on its prior branch.
LEMMA PriorCanGoBack ==
    ASSUME InOrder, NEW q \in Repo, mem[q] # None, LeadsBack(q, mem[q]), CanGoBack(q),
           RestorePriorBranch(q),
           UNCHANGED <<refs, wt, stash, mem, origin>>,
           faults \in Nat, faults' \in Nat, faults <= faults'
    PROVE  LeadsBack(q, mem[q])' /\ CanGoBack(q)'
<1>1. Usable(mem[q])
  BY EntriesUsable
<1>2. Back(q)'
  <2>1. \/ mem[q].prior # "detached" /\ head'[q] = mem[q].prior
        \/ head'[q] = "detached" /\ at'[q] = mem[q].priorAt
    BY DEF RestorePriorBranch, SwitchTo, DetachAt, InOrder, Sound, Typed, TypeOK, GitOK
  <2> QED BY <1>1, <2>1, UsableFields DEF Back, HeadCommit, LeadsBack
<1>3. LeadsBack(q, mem[q])'
  BY DEF LeadsBack
<1>4. PutAside(q, mem[q])' \/ StillHeld(q)'
  BY DEF CanGoBack, PutAside, StillHeld
<1>5. LiveBranches(q)' = LiveBranches(q)
  BY DEF LiveBranches, Exists
<1> QED BY <1>2, <1>3, <1>4, <1>5 DEF CanGoBack

\* A primary the loop has left is known to be able to go back.
LEMMA InTodo ==
    ASSUME InOrder, RollbackKnowsOrigin, cmd \in {"undo", "rollback"}, NEW q \in todo
    PROVE  q \in Repo => LeadsBack(q, mem[q]) /\ CanGoBack(q)
<1>1. mem[q] # None
  BY NoneAssumption DEF InOrder, Sound, Typed, Control, Operands, Listed
<1> QED BY <1>1, RollbackParts DEF Undone, Entries

LEMMA DeactivateRepoKnows ==
    ASSUME InOrder, RollbackKnowsOrigin, cmd \in {"undo", "rollback"},
           faults \in Nat, faults' \in Nat, faults <= faults',
           NEW q \in Repo, DeactivateRepo(q)
    PROVE  RollbackKnowsOrigin'
<1>1. /\ Undoing /\ q \in todo /\ mem[q] \in Entry /\ mem[q] # None /\ cmd # "force"
      /\ UNCHANGED <<wt, stash, journal, cmd, mem, origin>>
  BY UndoingParts DEF DeactivateRepo, Undoing, RepoGoesOn
<1>2. LeadsBack(q, mem[q]) /\ CanGoBack(q) /\ mem[q].prior # mem[q].temp
  BY <1>1, InTodo, EntriesUsable DEF Usable
<1>3. CASE /\ head[q] = mem[q].prior /\ DeleteTempBranchIfAtTarget(q)
           /\ RepoGoesOn(q, "pop") /\ UNCHANGED <<head, at>>
  <2>1. refs' = [refs EXCEPT ![q][mem[q].temp] = None] /\ head[q] # mem[q].temp
    BY <1>3 DEF DeleteTempBranchIfAtTarget
  <2>2. \A r \in Repo \ {q} : AsItIs(r)
    BY <1>3, <2>1 DEF AsItIs, InOrder, Sound, Typed, TypeOK, GitOK
  <2>3. LeadsBack(q, mem[q])' /\ CanGoBack(q)' /\ LiveBranches(q)' = origin[q].live
    BY <1>1, <1>2, <1>3, <2>1, DeletedCanGoBack
  <2>4. RepoGoesOn(q, pc') /\ pc' = "pop" /\ ~RepoDone(q)
    BY <1>3 DEF RepoGoesOn, RepoDone
  <2> QED BY <1>1, <2>2, <2>3, <2>4, RollbackStep
<1>4. CASE RestorePriorBranch(q) /\ RepoGoesOn(q, "delete") /\ UNCHANGED refs
  <2>1. \A r \in Repo \ {q} : AsItIs(r)
    BY <1>4 DEF RestorePriorBranch, SwitchTo, DetachAt, AsItIs, InOrder, Sound, Typed,
       TypeOK, GitOK
  <2>2. LeadsBack(q, mem[q])' /\ CanGoBack(q)'
    BY <1>1, <1>2, <1>4, PriorCanGoBack
  <2>3. RepoGoesOn(q, pc') /\ pc' = "delete" /\ ~RepoDone(q)
    BY <1>4 DEF RepoGoesOn, RepoDone
  <2> QED BY <1>1, <2>1, <2>2, <2>3, RollbackStep
<1> QED BY <1>1, <1>3, <1>4 DEF DeactivateRepo

\* A refusal leaves the primary as it is.
LEMMA DeactivateFailsKnows ==
    ASSUME InOrder, RollbackKnowsOrigin, cmd \in {"undo", "rollback"},
           faults \in Nat, faults' \in Nat, faults <= faults',
           NEW q \in Repo, DeactivateRepoFails(q)
    PROVE  RollbackKnowsOrigin'
<1>1. /\ Undoing /\ q \in todo /\ RepoFails(q) /\ ~RepoDone(q) /\ pc' = "repo"
      /\ UNCHANGED <<git, journal, cmd, mem, origin>>
  <2>1. q \notin failed
    BY UndoingParts DEF DeactivateRepoFails, Undoing
  <2> QED BY <2>1 DEF DeactivateRepoFails, Undoing, RepoFails, RepoDone
<1>2. \A r \in Repo : AsItIs(r)
  BY <1>1 DEF AsItIs
<1>3. LeadsBack(q, mem[q])' /\ CanGoBack(q)'
  BY <1>1, <1>2, InTodo, UndoingParts, RollbackLeavesAlone
<1> QED BY <1>1, <1>2, <1>3, RollbackStep

LEMMA DeleteTempBranchKnows ==
    ASSUME InOrder, RollbackKnowsOrigin, cmd \in {"undo", "rollback"},
           faults \in Nat, faults' \in Nat, faults <= faults', DeleteTempBranch
    PROVE  RollbackKnowsOrigin'
<1>1. /\ Undoing /\ cur \in todo /\ cur \in Repo /\ mem[cur] # None /\ BackOff(cur)
      /\ UNCHANGED <<head, at, wt, stash, journal, cmd, mem, origin>>
  BY AtStep, UndoingParts DEF DeleteTempBranch
<1>2. LeadsBack(cur, mem[cur]) /\ CanGoBack(cur) /\ head[cur] # mem[cur].temp
  BY <1>1, InTodo, EntriesUsable, UsableFields DEF BackOff
<1> DEFINE q == cur
<1>3. CASE DeleteTempBranchIfAtTarget(q) /\ RepoGoesOn(q, "pop")
  <2>1. refs' = [refs EXCEPT ![cur][mem[cur].temp] = None] /\ cur' = cur /\ pc' = "pop"
    BY <1>3 DEF DeleteTempBranchIfAtTarget, RepoGoesOn
  <2>2. \A r \in Repo \ {cur} : AsItIs(r)
    BY <1>1, <2>1 DEF AsItIs, InOrder, Sound, Typed, TypeOK, GitOK
  <2>3. ASSUME NEW r \in Repo, r = cur
        PROVE  LeadsBack(r, mem[r])' /\ CanGoBack(r)' /\ LiveBranches(r)' = origin[r].live
    BY <1>1, <1>2, <2>1, <2>3, DeletedCanGoBack
  <2>4. RepoGoesOn(cur, pc') /\ ~RepoDone(cur)
    BY <1>3 DEF RepoGoesOn, RepoDone
  <2>5. ASSUME NEW r \in todo, r = cur PROVE RollbackKnowsOrigin'
    BY <1>1, <2>1, <2>2, <2>3, <2>4, <2>5, RollbackStep
  <2> QED BY <1>1, <2>5
<1>4. CASE RepoFails(cur) /\ UNCHANGED refs
  <2>1. \A r \in Repo : AsItIs(r)
    BY <1>1, <1>4 DEF AsItIs
  <2>2. ~RepoDone(cur) /\ pc' = "repo"
    BY <1>1, <1>4, UndoingParts DEF RepoFails, RepoDone
  <2>3. ASSUME NEW r \in Repo, r = cur PROVE LeadsBack(r, mem[r])' /\ CanGoBack(r)'
    BY <1>1, <1>2, <2>1, <2>3, RollbackLeavesAlone
  <2>4. ASSUME NEW r \in todo, r = cur PROVE RollbackKnowsOrigin'
    BY <1>1, <1>4, <2>1, <2>2, <2>3, <2>4, RollbackStep
  <2> QED BY <1>1, <2>4
<1> QED BY <1>3, <1>4 DEF DeleteTempBranch

\* The pinned stash comes out, or what it holds stays somewhere.
LEMMA PopPinnedStashKnows ==
    ASSUME InOrder, RollbackKnowsOrigin, cmd \in {"undo", "rollback"},
           faults \in Nat, faults' \in Nat, faults <= faults', PopPinnedStash
    PROVE  RollbackKnowsOrigin'
<1> DEFINE id == mem[cur].stash
           items == IF id = 0 THEN {} ELSE stash[cur][id]
<1>1. /\ Undoing /\ cur \in todo /\ cur \in Repo /\ mem[cur] # None /\ cur \notin failed
      /\ UNCHANGED <<head, at, refs, journal, cmd, mem, origin>>
      /\ RepoDone(cur) \/ RepoFails(cur)
      /\ pc' = "repo"
  BY AtStep, UndoingParts DEF PopPinnedStash, RepoDone, RepoFails
<1>2. /\ LeadsBack(cur, mem[cur]) /\ CanGoBack(cur) /\ head[cur] # mem[cur].temp
      /\ LiveBranches(cur) = origin[cur].live /\ id \in 0..MaxStash
  BY <1>1, AtStep, InTodo, EntriesUsable, UsableFields, RollbackParts
  DEF BackOff, PopPinnedStash
<1>3. \A r \in Repo : AsItIs(r)
  BY <1>1 DEF AsItIs
<1>4. /\ wt \in [Repo -> SUBSET Item] /\ stash \in [Repo -> [1..MaxStash -> SUBSET Item]]
  BY DEF InOrder, Sound, Typed, TypeOK, GitOK
<1>5. \A r \in Repo \ {cur} : wt'[r] = wt[r] /\ stash'[r] = stash[r]
  BY <1>4 DEF PopPinnedStash
<1>6. /\ wt'[cur] \in {wt[cur], wt[cur] \cup items}
      /\ stash'[cur] \in {stash[cur], [stash[cur] EXCEPT ![id] = {}]}
      /\ RepoDone(cur) => wt'[cur] = wt[cur] \cup items
      /\ stash'[cur] # stash[cur] => wt'[cur] = wt[cur] \cup items
      /\ RepoFails(cur) => stash'[cur] = stash[cur]
      /\ RepoFails(cur) /\ wt'[cur] # wt[cur] => faults' = faults + 1
  <2>1. RepoDone(cur) => ~RepoFails(cur)
    BY <1>1 DEF RepoDone, RepoFails
  <2> QED BY <1>1, <1>4, <2>1 DEF PopPinnedStash, Fault
<1>7. StillHeld(cur) =>
        /\ faults' > 0
        /\ origin[cur].items \subseteq wt'[cur] \cup UNION {stash'[cur][i] : i \in 1..MaxStash}
  <2> SUFFICES ASSUME StillHeld(cur), NEW x \in origin[cur].items,
                      x \notin wt'[cur]
               PROVE  \E i \in 1..MaxStash : x \in stash'[cur][i]
    BY DEF StillHeld
  <2>1. x \notin wt[cur]
    BY <1>6
  <2>2. PICK i \in 1..MaxStash : x \in stash[cur][i]
    BY <2>1 DEF StillHeld
  <2>3. CASE stash'[cur] = stash[cur]
    BY <2>2, <2>3
  <2>4. CASE wt'[cur] = wt[cur] \cup items /\ stash'[cur] = [stash[cur] EXCEPT ![id] = {}]
    <3>1. i # id
      BY <2>2, <2>4
    <3>2. stash'[cur][i] = stash[cur][i]
      BY <1>1, <1>4, <2>4, <3>1
    <3> QED BY <2>2, <3>2
  <2> QED BY <1>6, <2>3, <2>4
<1>8. ASSUME NEW r \in Repo, r = cur
      PROVE  /\ LeadsBack(r, mem[r])' /\ Back(r)' /\ LiveBranches(r)' = origin'[r].live
             /\ RepoDone(r) => IsRestored(r)'
             /\ RepoFails(r) => PutAside(r, mem[r])' \/ StillHeld(r)'
  <2>1. LeadsBack(r, mem[r])'
    BY <1>1, <1>2, <1>8 DEF LeadsBack
  <2>2. Back(r)' /\ LiveBranches(r)' = origin'[r].live
    BY <1>1, <1>2, <1>3, <1>8, AsItIsKept DEF CanGoBack, Back
  <2>3. StillHeld(r) => StillHeld(r)'
    BY <1>1, <1>7, <1>8 DEF StillHeld
  <2>4. ASSUME PutAside(r, mem[r]), RepoDone(r) PROVE origin'[r].items = wt'[r]
    <3>1. wt[r] \cup items = origin[r].items
      BY <1>8, <2>4 DEF PutAside
    <3> QED BY <1>1, <1>6, <1>8, <2>4, <3>1
  <2>5. ASSUME PutAside(r, mem[r]), RepoFails(r) PROVE PutAside(r, mem[r])' \/ StillHeld(r)'
    <3>1. CASE wt'[r] = wt[r]
      BY <1>1, <1>6, <1>8, <2>5, <3>1 DEF PutAside
    <3>2. CASE wt'[r] # wt[r]
      <4>0. items # {} /\ faults' = faults + 1 /\ stash'[r] = stash[r]
        BY <1>6, <1>8, <2>5, <3>2
      <4>1. faults' > 0 /\ stash'[r] = stash[r] /\ id # 0
        BY <4>0
      <4>2. id \in 1..MaxStash /\ stash'[r][id] = origin'[r].items
        BY <1>1, <1>2, <1>8, <2>5, <4>1, ConstantsAssumption DEF PutAside
      <4> QED BY <4>1, <4>2 DEF StillHeld
    <3> QED BY <3>1, <3>2
  <2> QED BY <1>2, <1>8, <2>1, <2>2, <2>3, <2>4, <2>5 DEF CanGoBack, IsRestored
<1>9. mem[cur].temp \notin origin[cur].live
  BY <1>2 DEF LeadsBack
<1>10. ASSUME NEW r \in todo, r = cur PROVE RollbackKnowsOrigin'
  <2>1. RepoFails(r) => CanGoBack(r)'
    BY <1>1, <1>8, <1>9, <1>10 DEF CanGoBack
  <2> QED BY <1>1, <1>3, <1>5, <1>8, <1>10, <2>1, RollbackStep
<1> QED BY <1>1, <1>10

\* What the undo restored is dropped, the rest is rolled back.
LEMMA FinishUndoKnows ==
    ASSUME InOrder, RollbackKnowsOrigin, FinishUndo
    PROVE  RollbackKnowsOrigin'
<1> DEFINE kept == Only(mem, failed \cup Entries(journal))
<1>1. /\ cmd = "undo" /\ pc = "repo" /\ todo = {} /\ Undoing
      /\ Unwind("rollback", kept, Entries(kept))
      /\ UNCHANGED <<git, journal, faults, origin>> /\ mem' = kept
  BY DEF FinishUndo, Unwind, Undoing, Unwinding
<1>2. \A r \in Repo : mem'[r] = IF r \in failed \cup Entries(journal) THEN mem[r] ELSE None
  BY <1>1 DEF Only
<1>3. \A r \in Repo : AsItIs(r)
  BY <1>1 DEF AsItIs
<1>4. faults \in Nat
  BY ConstantsAssumption DEF InOrder, Sound, Typed, TypeOK, GhostOK
<1>5. ASSUME NEW r \in Repo, mem'[r] = None PROVE IsRestored(r)'
  <2>1. mem[r] = None \/ Undone(r)
    BY <1>1, <1>2, <1>5 DEF Undone, Ahead, Entries
  <2>2. IsRestored(r)
    BY <1>1, <2>1, RollbackParts
  <2> QED BY <1>1, <1>3, <2>2, AsItIsKept DEF IsRestored, Back, StillHeld
<1>6. ASSUME NEW r \in Repo, mem'[r] # None
      PROVE  LeadsBack(r, mem[r])' /\ CanGoBack(r)'
  <2>1. mem'[r] = mem[r] /\ mem[r] # None /\ ~Undone(r)
    BY <1>1, <1>2, <1>6 DEF Undone, Ahead, Entries
  <2>2. LeadsBack(r, mem[r]) /\ CanGoBack(r)
    BY <1>1, <2>1, RollbackParts DEF Entries
  <2> QED BY <1>1, <1>3, <1>4, <2>1, <2>2, RollbackLeavesAlone
<1>7. Entries(kept) = {r \in Repo : kept[r] # None}
  BY DEF Entries
<1> HIDE DEF kept
<1> QED BY <1>1, <1>5, <1>6, <1>7, UnwindKnows

LEMMA NextRollback ==
    ASSUME ~Racing, InOrder, Typed', ActivationKnowsOrigin, RollbackKnowsOrigin, [Next]_vars
    PROVE  RollbackKnowsOrigin'
<1> SUFFICES ASSUME cmd' \in {"undo", "rollback"} PROVE RollbackKnowsOrigin'
  BY RollbackPartsNext
<1>1. faults \in Nat /\ faults' \in Nat /\ faults <= faults'
  BY ConstantsAssumption, FaultsGrow DEF InOrder, Sound, Typed, TypeOK, GhostOK
<1>2. ASSUME NEW f \in BOOLEAN, StartActivate(f) PROVE FALSE
  BY <1>2 DEF StartActivate, Begin
<1>3. CASE cmd = "activate" /\ \E r \in Repo : ActivateRefused(r)
  <2>1. /\ pc = "repo" /\ UNCHANGED <<git, journal>> /\ Unwind("rollback", mem, Entries(mem))
    BY <1>3 DEF ActivateRefused
  <2> QED BY <1>3, <2>1, PlainRollbackKnows
<1>4. CASE cmd = "activate" /\ JournalActivatedFails
  <2>1. /\ pc = "journal" /\ UNCHANGED <<git, journal>>
        /\ Unwind("rollback", mem, Entries(mem))
    BY <1>4 DEF JournalActivatedFails
  <2> QED BY <1>4, <2>1, PlainRollbackKnows
<1>5. CASE cmd = "activate"
  <2>1. ~(SwitchToLive \/ CaptureBaseline \/ JournalActivated)
    BY <1>5 DEF SwitchToLive, CaptureBaseline, JournalActivated
  <2>2. ASSUME NEW r \in Repo, ActivateRepo(r) PROVE FALSE
    BY <1>5, <2>2 DEF ActivateRepo
  <2>3. ~FinishUndo
    BY <1>5 DEF FinishUndo
  <2> QED BY <1>2, <1>3, <1>4, <1>5, <2>1, <2>2, <2>3, ActivationSteps, StashNotPinnedKnows,
             SwitchFailsKnows, CaptureFailsKnows
<1>6. CASE cmd' = cmd /\ (UserInWorktree \/ UNCHANGED vars)
  <2>1. UNCHANGED <<cmd, pc, cur, todo, mem, failed, journal, origin, wt, stash>>
    BY <1>6, UserSteps DEF vars
  <2>2. \A r \in Repo : AsItIs(r)
    BY <1>6, WorktreeMovesNoHead DEF vars, AsItIs
  <2>3. \A r \in Repo : /\ IsRestored(r) => IsRestored(r)'
                        /\ mem[r] # None /\ LeadsBack(r, mem[r]) => LeadsBack(r, mem[r])'
                        /\ CanGoBack(r) => CanGoBack(r)'
    BY <1>1, <2>1, <2>2, RollbackLeavesAlone
  <2>4. \A r \in Repo : Undone(r)' = Undone(r)
    BY <2>1 DEF Undone, Undoing, Unwinding, Ahead, Entries
  <2>5. pc = "pop" => cur \in Repo
    BY AtStep
  <2>6. pc' = "pop" => (LiveBranches(cur) = origin[cur].live)'
    <3> SUFFICES ASSUME pc' = "pop" PROVE (LiveBranches(cur) = origin[cur].live)'
      OBVIOUS
    <3>1. ASSUME NEW r \in Repo, r = cur PROVE (LiveBranches(r) = origin[r].live)'
      BY <1>6, <2>1, <2>2, <3>1, AsItIsKept, RollbackParts
    <3> QED BY <2>1, <2>5, <3>1 DEF LiveBranches, Exists
  <2>7. Ahead' = Ahead
    BY <2>1 DEF Ahead, Entries
  <2> QED BY <1>6, <2>1, <2>3, <2>4, <2>6, <2>7, RollbackParts, RollbackPartsNext DEF Entries
<1> QED BY <1>1, <1>2, <1>5, <1>6, ActivationSteps, FinishUndoKnows, DeactivateRepoKnows,
           DeactivateFailsKnows, DeleteTempBranchKnows, PopPinnedStashKnows

-----------------------------------------------------------------------------

\* Every command knows what the primaries were when it started.
LEMMA OriginHolds ==
    ASSUME ~Racing, ~DetachedCommits
    PROVE  Spec => [](InOrder /\ OriginKnown)
<1> DEFINE Inv == InOrder /\ OriginKnown
<1>1. Init => Inv
  <2>1. Init => OriginKnown
    BY DEF Init, OriginKnown, RefusedAsStarted, ActivationKnowsOrigin, RollbackKnowsOrigin
  <2> QED BY <2>1, InitKept
<1>2. Inv /\ [Next]_vars => Inv'
  BY NextKept, NextRefused, NextActivation, NextRollback DEF OriginKnown
<1> QED BY <1>1, <1>2, PTL DEF Spec

\* When a failed activation has finished rolling back, every repository it
\* could roll back is at the commit it was, on its branch unless that could
\* not be checked out, without a live branch of this activation, and with its
\* uncommitted work in the working tree or, when even the pop failed, in the
\* stash (engine.go:69-87, deactivateRepo).
THEOREM FailedActivationsRestore ==
    ASSUME ~Racing, ~DetachedCommits
    PROVE  Spec => []FailedActivationRestores
<1>1. ASSUME InOrder, OriginKnown
      PROVE  FailedActivationRestores
  <2> SUFFICES ASSUME cmd = "rollback", pc = "repo", todo = {}, NEW r \in Repo \ failed
               PROVE  RolledBack(r)
    BY DEF FailedActivationRestores
  <2>1. mem[r] = None \/ Undone(r)
    BY DEF Undone, Undoing, Unwinding, Entries
  <2>2. IsRestored(r)
    BY <1>1, <2>1, RollbackParts DEF OriginKnown
  <2>3. StillHeld(r) => faults > 0 /\ origin[r].items \subseteq Kept(r)
    BY DEF StillHeld, Kept
  <2> QED BY <2>2, <2>3 DEF IsRestored, Back, LiveBranches, RolledBack
<1> QED BY <1>1, OriginHolds, PTL

-----------------------------------------------------------------------------
(* As long as nothing fails and nobody touches a primary.                  *)

LEMMA JournalUsable ==
    ASSUME InOrder, NEW r \in Repo, journal[r] # None
    PROVE  Usable(journal[r])
BY SoundParts DEF Usable, InOrder, Sound, Typed, TypeOK, JournalOK, Booked, EntriesOffTemp,
   OffTemp, AllFine, Fine, OffSlice

LEMMA TakenKept ==
    ASSUME InOrder, NEW r \in Repo, AsItIs(r), wt'[r] = wt[r], stash'[r] = stash[r]
    PROVE  /\ Plain(r)' = Plain(r) /\ Exists(r, "trunk")' = Exists(r, "trunk")
           /\ \A e : Usable(e) /\ CanUndo(r, e) => CanUndo(r, e)'
           /\ \A e : (e = None \/ Usable(e)) /\ AsTaken(r, e) => AsTaken(r, e)'
<1>1. /\ head'[r] = head[r] /\ HeadCommit(r)' = HeadCommit(r)
      /\ LiveBranches(r)' = LiveBranches(r)
  BY AsItIsKept
<1>2. Plain(r)' = Plain(r)
  BY <1>1 DEF Plain
<1>3. Exists(r, "trunk")' = Exists(r, "trunk")
  BY DEF Exists, AsItIs, Branch
<1>4. ASSUME NEW e, Usable(e), CanUndo(r, e) PROVE CanUndo(r, e)'
  BY <1>1, <1>4 DEF CanUndo
<1>5. ASSUME NEW e, e = None \/ Usable(e), AsTaken(r, e) PROVE AsTaken(r, e)'
  <2>1. CASE e = None
    BY <1>2, <1>5, <2>1 DEF AsTaken
  <2>2. CASE e # None
    <3>1. Usable(e) /\ CanUndo(r, e)' /\ ValidMirror(r, e)
      BY <1>4, <1>5, <2>2 DEF AsTaken
    <3>2. ValidMirror(r, e)'
      BY <1>1, <3>1, UsableFields DEF ValidMirror, AsItIs, IsDirty, CaptureSnapshot
    <3> QED BY <2>2, <3>1, <3>2 DEF AsTaken
  <2> QED BY <2>1, <2>2
<1> QED BY <1>2, <1>3, <1>4, <1>5

\* What the next state takes a primary for.
LEMMA CalmNext ==
    ASSUME Smooth', AtHand', \A r \in Repo : Exists(r, "trunk")',
           cmd' = "idle" => \A r \in Repo : AsTaken(r, journal[r])',
           cmd' # "idle" => \A r \in Repo : InHand(r)'
    PROVE  Calm'
BY DEF Calm, Smooth, AtHand, Plain, CanUndo, InHand, AsTaken, Exists, LiveBranches, ValidMirror,
   HeadCommit, CaptureSnapshot, IsDirty

\* A command that works on q, or, when q is no repository, on none.
LEMMA CalmGoesOn ==
    ASSUME InOrder, Calm, cmd # "idle", cmd' # "idle", NEW q,
           \A r \in Repo \ {q} :
             /\ AsItIs(r) /\ wt'[r] = wt[r] /\ stash'[r] = stash[r] /\ mem'[r] = mem[r]
             /\ Undone(r)' = Undone(r),
           pc \in {"baseline", "delete", "pop"} => cur = q \/ (UNCHANGED <<pc, cur>>),
           Smooth', AtHand',
           q \in Repo => Exists(q, "trunk")' /\ InHand(q)'
    PROVE  Calm'
<1>1. ASSUME NEW r \in Repo \ {q} PROVE Exists(r, "trunk")'
  BY <1>1, TakenKept DEF Calm
<1>2. ASSUME NEW r \in Repo \ {q} PROVE InHand(r)'
  <2>1. InHand(r) /\ (mem[r] = None \/ Usable(mem[r]))
    BY <1>2, EntriesUsable DEF Calm
  <2>2. CASE r = cur /\ pc = "baseline"
    BY <1>2, <2>2 DEF InHand
  <2>3. CASE r = cur /\ pc \in {"delete", "pop"} /\ CanUndo(r, mem[r])
    <3>1. UNCHANGED <<pc, cur>> /\ mem[r] # None /\ Usable(mem[r])
      BY <1>2, <2>1, <2>3, AtStep, NoneAssumption
    <3>2. ASSUME NEW e, e = mem[r] PROVE CanUndo(r, e)'
      BY <1>2, <2>3, <3>1, <3>2, TakenKept
    <3>3. CanUndo(r, mem[r])'
      BY <1>2, <3>2 DEF CanUndo
    <3> QED BY <2>3, <3>1, <3>3 DEF InHand
  <2>4. CASE AsTaken(r, IF Undone(r) THEN None ELSE mem[r])
    <3>1. ASSUME NEW e, e = IF Undone(r) THEN None ELSE mem[r] PROVE AsTaken(r, e)'
      BY <1>2, <2>1, <2>4, <3>1, TakenKept
    <3>2. AsTaken(r, IF Undone(r) THEN None ELSE mem[r])'
      <4>1. CASE Undone(r)
        <5>1. AsTaken(r, None)'
          BY <3>1, <4>1
        <5> QED BY <1>2, <4>1, <5>1 DEF AsTaken, Plain
      <4>2. CASE ~Undone(r)
        <5>1. AsTaken(r, mem[r])'
          BY <1>2, <3>1, <4>2 DEF AsTaken, Plain, CanUndo, ValidMirror
        <5> QED BY <1>2, <4>2, <5>1 DEF AsTaken, Plain, CanUndo, ValidMirror
      <4> QED BY <4>1, <4>2
    <3> QED BY <3>2 DEF InHand
  <2> QED BY <2>1, <2>2, <2>3, <2>4 DEF InHand
<1> QED BY <1>1, <1>2, CalmNext

\* Without a command, each primary is as the journal says.
LEMMA CalmRests ==
    ASSUME InOrder, Calm, cmd' = "idle", pc' = "idle", UNCHANGED <<git, archived>>,
           failed' = {}, restored' = {},
           \A r \in Repo : journal'[r] = None \/ Usable(journal'[r]),
           \A r \in Repo : AsTaken(r, journal'[r])
    PROVE  Calm'
<1>1. \A r \in Repo : AsItIs(r)
  BY DEF AsItIs
<1>2. ASSUME NEW r \in Repo PROVE Exists(r, "trunk")' /\ AsTaken(r, journal[r])'
  <2>1. ASSUME NEW e, e = journal'[r] PROVE AsTaken(r, e)'
    <3> SUFFICES AsTaken(r, e) /\ (e = None \/ Usable(e))
      BY <1>1, TakenKept
    <3> QED BY <2>1
  <2>2. AsTaken(r, journal[r])'
    BY <2>1 DEF AsTaken, Plain, CanUndo, ValidMirror
  <2> QED BY <1>1, <2>2, TakenKept DEF Calm
<1>3. Smooth' /\ AtHand'
  BY DEF Calm, Smooth, AtHand
<1> QED BY <1>2, <1>3, CalmNext

\* Between two commands nothing starts of itself.
LEMMA RestStepsCalm ==
    ASSUME InOrder, Calm, UNCHANGED <<faults, acts>>, cmd = "idle", cmd' = "idle",
           StartCommand \/ SyncRound
    PROVE  Calm'
<1>0. /\ pc = "idle" /\ restored = {} /\ failed = {}
      /\ \A r \in Repo : /\ AsTaken(r, journal[r])
                         /\ journal[r] = None \/ Usable(journal[r])
  BY JournalUsable DEF InOrder, Sound, Typed, Control, PcFitsCommand, Calm, Smooth
<1>1. CASE StartMirror \/ SyncRefused
  <2>1. UNCHANGED <<git, journal, archived, cmd, pc, failed, restored>>
    BY <1>1 DEF StartMirror, SyncRefused
  <2> QED BY <1>0, <2>1, CalmRests
<1>2. ~Drifted
  BY <1>0 DEF Drifted, Entries, AsTaken
<1>3. ~DoctorDropsStaleJournal
  BY <1>0 DEF DoctorDropsStaleJournal, Entries, AsTaken, ValidMirror
<1>4. ASSUME NEW r \in Repo, DoctorDropsOrphan(r) PROVE FALSE
  BY <1>0, <1>4 DEF DoctorDropsOrphan, Entries, AsTaken, Plain
<1> QED BY <1>1, <1>2, <1>3, <1>4 DEF StartCommand, SyncRound, StartActivate, StartDeactivate,
      StartDeactivateDrifted, StartRefresh, StartSync, StartSyncDrifted, Begin, RecoverActivation

\* A command begins with the journal as its memory, and finds no drift.
LEMMA BeginsCalm ==
    ASSUME InOrder, InOrder', Calm, cmd = "idle", cmd' # "idle", StartCommand \/ SyncRound
    PROVE  Calm'
<1>0. /\ pc = "idle" /\ restored = {} /\ failed = {}
      /\ \A r \in Repo : /\ AsTaken(r, journal[r])
                         /\ journal[r] = None \/ Usable(journal[r])
  BY JournalUsable DEF InOrder, Sound, Typed, Control, PcFitsCommand, Calm, Smooth
<1>1. ~StartSyncDrifted /\ \A c : ~StartDeactivateDrifted(c)
  BY <1>0 DEF StartSyncDrifted, StartDeactivateDrifted, Entries, MirroredEntries, AsTaken
<1>2. /\ UNCHANGED <<git, journal, archived>> /\ failed' = {} /\ restored' = {}
      /\ \A r \in Repo : mem'[r] = journal[r]
      /\ pc' \in {"clear", "repo"}
      /\ cmd' \in {"activate", "deactivate", "force", "refresh", "sync"}
      /\ pc' = "repo" => cmd' \in {"activate", "refresh", "sync"}
      /\ cmd' = "activate" => opt'.live = "live"
  <2>1. CASE \E f \in BOOLEAN : StartActivate(f)
    BY <1>0, <2>1 DEF StartActivate, Begin, Empty, Entries, Calm, Smooth
  <2>2. CASE \E c \in {"deactivate", "force"} : StartDeactivate(c)
    <3>1. \A r \in MirroredEntries(journal) : ~AlreadyRestored(r, journal[r])
      BY <1>0, UsableFields DEF MirroredEntries, Entries, AlreadyRestored, BackOnPrior, AsTaken,
         ValidMirror
    <3> QED BY <2>2, <3>1 DEF StartDeactivate, Begin
  <2>3. CASE StartRefresh \/ StartSync
    BY <1>0, <2>3 DEF StartRefresh, StartSync, Begin
  <2>4. ~(StartMirror \/ RecoverActivation \/ DoctorDropsStaleJournal \/ SyncRefused)
        /\ \A r \in Repo : ~DoctorDropsOrphan(r)
    BY DEF StartMirror, RecoverActivation, DoctorDropsStaleJournal, SyncRefused,
       DoctorDropsOrphan
  <2> QED BY <1>1, <2>1, <2>2, <2>3, <2>4 DEF StartCommand, SyncRound
<1>3. \A r \in Repo : AsItIs(r) /\ ~Undone(r)'
  BY <1>2 DEF AsItIs, Undone, Undoing, Unwinding
<1>4. ASSUME NEW r \in Repo PROVE Exists(r, "trunk")' /\ InHand(r)'
  <2>1. ASSUME NEW e, e = journal[r] PROVE AsTaken(r, e)'
    <3> SUFFICES AsTaken(r, e) /\ (e = None \/ Usable(e))
      BY <1>2, <1>3, TakenKept
    <3> QED BY <1>0, <2>1
  <2>2. AsTaken(r, mem[r])'
    BY <1>2, <2>1 DEF AsTaken, Plain, CanUndo, ValidMirror
  <2>3. AsTaken(r, IF Undone(r) THEN None ELSE mem[r])'
    BY <1>3, <2>2 DEF AsTaken, Plain, CanUndo, ValidMirror
  <2> QED BY <1>2, <1>3, <2>3, TakenKept DEF Calm, InHand
<1>5. Smooth' /\ AtHand'
  BY <1>2 DEF Calm, Smooth, AtHand
<1> QED BY <1>2, <1>4, <1>5, CalmNext

\* What is known of a primary when the command is not in the middle of it.
LEMMA InHandTaken ==
    ASSUME Calm, cmd # "idle", NEW r \in Repo, pc \notin {"baseline", "delete", "pop"} \/ r # cur
    PROVE  AsTaken(r, IF Undone(r) THEN None ELSE mem[r])
BY DEF Calm, InHand

LEMMA EndsCalm ==
    ASSUME InOrder, Calm, UNCHANGED faults, cmd # "idle", cmd' = "idle", CommandStep \/ Crash
    PROVE  Calm'
<1>0. faults + 1 # faults
  BY ConstantsAssumption DEF InOrder, Sound, Typed, TypeOK, GhostOK
<1>1. pc # "drifted" /\ failed = {} /\ archived = {}
  BY DEF Calm, Smooth
<1>2. /\ EndOfCommand /\ pc = "repo" /\ UNCHANGED <<git, archived>>
      /\ \/ cmd = "activate" /\ journal' = mem
         \/ ClearsJournal /\ todo = {} /\ journal' = Only(mem, failed)
         \/ cmd \in {"refresh", "sync"} /\ UNCHANGED journal
  <2>1. CASE Activate
    BY <1>0, <2>1 DEF Activate, ActivateRepo, ActivateRefused, StashNotPinned, SwitchToLive,
       SwitchToLiveFails, CaptureBaseline, CaptureBaselineFails, JournalActivated,
       JournalActivatedFails, FinishActivate, Unwind, Quit, Fault
  <2>2. CASE Deactivate
    BY <1>0, <1>1, <2>2 DEF Deactivate, ClearWorkingMirror, ClearWorkingMirrorFails, SaveCleared,
       MirrorsCleared, ArchiveDrift, Fault
  <2>3. CASE Unwinds
    BY <1>0, <2>3 DEF Unwinds, DeactivateRepo, DeactivateRepoFails, RestoreAfterRescue,
       DeleteTempBranch, PopPinnedStash, FinishUndo, FinishUnwind, Unwind, Quit, Fault
  <2>4. CASE Refresh \/ Sync
    BY <1>0, <2>4 DEF Refresh, RefreshRepo, RefreshRepoFails, SaveRefreshed, FinishRefresh,
       Sync, SyncSkip, SyncApply, SyncApplyFails, SaveSynced, Quit, Fault
  <2> QED BY <1>0, <2>1, <2>2, <2>3, <2>4 DEF CommandStep, Crash, Fault
<1>3. ASSUME NEW r \in Repo
      PROVE  /\ AsTaken(r, journal'[r])
             /\ journal'[r] = None \/ Usable(journal'[r])
  <2>1. AsTaken(r, IF Undone(r) THEN None ELSE mem[r])
    BY <1>2, InHandTaken
  <2>2. CASE cmd = "activate"
    BY <1>2, <2>1, <2>2, EntriesUsable DEF Undone, Undoing, Unwinding, ClearsJournal
  <2>3. CASE ClearsJournal
    <3>1. journal'[r] = None
      BY <1>1, <1>2, <2>3 DEF ClearsJournal, Only
    <3>2. mem[r] = None \/ Undone(r)
      BY <1>1, <1>2, <2>3 DEF ClearsJournal, Undone, Undoing, Unwinding, Entries
    <3> QED BY <2>1, <3>1, <3>2
  <2>4. CASE cmd \in {"refresh", "sync"}
    <3>1. ~Undone(r)
      BY <2>4 DEF Undone, Undoing, Unwinding
    <3>2. journal'[r] = mem[r]
      BY <1>2, <2>4 DEF InOrder, Booked, JournalRemembered, OneAhead, Ahead, Entries,
         ClearsJournal
    <3> QED BY <2>1, <3>1, <3>2, EntriesUsable
  <2> QED BY <1>2, <2>2, <2>3, <2>4
<1> QED BY <1>2, <1>3, CalmRests DEF EndOfCommand

\* activate, up to the journal write.
LEMMA ActivateRepoCalm ==
    ASSUME InOrder, Typed', Calm, NEW q \in Repo, ActivateRepo(q)
    PROVE  Calm'
<1>1. /\ cmd = "activate" /\ pc = "repo" /\ q \in todo /\ mem[q] = None
      /\ pc' = "switch" /\ cur' = q
      /\ UNCHANGED <<head, at, refs, archived, cmd, todo, mem, failed, restored, opt>>
  BY ActivateMemory DEF ActivateRepo, Entries
<1>2. Plain(q) /\ opt.live = "live" /\ Exists(q, "trunk")
  BY <1>1, InHandTaken DEF AsTaken, Calm, Smooth
<1>3. /\ \A r \in Repo \ {q} : wt'[r] = wt[r] /\ stash'[r] = stash[r]
      /\ \A r \in Repo : AsItIs(r)
  BY <1>1 DEF ActivateRepo, AsItIs, InOrder, Sound, Typed, TypeOK, GitOK
<1>4. \A r \in Repo : ~Undone(r)' /\ Undone(r)' = Undone(r)
  BY <1>1 DEF Undone, Undoing, Unwinding
<1>5. Exists(q, "trunk")' /\ Plain(q)'
  <2>1. LiveBranches(q)' = LiveBranches(q) /\ head'[q] = head[q] /\ UNCHANGED refs
    BY <1>1, <1>3, AsItIsKept
  <2> QED BY <1>2, <2>1 DEF Plain, Exists
<1>6. /\ draft'.prior = head[q] /\ draft'.temp = opt.live /\ draft'.mirror = None
      /\ draft'.stash = (IF IsDirty(q) THEN pushed[q] + 1 ELSE 0)
  BY DEF ActivateRepo
<1>7. wt'[q] = {} /\ (draft'.stash # 0 => stash'[q][draft'.stash] # {})
  <2>1. CASE IsDirty(q)
    <3>1. pushed[q] < MaxStash
      BY <1>1, <2>1 DEF ActivateRepo, IsDirty, InOrder, Sound, Typed, Control, StashRoom
    <3>2. pushed[q] + 1 \in 1..MaxStash
      BY <3>1, ConstantsAssumption DEF InOrder, Sound, Typed, TypeOK, GitOK
    <3>3. /\ wt' = [wt EXCEPT ![q] = {}]
          /\ stash' = [stash EXCEPT ![q][pushed[q] + 1] = wt[q]]
      BY <2>1 DEF ActivateRepo
    <3>4. /\ wt \in [Repo -> SUBSET Item]
          /\ stash \in [Repo -> [1..MaxStash -> SUBSET Item]]
      BY DEF InOrder, Sound, Typed, TypeOK, GitOK
    <3>5. wt'[q] = {} /\ stash'[q][pushed[q] + 1] = wt[q]
      BY <3>2, <3>3, <3>4
    <3> QED BY <1>6, <2>1, <3>5 DEF IsDirty
  <2>2. CASE ~IsDirty(q)
    BY <1>6, <2>2 DEF ActivateRepo, IsDirty
  <2> QED BY <2>1, <2>2
<1>8. CanUndo(cur, draft)'
  BY <1>1, <1>2, <1>5, <1>6, <1>7 DEF CanUndo, Plain
<1>9. Smooth' /\ AtHand'
  BY <1>1, <1>6, <1>7, <1>8 DEF Calm, Smooth, AtHand
<1>10. InHand(q)'
  BY <1>1, <1>4, <1>5 DEF InHand, AsTaken
<1> QED BY <1>1, <1>3, <1>4, <1>5, <1>9, <1>10, CalmGoesOn

LEMMA SwitchCalm ==
    ASSUME InOrder, Typed', Calm, SwitchToLive
    PROVE  Calm'
<1>1. /\ cmd = "activate" /\ pc = "switch" /\ pc' \in {"baseline", "journal"}
      /\ cur \in Repo /\ cur' = cur /\ mem[cur] = None /\ draft # None
      /\ UNCHANGED <<wt, stash, archived, cmd, todo, failed, restored, opt>>
      /\ head' = [head EXCEPT ![cur] = draft.temp] /\ at' = [at EXCEPT ![cur] = None]
      /\ refs' = [refs EXCEPT ![cur][draft.temp] = draft.target]
  BY InActivation, NoneAssumption DEF SwitchToLive, SwitchTo
<1>2. /\ Usable(draft) /\ CanUndo(cur, draft) /\ wt[cur] = {} /\ draft.mirror = None
      /\ Exists(cur, "trunk")
  BY <1>1, EntriesUsable DEF Calm, AtHand
<1>3. /\ \A r \in Repo \ {cur} : AsItIs(r)
      /\ \A x \in Branch : refs'[cur][x] = IF x = draft.temp THEN draft.target ELSE refs[cur][x]
      /\ head'[cur] = draft.temp
  BY <1>1, <1>2, UsableFields DEF AsItIs, InOrder, Sound, Typed, TypeOK, GitOK
<1>4. \A r \in Repo : ~Undone(r)' /\ Undone(r)' = Undone(r)
  BY <1>1 DEF Undone, Undoing, Unwinding
<1>5. \A r \in Repo \ {cur} : mem'[r] = mem[r]
  BY <1>1 DEF SwitchToLive, InOrder, Sound, Typed, TypeOK, CommandOK
<1>6. ASSUME NEW q \in Repo, q = cur, NEW e, e = draft
      PROVE  /\ Exists(q, "trunk")' /\ CanUndo(q, e)' /\ ValidMirror(q, e)'
             /\ head'[q] = e.temp /\ refs'[q][e.temp] = e.target
  <2>1. /\ e.temp \in Branch /\ e.temp = "live" /\ "trunk" \in Branch /\ "trunk" # "live"
        /\ Live \subseteq Branch
    BY <1>2, <1>6, UsableFields DEF CanUndo, Branch, Live
  <2>2. LiveBranches(q)' \subseteq LiveBranches(q) \cup {"live"}
    BY <1>3, <1>6, <2>1 DEF LiveBranches, Exists
  <2>3. CanUndo(q, e)'
    BY <1>1, <1>2, <1>6, <2>2 DEF CanUndo
  <2> QED BY <1>1, <1>2, <1>3, <1>6, <2>1, <2>3 DEF Exists, ValidMirror, IsDirty
<1>7. \/ pc' = "baseline" /\ draft' = draft
      \/ pc' = "journal" /\ mem'[cur] = draft
  BY <1>1 DEF SwitchToLive, InOrder, Sound, Typed, TypeOK, CommandOK
<1>8. InHand(cur)' /\ Exists(cur, "trunk")'
  <2>1. ASSUME NEW q \in Repo, q = cur PROVE InHand(q)' /\ Exists(q, "trunk")'
    <3>1. CASE pc' = "baseline"
      BY <1>1, <1>6, <2>1, <3>1 DEF InHand
    <3>2. CASE pc' = "journal"
      <4>1. ASSUME NEW e, e = mem'[q] PROVE CanUndo(q, e)' /\ ValidMirror(q, e)'
        BY <1>1, <1>6, <1>7, <2>1, <3>2, <4>1
      <4>2. AsTaken(q, mem[q])'
        BY <1>1, <1>7, <2>1, <3>2, <4>1 DEF AsTaken, CanUndo, ValidMirror
      <4> QED BY <1>4, <1>6, <2>1, <4>2 DEF InHand, AsTaken, CanUndo, ValidMirror
    <3> QED BY <1>1, <3>1, <3>2
  <2> QED BY <1>1, <2>1 DEF InHand, AsTaken, CanUndo, ValidMirror, Exists
<1>9. Smooth' /\ AtHand'
  <2>1. pc' = "baseline" =>
          /\ CanUndo(cur, draft)' /\ wt'[cur] = {} /\ draft'.mirror = None
          /\ head'[cur] = draft'.temp /\ refs'[cur][draft'.temp] = draft'.target
    <3>1. ASSUME pc' = "baseline", NEW q \in Repo, q = cur, NEW e, e = draft
          PROVE  CanUndo(q, e)'
      BY <1>6, <3>1
    <3> QED BY <1>1, <1>2, <1>6, <1>7, <3>1 DEF CanUndo
  <2> QED BY <1>1, <2>1 DEF Calm, Smooth, AtHand
<1>10. ASSUME NEW q \in Repo, q = cur PROVE InHand(q)' /\ Exists(q, "trunk")'
  BY <1>1, <1>8, <1>10 DEF InHand, AsTaken, CanUndo, ValidMirror, Exists
<1>11. ASSUME NEW q \in Repo, q = cur PROVE Calm'
  BY <1>1, <1>3, <1>4, <1>5, <1>9, <1>10, <1>11, CalmGoesOn
<1> QED BY <1>1, <1>11

LEMMA CaptureCalm ==
    ASSUME InOrder, Calm, CaptureBaseline
    PROVE  Calm'
<1>1. /\ cmd = "activate" /\ pc = "baseline" /\ pc' = "journal" /\ cur' = cur
      /\ cur \in Repo /\ draft \in Entry /\ draft # None
      /\ UNCHANGED <<git, archived, cmd, todo, failed, restored, opt>>
      /\ mem' = [mem EXCEPT ![cur] = [draft EXCEPT !.mirror = CaptureSnapshot(cur)]]
  BY InActivation, NoneAssumption DEF CaptureBaseline
<1>2. /\ CanUndo(cur, draft) /\ head[cur] = draft.temp /\ Exists(cur, "trunk")
      /\ refs[cur][draft.temp] = draft.target
  BY <1>1 DEF Calm, AtHand
<1>3. \A r \in Repo : AsItIs(r)
  BY <1>1 DEF AsItIs
<1>4. \A r \in Repo : ~Undone(r)' /\ Undone(r)' = Undone(r)
  BY <1>1 DEF Undone, Undoing, Unwinding
<1>5. \A r \in Repo \ {cur} : mem'[r] = mem[r]
  BY <1>1 DEF InOrder, Sound, Typed, TypeOK, CommandOK
<1>6. /\ mem'[cur].prior = draft.prior /\ mem'[cur].temp = draft.temp
      /\ mem'[cur].stash = draft.stash /\ mem'[cur].target = draft.target
      /\ mem'[cur].mirror = CaptureSnapshot(cur) /\ CaptureSnapshot(cur) # None
      /\ mem'[cur] # None
  <2>1. CaptureSnapshot(cur) \in Snapshot /\ CaptureSnapshot(cur) # None
    BY <1>1, SnapshotTyped, NoneAssumption DEF InOrder, Sound, Typed, TypeOK, Control
  <2>2. [draft EXCEPT !.mirror = CaptureSnapshot(cur)] \in Entry
    BY <1>1, <2>1 DEF Entry
  <2> QED BY <1>1, <2>1, <2>2, NoneAssumption
          DEF InOrder, Sound, Typed, TypeOK, CommandOK, Entry
<1>7. ASSUME NEW q \in Repo, q = cur PROVE InHand(q)' /\ Exists(q, "trunk")'
  <2>1. HeadCommit(q)' = HeadCommit(q) /\ LiveBranches(q)' = LiveBranches(q)
    BY <1>3, AsItIsKept
  <2>2. CanUndo(q, mem[q])'
    BY <1>1, <1>2, <1>6, <1>7, <2>1 DEF CanUndo
  <2>3. CaptureSnapshot(q)' = CaptureSnapshot(q)
    BY <1>1, <2>1 DEF CaptureSnapshot
  <2>4. ValidMirror(q, mem[q])'
    BY <1>1, <1>2, <1>6, <1>7, <2>3 DEF ValidMirror
  <2> QED BY <1>1, <1>2, <1>4, <1>6, <1>7, <2>2, <2>4
          DEF InHand, AsTaken, Exists, CanUndo, ValidMirror
<1>8. Smooth' /\ AtHand'
  BY <1>1 DEF Calm, Smooth, AtHand
<1>9. ASSUME NEW q \in Repo, q = cur PROVE Calm'
  BY <1>1, <1>3, <1>4, <1>5, <1>7, <1>8, <1>9, CalmGoesOn
<1> QED BY <1>1, <1>9

\* The steps of a command that touch no primary.
LEMMA NothingTouchedCalm ==
    ASSUME InOrder, Calm, cmd # "idle", cmd' # "idle", UNCHANGED faults,
           \/ JournalActivated \/ MirrorsCleared \/ SaveCleared \/ SaveRefreshed \/ SaveSynced
           \/ \E r \in Repo : ActivateRefused(r) \/ SyncSkip(r)
    PROVE  Calm'
<1>0. faults + 1 # faults
  BY ConstantsAssumption DEF InOrder, Sound, Typed, TypeOK, GhostOK
<1>1. /\ UNCHANGED <<git, archived, mem, opt, restored>> /\ failed' = {}
      /\ pc' \in {"repo", "clear"} /\ pc \notin {"baseline", "delete", "pop"}
      /\ \/ UNCHANGED cmd /\ (cmd \notin {"undo", "rollback"})
            /\ (pc' = "repo" => cmd \in {"activate", "refresh", "sync"} \/ todo' = Entries(mem))
         \/ cmd = "activate" /\ cmd' = "rollback" /\ todo' = Entries(mem)
  <2>1. failed = {}
    BY DEF Calm, Smooth
  <2> QED BY <1>0, <2>1 DEF JournalActivated, MirrorsCleared, SaveCleared, SaveRefreshed,
          SaveSynced, ActivateRefused, SyncSkip, Unwind, Fault, Quit, EndOfCommand, InOrder, Sound,
          Typed, Control, PcFitsCommand
<1>2. \A r \in Repo : Undone(r)' = Undone(r)
  <2>1. \A r \in Repo : ~Undone(r)'
    BY <1>1 DEF Undone, Undoing, Unwinding, Entries
  <2>2. ~Undoing
    BY <1>0 DEF JournalActivated, MirrorsCleared, SaveCleared, SaveRefreshed,
       SaveSynced, ActivateRefused, SyncSkip, Undoing, Unwinding, InOrder, Sound, Typed, Control,
       PcFitsCommand
  <2> QED BY <2>1, <2>2 DEF Undone
<1>3. \A r \in Repo : AsItIs(r)
  BY <1>1 DEF AsItIs
<1>4. Smooth' /\ AtHand'
  BY <1>1 DEF Calm, Smooth, AtHand
<1> QED BY <1>1, <1>2, <1>3, <1>4, CalmGoesOn, NoneAssumption

LEMMA WorktreeCalm ==
    ASSUME InOrder, Calm, UserInWorktree \/ UNCHANGED vars
    PROVE  Calm'
<1>1. /\ UNCHANGED <<head, at, wt, stash, pushed, disk, cmd, pc, loop>>
      /\ \A r \in Repo : AsItIs(r)
  BY UserSteps, WorktreeMovesNoHead DEF vars, AsItIs
<1>2. Smooth'
  BY <1>1 DEF Calm, Smooth
<1>3. ASSUME NEW r \in Repo
      PROVE  /\ Undone(r)' = Undone(r) /\ Plain(r)' = Plain(r)
             /\ \A e : Usable(e) /\ CanUndo(r, e) => CanUndo(r, e)'
             /\ Exists(r, "trunk")'
             /\ journal[r] = None \/ Usable(journal[r])
             /\ \A e : (e = None \/ Usable(e)) /\ AsTaken(r, e) => AsTaken(r, e)'
  BY <1>1, TakenKept, JournalUsable
  DEF Undone, Undoing, Unwinding, Ahead, Entries, Calm
<1>4. AtHand'
  <2>1. CASE pc \in {"switch", "baseline"}
    <3>1. cur \in Repo /\ Usable(draft)
      BY <2>1, InActivation, EntriesUsable, NoneAssumption
    <3>2. CanUndo(cur, draft) /\ AsItIs(cur)
      BY <1>1, <2>1, <3>1 DEF Calm, AtHand
    <3>3. CanUndo(cur, draft)'
      <4>1. ASSUME NEW q \in Repo, q = cur, NEW e, e = draft PROVE CanUndo(q, e)'
        BY <1>3, <3>1, <3>2, <4>1
      <4> QED BY <1>1, <3>1, <4>1 DEF CanUndo
    <3>4. refs'[cur][draft.temp] = refs[cur][draft.temp]
      BY <3>1, <3>2, UsableFields DEF AsItIs
    <3> QED BY <1>1, <2>1, <3>3, <3>4 DEF Calm, AtHand
  <2>2. CASE pc \in {"delete", "pop"}
    <3>1. cur \in Repo /\ mem[cur].temp \in Branch \ {"slice"}
      BY <2>2, AtStep, EntryFields DEF Live, Branch
    <3>2. refs'[cur][mem[cur].temp] = refs[cur][mem[cur].temp]
      BY <1>1, <3>1 DEF AsItIs
    <3>3. pc = "pop" => Plain(cur)'
      <4>1. ASSUME NEW q \in Repo, q = cur, pc = "pop" PROVE Plain(q)'
        BY <1>3, <3>1, <4>1 DEF Calm, AtHand
      <4> QED BY <1>1, <3>1, <4>1 DEF Plain
    <3> QED BY <1>1, <2>2, <3>2, <3>3 DEF Calm, AtHand
  <2> QED BY <1>1, <2>1, <2>2 DEF AtHand
<1>5. ASSUME cmd = "idle", NEW r \in Repo PROVE AsTaken(r, journal[r])'
  <2>1. ASSUME NEW e, e = journal[r] PROVE AsTaken(r, e)'
    <3> SUFFICES AsTaken(r, e) /\ (e = None \/ Usable(e))
      BY <1>3
    <3> QED BY <1>3, <1>5, <2>1 DEF Calm
  <2> QED BY <1>1, <2>1 DEF AsTaken, Plain, CanUndo, ValidMirror
<1>6. CASE cmd = "idle"
  BY <1>1, <1>2, <1>3, <1>4, <1>5, <1>6, CalmNext
<1>7. CASE cmd # "idle"
  BY <1>1, <1>2, <1>3, <1>4, <1>7, CalmGoesOn, NoneAssumption
<1> QED BY <1>6, <1>7

\* deactivate clears a mirror.
LEMMA ClearCalm ==
    ASSUME InOrder, Calm, NEW q \in Repo, ClearWorkingMirror(q)
    PROVE  Calm'
<1>1. /\ pc = "clear" /\ q \in todo /\ pc' = "cleared" /\ cmd \in {"deactivate", "force"}
      /\ UNCHANGED <<head, at, refs, stash, archived, cmd, todo, draft, failed, restored, opt>>
      /\ mem' = [mem EXCEPT ![q].mirror = None]
      /\ restored = {} /\ wt' = [wt EXCEPT ![q] = {}]
      /\ mem[q] \in Entry /\ mem[q] # None
  BY NoneAssumption DEF ClearWorkingMirror, Calm, Smooth, InOrder, Sound, Typed, Control,
     PcFitsCommand, Operands, Listed
<1>2. \A r \in Repo : ~Undone(r)' /\ Undone(r)' = Undone(r) /\ AsItIs(r)
  BY <1>1 DEF Undone, Undoing, AsItIs
<1>3. /\ \A r \in Repo \ {q} : mem'[r] = mem[r] /\ wt'[r] = wt[r]
      /\ wt'[q] = {}
      /\ mem'[q].prior = mem[q].prior /\ mem'[q].temp = mem[q].temp
      /\ mem'[q].stash = mem[q].stash /\ mem'[q].target = mem[q].target
      /\ mem'[q].mirror = None /\ mem'[q] # None
  <2>1. [mem[q] EXCEPT !.mirror = None] \in Entry
    BY <1>1, EntryUpdate, EntryFields
  <2> QED BY <1>1, <2>1, NoneAssumption
          DEF InOrder, Sound, Typed, TypeOK, CommandOK, GitOK, Entry
<1>4. AsTaken(q, mem[q])
  BY <1>1, <1>2, InHandTaken
<1>5. CanUndo(q, mem[q])' /\ ValidMirror(q, mem[q])'
  <2>1. LiveBranches(q)' = LiveBranches(q)
    BY <1>2, AsItIsKept
  <2> QED BY <1>1, <1>3, <1>4, <2>1 DEF AsTaken, CanUndo, ValidMirror, IsDirty
<1>6. InHand(q)' /\ Exists(q, "trunk")'
  BY <1>1, <1>2, <1>3, <1>5 DEF InHand, AsTaken, Exists, Calm, CanUndo, ValidMirror
<1>7. Smooth' /\ AtHand'
  BY <1>1 DEF Calm, Smooth, AtHand
<1> QED BY <1>1, <1>2, <1>3, <1>6, <1>7, CalmGoesOn

\* The loop over deactivateRepo.
LEMMA InTodoCalm ==
    ASSUME InOrder, Calm, Undoing, NEW q \in todo
    PROVE  /\ q \in Repo /\ mem[q] \in Entry /\ mem[q] # None /\ ~Undone(q) /\ Usable(mem[q])
           /\ CanUndo(q, mem[q]) /\ Exists(q, "trunk")
           /\ pc = "repo" => ValidMirror(q, mem[q])
<1>1. q \in Repo /\ mem[q] \in Entry /\ mem[q] # None /\ ~Undone(q) /\ cmd # "idle"
  BY UndoingParts DEF Undone
<1>2. Usable(mem[q]) /\ InHand(q) /\ Exists(q, "trunk")
  BY <1>1, EntriesUsable DEF Calm
<1>3. pc # "baseline"
  BY DEF Undoing
<1> QED BY <1>1, <1>2, <1>3 DEF InHand, AsTaken

LEMMA UnwindStepCalm ==
    ASSUME InOrder, Calm, Undoing, NEW q \in todo, pc = "repo" \/ q = cur,
           UNCHANGED <<archived, cmd, mem, journal, failed, restored, opt>>,
           \A r \in Repo \ {q} : AsItIs(r) /\ wt'[r] = wt[r] /\ stash'[r] = stash[r],
           pc' \in {"repo", "delete", "pop"}, todo' \in {todo, todo \ {q}},
           AtHand', InHand(q)', Exists(q, "trunk")'
    PROVE  Calm'
<1>1. ASSUME NEW r \in Repo \ {q} PROVE Undone(r)' = Undone(r)
  BY <1>1 DEF Undone, Undoing, Unwinding, Ahead, Entries
<1>2. Smooth'
  BY UndoingParts DEF Calm, Smooth
<1> QED BY <1>1, <1>2, CalmGoesOn, UndoingParts

LEMMA DeactivateRepoCalm ==
    ASSUME InOrder, Calm, UNCHANGED faults, NEW q \in Repo, DeactivateRepo(q)
    PROVE  Calm'
<1>0. faults + 1 # faults
  BY ConstantsAssumption DEF InOrder, Sound, Typed, TypeOK, GhostOK
<1>1. /\ Undoing /\ pc = "repo" /\ q \in todo
      /\ UNCHANGED <<wt, stash, archived, cmd, mem, journal, restored, opt>>
  BY DEF DeactivateRepo, Undoing
<1>2. /\ CanUndo(q, mem[q]) /\ ValidMirror(q, mem[q]) /\ Usable(mem[q]) /\ Exists(q, "trunk")
  BY <1>1, InTodoCalm
<1>3. RestorePriorBranch(q) /\ RepoGoesOn(q, "delete") /\ UNCHANGED refs
  BY <1>2, UsableFields DEF DeactivateRepo, ValidMirror
<1>4. /\ head'[q] = mem[q].prior
      /\ \A r \in Repo \ {q} : AsItIs(r)
  BY <1>0, <1>3 DEF RestorePriorBranch, SwitchTo, DetachAt, Fault, AsItIs, InOrder, Sound, Typed,
     TypeOK, GitOK
<1>5. pc' = "delete" /\ cur' = q /\ UNCHANGED <<todo, failed>>
  BY <1>3 DEF RepoGoesOn
<1>6. CanUndo(q, mem[q])'
  <2>1. LiveBranches(q)' = LiveBranches(q)
    BY <1>3 DEF LiveBranches, Exists
  <2> QED BY <1>1, <1>2, <2>1 DEF CanUndo
<1>7. AtHand'
  BY <1>1, <1>2, <1>3, <1>4, <1>5 DEF AtHand, ValidMirror
<1>8. InHand(q)' /\ Exists(q, "trunk")'
  BY <1>2, <1>3, <1>5, <1>6 DEF InHand, Exists, CanUndo
<1> QED BY <1>1, <1>4, <1>5, <1>7, <1>8, UnwindStepCalm

LEMMA DeactivateNeverFailsCalm ==
    ASSUME InOrder, Calm, UNCHANGED faults, NEW q \in Repo
    PROVE  ~DeactivateRepoFails(q)
<1> SUFFICES ASSUME DeactivateRepoFails(q) PROVE FALSE
  OBVIOUS
<1>0. faults + 1 # faults
  BY ConstantsAssumption DEF InOrder, Sound, Typed, TypeOK, GhostOK
<1>1. Undoing /\ pc = "repo" /\ q \in todo
  BY DEF DeactivateRepoFails, Undoing
<1>2. /\ CanUndo(q, mem[q]) /\ ValidMirror(q, mem[q]) /\ Usable(mem[q]) /\ Exists(q, "trunk")
  BY <1>1, InTodoCalm
<1>3. ~PriorBranchGone(q)
  BY <1>2 DEF CanUndo, PriorBranchGone
<1> QED BY <1>0, <1>2, <1>3, UsableFields DEF DeactivateRepoFails, ValidMirror, Fault

LEMMA DeleteTempBranchCalm ==
    ASSUME InOrder, Calm, UNCHANGED faults, DeleteTempBranch
    PROVE  Calm'
<1>0. faults + 1 # faults
  BY ConstantsAssumption DEF InOrder, Sound, Typed, TypeOK, GhostOK
<1>1. /\ Undoing /\ pc = "delete" /\ cur \in todo /\ cur \in Repo
      /\ UNCHANGED <<head, at, wt, stash, archived, cmd, mem, journal, restored, opt>>
  BY AtStep DEF DeleteTempBranch
<1>2. /\ CanUndo(cur, mem[cur]) /\ Usable(mem[cur]) /\ Exists(cur, "trunk")
      /\ head[cur] = mem[cur].prior /\ refs[cur][mem[cur].temp] = mem[cur].target
  BY <1>1, InTodoCalm DEF Calm, AtHand
<1>3. /\ refs' = [refs EXCEPT ![cur][mem[cur].temp] = None] /\ RepoGoesOn(cur, "pop")
  BY <1>0, <1>2, UsableFields DEF DeleteTempBranch, DeleteTempBranchIfAtTarget, Fault
<1>4. pc' = "pop" /\ cur' = cur /\ UNCHANGED <<todo, failed>>
  BY <1>3 DEF RepoGoesOn
<1>5. /\ \A r \in Repo \ {cur} : AsItIs(r)
      /\ \A x \in Branch : refs'[cur][x] = IF x = mem[cur].temp THEN None ELSE refs[cur][x]
  BY <1>1, <1>2, <1>3, UsableFields DEF AsItIs, InOrder, Sound, Typed, TypeOK, GitOK
<1>6. ASSUME NEW q \in Repo, q = cur
      PROVE  Plain(q)' /\ CanUndo(q, mem[q])' /\ Exists(q, "trunk")'
  <2>1. mem[q].temp = "live" /\ "trunk" \in Branch /\ Live \subseteq Branch /\ "trunk" # "live"
    BY <1>2, <1>6 DEF CanUndo, Branch, Live
  <2>2. LiveBranches(q)' = {}
    BY <1>2, <1>5, <1>6, <2>1 DEF LiveBranches, Exists, CanUndo
  <2> QED BY <1>1, <1>2, <1>5, <1>6, <2>1, <2>2 DEF Plain, CanUndo, Exists
<1>7. AtHand'
  BY <1>1, <1>4, <1>6 DEF AtHand, Plain
<1>8. ASSUME NEW q \in todo, q = cur PROVE Calm'
  <2>1. InHand(q)' /\ Exists(q, "trunk")'
    BY <1>1, <1>4, <1>6, <1>8 DEF InHand, CanUndo
  <2> QED BY <1>1, <1>4, <1>5, <1>7, <1>8, <2>1, UnwindStepCalm
<1> QED BY <1>1, <1>8

LEMMA PopPinnedStashCalm ==
    ASSUME InOrder, Calm, UNCHANGED faults, PopPinnedStash
    PROVE  Calm'
<1>0. faults + 1 # faults
  BY ConstantsAssumption DEF InOrder, Sound, Typed, TypeOK, GhostOK
<1>1. /\ Undoing /\ pc = "pop" /\ cur \in todo /\ cur \in Repo
      /\ UNCHANGED <<head, at, refs, archived, cmd, mem, journal, restored, opt>>
      /\ cmd # "undo" /\ cur \notin failed
  BY AtStep, UndoingParts DEF PopPinnedStash, Calm, Smooth
<1>2. /\ CanUndo(cur, mem[cur]) /\ mem[cur] # None /\ Exists(cur, "trunk") /\ Plain(cur)
  BY <1>1, InTodoCalm DEF Calm, AtHand
<1>3. RepoDone(cur)
  BY <1>0, <1>2 DEF PopPinnedStash, CanUndo, Fault
<1>4. pc' = "repo" /\ todo' = todo \ {cur} /\ UNCHANGED failed
  BY <1>3 DEF RepoDone
<1>5. /\ \A r \in Repo : AsItIs(r)
      /\ \A r \in Repo \ {cur} : wt'[r] = wt[r] /\ stash'[r] = stash[r]
  BY <1>1 DEF PopPinnedStash, AsItIs, InOrder, Sound, Typed, TypeOK, GitOK
<1>6. AtHand'
  BY <1>4 DEF AtHand
<1>7. ASSUME NEW q \in todo, q = cur PROVE Calm'
  <2>1. Undone(q)'
    BY <1>1, <1>2, <1>4, <1>7 DEF Undone, Undoing, Unwinding, Entries
  <2>2. Plain(q)' /\ Exists(q, "trunk")'
    BY <1>1, <1>2, <1>5, <1>7, AsItIsKept DEF Plain, Exists
  <2>3. InHand(q)' /\ Exists(q, "trunk")'
    BY <2>1, <2>2 DEF InHand, AsTaken
  <2> QED BY <1>1, <1>4, <1>5, <1>6, <1>7, <2>3, UnwindStepCalm
<1> QED BY <1>1, <1>7

\* refresh and live-sync write the primary and its entry alike.
LEMMA TargetStepCalm ==
    ASSUME InOrder, Typed', Calm, cmd \in {"refresh", "sync"}, pc = "repo", NEW q \in todo,
           NEW c \in Commit, NEW m, mem' = [mem EXCEPT ![q].target = c, ![q].mirror = m],
           \A r \in Repo \ {q} : AsItIs(r) /\ wt'[r] = wt[r],
           UNCHANGED <<head, stash, journal, archived, cmd, todo, draft, failed, restored,
                       opt>>,
           pc' \in {"refreshed", "synced"}, cur' = q,
           \A x \in Branch : refs'[q][x] = IF x = mem[q].temp THEN c ELSE refs[q][x],
           IF m = None THEN wt'[q] = {} ELSE m = [at |-> c, items |-> wt'[q]]
    PROVE  Calm'
<1>1. /\ q \in Repo /\ mem[q] \in Entry /\ mem[q] # None
      /\ mem \in [Repo -> Entry \cup {None}]
  BY NoneAssumption DEF InOrder, Sound, Typed, TypeOK, CommandOK, Control, Operands, Listed
<1>2. \A r \in Repo : ~Undone(r)' /\ Undone(r)' = Undone(r)
  BY DEF Undone, Undoing, Unwinding
<1>3. Usable(mem[q]) /\ CanUndo(q, mem[q]) /\ ValidMirror(q, mem[q]) /\ Exists(q, "trunk")
  BY <1>1, <1>2, InHandTaken, EntriesUsable DEF AsTaken, Calm, Undone, Undoing, Unwinding
<1>4. /\ \A r \in Repo \ {q} : mem'[r] = mem[r]
      /\ mem'[q].prior = mem[q].prior /\ mem'[q].temp = mem[q].temp
      /\ mem'[q].stash = mem[q].stash /\ mem'[q].target = c
      /\ mem'[q].mirror = m
  BY <1>1 DEF Entry
<1>5. /\ head'[q] = mem[q].temp /\ mem[q].temp = "live"
      /\ "trunk" \in Branch /\ "live" \in Branch /\ Live \subseteq Branch
  BY <1>3 DEF ValidMirror, CanUndo, Branch, Live
<1>6. LiveBranches(q)' \subseteq {"live"}
  BY <1>3, <1>5 DEF LiveBranches, Exists, CanUndo
<1>7. CanUndo(q, mem[q])' /\ Exists(q, "trunk")'
  BY <1>3, <1>4, <1>5, <1>6 DEF CanUndo, Exists
<1>8. CaptureSnapshot(q)' = [at |-> c, items |-> wt'[q]]
  BY <1>5 DEF CaptureSnapshot, HeadCommit
<1>9. ValidMirror(q, mem[q])'
  BY <1>4, <1>5, <1>8 DEF ValidMirror, IsDirty
<1>10. mem'[q] # None
  BY TargetMoves
<1>11. InHand(q)'
  BY <1>1, <1>2, <1>7, <1>9, <1>10 DEF InHand, AsTaken, CanUndo, ValidMirror
<1>12. Smooth' /\ AtHand'
  BY DEF Calm, Smooth, AtHand
<1> QED BY <1>1, <1>2, <1>4, <1>7, <1>11, <1>12, CalmGoesOn

LEMMA RefreshRepoCalm ==
    ASSUME InOrder, Typed', Calm, NEW q \in Repo, RefreshRepo(q), rewound' = {}
    PROVE  Calm'
<1> DEFINE new == srcs[q].at
           tip == refs[q][mem[q].temp]
           m == RebaselineMirror(q, refs'[q][mem[q].temp])
<1>1. /\ cmd = "refresh" /\ pc = "repo" /\ q \in todo /\ pc' = "refreshed" /\ cur' = q
      /\ mem' = [mem EXCEPT ![q].target = new, ![q].mirror = m]
      /\ UNCHANGED <<head, at, wt, stash, journal, archived, cmd, todo, draft, failed, restored,
                     opt>>
      /\ \/ refs' = [refs EXCEPT ![q][mem[q].temp] = new]
         \/ IsAncestor(new, tip) /\ UNCHANGED refs
      /\ IsAncestor(tip, new) \/ tip.own # {}
  BY DEF RefreshRepo
<1>2. /\ mem[q] \in Entry /\ mem[q] # None /\ srcs[q] \in Snapshot /\ srcs[q] # None
      /\ new \in Commit /\ wt[q] = {} /\ mem[q].target \in Commit
  BY <1>1, SoundParts, EntryFields, NoneAssumption
  DEF InOrder, Sound, Typed, Control, Operands, Listed, Snapshot, CommandSafe, CleanWhenRecorded
<1>3. Usable(mem[q]) /\ tip = mem[q].target
  BY <1>1, <1>2, InHandTaken, EntriesUsable
  DEF AsTaken, ValidMirror, Undone, Undoing, Unwinding
<1>4. IsAncestor(new, tip) => new = tip
  <2>1. tip.own = {} /\ new.own = {}
    BY <1>2, <1>3, SoundParts DEF InOrder, AllFine, Fine, OursOnly, SourcesOurs
  <2> QED BY <1>1, <1>2, <1>3, <2>1, SameCommit
<1>5. /\ \A r \in Repo \ {q} : AsItIs(r) /\ wt'[r] = wt[r]
      /\ \A x \in Branch : refs'[q][x] = IF x = mem[q].temp THEN new ELSE refs[q][x]
  <2>1. refs \in [Repo -> [Branch -> Commit \cup {None}]] /\ mem[q].temp \in Branch
    BY <1>3, UsableFields DEF InOrder, Sound, Typed, TypeOK, GitOK
  <2> QED BY <1>1, <1>4, <2>1 DEF AsItIs
<1>6. IF m = None THEN wt'[q] = {} ELSE m = [at |-> new, items |-> wt'[q]]
  <2>1. refs'[q][mem[q].temp] = new
    BY <1>3, <1>5, UsableFields
  <2>2. m = RebaselineMirror(q, new)
    BY <2>1
  <2> QED BY <1>1, <1>2, <2>2 DEF RebaselineMirror
<1> HIDE DEF m, new, tip
<1> QED BY <1>1, <1>2, <1>5, <1>6, TargetStepCalm

LEMMA SyncApplyCalm ==
    ASSUME InOrder, Typed', Calm, NEW q \in Repo, SyncApply(q)
    PROVE  Calm'
<1> DEFINE new == srcs[q].at
           m == srcs[q]
<1>1. /\ cmd = "sync" /\ pc = "repo" /\ q \in todo /\ pc' = "synced" /\ cur' = q
      /\ mem' = [mem EXCEPT ![q].target = new, ![q].mirror = m]
      /\ UNCHANGED <<head, stash, journal, archived, cmd, todo, draft, failed, restored, opt>>
      /\ ResetHead(q, new) /\ wt' = [wt EXCEPT ![q] = m.items]
  BY DEF SyncApply
<1>2. /\ mem[q] \in Entry /\ mem[q] # None /\ m \in Snapshot /\ m # None /\ new \in Commit
      /\ m = [at |-> new, items |-> m.items]
  BY <1>1, NoneAssumption DEF InOrder, Sound, Typed, Control, Operands, Listed, Snapshot
<1>3. Usable(mem[q]) /\ head[q] = mem[q].temp
  BY <1>1, <1>2, InHandTaken, EntriesUsable
  DEF AsTaken, ValidMirror, Undone, Undoing, Unwinding
<1>4. /\ \A r \in Repo : \A x \in Branch :
           refs'[r][x] = IF r = q /\ x = mem[q].temp THEN new ELSE refs[r][x]
      /\ at' = at
  <2>1. head[q] # "detached" /\ mem[q].temp \in Branch
    BY <1>3, UsableFields
  <2>2. at' = at
    BY <1>1, <2>1 DEF ResetHead
  <2>3. \A r \in Repo : \A x \in Branch :
          refs'[r][x] = IF r = q /\ x = head[q] THEN new ELSE refs[r][x]
    BY <1>1, HeadReset DEF InOrder, Sound
  <2> QED BY <1>3, <2>2, <2>3
<1>5. /\ \A r \in Repo \ {q} : AsItIs(r) /\ wt'[r] = wt[r]
      /\ wt'[q] = m.items
  BY <1>1, <1>4 DEF AsItIs, InOrder, Sound, Typed, TypeOK, GitOK
<1> HIDE DEF m, new
<1>6. IF m = None THEN wt'[q] = {} ELSE m = [at |-> new, items |-> wt'[q]]
  BY <1>2, <1>5
<1> QED BY <1>1, <1>2, <1>4, <1>5, <1>6, TargetStepCalm

LEMMA ActsGrow ==
    ASSUME [Next]_vars
    PROVE  UNCHANGED acts \/ acts' = acts + 1
<1>1. CASE StartCommand \/ SyncRound
  BY <1>1 DEF StartCommand, SyncRound, StartActivate, StartDeactivate,
     StartDeactivateDrifted, StartRefresh, StartMirror, RecoverActivation,
     DoctorDropsStaleJournal, DoctorDropsOrphan, StartSync, StartSyncDrifted, SyncRefused
<1>2. CASE Activate
  BY <1>2 DEF Activate, ActivateRepo, ActivateRefused, StashNotPinned, SwitchToLive,
     SwitchToLiveFails, CaptureBaseline, CaptureBaselineFails, JournalActivated,
     JournalActivatedFails, FinishActivate
<1>3. CASE Deactivate
  BY <1>3 DEF Deactivate, ClearWorkingMirror, ClearWorkingMirrorFails, SaveCleared,
     MirrorsCleared, ArchiveDrift
<1>4. CASE Unwinds
  BY <1>4 DEF Unwinds, DeactivateRepo, DeactivateRepoFails, RestoreAfterRescue,
     DeleteTempBranch, PopPinnedStash, FinishUndo, FinishUnwind
<1>5. CASE Refresh \/ Sync
  BY <1>5 DEF Refresh, RefreshRepo, RefreshRepoFails, SaveRefreshed, FinishRefresh, Sync,
     SyncSkip, SyncApply, SyncApplyFails, SaveSynced
<1>6. CASE Crash \/ UNCHANGED vars
  BY <1>6 DEF Crash, vars
<1>7. CASE User
  BY <1>7 DEF User, UserEdit, UserCommit, UserSwitch, UserDetach, UserDeletesPrior,
     UserRecreatesPrior, UserDropsStash, SourceEdit, SourceMove, SourceCommit, SourceReset, InPrimary, InWorktree
<1> QED BY <1>1, <1>2, <1>3, <1>4, <1>5, <1>6, <1>7 DEF Next, CommandStep

\* The steps of a command that goes on, when nothing fails.
LEMMA CommandCalm ==
    ASSUME InOrder, Typed', Calm, UNCHANGED faults, cmd # "idle", cmd' # "idle",
           CommandStep, rewound' = {}
    PROVE  Calm'
<1>0. faults + 1 # faults
  BY ConstantsAssumption DEF InOrder, Sound, Typed, TypeOK, GhostOK
<1>1. CASE Activate
  <2>1. \A r \in Repo : ~StashNotPinned(r)
    BY <1>0 DEF StashNotPinned, Fault
  <2>2. ~(SwitchToLiveFails \/ CaptureBaselineFails \/ JournalActivatedFails)
    BY <1>0 DEF SwitchToLiveFails, CaptureBaselineFails, JournalActivatedFails, Fault
  <2>3. ~FinishActivate
    BY DEF FinishActivate, Quit, EndOfCommand
  <2> QED BY <1>1, <2>1, <2>2, <2>3, ActivateRepoCalm, SwitchCalm, CaptureCalm,
          NothingTouchedCalm DEF Activate
<1>2. CASE Deactivate
  <2>1. ASSUME NEW r \in Repo, ClearWorkingMirrorFails(r) PROVE FALSE
    <3>1. pc = "clear" /\ r \in todo /\ ~ValidMirror(r, mem[r])
      BY <1>0, <2>1 DEF ClearWorkingMirrorFails, Fault
    <3>2. mem[r] # None /\ ~Undone(r)
      BY <3>1, NoneAssumption DEF InOrder, Sound, Typed, Control, Operands, Listed, PcFitsCommand,
         Undone, Undoing
    <3> QED BY <3>1, <3>2, InHandTaken DEF AsTaken
  <2>2. ~ArchiveDrift
    BY DEF ArchiveDrift, Calm, Smooth
  <2> QED BY <1>2, <2>1, <2>2, ClearCalm, NothingTouchedCalm DEF Deactivate
<1>3. CASE Unwinds
  <2>1. ~RestoreAfterRescue /\ ~FinishUndo
    BY DEF RestoreAfterRescue, FinishUndo, Calm, Smooth
  <2>2. ~FinishUnwind
    BY DEF FinishUnwind, Quit, EndOfCommand
  <2> QED BY <1>3, <2>1, <2>2, DeactivateRepoCalm, DeactivateNeverFailsCalm,
          DeleteTempBranchCalm, PopPinnedStashCalm DEF Unwinds
<1>4. CASE Refresh \/ Sync
  <2>1. ~FinishRefresh
    BY DEF FinishRefresh, EndOfCommand
  <2>2. \A r \in Repo : ~RefreshRepoFails(r) /\ ~SyncApplyFails(r)
    BY DEF RefreshRepoFails, SyncApplyFails, Quit, EndOfCommand
  <2> QED BY <1>4, <2>1, <2>2, RefreshRepoCalm, SyncApplyCalm, NothingTouchedCalm
          DEF Refresh, Sync
<1> QED BY <1>1, <1>2, <1>3, <1>4 DEF CommandStep

LEMMA NextCalm ==
    ASSUME ~Racing, InOrder, InOrder', Typed', Undisturbed, [Next]_vars
    PROVE  Undisturbed'
<1> SUFFICES ASSUME faults' = 0, acts' = 0, rewound' = {} PROVE Calm'
  BY DEF Undisturbed
<1>1. faults \in Nat /\ acts \in Nat
  BY ConstantsAssumption DEF InOrder, Sound, Typed, TypeOK, GhostOK
<1>2. faults = 0 /\ acts = 0 /\ UNCHANGED faults /\ UNCHANGED acts /\ acts + 1 # acts
  BY <1>1, FaultsGrow, ActsGrow
<1>3. Calm
  BY <1>2, RewoundGrows DEF Undisturbed
<1>4. pc = "idle" <=> cmd = "idle"
  BY DEF InOrder, Sound, Typed, Control, PcFitsCommand
<1>5. CASE User \/ UNCHANGED vars
  BY <1>2, <1>3, <1>5, UserSteps, WorktreeCalm
<1>6. CASE StartCommand \/ SyncRound
  <2>1. cmd = "idle"
    BY <1>6 DEF StartCommand, SyncRound, StartActivate, StartDeactivate,
       StartDeactivateDrifted, StartRefresh, StartMirror, RecoverActivation,
       DoctorDropsStaleJournal, DoctorDropsOrphan, StartSync, StartSyncDrifted, SyncRefused
  <2> QED BY <1>2, <1>3, <1>6, <2>1, RestStepsCalm, BeginsCalm
<1>7. CASE CommandStep \/ Crash
  <2>1. cmd # "idle"
    <3>1. CASE Activate
      BY <1>4, <3>1 DEF Activate, ActivateRepo, ActivateRefused, StashNotPinned, SwitchToLive,
         SwitchToLiveFails, CaptureBaseline, CaptureBaselineFails, JournalActivated,
         JournalActivatedFails, FinishActivate
    <3>2. CASE Deactivate
      BY <1>4, <3>2 DEF Deactivate, ClearWorkingMirror, ClearWorkingMirrorFails, SaveCleared,
         MirrorsCleared, ArchiveDrift
    <3>3. CASE Unwinds
      BY <1>4, <3>3 DEF Unwinds, DeactivateRepo, DeactivateRepoFails, RestoreAfterRescue,
         DeleteTempBranch, PopPinnedStash, FinishUndo, FinishUnwind
    <3>4. CASE Refresh \/ Sync
      BY <1>4, <3>4 DEF Refresh, RefreshRepo, RefreshRepoFails, SaveRefreshed, FinishRefresh,
         Sync, SyncSkip, SyncApply, SyncApplyFails, SaveSynced
    <3> QED BY <1>7, <3>1, <3>2, <3>3, <3>4 DEF CommandStep, Crash
  <2>2. CASE cmd' = "idle"
    BY <1>2, <1>3, <1>7, <2>1, <2>2, EndsCalm
  <2>3. CASE cmd' # "idle"
    <3>1. ~Crash
      BY <2>3 DEF Crash, Quit, EndOfCommand
    <3> QED BY <1>2, <1>3, <1>7, <2>1, <2>3, <3>1, CommandCalm
  <2> QED BY <2>2, <2>3
<1> QED BY <1>5, <1>6, <1>7 DEF Next

-----------------------------------------------------------------------------

\* The whole invariant the run on one repository checks.
THEOREM EngineInvariantHolds ==
    ASSUME ~Racing, ~DetachedCommits
    PROVE  Spec => []SwapInvariant
<1> DEFINE Inv == /\ InOrder /\ OrphansNeedFaults /\ TargetsTrack
                  /\ OriginKnown /\ Undisturbed
<1>1. Init => Inv
  <2>1. Init => TargetsTrack
    BY DEF Init, Empty, Entries, TargetsTrack
  <2>2. Init => OriginKnown
    BY DEF Init, OriginKnown, RefusedAsStarted, ActivationKnowsOrigin, RollbackKnowsOrigin
  <2>3. ASSUME Init PROVE Calm
    <3>1. /\ Smooth /\ AtHand /\ cmd = "idle" /\ journal = Empty
      BY <2>3 DEF Init, Smooth, AtHand
    <3>2. ASSUME NEW r \in Repo PROVE Exists(r, "trunk") /\ Plain(r)
      <4>1. [line |-> 0, own |-> {}] \in Commit
        BY ConstantsAssumption DEF Commit
      <4>2. refs[r]["trunk"] = [line |-> 0, own |-> {}]
        BY <2>3 DEF Init, Branch
      <4>3. \A b \in Live : refs[r][b] = None
        BY <2>3 DEF Init, Branch, Live
      <4> QED BY <2>3, <4>1, <4>2, <4>3, NoneAssumption DEF Init, Exists, Plain, LiveBranches
    <3> QED BY <3>1, <3>2 DEF Calm, AsTaken, Empty
  <2> QED BY <2>1, <2>2, <2>3, InitKept, InitOrphans DEF Undisturbed
<1>2. Inv /\ [Next]_vars => Inv'
  BY NextKept, NextTrack, NextOrphans, NextRefused, NextActivation, NextRollback,
     NextCalm DEF OriginKnown, InOrder
<1>3. Inv => SwapInvariant
  BY DEF SwapInvariant, SafeInvariant, InOrder, Sound, Typed, Booked, Recorded
<1> QED BY <1>1, <1>2, <1>3, PTL DEF Spec

\* As long as nobody touched a primary, nothing failed and no refresh followed a
\* reset of the slice branch, no command finds drift and deactivate restores every repository (engine.go:373-376): the
\* engine never mistakes its own doing for the user's.
THEOREM NoSelfDrift ==
    ASSUME ~Racing, ~DetachedCommits
    PROVE  Spec => []NeverSelfDrift
<1>1. ASSUME SwapInvariant PROVE NeverSelfDrift
  <2> SUFFICES ASSUME faults = 0, acts = 0, rewound = {}
               PROVE  /\ pc # "drifted" /\ (cmd = "idle" => ~Drifted)
                      /\ cmd \in {"deactivate", "force"} => failed = {}
    BY DEF NeverSelfDrift
  <2>1. Calm
    BY <1>1 DEF SwapInvariant, Undisturbed
  <2> QED BY <2>1 DEF Calm, Smooth, Drifted, Entries, AsTaken
<1> QED BY <1>1, EngineInvariantHolds, PTL

=============================================================================
