---------------------------- MODULE SwapSafetyProofs ----------------------------
(***************************************************************************)
(* Two proofs about the swap engine.  Types and control: no step reads an  *)
(* entry, a draft or a branch that is not there.  And no work is lost: the *)
(* engine never makes what the user did in a primary unreachable, whatever *)
(* fails and wherever a command is killed.  For the second, the user       *)
(* leaves the primaries alone while a command runs (~Racing) and commits   *)
(* on branches only (~DetachedCommits).                                    *)
(***************************************************************************)
EXTENDS SwapInv, TLAPS

USE DEF git, disk, loop, ghosts

Typed == TypeOK /\ Control
HeadsOK == HeadResolves /\ SliceExists

-----------------------------------------------------------------------------
(* Lemmas on what commands share.                                          *)

LEMMA EntryFields ==
    ASSUME NEW e \in Entry
    PROVE  /\ e.prior \in Branch \cup {"detached"} /\ e.priorAt \in Commit
           /\ e.stash \in 0..MaxStash /\ e.target \in Commit /\ e.temp \in Live
           /\ e.mirror \in Snapshot \cup {None}
BY DEF Entry

\* An entry keeps its type when its target or its mirror is replaced.
LEMMA EntryUpdate ==
    ASSUME NEW e \in Entry, NEW m \in Snapshot \cup {None}, NEW c \in Commit
    PROVE  /\ [e EXCEPT !.mirror = m] \in Entry
           /\ [e EXCEPT !.target = c, !.mirror = m] \in Entry
BY DEF Entry

LEMMA HeadCommitTyped ==
    ASSUME HeadResolves, NEW r \in Repo
    PROVE  HeadCommit(r) \in Commit
BY DEF HeadResolves, HeadCommit

LEMMA SnapshotTyped ==
    ASSUME GitOK, HeadResolves, NEW r \in Repo
    PROVE  CaptureSnapshot(r) \in Snapshot
BY HeadCommitTyped DEF GitOK, CaptureSnapshot, Snapshot

LEMMA OnlyTyped ==
    ASSUME NEW j \in [Repo -> Entry \cup {None}], NEW S
    PROVE  Only(j, S) \in [Repo -> Entry \cup {None}]
BY DEF Only

LEMMA GitKept ==
    ASSUME GitOK, HeadsOK, UNCHANGED <<head, at, refs, wt, stash, pushed, srcWt>>
    PROVE  GitOK' /\ HeadsOK'
BY DEF GitOK, HeadsOK, HeadResolves, SliceExists

LEMMA EndTyped ==
    ASSUME TypeOK, EndOfCommand, mirroring' \in BOOLEAN, HeadsOK'
    PROVE  CommandOK' /\ Control' /\ origin' \in [Repo -> Origin \cup {None}]
<1>1. CommandOK' /\ origin' \in [Repo -> Origin \cup {None}]
  BY DEF TypeOK, CommandOK, EndOfCommand, Empty, NoOpt, CmdName, PcName, Live
<1>2. Control'
  BY DEF EndOfCommand, HeadsOK, Control, PcFitsCommand, Operands, StashRoom,
         RepoSteps, Listed
<1> QED BY <1>1, <1>2

LEMMA QuitTyped ==
    ASSUME TypeOK, Quit, HeadsOK'
    PROVE  CommandOK' /\ Control' /\ origin' \in [Repo -> Origin \cup {None}]
BY EndTyped DEF Quit

LEMMA UnwindTyped ==
    ASSUME TypeOK, NEW c \in {"undo", "rollback"},
           NEW j \in [Repo -> Entry \cup {None}], NEW S \in SUBSET Entries(j),
           Unwind(c, j, S), HeadsOK'
    PROVE  CommandOK' /\ Control' /\ origin' = origin
<1>1. CommandOK' /\ origin' = origin
  BY DEF TypeOK, CommandOK, Unwind, CmdName, PcName, Entries
<1>2. Control'
  BY DEF Unwind, HeadsOK, Control, PcFitsCommand, Operands, StashRoom,
         RepoSteps, Listed, Unwinding, Entries
<1> QED BY <1>1, <1>2

LEMMA BeginTyped ==
    ASSUME TypeOK, HeadsOK, NEW c, NEW p, NEW j, NEW S, Begin(c, p, j, S)
    PROVE  origin' \in [Repo -> Origin \cup {None}]
<1>1. ASSUME NEW r \in Repo
      PROVE  [head |-> head[r], at |-> HeadCommit(r), items |-> wt[r],
              live |-> {b \in Live : Exists(r, b)}] \in Origin
  <2>1. HeadCommit(r) \in Commit
    BY HeadCommitTyped DEF HeadsOK
  <2> QED BY <2>1 DEF TypeOK, GitOK, Origin
<1> QED BY <1>1 DEF Begin

-----------------------------------------------------------------------------
(* activate                                                                *)

LEMMA StartActivateTyped ==
    ASSUME Typed, NEW f \in BOOLEAN, StartActivate(f)
    PROVE  Typed'
<1> USE DEF Typed, TypeOK
<1>1. GitOK' /\ HeadsOK'
  BY GitKept DEF StartActivate, Control, HeadsOK
<1>2. JournalOK'
  BY DEF JournalOK, StartActivate
<1>3. CommandOK'
  BY DEF CommandOK, StartActivate, Begin, Empty, CmdName, PcName
<1>4. Control'
  BY <1>1 DEF StartActivate, Begin, HeadsOK, Control, PcFitsCommand, Operands,
         StashRoom, RepoSteps, Listed
<1>5. GhostOK'
  BY BeginTyped DEF GhostOK, StartActivate, Control, HeadsOK
<1> QED BY <1>1, <1>2, <1>3, <1>4, <1>5

\* Pushing the auto-stash of a dirty primary.
LEMMA StashPushTyped ==
    ASSUME GitOK, NEW r \in Repo, pushed[r] < MaxStash
    PROVE  /\ [pushed EXCEPT ![r] = @ + 1] \in [Repo -> 0..MaxStash]
           /\ [stash EXCEPT ![r][pushed[r] + 1] = wt[r]]
                \in [Repo -> [1..MaxStash -> SUBSET Item]]
           /\ [wt EXCEPT ![r] = {}] \in [Repo -> SUBSET Item]
           /\ pushed[r] + 1 \in 0..MaxStash
<1>1. pushed[r] + 1 \in 1..MaxStash
  BY ConstantsAssumption DEF GitOK
<1>2. [stash[r] EXCEPT ![pushed[r] + 1] = wt[r]] \in [1..MaxStash -> SUBSET Item]
  BY <1>1 DEF GitOK
<1> QED BY <1>1, <1>2, ConstantsAssumption DEF GitOK

\* Popping a stash entry into the working tree.
LEMMA StashPopTyped ==
    ASSUME stash \in [Repo -> [1..MaxStash -> SUBSET Item]],
           wt \in [Repo -> SUBSET Item], NEW r \in Repo, NEW i \in 1..MaxStash
    PROVE  /\ [stash EXCEPT ![r][i] = {}] \in [Repo -> [1..MaxStash -> SUBSET Item]]
           /\ [wt EXCEPT ![r] = @ \cup stash[r][i]] \in [Repo -> SUBSET Item]
<1>1. stash[r] \in [1..MaxStash -> SUBSET Item] /\ stash[r][i] \in SUBSET Item
  OBVIOUS
<1>2. [stash[r] EXCEPT ![i] = {}] \in [1..MaxStash -> SUBSET Item]
  BY <1>1
<1>3. wt[r] \cup stash[r][i] \in SUBSET Item
  BY <1>1
<1> QED BY <1>2, <1>3

LEMMA ActivateRepoTyped ==
    ASSUME Typed, NEW r \in Repo, ActivateRepo(r)
    PROVE  Typed'
<1> USE DEF Typed, TypeOK
<1>1. IsDirty(r) => pushed[r] < MaxStash
  BY DEF ActivateRepo, Control, StashRoom
<1>2. GitOK' /\ HeadsOK'
  <2>1. CASE IsDirty(r)
    BY <2>1, <1>1, StashPushTyped
    DEF GitOK, ActivateRepo, Control, HeadsOK, HeadResolves, SliceExists
  <2>2. CASE ~IsDirty(r)
    BY <2>2 DEF GitOK, ActivateRepo, Control, HeadsOK, HeadResolves, SliceExists
  <2> QED BY <2>1, <2>2
<1>3. draft' \in Entry
  <2>1. HeadCommit(r) \in Commit /\ refs[r]["slice"] \in Commit
    BY HeadCommitTyped DEF Control, SliceExists
  <2>2. (IF IsDirty(r) THEN pushed[r] + 1 ELSE 0) \in 0..MaxStash
    BY <1>1, StashPushTyped, ConstantsAssumption
  <2> QED BY <2>1, <2>2 DEF GitOK, CommandOK, ActivateRepo, Entry
<1>4. JournalOK'
  BY DEF JournalOK, ActivateRepo
<1>5. CommandOK'
  BY <1>3 DEF CommandOK, ActivateRepo, PcName
<1>6. Control'
  <2>1. StashRoom'
    <3>1. \A q \in Repo \ {r} : pushed'[q] = pushed[q]
      BY DEF GitOK, ActivateRepo
    <3> QED BY <3>1 DEF CommandOK, ActivateRepo, Control, StashRoom
  <2> QED BY <1>2, <1>3, <2>1 DEF ActivateRepo, Control, HeadsOK,
         PcFitsCommand, Operands, RepoSteps, Listed
<1>7. GhostOK'
  BY DEF GhostOK, ActivateRepo
<1> QED BY <1>2, <1>4, <1>5, <1>6, <1>7

LEMMA ActivateRefusedTyped ==
    ASSUME Typed, NEW r \in Repo, ActivateRefused(r)
    PROVE  Typed'
<1> USE DEF Typed, TypeOK
<1>1. GitOK' /\ HeadsOK'
  BY GitKept DEF ActivateRefused, Control, HeadsOK
<1>2. JournalOK'
  BY DEF JournalOK, ActivateRefused
<1>3. CommandOK' /\ Control' /\ origin' = origin
  BY <1>1, UnwindTyped DEF ActivateRefused, CommandOK
<1>4. GhostOK'
  BY <1>3, ConstantsAssumption DEF GhostOK, ActivateRefused, Fault, NoFault
<1> QED BY <1>1, <1>2, <1>3, <1>4

LEMMA StashNotPinnedTyped ==
    ASSUME Typed, NEW r \in Repo, StashNotPinned(r)
    PROVE  Typed'
<1> USE DEF Typed, TypeOK
<1>1. GitOK' /\ HeadsOK'
  <2>1. pushed[r] < MaxStash
    BY DEF StashNotPinned, Control, StashRoom
  <2> QED BY <2>1, StashPushTyped
          DEF GitOK, StashNotPinned, Control, HeadsOK, HeadResolves, SliceExists
<1>2. JournalOK'
  BY DEF JournalOK, StashNotPinned
<1>3. CommandOK' /\ Control' /\ origin' = origin
  BY <1>1, UnwindTyped DEF StashNotPinned, CommandOK
<1>4. GhostOK'
  BY <1>3, ConstantsAssumption DEF GhostOK, StashNotPinned, Fault
<1> QED BY <1>1, <1>2, <1>3, <1>4

LEMMA SwitchToLiveTyped ==
    ASSUME Typed, SwitchToLive
    PROVE  Typed'
<1> USE DEF Typed, TypeOK
<1>1. cmd = "activate" /\ cur \in todo /\ cur \in Repo /\ draft \in Entry
  BY DEF CommandOK, SwitchToLive, Control, PcFitsCommand, Operands, RepoSteps
<1>2. draft.target \in Commit /\ draft.temp \in Branch
  BY <1>1 DEF Entry, Branch
<1>3. GitOK'
  BY <1>1, <1>2 DEF GitOK, SwitchToLive, SwitchTo
<1>4. HeadsOK'
  <2>1. refs'[cur] = [refs[cur] EXCEPT ![draft.temp] = draft.target]
    BY <1>1 DEF GitOK, SwitchToLive
  <2>2. head'[cur] = draft.temp /\ draft.temp # "detached" /\ draft.temp # "slice"
    BY <1>1, <1>2 DEF GitOK, SwitchToLive, SwitchTo, Entry, Live
  <2>3. \A q \in Repo \ {cur} : refs'[q] = refs[q] /\ head'[q] = head[q] /\ at'[q] = at[q]
    BY DEF GitOK, SwitchToLive, SwitchTo
  <2>4. refs'[cur][draft.temp] \in Commit /\ refs'[cur]["slice"] = refs[cur]["slice"]
    BY <1>1, <1>2, <2>1, <2>2 DEF GitOK, Branch
  <2> QED BY <2>2, <2>3, <2>4 DEF Control, HeadsOK, HeadResolves, SliceExists
<1>5. JournalOK'
  BY DEF JournalOK, SwitchToLive
<1>6. CommandOK'
  BY <1>1 DEF CommandOK, SwitchToLive, PcName
<1>7. Control'
  <2>1. PcFitsCommand' /\ StashRoom'
    BY <1>1 DEF SwitchToLive, Control, PcFitsCommand, StashRoom
  <2>2. Operands'
    BY <1>1 DEF CommandOK, SwitchToLive, Operands, RepoSteps, Listed
  <2> QED BY <1>4, <2>1, <2>2 DEF Control, HeadsOK
<1>8. GhostOK'
  BY DEF GhostOK, SwitchToLive
<1> QED BY <1>3, <1>5, <1>6, <1>7, <1>8

LEMMA SwitchToLiveFailsTyped ==
    ASSUME Typed, SwitchToLiveFails
    PROVE  Typed'
<1> USE DEF Typed, TypeOK
<1>1. cur \in Repo /\ draft \in Entry
  BY DEF CommandOK, SwitchToLiveFails, Control, Operands, RepoSteps
<1>2. HeadsOK'
  BY DEF SwitchToLiveFails, Control, HeadsOK, HeadResolves, SliceExists
<1>3. GitOK'
  <2>1. draft.stash # 0 => draft.stash \in 1..MaxStash
    BY <1>1, ConstantsAssumption DEF Entry
  <2>2. \/ stash' = stash
        \/ draft.stash # 0 /\ stash' = [stash EXCEPT ![cur][draft.stash] = {}]
    BY DEF SwitchToLiveFails
  <2>3. \/ wt' = wt
        \/ draft.stash # 0 /\ wt' = [wt EXCEPT ![cur] = @ \cup stash[cur][draft.stash]]
    BY DEF SwitchToLiveFails
  <2>4. stash' \in [Repo -> [1..MaxStash -> SUBSET Item]]
        /\ wt' \in [Repo -> SUBSET Item]
    <3>1. stash \in [Repo -> [1..MaxStash -> SUBSET Item]] /\ wt \in [Repo -> SUBSET Item]
      BY DEF GitOK
    <3>2. draft.stash # 0 =>
            /\ [stash EXCEPT ![cur][draft.stash] = {}] \in [Repo -> [1..MaxStash -> SUBSET Item]]
            /\ [wt EXCEPT ![cur] = @ \cup stash[cur][draft.stash]] \in [Repo -> SUBSET Item]
      BY <1>1, <2>1, <3>1, StashPopTyped, Zenon
    <3> QED BY <2>2, <2>3, <3>1, <3>2, Zenon
  <2> QED BY <2>4 DEF GitOK, SwitchToLiveFails
<1>4. JournalOK'
  BY DEF JournalOK, SwitchToLiveFails
<1>5. CommandOK' /\ Control' /\ origin' = origin
  BY <1>2, UnwindTyped DEF SwitchToLiveFails, CommandOK
<1>6. GhostOK'
  BY <1>5, ConstantsAssumption DEF GhostOK, SwitchToLiveFails, Fault
<1> QED BY <1>3, <1>4, <1>5, <1>6

LEMMA CaptureBaselineTyped ==
    ASSUME Typed, CaptureBaseline
    PROVE  Typed'
<1> USE DEF Typed, TypeOK
<1>1. cmd = "activate" /\ cur \in todo /\ cur \in Repo /\ draft \in Entry
  BY DEF CommandOK, CaptureBaseline, Control, PcFitsCommand, Operands, RepoSteps
<1>2. GitOK' /\ HeadsOK'
  BY GitKept DEF CaptureBaseline, Control, HeadsOK
<1>3. [draft EXCEPT !.mirror = CaptureSnapshot(cur)] \in Entry
  <2>1. CaptureSnapshot(cur) \in Snapshot
    BY <1>1, SnapshotTyped DEF Control
  <2> QED BY <1>1, <2>1, EntryUpdate, EntryFields
<1>4. JournalOK'
  BY DEF JournalOK, CaptureBaseline
<1>5. CommandOK'
  BY <1>1, <1>3 DEF CommandOK, CaptureBaseline, PcName
<1>6. Control'
  <2>1. PcFitsCommand' /\ StashRoom'
    BY <1>1 DEF CaptureBaseline, Control, PcFitsCommand, StashRoom
  <2>2. Operands'
    BY <1>1, <1>3 DEF CommandOK, CaptureBaseline, Operands, RepoSteps, Listed
  <2> QED BY <1>2, <2>1, <2>2 DEF Control, HeadsOK
<1>7. GhostOK'
  BY DEF GhostOK, CaptureBaseline
<1> QED BY <1>2, <1>4, <1>5, <1>6, <1>7

LEMMA CaptureBaselineFailsTyped ==
    ASSUME Typed, CaptureBaselineFails
    PROVE  Typed'
<1> USE DEF Typed, TypeOK
<1>1. cur \in Repo /\ draft \in Entry
  BY DEF CommandOK, CaptureBaselineFails, Control, Operands, RepoSteps
<1>2. GitOK' /\ HeadsOK'
  BY GitKept DEF CaptureBaselineFails, Control, HeadsOK
<1>3. JournalOK'
  BY DEF JournalOK, CaptureBaselineFails
<1>4. CommandOK' /\ Control' /\ origin' = origin
  <2> DEFINE j == [mem EXCEPT ![cur] = draft]
  <2>1. j \in [Repo -> Entry \cup {None}] /\ {cur} \in SUBSET Entries(j)
    BY <1>1, NoneAssumption DEF CommandOK, Entries
  <2>2. Unwind("undo", j, {cur})
    BY DEF CaptureBaselineFails
  <2> HIDE DEF j
  <2> QED BY <1>2, <2>1, <2>2, UnwindTyped
<1>5. GhostOK'
  BY <1>4, ConstantsAssumption DEF GhostOK, CaptureBaselineFails, Fault
<1> QED BY <1>2, <1>3, <1>4, <1>5

LEMMA JournalActivatedTyped ==
    ASSUME Typed, JournalActivated
    PROVE  Typed'
<1> USE DEF Typed, TypeOK
<1>1. GitOK' /\ HeadsOK'
  BY GitKept DEF JournalActivated, Control, HeadsOK
<1>2. JournalOK'
  BY DEF JournalOK, CommandOK, JournalActivated
<1>3. CommandOK'
  BY DEF CommandOK, JournalActivated, PcName
<1>4. Control'
  BY <1>1 DEF JournalActivated, HeadsOK, Control, PcFitsCommand, Operands,
         StashRoom, RepoSteps, Listed
<1>5. GhostOK'
  BY DEF GhostOK, JournalActivated
<1> QED BY <1>1, <1>2, <1>3, <1>4, <1>5

LEMMA JournalActivatedFailsTyped ==
    ASSUME Typed, JournalActivatedFails
    PROVE  Typed'
<1> USE DEF Typed, TypeOK
<1>1. GitOK' /\ HeadsOK'
  BY GitKept DEF JournalActivatedFails, Control, HeadsOK
<1>2. JournalOK'
  BY DEF JournalOK, JournalActivatedFails
<1>3. CommandOK' /\ Control' /\ origin' = origin
  BY <1>1, UnwindTyped DEF JournalActivatedFails, CommandOK
<1>4. GhostOK'
  BY <1>3, ConstantsAssumption DEF GhostOK, JournalActivatedFails, Fault
<1> QED BY <1>1, <1>2, <1>3, <1>4

LEMMA FinishActivateTyped ==
    ASSUME Typed, FinishActivate
    PROVE  Typed'
<1> USE DEF Typed, TypeOK
<1>1. GitOK' /\ HeadsOK'
  BY GitKept DEF FinishActivate, Control, HeadsOK
<1>2. JournalOK'
  BY DEF JournalOK, CommandOK, FinishActivate
<1>3. CommandOK' /\ Control' /\ origin' \in [Repo -> Origin \cup {None}]
  BY <1>1, QuitTyped DEF FinishActivate
<1>4. GhostOK'
  BY <1>3, ConstantsAssumption DEF GhostOK, FinishActivate, Fault, NoFault
<1> QED BY <1>1, <1>2, <1>3, <1>4

-----------------------------------------------------------------------------
(* Undoing: deactivate, its forced form and activate's rollbacks.          *)

LEMMA RestoreTyped ==
    ASSUME GitOK, HeadResolves, NEW r \in Repo, mem[r] \in Entry,
           RestorePriorBranch(r)
    PROVE  /\ head' \in [Repo -> Branch \cup {"detached"}]
           /\ at' \in [Repo -> Commit \cup {None}]
           /\ \A q \in Repo : IF head'[q] = "detached" THEN at'[q] \in Commit
                                ELSE refs[q][head'[q]] \in Commit
<1> DEFINE e == mem[r]
<1>1. e.prior \in Branch \cup {"detached"} /\ e.priorAt \in Commit
  BY EntryFields
<1>2. \/ /\ SwitchTo(r, e.prior) /\ e.prior \in Branch /\ e.prior # "detached"
         /\ refs[r][e.prior] \in Commit
      \/ DetachAt(r, e.priorAt)
  BY <1>1 DEF RestorePriorBranch, Exists, GitOK
<1> HIDE DEF e
<1>3. CASE SwitchTo(r, e.prior) /\ e.prior \in Branch /\ e.prior # "detached"
           /\ refs[r][e.prior] \in Commit
  BY <1>3 DEF SwitchTo, GitOK, HeadResolves
<1>4. CASE DetachAt(r, e.priorAt)
  BY <1>1, <1>4 DEF DetachAt, GitOK, HeadResolves
<1> QED BY <1>2, <1>3, <1>4

\* A step of the loop over the repositories to undo.
LEMMA UnwindStepTyped ==
    ASSUME TypeOK, Control, Unwinding, NEW r \in todo,
           \/ RepoFails(r)
           \/ RepoDone(r)
           \/ \E step \in {"restore", "delete", "pop"} : RepoGoesOn(r, step),
           UNCHANGED <<cmd, mem, draft, restored, srcs, opt, mirroring>>, HeadsOK'
    PROVE  CommandOK' /\ Control'
<1>1. CommandOK'
  BY DEF TypeOK, CommandOK, RepoFails, RepoDone, RepoGoesOn, PcName
<1>2. PcFitsCommand' /\ StashRoom'
  BY DEF RepoFails, RepoDone, RepoGoesOn, PcFitsCommand, StashRoom, Unwinding
<1>3. Operands'
  BY DEF RepoFails, RepoDone, RepoGoesOn, Control, Operands, Unwinding,
         RepoSteps, Listed
<1> QED BY <1>1, <1>2, <1>3 DEF Control, HeadsOK

LEMMA DeactivateRepoTyped ==
    ASSUME Typed, NEW r \in Repo, DeactivateRepo(r)
    PROVE  Typed'
<1> USE DEF Typed, TypeOK
<1>1. mem[r] \in Entry /\ Unwinding /\ r \in todo
  BY DEF DeactivateRepo, Unwinding, Control, Operands, Listed
<1>2. mem[r].temp \in Branch /\ mem[r].temp # "detached" /\ mem[r].temp # "slice"
      /\ mem[r].temp # "rescue"
  BY <1>1, EntryFields DEF Live, Branch
<1> DEFINE e == mem[r]
           deleted == /\ head[r] # e.temp /\ UNCHANGED <<head, at>>
                      /\ refs' = [refs EXCEPT ![r][e.temp] = None]
           renamed == /\ head[r] = e.temp /\ SwitchTo(r, "rescue")
                      /\ refs' = [refs EXCEPT ![r] = [@ EXCEPT
                                   !["rescue"] = refs[r][e.temp], ![e.temp] = None]]
           restored1 == RestorePriorBranch(r) /\ UNCHANGED refs
<1>3. deleted \/ renamed \/ restored1
  BY DEF DeactivateRepo, DeleteTempBranchIfAtTarget
<1>4. UNCHANGED <<wt, stash, pushed, srcWt>>
  BY DEF DeactivateRepo
<1>5. GitOK' /\ HeadsOK'
  <2>1. CASE deleted
    BY <1>2, <1>4, <2>1 DEF GitOK, Control, HeadsOK, HeadResolves, SliceExists
  <2>2. CASE renamed
    <3>1. refs[r][e.temp] \in Commit
      BY <1>2, <2>2 DEF Control, HeadResolves
    <3>2. refs'[r]["rescue"] = refs[r][e.temp] /\ refs'[r]["slice"] = refs[r]["slice"]
          /\ head'[r] = "rescue"
      BY <1>2, <2>2 DEF GitOK, SwitchTo, Branch
    <3>3. \A q \in Repo \ {r} : refs'[q] = refs[q] /\ head'[q] = head[q] /\ at'[q] = at[q]
      BY <2>2 DEF GitOK, SwitchTo
    <3>4. GitOK'
      BY <1>2, <1>4, <2>2, <3>1 DEF GitOK, SwitchTo, Branch
    <3> QED BY <3>1, <3>2, <3>3, <3>4 DEF Control, HeadsOK, HeadResolves, SliceExists
  <2>3. CASE restored1
    BY <1>1, <1>4, <2>3, RestoreTyped
    DEF GitOK, Control, HeadsOK, HeadResolves, SliceExists
  <2> QED BY <1>3, <2>1, <2>2, <2>3
<1>6. JournalOK'
  BY DEF JournalOK, DeactivateRepo
<1>7. CommandOK' /\ Control'
  BY <1>1, <1>5, UnwindStepTyped DEF DeactivateRepo
<1>8. GhostOK'
  BY ConstantsAssumption DEF GhostOK, DeactivateRepo, RestorePriorBranch, Fault, NoFault
<1> QED BY <1>5, <1>6, <1>7, <1>8

LEMMA DeactivateRepoFailsTyped ==
    ASSUME Typed, NEW r \in Repo, DeactivateRepoFails(r)
    PROVE  Typed'
<1> USE DEF Typed, TypeOK
<1>1. GitOK' /\ HeadsOK'
  BY GitKept DEF DeactivateRepoFails, Control, HeadsOK
<1>2. JournalOK'
  BY DEF JournalOK, DeactivateRepoFails
<1>3. CommandOK' /\ Control'
  BY <1>1, UnwindStepTyped DEF DeactivateRepoFails
<1>4. GhostOK'
  BY ConstantsAssumption DEF GhostOK, DeactivateRepoFails, Fault, NoFault
<1> QED BY <1>1, <1>2, <1>3, <1>4

LEMMA RestoreAfterRescueTyped ==
    ASSUME Typed, RestoreAfterRescue
    PROVE  Typed'
<1> USE DEF Typed, TypeOK
<1>1. Unwinding /\ cur \in todo /\ cur \in Repo /\ mem[cur] \in Entry
  BY DEF CommandOK, RestoreAfterRescue, Control, PcFitsCommand, Operands,
         RepoSteps, Listed, Unwinding
<1>2. GitOK' /\ HeadsOK'
  <2>1. CASE RestorePriorBranch(cur)
    BY <1>1, <2>1, RestoreTyped
    DEF GitOK, RestoreAfterRescue, Control, HeadsOK, HeadResolves, SliceExists
  <2>2. CASE UNCHANGED <<head, at>>
    BY <2>2, GitKept DEF RestoreAfterRescue, Control, HeadsOK
  <2> QED BY <2>1, <2>2 DEF RestoreAfterRescue
<1>3. JournalOK'
  BY DEF JournalOK, RestoreAfterRescue
<1>4. CommandOK' /\ Control'
  BY <1>1, <1>2, UnwindStepTyped DEF RestoreAfterRescue
<1>5. GhostOK'
  BY ConstantsAssumption
  DEF GhostOK, RestoreAfterRescue, RestorePriorBranch, Fault, NoFault
<1> QED BY <1>2, <1>3, <1>4, <1>5

LEMMA DeleteTempBranchTyped ==
    ASSUME Typed, DeleteTempBranch
    PROVE  Typed'
<1> USE DEF Typed, TypeOK
<1>1. Unwinding /\ cur \in todo /\ cur \in Repo /\ mem[cur] \in Entry
  BY DEF CommandOK, DeleteTempBranch, Control, PcFitsCommand, Operands,
         RepoSteps, Listed, Unwinding
<1>2. GitOK' /\ HeadsOK'
  <2>1. mem[cur].temp \in Branch /\ mem[cur].temp # "slice"
    BY <1>1, EntryFields DEF Live, Branch
  <2>2. CASE DeleteTempBranchIfAtTarget(cur)
    BY <1>1, <2>1, <2>2 DEF DeleteTempBranch, DeleteTempBranchIfAtTarget, GitOK,
       Control, HeadsOK, HeadResolves, SliceExists
  <2>3. CASE UNCHANGED refs
    BY <2>3, GitKept DEF DeleteTempBranch, Control, HeadsOK
  <2> QED BY <2>2, <2>3 DEF DeleteTempBranch
<1>3. JournalOK'
  BY DEF JournalOK, DeleteTempBranch
<1>4. CommandOK' /\ Control'
  BY <1>1, <1>2, UnwindStepTyped DEF DeleteTempBranch
<1>5. GhostOK'
  BY ConstantsAssumption DEF GhostOK, DeleteTempBranch, Fault, NoFault
<1> QED BY <1>2, <1>3, <1>4, <1>5

LEMMA PopPinnedStashTyped ==
    ASSUME Typed, PopPinnedStash
    PROVE  Typed'
<1> USE DEF Typed, TypeOK
<1>1. Unwinding /\ cur \in todo /\ cur \in Repo /\ mem[cur] \in Entry
  BY DEF CommandOK, PopPinnedStash, Control, PcFitsCommand, Operands,
         RepoSteps, Listed, Unwinding
<1> DEFINE id == mem[cur].stash
<1>2. GitOK'
  <2>1. id # 0 => id \in 1..MaxStash
    BY <1>1, EntryFields, ConstantsAssumption
  <2>2. \/ stash' = stash
        \/ id # 0 /\ stash' = [stash EXCEPT ![cur][id] = {}]
    BY DEF PopPinnedStash
  <2>3. \/ wt' = wt
        \/ id # 0 /\ wt' = [wt EXCEPT ![cur] = @ \cup stash[cur][id]]
    BY DEF PopPinnedStash
  <2>4. stash' \in [Repo -> [1..MaxStash -> SUBSET Item]]
        /\ wt' \in [Repo -> SUBSET Item]
    <3>1. stash \in [Repo -> [1..MaxStash -> SUBSET Item]] /\ wt \in [Repo -> SUBSET Item]
      BY DEF GitOK
    <3>2. id # 0 =>
            /\ [stash EXCEPT ![cur][id] = {}] \in [Repo -> [1..MaxStash -> SUBSET Item]]
            /\ [wt EXCEPT ![cur] = @ \cup stash[cur][id]] \in [Repo -> SUBSET Item]
      BY <1>1, <2>1, <3>1, StashPopTyped, Zenon
    <3> QED BY <2>2, <2>3, <3>1, <3>2, Zenon
  <2> QED BY <2>4 DEF GitOK, PopPinnedStash
<1>3. HeadsOK'
  BY DEF PopPinnedStash, Control, HeadsOK, HeadResolves, SliceExists
<1>4. JournalOK'
  BY DEF JournalOK, PopPinnedStash
<1>5. CommandOK' /\ Control'
  BY <1>1, <1>3, UnwindStepTyped DEF PopPinnedStash
<1>6. GhostOK'
  BY ConstantsAssumption DEF GhostOK, PopPinnedStash, Fault, NoFault
<1> QED BY <1>2, <1>3, <1>4, <1>5, <1>6

LEMMA FinishUndoTyped ==
    ASSUME Typed, FinishUndo
    PROVE  Typed'
<1> USE DEF Typed, TypeOK
<1>1. GitOK' /\ HeadsOK'
  BY GitKept DEF FinishUndo, Control, HeadsOK
<1>2. JournalOK'
  BY DEF JournalOK, FinishUndo
<1>3. CommandOK' /\ Control' /\ origin' = origin
  <2> DEFINE kept == Only(mem, failed \cup Entries(journal))
  <2>1. kept \in [Repo -> Entry \cup {None}]
    BY OnlyTyped DEF CommandOK
  <2>2. Unwind("rollback", kept, Entries(kept))
    BY DEF FinishUndo
  <2> HIDE DEF kept
  <2> QED BY <1>1, <2>1, <2>2, UnwindTyped
<1>4. GhostOK'
  BY <1>3 DEF GhostOK, FinishUndo
<1> QED BY <1>1, <1>2, <1>3, <1>4

LEMMA FinishUnwindTyped ==
    ASSUME Typed, FinishUnwind
    PROVE  Typed'
<1> USE DEF Typed, TypeOK
<1>1. GitOK' /\ HeadsOK'
  BY GitKept DEF FinishUnwind, Control, HeadsOK
<1>2. JournalOK'
  BY OnlyTyped DEF JournalOK, CommandOK, FinishUnwind
<1>3. CommandOK' /\ Control' /\ origin' \in [Repo -> Origin \cup {None}]
  BY <1>1, QuitTyped DEF FinishUnwind
<1>4. GhostOK'
  BY <1>3, ConstantsAssumption DEF GhostOK, FinishUnwind, Fault, NoFault
<1> QED BY <1>1, <1>2, <1>3, <1>4

-----------------------------------------------------------------------------
(* deactivate, up to the undoing; the archive of a drifted activation.     *)

LEMMA StartDeactivateTyped ==
    ASSUME Typed, NEW c, StartDeactivate(c)
    PROVE  Typed'
<1> USE DEF Typed, TypeOK
<1>1. GitOK' /\ HeadsOK'
  BY GitKept DEF StartDeactivate, Control, HeadsOK
<1>2. JournalOK'
  BY DEF JournalOK, StartDeactivate
<1>3. CommandOK'
  BY DEF CommandOK, JournalOK, StartDeactivate, Begin, CmdName, PcName,
         MirroredEntries, Entries
<1>4. Control'
  BY <1>1 DEF JournalOK, StartDeactivate, Begin, HeadsOK, Control, PcFitsCommand,
         Operands, StashRoom, RepoSteps, Listed, MirroredEntries, Entries
<1>5. GhostOK'
  BY BeginTyped DEF GhostOK, StartDeactivate, Control, HeadsOK
<1> QED BY <1>1, <1>2, <1>3, <1>4, <1>5

LEMMA StartDeactivateDriftedTyped ==
    ASSUME Typed, NEW c, StartDeactivateDrifted(c)
    PROVE  Typed'
<1> USE DEF Typed, TypeOK
<1>1. GitOK' /\ HeadsOK'
  BY GitKept DEF StartDeactivateDrifted, Control, HeadsOK
<1>2. JournalOK'
  BY DEF JournalOK, StartDeactivateDrifted
<1>3. CommandOK'
  BY DEF CommandOK, JournalOK, StartDeactivateDrifted, Begin, CmdName, PcName
<1>4. Control'
  BY <1>1 DEF StartDeactivateDrifted, Begin, HeadsOK, Control, PcFitsCommand,
         Operands, StashRoom, RepoSteps, Listed
<1>5. GhostOK'
  BY BeginTyped DEF GhostOK, StartDeactivateDrifted, Control, HeadsOK
<1> QED BY <1>1, <1>2, <1>3, <1>4, <1>5

LEMMA ClearWorkingMirrorTyped ==
    ASSUME Typed, NEW r \in Repo, ClearWorkingMirror(r)
    PROVE  Typed'
<1> USE DEF Typed, TypeOK
<1>1. mem[r] \in Entry /\ r \in todo /\ cmd \in {"deactivate", "force"}
  BY DEF ClearWorkingMirror, Control, PcFitsCommand, Operands, Listed
<1>2. mem' \in [Repo -> Entry \cup {None}] /\ \A q \in todo : mem'[q] \in Entry
  <2>1. [mem[r] EXCEPT !.mirror = None] \in Entry
    BY <1>1, EntryFields, EntryUpdate
  <2>2. mem' = [mem EXCEPT ![r] = [mem[r] EXCEPT !.mirror = None]]
    BY DEF ClearWorkingMirror
  <2> QED BY <1>1, <2>1, <2>2 DEF CommandOK, Control, Operands, Listed
<1>3. GitOK' /\ HeadsOK'
  BY DEF ClearWorkingMirror, GitOK, Control, HeadsOK, HeadResolves, SliceExists
<1>4. JournalOK'
  BY DEF JournalOK, ClearWorkingMirror
<1>5. CommandOK'
  BY <1>2 DEF CommandOK, ClearWorkingMirror, PcName
<1>6. Control'
  BY <1>1, <1>2, <1>3 DEF ClearWorkingMirror, HeadsOK, Control, PcFitsCommand,
         Operands, StashRoom, RepoSteps, Listed
<1>7. GhostOK'
  BY DEF GhostOK, ClearWorkingMirror
<1> QED BY <1>3, <1>4, <1>5, <1>6, <1>7

LEMMA ClearWorkingMirrorFailsTyped ==
    ASSUME Typed, NEW r \in Repo, ClearWorkingMirrorFails(r)
    PROVE  Typed'
<1> USE DEF Typed, TypeOK
<1>1. GitOK' /\ HeadsOK'
  BY DEF ClearWorkingMirrorFails, GitOK, Control, HeadsOK, HeadResolves, SliceExists
<1>2. JournalOK'
  BY DEF JournalOK, ClearWorkingMirrorFails
<1>3. CommandOK' /\ Control' /\ GhostOK'
  <2>1. CASE Fault /\ Quit
    BY <1>1, <2>1, QuitTyped, ConstantsAssumption
    DEF GhostOK, ClearWorkingMirrorFails, Fault
  <2>2. CASE NoFault /\ pc' = "drifted"
             /\ UNCHANGED <<cmd, cur, todo, mem, draft, failed, restored, srcs,
                            opt, mirroring, origin>>
    <3>1. cmd \in {"deactivate", "force"}
      BY DEF ClearWorkingMirrorFails, Control, PcFitsCommand
    <3> QED BY <1>1, <2>2, <3>1 DEF CommandOK, GhostOK, ClearWorkingMirrorFails,
             NoFault, PcName, HeadsOK, Control, PcFitsCommand, Operands,
             StashRoom, RepoSteps, Listed
  <2> QED BY <2>1, <2>2 DEF ClearWorkingMirrorFails
<1> QED BY <1>1, <1>2, <1>3

LEMMA SaveClearedTyped ==
    ASSUME Typed, SaveCleared
    PROVE  Typed'
<1> USE DEF Typed, TypeOK
<1>1. GitOK' /\ HeadsOK'
  BY GitKept DEF SaveCleared, Control, HeadsOK
<1>2. JournalOK'
  BY DEF JournalOK, CommandOK, SaveCleared
<1>3. CommandOK' /\ Control' /\ GhostOK'
  <2>1. CASE Fault /\ Quit
    BY <1>1, <2>1, QuitTyped, ConstantsAssumption DEF GhostOK, SaveCleared, Fault
  <2>2. CASE NoFault /\ pc' = "clear" /\ todo' = todo \ {cur} /\ cur' = None
             /\ UNCHANGED <<cmd, mem, draft, failed, restored, srcs, opt,
                            mirroring, origin>>
    <3>1. cmd \in {"deactivate", "force"}
      BY DEF SaveCleared, Control, PcFitsCommand
    <3> QED BY <1>1, <2>2, <3>1 DEF CommandOK, GhostOK, SaveCleared, NoFault,
             PcName, HeadsOK, Control, PcFitsCommand, Operands, StashRoom,
             RepoSteps, Listed
  <2> QED BY <2>1, <2>2 DEF SaveCleared
<1> QED BY <1>1, <1>2, <1>3

LEMMA MirrorsClearedTyped ==
    ASSUME Typed, MirrorsCleared
    PROVE  Typed'
<1> USE DEF Typed, TypeOK
<1>1. cmd \in {"deactivate", "force"}
  BY DEF MirrorsCleared, Control, PcFitsCommand
<1>2. GitOK' /\ HeadsOK'
  BY GitKept DEF MirrorsCleared, Control, HeadsOK
<1>3. JournalOK'
  BY DEF JournalOK, MirrorsCleared
<1>4. CommandOK'
  BY DEF CommandOK, MirrorsCleared, PcName, Entries
<1>5. Control'
  <2>1. PcFitsCommand' /\ StashRoom'
    BY <1>1 DEF MirrorsCleared, Control, PcFitsCommand, StashRoom
  <2>2. Operands'
    BY <1>1 DEF CommandOK, MirrorsCleared, Entries, Operands, RepoSteps, Listed
  <2> QED BY <1>2, <2>1, <2>2 DEF Control, HeadsOK
<1>6. GhostOK'
  BY DEF GhostOK, MirrorsCleared
<1> QED BY <1>2, <1>3, <1>4, <1>5, <1>6

LEMMA ArchiveTyped ==
    ASSUME JournalOK, Archive
    PROVE  JournalOK'
BY DEF JournalOK, Archive, Empty, Entries

LEMMA ArchiveDriftTyped ==
    ASSUME Typed, ArchiveDrift
    PROVE  Typed'
<1> USE DEF Typed, TypeOK
<1>1. GitOK' /\ HeadsOK'
  BY GitKept DEF ArchiveDrift, Control, HeadsOK
<1>2. JournalOK'
  <2>1. CASE Archive
    BY <2>1, ArchiveTyped
  <2>2. CASE UNCHANGED disk
    BY <2>2 DEF JournalOK
  <2> QED BY <2>1, <2>2 DEF ArchiveDrift
<1>3. CommandOK' /\ Control' /\ origin' \in [Repo -> Origin \cup {None}]
  BY <1>1, QuitTyped DEF ArchiveDrift
<1>4. GhostOK'
  BY <1>3, ConstantsAssumption DEF GhostOK, ArchiveDrift, Fault, NoFault
<1> QED BY <1>1, <1>2, <1>3, <1>4

\* Steps of doctor and recover-activation, and of the user, run no command.
LEMMA NoCommandTyped ==
    ASSUME Typed, UNCHANGED <<cmd, pc, loop, pushed>>, HeadsOK'
    PROVE  CommandOK' /\ Control'
<1> USE DEF Typed, TypeOK
<1>1. CommandOK'
  BY DEF CommandOK
<1>2. Control'
  BY DEF HeadsOK, Control, PcFitsCommand, Operands, StashRoom, Unwinding
<1> QED BY <1>1, <1>2

LEMMA RecoverActivationTyped ==
    ASSUME Typed, RecoverActivation
    PROVE  Typed'
<1> USE DEF Typed, TypeOK
<1>1. GitOK' /\ HeadsOK'
  BY GitKept DEF RecoverActivation, Control, HeadsOK
<1>2. JournalOK'
  BY ArchiveTyped DEF RecoverActivation
<1>3. CommandOK' /\ Control' /\ GhostOK'
  BY <1>1, NoCommandTyped DEF RecoverActivation, GhostOK
<1> QED BY <1>1, <1>2, <1>3

-----------------------------------------------------------------------------
(* refresh                                                                 *)

LEMMA ResetTyped ==
    ASSUME GitOK, HeadsOK, NEW r \in Repo, NEW c \in Commit, ResetHead(r, c),
           UNCHANGED head
    PROVE  /\ at' \in [Repo -> Commit \cup {None}]
           /\ refs' \in [Repo -> [Branch -> Commit \cup {None}]]
           /\ HeadsOK'
<1>1. CASE head[r] = "detached"
  BY <1>1 DEF GitOK, HeadsOK, HeadResolves, SliceExists, ResetHead
<1>2. CASE head[r] # "detached"
  <2>1. head[r] \in Branch /\ refs' = [refs EXCEPT ![r][head[r]] = c] /\ at' = at
    BY <1>2 DEF GitOK, ResetHead
  <2>2. [refs[r] EXCEPT ![head[r]] = c] \in [Branch -> Commit \cup {None}]
    BY <2>1 DEF GitOK
  <2>3. refs' \in [Repo -> [Branch -> Commit \cup {None}]]
    BY <2>1, <2>2 DEF GitOK
  <2>4. HeadsOK'
    <3>1. refs'[r][head[r]] = c
      BY <2>1 DEF GitOK
    <3>2. refs'[r]["slice"] \in {c, refs[r]["slice"]}
      BY <2>1 DEF GitOK, Branch
    <3>3. \A q \in Repo \ {r} : refs'[q] = refs[q]
      BY <2>1 DEF GitOK
    <3> QED BY <1>2, <2>1, <3>1, <3>2, <3>3 DEF HeadsOK, HeadResolves, SliceExists
  <2> QED BY <2>1, <2>3, <2>4 DEF GitOK
<1> QED BY <1>1, <1>2

LEMMA StartRefreshTyped ==
    ASSUME Typed, StartRefresh
    PROVE  Typed'
<1> USE DEF Typed, TypeOK
<1>1. GitOK' /\ HeadsOK'
  BY GitKept DEF StartRefresh, Control, HeadsOK
<1>2. JournalOK'
  BY DEF JournalOK, StartRefresh
<1>3. \A r \in Repo : [at |-> refs[r]["slice"], items |-> {}] \in Snapshot
  BY DEF Control, SliceExists, Snapshot
<1>4. CommandOK'
  BY <1>3 DEF CommandOK, JournalOK, StartRefresh, Begin, CmdName, PcName, Behind,
         Entries
<1>5. Control'
  <2>1. PcFitsCommand' /\ StashRoom'
    BY DEF StartRefresh, Begin, PcFitsCommand, StashRoom
  <2>2. Operands'
    BY <1>3 DEF JournalOK, StartRefresh, Begin, Operands, RepoSteps, Listed,
           Behind, Entries
  <2> QED BY <1>1, <2>1, <2>2 DEF Control, HeadsOK
<1>6. GhostOK'
  BY BeginTyped DEF GhostOK, StartRefresh, Control, HeadsOK
<1> QED BY <1>1, <1>2, <1>4, <1>5, <1>6

LEMMA RefreshRepoTyped ==
    ASSUME Typed, NEW r \in Repo, RefreshRepo(r)
    PROVE  Typed'
<1> USE DEF Typed, TypeOK
<1>1. mem[r] \in Entry /\ srcs[r] \in Snapshot /\ r \in todo
  BY DEF RefreshRepo, Control, Operands, Listed
<1>2. mem[r].temp \in Branch /\ mem[r].temp # "slice" /\ mem[r].temp # "detached"
      /\ srcs[r].at \in Commit
  BY <1>1, EntryFields DEF Snapshot, Live, Branch
<1>3. refs[r][mem[r].temp] \in Commit
  BY <1>2 DEF RefreshRepo, Control, HeadResolves
<1>4. \/ refs' = refs
      \/ refs' = [refs EXCEPT ![r][mem[r].temp] = srcs[r].at]
  BY DEF RefreshRepo
<1>5. GitOK' /\ HeadsOK'
  <2>1. CASE refs' = refs
    BY <2>1, GitKept DEF RefreshRepo, Control, HeadsOK
  <2>2. CASE refs' = [refs EXCEPT ![r][mem[r].temp] = srcs[r].at]
    <3>1. head[r] = mem[r].temp /\ ResetHead(r, srcs[r].at) /\ UNCHANGED head
      BY <1>2, <2>2 DEF RefreshRepo, ResetHead
    <3>2. refs' \in [Repo -> [Branch -> Commit \cup {None}]] /\ HeadsOK'
      BY <1>2, <3>1, ResetTyped DEF Control, HeadsOK
    <3> QED BY <3>2 DEF GitOK, RefreshRepo
  <2> QED BY <1>4, <2>1, <2>2
<1>6. refs'[r][mem[r].temp] \in Commit
  <2>1. head'[r] = mem[r].temp
    BY DEF RefreshRepo
  <2> QED BY <1>2, <1>5, <2>1 DEF HeadsOK, HeadResolves
<1>7. JournalOK'
  BY DEF JournalOK, RefreshRepo
<1>8. mem' \in [Repo -> Entry \cup {None}] /\ \A q \in todo : mem'[q] \in Entry
  <2> DEFINE m == RebaselineMirror(r, refs'[r][mem[r].temp])
             e == [mem[r] EXCEPT !.target = srcs[r].at, !.mirror = m]
  <2>1. m \in Snapshot \cup {None}
    BY <1>6 DEF GitOK, Snapshot, RebaselineMirror
  <2>2. e \in Entry
    BY <1>1, <1>2, <2>1 DEF Entry
  <2>3. mem' = [mem EXCEPT ![r] = e]
    BY <1>1 DEF CommandOK, RefreshRepo
  <2> HIDE DEF e
  <2> QED BY <1>1, <2>2, <2>3 DEF CommandOK, RefreshRepo, Control, Operands, Listed
<1>9. CommandOK'
  BY <1>8 DEF CommandOK, RefreshRepo, PcName
<1>10. Control'
  <2>1. PcFitsCommand' /\ StashRoom'
    BY DEF RefreshRepo, PcFitsCommand, StashRoom
  <2>2. Operands'
    BY <1>1, <1>8 DEF RefreshRepo, Control, Operands, RepoSteps, Listed
  <2> QED BY <1>5, <2>1, <2>2 DEF Control, HeadsOK
<1>11. GhostOK'
  BY DEF GhostOK, RefreshRepo
<1> QED BY <1>5, <1>7, <1>9, <1>10, <1>11

LEMMA RefreshRepoFailsTyped ==
    ASSUME Typed, NEW r \in Repo, RefreshRepoFails(r)
    PROVE  Typed'
<1> USE DEF Typed, TypeOK
<1>1. GitOK' /\ HeadsOK'
  BY GitKept DEF RefreshRepoFails, Control, HeadsOK
<1>2. JournalOK'
  BY DEF JournalOK, RefreshRepoFails
<1>3. CommandOK' /\ Control' /\ origin' \in [Repo -> Origin \cup {None}]
  BY <1>1, QuitTyped DEF RefreshRepoFails
<1>4. GhostOK'
  BY <1>3, ConstantsAssumption DEF GhostOK, RefreshRepoFails, Fault, NoFault
<1> QED BY <1>1, <1>2, <1>3, <1>4

\* The loop of refresh, or of a round of live-sync, goes on after a save.
LEMMA LoopGoesOnTyped ==
    ASSUME Typed, cmd \in {"refresh", "sync"}, HeadsOK',
           pc' = "repo", todo' = todo \ {cur}, cur' = None,
           UNCHANGED <<cmd, mem, draft, failed, restored, srcs, opt, mirroring>>
    PROVE  CommandOK' /\ Control'
<1> USE DEF Typed, TypeOK
<1>1. CommandOK'
  BY DEF CommandOK, PcName
<1>2. Control'
  BY DEF HeadsOK, Control, PcFitsCommand, Operands, StashRoom, RepoSteps, Listed
<1> QED BY <1>1, <1>2

LEMMA SaveRefreshedTyped ==
    ASSUME Typed, SaveRefreshed
    PROVE  Typed'
<1> USE DEF Typed, TypeOK
<1>1. GitOK' /\ HeadsOK'
  BY GitKept DEF SaveRefreshed, Control, HeadsOK
<1>2. JournalOK'
  BY DEF JournalOK, CommandOK, SaveRefreshed
<1>3. CommandOK' /\ Control' /\ GhostOK'
  <2>1. CASE Fault /\ Quit
    BY <1>1, <2>1, QuitTyped, ConstantsAssumption DEF GhostOK, SaveRefreshed, Fault
  <2>2. CASE NoFault /\ pc' = "repo" /\ todo' = todo \ {cur} /\ cur' = None
             /\ UNCHANGED <<cmd, mem, draft, failed, restored, srcs, opt,
                            mirroring, origin>>
    <3>1. cmd = "refresh"
      BY DEF SaveRefreshed, Control, PcFitsCommand
    <3> QED BY <1>1, <2>2, <3>1, LoopGoesOnTyped DEF GhostOK, SaveRefreshed, NoFault
  <2> QED BY <2>1, <2>2 DEF SaveRefreshed
<1> QED BY <1>1, <1>2, <1>3

LEMMA FinishRefreshTyped ==
    ASSUME Typed, FinishRefresh
    PROVE  Typed'
<1> USE DEF Typed, TypeOK
<1>1. GitOK' /\ HeadsOK'
  BY GitKept DEF FinishRefresh, Control, HeadsOK
<1>2. JournalOK'
  BY DEF JournalOK, FinishRefresh
<1>3. CommandOK' /\ Control' /\ origin' \in [Repo -> Origin \cup {None}]
  BY <1>1, EndTyped DEF CommandOK, FinishRefresh
<1>4. GhostOK'
  BY <1>3 DEF GhostOK, FinishRefresh
<1> QED BY <1>1, <1>2, <1>3, <1>4

-----------------------------------------------------------------------------
(* live-sync                                                               *)

LEMMA SourceTyped ==
    ASSUME GitOK, SliceExists, NEW r \in Repo
    PROVE  Source(r) \in Snapshot
BY DEF GitOK, SliceExists, Source, Snapshot, Item

LEMMA StartMirrorTyped ==
    ASSUME Typed, StartMirror \/ SyncRefused
    PROVE  Typed'
<1> USE DEF Typed, TypeOK
<1>1. GitOK' /\ HeadsOK' /\ JournalOK'
  BY GitKept DEF JournalOK, StartMirror, SyncRefused, Control, HeadsOK
<1>2. CommandOK'
  BY DEF CommandOK, StartMirror, SyncRefused
<1>3. Control'
  BY <1>1 DEF StartMirror, SyncRefused, HeadsOK, Control, PcFitsCommand,
         Operands, StashRoom, Unwinding
<1>4. GhostOK'
  BY ConstantsAssumption DEF GhostOK, StartMirror, SyncRefused, Fault, NoFault
<1> QED BY <1>1, <1>2, <1>3, <1>4

LEMMA StartSyncTyped ==
    ASSUME Typed, StartSync
    PROVE  Typed'
<1> USE DEF Typed, TypeOK
<1>1. GitOK' /\ HeadsOK'
  BY GitKept DEF StartSync, Control, HeadsOK
<1>2. JournalOK'
  BY DEF JournalOK, StartSync
<1>3. \A r \in Repo : Source(r) \in Snapshot
  BY SourceTyped DEF Control
<1>4. CommandOK'
  BY <1>3 DEF CommandOK, JournalOK, StartSync, Begin, CmdName, PcName, Entries
<1>5. Control'
  <2>1. PcFitsCommand' /\ StashRoom'
    BY DEF StartSync, Begin, PcFitsCommand, StashRoom
  <2>2. Operands'
    BY <1>3 DEF JournalOK, StartSync, Begin, Operands, RepoSteps, Listed, Entries
  <2> QED BY <1>1, <2>1, <2>2 DEF Control, HeadsOK
<1>6. GhostOK'
  BY BeginTyped DEF GhostOK, StartSync, Control, HeadsOK
<1> QED BY <1>1, <1>2, <1>4, <1>5, <1>6

LEMMA StartSyncDriftedTyped ==
    ASSUME Typed, StartSyncDrifted
    PROVE  Typed'
<1> USE DEF Typed, TypeOK
<1>1. GitOK' /\ HeadsOK'
  BY GitKept DEF StartSyncDrifted, Control, HeadsOK
<1>2. JournalOK'
  BY DEF JournalOK, StartSyncDrifted
<1>3. CommandOK'
  BY DEF CommandOK, JournalOK, StartSyncDrifted, Begin, CmdName, PcName
<1>4. Control'
  BY <1>1 DEF StartSyncDrifted, Begin, HeadsOK, Control, PcFitsCommand,
         Operands, StashRoom, RepoSteps, Listed
<1>5. GhostOK'
  BY BeginTyped DEF GhostOK, StartSyncDrifted, Control, HeadsOK
<1> QED BY <1>1, <1>2, <1>3, <1>4, <1>5

LEMMA SyncSkipTyped ==
    ASSUME Typed, NEW r \in Repo, SyncSkip(r)
    PROVE  Typed'
<1> USE DEF Typed, TypeOK
<1>1. GitOK' /\ HeadsOK'
  BY GitKept DEF SyncSkip, Control, HeadsOK
<1>2. JournalOK' /\ GhostOK'
  BY DEF JournalOK, GhostOK, SyncSkip
<1>3. CommandOK'
  BY DEF CommandOK, SyncSkip
<1>4. Control'
  BY <1>1 DEF SyncSkip, HeadsOK, Control, PcFitsCommand, Operands, StashRoom,
         RepoSteps, Listed
<1> QED BY <1>1, <1>2, <1>3, <1>4

LEMMA SyncApplyTyped ==
    ASSUME Typed, NEW r \in Repo, SyncApply(r)
    PROVE  Typed'
<1> USE DEF Typed, TypeOK
<1>1. /\ mem[r] \in Entry /\ srcs[r] \in Snapshot /\ r \in todo
      /\ srcs[r].at \in Commit /\ srcs[r].items \in SUBSET Item
  BY DEF SyncApply, Control, Operands, Listed, Snapshot
<1>2. GitOK' /\ HeadsOK'
  BY <1>1, ResetTyped DEF GitOK, SyncApply, Control, HeadsOK
<1>3. JournalOK' /\ GhostOK'
  BY DEF JournalOK, GhostOK, SyncApply
<1>4. mem' \in [Repo -> Entry \cup {None}] /\ \A q \in todo : mem'[q] \in Entry
  <2> DEFINE e == [mem[r] EXCEPT !.target = srcs[r].at, !.mirror = srcs[r]]
  <2>1. e \in Entry
    BY <1>1, EntryUpdate
  <2>2. mem' = [mem EXCEPT ![r] = e]
    BY <1>1 DEF CommandOK, SyncApply
  <2> HIDE DEF e
  <2> QED BY <1>1, <2>1, <2>2 DEF CommandOK, SyncApply, Control, Operands, Listed
<1>5. srcs' \in [Repo -> Snapshot \cup {None}] /\ \A q \in todo : srcs'[q] \in Snapshot
  <2>1. CaptureSnapshot(r) \in Snapshot
    BY SnapshotTyped DEF Control
  <2> QED BY <2>1 DEF CommandOK, SyncApply, Control, Operands
<1>6. CommandOK'
  BY <1>4, <1>5 DEF CommandOK, SyncApply, PcName
<1>7. Control'
  <2>1. PcFitsCommand' /\ StashRoom'
    BY DEF SyncApply, PcFitsCommand, StashRoom
  <2>2. Operands'
    BY <1>1, <1>4, <1>5 DEF SyncApply, Operands, RepoSteps, Listed
  <2> QED BY <1>2, <2>1, <2>2 DEF Control, HeadsOK
<1> QED BY <1>2, <1>3, <1>6, <1>7

LEMMA SyncApplyFailsTyped ==
    ASSUME Typed, NEW r \in Repo, SyncApplyFails(r)
    PROVE  Typed'
<1> USE DEF Typed, TypeOK
<1>1. srcs[r].at \in Commit /\ srcs[r].items \in SUBSET Item
  BY DEF SyncApplyFails, Control, Operands, Listed, Snapshot
<1>2. GitOK' /\ HeadsOK'
  <2>1. CASE UNCHANGED <<at, refs, wt>>
    BY <2>1, GitKept DEF SyncApplyFails, Control, HeadsOK
  <2>2. CASE ResetHead(r, srcs[r].at) /\ wt' = [wt EXCEPT ![r] = @ \cup srcs[r].items]
    BY <1>1, <2>2, ResetTyped DEF GitOK, SyncApplyFails, Control, HeadsOK
  <2> QED BY <2>1, <2>2 DEF SyncApplyFails
<1>3. JournalOK'
  BY DEF JournalOK, SyncApplyFails
<1>4. CommandOK' /\ Control' /\ origin' \in [Repo -> Origin \cup {None}]
  BY <1>2, QuitTyped DEF SyncApplyFails
<1>5. GhostOK'
  BY <1>4, ConstantsAssumption DEF GhostOK, SyncApplyFails, Fault, NoFault
<1> QED BY <1>2, <1>3, <1>4, <1>5

LEMMA SaveSyncedTyped ==
    ASSUME Typed, SaveSynced
    PROVE  Typed'
<1> USE DEF Typed, TypeOK
<1>1. /\ cmd = "sync" /\ cur \in Repo
      /\ srcs[cur].at \in Commit /\ srcs[cur].items \in SUBSET Item
  BY DEF CommandOK, SaveSynced, Control, PcFitsCommand, Operands, RepoSteps, Snapshot
<1>2. JournalOK'
  BY DEF JournalOK, CommandOK, SaveSynced
<1>3. CASE /\ NoFault /\ pc' = "repo" /\ todo' = todo \ {cur} /\ cur' = None
           /\ UNCHANGED <<at, refs, wt, cmd, mem, draft, failed, restored, srcs,
                          opt, mirroring, origin>>
  <2>1. GitOK' /\ HeadsOK'
    BY <1>3, GitKept DEF SaveSynced, Control, HeadsOK
  <2>2. CommandOK' /\ Control'
    BY <1>1, <1>3, <2>1, LoopGoesOnTyped
  <2>3. GhostOK'
    BY <1>3 DEF GhostOK, SaveSynced, NoFault
  <2> QED BY <1>2, <2>1, <2>2, <2>3
<1>4. CASE /\ Fault /\ Quit /\ ResetHead(cur, srcs[cur].at)
           /\ wt' = [wt EXCEPT ![cur] = srcs[cur].items]
  <2>1. GitOK' /\ HeadsOK'
    BY <1>1, <1>4, ResetTyped DEF GitOK, SaveSynced, Control, HeadsOK
  <2>2. CommandOK' /\ Control' /\ origin' \in [Repo -> Origin \cup {None}]
    BY <1>4, <2>1, QuitTyped
  <2>3. GhostOK'
    BY <1>4, <2>2, ConstantsAssumption DEF GhostOK, SaveSynced, Fault
  <2> QED BY <1>2, <2>1, <2>2, <2>3
<1> QED BY <1>3, <1>4 DEF SaveSynced

-----------------------------------------------------------------------------
(* doctor, a crash, and the user                                           *)

LEMMA DoctorDropsStaleJournalTyped ==
    ASSUME Typed, DoctorDropsStaleJournal
    PROVE  Typed'
<1> USE DEF Typed, TypeOK
<1>1. GitOK' /\ HeadsOK'
  BY GitKept DEF DoctorDropsStaleJournal, Control, HeadsOK
<1>2. JournalOK' /\ GhostOK'
  BY DEF JournalOK, GhostOK, DoctorDropsStaleJournal, Empty
<1>3. CommandOK' /\ Control'
  BY <1>1, NoCommandTyped DEF DoctorDropsStaleJournal
<1> QED BY <1>1, <1>2, <1>3

LEMMA DoctorDropsOrphanTyped ==
    ASSUME Typed, NEW r \in Repo, DoctorDropsOrphan(r)
    PROVE  Typed'
<1> USE DEF Typed, TypeOK
<1>1. refs[r]["trunk"] \in Commit
  BY DEF GitOK, DoctorDropsOrphan, Exists, Branch
<1>2. GitOK'
  <2>1. refs' \in [Repo -> [Branch -> Commit \cup {None}]]
    <3>1. [refs[r] EXCEPT !["live"] = None] \in [Branch -> Commit \cup {None}]
      BY DEF GitOK
    <3> QED BY <3>1 DEF GitOK, DoctorDropsOrphan
  <2>2. "trunk" \in Branch
    BY DEF Branch
  <2> QED BY <2>1, <2>2 DEF GitOK, DoctorDropsOrphan, SwitchTo
<1>3. HeadsOK'
  <2>1. head'[r] = "trunk" /\ refs'[r]["trunk"] = refs[r]["trunk"]
        /\ refs'[r]["slice"] = refs[r]["slice"]
    BY DEF GitOK, DoctorDropsOrphan, SwitchTo, Branch, Live
  <2>2. \A q \in Repo \ {r} : refs'[q] = refs[q] /\ head'[q] = head[q] /\ at'[q] = at[q]
    BY DEF GitOK, DoctorDropsOrphan, SwitchTo
  <2> QED BY <1>1, <2>1, <2>2 DEF Control, HeadsOK, HeadResolves, SliceExists
<1>4. JournalOK'
  BY DEF JournalOK, DoctorDropsOrphan
<1>5. CommandOK' /\ Control'
  BY <1>3, NoCommandTyped DEF DoctorDropsOrphan
<1>6. GhostOK'
  BY ConstantsAssumption DEF GhostOK, DoctorDropsOrphan, Fault, NoFault
<1> QED BY <1>2, <1>4, <1>5, <1>6

LEMMA CrashTyped ==
    ASSUME Typed, Crash
    PROVE  Typed'
<1> USE DEF Typed, TypeOK
<1>1. GitOK' /\ HeadsOK'
  BY GitKept DEF Crash, Control, HeadsOK
<1>2. JournalOK'
  BY DEF JournalOK, Crash
<1>3. CommandOK' /\ Control' /\ origin' \in [Repo -> Origin \cup {None}]
  BY <1>1, QuitTyped DEF Crash
<1>4. GhostOK'
  BY <1>3, ConstantsAssumption DEF GhostOK, Crash, Fault
<1> QED BY <1>1, <1>2, <1>3, <1>4

LEMMA UserTyped ==
    ASSUME Typed, UNCHANGED userUnchanged, HeadsOK',
           \/ InPrimary
           \/ InWorktree,
           head' \in [Repo -> Branch \cup {"detached"}],
           at' \in [Repo -> Commit \cup {None}],
           refs' \in [Repo -> [Branch -> Commit \cup {None}]],
           wt' \in [Repo -> SUBSET Item],
           stash' \in [Repo -> [1..MaxStash -> SUBSET Item]],
           srcWt' \in [Repo -> SUBSET SrcWork],
           made' \in [Repo -> SUBSET Work]
    PROVE  Typed'
<1> USE DEF Typed, TypeOK
<1>1. GitOK' /\ JournalOK'
  BY DEF GitOK, JournalOK, userUnchanged
<1>2. CommandOK' /\ Control'
  BY NoCommandTyped DEF userUnchanged
<1>3. GhostOK'
  BY ConstantsAssumption DEF GhostOK, userUnchanged, InPrimary, InWorktree
<1> QED BY <1>1, <1>2, <1>3

\* Of the user's actions, those that leave HEAD and the branches alone.
LEMMA UserContentTyped ==
    ASSUME Typed, NEW r \in Repo,
           UserEdit(r) \/ UserDropsStash(r) \/ SourceEdit(r)
    PROVE  Typed'
<1>1. HeadsOK'
  BY DEF Typed, Control, HeadsOK, HeadResolves, SliceExists, UserEdit,
         UserDropsStash, SourceEdit
<1>2. CASE UserEdit(r)
  <2>1. wt' \in [Repo -> SUBSET Item] /\ made' \in [Repo -> SUBSET Work]
    BY <1>2 DEF Typed, TypeOK, GitOK, GhostOK, UserEdit, Item
  <2> QED BY <1>1, <1>2, <2>1, UserTyped DEF Typed, TypeOK, GitOK, UserEdit
<1>3. CASE UserDropsStash(r)
  <2>1. stash' \in [Repo -> [1..MaxStash -> SUBSET Item]]
    BY <1>3, StashPopTyped DEF Typed, TypeOK, GitOK, UserDropsStash
  <2> QED BY <1>1, <1>3, <2>1, UserTyped
          DEF Typed, TypeOK, GitOK, GhostOK, UserDropsStash
<1>4. CASE SourceEdit(r)
  <2>1. srcWt' \in [Repo -> SUBSET SrcWork]
    BY <1>4 DEF Typed, TypeOK, GitOK, SourceEdit
  <2> QED BY <1>1, <1>4, <2>1, UserTyped DEF Typed, TypeOK, GitOK, GhostOK, SourceEdit
<1> QED BY <1>2, <1>3, <1>4

LEMMA UserCommitTyped ==
    ASSUME Typed, NEW r \in Repo, UserCommit(r)
    PROVE  Typed'
<1> DEFINE c == [HeadCommit(r) EXCEPT !.own = @ \cup wt[r]]
<1>1. c \in Commit
  <2>1. HeadCommit(r) \in Commit
    BY HeadCommitTyped DEF Typed, Control
  <2> QED BY <2>1 DEF Typed, TypeOK, GitOK, Commit
<1>2. ResetHead(r, c) /\ UNCHANGED head
  BY DEF UserCommit
<1> HIDE DEF c
<1>3. /\ at' \in [Repo -> Commit \cup {None}]
      /\ refs' \in [Repo -> [Branch -> Commit \cup {None}]]
      /\ HeadsOK'
  BY <1>1, <1>2, ResetTyped DEF Typed, TypeOK, Control, HeadsOK
<1>4. wt' \in [Repo -> SUBSET Item]
  BY DEF Typed, TypeOK, GitOK, UserCommit
<1> QED BY <1>2, <1>3, <1>4, UserTyped DEF Typed, TypeOK, GitOK, GhostOK, UserCommit

\* Those that move HEAD.
LEMMA UserMovesTyped ==
    ASSUME Typed, NEW r \in Repo, NEW b \in Branch,
           UserSwitch(r, b) \/ UserDetach(r)
    PROVE  Typed'
<1> USE DEF Typed, TypeOK
<1>1. UNCHANGED <<refs, wt, stash, srcWt, made, userUnchanged>> /\ InPrimary
  BY DEF UserSwitch, UserDetach
<1>2. CASE UserSwitch(r, b)
  <2>1. refs[r][b] \in Commit /\ b # "detached"
    BY <1>2 DEF GitOK, UserSwitch, Exists, Branch, Live
  <2>2. head' \in [Repo -> Branch \cup {"detached"}] /\ at' \in [Repo -> Commit \cup {None}]
    BY <1>2 DEF GitOK, UserSwitch, SwitchTo
  <2>3. HeadsOK'
    BY <1>1, <1>2, <2>1 DEF GitOK, UserSwitch, SwitchTo, Control, HeadsOK,
       HeadResolves, SliceExists
  <2> QED BY <1>1, <2>2, <2>3, UserTyped DEF GitOK, GhostOK
<1>3. CASE UserDetach(r)
  <2>1. HeadCommit(r) \in Commit
    BY HeadCommitTyped DEF Control
  <2>2. head' \in [Repo -> Branch \cup {"detached"}] /\ at' \in [Repo -> Commit \cup {None}]
    BY <1>3, <2>1 DEF GitOK, UserDetach, DetachAt
  <2>3. HeadsOK'
    BY <1>1, <1>3, <2>1 DEF GitOK, UserDetach, DetachAt, Control, HeadsOK,
       HeadResolves, SliceExists
  <2> QED BY <1>1, <2>2, <2>3, UserTyped DEF GitOK, GhostOK
<1> QED BY <1>2, <1>3

\* The slice branch moves to another of its tips, with no commit of the
\* primary's on it.
LEMMA SliceMoved ==
    ASSUME NEW r \in Repo, SourceMove(r), refs[r]["slice"] \in Commit,
           refs \in [Repo -> [Branch -> Commit \cup {None}]]
    PROVE  \E c \in Commit :
             c.own = refs[r]["slice"].own /\ refs' = [refs EXCEPT ![r]["slice"] = c]
<1>1. PICK t \in 0..MaxTip : refs' = [refs EXCEPT ![r]["slice"].line = t]
  <2>1. refs[r]["slice"].line \in 0..MaxTip
    BY DEF Commit
  <2>2. Ancestors[refs[r]["slice"].line] \subseteq 0..MaxTip
    BY <2>1, AncestorsAssumption
  <2> QED BY <2>2 DEF SourceMove, SourceCommit, SourceReset
<1> DEFINE c == [refs[r]["slice"] EXCEPT !.line = t]
<1>2. c \in Commit /\ c.own = refs[r]["slice"].own
  BY DEF Commit
<1>3. refs' = [refs EXCEPT ![r]["slice"] = c]
  BY <1>1 DEF Branch
<1> QED BY <1>2, <1>3

\* Those that create, delete or move a branch other than through HEAD.
LEMMA UserBranchesTyped ==
    ASSUME Typed, NEW r \in Repo,
           UserDeletesPrior(r) \/ UserRecreatesPrior(r) \/ SourceMove(r)
    PROVE  Typed'
<1> USE DEF Typed, TypeOK
<1>1. PICK b \in Branch, c \in Commit \cup {None} :
        /\ refs' = [refs EXCEPT ![r][b] = c]
        /\ c = None => b # "slice" /\ head[r] # b
  <2>1. CASE UserDeletesPrior(r)
    BY <2>1 DEF UserDeletesPrior, Branch
  <2>2. CASE UserRecreatesPrior(r)
    <3>1. journal[r] \in Entry
      BY <2>2 DEF JournalOK, UserRecreatesPrior
    <3>2. journal[r].prior \in Branch /\ journal[r].priorAt \in Commit
      BY <2>2, <3>1, EntryFields DEF UserRecreatesPrior
    <3>3. refs' = [refs EXCEPT ![r][journal[r].prior] = journal[r].priorAt]
      BY <2>2 DEF UserRecreatesPrior
    <3>4. journal[r].priorAt \in Commit \cup {None} /\ journal[r].priorAt # None
      BY <3>2, NoneAssumption
    <3> QED BY <3>2, <3>3, <3>4, Zenon
  <2>3. CASE SourceMove(r)
    <3>1. PICK c \in Commit : refs' = [refs EXCEPT ![r]["slice"] = c]
      BY <2>3, SliceMoved DEF Control, SliceExists, GitOK
    <3>2. "slice" \in Branch /\ c # None /\ c \in Commit \cup {None}
      BY NoneAssumption DEF Branch
    <3> QED BY <3>1, <3>2, Zenon
  <2> QED BY <2>1, <2>2, <2>3
<1>2. UNCHANGED <<head, at, wt, stash, made, userUnchanged>>
      /\ srcWt' \in [Repo -> SUBSET SrcWork] /\ (InPrimary \/ InWorktree)
  <2>1. CASE UserDeletesPrior(r) \/ UserRecreatesPrior(r)
    BY <2>1 DEF GitOK, UserDeletesPrior, UserRecreatesPrior, userUnchanged
  <2>2. CASE SourceMove(r)
    BY <2>2 DEF GitOK, SourceMove, SourceCommit, SourceReset, userUnchanged
  <2> QED BY <2>1, <2>2
<1>3. refs' \in [Repo -> [Branch -> Commit \cup {None}]]
  <2>1. [refs[r] EXCEPT ![b] = c] \in [Branch -> Commit \cup {None}]
    BY DEF GitOK
  <2> QED BY <1>1, <2>1 DEF GitOK
<1>4. HeadsOK'
  <2>1. \A q \in Repo \ {r} : refs'[q] = refs[q]
    BY <1>1 DEF GitOK
  <2>2. \A d \in Branch : refs'[r][d] = IF d = b THEN c ELSE refs[r][d]
    BY <1>1 DEF GitOK
  <2>3. "slice" \in Branch /\ (head[r] # "detached" => head[r] \in Branch)
    BY DEF GitOK, Branch
  <2> QED BY <1>1, <1>2, <2>1, <2>2, <2>3 DEF Control, HeadsOK, HeadResolves, SliceExists
<1> QED BY <1>2, <1>3, <1>4, UserTyped DEF GitOK, GhostOK

-----------------------------------------------------------------------------
(* The theorem.                                                            *)

LEMMA InitTyped ==
    ASSUME Init
    PROVE  Typed
<1>1. [line |-> 0, own |-> {}] \in Commit /\ [line |-> 1, own |-> {}] \in Commit
  BY ConstantsAssumption DEF Commit
<1>2. GitOK
  BY <1>1, ConstantsAssumption DEF Init, GitOK, Branch, Item
<1>3. HeadResolves /\ SliceExists
  BY <1>1 DEF Init, HeadResolves, SliceExists, Branch
<1>4. JournalOK /\ GhostOK
  BY <1>1, ConstantsAssumption DEF Init, JournalOK, GhostOK, Empty
<1>6. CommandOK
  BY DEF Init, CommandOK, Empty, NoOpt, CmdName, PcName, Live
<1>5. PcFitsCommand /\ Operands /\ StashRoom
  BY DEF Init, PcFitsCommand, Operands, StashRoom, RepoSteps, Listed
<1> QED BY <1>2, <1>3, <1>4, <1>5, <1>6 DEF Typed, TypeOK, Control

LEMMA StutterTyped ==
    ASSUME Typed, UNCHANGED vars
    PROVE  Typed'
<1> USE DEF Typed, TypeOK, vars
<1>1. GitOK' /\ HeadsOK'
  BY GitKept DEF Control, HeadsOK
<1>2. JournalOK' /\ GhostOK'
  BY DEF JournalOK, GhostOK
<1>3. CommandOK' /\ Control'
  BY <1>1, NoCommandTyped
<1> QED BY <1>1, <1>2, <1>3

LEMMA NextTyped ==
    ASSUME Typed, [Next]_vars
    PROVE  Typed'
<1>1. CASE StartCommand
  BY <1>1, StartActivateTyped, StartDeactivateTyped, StartDeactivateDriftedTyped,
     StartRefreshTyped, StartMirrorTyped, RecoverActivationTyped,
     DoctorDropsStaleJournalTyped, DoctorDropsOrphanTyped
  DEF StartCommand
<1>2. CASE Activate
  BY <1>2, ActivateRepoTyped, ActivateRefusedTyped, StashNotPinnedTyped,
     SwitchToLiveTyped, SwitchToLiveFailsTyped, CaptureBaselineTyped,
     CaptureBaselineFailsTyped, JournalActivatedTyped, JournalActivatedFailsTyped,
     FinishActivateTyped
  DEF Activate
<1>3. CASE Deactivate
  BY <1>3, ClearWorkingMirrorTyped, ClearWorkingMirrorFailsTyped,
     SaveClearedTyped, MirrorsClearedTyped, ArchiveDriftTyped
  DEF Deactivate
<1>4. CASE Unwinds
  BY <1>4, DeactivateRepoTyped, DeactivateRepoFailsTyped, RestoreAfterRescueTyped,
     DeleteTempBranchTyped, PopPinnedStashTyped, FinishUndoTyped, FinishUnwindTyped
  DEF Unwinds
<1>5. CASE Refresh
  BY <1>5, RefreshRepoTyped, RefreshRepoFailsTyped, SaveRefreshedTyped,
     FinishRefreshTyped
  DEF Refresh
<1>6. CASE Sync
  BY <1>6, SyncSkipTyped, SyncApplyTyped, SyncApplyFailsTyped, SaveSyncedTyped
  DEF Sync
<1>7. CASE Crash
  BY <1>7, CrashTyped
<1>8. CASE User
  BY <1>8, UserContentTyped, UserCommitTyped, UserMovesTyped, UserBranchesTyped
  DEF User, Branch
<1>9. CASE SyncRound
  BY <1>9, StartSyncTyped, StartSyncDriftedTyped, StartMirrorTyped DEF SyncRound
<1>10. CASE UNCHANGED vars
  BY <1>10, StutterTyped
<1> QED BY <1>1, <1>2, <1>3, <1>4, <1>5, <1>6, <1>7, <1>8, <1>9, <1>10
        DEF Next, CommandStep

\* The state is always well formed, and no step of a command works with an
\* entry, a draft or a HEAD that does not exist: no git command of the engine
\* is given a branch or a commit it just removed (engine.go:461-567, 624-704).
THEOREM TypeCorrect == Spec => [](TypeOK /\ Control)
<1>1. Init => Typed
  BY InitTyped
<1>2. Typed /\ [Next]_vars => Typed'
  BY NextTyped
<1>3. Typed => TypeOK /\ Control
  BY DEF Typed
<1> QED BY <1>1, <1>2, <1>3, PTL DEF Spec

-----------------------------------------------------------------------------
(* No work is lost.                                                       *)

Sound == Typed /\ Safe

\* An entry the engine may act on: what it allows to overwrite is not the
\* user's, and it does not lead back to the slice branch.
Fine(e) == OursOnly(e) /\ OffSlice(e)
AllFine(j) == \A r \in Repo : Fine(j[r])
RecordsFine == AllFine(journal) /\ AllFine(mem) /\ Fine(draft)
HeadsOffSlice == \A r \in Repo : head[r] # "slice"
CommandSafe == CleanWhenRecorded /\ ValidUntilSynced

\* x can be found in r without the help of a detached HEAD.
Held(x, r) ==
    \/ x \in wt[r]
    \/ \E i \in 1..MaxStash : x \in stash[r][i]
    \/ \E b \in Branch : Exists(r, b) /\ x \in refs[r][b].own

-----------------------------------------------------------------------------
(* What the parts of Safe are made of.                                     *)

LEMMA SafeParts ==
    Safe <=> /\ RecordsFine /\ HeadsOffSlice /\ SourcesOurs /\ StashFresh
             /\ CommandSafe /\ WorkOnBranches
BY DEF Safe, RecordsFine, HeadsOffSlice, CommandSafe, EntriesOurs, NeverOnSlice,
       AllFine, Fine

LEMMA SafePartsNext ==
    Safe' <=> /\ RecordsFine' /\ HeadsOffSlice' /\ SourcesOurs' /\ StashFresh'
              /\ CommandSafe' /\ WorkOnBranches'
BY DEF Safe, RecordsFine, HeadsOffSlice, CommandSafe, EntriesOurs, NeverOnSlice,
       AllFine, Fine

LEMMA EmptyFine == Fine(None) /\ AllFine(Empty)
BY DEF Fine, AllFine, OursOnly, OffSlice, Empty

LEMMA OnlyFine ==
    ASSUME NEW j, AllFine(j), NEW S
    PROVE  AllFine(Only(j, S))
BY DEF Fine, AllFine, OursOnly, OffSlice, Only

\* A command that is neither refresh nor live-sync, and is not in the middle of
\* activateRepo, has nothing to record.
LEMMA NothingRecorded ==
    ASSUME cmd' \notin {"refresh", "sync"}, pc' \notin {"switch", "baseline"}
    PROVE  CommandSafe'
BY DEF CommandSafe, CleanWhenRecorded, ValidUntilSynced

LEMMA QuitSafe ==
    ASSUME Sound, Quit, AllFine(journal'), HeadsOffSlice', StashFresh',
           \A r \in Repo : refs'[r]["slice"].own = {},
           WorkOnBranches'
    PROVE  Safe'
<1>1. RecordsFine'
  BY EmptyFine DEF Quit, EndOfCommand, RecordsFine, AllFine, Empty
<1>2. CommandSafe'
  BY NothingRecorded DEF Quit, EndOfCommand
<1>3. SourcesOurs'
  BY DEF Quit, EndOfCommand, Empty, SourcesOurs
<1> QED BY <1>1, <1>2, <1>3, SafePartsNext

-----------------------------------------------------------------------------
(* Where work moves: each lemma is one way of changing a primary.          *)

LEMMA WorkHeld ==
    WorkOnBranches <=> \A r \in Repo : \A x \in made[r] : Held(x, r)
<1>1. ASSUME NEW r \in Repo, NEW x
      PROVE  x \in KeptOnBranches(r) <=> Held(x, r)
  <2>1. x \in UNION {stash[r][i] : i \in 1..MaxStash}
        <=> \E i \in 1..MaxStash : x \in stash[r][i]
    OBVIOUS
  <2>2. x \in UNION {refs[r][b].own : b \in {b \in Branch : Exists(r, b)}}
        <=> \E b \in Branch : Exists(r, b) /\ x \in refs[r][b].own
    OBVIOUS
  <2>3. Held(x, r) <=>
          \/ x \in wt[r]
          \/ \E i \in 1..MaxStash : x \in stash[r][i]
          \/ \E b \in Branch : Exists(r, b) /\ x \in refs[r][b].own
    BY Zenon DEF Held
  <2> QED BY <2>1, <2>2, <2>3, Zenon DEF KeptOnBranches
<1> QED BY <1>1, Zenon DEF WorkOnBranches

LEMMA WorkHeldNext ==
    WorkOnBranches' <=> \A r \in Repo : \A x \in made'[r] : Held(x, r)'
<1>1. ASSUME NEW r \in Repo, NEW x
      PROVE  x \in KeptOnBranches(r)' <=> Held(x, r)'
  <2>1. x \in UNION {stash'[r][i] : i \in 1..MaxStash}
        <=> \E i \in 1..MaxStash : x \in stash'[r][i]
    OBVIOUS
  <2>2. x \in UNION {refs'[r][b].own : b \in {b \in Branch : Exists(r, b)'}}
        <=> \E b \in Branch : Exists(r, b)' /\ x \in refs'[r][b].own
    OBVIOUS
  <2>3. Held(x, r)' <=>
          \/ x \in wt'[r]
          \/ \E i \in 1..MaxStash : x \in stash'[r][i]
          \/ \E b \in Branch : Exists(r, b)' /\ x \in refs'[r][b].own
    BY Zenon DEF Held
  <2> QED BY <2>1, <2>2, <2>3, Zenon DEF KeptOnBranches
<1> QED BY <1>1, Zenon DEF WorkOnBranches

LEMMA WorkUntouched ==
    ASSUME WorkOnBranches, UNCHANGED <<refs, wt, stash, made>>
    PROVE  WorkOnBranches'
BY DEF WorkOnBranches, KeptOnBranches, Exists

\* The other primaries are as they were.
Elsewhere(r) == \A q \in Repo \ {r} : wt'[q] = wt[q] /\ stash'[q] = stash[q]
                                      /\ refs'[q] = refs[q]

LEMMA WorkMoves ==
    ASSUME TypeOK, WorkOnBranches, NEW r \in Repo, Elsewhere(r), UNCHANGED made,
           \A x \in Work : Held(x, r) => Held(x, r)'
    PROVE  WorkOnBranches'
<1>1. \A q \in Repo \ {r} : \A x : Held(x, q) => Held(x, q)'
  BY DEF Elsewhere, Held, Exists
<1>2. \A q \in Repo : made[q] \subseteq Work
  BY DEF TypeOK, GhostOK
<1> QED BY <1>1, <1>2, WorkHeld, WorkHeldNext

\* No branch holding the user's commits goes or moves, the stash stays, and
\* what leaves the working tree came from a worktree.
LEMMA OursOverwritten ==
    ASSUME TypeOK, WorkOnBranches, NEW r \in Repo,
           UNCHANGED <<stash, made>>,
           \/ UNCHANGED refs
           \/ \E b \in Branch : \E c :
                /\ refs' = [refs EXCEPT ![r][b] = c]
                /\ refs[r][b] # None => refs[r][b].own = {},
           \/ UNCHANGED wt
           \/ \E S : wt' = [wt EXCEPT ![r] = S] /\ wt[r] \subseteq S \cup SrcWork
    PROVE  WorkOnBranches'
<1>1. Elsewhere(r)
  BY DEF Elsewhere, TypeOK, GitOK
<1>2. \A b \in Branch : Exists(r, b) /\ refs[r][b].own # {} =>
        refs'[r][b] = refs[r][b]
  BY DEF TypeOK, GitOK, Exists
<1>3. wt[r] \subseteq wt'[r] \cup SrcWork
  BY DEF TypeOK, GitOK
<1>4. ASSUME NEW x \in Work, Held(x, r)
      PROVE  Held(x, r)'
  <2>1. CASE x \in wt[r]
    BY <1>3, <2>1, ConstantsAssumption DEF Held
  <2>2. CASE \E i \in 1..MaxStash : x \in stash[r][i]
    BY <2>2 DEF Held
  <2>3. CASE \E b \in Branch : Exists(r, b) /\ x \in refs[r][b].own
    BY <1>2, <2>3 DEF Held, Exists
  <2> QED BY <1>4, <2>1, <2>2, <2>3 DEF Held
<1> QED BY <1>1, <1>4, WorkMoves

\* An entry of the stash is popped.
LEMMA WorkPopped ==
    ASSUME TypeOK, WorkOnBranches, NEW r \in Repo, NEW i \in 1..MaxStash,
           wt' = [wt EXCEPT ![r] = @ \cup stash[r][i]],
           stash' = [stash EXCEPT ![r][i] = {}], UNCHANGED <<refs, made>>
    PROVE  WorkOnBranches'
<1>1. Elsewhere(r)
  BY DEF Elsewhere, TypeOK, GitOK
<1>2. wt'[r] = wt[r] \cup stash[r][i]
      /\ \A k \in 1..MaxStash : k # i => stash'[r][k] = stash[r][k]
  BY DEF TypeOK, GitOK
<1>3. \A x \in Work : Held(x, r) => Held(x, r)'
  BY <1>2 DEF Held, Exists
<1> QED BY <1>1, <1>3, WorkMoves

\* The working tree is pushed on the stash.
LEMMA WorkStashed ==
    ASSUME TypeOK, WorkOnBranches, StashFresh, NEW r \in Repo, pushed[r] < MaxStash,
           wt' = [wt EXCEPT ![r] = {}],
           stash' = [stash EXCEPT ![r][pushed[r] + 1] = wt[r]],
           pushed' = [pushed EXCEPT ![r] = @ + 1], UNCHANGED <<refs, made>>
    PROVE  WorkOnBranches' /\ StashFresh'
<1> DEFINE n == pushed[r] + 1
<1>1. Elsewhere(r)
  BY DEF Elsewhere, TypeOK, GitOK
<1>2. n \in 1..MaxStash /\ pushed[r] \in Nat /\ stash[r][n] = {}
  <2>1. pushed[r] \in 0..MaxStash /\ MaxStash \in Nat
    BY ConstantsAssumption DEF TypeOK, GitOK
  <2>2. n \in 1..MaxStash /\ pushed[r] \in Nat /\ n > pushed[r]
    BY <2>1
  <2> QED BY <2>2 DEF StashFresh
<1>3. stash'[r][n] = wt[r] /\ \A k \in 1..MaxStash : k # n => stash'[r][k] = stash[r][k]
  BY <1>2 DEF TypeOK, GitOK
<1>4. \A x \in Work : Held(x, r) => Held(x, r)'
  BY <1>2, <1>3 DEF Held, Exists
<1>5. StashFresh'
  <2>1. ASSUME NEW q \in Repo, NEW k \in 1..MaxStash, k > pushed'[q]
        PROVE  stash'[q][k] = {}
    <3>1. CASE q # r
      BY <2>1, <3>1, <1>1 DEF Elsewhere, StashFresh, TypeOK, GitOK
    <3>2. CASE q = r
      <4>1. pushed'[r] = n
        BY DEF TypeOK, GitOK
      <4>2. k # n /\ k > pushed[r]
        BY <2>1, <3>2, <4>1, <1>2
      <4> QED BY <3>2, <4>2, <1>3 DEF StashFresh
    <3> QED BY <3>1, <3>2
  <2> QED BY <2>1 DEF StashFresh
<1> QED BY <1>1, <1>4, <1>5, WorkMoves

LEMMA StashShrinks ==
    ASSUME TypeOK, StashFresh, NEW r \in Repo, NEW i,
           stash' = [stash EXCEPT ![r][i] = {}], UNCHANGED pushed
    PROVE  StashFresh'
BY DEF StashFresh, TypeOK, GitOK

-----------------------------------------------------------------------------
(* Steps that change no primary.                                           *)

SrcsOurs == \A r \in Repo : srcs[r] # None => srcs[r].at.own = {}
                                              /\ srcs[r].items \subseteq SrcWork

LEMMA SoundParts ==
    ASSUME Sound
    PROVE  /\ TypeOK /\ Control /\ AllFine(journal) /\ AllFine(mem) /\ Fine(draft)
           /\ HeadsOffSlice /\ SourcesOurs /\ SrcsOurs /\ StashFresh /\ CommandSafe
           /\ WorkOnBranches
BY SafeParts DEF Sound, Typed, RecordsFine, SourcesOurs, SrcsOurs

LEMMA GitUntouched ==
    ASSUME Sound, UNCHANGED <<git, made>>, RecordsFine', SrcsOurs', CommandSafe'
    PROVE  Safe'
<1>1. HeadsOffSlice' /\ StashFresh' /\ SourcesOurs'
  BY SoundParts DEF HeadsOffSlice, StashFresh, SourcesOurs, SrcsOurs
<1>2. WorkOnBranches'
  BY SoundParts, WorkUntouched
<1> QED BY <1>1, <1>2, SafePartsNext

\* The command ends without having touched a primary in this step.
LEMMA EndsSafe ==
    ASSUME Sound, EndOfCommand, UNCHANGED <<git, made>>, AllFine(journal')
    PROVE  Safe'
<1>1. RecordsFine'
  BY EmptyFine DEF EndOfCommand, RecordsFine
<1>2. SrcsOurs' /\ CommandSafe'
  BY NothingRecorded DEF EndOfCommand, SrcsOurs, Empty
<1> QED BY <1>1, <1>2, GitUntouched

\* It turns to undoing what was done.
LEMMA UnwindSafe ==
    ASSUME Sound, NEW c \in {"undo", "rollback"}, NEW j, NEW S, Unwind(c, j, S),
           AllFine(j), UNCHANGED <<journal>>
    PROVE  RecordsFine' /\ SrcsOurs' /\ CommandSafe'
<1>1. RecordsFine'
  BY SoundParts, EmptyFine DEF Unwind, RecordsFine
<1>2. SrcsOurs' /\ CommandSafe'
  BY SoundParts, NothingRecorded DEF Unwind, SrcsOurs
<1> QED BY <1>1, <1>2

LEMMA FineUpdate ==
    ASSUME TypeOK, NEW r \in Repo, AllFine(mem), NEW e, Fine(e),
           mem' = [mem EXCEPT ![r] = e]
    PROVE  AllFine(mem')
BY DEF TypeOK, CommandOK, AllFine

LEMMA EndedCommandsSafe ==
    ASSUME Sound,
           \/ FinishActivate \/ FinishUnwind \/ FinishRefresh \/ Crash
           \/ ArchiveDrift \/ \E r \in Repo : RefreshRepoFails(r)
    PROVE  Safe'
<1>1. EndOfCommand /\ UNCHANGED <<git, made>>
  BY DEF FinishActivate, FinishUnwind, FinishRefresh, Crash, ArchiveDrift,
         RefreshRepoFails, Quit
<1>2. AllFine(journal')
  BY SoundParts, OnlyFine, EmptyFine
  DEF FinishActivate, FinishUnwind, FinishRefresh, Crash, ArchiveDrift, Archive,
      RefreshRepoFails
<1> QED BY <1>1, <1>2, EndsSafe

LEMMA RollbacksSafe ==
    ASSUME Sound,
           \/ \E r \in Repo : ActivateRefused(r)
           \/ CaptureBaselineFails \/ JournalActivatedFails \/ FinishUndo
    PROVE  Safe'
<1>1. UNCHANGED <<git, made, journal>>
  BY DEF ActivateRefused, CaptureBaselineFails, JournalActivatedFails, FinishUndo
<1>2. \E c \in {"undo", "rollback"} : \E j, S : Unwind(c, j, S) /\ AllFine(j)
  <2>1. CASE \E r \in Repo : ActivateRefused(r)
    BY <2>1, SoundParts DEF ActivateRefused
  <2>2. CASE JournalActivatedFails
    BY <2>2, SoundParts DEF JournalActivatedFails
  <2>3. CASE CaptureBaselineFails
    <3>1. AllFine([mem EXCEPT ![cur] = draft])
      BY SoundParts DEF AllFine, TypeOK, CommandOK
    <3> QED BY <2>3, <3>1 DEF CaptureBaselineFails
  <2>4. CASE FinishUndo
    BY <2>4, SoundParts, OnlyFine DEF FinishUndo
  <2> QED BY <2>1, <2>2, <2>3, <2>4
<1> QED BY <1>1, <1>2, UnwindSafe, GitUntouched

LEMMA StartsSafe ==
    ASSUME Sound,
           \/ \E f \in BOOLEAN : StartActivate(f)
           \/ \E c \in {"deactivate", "force"} :
                StartDeactivate(c) \/ StartDeactivateDrifted(c)
           \/ StartSyncDrifted
    PROVE  Safe'
<1>1. UNCHANGED <<git, made, journal, srcs>>
  BY DEF StartActivate, StartDeactivate, StartDeactivateDrifted, StartSyncDrifted
<1>2. /\ mem' \in {journal, Empty} /\ draft' = None
      /\ cmd' = "sync" => todo' = {}
      /\ cmd' # "refresh" /\ pc' \notin {"switch", "baseline"}
  BY DEF StartActivate, StartDeactivate, StartDeactivateDrifted, StartSyncDrifted,
         Begin
<1>3. RecordsFine'
  BY <1>1, <1>2, SoundParts, EmptyFine DEF RecordsFine
<1>4. SrcsOurs' /\ CommandSafe'
  BY <1>1, <1>2, SoundParts DEF SrcsOurs, CommandSafe, CleanWhenRecorded,
     ValidUntilSynced
<1> QED BY <1>1, <1>3, <1>4, GitUntouched

LEMMA StartRefreshSafe ==
    ASSUME Sound, StartRefresh
    PROVE  Safe'
<1>1. UNCHANGED <<git, made, journal>>
  BY DEF StartRefresh
<1>2. RecordsFine'
  BY SoundParts, EmptyFine DEF RecordsFine, StartRefresh, Begin
<1>3. SrcsOurs'
  BY SoundParts DEF SrcsOurs, SourcesOurs, StartRefresh
<1>4. CommandSafe'
  BY DEF StartRefresh, Begin, CommandSafe, CleanWhenRecorded, ValidUntilSynced,
         IsDirty, Behind, Entries
<1> QED BY <1>1, <1>2, <1>3, <1>4, GitUntouched

\* The one check that live-sync makes of every primary before it writes any.
LEMMA StartSyncSafe ==
    ASSUME Sound, StartSync
    PROVE  Safe'
<1>1. UNCHANGED <<git, made, journal>>
  BY DEF StartSync
<1>2. RecordsFine'
  BY SoundParts, EmptyFine DEF RecordsFine, StartSync, Begin
<1>3. SrcsOurs'
  BY SoundParts DEF SrcsOurs, SourcesOurs, StartSync, Source, TypeOK, GitOK
<1>4. ASSUME NEW r \in todo'
      PROVE  ValidMirror(r, mem[r])'
  <2>1. mem' = journal /\ r \in Entries(journal) /\ ~Drifted
    BY DEF StartSync, Begin
  <2>2. ValidMirror(r, journal[r])
    BY <2>1 DEF Drifted
  <2> QED BY <1>1, <2>1, <2>2 DEF ValidMirror, IsDirty, CaptureSnapshot, HeadCommit
<1>5. CommandSafe'
  BY <1>4 DEF StartSync, Begin, CommandSafe, CleanWhenRecorded, ValidUntilSynced
<1> QED BY <1>1, <1>2, <1>3, <1>5, GitUntouched

\* A journal is deleted or archived while no command runs.
LEMMA JournalDroppedSafe ==
    ASSUME Sound, RecoverActivation \/ DoctorDropsStaleJournal
    PROVE  Safe'
<1>1. UNCHANGED <<git, made, cmd, pc, loop>> /\ journal' = Empty
  BY DEF RecoverActivation, DoctorDropsStaleJournal, Archive
<1>2. RecordsFine' /\ SrcsOurs'
  BY <1>1, SoundParts, EmptyFine DEF RecordsFine, SrcsOurs
<1>3. CommandSafe'
  BY <1>1, NothingRecorded DEF RecoverActivation, DoctorDropsStaleJournal,
     Sound, Typed, Control, PcFitsCommand
<1> QED BY <1>1, <1>2, <1>3, GitUntouched

\* A journal write, and the steps of a command between two repositories.
LEMMA SavesSafe ==
    ASSUME Sound, JournalActivated \/ SaveCleared \/ SaveRefreshed
    PROVE  Safe'
<1>1. UNCHANGED <<git, made>> /\ AllFine(journal')
  BY SoundParts DEF JournalActivated, SaveCleared, SaveRefreshed
<1>2. CASE Quit
  BY <1>1, <1>2, EndsSafe DEF Quit
<1>3. CASE ~Quit
  <2>1. UNCHANGED <<mem, draft, srcs, cmd>> /\ todo' \subseteq todo
        /\ pc' \in {"repo", "clear"}
    BY <1>3 DEF JournalActivated, SaveCleared, SaveRefreshed
  <2>2. RecordsFine' /\ SrcsOurs'
    BY <1>1, <2>1, SoundParts DEF RecordsFine, SrcsOurs
  <2>3. cmd # "sync"
    BY DEF JournalActivated, SaveCleared, SaveRefreshed, Sound, Typed, Control,
           PcFitsCommand
  <2>4. CommandSafe'
    BY <1>1, <2>1, <2>3, SoundParts
    DEF CommandSafe, CleanWhenRecorded, ValidUntilSynced
  <2> QED BY <1>1, <2>2, <2>4, GitUntouched
<1> QED BY <1>2, <1>3

LEMMA LoopStepsSafe ==
    ASSUME Sound, MirrorsCleared \/ \E r \in Repo : DeactivateRepoFails(r)
    PROVE  Safe'
<1>1. UNCHANGED <<git, made, journal, mem, draft, srcs, cmd>>
      /\ pc' = "repo" /\ cmd \notin {"refresh", "sync"}
  BY DEF MirrorsCleared, DeactivateRepoFails, RepoFails, Unwinding, Sound, Typed,
         Control, PcFitsCommand
<1>2. RecordsFine' /\ SrcsOurs'
  BY <1>1, SoundParts DEF RecordsFine, SrcsOurs
<1>3. CommandSafe'
  BY <1>1, NothingRecorded
<1> QED BY <1>1, <1>2, <1>3, GitUntouched

\* Nothing is uncommitted when the baseline is taken.
LEMMA CaptureBaselineSafe ==
    ASSUME Sound, CaptureBaseline
    PROVE  Safe'
<1>1. UNCHANGED <<git, made, journal, srcs, cmd>> /\ pc' = "journal" /\ draft' = None
      /\ cmd = "activate" /\ cur \in Repo
  BY DEF CaptureBaseline, Sound, Typed, Control, PcFitsCommand, Operands,
         RepoSteps, TypeOK, CommandOK
<1>2. Fine([draft EXCEPT !.mirror = CaptureSnapshot(cur)])
  <2>1. wt[cur] = {}
    BY SoundParts DEF CaptureBaseline, CommandSafe, CleanWhenRecorded
  <2>2. draft \in Entry
    BY DEF CaptureBaseline, Sound, Typed, Control, Operands
  <2> QED BY <2>1, <2>2, SoundParts, NoneAssumption
          DEF Fine, OursOnly, OffSlice, CaptureSnapshot, Entry
<1>3. AllFine(mem')
  BY <1>1, <1>2, FineUpdate, SoundParts DEF CaptureBaseline
<1>4. RecordsFine' /\ SrcsOurs' /\ CommandSafe'
  BY <1>1, <1>3, SoundParts, EmptyFine, NothingRecorded DEF RecordsFine, SrcsOurs
<1> QED BY <1>1, <1>4, GitUntouched

-----------------------------------------------------------------------------
(* activate.                                                               *)

\* What a step of activate that leaves every branch, or makes a live one, keeps.
LEMMA SlicesKept ==
    ASSUME Sound, NEW r \in Repo, NEW b \in Branch, b # "slice", NEW c,
           UNCHANGED refs \/ refs' = [refs EXCEPT ![r][b] = c], SrcsOurs'
    PROVE  SourcesOurs'
<1>1. ASSUME NEW q \in Repo
      PROVE  refs'[q]["slice"] = refs[q]["slice"]
  <2>1. refs \in [Repo -> [Branch -> Commit \cup {None}]] /\ "slice" \in Branch
    BY DEF Sound, Typed, TypeOK, GitOK, Branch
  <2>2. CASE refs' = refs
    BY <2>2
  <2>3. CASE refs' = [refs EXCEPT ![r][b] = c]
    BY <2>1, <2>3
  <2> QED BY <2>2, <2>3
<1> QED BY <1>1, SoundParts DEF SourcesOurs, SrcsOurs

LEMMA ActivateRepoSafe ==
    ASSUME Sound, NEW r \in Repo, ActivateRepo(r)
    PROVE  Safe'
<1>1. IsDirty(r) => pushed[r] < MaxStash
  BY DEF ActivateRepo, Sound, Typed, Control, StashRoom
<1>2. RecordsFine'
  <2>1. Fine(draft')
    BY SoundParts DEF ActivateRepo, Fine, OursOnly, OffSlice, SourcesOurs,
       HeadsOffSlice
  <2> QED BY <2>1, SoundParts DEF ActivateRepo, RecordsFine
<1>3. HeadsOffSlice' /\ SourcesOurs'
  BY SoundParts DEF ActivateRepo, HeadsOffSlice, SourcesOurs
<1>4. StashFresh' /\ WorkOnBranches'
  <2>1. CASE IsDirty(r)
    BY <1>1, <2>1, SoundParts, WorkStashed DEF ActivateRepo
  <2>2. CASE ~IsDirty(r)
    BY <2>2, SoundParts, WorkUntouched DEF ActivateRepo, StashFresh
  <2> QED BY <2>1, <2>2
<1>5. CommandSafe'
  BY DEF ActivateRepo, CommandSafe, CleanWhenRecorded, ValidUntilSynced, IsDirty,
     Sound, Typed, TypeOK, GitOK
<1> QED BY <1>2, <1>3, <1>4, <1>5, SafePartsNext

LEMMA StashNotPinnedSafe ==
    ASSUME Sound, NEW r \in Repo, StashNotPinned(r)
    PROVE  Safe'
<1>1. pushed[r] < MaxStash
  BY DEF StashNotPinned, Sound, Typed, Control, StashRoom
<1>2. RecordsFine' /\ SrcsOurs' /\ CommandSafe'
  BY SoundParts, UnwindSafe DEF StashNotPinned
<1>3. HeadsOffSlice' /\ SourcesOurs'
  BY <1>2, SoundParts DEF StashNotPinned, HeadsOffSlice, SourcesOurs, SrcsOurs
<1>4. StashFresh' /\ WorkOnBranches'
  BY <1>1, SoundParts, WorkStashed DEF StashNotPinned
<1> QED BY <1>2, <1>3, <1>4, SafePartsNext

LEMMA SwitchToLiveSafe ==
    ASSUME Sound, SwitchToLive
    PROVE  Safe'
<1>1. cur \in Repo /\ draft \in Entry /\ draft.temp \in Branch
      /\ draft.temp # "slice" /\ cmd = "activate"
  BY EntryFields DEF SwitchToLive, Sound, Typed, TypeOK, CommandOK, Control,
     Operands, RepoSteps, PcFitsCommand, Branch, Live
<1>2. RecordsFine' /\ SrcsOurs'
  <2>1. AllFine([mem EXCEPT ![cur] = draft])
    BY SoundParts DEF AllFine, TypeOK, CommandOK
  <2> QED BY <2>1, SoundParts, EmptyFine DEF SwitchToLive, RecordsFine, SrcsOurs
<1>3. HeadsOffSlice' /\ StashFresh'
  BY <1>1, SoundParts DEF SwitchToLive, SwitchTo, HeadsOffSlice, StashFresh,
     TypeOK, GitOK
<1>4. SourcesOurs'
  BY <1>1, <1>2, SlicesKept DEF SwitchToLive
<1>5. CommandSafe'
  BY <1>1, SoundParts DEF SwitchToLive, CommandSafe, CleanWhenRecorded,
     ValidUntilSynced
<1>6. WorkOnBranches'
  BY <1>1, SoundParts, OursOverwritten DEF SwitchToLive, Exists
<1> QED BY <1>2, <1>3, <1>4, <1>5, <1>6, SafePartsNext

LEMMA SwitchToLiveFailsSafe ==
    ASSUME Sound, SwitchToLiveFails
    PROVE  Safe'
<1>1. cur \in Repo /\ draft \in Entry /\ draft.stash \in 0..MaxStash
  BY EntryFields DEF SwitchToLiveFails, Sound, Typed, TypeOK, CommandOK, Control,
     Operands, RepoSteps
<1>2. RecordsFine' /\ SrcsOurs' /\ CommandSafe'
  BY SoundParts, UnwindSafe DEF SwitchToLiveFails
<1>3. HeadsOffSlice' /\ SourcesOurs'
  BY <1>2, SoundParts DEF SwitchToLiveFails, HeadsOffSlice, SourcesOurs, SrcsOurs
<1>4. StashFresh' /\ WorkOnBranches'
  <2>1. CASE UNCHANGED <<wt, stash>>
    BY <2>1, SoundParts, WorkUntouched DEF SwitchToLiveFails, StashFresh
  <2>2. CASE ~UNCHANGED <<wt, stash>>
    <3>1. draft.stash \in 1..MaxStash
      BY <1>1, <2>2, ConstantsAssumption DEF SwitchToLiveFails
    <3> QED BY <1>1, <2>2, <3>1, SoundParts, WorkPopped, StashShrinks
            DEF SwitchToLiveFails
  <2> QED BY <2>1, <2>2
<1> QED BY <1>2, <1>3, <1>4, SafePartsNext

-----------------------------------------------------------------------------
(* deactivateRepo.                                                         *)

\* What a step of deactivateRepo works with.
LEMMA UnwindOperands ==
    ASSUME Sound, NEW r \in todo, Unwinding
    PROVE  /\ r \in Repo /\ mem[r] \in Entry /\ Fine(mem[r])
           /\ mem[r].prior \in Branch \cup {"detached"} /\ mem[r].prior # "slice"
           /\ mem[r].temp \in Branch /\ mem[r].temp # "slice"
           /\ mem[r].stash \in 0..MaxStash
           /\ mem[r].target.own = {}
<1>1. r \in Repo /\ mem[r] \in Entry
  BY DEF Unwinding, Sound, Typed, Control, Operands, Listed, TypeOK, CommandOK
<1>2. Fine(mem[r])
  BY <1>1, SoundParts DEF AllFine
<1> QED BY <1>1, <1>2, EntryFields, NoneAssumption
        DEF Fine, OursOnly, OffSlice, Branch, Live

\* A step of it that changes neither journal nor draft, and leaves the slice
\* branch where it is.
LEMMA UnwindStepSafe ==
    ASSUME Sound, Unwinding, UNCHANGED <<journal, mem, draft, srcs, cmd>>,
           pc' \notin {"switch", "baseline"}, HeadsOffSlice', SourcesOurs',
           StashFresh', WorkOnBranches'
    PROVE  Safe'
<1>1. RecordsFine'
  BY SoundParts DEF RecordsFine
<1>2. CommandSafe'
  BY NothingRecorded DEF Unwinding
<1> QED BY <1>1, <1>2, SafePartsNext

LEMMA RestoreOffSlice ==
    ASSUME Sound, NEW r \in Repo, mem[r].prior # "slice", RestorePriorBranch(r)
    PROVE  HeadsOffSlice'
BY SoundParts DEF RestorePriorBranch, SwitchTo, DetachAt, HeadsOffSlice, TypeOK,
   GitOK

\* The temp branch that is deleted is still at the slice's own commit.
LEMMA DeleteSafe ==
    ASSUME Sound, Unwinding, NEW r \in todo, DeleteTempBranchIfAtTarget(r),
           UNCHANGED <<wt, stash, made, srcs>>
    PROVE  WorkOnBranches' /\ SourcesOurs'
<1>1. refs' = [refs EXCEPT ![r][mem[r].temp] = None]
      /\ refs[r][mem[r].temp] = mem[r].target
  BY DEF DeleteTempBranchIfAtTarget
<1>2. WorkOnBranches'
  BY <1>1, UnwindOperands, OursOverwritten, SoundParts
<1>3. SrcsOurs'
  BY SoundParts DEF SrcsOurs
<1> QED BY <1>1, <1>2, <1>3, UnwindOperands, SlicesKept

\* Renamed to the rescue branch, which did not exist, a branch keeps its commits.
LEMMA RescueSafe ==
    ASSUME Sound, Unwinding, NEW r \in todo, CanRescue(r), NEW c,
           c = refs[r][mem[r].temp],
           refs' = [refs EXCEPT ![r] = [@ EXCEPT !["rescue"] = c,
                                                 ![mem[r].temp] = None]],
           UNCHANGED <<wt, stash, made, srcs>>
    PROVE  WorkOnBranches' /\ SourcesOurs'
<1> DEFINE t == mem[r].temp
<1>1. r \in Repo /\ t \in Live /\ "rescue" \in Branch /\ "slice" \in Branch
      /\ t \in Branch /\ t # "slice" /\ t # "rescue"
  BY UnwindOperands, EntryFields DEF Branch, Live
<1>2. \A q \in Repo \ {r} : refs'[q] = refs[q]
  BY DEF Sound, Typed, TypeOK, GitOK
<1>3. /\ refs'[r]["rescue"] = refs[r][t] /\ refs'[r][t] = None
      /\ \A b \in Branch \ {"rescue", t} : refs'[r][b] = refs[r][b]
  BY <1>1 DEF Sound, Typed, TypeOK, GitOK
<1>4. ASSUME NEW x \in Work, Held(x, r)
      PROVE  Held(x, r)'
  <2>1. CASE x \in wt[r] \/ \E i \in 1..MaxStash : x \in stash[r][i]
    BY <2>1 DEF Held
  <2>2. CASE \E b \in Branch : Exists(r, b) /\ x \in refs[r][b].own
    <3>1. PICK b \in Branch : Exists(r, b) /\ x \in refs[r][b].own
      BY <2>2
    <3>2. CASE b = t
      BY <1>1, <1>3, <3>1, <3>2 DEF Held, Exists
    <3>3. CASE b # t
      BY <1>1, <1>3, <3>1, <3>3 DEF Held, Exists, CanRescue
    <3> QED BY <3>2, <3>3
  <2> QED BY <1>4, <2>1, <2>2 DEF Held
<1>5. Elsewhere(r)
  BY <1>2 DEF Elsewhere
<1>6. WorkOnBranches'
  BY <1>1, <1>4, <1>5, WorkMoves, SoundParts
<1>7. SourcesOurs'
  BY <1>1, <1>2, <1>3, SoundParts DEF SourcesOurs
<1> QED BY <1>6, <1>7

LEMMA DeactivateRepoSafe ==
    ASSUME Sound, NEW r \in Repo, DeactivateRepo(r)
    PROVE  Safe'
<1>1. /\ Unwinding /\ r \in todo
      /\ UNCHANGED <<journal, mem, draft, srcs, cmd, made, wt, stash, pushed>>
      /\ pc' \notin {"switch", "baseline"}
  BY DEF DeactivateRepo, RepoGoesOn
<1>2. StashFresh'
  BY <1>1, SoundParts DEF StashFresh
<1>3. HeadsOffSlice' /\ WorkOnBranches' /\ SourcesOurs'
  <2>1. CASE DeleteTempBranchIfAtTarget(r) /\ UNCHANGED head
    BY <1>1, <2>1, DeleteSafe, SoundParts DEF HeadsOffSlice
  <2>2. CASE RestorePriorBranch(r) /\ UNCHANGED refs
    <3>1. WorkOnBranches' /\ SourcesOurs'
      BY <1>1, <2>2, WorkUntouched, SoundParts DEF SourcesOurs
    <3> QED BY <1>1, <2>2, <3>1, UnwindOperands, RestoreOffSlice
  <2>3. CASE /\ CanRescue(r) /\ SwitchTo(r, "rescue")
             /\ refs' = [refs EXCEPT ![r] = [@ EXCEPT !["rescue"] = refs[r][mem[r].temp],
                                                      ![mem[r].temp] = None]]
    <3>1. WorkOnBranches' /\ SourcesOurs'
      BY <1>1, <2>3, RescueSafe
    <3>2. HeadsOffSlice'
      BY <2>3, SoundParts DEF SwitchTo, HeadsOffSlice, TypeOK, GitOK
    <3> QED BY <3>1, <3>2
  <2> QED BY <2>1, <2>2, <2>3 DEF DeactivateRepo
<1> QED BY <1>1, <1>2, <1>3, UnwindStepSafe

LEMMA RestoreAfterRescueSafe ==
    ASSUME Sound, RestoreAfterRescue
    PROVE  Safe'
<1>1. /\ Unwinding /\ cur \in todo
      /\ UNCHANGED <<journal, mem, draft, srcs, cmd, made, wt, stash, pushed, refs>>
      /\ pc' \notin {"switch", "baseline"}
  BY DEF RestoreAfterRescue, RepoGoesOn, RepoFails, Sound, Typed, Control,
     PcFitsCommand, Operands, RepoSteps
<1>2. StashFresh' /\ SourcesOurs' /\ WorkOnBranches'
  BY <1>1, SoundParts, WorkUntouched DEF StashFresh, SourcesOurs
<1>3. HeadsOffSlice'
  BY <1>1, UnwindOperands, RestoreOffSlice, SoundParts
  DEF RestoreAfterRescue, HeadsOffSlice
<1> QED BY <1>1, <1>2, <1>3, UnwindStepSafe

LEMMA DeleteTempBranchSafe ==
    ASSUME Sound, DeleteTempBranch
    PROVE  Safe'
<1>1. /\ Unwinding /\ cur \in todo
      /\ UNCHANGED <<journal, mem, draft, srcs, cmd, made, wt, stash, pushed, head>>
      /\ pc' \notin {"switch", "baseline"}
  BY DEF DeleteTempBranch, RepoGoesOn, RepoFails, Sound, Typed, Control,
     PcFitsCommand, Operands, RepoSteps
<1>2. StashFresh' /\ HeadsOffSlice'
  BY <1>1, SoundParts DEF StashFresh, HeadsOffSlice
<1>3. WorkOnBranches' /\ SourcesOurs'
  <2>1. CASE DeleteTempBranchIfAtTarget(cur)
    BY <1>1, <2>1, DeleteSafe
  <2>2. CASE UNCHANGED refs
    BY <1>1, <2>2, SoundParts, WorkUntouched DEF SourcesOurs
  <2> QED BY <2>1, <2>2 DEF DeleteTempBranch
<1> QED BY <1>1, <1>2, <1>3, UnwindStepSafe

LEMMA PopPinnedStashSafe ==
    ASSUME Sound, PopPinnedStash
    PROVE  Safe'
<1> DEFINE i == mem[cur].stash
<1>1. /\ Unwinding /\ cur \in todo
      /\ UNCHANGED <<journal, mem, draft, srcs, cmd, made, pushed, head, refs>>
      /\ pc' \notin {"switch", "baseline"}
  BY DEF PopPinnedStash, RepoDone, RepoFails, Sound, Typed, Control,
     PcFitsCommand, Operands, RepoSteps
<1>2. HeadsOffSlice' /\ SourcesOurs'
  BY <1>1, SoundParts DEF SourcesOurs, HeadsOffSlice
<1>3. StashFresh' /\ WorkOnBranches'
  <2>1. CASE UNCHANGED stash
    <3>1. UNCHANGED wt \/ \E S : wt' = [wt EXCEPT ![cur] = wt[cur] \cup S]
      BY <2>1, <1>1, UnwindOperands DEF PopPinnedStash, Sound, Typed, TypeOK, GitOK
    <3> QED BY <1>1, <2>1, <3>1, UnwindOperands, OursOverwritten, SoundParts
            DEF StashFresh
  <2>2. CASE ~UNCHANGED stash
    <3>1. /\ i # 0
          /\ wt' = [wt EXCEPT ![cur] = @ \cup stash[cur][i]]
          /\ stash' = [stash EXCEPT ![cur][i] = {}]
      BY <2>2 DEF PopPinnedStash
    <3>2. cur \in Repo /\ i \in 1..MaxStash
      BY <1>1, <3>1, UnwindOperands, ConstantsAssumption
    <3> QED BY <1>1, <3>1, <3>2, WorkPopped, StashShrinks, SoundParts
  <2> QED BY <2>1, <2>2
<1> QED BY <1>1, <1>2, <1>3, UnwindStepSafe

-----------------------------------------------------------------------------
(* The mirrors: clearing them, refresh and live-sync.                      *)

\* A valid mirror holds nothing of the user's.
LEMMA ValidIsOurs ==
    ASSUME Sound, NEW r \in Repo, mem[r] \in Entry, ValidMirror(r, mem[r])
    PROVE  /\ head[r] = mem[r].temp /\ mem[r].temp \in Live
           /\ refs[r][head[r]] \in Commit /\ refs[r][head[r]].own = {}
           /\ wt[r] \subseteq SrcWork
<1>1. Fine(mem[r]) /\ mem[r].temp \in Live /\ mem[r].target \in Commit
  BY SoundParts, EntryFields DEF AllFine
<1>2. mem[r].target.own = {}
      /\ (mem[r].mirror # None => mem[r].mirror.items \subseteq SrcWork)
  BY <1>1, NoneAssumption DEF Fine, OursOnly
<1>3. wt[r] \subseteq SrcWork
  BY <1>2 DEF ValidMirror, IsDirty, CaptureSnapshot
<1> QED BY <1>1, <1>2, <1>3 DEF ValidMirror

LEMMA MirrorForgotten ==
    ASSUME Sound, NEW r \in Repo, mem[r] \in Entry
    PROVE  Fine([mem[r] EXCEPT !.mirror = None])
BY SoundParts, NoneAssumption DEF AllFine, Fine, OursOnly, OffSlice, Entry

LEMMA ClearWorkingMirrorSafe ==
    ASSUME Sound, NEW r \in Repo, ClearWorkingMirror(r)
    PROVE  Safe'
<1>1. /\ mem[r] \in Entry /\ cmd \notin {"refresh", "sync"}
      /\ UNCHANGED <<head, refs, stash, pushed, made, journal, draft, srcs, cmd>>
  BY DEF ClearWorkingMirror, Sound, Typed, Control, PcFitsCommand, Operands, Listed
<1>2. AllFine(mem')
  <2>1. mem' = [mem EXCEPT ![r] = [mem[r] EXCEPT !.mirror = None]]
    BY DEF ClearWorkingMirror, Sound, Typed, TypeOK, CommandOK
  <2> HIDE DEF AllFine, Fine
  <2> QED BY <1>1, <2>1, MirrorForgotten, FineUpdate, SoundParts
<1>3. RecordsFine' /\ HeadsOffSlice' /\ SourcesOurs' /\ StashFresh'
  BY <1>1, <1>2, SoundParts DEF RecordsFine, HeadsOffSlice, SourcesOurs, StashFresh
<1>4. CommandSafe'
  BY <1>1, NothingRecorded DEF ClearWorkingMirror
<1>5. WorkOnBranches'
  <2>1. CASE r \in restored
    <3>1. UNCHANGED wt
      BY <2>1 DEF ClearWorkingMirror, Sound, Typed, TypeOK, GitOK
    <3> QED BY <1>1, <3>1, WorkUntouched, SoundParts
  <2>2. CASE r \notin restored
    <3>1. wt[r] \subseteq SrcWork
      BY <1>1, <2>2, ValidIsOurs DEF ClearWorkingMirror
    <3>2. wt' = [wt EXCEPT ![r] = {}]
      BY <2>2 DEF ClearWorkingMirror
    <3> QED BY <1>1, <3>1, <3>2, OursOverwritten, SoundParts
  <2> QED BY <2>1, <2>2
<1> QED BY <1>3, <1>4, <1>5, SafePartsNext

LEMMA ClearWorkingMirrorFailsSafe ==
    ASSUME Sound, NEW r \in Repo, ClearWorkingMirrorFails(r)
    PROVE  Safe'
<1>1. /\ mem[r] \in Entry /\ cmd \notin {"refresh", "sync"}
      /\ UNCHANGED <<head, refs, stash, pushed, made, journal>>
  BY DEF ClearWorkingMirrorFails, Sound, Typed, Control, PcFitsCommand, Operands,
     Listed
<1>2. CASE pc' = "drifted" /\ UNCHANGED <<wt, cmd, mem, draft, srcs>>
  <2>1. UNCHANGED <<git, made>>
    BY <1>2 DEF ClearWorkingMirrorFails
  <2>2. RecordsFine' /\ SrcsOurs' /\ CommandSafe'
    BY <1>1, <1>2, SoundParts, NothingRecorded DEF RecordsFine, SrcsOurs
  <2> QED BY <2>1, <2>2, GitUntouched
<1>3. CASE /\ Quit
           /\ \E S \in SUBSET wt[r] :
                /\ S # wt[r] => ValidMirror(r, mem[r])
                /\ wt' = [wt EXCEPT ![r] = S]
  <2>1. PICK S \in SUBSET wt[r] : /\ S # wt[r] => ValidMirror(r, mem[r])
                                  /\ wt' = [wt EXCEPT ![r] = S]
    BY <1>3
  <2>2. wt[r] \subseteq S \cup SrcWork
    BY <1>1, <2>1, ValidIsOurs
  <2>3. WorkOnBranches'
    BY <1>1, <2>1, <2>2, OursOverwritten, SoundParts
  <2>4. HeadsOffSlice' /\ StashFresh' /\ \A q \in Repo : refs'[q]["slice"].own = {}
    BY <1>1, SoundParts DEF HeadsOffSlice, StashFresh, SourcesOurs
  <2> QED BY <1>1, <1>3, <2>3, <2>4, QuitSafe, SoundParts
<1> QED BY <1>2, <1>3 DEF ClearWorkingMirrorFails

\* merge --ff-only never leaves the user's commits behind: only a branch that
\* has none of its own is an ancestor of the slice.
LEMMA AncestorIsOurs ==
    ASSUME NEW c \in Commit, NEW d \in Commit, IsAncestor(c, d), d.own = {}
    PROVE  c.own = {}
BY DEF IsAncestor, Commit

LEMMA RefreshRepoSafe ==
    ASSUME Sound, NEW r \in Repo, RefreshRepo(r)
    PROVE  Safe'
<1>1. /\ mem[r] \in Entry /\ srcs[r] \in Snapshot /\ r \in todo
      /\ UNCHANGED <<head, wt, stash, pushed, made, journal, draft, srcs, cmd, todo>>
      /\ pc' = "refreshed" /\ cmd = "refresh"
  BY DEF RefreshRepo, Sound, Typed, Control, Operands, Listed
<1>2. /\ srcs[r].at \in Commit /\ srcs[r].at.own = {}
      /\ mem[r].temp \in Branch /\ mem[r].temp # "slice" /\ mem[r].temp # "detached"
  BY <1>1, SoundParts, EntryFields, NoneAssumption
  DEF SrcsOurs, Snapshot, Branch, Live
<1>3. refs[r][mem[r].temp] \in Commit
  BY <1>2 DEF RefreshRepo, Sound, Typed, Control, HeadResolves
<1>4. \/ UNCHANGED refs
      \/ /\ refs' = [refs EXCEPT ![r][mem[r].temp] = srcs[r].at]
         /\ refs[r][mem[r].temp].own = {}
  BY <1>2, <1>3, AncestorIsOurs DEF RefreshRepo
<1>5. wt[r] = {}
  BY <1>1, SoundParts DEF CommandSafe, CleanWhenRecorded
<1>6. AllFine(mem')
  <2> DEFINE m == RebaselineMirror(r, refs'[r][mem[r].temp])
             e == [mem[r] EXCEPT !.target = srcs[r].at, !.mirror = m]
  <2>1. m # None => m.items \subseteq SrcWork
    BY <1>5 DEF RebaselineMirror
  <2> HIDE DEF m
  <2>2. Fine(mem[r])
    BY SoundParts DEF AllFine
  <2>3. e.target = srcs[r].at /\ e.mirror = m /\ e.prior = mem[r].prior
    BY <1>1 DEF Entry
  <2>4. Fine(e)
    BY <1>1, <1>2, <2>1, <2>2, <2>3, NoneAssumption DEF Fine, OursOnly, OffSlice
  <2>5. mem' = [mem EXCEPT ![r] = e]
    BY DEF m, RefreshRepo, Sound, Typed, TypeOK, CommandOK
  <2> HIDE DEF e
  <2> QED BY <2>4, <2>5, FineUpdate, SoundParts
<1>7. RecordsFine' /\ HeadsOffSlice' /\ StashFresh'
  BY <1>1, <1>6, SoundParts DEF RecordsFine, HeadsOffSlice, StashFresh
<1>8. SourcesOurs'
  <2>1. SrcsOurs'
    BY <1>1, SoundParts DEF SrcsOurs
  <2> QED BY <1>2, <1>4, <2>1, SlicesKept
<1>9. CommandSafe'
  BY <1>1, SoundParts DEF CommandSafe, CleanWhenRecorded, ValidUntilSynced
<1>10. WorkOnBranches'
  BY <1>1, <1>2, <1>4, OursOverwritten, SoundParts
<1> QED BY <1>7, <1>8, <1>9, <1>10, SafePartsNext

\* What a step of live-sync works with: it may write r only when r still is as
\* it was validated, or as this round wrote it.
LEMMA SyncOperands ==
    ASSUME Sound, cmd = "sync", NEW r \in todo, srcs[r] # None
    PROVE  /\ r \in Repo /\ mem[r] \in Entry
           /\ srcs[r].at.own = {} /\ srcs[r].items \subseteq SrcWork
           /\ head[r] = mem[r].temp /\ head[r] \in Live
           /\ refs[r][head[r]] \in Commit /\ refs[r][head[r]].own = {}
           /\ wt[r] \subseteq SrcWork
<1>1. r \in Repo /\ mem[r] \in Entry
  BY DEF Sound, Typed, Control, Operands, Listed, TypeOK, CommandOK
<1>2. srcs[r].at.own = {} /\ srcs[r].items \subseteq SrcWork
  BY <1>1, SoundParts DEF SrcsOurs
<1>3. CASE ValidMirror(r, mem[r])
  BY <1>1, <1>2, <1>3, ValidIsOurs
<1>4. CASE /\ head[r] = mem[r].temp /\ refs[r][head[r]].own = {}
           /\ wt[r] \subseteq SrcWork
  <2>1. head[r] \in Live
    BY <1>1, <1>4, EntryFields
  <2>2. refs[r][head[r]] \in Commit
    BY <1>1, <2>1 DEF Sound, Typed, Control, HeadResolves, Live
  <2> QED BY <1>1, <1>2, <1>4, <2>1, <2>2
<1> QED BY <1>3, <1>4, SoundParts DEF CommandSafe, ValidUntilSynced

\* Writing a primary that holds nothing of the user's.
LEMMA OverwriteSafe ==
    ASSUME Sound, NEW r \in Repo, head[r] \in Live, refs[r][head[r]].own = {},
           wt[r] \subseteq SrcWork, NEW c, ResetHead(r, c), NEW S,
           wt' = [wt EXCEPT ![r] = S], UNCHANGED <<head, stash, pushed, made>>
    PROVE  /\ WorkOnBranches' /\ HeadsOffSlice' /\ StashFresh'
           /\ \A q \in Repo : refs'[q]["slice"].own = {}
           /\ refs' = [refs EXCEPT ![r][head[r]] = c]
<1>1. head[r] \in Branch /\ head[r] # "slice" /\ head[r] # "detached"
  BY DEF Live, Branch
<1>2. refs' = [refs EXCEPT ![r][head[r]] = c]
  BY <1>1 DEF ResetHead
<1>3. WorkOnBranches'
  BY <1>1, <1>2, OursOverwritten, SoundParts
<1>4. HeadsOffSlice' /\ StashFresh'
  BY SoundParts DEF HeadsOffSlice, StashFresh
<1>5. ASSUME NEW q \in Repo
      PROVE  refs'[q]["slice"] = refs[q]["slice"]
  BY <1>1, <1>2 DEF Sound, Typed, TypeOK, GitOK, Branch
<1> QED BY <1>2, <1>3, <1>4, <1>5, SoundParts DEF SourcesOurs

LEMMA SyncSkipSafe ==
    ASSUME Sound, NEW r \in Repo, SyncSkip(r)
    PROVE  Safe'
<1>1. UNCHANGED <<git, made, journal, mem, draft, srcs, cmd, pc, cur>>
      /\ todo' \subseteq todo /\ cmd = "sync" /\ pc = "repo"
  BY DEF SyncSkip
<1>2. RecordsFine' /\ SrcsOurs'
  BY <1>1, SoundParts DEF RecordsFine, SrcsOurs
<1>3. CommandSafe'
  BY <1>1, SoundParts DEF CommandSafe, CleanWhenRecorded, ValidUntilSynced,
     ValidMirror, IsDirty, CaptureSnapshot, HeadCommit
<1> QED BY <1>1, <1>2, <1>3, GitUntouched

LEMMA SyncApplySafe ==
    ASSUME Sound, NEW r \in Repo, SyncApply(r)
    PROVE  Safe'
<1>1. /\ cmd = "sync" /\ pc = "repo" /\ r \in todo /\ srcs[r] # None
      /\ UNCHANGED <<head, stash, pushed, made, journal, draft, cmd, todo>>
      /\ cur' = r /\ pc' = "synced"
  BY NoneAssumption
  DEF SyncApply, Sound, Typed, Control, Operands, Listed
<1>2. /\ mem[r] \in Entry
      /\ srcs[r].at.own = {} /\ srcs[r].items \subseteq SrcWork
      /\ head[r] = mem[r].temp /\ head[r] \in Live
      /\ refs[r][head[r]] \in Commit /\ refs[r][head[r]].own = {}
      /\ wt[r] \subseteq SrcWork
  BY <1>1, SyncOperands
<1>3. ResetHead(r, srcs[r].at) /\ wt' = [wt EXCEPT ![r] = srcs[r].items]
  BY DEF SyncApply
<1>4. /\ WorkOnBranches' /\ HeadsOffSlice' /\ StashFresh'
      /\ \A q \in Repo : refs'[q]["slice"].own = {}
      /\ refs' = [refs EXCEPT ![r][head[r]] = srcs[r].at]
  BY <1>1, <1>2, <1>3, OverwriteSafe
<1> DEFINE e == [mem[r] EXCEPT !.target = srcs[r].at, !.mirror = srcs[r]]
<1>5. e.target = srcs[r].at /\ e.mirror = srcs[r] /\ e.prior = mem[r].prior
      /\ e.temp = mem[r].temp
  BY <1>2 DEF Entry
<1>6. mem' = [mem EXCEPT ![r] = e]
  BY DEF SyncApply, Sound, Typed, TypeOK, CommandOK
<1> HIDE DEF e
<1>7. Fine(e)
  <2>1. Fine(mem[r])
    BY SoundParts DEF AllFine
  <2> QED BY <1>2, <1>5, <2>1, NoneAssumption DEF Fine, OursOnly, OffSlice
<1>8. RecordsFine'
  BY <1>1, <1>6, <1>7, FineUpdate, SoundParts DEF RecordsFine
<1>9. SourcesOurs'
  <2>1. CaptureSnapshot(r).at.own = {} /\ CaptureSnapshot(r).items \subseteq SrcWork
    BY <1>2 DEF CaptureSnapshot, HeadCommit, Live
  <2>2. srcs' = [srcs EXCEPT ![r] = CaptureSnapshot(r)]
    BY DEF SyncApply
  <2>3. SrcsOurs'
    BY <2>1, <2>2, SoundParts DEF SrcsOurs, TypeOK, CommandOK
  <2> QED BY <1>4, <2>3 DEF SourcesOurs, SrcsOurs
<1>10. CommandSafe'
  <2>1. ASSUME NEW q \in todo, q # r
        PROVE  ValidMirror(q, mem[q])'
    <3>1. ValidMirror(q, mem[q]) /\ q \in Repo
      BY <1>1, SoundParts DEF CommandSafe, ValidUntilSynced, TypeOK, CommandOK
    <3>2. /\ refs'[q] = refs[q] /\ wt'[q] = wt[q] /\ mem'[q] = mem[q]
          /\ at'[q] = at[q] /\ head'[q] = head[q]
      BY <1>1, <1>3, <1>4, <1>6, <2>1, <3>1
      DEF ResetHead, Sound, Typed, TypeOK, GitOK, CommandOK
    <3> QED BY <3>1, <3>2 DEF ValidMirror, IsDirty, CaptureSnapshot, HeadCommit
  <2>2. /\ head'[r] = mem'[r].temp /\ refs'[r][head'[r]].own = {}
        /\ wt'[r] \subseteq SrcWork
    <3>1. mem'[r] = e
      BY <1>6 DEF Sound, Typed, TypeOK, CommandOK
    <3>2. refs'[r][head[r]] = srcs[r].at /\ head[r] \in Branch
      BY <1>2, <1>4 DEF Sound, Typed, TypeOK, GitOK, Branch
    <3>3. wt'[r] = srcs[r].items
      BY <1>3 DEF Sound, Typed, TypeOK, GitOK
    <3> QED BY <1>1, <1>2, <1>5, <3>1, <3>2, <3>3
  <2> QED BY <1>1, <2>1, <2>2 DEF CommandSafe, CleanWhenRecorded, ValidUntilSynced
<1> QED BY <1>4, <1>8, <1>9, <1>10, SafePartsNext

LEMMA SyncApplyFailsSafe ==
    ASSUME Sound, NEW r \in Repo, SyncApplyFails(r)
    PROVE  Safe'
<1>1. /\ cmd = "sync" /\ r \in todo /\ srcs[r] # None /\ Quit
      /\ UNCHANGED <<head, stash, pushed, made, journal>>
  BY NoneAssumption
  DEF SyncApplyFails, Sound, Typed, Control, Operands, Listed
<1>2. CASE UNCHANGED <<at, refs, wt>>
  BY <1>1, <1>2, EndsSafe, SoundParts DEF Quit
<1>3. CASE ResetHead(r, srcs[r].at) /\ wt' = [wt EXCEPT ![r] = @ \cup srcs[r].items]
  BY <1>1, <1>3, SyncOperands, OverwriteSafe, QuitSafe, SoundParts
<1> QED BY <1>2, <1>3 DEF SyncApplyFails

LEMMA SaveSyncedSafe ==
    ASSUME Sound, SaveSynced
    PROVE  Safe'
<1>1. /\ cmd = "sync" /\ pc = "synced" /\ cur \in todo /\ srcs[cur] # None
      /\ UNCHANGED <<head, stash, pushed, made>>
  BY NoneAssumption
  DEF SaveSynced, Sound, Typed, Control, Operands, Listed, PcFitsCommand, RepoSteps
<1>2. CASE /\ journal' = mem /\ pc' = "repo" /\ todo' = todo \ {cur}
           /\ UNCHANGED <<at, refs, wt, cmd, mem, draft, srcs>>
  <2>1. RecordsFine' /\ SrcsOurs'
    BY <1>2, SoundParts DEF RecordsFine, SrcsOurs
  <2>2. ASSUME NEW q \in todo \ {cur}
        PROVE  ValidMirror(q, mem[q])'
    BY <1>1, <1>2, SoundParts DEF CommandSafe, ValidUntilSynced, ValidMirror,
       IsDirty, CaptureSnapshot, HeadCommit
  <2>3. CommandSafe'
    BY <1>1, <1>2, <2>2 DEF CommandSafe, CleanWhenRecorded, ValidUntilSynced
  <2> QED BY <1>1, <1>2, <2>1, <2>3, GitUntouched
<1>3. CASE /\ Quit /\ UNCHANGED journal /\ ResetHead(cur, srcs[cur].at)
           /\ wt' = [wt EXCEPT ![cur] = srcs[cur].items]
  BY <1>1, <1>3, SyncOperands, OverwriteSafe, QuitSafe, SoundParts
<1> QED BY <1>2, <1>3 DEF SaveSynced

-----------------------------------------------------------------------------
(* doctor --fix and the user.                                              *)

\* What the user does while no command runs touches no record of the engine.
LEMMA WhileIdle ==
    ASSUME Sound, cmd = "idle", UNCHANGED <<journal, cmd, pc, mem, draft, srcs>>
    PROVE  RecordsFine' /\ SrcsOurs' /\ CommandSafe'
<1>1. RecordsFine' /\ SrcsOurs'
  BY SoundParts DEF RecordsFine, SrcsOurs
<1>2. CommandSafe'
  BY NothingRecorded DEF Sound, Typed, Control, PcFitsCommand
<1> QED BY <1>1, <1>2

LEMMA MirrorStepsSafe ==
    ASSUME Sound, StartMirror \/ SyncRefused
    PROVE  Safe'
<1>1. UNCHANGED <<git, made, journal, cmd, pc, mem, draft, srcs>> /\ cmd = "idle"
  BY DEF StartMirror, SyncRefused
<1> QED BY <1>1, WhileIdle, GitUntouched

LEMMA DoctorDropsOrphanSafe ==
    ASSUME Sound, NEW r \in Repo, DoctorDropsOrphan(r)
    PROVE  Safe'
<1>1. /\ cmd = "idle" /\ "live" \in Branch
      /\ UNCHANGED <<journal, cmd, pc, mem, draft, srcs, wt, stash, pushed, made>>
  BY DEF DoctorDropsOrphan, Branch, Live
<1>2. refs[r]["live"] \in Commit /\ refs[r]["live"].own = {}
  <2>1. refs[r]["live"] \in Commit /\ refs[r]["slice"] \in Commit
        /\ refs[r]["slice"].own = {}
    BY SoundParts DEF DoctorDropsOrphan, Sound, Typed, Control, HeadResolves,
       SliceExists, SourcesOurs
  <2> QED BY <2>1, AncestorIsOurs DEF DoctorDropsOrphan
<1>3. WorkOnBranches'
  BY <1>1, <1>2, OursOverwritten, SoundParts DEF DoctorDropsOrphan
<1>4. RecordsFine' /\ SrcsOurs' /\ CommandSafe'
  BY <1>1, WhileIdle
<1>5. SourcesOurs'
  BY <1>1, <1>4, SlicesKept DEF DoctorDropsOrphan
<1>6. HeadsOffSlice' /\ StashFresh'
  BY <1>1, SoundParts DEF DoctorDropsOrphan, SwitchTo, HeadsOffSlice, StashFresh,
     TypeOK, GitOK
<1> QED BY <1>3, <1>4, <1>5, <1>6, SafePartsNext

LEMMA UserContentSafe ==
    ASSUME ~Racing, Sound, NEW r \in Repo, UserEdit(r) \/ UserDropsStash(r)
    PROVE  Safe'
<1>1. cmd = "idle"
      /\ UNCHANGED <<journal, cmd, pc, mem, draft, srcs, head, refs, pushed>>
  BY DEF UserEdit, UserDropsStash, InPrimary, userUnchanged
<1>2. RecordsFine' /\ SrcsOurs' /\ CommandSafe' /\ HeadsOffSlice' /\ SourcesOurs'
  BY <1>1, WhileIdle, SoundParts DEF HeadsOffSlice, SourcesOurs, SrcsOurs
<1>3. CASE UserEdit(r)
  <2>1. PICK w \in Work : /\ wt' = [wt EXCEPT ![r] = @ \cup {w}]
                          /\ made' = [made EXCEPT ![r] = @ \cup {w}]
    BY <1>3 DEF UserEdit
  <2>2. UNCHANGED stash
    BY <1>3 DEF UserEdit
  <2>3. ASSUME NEW q \in Repo, NEW x \in made'[q]
        PROVE  Held(x, q)'
    <3>1. wt[q] \subseteq wt'[q] /\ (x \in made[q] \/ x \in wt'[q])
      BY <2>1, <2>3 DEF Sound, Typed, TypeOK, GitOK, GhostOK
    <3>2. x \in made[q] => Held(x, q)
      BY SoundParts, WorkHeld
    <3> QED BY <1>1, <2>2, <3>1, <3>2 DEF Held, Exists
  <2> QED BY <1>2, <2>2, <2>3, <1>1, WorkHeldNext, SafePartsNext, SoundParts
          DEF StashFresh
<1>4. CASE UserDropsStash(r)
  <2>1. PICK i \in 1..MaxStash : /\ stash[r][i] \subseteq wt[r]
                                 /\ stash' = [stash EXCEPT ![r][i] = {}]
    BY <1>4 DEF UserDropsStash
  <2>2. UNCHANGED <<wt, made>>
    BY <1>4 DEF UserDropsStash
  <2>3. wt' = [wt EXCEPT ![r] = @ \cup stash[r][i]]
    BY <2>1, <2>2 DEF Sound, Typed, TypeOK, GitOK
  <2>4. WorkOnBranches' /\ StashFresh'
    BY <1>1, <2>1, <2>2, <2>3, WorkPopped, StashShrinks, SoundParts
  <2> QED BY <1>2, <2>4, SafePartsNext
<1> QED BY <1>3, <1>4

\* A commit of the user lands on a branch, never on the slice.
LEMMA UserCommitSafe ==
    ASSUME ~Racing, ~DetachedCommits, Sound, NEW r \in Repo, UserCommit(r)
    PROVE  Safe'
<1> DEFINE c == [HeadCommit(r) EXCEPT !.own = @ \cup wt[r]]
<1>1. /\ cmd = "idle" /\ head[r] # "detached"
      /\ UNCHANGED <<journal, cmd, pc, mem, draft, srcs, head, stash, pushed, made>>
  BY DEF UserCommit, InPrimary, userUnchanged
<1>2. head[r] \in Branch /\ head[r] # "slice" /\ refs[r][head[r]] \in Commit
  BY <1>1, SoundParts DEF HeadsOffSlice, TypeOK, GitOK, Control, HeadResolves
<1>3. refs' = [refs EXCEPT ![r][head[r]] = c] /\ wt' = [wt EXCEPT ![r] = {}]
  BY <1>1 DEF UserCommit, ResetHead
<1>4. c # None /\ c.own = refs[r][head[r]].own \cup wt[r]
  <2>1. HeadCommit(r) = refs[r][head[r]] /\ wt[r] \subseteq Item
    BY <1>1 DEF HeadCommit, Sound, Typed, TypeOK, GitOK
  <2>2. c \in Commit /\ c.own = refs[r][head[r]].own \cup wt[r]
    BY <1>2, <2>1 DEF Commit
  <2> QED BY <2>2, NoneAssumption
<1> HIDE DEF c
<1>5. /\ refs'[r][head[r]] = c
      /\ \A b \in Branch : b # head[r] => refs'[r][b] = refs[r][b]
      /\ Elsewhere(r)
  BY <1>1, <1>2, <1>3 DEF Elsewhere, Sound, Typed, TypeOK, GitOK
<1>6. ASSUME NEW x \in Work, Held(x, r)
      PROVE  Held(x, r)'
  <2>1. CASE \E i \in 1..MaxStash : x \in stash[r][i]
    BY <1>1, <2>1 DEF Held
  <2>2. CASE x \in wt[r]
    BY <1>2, <1>4, <1>5, <2>2 DEF Held, Exists
  <2>3. CASE \E b \in Branch : Exists(r, b) /\ x \in refs[r][b].own
    BY <1>2, <1>4, <1>5, <2>3 DEF Held, Exists
  <2> QED BY <1>6, <2>1, <2>2, <2>3 DEF Held
<1>7. WorkOnBranches'
  BY <1>1, <1>5, <1>6, WorkMoves, SoundParts
<1>8. RecordsFine' /\ SrcsOurs' /\ CommandSafe' /\ HeadsOffSlice' /\ StashFresh'
  BY <1>1, WhileIdle, SoundParts DEF HeadsOffSlice, StashFresh
<1>9. SourcesOurs'
  BY <1>2, <1>3, <1>8, SlicesKept
<1> QED BY <1>7, <1>8, <1>9, SafePartsNext

LEMMA UserMovesSafe ==
    ASSUME ~Racing, Sound, NEW r \in Repo,
           UserDetach(r) \/ \E b \in Branch : UserSwitch(r, b)
    PROVE  Safe'
<1>1. /\ cmd = "idle"
      /\ UNCHANGED <<journal, cmd, pc, mem, draft, srcs, refs, wt, stash, pushed, made>>
  BY DEF UserDetach, UserSwitch, InPrimary, userUnchanged
<1>2. RecordsFine' /\ SrcsOurs' /\ CommandSafe' /\ SourcesOurs' /\ StashFresh'
      /\ WorkOnBranches'
  BY <1>1, WhileIdle, WorkUntouched, SoundParts DEF SourcesOurs, SrcsOurs, StashFresh
<1>3. HeadsOffSlice'
  <2>1. CASE UserDetach(r)
    BY <2>1, SoundParts DEF UserDetach, DetachAt, HeadsOffSlice, TypeOK, GitOK
  <2>2. CASE \E b \in Branch : UserSwitch(r, b)
    <3>1. PICK b \in Branch : UserSwitch(r, b)
      BY <2>2
    <3>2. b # "slice"
      <4>1. journal[r] # None => journal[r].temp # "slice"
        BY EntryFields DEF Sound, Typed, TypeOK, JournalOK, Live
      <4> QED BY <3>1, <4>1 DEF UserSwitch
    <3> QED BY <3>1, <3>2, SoundParts DEF UserSwitch, SwitchTo, HeadsOffSlice,
            TypeOK, GitOK
  <2> QED BY <2>1, <2>2
<1> QED BY <1>2, <1>3, SafePartsNext

LEMMA UserBranchesSafe ==
    ASSUME ~Racing, Sound, NEW r \in Repo, UserDeletesPrior(r) \/ UserRecreatesPrior(r)
    PROVE  Safe'
<1>1. /\ cmd = "idle"
      /\ UNCHANGED <<journal, cmd, pc, mem, draft, srcs, head, wt, stash, pushed, made>>
  BY DEF UserDeletesPrior, UserRecreatesPrior, InPrimary, userUnchanged
<1>2. \E b \in Branch : \E c : /\ b # "slice"
                               /\ refs' = [refs EXCEPT ![r][b] = c]
                               /\ refs[r][b] # None => refs[r][b].own = {}
  <2>1. CASE UserDeletesPrior(r)
    BY <2>1 DEF UserDeletesPrior, Branch
  <2>2. CASE UserRecreatesPrior(r)
    <3>1. journal[r].prior \in Branch /\ journal[r].prior # "slice"
      BY <2>2, EntryFields, SoundParts
      DEF UserRecreatesPrior, AllFine, Fine, OffSlice, TypeOK, JournalOK
    <3>2. refs[r][journal[r].prior] = None
          /\ refs' = [refs EXCEPT ![r][journal[r].prior] = journal[r].priorAt]
      BY <2>2 DEF UserRecreatesPrior, Exists
    <3> QED BY <3>1, <3>2, Zenon
  <2> QED BY <2>1, <2>2
<1>3. RecordsFine' /\ SrcsOurs' /\ CommandSafe' /\ HeadsOffSlice' /\ StashFresh'
  BY <1>1, WhileIdle, SoundParts DEF HeadsOffSlice, StashFresh
<1>4. SourcesOurs' /\ WorkOnBranches'
  BY <1>1, <1>2, <1>3, SlicesKept, OursOverwritten, SoundParts
<1> QED BY <1>3, <1>4, SafePartsNext

\* The slice moves at any time, and no primary with it.
LEMMA SourceSafe ==
    ASSUME Sound, NEW r \in Repo, SourceEdit(r) \/ SourceMove(r)
    PROVE  Safe'
<1>1. UNCHANGED <<journal, cmd, pc, cur, todo, mem, draft, srcs, head, at, wt,
                  stash, pushed, made>>
  BY DEF SourceEdit, SourceMove, SourceCommit, SourceReset, userUnchanged
<1>2. RecordsFine' /\ SrcsOurs' /\ HeadsOffSlice' /\ StashFresh'
  BY <1>1, SoundParts DEF RecordsFine, SrcsOurs, HeadsOffSlice, StashFresh
<1>3. /\ refs \in [Repo -> [Branch -> Commit \cup {None}]]
      /\ refs[r]["slice"] \in Commit /\ refs[r]["slice"].own = {} /\ "slice" \in Branch
  BY SoundParts DEF TypeOK, GitOK, Control, SliceExists, SourcesOurs, Branch
<1>4. /\ \A q \in Repo : refs'[q]["slice"].own = {}
      /\ \A q \in Repo : \A b \in Branch : b # "slice" => refs'[q][b] = refs[q][b]
      /\ UNCHANGED refs \/ \E c : refs' = [refs EXCEPT ![r]["slice"] = c]
  <2>1. CASE SourceEdit(r)
    BY <2>1, SoundParts DEF SourceEdit, SourcesOurs
  <2>2. CASE SourceMove(r)
    <3>1. PICK c \in Commit :
            c.own = refs[r]["slice"].own /\ refs' = [refs EXCEPT ![r]["slice"] = c]
      BY <2>2, <1>3, SliceMoved
    <3>2. \A q \in Repo : refs'[q]["slice"] = IF q = r THEN c ELSE refs[q]["slice"]
      BY <1>3, <3>1
    <3> QED BY <1>3, <3>1, <3>2, SoundParts DEF SourcesOurs
  <2> QED BY <2>1, <2>2
<1>5. WorkOnBranches'
  BY <1>1, <1>3, <1>4, OursOverwritten, SoundParts
<1>6. CommandSafe'
  <2>1. ASSUME NEW q \in todo, cmd = "sync", head[q] = mem[q].temp
        PROVE  refs'[q][head[q]] = refs[q][head[q]] /\ head[q] # "detached"
    <3>1. mem[q].temp \in Live /\ q \in Repo
      BY <2>1, EntryFields DEF Sound, Typed, Control, Operands, Listed, TypeOK,
         CommandOK
    <3> QED BY <1>4, <2>1, <3>1 DEF Live, Branch
  <2>2. ASSUME NEW q \in todo, cmd = "sync", ValidMirror(q, mem[q])
        PROVE  ValidMirror(q, mem[q])'
    BY <1>1, <2>1, <2>2 DEF ValidMirror, IsDirty, CaptureSnapshot, HeadCommit
  <2> QED BY <1>1, <2>1, <2>2, SoundParts
          DEF CommandSafe, CleanWhenRecorded, ValidUntilSynced
<1>7. SourcesOurs'
  BY <1>2, <1>4 DEF SourcesOurs, SrcsOurs
<1> QED BY <1>2, <1>5, <1>6, <1>7, SafePartsNext

-----------------------------------------------------------------------------

LEMMA InitSafe == Init => Safe
<1> SUFFICES ASSUME Init PROVE Safe
  OBVIOUS
<1>1. RecordsFine
  BY EmptyFine DEF Init, RecordsFine
<1>2. HeadsOffSlice /\ SourcesOurs /\ StashFresh
  BY DEF Init, HeadsOffSlice, SourcesOurs, StashFresh, Empty, Branch
<1>3. CommandSafe
  BY DEF Init, CommandSafe, CleanWhenRecorded, ValidUntilSynced
<1>4. WorkOnBranches
  BY WorkHeld DEF Init, Held
<1> QED BY <1>1, <1>2, <1>3, <1>4, SafeParts

LEMMA NextSafe ==
    ASSUME ~Racing, ~DetachedCommits, Sound, [Next]_vars
    PROVE  Safe'
<1>1. CASE StartCommand
  BY <1>1, StartsSafe, StartRefreshSafe, MirrorStepsSafe, JournalDroppedSafe,
     DoctorDropsOrphanSafe DEF StartCommand
<1>2. CASE Activate
  BY <1>2, ActivateRepoSafe, RollbacksSafe, StashNotPinnedSafe, SwitchToLiveSafe,
     SwitchToLiveFailsSafe, CaptureBaselineSafe, SavesSafe, EndedCommandsSafe
  DEF Activate
<1>3. CASE Deactivate
  BY <1>3, ClearWorkingMirrorSafe, ClearWorkingMirrorFailsSafe, SavesSafe,
     LoopStepsSafe, EndedCommandsSafe DEF Deactivate
<1>4. CASE Unwinds
  BY <1>4, DeactivateRepoSafe, LoopStepsSafe, RestoreAfterRescueSafe,
     DeleteTempBranchSafe, PopPinnedStashSafe, RollbacksSafe, EndedCommandsSafe
  DEF Unwinds
<1>5. CASE Refresh
  BY <1>5, RefreshRepoSafe, SavesSafe, EndedCommandsSafe DEF Refresh
<1>6. CASE Sync
  BY <1>6, SyncSkipSafe, SyncApplySafe, SyncApplyFailsSafe, SaveSyncedSafe DEF Sync
<1>7. CASE Crash
  BY <1>7, EndedCommandsSafe
<1>8. CASE User
  BY <1>8, UserContentSafe, UserCommitSafe, UserMovesSafe, UserBranchesSafe,
     SourceSafe DEF User
<1>9. CASE SyncRound
  BY <1>9, StartSyncSafe, StartsSafe, MirrorStepsSafe DEF SyncRound
<1>10. CASE UNCHANGED vars
  <2>1. UNCHANGED <<git, made, journal, mem, draft, srcs, cmd, pc, cur, todo>>
    BY <1>10 DEF vars
  <2>2. RecordsFine' /\ SrcsOurs'
    BY <2>1, SoundParts DEF RecordsFine, SrcsOurs
  <2>3. CommandSafe'
    BY <2>1, SoundParts DEF CommandSafe, CleanWhenRecorded, ValidUntilSynced,
       ValidMirror, IsDirty, CaptureSnapshot, HeadCommit
  <2> QED BY <2>1, <2>2, <2>3, GitUntouched
<1> QED BY <1>1, <1>2, <1>3, <1>4, <1>5, <1>6, <1>7, <1>8, <1>9, <1>10
        DEF Next, CommandStep

\* The strengthened invariant: types, control, and everything the engine relies
\* on before it overwrites, moves or deletes anything in a primary.
THEOREM InvariantHolds ==
    ASSUME ~Racing, ~DetachedCommits
    PROVE  Spec => []SafeInvariant
<1>1. Init => Sound
  BY InitTyped, InitSafe DEF Sound
<1>2. Sound /\ [Next]_vars => Sound'
  <2>1. Sound /\ [Next]_vars => Typed'
    BY NextTyped DEF Sound
  <2> QED BY <2>1, NextSafe DEF Sound
<1>3. Sound => SafeInvariant
  BY DEF Sound, Typed, SafeInvariant
<1> QED BY <1>1, <1>2, <1>3, PTL DEF Spec

\* No command, failure of git, failed journal write or kill at any step loses
\* work the user did in a primary, for any number of repositories and any
\* number of faults (engine.go:599-623, live_apply.go:188-217).
THEOREM WorkSafe ==
    ASSUME ~Racing, ~DetachedCommits
    PROVE  Spec => []WorkNeverLost
<1>1. SafeInvariant => WorkNeverLost
  BY Zenon DEF SafeInvariant, Safe, WorkOnBranches, WorkNeverLost, KeptOnBranches, Kept
<1> QED BY <1>1, InvariantHolds, PTL

=============================================================================
