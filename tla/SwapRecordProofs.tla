---------------------------- MODULE SwapRecordProofs ----------------------------
(***************************************************************************)
(* What the journal is worth: an entry stands in it for as long as its     *)
(* primary is swapped in, only a fault leaves a live branch without one,   *)
(* and what it says of that branch is so.  As in SwapSafetyProofs, the     *)
(* user leaves the primaries alone while a command runs (~Racing).         *)
(***************************************************************************)
EXTENDS SwapSafetyProofs, FiniteSetTheorems

USE DEF git, disk, loop, ghosts

\* The part of Recorded that the other parts rest on.
Booked == JournalRemembered /\ OneAhead /\ EntriesOffTemp /\ UnwindTracked
InOrder == Sound /\ Booked

-----------------------------------------------------------------------------
(* Steps that leave the records alone, and the ends and starts of commands. *)

LEMMA EmptyOffTemp == OffTemp(None) /\ \A r \in Repo : Empty[r] = None /\ OffTemp(Empty[r])
BY DEF OffTemp, Empty

LEMMA RecordsUntouched ==
    ASSUME Booked,
           UNCHANGED <<journal, cmd, pc, cur, todo, mem, draft, failed, head, stash>>
    PROVE  Booked'
BY DEF Booked, JournalRemembered, OneAhead, EntriesOffTemp, UnwindTracked, Ahead,
       Undone, Undoing, Unwinding, BackOff, Entries, SameSwap

\* No command runs.
LEMMA IdleBooked ==
    ASSUME cmd' = "idle", pc' = "idle", mem' = Empty, draft' = None, failed' = {},
           \A r \in Repo : OffTemp(journal'[r])
    PROVE  Booked'
<1>1. JournalRemembered' /\ OneAhead'
  BY DEF JournalRemembered, OneAhead, Ahead, Entries, Empty
<1>2. EntriesOffTemp' /\ UnwindTracked'
  BY EmptyOffTemp DEF EntriesOffTemp, UnwindTracked, Undone, Undoing, Unwinding
<1> QED BY <1>1, <1>2 DEF Booked

LEMMA EndBooked ==
    ASSUME EndOfCommand, \A r \in Repo : OffTemp(journal'[r])
    PROVE  Booked'
BY IdleBooked DEF EndOfCommand

LEMMA RestBooked ==
    ASSUME InOrder, cmd = "idle", UNCHANGED <<cmd, pc, cur, todo, mem, draft, failed>>,
           \A r \in Repo : OffTemp(journal'[r])
    PROVE  Booked'
<1>1. pc = "idle" /\ mem = Empty
  BY DEF InOrder, Sound, Typed, Control, PcFitsCommand, Booked, OneAhead
<1>2. failed = {}
  BY <1>1 DEF InOrder, Booked, UnwindTracked, Undoing, Unwinding
<1>3. OneAhead' /\ JournalRemembered' /\ UnwindTracked'
  BY <1>1, <1>2 DEF OneAhead, Ahead, Entries, Empty, JournalRemembered, UnwindTracked,
     Undone, Undoing, Unwinding
<1> QED BY <1>1, <1>3 DEF InOrder, Booked, EntriesOffTemp

LEMMA BeginBooked ==
    ASSUME InOrder, NEW c \in {"deactivate", "force", "refresh", "sync"}, NEW p, NEW S,
           Begin(c, p, journal, S), UNCHANGED journal,
           c \in {"deactivate", "force"} => p \in {"clear", "drifted"},
           p \in {"clear", "drifted", "repo"}
    PROVE  Booked'
<1>1. cmd' = c /\ pc' = p /\ mem' = journal /\ draft' = None /\ failed' = {}
  BY DEF Begin
<1>2. JournalRemembered' /\ OneAhead'
  BY <1>1 DEF JournalRemembered, OneAhead, Ahead, Entries, SameSwap
<1>3. EntriesOffTemp' /\ UnwindTracked'
  BY <1>1, EmptyOffTemp DEF InOrder, Booked, EntriesOffTemp, UnwindTracked, Undone,
     Undoing, Unwinding
<1> QED BY <1>2, <1>3 DEF Booked
\* It turns to undoing what was done: nothing of it is undone yet.
LEMMA UnwindBooked ==
    ASSUME InOrder, NEW c \in {"undo", "rollback"}, NEW j, NEW S, Unwind(c, j, S),
           UNCHANGED journal,
           \A r \in Repo : OffTemp(j[r]),
           \A r \in Entries(journal) : j[r] = journal[r],
           \A r, s \in Entries(j) \ Entries(journal) : r = s,
           Entries(j) \subseteq S \/ (c = "undo" /\ Entries(j) \ Entries(journal) \subseteq S)
    PROVE  Booked'
<1>1. cmd' = c /\ pc' = "repo" /\ mem' = j /\ todo' = S /\ draft' = None /\ failed' = {}
  BY DEF Unwind
<1>2. JournalRemembered' /\ OneAhead'
  BY <1>1 DEF JournalRemembered, OneAhead, Ahead, Entries, SameSwap
<1>3. EntriesOffTemp'
  BY <1>1, EmptyOffTemp DEF InOrder, Booked, EntriesOffTemp
<1>4. ASSUME NEW r \in Repo PROVE ~Undone(r)'
  BY <1>1 DEF Undone, Ahead, Entries
<1>5. UnwindTracked'
  BY <1>1, <1>4 DEF UnwindTracked
<1> QED BY <1>2, <1>3, <1>5 DEF Booked

\* While a command does not change what it remembers, and the journal keeps it.
LEMMA MemoryKept ==
    ASSUME InOrder, cmd # "activate", UNCHANGED <<journal, cmd, mem, draft>>,
           pc' \in {"cleared", "refreshed", "synced"} \/ pc \notin {"cleared", "refreshed", "synced"},
           pc' \in {"cleared", "refreshed", "synced"} => UNCHANGED cur
    PROVE  JournalRemembered' /\ OneAhead' /\ EntriesOffTemp'
<1>1. JournalRemembered'
  BY DEF InOrder, Booked, JournalRemembered, Entries
<1>2. OneAhead' /\ EntriesOffTemp'
  BY DEF InOrder, Booked, OneAhead, EntriesOffTemp, Ahead, Entries
<1> QED BY <1>1, <1>2

-----------------------------------------------------------------------------
(* activate                                                                *)

LEMMA ActivateMemory ==
    ASSUME InOrder, cmd = "activate"
    PROVE  /\ \A r \in Repo : journal[r] # None => mem[r] = journal[r]
           /\ \A r \in Entries(mem) : r \in todo \cup Ahead => r = cur /\ pc = "journal"
           /\ Repo = todo \cup Entries(mem) /\ failed = {}
BY DEF InOrder, Booked, JournalRemembered, OneAhead, UnwindTracked, Undoing, Unwinding,
       Entries, Sound, Typed, Control, PcFitsCommand

LEMMA StartActivateBooked ==
    ASSUME InOrder, NEW f \in BOOLEAN, StartActivate(f)
    PROVE  Booked'
<1>1. /\ cmd' = "activate" /\ pc' = "repo" /\ mem' = Empty /\ todo' = Repo
      /\ draft' = None /\ failed' = {} /\ Entries(journal) = {} /\ UNCHANGED journal
  BY DEF StartActivate, Begin
<1>2. JournalRemembered' /\ OneAhead'
  BY <1>1 DEF JournalRemembered, OneAhead, Ahead, Entries, Empty
<1>3. EntriesOffTemp' /\ UnwindTracked'
  BY <1>1, EmptyOffTemp DEF InOrder, Booked, EntriesOffTemp, UnwindTracked, Undone,
     Undoing, Unwinding
<1> QED BY <1>2, <1>3 DEF Booked

LEMMA ActivateRepoBooked ==
    ASSUME InOrder, NEW r \in Repo, ActivateRepo(r)
    PROVE  Booked'
<1>1. /\ cmd = "activate" /\ pc = "repo" /\ r \in todo /\ ~Exists(r, opt.live)
      /\ draft'.prior = head[r] /\ draft'.temp = opt.live
      /\ cur' = r /\ pc' = "switch"
      /\ UNCHANGED <<journal, cmd, mem, todo, failed>>
  BY DEF ActivateRepo
<1>2. OffTemp(draft')
  <2>1. HeadResolves /\ opt.live \in Live /\ opt.live # "detached"
    BY DEF InOrder, Sound, Typed, TypeOK, CommandOK, Control, Live
  <2>2. head[r] # opt.live
    BY <1>1, <2>1, NoneAssumption DEF HeadResolves, Exists
  <2> QED BY <1>1, <2>2 DEF OffTemp
<1>3. JournalRemembered' /\ OneAhead' /\ EntriesOffTemp'
  BY <1>1, <1>2, ActivateMemory DEF InOrder, Booked, JournalRemembered, OneAhead,
     EntriesOffTemp, Ahead, Entries, SameSwap
<1>4. UnwindTracked'
  BY <1>1, ActivateMemory DEF UnwindTracked, Undone, Undoing, Unwinding
<1> QED BY <1>3, <1>4 DEF Booked

\* The activation is rolled back: what it remembers is to be undone.
LEMMA RollbackBooked ==
    ASSUME InOrder, cmd = "activate", Unwind("rollback", mem, Entries(mem)), UNCHANGED journal
    PROVE  Booked'
<1>1. \A r \in Repo : OffTemp(mem[r])
  BY DEF InOrder, Booked, EntriesOffTemp
<1>2. /\ \A r \in Entries(journal) : mem[r] = journal[r]
      /\ \A r, s \in Entries(mem) \ Entries(journal) : r = s
  BY ActivateMemory DEF InOrder, Booked, OneAhead, Ahead, Entries
<1> QED BY <1>1, <1>2, UnwindBooked

LEMMA RollbacksBooked ==
    ASSUME InOrder,
           \/ \E r \in Repo : ActivateRefused(r) \/ StashNotPinned(r)
           \/ SwitchToLiveFails \/ JournalActivatedFails
    PROVE  Booked'
<1>1. cmd = "activate"
  BY DEF ActivateRefused, StashNotPinned, SwitchToLiveFails, JournalActivatedFails,
     InOrder, Sound, Typed, Control, PcFitsCommand
<1>2. Unwind("rollback", mem, Entries(mem)) /\ UNCHANGED journal
  BY DEF ActivateRefused, StashNotPinned, SwitchToLiveFails, JournalActivatedFails
<1> QED BY <1>1, <1>2, RollbackBooked

\* A repository of an activation that is not saved yet.
LEMMA InActivation ==
    ASSUME InOrder, pc \in {"switch", "baseline"}
    PROVE  /\ cmd = "activate" /\ cur \in Repo /\ cur \in todo
           /\ mem[cur] = None /\ journal[cur] = None /\ Ahead = {} /\ draft \in Entry
<1>1. cmd = "activate" /\ cur \in Repo /\ cur \in todo /\ draft \in Entry
  BY DEF InOrder, Sound, Typed, Control, PcFitsCommand, Operands, RepoSteps, TypeOK,
     CommandOK
<1>2. mem[cur] = None
  BY <1>1, ActivateMemory DEF Entries
<1>3. Ahead = {}
  BY <1>1, ActivateMemory DEF Ahead
<1> QED BY <1>1, <1>2, <1>3, ActivateMemory

\* It has switched, and is remembered before it is saved.
LEMMA RememberBooked ==
    ASSUME InOrder, pc \in {"switch", "baseline"}, NEW e \in Entry, OffTemp(e),
           mem' = [mem EXCEPT ![cur] = e], pc' = "journal", draft' = None,
           UNCHANGED <<journal, cmd, cur, todo, failed>>
    PROVE  Booked'
<1>1. \A r \in Repo : mem'[r] = IF r = cur THEN e ELSE mem[r]
  BY DEF InOrder, Sound, Typed, TypeOK, CommandOK
<1>2. e # None /\ cmd' = "activate" /\ failed' = {}
  BY InActivation, ActivateMemory, NoneAssumption
<1>3. Ahead' = {cur}
  BY <1>1, <1>2, InActivation DEF Ahead, Entries
<1>4. JournalRemembered' /\ OneAhead'
  <2>1. JournalRemembered'
    BY <1>1, <1>2, InActivation DEF InOrder, Booked, JournalRemembered, Entries, SameSwap
  <2>2. Repo = todo' \cup Entries(mem)'
    BY <1>1, InActivation, ActivateMemory DEF Entries
  <2>3. \A r \in Entries(mem') : r \in todo' \cup Ahead' => r = cur'
    BY <1>1, <1>3, InActivation, ActivateMemory DEF Entries
  <2> QED BY <1>2, <1>3, <2>1, <2>2, <2>3 DEF OneAhead
<1>5. EntriesOffTemp' /\ UnwindTracked'
  BY <1>1, <1>2, EmptyOffTemp DEF InOrder, Booked, EntriesOffTemp, UnwindTracked, Undone,
     Undoing, Unwinding
<1> QED BY <1>4, <1>5 DEF Booked

LEMMA SwitchToLiveBooked ==
    ASSUME InOrder, SwitchToLive
    PROVE  Booked'
<1>1. CASE cur \in Mirrored
  <2>1. pc = "switch" /\ pc' = "baseline"
        /\ UNCHANGED <<journal, cmd, cur, mem, draft, todo, failed>>
    BY <1>1 DEF SwitchToLive
  <2>2. JournalRemembered' /\ OneAhead' /\ EntriesOffTemp'
    BY <2>1, InActivation, ActivateMemory DEF InOrder, Booked, JournalRemembered, OneAhead,
       EntriesOffTemp, Ahead, Entries, SameSwap
  <2>3. UnwindTracked'
    BY <2>1, InActivation, ActivateMemory DEF UnwindTracked, Undone, Undoing, Unwinding
  <2> QED BY <2>2, <2>3 DEF Booked
<1>2. CASE cur \notin Mirrored
  <2>1. OffTemp(draft)
    BY DEF InOrder, Booked, EntriesOffTemp
  <2> QED BY <1>2, <2>1, InActivation, RememberBooked DEF SwitchToLive
<1> QED BY <1>1, <1>2

LEMMA CaptureBaselineBooked ==
    ASSUME InOrder, CaptureBaseline
    PROVE  Booked'
<1> DEFINE e == [draft EXCEPT !.mirror = CaptureSnapshot(cur)]
<1>1. pc = "baseline" /\ draft \in Entry /\ draft # None
  BY InActivation, NoneAssumption DEF CaptureBaseline
<1>2. CaptureSnapshot(cur) \in Snapshot
  BY <1>1, InActivation, SnapshotTyped DEF InOrder, Sound, Typed, TypeOK, Control
<1>3. e \in Entry /\ e.prior = draft.prior /\ e.temp = draft.temp
  BY <1>1, <1>2, EntryUpdate DEF Entry
<1>4. OffTemp(e)
  BY <1>1, <1>3 DEF InOrder, Booked, EntriesOffTemp, OffTemp
<1> HIDE DEF e
<1>5. mem' = [mem EXCEPT ![cur] = e]
  BY DEF CaptureBaseline, e
<1> QED BY <1>1, <1>3, <1>4, <1>5, RememberBooked DEF CaptureBaseline

LEMMA CaptureBaselineFailsBooked ==
    ASSUME InOrder, CaptureBaselineFails
    PROVE  Booked'
<1> DEFINE j == [mem EXCEPT ![cur] = draft]
<1>1. pc = "baseline" /\ Unwind("undo", j, {cur}) /\ UNCHANGED journal
  BY DEF CaptureBaselineFails
<1>2. \A r \in Repo : j[r] = IF r = cur THEN draft ELSE mem[r]
  BY DEF InOrder, Sound, Typed, TypeOK, CommandOK
<1> HIDE DEF j
<1>3. \A r \in Repo : OffTemp(j[r])
  BY <1>2 DEF InOrder, Booked, EntriesOffTemp
<1>4. \A r \in Entries(journal) : j[r] = journal[r]
  BY <1>1, <1>2, InActivation, ActivateMemory DEF Entries
<1>5. Entries(j) \ Entries(journal) \subseteq {cur}
  BY <1>1, <1>2, InActivation DEF Entries, Ahead
<1> QED BY <1>1, <1>3, <1>4, <1>5, UnwindBooked

LEMMA JournalActivatedBooked ==
    ASSUME InOrder, JournalActivated
    PROVE  Booked'
<1>1. /\ cmd = "activate" /\ journal' = mem /\ pc' = "repo" /\ todo' = todo \ {cur}
      /\ UNCHANGED <<cmd, mem, draft, failed>> /\ cur \in Entries(mem)
  BY NoneAssumption DEF JournalActivated, InOrder, Sound, Typed, Control, Operands, Entries,
     TypeOK, CommandOK, RepoSteps
<1>2. JournalRemembered' /\ OneAhead'
  BY <1>1, ActivateMemory DEF JournalRemembered, OneAhead, Ahead, Entries, SameSwap
<1>3. EntriesOffTemp' /\ UnwindTracked'
  BY <1>1, ActivateMemory DEF InOrder, Booked, EntriesOffTemp, UnwindTracked, Undone,
     Undoing, Unwinding
<1> QED BY <1>2, <1>3 DEF Booked

-----------------------------------------------------------------------------
(* deactivateRepo                                                          *)

\* The repository that is being undone.
AtWork(q) == q \in todo /\ (pc = "repo" \/ q = cur)

LEMMA UndoingParts ==
    ASSUME InOrder, Undoing
    PROVE  /\ cmd # "activate" /\ cmd # "idle"
           /\ pc \notin {"cleared", "refreshed", "synced"}
           /\ pc # "repo" => cur \in todo
           /\ \A r \in todo : r \in Repo /\ mem[r] \in Entry /\ mem[r] # None
                              /\ r \notin failed
BY NoneAssumption DEF InOrder, Sound, Typed, TypeOK, CommandOK, Control, Operands, RepoSteps,
   Listed, Booked, UnwindTracked, Undoing, Unwinding

\* One step of the loop on q: it goes on with q, refuses q, or is done with q.
LEMMA UndoStepBooked ==
    ASSUME InOrder, Undoing, NEW q \in todo,
           UNCHANGED <<journal, cmd, mem, draft>>,
           \A r \in Repo \ {q} : head'[r] = head[r] /\ stash'[r] = stash[r],
           \/ /\ RepoGoesOn(q, pc') /\ pc' \in {"restore", "delete", "pop"}
              /\ pc' = "restore" => cmd = "force"
              /\ pc' # "restore" => BackOff(q)'
           \/ RepoFails(q)
           \/ /\ RepoDone(q) /\ BackOff(q)'
              /\ mem[q].stash # 0 => stash'[q][mem[q].stash] = {}
    PROVE  Booked'
<1>1. Undoing' /\ pc' \in {"repo", "restore", "delete", "pop"}
  BY DEF RepoGoesOn, RepoFails, RepoDone, Undoing, Unwinding
<1>2. JournalRemembered' /\ OneAhead' /\ EntriesOffTemp'
  BY <1>1, UndoingParts, MemoryKept
<1>3. /\ failed' \in {failed, failed \cup {q}} /\ todo' \in {todo, todo \ {q}}
      /\ failed' \cap todo' = {} /\ failed' \subseteq Entries(mem)
  BY UndoingParts DEF RepoGoesOn, RepoFails, RepoDone, InOrder, Booked, UnwindTracked, Entries
<1>4. /\ pc' = "restore" => cmd' = "force"
      /\ pc' \in {"delete", "pop"} => cur' = q /\ BackOff(q)'
  BY DEF RepoGoesOn, RepoFails, RepoDone
<1>5. ASSUME NEW r \in Repo, Undone(r)'
      PROVE  BackOff(r)' /\ (mem'[r].stash # 0 => stash'[r][mem'[r].stash] = {})
  <2>1. CASE r = q
    BY <1>5, <2>1, UndoingParts DEF RepoGoesOn, RepoFails, RepoDone, Undone
  <2>2. CASE r # q
    <3>1. Undone(r)
      BY <1>3, <1>5, <2>2 DEF Undone, Ahead, Entries, RepoGoesOn, RepoFails, RepoDone
    <3> QED BY <2>2, <3>1 DEF InOrder, Booked, UnwindTracked, BackOff
  <2> QED BY <2>1, <2>2
<1>6. Entries(mem') = Entries(mem)
  BY DEF Entries
<1>7. UnwindTracked'
  BY <1>1, <1>3, <1>4, <1>5, <1>6 DEF UnwindTracked, BackOff
<1> QED BY <1>2, <1>7 DEF Booked

LEMMA RestoresPrior ==
    ASSUME Typed, NEW r \in Repo, mem[r] \in Entry, RestorePriorBranch(r)
    PROVE  /\ head'[r] \in {mem[r].prior, "detached"}
           /\ \A q \in Repo \ {r} : head'[q] = head[q] /\ at'[q] = at[q]
BY DEF RestorePriorBranch, SwitchTo, DetachAt, Typed, TypeOK, GitOK

LEMMA DeactivateRepoBooked ==
    ASSUME InOrder, NEW r \in Repo, DeactivateRepo(r)
    PROVE  Booked'
<1>1. /\ Undoing /\ r \in todo /\ UNCHANGED <<journal, cmd, mem, draft, stash>>
  BY DEF DeactivateRepo, Undoing
<1>2. mem[r] \in Entry /\ Typed
  BY <1>1, UndoingParts DEF InOrder, Sound
<1>3. CASE /\ head[r] = mem[r].prior /\ RepoGoesOn(r, "pop") /\ UNCHANGED head
  <2>1. BackOff(r)' /\ pc' = "pop"
    BY <1>1, <1>3 DEF BackOff, RepoGoesOn
  <2> QED BY <1>1, <1>3, <2>1, UndoStepBooked
<1>4. CASE RestorePriorBranch(r) /\ (RepoGoesOn(r, "pop") \/ RepoGoesOn(r, "delete"))
  <2>1. BackOff(r)' /\ pc' \in {"pop", "delete"} /\ RepoGoesOn(r, pc')
    BY <1>1, <1>2, <1>4, RestoresPrior DEF BackOff, RepoGoesOn
  <2>2. \A q \in Repo \ {r} : head'[q] = head[q]
    BY <1>2, <1>4, RestoresPrior
  <2> QED BY <1>1, <1>4, <2>1, <2>2, UndoStepBooked
<1>5. CASE cmd = "force" /\ SwitchTo(r, "rescue") /\ RepoGoesOn(r, "restore")
  <2>1. pc' = "restore" /\ \A q \in Repo \ {r} : head'[q] = head[q]
    BY <1>2, <1>5 DEF RepoGoesOn, SwitchTo, Typed, TypeOK, GitOK
  <2> QED BY <1>1, <1>5, <2>1, UndoStepBooked
<1> QED BY <1>3, <1>4, <1>5 DEF DeactivateRepo

LEMMA DeactivateRepoFailsBooked ==
    ASSUME InOrder, NEW r \in Repo, DeactivateRepoFails(r)
    PROVE  Booked'
<1>1. /\ Undoing /\ r \in todo /\ UNCHANGED <<journal, cmd, mem, draft, head, stash>>
      /\ RepoFails(r)
  BY DEF DeactivateRepoFails, Undoing
<1> QED BY <1>1, UndoStepBooked

LEMMA AtStep ==
    ASSUME InOrder, pc \in {"restore", "delete", "pop"}
    PROVE  /\ Undoing /\ cur \in todo /\ cur \in Repo /\ mem[cur] \in Entry /\ Typed
           /\ pc \in {"delete", "pop"} => BackOff(cur)
<1>1. Undoing
  BY DEF Undoing, InOrder, Sound, Typed, Control, PcFitsCommand
<1> QED BY <1>1, UndoingParts DEF InOrder, Sound, Booked, UnwindTracked

LEMMA RestoreAfterRescueBooked ==
    ASSUME InOrder, RestoreAfterRescue
    PROVE  Booked'
<1>1. pc = "restore" /\ UNCHANGED <<journal, cmd, mem, draft, stash>>
  BY DEF RestoreAfterRescue
<1>2. CASE RestorePriorBranch(cur) /\ RepoGoesOn(cur, "pop")
  <2>1. BackOff(cur)' /\ pc' = "pop" /\ UNCHANGED cur
    BY <1>1, <1>2, AtStep, RestoresPrior DEF BackOff, RepoGoesOn
  <2>2. \A q \in Repo \ {cur} : head'[q] = head[q]
    BY <1>1, <1>2, AtStep, RestoresPrior
  <2> QED BY <1>1, <1>2, <2>1, <2>2, AtStep, UndoStepBooked DEF BackOff
<1>3. CASE RepoFails(cur) /\ UNCHANGED head
  BY <1>1, <1>3, AtStep, UndoStepBooked
<1> QED BY <1>2, <1>3 DEF RestoreAfterRescue

LEMMA DeleteTempBranchBooked ==
    ASSUME InOrder, DeleteTempBranch
    PROVE  Booked'
<1>1. pc = "delete" /\ UNCHANGED <<journal, cmd, mem, draft, stash, head>>
  BY DEF DeleteTempBranch
<1>2. CASE RepoGoesOn(cur, "pop")
  <2>1. BackOff(cur)' /\ pc' = "pop" /\ UNCHANGED cur
    BY <1>1, <1>2, AtStep DEF BackOff, RepoGoesOn
  <2> QED BY <1>1, <1>2, <2>1, AtStep, UndoStepBooked DEF BackOff
<1>3. CASE RepoFails(cur)
  BY <1>1, <1>3, AtStep, UndoStepBooked
<1> QED BY <1>2, <1>3 DEF DeleteTempBranch

LEMMA PopPinnedStashBooked ==
    ASSUME InOrder, PopPinnedStash
    PROVE  Booked'
<1> DEFINE id == mem[cur].stash
           items == IF id = 0 THEN {} ELSE stash[cur][id]
<1>1. pc = "pop" /\ UNCHANGED <<journal, cmd, mem, draft, head>>
  BY DEF PopPinnedStash
<1>2. id \in 0..MaxStash /\ MaxStash \in Nat /\ stash \in [Repo -> [1..MaxStash -> SUBSET Item]]
  BY <1>1, AtStep, EntryFields, ConstantsAssumption DEF Typed, TypeOK, GitOK
<1>3. CASE RepoFails(cur) /\ UNCHANGED stash
  BY <1>1, <1>3, AtStep, UndoStepBooked
<1>4. CASE RepoDone(cur) /\ stash' = [stash EXCEPT ![cur][id] = {}] /\ items # {}
  <2>1. id # 0 /\ id \in 1..MaxStash
    BY <1>2, <1>4
  <2>2. stash'[cur][id] = {} /\ \A r \in Repo \ {cur} : stash'[r] = stash[r]
    BY <1>1, <1>2, <1>4, <2>1, AtStep
  <2> QED BY <1>1, <1>4, <2>2, AtStep, UndoStepBooked DEF BackOff
<1>5. CASE RepoDone(cur) /\ id = 0 /\ UNCHANGED stash
  BY <1>1, <1>5, AtStep, UndoStepBooked DEF BackOff
<1> QED BY <1>3, <1>4, <1>5 DEF PopPinnedStash

\* What could not be undone is kept, and what was saved before it.
LEMMA FinishUndoBooked ==
    ASSUME InOrder, FinishUndo
    PROVE  Booked'
<1> DEFINE kept == Only(mem, failed \cup Entries(journal))
<1>1. Unwind("rollback", kept, Entries(kept)) /\ UNCHANGED journal
  BY DEF FinishUndo
<1>2. \A r \in Repo : kept[r] = IF r \in failed \cup Entries(journal) THEN mem[r] ELSE None
  BY DEF Only
<1> HIDE DEF kept
<1>3. \A r \in Repo : OffTemp(kept[r])
  BY <1>2, EmptyOffTemp DEF InOrder, Booked, EntriesOffTemp
<1>4. \A r \in Entries(journal) : kept[r] = journal[r]
  BY <1>2 DEF FinishUndo, InOrder, Booked, JournalRemembered, Entries
<1>5. \A r, s \in Entries(kept) \ Entries(journal) : r = s
  BY <1>2 DEF InOrder, Booked, OneAhead, Ahead, Entries
<1> QED BY <1>1, <1>3, <1>4, <1>5, UnwindBooked

-----------------------------------------------------------------------------
(* Steps that save, and steps between two saves.                           *)

\* The entry of one repository is changed in memory.
LEMMA EntryMoves ==
    ASSUME InOrder, cmd \in {"deactivate", "force", "refresh", "sync"}, NEW q \in Entries(mem),
           NEW e, e # None, SameSwap(mem[q], e), mem' = [mem EXCEPT ![q] = e],
           pc \notin {"cleared", "refreshed", "synced"}, failed = {}, UNCHANGED failed,
           pc' \in {"cleared", "refreshed", "synced"}, cur' = q,
           UNCHANGED <<journal, cmd, todo, draft>>
    PROVE  Booked'
<1>1. \A r \in Repo : mem'[r] = IF r = q THEN e ELSE mem[r]
  BY DEF InOrder, Sound, Typed, TypeOK, CommandOK
<1>2. Entries(mem)' = Entries(mem) /\ Ahead' = Ahead /\ q \in Repo
  BY <1>1 DEF Ahead, Entries
<1>3. JournalRemembered'
  BY <1>1, <1>2 DEF InOrder, Booked, JournalRemembered, SameSwap, Entries
<1>4. OneAhead' /\ EntriesOffTemp'
  BY <1>1, <1>2 DEF InOrder, Booked, OneAhead, EntriesOffTemp, OffTemp, SameSwap, Entries
<1>5. UnwindTracked'
  BY DEF InOrder, Booked, UnwindTracked, Undone, Undoing
<1> QED BY <1>3, <1>4, <1>5 DEF Booked

\* It is saved.
LEMMA MemorySaved ==
    ASSUME InOrder, pc \in {"cleared", "refreshed", "synced"}, journal' = mem,
           pc' \in {"clear", "repo"}, pc' = "repo" => cmd \in {"refresh", "sync"},
           UNCHANGED <<cmd, mem, draft, failed>>, todo' \subseteq todo
    PROVE  Booked'
<1>1. cmd \in {"deactivate", "force", "refresh", "sync"} /\ failed = {}
  BY DEF InOrder, Sound, Typed, Control, PcFitsCommand, Booked, UnwindTracked, Undoing
<1>2. JournalRemembered' /\ OneAhead'
  BY <1>1 DEF JournalRemembered, OneAhead, Ahead, Entries, SameSwap
<1>3. EntriesOffTemp' /\ UnwindTracked'
  BY <1>1 DEF InOrder, Booked, EntriesOffTemp, UnwindTracked, Undone, Undoing, Unwinding
<1> QED BY <1>2, <1>3 DEF Booked

LEMMA SavesBooked ==
    ASSUME InOrder, SaveCleared \/ SaveRefreshed \/ SaveSynced
    PROVE  Booked'
<1>1. \A r \in Repo : OffTemp(journal[r])
  BY DEF InOrder, Booked, EntriesOffTemp
<1>2. CASE Quit /\ UNCHANGED journal
  BY <1>1, <1>2, EndBooked DEF Quit
<1>3. pc = "refreshed" => cmd = "refresh"
  BY DEF InOrder, Sound, Typed, Control, PcFitsCommand
<1>4. pc = "synced" => cmd = "sync"
  BY DEF InOrder, Sound, Typed, Control, PcFitsCommand
<1>5. CASE journal' = mem /\ ~Quit
  <2>1. /\ pc \in {"cleared", "refreshed", "synced"} /\ pc' \in {"clear", "repo"}
        /\ pc' = "repo" => cmd \in {"refresh", "sync"}
        /\ UNCHANGED <<cmd, mem, draft, failed>> /\ todo' \subseteq todo
    BY <1>3, <1>4, <1>5 DEF SaveCleared, SaveRefreshed, SaveSynced
  <2> QED BY <1>5, <2>1, MemorySaved
<1>6. CASE journal' = mem /\ Quit
  BY <1>6, EndBooked DEF Quit, InOrder, Booked, EntriesOffTemp
<1> QED BY <1>2, <1>5, <1>6 DEF SaveCleared, SaveRefreshed, SaveSynced

LEMMA ClearWorkingMirrorBooked ==
    ASSUME InOrder, NEW r \in Repo, ClearWorkingMirror(r)
    PROVE  Booked'
<1>1. /\ pc = "clear" /\ r \in todo /\ pc' = "cleared" /\ cur' = r
      /\ mem' = [mem EXCEPT ![r].mirror = None]
      /\ UNCHANGED <<journal, cmd, todo, draft, failed>>
  BY DEF ClearWorkingMirror
<1>2. cmd \in {"deactivate", "force"} /\ mem[r] \in Entry /\ failed = {}
  BY <1>1 DEF InOrder, Sound, Typed, Control, PcFitsCommand, Operands, Listed, Booked,
     UnwindTracked, Undoing
<1> DEFINE e == [mem[r] EXCEPT !.mirror = None]
<1>3. e \in Entry /\ SameSwap(mem[r], e) /\ mem[r] # None /\ e # None
  <2>1. e \in Entry
    BY <1>2, EntryFields, EntryUpdate
  <2>2. SameSwap(mem[r], e)
    BY <1>2 DEF SameSwap, Entry
  <2> QED BY <1>2, <2>1, <2>2, NoneAssumption
<1>4. mem' = [mem EXCEPT ![r] = e]
  BY <1>1
<1> HIDE DEF e
<1>5. r \in Entries(mem)
  BY <1>3 DEF Entries
<1> QED BY <1>1, <1>2, <1>3, <1>4, <1>5, EntryMoves

\* The entry gets another target and another mirror.
LEMMA TargetMoves ==
    ASSUME InOrder, Typed', cmd \in {"refresh", "sync"}, pc = "repo", NEW r \in todo,
           NEW c, NEW m,
           mem' = [mem EXCEPT ![r].target = c, ![r].mirror = m],
           pc' \in {"refreshed", "synced"}, cur' = r,
           UNCHANGED <<journal, cmd, todo, draft, failed>>
    PROVE  /\ Booked'
           /\ r \in Repo /\ mem[r] \in Entry
           /\ SameSwap(mem[r], mem'[r]) /\ mem'[r].target = c /\ mem'[r] # None
           /\ \A q \in Repo \ {r} : mem'[q] = mem[q]
<1>1. /\ r \in Repo /\ mem[r] \in Entry /\ mem[r] # None /\ failed = {}
      /\ mem \in [Repo -> Entry \cup {None}]
  BY NoneAssumption DEF InOrder, Sound, Typed, TypeOK, CommandOK, Control, Operands, Listed,
     Booked, UnwindTracked, Undoing, Unwinding
<1> DEFINE e == [mem[r] EXCEPT !.target = c, !.mirror = m]
<1>2. SameSwap(mem[r], e) /\ e.target = c
  BY <1>1 DEF SameSwap, Entry
<1>3. mem' = [mem EXCEPT ![r] = e]
  BY <1>1
<1> HIDE DEF e
<1>4. mem'[r] = e /\ \A q \in Repo \ {r} : mem'[q] = mem[q]
  BY <1>1, <1>3
<1>5. e # None
  BY <1>4, NoneAssumption DEF Typed, Control, Operands, Listed
<1> QED BY <1>1, <1>2, <1>3, <1>4, <1>5, EntryMoves DEF Entries

LEMMA TargetStepsBooked ==
    ASSUME InOrder, Typed', \E r \in Repo : RefreshRepo(r) \/ SyncApply(r)
    PROVE  Booked'
<1>1. CASE \E r \in Repo : RefreshRepo(r)
  <2>1. PICK r \in Repo : RefreshRepo(r)
    BY <1>1
  <2>2. /\ cmd = "refresh" /\ pc = "repo" /\ r \in todo /\ pc' = "refreshed" /\ cur' = r
        /\ \E m : mem' = [mem EXCEPT ![r].target = srcs[r].at, ![r].mirror = m]
        /\ UNCHANGED <<journal, cmd, todo, draft, failed>>
    BY <2>1 DEF RefreshRepo
  <2> QED BY <2>2, TargetMoves
<1>2. CASE \E r \in Repo : SyncApply(r)
  <2>1. PICK r \in Repo : SyncApply(r)
    BY <1>2
  <2>2. /\ cmd = "sync" /\ pc = "repo" /\ r \in todo /\ pc' = "synced" /\ cur' = r
        /\ mem' = [mem EXCEPT ![r].target = srcs[r].at, ![r].mirror = srcs[r]]
        /\ UNCHANGED <<journal, cmd, todo, draft, failed>>
    BY <2>1 DEF SyncApply
  <2> QED BY <2>2, TargetMoves
<1> QED BY <1>1, <1>2

\* A command moves on, or stops at a drifted primary: nothing is recorded.
LEMMA LoopStepsBooked ==
    ASSUME InOrder,
           \/ MirrorsCleared \/ \E r \in Repo : SyncSkip(r)
           \/ \E r \in Repo : ClearWorkingMirrorFails(r) /\ ~Quit
    PROVE  Booked'
<1>1. /\ UNCHANGED <<journal, cmd, mem, draft, failed>>
      /\ cmd \in {"deactivate", "force", "sync"} /\ failed = {}
      /\ pc \notin {"cleared", "refreshed", "synced"}
      /\ pc' \in {"repo", "drifted"}
      /\ pc' = "repo" /\ cmd # "sync" => todo' = Entries(mem)
  BY DEF MirrorsCleared, SyncSkip, ClearWorkingMirrorFails, InOrder, Sound, Typed, Control,
     PcFitsCommand, Booked, UnwindTracked, Undoing, Unwinding
<1>2. JournalRemembered' /\ OneAhead' /\ EntriesOffTemp'
  BY <1>1, MemoryKept
<1>3. UnwindTracked'
  BY <1>1 DEF UnwindTracked, Undone, Undoing, Unwinding
<1> QED BY <1>2, <1>3 DEF Booked

-----------------------------------------------------------------------------
(* Every step.                                                             *)

LEMMA StartsBooked ==
    ASSUME InOrder,
           \/ \E c \in {"deactivate", "force"} :
                StartDeactivate(c) \/ StartDeactivateDrifted(c)
           \/ StartRefresh \/ StartSync \/ StartSyncDrifted
    PROVE  Booked'
<1>1. UNCHANGED journal
  BY DEF StartDeactivate, StartDeactivateDrifted, StartRefresh, StartSync, StartSyncDrifted
<1>2. CASE \E c \in {"deactivate", "force"} : StartDeactivate(c)
  BY <1>1, <1>2, BeginBooked DEF StartDeactivate
<1>3. CASE \E c \in {"deactivate", "force"} : StartDeactivateDrifted(c)
  BY <1>1, <1>3, BeginBooked DEF StartDeactivateDrifted
<1>4. CASE StartRefresh
  BY <1>1, <1>4, BeginBooked DEF StartRefresh
<1>5. CASE StartSync
  BY <1>1, <1>5, BeginBooked DEF StartSync
<1>6. CASE StartSyncDrifted
  BY <1>1, <1>6, BeginBooked DEF StartSyncDrifted
<1> QED BY <1>2, <1>3, <1>4, <1>5, <1>6

LEMMA EndsBooked ==
    ASSUME InOrder,
           \/ FinishActivate \/ FinishUnwind \/ FinishRefresh \/ Crash \/ ArchiveDrift
           \/ \E r \in Repo : RefreshRepoFails(r) \/ SyncApplyFails(r)
           \/ \E r \in Repo : ClearWorkingMirrorFails(r) /\ Quit
    PROVE  Booked'
<1>1. EndOfCommand
  BY DEF FinishActivate, FinishUnwind, FinishRefresh, Crash, ArchiveDrift,
         RefreshRepoFails, SyncApplyFails, Quit
<1>2. \A r \in Repo : journal'[r] \in {journal[r], mem[r], None}
  BY DEF FinishActivate, FinishUnwind, FinishRefresh, Crash, ArchiveDrift, Archive, Only,
         RefreshRepoFails, SyncApplyFails, ClearWorkingMirrorFails, Empty
<1>3. \A r \in Repo : OffTemp(journal'[r])
  BY <1>2, EmptyOffTemp DEF InOrder, Booked, EntriesOffTemp
<1> QED BY <1>1, <1>3, EndBooked

\* The user leaves the primaries alone while a command runs.
UserInPrimary ==
    \E r \in Repo :
       \/ UserEdit(r) \/ UserCommit(r) \/ UserDetach(r)
       \/ \E b \in Branch : UserSwitch(r, b)
       \/ UserDeletesPrior(r) \/ UserRecreatesPrior(r) \/ UserDropsStash(r)
UserInWorktree == \E r \in Repo : SourceEdit(r) \/ SourceMove(r)

LEMMA UserSteps ==
    /\ User <=> UserInPrimary \/ UserInWorktree
    /\ UserInPrimary \/ UserInWorktree =>
         UNCHANGED <<pushed, disk, cmd, pc, loop, faults, origin>>
    /\ UserInPrimary /\ ~Racing => cmd = "idle" /\ acts' = acts + 1
    /\ UserInWorktree => UNCHANGED <<head, at, wt, stash, acts>>
<1>1. User <=> UserInPrimary \/ UserInWorktree
  BY Zenon DEF User, UserInPrimary, UserInWorktree
<1>2. UserInPrimary \/ UserInWorktree =>
         UNCHANGED <<pushed, disk, cmd, pc, loop, faults, origin>>
  BY DEF UserInPrimary, UserInWorktree, UserEdit, UserCommit, UserDetach, UserSwitch,
         UserDeletesPrior, UserRecreatesPrior, UserDropsStash, SourceEdit, SourceMove, SourceCommit, SourceReset,
         userUnchanged
<1>3. UserInPrimary /\ ~Racing => cmd = "idle" /\ acts' = acts + 1
  BY DEF UserInPrimary, UserEdit, UserCommit, UserDetach, UserSwitch, UserDeletesPrior,
         UserRecreatesPrior, UserDropsStash, InPrimary
<1>4. UserInWorktree => UNCHANGED <<head, at, wt, stash, acts>>
  BY DEF UserInWorktree, SourceEdit, SourceMove, SourceCommit, SourceReset, InWorktree
<1> QED BY <1>1, <1>2, <1>3, <1>4

LEMMA NextBooked ==
    ASSUME ~Racing, InOrder, Typed', [Next]_vars
    PROVE  Booked'
<1>1. \A r \in Repo : OffTemp(journal[r])
  BY DEF InOrder, Booked, EntriesOffTemp
<1>2. CASE StartCommand
  <2>1. CASE StartMirror \/ RecoverActivation \/ DoctorDropsStaleJournal
             \/ \E r \in Repo : DoctorDropsOrphan(r)
    <3>1. UNCHANGED <<cmd, pc, cur, todo, mem, draft, failed>> /\ cmd = "idle"
      BY <2>1 DEF StartMirror, RecoverActivation, DoctorDropsStaleJournal,
         DoctorDropsOrphan
    <3>2. \A r \in Repo : OffTemp(journal'[r])
      BY <1>1, <2>1, EmptyOffTemp DEF StartMirror, RecoverActivation, Archive,
         DoctorDropsStaleJournal, DoctorDropsOrphan
    <3> QED BY <3>1, <3>2, RestBooked
  <2> QED BY <1>2, <2>1, StartActivateBooked, StartsBooked DEF StartCommand
<1>3. CASE Activate
  BY <1>3, ActivateRepoBooked, RollbacksBooked, SwitchToLiveBooked,
     CaptureBaselineBooked, CaptureBaselineFailsBooked, JournalActivatedBooked, EndsBooked
  DEF Activate
<1>4. CASE Deactivate
  BY <1>4, ClearWorkingMirrorBooked, LoopStepsBooked, SavesBooked, EndsBooked
  DEF Deactivate
<1>5. CASE Unwinds
  BY <1>5, DeactivateRepoBooked, DeactivateRepoFailsBooked, RestoreAfterRescueBooked,
     DeleteTempBranchBooked, PopPinnedStashBooked, FinishUndoBooked, EndsBooked
  DEF Unwinds
<1>6. CASE Refresh
  BY <1>6, TargetStepsBooked, SavesBooked, EndsBooked DEF Refresh
<1>7. CASE Sync
  BY <1>7, TargetStepsBooked, LoopStepsBooked, SavesBooked, EndsBooked DEF Sync
<1>8. CASE Crash
  BY <1>8, EndsBooked
<1>9. CASE UserInPrimary
  BY <1>1, <1>9, UserSteps, RestBooked
<1>10. CASE UserInWorktree
  BY <1>10, UserSteps, RecordsUntouched DEF InOrder
<1>11. CASE SyncRound
  <2>1. CASE SyncRefused
    BY <1>1, <2>1, RestBooked DEF SyncRefused
  <2> QED BY <1>11, <2>1, StartsBooked DEF SyncRound
<1>12. CASE UNCHANGED vars
  BY <1>12, RecordsUntouched DEF vars, InOrder
<1> QED BY <1>2, <1>3, <1>4, <1>5, <1>6, <1>7, <1>8, <1>9, <1>10, <1>11, <1>12, UserSteps
        DEF Next, CommandStep

LEMMA InitBooked ==
    ASSUME Init
    PROVE  Booked
<1>1. cmd = "idle" /\ pc = "idle" /\ mem = Empty /\ journal = Empty /\ draft = None
      /\ failed = {}
  BY DEF Init
<1>2. JournalRemembered /\ OneAhead
  BY <1>1 DEF JournalRemembered, OneAhead, Ahead, Entries, Empty
<1>3. EntriesOffTemp /\ UnwindTracked
  BY <1>1, EmptyOffTemp DEF EntriesOffTemp, UnwindTracked, Undone, Undoing, Unwinding
<1> QED BY <1>2, <1>3 DEF Booked

LEMMA InitKept ==
    ASSUME ~Racing, ~DetachedCommits
    PROVE  Init => InOrder
BY InitBooked, InitTyped, InitSafe DEF InOrder, Sound

LEMMA NextKept ==
    ASSUME ~Racing, ~DetachedCommits
    PROVE  InOrder /\ [Next]_vars => InOrder' /\ Typed'
<1>1. InOrder /\ [Next]_vars => Typed'
  BY NextTyped DEF InOrder, Sound
<1> QED BY <1>1, NextSafe, NextBooked DEF InOrder, Sound

\* The records are right in every state.
LEMMA BookedHolds ==
    ASSUME ~Racing, ~DetachedCommits
    PROVE  Spec => []InOrder
BY InitKept, NextKept, PTL DEF Spec

-----------------------------------------------------------------------------
(* No entry leaves the journal early.                                      *)

\* The ways the journal is written.
LEMMA JournalWrites ==
    ASSUME InOrder, [Next]_vars
    PROVE  \/ UNCHANGED journal
           \/ journal' = mem /\ cmd # "idle"
           \/ FinishUnwind \/ ArchiveDrift \/ RecoverActivation
           \/ DoctorDropsStaleJournal
<1>1. CASE StartCommand \/ SyncRound
  BY <1>1 DEF StartCommand, SyncRound, StartActivate, StartDeactivate,
     StartDeactivateDrifted, StartRefresh, StartMirror, DoctorDropsOrphan, StartSync,
     StartSyncDrifted, SyncRefused
<1>2. CASE Activate
  BY <1>2 DEF Activate, ActivateRepo, ActivateRefused, StashNotPinned, SwitchToLive,
     SwitchToLiveFails, CaptureBaseline, CaptureBaselineFails, JournalActivated,
     JournalActivatedFails, FinishActivate
<1>3. CASE Deactivate \/ Refresh \/ Sync
  <2>1. CASE Deactivate
    BY <1>3, <2>1 DEF InOrder, Sound, Typed, Control, PcFitsCommand, Deactivate,
       ClearWorkingMirror, ClearWorkingMirrorFails, SaveCleared, MirrorsCleared
  <2>2. CASE Refresh \/ Sync
    BY <1>3, <2>2 DEF InOrder, Sound, Typed, Control, PcFitsCommand, Refresh, Sync,
       RefreshRepo, RefreshRepoFails, SaveRefreshed, FinishRefresh, SyncSkip, SyncApply,
       SyncApplyFails, SaveSynced
  <2> QED BY <1>3, <2>1, <2>2
<1>4. CASE Unwinds
  BY <1>4 DEF Unwinds, DeactivateRepo, DeactivateRepoFails, RestoreAfterRescue,
     DeleteTempBranch, PopPinnedStash, FinishUndo
<1>5. CASE Crash \/ User \/ UNCHANGED vars
  BY <1>5, UserSteps DEF Crash, vars
<1> QED BY <1>1, <1>2, <1>3, <1>4, <1>5 DEF Next, CommandStep

Restored(r) ==
    \/ /\ journal' = Empty /\ r \in archived' /\ UNCHANGED git
       /\ pc = "drifted" \/ (cmd = "idle" /\ Drifted)
    \/ /\ head'[r] # journal[r].temp
       /\ journal[r].stash # 0 => stash'[r][journal[r].stash] = {}

LEMMA DroppedRestored ==
    ASSUME InOrder, [Next]_vars, NEW r \in Repo, journal[r] # None, journal'[r] = None
    PROVE  Restored(r)
<1>1. r \in Entries(journal)
  BY DEF Entries
<1>2. journal[r] \in Entry
  BY DEF InOrder, Sound, Typed, TypeOK, JournalOK
<1>3. ~(journal' = mem /\ cmd # "idle")
  BY <1>1 DEF InOrder, Booked, JournalRemembered
<1>4. CASE FinishUnwind
  <2>1. /\ ClearsJournal /\ pc = "repo" /\ todo = {} /\ UNCHANGED git
        /\ journal' = Only(mem, failed)
    BY <1>4 DEF FinishUnwind
  <2>2. mem[r] # None /\ SameSwap(journal[r], mem[r])
    BY <1>1, <2>1 DEF InOrder, Booked, JournalRemembered, ClearsJournal
  <2>3. Undone(r)
    BY <2>1, <2>2 DEF Undone, Undoing, Unwinding, ClearsJournal, Only, Entries
  <2>4. BackOff(r) /\ (mem[r].stash # 0 => stash[r][mem[r].stash] = {})
    BY <2>3 DEF InOrder, Booked, UnwindTracked
  <2>5. head[r] # mem[r].temp
    <3>1. mem[r].prior # mem[r].temp
      BY <2>2 DEF InOrder, Booked, EntriesOffTemp, OffTemp
    <3>2. mem[r].temp \in Live
      BY <1>2, <2>2, EntryFields DEF SameSwap
    <3> QED BY <2>4, <3>1, <3>2 DEF BackOff, Live
  <2> QED BY <2>1, <2>2, <2>4, <2>5 DEF Restored, SameSwap
<1>5. CASE ArchiveDrift \/ RecoverActivation
  BY <1>1, <1>5 DEF ArchiveDrift, RecoverActivation, Archive, Restored
<1>6. CASE DoctorDropsStaleJournal
  BY <1>1, <1>6 DEF DoctorDropsStaleJournal, Restored
<1> QED BY <1>3, <1>4, <1>5, <1>6, JournalWrites

\* An entry stands in the journal until its primary is off the live branch and
\* the stash it pins is out, whatever fails and wherever a command is killed;
\* only an activation that is archived as a whole goes before that
\* (engine.go:213-223, drift_recovery.go:28-37).
THEOREM EntriesStayUntilRestored ==
    ASSUME ~Racing, ~DetachedCommits
    PROVE  Spec => EntryDroppedOnlyWhenRestored
<1>1. InOrder /\ [Next]_vars =>
        [\A r \in Repo : journal[r] # None /\ journal'[r] = None => Restored(r)]_vars
  BY DroppedRestored DEF InOrder
<1>2. [\A r \in Repo : journal[r] # None /\ journal'[r] = None => Restored(r)]_vars <=>
      [\A r \in Repo :
         journal[r] # None /\ journal'[r] = None =>
           \/ /\ journal' = Empty /\ r \in archived' /\ UNCHANGED git
              /\ pc = "drifted" \/ (cmd = "idle" /\ Drifted)
           \/ /\ head'[r] # journal[r].temp
              /\ journal[r].stash # 0 => stash'[r][journal[r].stash] = {}]_vars
  BY DEF Restored
<1> QED BY <1>1, <1>2, BookedHolds, PTL DEF Spec, EntryDroppedOnlyWhenRestored

-----------------------------------------------------------------------------
(* Only a fault leaves a primary on a live branch nothing names.           *)

Fate(r) == Orphan(r)' => Orphan(r)
Settled == Ahead = {} /\ pc # "baseline"

\* What happens to the record of a primary, and where its HEAD may go then.
LEMMA RecordStep ==
    ASSUME NEW r \in Repo, archived \subseteq archived',
           \/ /\ RecordOf(r) = None /\ RecordOf(r)' = None
              /\ head'[r] = head[r] \/ head'[r] \notin Live
           \/ /\ RecordOf(r) # None /\ RecordOf(r)' # None
              /\ RecordOf(r)'.prior = RecordOf(r).prior
              /\ RecordOf(r)'.temp = RecordOf(r).temp
              /\ \/ head'[r] \in {head[r], RecordOf(r).prior, RecordOf(r).temp}
                 \/ head'[r] \notin Live
           \/ /\ RecordOf(r) # None /\ RecordOf(r)' = None
              /\ \/ head'[r] \in {RecordOf(r).prior, "detached"}
                 \/ r \in archived'
                 \/ head'[r] = head[r] /\ head[r] # RecordOf(r).temp
           \/ /\ RecordOf(r) = None /\ RecordOf(r)' # None
              /\ RecordOf(r)'.prior = head[r] /\ head'[r] = RecordOf(r)'.temp
    PROVE  Fate(r)
BY DEF Fate, Orphan, Live

LEMMA SettledRecord ==
    ASSUME Settled, NEW r \in Repo
    PROVE  RecordOf(r) = journal[r]
BY DEF Settled, Ahead, Entries, RecordOf

LEMMA SettledRecordNext ==
    ASSUME Settled', NEW r \in Repo
    PROVE  RecordOf(r)' = journal'[r]
BY DEF Settled, Ahead, Entries, RecordOf

\* Before and after a step, the entry in memory is the record.
LEMMA MemoryRecord ==
    ASSUME JournalRemembered, cmd # "idle", NEW r \in Repo, ~(pc = "baseline" /\ r = cur)
    PROVE  /\ RecordOf(r) = None <=> mem[r] = None
           /\ mem[r] # None => SameSwap(RecordOf(r), mem[r])
BY DEF JournalRemembered, RecordOf, Entries, SameSwap

LEMMA MemoryRecordNext ==
    ASSUME JournalRemembered', cmd' # "idle", NEW r \in Repo,
           ~(pc' = "baseline" /\ r = cur')
    PROVE  /\ RecordOf(r)' = None <=> mem'[r] = None
           /\ mem'[r] # None => SameSwap(RecordOf(r)', mem'[r])
BY DEF JournalRemembered, RecordOf, Entries, SameSwap

LEMMA SettledStep ==
    ASSUME Settled, Settled', NEW r \in Repo, archived \subseteq archived',
           \/ journal'[r] = journal[r]
           \/ journal[r] # None /\ journal'[r] # None /\ SameSwap(journal[r], journal'[r]),
           \/ head'[r] = head[r] \/ head'[r] \notin Live
           \/ journal[r] # None /\ head'[r] = journal[r].temp
    PROVE  Fate(r)
<1>1. RecordOf(r) = journal[r] /\ RecordOf(r)' = journal'[r]
  BY SettledRecord, SettledRecordNext
<1> QED BY <1>1, RecordStep DEF SameSwap

LEMMA MemoryStep ==
    ASSUME JournalRemembered, JournalRemembered', cmd # "idle", cmd' # "idle", NEW r \in Repo,
           ~(pc = "baseline" /\ r = cur), ~(pc' = "baseline" /\ r = cur'),
           UNCHANGED archived,
           \/ /\ mem'[r] = mem[r]
              /\ \/ head'[r] = head[r] \/ head'[r] \notin Live
                 \/ mem[r] # None /\ head'[r] = mem[r].prior
           \/ /\ mem[r] # None /\ mem'[r] = None
              /\ head'[r] \in {mem[r].prior, "detached"}
           \/ /\ mem[r] = None /\ mem'[r] # None
              /\ mem'[r].prior = head[r] /\ head'[r] = mem'[r].temp
    PROVE  Fate(r)
<1>1. /\ RecordOf(r) = None <=> mem[r] = None
      /\ mem[r] # None => SameSwap(RecordOf(r), mem[r])
  BY MemoryRecord
<1>2. /\ RecordOf(r)' = None <=> mem'[r] = None
      /\ mem'[r] # None => SameSwap(RecordOf(r)', mem'[r])
  BY MemoryRecordNext
<1> QED BY <1>1, <1>2, RecordStep DEF SameSwap

LEMMA SettledCommands ==
    ASSUME InOrder, cmd \notin {"activate", "undo", "rollback"}
    PROVE  Settled
BY DEF InOrder, Sound, Typed, Control, PcFitsCommand, Booked, OneAhead, Settled

LEMMA SettledCommandsNext ==
    ASSUME Typed', Booked', cmd' \notin {"activate", "undo", "rollback"}
    PROVE  Settled'
BY DEF Typed, Control, PcFitsCommand, Booked, OneAhead, Settled

LEMMA Remembered ==
    ASSUME InOrder
    PROVE  JournalRemembered
BY DEF InOrder, Booked

LEMMA RememberedNext ==
    ASSUME Booked'
    PROVE  JournalRemembered'
BY DEF Booked

\* A step in which no primary and no record of one changes.
LEMMA NothingMoves ==
    ASSUME InOrder, Booked', Typed', UNCHANGED <<head, archived>>,
           \/ UNCHANGED <<journal, cmd, pc, cur, mem, draft>>
           \/ /\ cmd \notin {"activate", "undo", "rollback"} /\ UNCHANGED journal
              /\ cmd' \notin {"activate", "undo", "rollback"} \/ Settled'
           \/ /\ cmd # "idle" /\ cmd' # "idle" /\ UNCHANGED mem
              /\ pc # "baseline" /\ pc' # "baseline"
    PROVE  \A r \in Repo : Fate(r)
<1>1. CASE UNCHANGED <<journal, cmd, pc, cur, mem, draft>>
  BY <1>1 DEF Fate, Orphan, RecordOf
<1>2. CASE /\ cmd \notin {"activate", "undo", "rollback"} /\ UNCHANGED journal
           /\ cmd' \notin {"activate", "undo", "rollback"} \/ Settled'
  BY <1>2, SettledCommands, SettledCommandsNext, SettledStep
<1>3. CASE /\ cmd # "idle" /\ cmd' # "idle" /\ UNCHANGED mem
           /\ pc # "baseline" /\ pc' # "baseline"
  BY <1>3, Remembered, RememberedNext, MemoryStep
<1> QED BY <1>1, <1>2, <1>3

LEMMA StartsFate ==
    ASSUME InOrder, Booked', Typed', StartCommand \/ SyncRound
    PROVE  \A r \in Repo : Fate(r)
<1>0. cmd = "idle" /\ Settled
  <2>1. cmd = "idle"
    BY DEF StartCommand, SyncRound, StartActivate, StartDeactivate, StartDeactivateDrifted,
       StartRefresh, StartMirror, RecoverActivation, DoctorDropsStaleJournal,
       DoctorDropsOrphan, StartSync, StartSyncDrifted, SyncRefused
  <2> QED BY <2>1, SettledCommands
<1>1. CASE \E f \in BOOLEAN : StartActivate(f)
  <2>1. UNCHANGED <<head, archived, journal>> /\ pc' = "repo" /\ mem' = Empty
    BY <1>1 DEF StartActivate, Begin
  <2>2. Settled'
    BY <2>1 DEF Settled, Ahead, Entries, Empty
  <2> QED BY <1>0, <2>1, <2>2, NothingMoves
<1>2. CASE \/ \E c \in {"deactivate", "force"} :
                StartDeactivate(c) \/ StartDeactivateDrifted(c)
           \/ StartRefresh \/ StartMirror \/ SyncRound
  <2>1. UNCHANGED <<head, archived, journal>> /\ cmd' \notin {"activate", "undo", "rollback"}
    BY <1>0, <1>2 DEF SyncRound, StartDeactivate, StartDeactivateDrifted, StartRefresh,
       StartMirror, StartSync, StartSyncDrifted, SyncRefused, Begin
  <2> QED BY <1>0, <2>1, NothingMoves
<1>3. CASE RecoverActivation
  <2>1. /\ journal' = Empty /\ archived' = archived \cup Entries(journal)
        /\ UNCHANGED <<cmd, head>>
    BY <1>3 DEF RecoverActivation, Archive
  <2>2. Settled'
    BY <1>0, <2>1, SettledCommandsNext
  <2>3. ASSUME NEW r \in Repo PROVE Fate(r)
    <3>1. RecordOf(r) = journal[r] /\ RecordOf(r)' = None
      BY <1>0, <2>1, <2>2, SettledRecord, SettledRecordNext, EmptyOffTemp
    <3>2. journal[r] # None => r \in archived'
      BY <2>1 DEF Entries
    <3> QED BY <2>1, <3>1, <3>2, RecordStep
  <2> QED BY <2>3
<1>4. CASE DoctorDropsStaleJournal
  <2>1. /\ \A r \in Entries(journal) : head[r] # journal[r].temp
        /\ journal' = Empty /\ UNCHANGED <<cmd, head, archived>>
    BY <1>4 DEF DoctorDropsStaleJournal
  <2>2. Settled'
    BY <1>0, <2>1, SettledCommandsNext
  <2>3. ASSUME NEW r \in Repo PROVE Fate(r)
    <3>1. RecordOf(r) = journal[r] /\ RecordOf(r)' = None
      BY <1>0, <2>1, <2>2, SettledRecord, SettledRecordNext, EmptyOffTemp
    <3>2. journal[r] # None => head[r] # journal[r].temp
      BY <2>1 DEF Entries
    <3> QED BY <2>1, <3>1, <3>2, RecordStep
  <2> QED BY <2>3
<1>5. CASE \E q \in Repo : DoctorDropsOrphan(q)
  <2>1. /\ UNCHANGED <<cmd, journal, archived>>
        /\ \A r \in Repo : head'[r] \in {head[r], "trunk"}
    BY <1>5 DEF DoctorDropsOrphan, SwitchTo, InOrder, Sound, Typed, TypeOK, GitOK
  <2>2. Settled' /\ "trunk" \notin Live
    BY <1>0, <2>1, SettledCommandsNext DEF Live
  <2> QED BY <1>0, <2>1, <2>2, SettledStep
<1> QED BY <1>1, <1>2, <1>3, <1>4, <1>5 DEF StartCommand

\* Where the user can take a primary: to no live branch but that of its entry.
LEMMA UserFate ==
    ASSUME ~Racing, InOrder, Booked', Typed', User
    PROVE  \A r \in Repo : Fate(r)
<1>1. CASE UserInWorktree
  BY <1>1, UserSteps, NothingMoves
<1>2. CASE UserInPrimary
  <2>1. cmd = "idle" /\ cmd' = "idle" /\ UNCHANGED <<journal, archived>>
    BY <1>2, UserSteps
  <2>2. Settled /\ Settled'
    BY <2>1, SettledCommands, SettledCommandsNext
  <2>3. ASSUME NEW r \in Repo
        PROVE  \/ head'[r] = head[r] \/ head'[r] \notin Live
               \/ journal[r] # None /\ head'[r] = journal[r].temp
    <3>1. CASE UNCHANGED head
      BY <3>1
    <3>2. CASE \E q \in Repo : UserDetach(q)
      BY <3>2 DEF UserDetach, DetachAt, InOrder, Sound, Typed, TypeOK, GitOK, Live
    <3>3. CASE \E q \in Repo : \E b \in Branch : UserSwitch(q, b)
      BY <3>3 DEF UserSwitch, SwitchTo, InOrder, Sound, Typed, TypeOK, GitOK, Live
    <3> QED BY <1>2, <3>1, <3>2, <3>3 DEF UserInPrimary, UserEdit, UserCommit,
            UserDeletesPrior, UserRecreatesPrior, UserDropsStash
  <2> QED BY <2>1, <2>2, <2>3, SettledStep
<1> QED BY <1>1, <1>2, UserSteps

\* A command ends and writes nothing: the entry it was about to write is gone.
LEMMA EndFate ==
    ASSUME InOrder, Booked', Typed', EndOfCommand, UNCHANGED <<head, journal, archived>>
    PROVE  /\ Settled => \A r \in Repo : Fate(r)
           /\ \E x : \A r \in Repo \ {x} : Fate(r)
<1>1. Settled'
  BY SettledCommandsNext DEF EndOfCommand
<1>2. Settled => \A r \in Repo : Fate(r)
  BY <1>1, SettledStep
<1>3. ASSUME NEW r \in Repo, journal[r] # None \/ RecordOf(r) = None
      PROVE  Fate(r)
  <2>1. RecordOf(r)' = journal[r]
    BY <1>1, SettledRecordNext
  <2>2. journal[r] # None => RecordOf(r) = journal[r]
    BY DEF RecordOf
  <2> QED BY <1>3, <2>1, <2>2, RecordStep
<1>4. \E x : \A r \in Repo \ {x} : journal[r] # None \/ RecordOf(r) = None
  <2>1. CASE pc = "baseline"
    <3>1. \A r \in Repo \ {cur} : journal[r] # None \/ RecordOf(r) = None
      BY <2>1, InActivation DEF Ahead, Entries, RecordOf
    <3> QED BY <3>1
  <2>2. CASE pc # "baseline"
    <3>1. \A r, s \in Ahead : r = s
      BY DEF InOrder, Booked, OneAhead
    <3>2. \A r \in Repo : journal[r] # None \/ RecordOf(r) = None \/ r \in Ahead
      BY <2>2 DEF Ahead, Entries, RecordOf
    <3> QED BY <3>1, <3>2
  <2> QED BY <2>1, <2>2
<1> QED BY <1>2, <1>3, <1>4

LEMMA ActivateFate ==
    ASSUME InOrder, Booked', Typed', pc = "switch" => head[cur] = draft.prior, Activate
    PROVE  \/ \A r \in Repo : Fate(r)
           \/ faults' = faults + 1 /\ \E x : \A r \in Repo \ {x} : Fate(r)
<1>0. pc \in {"switch", "baseline", "journal"} => cmd = "activate"
  BY DEF InOrder, Sound, Typed, Control, PcFitsCommand
<1>1. CASE \/ \E r \in Repo : ActivateRepo(r) \/ ActivateRefused(r) \/ StashNotPinned(r)
           \/ SwitchToLiveFails \/ JournalActivatedFails
  <2>1. /\ UNCHANGED <<head, archived, mem>> /\ cmd = "activate" /\ cmd' # "idle"
        /\ pc # "baseline" /\ pc' # "baseline"
    BY <1>0, <1>1 DEF ActivateRepo, ActivateRefused, StashNotPinned, SwitchToLiveFails,
       JournalActivatedFails, Unwind
  <2> QED BY <2>1, NothingMoves
<1>2. CASE JournalActivated
  <2>1. /\ UNCHANGED <<head, archived, mem, cmd>> /\ cmd = "activate"
        /\ pc # "baseline" /\ pc' # "baseline"
    BY <1>2 DEF JournalActivated
  <2> QED BY <2>1, NothingMoves
<1>3. CASE SwitchToLive
  <2>1. /\ pc = "switch" /\ UNCHANGED <<archived, journal, cmd, cur>>
        /\ head' = [head EXCEPT ![cur] = draft.temp]
    BY <1>3 DEF SwitchToLive, SwitchTo
  <2>2. /\ cmd = "activate" /\ cur \in Repo /\ mem[cur] = None /\ journal[cur] = None
        /\ draft \in Entry /\ draft # None
    BY <2>1, InActivation, NoneAssumption
  <2>3. head'[cur] = draft.temp /\ \A r \in Repo \ {cur} : head'[r] = head[r]
    BY <2>1, <2>2 DEF InOrder, Sound, Typed, TypeOK, GitOK
  <2>4. RecordOf(cur) = None /\ RecordOf(cur)' = draft
    <3>1. CASE cur \in Mirrored
      BY <2>1, <2>2, <3>1, <1>3 DEF SwitchToLive, RecordOf
    <3>2. CASE cur \notin Mirrored
      BY <2>1, <2>2, <3>2, <1>3 DEF SwitchToLive, RecordOf, InOrder, Sound, Typed, TypeOK,
         CommandOK
    <3> QED BY <3>1, <3>2
  <2>5. \A r \in Repo \ {cur} : RecordOf(r)' = RecordOf(r)
    BY <2>1, <2>2, <1>3 DEF SwitchToLive, RecordOf, InOrder, Sound, Typed, TypeOK, CommandOK
  <2>6. \A r \in Repo \ {cur} : Fate(r)
    BY <2>1, <2>3, <2>5 DEF Fate, Orphan
  <2>7. Fate(cur)
    <3>1. draft.prior = head[cur]
      BY <2>1
    <3> QED BY <2>1, <2>2, <2>3, <2>4, <3>1 DEF Fate, Orphan
  <2> QED BY <2>6, <2>7
<1>4. CASE CaptureBaseline \/ CaptureBaselineFails
  <2>1. /\ pc = "baseline" /\ pc' # "baseline" /\ UNCHANGED <<archived, journal, head>>
    BY <1>4 DEF CaptureBaseline, CaptureBaselineFails, Unwind
  <2>2. /\ cur \in Repo /\ mem[cur] = None /\ journal[cur] = None
        /\ draft \in Entry /\ draft # None /\ Ahead = {}
    BY <2>1, InActivation, NoneAssumption
  <2>3. \E e : /\ mem' = [mem EXCEPT ![cur] = e] /\ SameSwap(draft, e)
    BY <1>4, <2>2 DEF CaptureBaseline, CaptureBaselineFails, Unwind, SameSwap, Entry
  <2>4. PICK e : mem' = [mem EXCEPT ![cur] = e] /\ SameSwap(draft, e)
    BY <2>3
  <2>5. mem'[cur] = e /\ \A r \in Repo \ {cur} : mem'[r] = mem[r]
    BY <2>2, <2>4 DEF InOrder, Sound, Typed, TypeOK, CommandOK
  <2>6. RecordOf(cur) = draft
    BY <2>1, <2>2 DEF RecordOf
  <2>7. \A r \in Repo \ {cur} : RecordOf(r)' = RecordOf(r)
    BY <2>1, <2>5 DEF RecordOf
  <2>8. \A r \in Repo \ {cur} : Fate(r)
    BY <2>1, <2>7 DEF Fate, Orphan
  <2>9. ASSUME NEW r \in Repo, r = cur PROVE Fate(r)
    <3>1. RecordOf(r) = draft /\ RecordOf(r)' = e /\ e # None
      <4>1. journal'[r] = None /\ mem'[r] = e /\ pc' # "baseline"
        BY <2>1, <2>2, <2>5, <2>9
      <4>2. mem'[r] # None
        <5>1. CASE CaptureBaseline
          <6>1. pc' = "journal" /\ UNCHANGED cur
            BY <5>1 DEF CaptureBaseline
          <6> QED BY <2>9, <6>1, NoneAssumption DEF Typed, Control, Operands
        <5>2. CASE CaptureBaselineFails
          <6>1. cmd' = "undo" /\ r \in todo'
            BY <2>9, <5>2 DEF CaptureBaselineFails, Unwind
          <6> QED BY <6>1, NoneAssumption DEF Typed, Control, Operands, Listed
        <5> QED BY <1>4, <5>1, <5>2
      <4> QED BY <2>6, <2>9, <4>1, <4>2 DEF RecordOf
    <3> QED BY <2>1, <2>2, <2>4, <3>1, RecordStep DEF SameSwap
  <2> QED BY <2>8, <2>9
<1>5. CASE FinishActivate
  <2>1. /\ cmd = "activate" /\ pc = "repo" /\ EndOfCommand /\ UNCHANGED <<head, archived>>
        /\ \/ journal' = mem
           \/ UNCHANGED journal /\ faults' = faults + 1
    BY <1>5 DEF FinishActivate, Quit, Fault
  <2>2. CASE journal' = mem
    <3>1. Settled'
      BY <2>1, SettledCommandsNext DEF EndOfCommand
    <3>2. ASSUME NEW r \in Repo PROVE Fate(r)
      <4>1. /\ RecordOf(r) = None <=> mem[r] = None
            /\ mem[r] # None => SameSwap(RecordOf(r), mem[r])
        BY <2>1, Remembered, MemoryRecord
      <4>2. RecordOf(r)' = mem[r]
        BY <2>2, <3>1, SettledRecordNext
      <4> QED BY <2>1, <4>1, <4>2, RecordStep DEF SameSwap
    <3> QED BY <3>2
  <2>3. CASE UNCHANGED journal /\ faults' = faults + 1
    BY <2>1, <2>3, EndFate
  <2> QED BY <2>1, <2>2, <2>3
<1> QED BY <1>1, <1>2, <1>3, <1>4, <1>5 DEF Activate

LEMMA UnwindsFate ==
    ASSUME InOrder, Booked', Typed', Unwinds
    PROVE  \/ \A r \in Repo : Fate(r)
           \/ faults' = faults + 1 /\ \E x : \A r \in Repo \ {x} : Fate(r)
<1>1. CASE \/ \E r \in Repo : DeactivateRepoFails(r)
           \/ DeleteTempBranch \/ PopPinnedStash
  <2>1. Undoing
    BY <1>1, AtStep DEF DeactivateRepoFails, DeleteTempBranch, PopPinnedStash, Undoing
  <2>2. UNCHANGED <<head, archived, mem, cmd>> /\ pc' # "baseline"
    BY <1>1 DEF DeactivateRepoFails, DeleteTempBranch, PopPinnedStash, RepoFails,
       RepoGoesOn, RepoDone
  <2> QED BY <2>1, <2>2, NothingMoves DEF Undoing, Unwinding
<1>2. CASE RestoreAfterRescue \/ \E r \in Repo : DeactivateRepo(r)
  <2>1. PICK q \in Repo : \/ q = cur /\ RestoreAfterRescue
                          \/ DeactivateRepo(q)
    BY <1>2, AtStep DEF RestoreAfterRescue
  <2>2. Undoing /\ mem[q] \in Entry /\ mem[q] # None /\ Typed
    <3>1. CASE RestoreAfterRescue /\ q = cur
      BY <3>1, AtStep, NoneAssumption DEF RestoreAfterRescue
    <3>2. CASE DeactivateRepo(q)
      BY <3>2, UndoingParts DEF DeactivateRepo, Undoing, InOrder, Sound
    <3> QED BY <2>1, <3>1, <3>2
  <2>3. /\ UNCHANGED <<archived, mem, cmd>> /\ pc # "baseline" /\ pc' # "baseline"
        /\ cmd # "idle"
    BY <2>1, <2>2 DEF RestoreAfterRescue, DeactivateRepo, RepoFails, RepoGoesOn, Undoing,
       Unwinding
  <2>4. /\ head'[q] \in {head[q], mem[q].prior, "detached", "rescue"}
        /\ \A r \in Repo \ {q} : head'[r] = head[r]
    <3>1. CASE RestorePriorBranch(q)
      BY <2>2, <3>1, RestoresPrior
    <3>2. CASE UNCHANGED head
      BY <3>2
    <3>3. CASE SwitchTo(q, "rescue")
      BY <2>2, <3>3 DEF SwitchTo, Typed, TypeOK, GitOK
    <3> QED BY <2>1, <3>1, <3>2, <3>3 DEF RestoreAfterRescue, DeactivateRepo
  <2>5. "rescue" \notin Live /\ "detached" \notin Live
    BY DEF Live
  <2> QED BY <2>2, <2>3, <2>4, <2>5, Remembered, RememberedNext, MemoryStep
<1>3. CASE FinishUndo
  <2>1. /\ cmd = "undo" /\ pc = "repo" /\ todo = {} /\ UNCHANGED <<head, archived>>
        /\ cmd' = "rollback" /\ pc' = "repo"
        /\ mem' = Only(mem, failed \cup Entries(journal))
    BY <1>3 DEF FinishUndo, Unwind
  <2>2. ASSUME NEW r \in Repo, mem[r] # None, mem'[r] = None
        PROVE  head[r] \in {mem[r].prior, "detached"}
    <3>1. Undone(r)
      BY <2>1, <2>2 DEF Undone, Undoing, Unwinding, Ahead, Entries, Only
    <3> QED BY <3>1 DEF InOrder, Booked, UnwindTracked, BackOff
  <2>3. \A r \in Repo : mem'[r] \in {mem[r], None}
    BY <2>1 DEF Only
  <2> QED BY <2>1, <2>2, <2>3, Remembered, RememberedNext, MemoryStep
<1>4. CASE FinishUnwind
  <2>1. /\ ClearsJournal /\ pc = "repo" /\ todo = {} /\ EndOfCommand
        /\ UNCHANGED <<head, archived>>
        /\ \/ journal' = Only(mem, failed)
           \/ UNCHANGED journal /\ faults' = faults + 1
    BY <1>4 DEF FinishUnwind, Quit, Fault
  <2>2. CASE journal' = Only(mem, failed)
    <3>1. Settled'
      BY <2>1, SettledCommandsNext DEF EndOfCommand
    <3>2. ASSUME NEW r \in Repo PROVE Fate(r)
      <4>1. /\ RecordOf(r) = None <=> mem[r] = None
            /\ mem[r] # None => SameSwap(RecordOf(r), mem[r])
        BY <2>1, Remembered, MemoryRecord DEF ClearsJournal
      <4>2. RecordOf(r)' = IF r \in failed THEN mem[r] ELSE None
        BY <2>2, <3>1, SettledRecordNext DEF Only
      <4>3. mem[r] # None /\ r \notin failed => head[r] \in {mem[r].prior, "detached"}
        <5>1. mem[r] # None /\ r \notin failed => Undone(r)
          BY <2>1 DEF Undone, Undoing, Unwinding, ClearsJournal, Entries
        <5> QED BY <5>1 DEF InOrder, Booked, UnwindTracked, BackOff
      <4> QED BY <2>1, <4>1, <4>2, <4>3, RecordStep DEF SameSwap
    <3> QED BY <3>2
  <2>3. CASE UNCHANGED journal /\ faults' = faults + 1
    BY <2>1, <2>3, EndFate
  <2> QED BY <2>1, <2>2, <2>3
<1> QED BY <1>1, <1>2, <1>3, <1>4 DEF Unwinds

\* The other commands: their journal keeps what it says of a live branch.
LEMMA OtherCommandsFate ==
    ASSUME InOrder, Booked', Typed', Deactivate \/ Refresh \/ Sync \/ Crash
    PROVE  \/ \A r \in Repo : Fate(r)
           \/ faults' = faults + 1 /\ \E x : \A r \in Repo \ {x} : Fate(r)
<1>1. CASE Crash
  <2>1. EndOfCommand /\ UNCHANGED <<head, journal, archived>> /\ faults' = faults + 1
    BY <1>1 DEF Crash, Quit, Fault
  <2> QED BY <2>1, EndFate
<1>2. CASE Deactivate \/ Refresh \/ Sync
  <2>1. cmd \in {"deactivate", "force", "refresh", "sync"}
    BY <1>2 DEF InOrder, Sound, Typed, Control, PcFitsCommand, Deactivate,
       ClearWorkingMirror, ClearWorkingMirrorFails, SaveCleared, MirrorsCleared,
       ArchiveDrift, Refresh, RefreshRepo, RefreshRepoFails, SaveRefreshed,
       FinishRefresh, Sync, SyncSkip, SyncApply, SyncApplyFails, SaveSynced
  <2>2. cmd' \in {cmd, "idle"} /\ UNCHANGED head
    BY <1>2 DEF Deactivate,
       ClearWorkingMirror, ClearWorkingMirrorFails, SaveCleared, MirrorsCleared,
       ArchiveDrift, Refresh, RefreshRepo, RefreshRepoFails, SaveRefreshed,
       FinishRefresh, Sync, SyncSkip, SyncApply, SyncApplyFails, SaveSynced, Quit,
       EndOfCommand
  <2>3. Settled /\ Settled'
    BY <2>1, <2>2, SettledCommands, SettledCommandsNext
  <2>4. CASE ArchiveDrift /\ ~UNCHANGED journal
    <3>1. journal' = Empty /\ archived' = archived \cup Entries(journal)
      BY <2>4 DEF ArchiveDrift, Archive
    <3>2. ASSUME NEW r \in Repo PROVE Fate(r)
      <4>1. RecordOf(r) = journal[r] /\ RecordOf(r)' = None
        BY <2>3, <3>1, SettledRecord, SettledRecordNext, EmptyOffTemp
      <4>2. journal[r] # None => r \in archived'
        BY <3>1 DEF Entries
      <4> QED BY <2>2, <3>1, <4>1, <4>2, RecordStep
    <3> QED BY <3>2
  <2>5. CASE ~ArchiveDrift \/ UNCHANGED journal
    <3>1. archived \subseteq archived' /\ journal' \in {journal, mem}
      BY <1>2, <2>5 DEF Deactivate,
         ClearWorkingMirror, ClearWorkingMirrorFails, SaveCleared, MirrorsCleared,
         ArchiveDrift, Refresh, RefreshRepo, RefreshRepoFails, SaveRefreshed,
         FinishRefresh, Sync, SyncSkip, SyncApply, SyncApplyFails, SaveSynced, Archive
    <3>2. ASSUME NEW r \in Repo
          PROVE  \/ journal'[r] = journal[r]
                 \/ journal[r] # None /\ journal'[r] # None
                    /\ SameSwap(journal[r], journal'[r])
      <4>1. journal[r] # None => mem[r] # None /\ SameSwap(journal[r], mem[r])
        BY <2>1 DEF InOrder, Booked, JournalRemembered, Entries
      <4>2. journal[r] = None => mem[r] = None
        BY <2>3 DEF Settled, Ahead, Entries
      <4> QED BY <3>1, <4>1, <4>2
    <3> QED BY <2>2, <2>3, <3>1, <3>2, SettledStep
  <2> QED BY <2>4, <2>5
<1> QED BY <1>1, <1>2

LEMMA NextFate ==
    ASSUME ~Racing, InOrder, Booked', Typed', OrphansNeedFaults, [Next]_vars
    PROVE  \/ \A r \in Repo : Fate(r)
           \/ faults' = faults + 1 /\ \E x : \A r \in Repo \ {x} : Fate(r)
<1>1. CASE StartCommand \/ SyncRound
  BY <1>1, StartsFate
<1>2. CASE User
  BY <1>2, UserFate
<1>3. CASE UNCHANGED vars
  BY <1>3, NothingMoves DEF vars
<1>4. pc = "switch" => head[cur] = draft.prior
  BY DEF OrphansNeedFaults
<1> QED BY <1>1, <1>2, <1>3, <1>4, ActivateFate, UnwindsFate, OtherCommandsFate
        DEF Next, CommandStep

LEMMA FaultsGrow ==
    ASSUME [Next]_vars
    PROVE  faults' = faults \/ faults' = faults + 1
<1>1. CASE StartCommand \/ SyncRound
  BY <1>1 DEF StartCommand, SyncRound, StartActivate, StartDeactivate,
     StartDeactivateDrifted, StartRefresh, StartMirror, RecoverActivation,
     DoctorDropsStaleJournal, DoctorDropsOrphan, StartSync, StartSyncDrifted, SyncRefused,
     Fault, NoFault
<1>2. CASE Activate
  BY <1>2 DEF Activate, ActivateRepo, ActivateRefused, StashNotPinned, SwitchToLive,
     SwitchToLiveFails, CaptureBaseline, CaptureBaselineFails, JournalActivated,
     JournalActivatedFails, FinishActivate, Fault, NoFault
<1>3. CASE Deactivate
  BY <1>3 DEF Deactivate, ClearWorkingMirror, ClearWorkingMirrorFails, SaveCleared,
     MirrorsCleared, ArchiveDrift, Fault, NoFault
<1>4. CASE Unwinds
  BY <1>4 DEF Unwinds, DeactivateRepo, DeactivateRepoFails, RestoreAfterRescue,
     DeleteTempBranch, PopPinnedStash, FinishUndo, FinishUnwind, RestorePriorBranch,
     Fault, NoFault
<1>5. CASE Refresh \/ Sync
  BY <1>5 DEF Refresh, Sync, RefreshRepo, RefreshRepoFails, SaveRefreshed,
     FinishRefresh, SyncSkip, SyncApply, SyncApplyFails, SaveSynced, Fault, NoFault
<1>6. CASE Crash \/ User \/ UNCHANGED vars
  BY <1>6, UserSteps DEF Crash, Fault, vars
<1> QED BY <1>1, <1>2, <1>3, <1>4, <1>5, <1>6 DEF Next, CommandStep

\* While an activation is about to switch, its entry says where HEAD is.
LEMMA PriorIsHead ==
    ASSUME InOrder, Typed', OrphansNeedFaults, ~Racing, [Next]_vars, pc' = "switch"
    PROVE  head'[cur'] = draft'.prior
<1>1. cmd' = "activate"
  BY DEF Typed, Control, PcFitsCommand
<1>2. CASE \E r \in Repo : ActivateRepo(r)
  BY <1>2 DEF ActivateRepo
<1>3. CASE UNCHANGED <<pc, head, cur, draft>>
  BY <1>3 DEF OrphansNeedFaults
<1>4. CASE UserInPrimary
  BY <1>1, <1>4, UserSteps DEF InOrder, Sound, Typed, Control, PcFitsCommand
<1>5. CASE Activate /\ ~\E r \in Repo : ActivateRepo(r)
  BY <1>5 DEF Activate, ActivateRefused, StashNotPinned, SwitchToLive,
     SwitchToLiveFails, CaptureBaseline, CaptureBaselineFails, JournalActivated,
     JournalActivatedFails, FinishActivate, Quit, EndOfCommand, Unwind
<1>6. CASE Deactivate \/ Unwinds \/ Refresh \/ Sync \/ Crash
  <2>1. (cmd # "activate" /\ cmd # "idle") \/ Crash
    BY <1>6 DEF InOrder, Sound, Typed, Control, PcFitsCommand, Deactivate,
       ClearWorkingMirror, ClearWorkingMirrorFails, SaveCleared, MirrorsCleared,
       ArchiveDrift, Unwinds, DeactivateRepo, DeactivateRepoFails, RestoreAfterRescue,
       DeleteTempBranch, PopPinnedStash, FinishUndo, FinishUnwind, ClearsJournal,
       Unwinding, Refresh, RefreshRepo, RefreshRepoFails, SaveRefreshed,
       FinishRefresh, Sync, SyncSkip, SyncApply, SyncApplyFails, SaveSynced
  <2>2. cmd' \in {cmd, "idle", "rollback"}
    BY <1>6 DEF Deactivate, ClearWorkingMirror, ClearWorkingMirrorFails, SaveCleared,
       MirrorsCleared, ArchiveDrift, Unwinds, DeactivateRepo, DeactivateRepoFails,
       RestoreAfterRescue, DeleteTempBranch, PopPinnedStash, FinishUndo, FinishUnwind,
       Refresh, RefreshRepo, RefreshRepoFails, SaveRefreshed, FinishRefresh, Sync,
       SyncSkip, SyncApply, SyncApplyFails, SaveSynced, Crash, Quit, EndOfCommand, Unwind
  <2>3. Crash => cmd' = "idle"
    BY DEF Crash, Quit, EndOfCommand
  <2> QED BY <1>1, <2>1, <2>2, <2>3
<1>7. CASE StartCommand \/ SyncRound
  BY <1>7 DEF StartCommand, SyncRound, StartActivate, StartDeactivate, Begin,
     StartDeactivateDrifted, StartRefresh, StartMirror, RecoverActivation,
     DoctorDropsStaleJournal, DoctorDropsOrphan, StartSync, StartSyncDrifted, SyncRefused,
     InOrder, Sound, Typed, Control, PcFitsCommand
<1> QED BY <1>2, <1>3, <1>4, <1>5, <1>6, <1>7, UserSteps DEF Next, CommandStep, vars

LEMMA NextOrphans ==
    ASSUME ~Racing, InOrder, Booked', Typed', OrphansNeedFaults, [Next]_vars
    PROVE  OrphansNeedFaults'
<1>1. faults \in Nat /\ IsFiniteSet(Orphans) /\ IsFiniteSet(Orphans')
  <2>1. faults \in Nat
    BY ConstantsAssumption DEF InOrder, Sound, Typed, TypeOK, GhostOK
  <2> QED BY <2>1, RepoAssumption, FS_Subset DEF Orphans
<1>2. Cardinality(Orphans) \in Nat /\ Cardinality(Orphans) <= faults
  BY <1>1, FS_CardinalityType DEF OrphansNeedFaults
<1>3. CASE \A r \in Repo : Fate(r)
  <2>1. Orphans' \subseteq Orphans
    BY <1>3 DEF Orphans, Fate
  <2>2. Cardinality(Orphans') <= Cardinality(Orphans) /\ Cardinality(Orphans') \in Nat
    BY <1>1, <2>1, FS_Subset, FS_CardinalityType
  <2>3. Cardinality(Orphans') <= faults'
    BY <1>1, <1>2, <2>2, FaultsGrow
  <2> QED BY <2>3, PriorIsHead DEF OrphansNeedFaults
<1>4. CASE faults' = faults + 1 /\ \E x : \A r \in Repo \ {x} : Fate(r)
  <2>1. PICK x : \A r \in Repo \ {x} : Fate(r)
    BY <1>4
  <2>2. Orphans' \subseteq Orphans \cup {x}
    BY <2>1 DEF Orphans, Fate
  <2>3. /\ IsFiniteSet(Orphans \cup {x})
        /\ Cardinality(Orphans \cup {x}) <= Cardinality(Orphans) + 1
        /\ Cardinality(Orphans \cup {x}) \in Nat
    <3>1. /\ IsFiniteSet(Orphans \cup {x})
          /\ Cardinality(Orphans \cup {x}) = IF x \in Orphans THEN Cardinality(Orphans)
                                            ELSE Cardinality(Orphans) + 1
      BY <1>1, FS_AddElement
    <3>2. Cardinality(Orphans \cup {x}) \in Nat
      BY <3>1, FS_CardinalityType
    <3> HIDE DEF Orphans
    <3> QED BY <1>2, <3>1, <3>2
  <2>4. Cardinality(Orphans') <= Cardinality(Orphans \cup {x})
        /\ Cardinality(Orphans') \in Nat
    BY <1>1, <2>2, <2>3, FS_Subset, FS_CardinalityType
  <2>5. Cardinality(Orphans') <= faults'
    BY <1>1, <1>2, <1>4, <2>3, <2>4
  <2> QED BY <2>5, PriorIsHead DEF OrphansNeedFaults
<1> QED BY <1>3, <1>4, NextFate

LEMMA InitOrphans ==
    ASSUME Init
    PROVE  OrphansNeedFaults
<1>1. \A r \in Repo : ~Orphan(r)
  BY DEF Init, Orphan, RecordOf, Empty, Live
<1>2. Orphans = {}
  BY <1>1 DEF Orphans
<1>3. Cardinality(Orphans) = 0
  BY <1>2, FS_EmptySet
<1> QED BY <1>3 DEF Init, OrphansNeedFaults

\* Between two commands, only a fault has left a primary on a live branch no
\* journal and no recovery record names, and each left one at most, for any
\* number of repositories: the journal is written after each of them
\* (engine.go:78-79, Fix A).
THEOREM OnlyFaultsLeaveOrphans ==
    ASSUME ~Racing, ~DetachedCommits
    PROVE  Spec => []UnjournaledNeedsFault
<1>1. InOrder /\ OrphansNeedFaults /\ [Next]_vars => (InOrder /\ OrphansNeedFaults)'
  BY NextKept, NextOrphans DEF InOrder
<1>2. InOrder /\ OrphansNeedFaults => UnjournaledNeedsFault
  <2> SUFFICES ASSUME InOrder, OrphansNeedFaults, cmd = "idle"
               PROVE  Cardinality({r \in Repo : /\ head[r] \in Live /\ journal[r] = None
                                                /\ r \notin archived}) <= faults
    BY DEF UnjournaledNeedsFault
  <2> DEFINE Left == {r \in Repo : /\ head[r] \in Live /\ journal[r] = None
                                   /\ r \notin archived}
  <2>1. Left \subseteq Orphans
    BY SettledCommands, SettledRecord DEF Orphans, Orphan
  <2>2. IsFiniteSet(Orphans)
    BY RepoAssumption, FS_Subset DEF Orphans
  <2>3. faults \in Nat
    BY ConstantsAssumption DEF InOrder, Sound, Typed, TypeOK, GhostOK
  <2>4. /\ Cardinality(Left) <= Cardinality(Orphans) /\ IsFiniteSet(Left)
    BY <2>1, <2>2, FS_Subset
  <2>5. Cardinality(Left) \in Nat /\ Cardinality(Orphans) \in Nat
    BY <2>2, <2>4, FS_CardinalityType
  <2>6. Cardinality(Orphans) <= faults
    BY DEF OrphansNeedFaults
  <2> HIDE DEF Left
  <2>7. Cardinality(Left) <= faults
    BY <2>3, <2>4, <2>5, <2>6
  <2> QED BY <2>7 DEF Left
<1> QED BY <1>1, <1>2, InitKept, InitOrphans, PTL DEF Spec

-----------------------------------------------------------------------------
(* The slice only moves on, and so do the targets that are recorded.        *)

LEMMA RefsSet ==
    ASSUME Typed, NEW r \in Repo, NEW b \in Branch, NEW c,
           refs' = [refs EXCEPT ![r][b] = c]
    PROVE  \A q \in Repo : \A x \in Branch :
             refs'[q][x] = IF q = r /\ x = b THEN c ELSE refs[q][x]
BY DEF Typed, TypeOK, GitOK

LEMMA HeadReset ==
    ASSUME Typed, NEW r \in Repo, NEW c, ResetHead(r, c)
    PROVE  \A q \in Repo : \A x \in Branch :
             refs'[q][x] = IF q = r /\ x = head[r] THEN c ELSE refs[q][x]
<1>1. CASE head[r] = "detached"
  <2>1. "detached" \notin Branch
    BY DEF Branch, Live
  <2> QED BY <1>1, <2>1 DEF ResetHead
<1>2. CASE head[r] # "detached"
  <2>1. head[r] \in Branch /\ refs' = [refs EXCEPT ![r][head[r]] = c]
    BY <1>2 DEF ResetHead, Typed, TypeOK, GitOK
  <2> QED BY <2>1 DEF Typed, TypeOK, GitOK
<1> QED BY <1>1, <1>2

\* The branches of every entry, in memory or on disk.
LEMMA EntryBranches ==
    ASSUME InOrder, NEW r \in Repo
    PROVE  /\ journal[r] # None => journal[r].temp \in Live
           /\ mem[r] # None => mem[r].temp \in Live
           /\ draft # None => draft.temp \in Live
           /\ Live \subseteq Branch /\ "slice" \notin Live /\ "rescue" \notin Live
           /\ "slice" \in Branch /\ "rescue" \in Branch
BY EntryFields DEF InOrder, Sound, Typed, TypeOK, JournalOK, CommandOK, Live, Branch

\* A step that moves, makes or deletes one branch.
OneBranch(r, b) ==
    \E c : \A q \in Repo : \A x \in Branch :
             refs'[q][x] = IF q = r /\ x = b THEN c ELSE refs[q][x]

LEMMA ActivateMovesLive ==
    ASSUME InOrder, SwitchToLive
    PROVE  cur \in Repo /\ OneBranch(cur, draft.temp) /\ draft.temp \in Live
<1>1. pc = "switch" /\ refs' = [refs EXCEPT ![cur][draft.temp] = draft.target]
  BY DEF SwitchToLive
<1>2. cur \in Repo /\ draft # None
  BY <1>1, InActivation, NoneAssumption
<1>3. draft.temp \in Live /\ draft.temp \in Branch
  BY <1>2, EntryBranches
<1> QED BY <1>1, <1>2, <1>3, RefsSet DEF OneBranch, InOrder, Sound

\* The branches a step may move, make or delete: not the slice, but when the
\* user commits in its worktree.
RefsStep ==
    \/ UNCHANGED refs
    \/ \E r \in Repo : \E b \in Branch \ {"slice"} : OneBranch(r, b)
    \/ \E r \in Repo : \E b \in Live : \E c \in Commit \cup {None} :
         \A q \in Repo : \A x \in Branch :
           refs'[q][x] = IF q = r /\ x = "rescue" THEN c
                         ELSE IF q = r /\ x = b THEN None ELSE refs[q][x]
    \/ \E r \in Repo : SourceMove(r)

LEMMA HeadMoves ==
    ASSUME InOrder, NEW r \in Repo, NEW c, UNCHANGED refs \/ ResetHead(r, c)
    PROVE  RefsStep
<1>1. Typed /\ head[r] # "slice" /\ head[r] \in Branch \cup {"detached"}
  BY SoundParts DEF InOrder, Sound, HeadsOffSlice, Typed, TypeOK, GitOK
<1>2. CASE ResetHead(r, c) /\ head[r] # "detached"
  <2>1. OneBranch(r, head[r])
    BY <1>1, <1>2, HeadReset DEF OneBranch
  <2> QED BY <1>1, <1>2, <2>1 DEF RefsStep
<1> QED BY <1>2 DEF RefsStep, ResetHead

LEMMA UnwindRefs ==
    ASSUME InOrder, NEW r \in Repo, DeactivateRepo(r)
    PROVE  \/ UNCHANGED refs
           \/ refs' = [refs EXCEPT ![r][mem[r].temp] = None]
           \/ /\ head[r] = mem[r].temp
              /\ \A q \in Repo : \A x \in Branch :
                   refs'[q][x] = IF q = r /\ x = "rescue" THEN refs[r][mem[r].temp]
                                 ELSE IF q = r /\ x = mem[r].temp THEN None
                                 ELSE refs[q][x]
<1>1. CASE refs' = [refs EXCEPT ![r] = [@ EXCEPT !["rescue"] = refs[r][mem[r].temp],
                                                 ![mem[r].temp] = None]]
           /\ head[r] = mem[r].temp
  <2>1. mem[r] \in Entry
    BY UndoingParts DEF DeactivateRepo, Undoing
  <2>2. mem[r].temp \in Branch /\ mem[r].temp # "rescue" /\ "rescue" \in Branch
    BY <2>1, EntryFields DEF Live, Branch
  <2>3. refs \in [Repo -> [Branch -> Commit \cup {None}]]
    BY DEF InOrder, Sound, Typed, TypeOK, GitOK
  <2>4. \A q \in Repo \ {r} : refs'[q] = refs[q]
    BY <1>1, <2>3
  <2>5. refs'[r] = [refs[r] EXCEPT !["rescue"] = refs[r][mem[r].temp],
                                   ![mem[r].temp] = None]
    BY <1>1, <2>3
  <2>6. \A x \in Branch : refs'[r][x] = IF x = "rescue" THEN refs[r][mem[r].temp]
                                        ELSE IF x = mem[r].temp THEN None ELSE refs[r][x]
    BY <2>2, <2>3, <2>5
  <2> QED BY <1>1, <2>4, <2>6
<1> QED BY <1>1 DEF DeactivateRepo, DeleteTempBranchIfAtTarget

LEMMA NextRefs ==
    ASSUME InOrder, [Next]_vars
    PROVE  RefsStep
<1>0. Typed /\ HeadsOffSlice
  BY SoundParts DEF InOrder, Sound
<1>1. CASE StartCommand /\ ~\E r \in Repo : DoctorDropsOrphan(r)
  BY <1>1 DEF RefsStep, StartCommand, StartActivate, StartDeactivate, Begin,
     StartDeactivateDrifted, StartRefresh, StartMirror, RecoverActivation,
     DoctorDropsStaleJournal
<1>2. CASE \E r \in Repo : DoctorDropsOrphan(r)
  <2>1. PICK r \in Repo : DoctorDropsOrphan(r)
    BY <1>2
  <2>2. UNCHANGED refs \/ refs' = [refs EXCEPT ![r]["live"] = None]
    BY <2>1 DEF DoctorDropsOrphan
  <2>3. "live" \in Branch \ {"slice"}
    BY DEF Branch, Live
  <2> QED BY <1>0, <2>2, <2>3, RefsSet DEF RefsStep, OneBranch
<1>3. CASE Activate
  <2>1. CASE SwitchToLive
    <3>1. draft.temp \in Branch \ {"slice"}
      BY <2>1, ActivateMovesLive DEF Branch, Live
    <3> QED BY <2>1, <3>1, ActivateMovesLive DEF RefsStep
  <2> QED BY <1>3, <2>1 DEF RefsStep, Activate, ActivateRepo, ActivateRefused,
          StashNotPinned, SwitchToLiveFails, CaptureBaseline, CaptureBaselineFails,
          JournalActivated, JournalActivatedFails, FinishActivate
<1>4. CASE Deactivate \/ SyncRound
  BY <1>4 DEF RefsStep, Deactivate, ClearWorkingMirror, ClearWorkingMirrorFails,
     SaveCleared, MirrorsCleared, ArchiveDrift, SyncRound, StartSync, StartSyncDrifted,
     SyncRefused
<1>5. CASE Unwinds
  <2>1. CASE \E r \in Repo : DeactivateRepo(r)
    <3>1. PICK r \in Repo : DeactivateRepo(r)
      BY <2>1
    <3>2. mem[r] # None /\ mem[r].temp \in Live
      BY <3>1, UndoingParts, EntryFields, NoneAssumption DEF DeactivateRepo, Undoing
    <3>3. /\ mem[r].temp \in Branch \ {"slice"}
          /\ refs[r][mem[r].temp] \in Commit \cup {None}
      BY <3>2, EntryBranches DEF InOrder, Sound, Typed, TypeOK, GitOK
    <3>4. refs' = [refs EXCEPT ![r][mem[r].temp] = None] => OneBranch(r, mem[r].temp)
      BY <1>0, <3>3, RefsSet DEF OneBranch
    <3> QED BY <3>1, <3>2, <3>3, <3>4, UnwindRefs DEF RefsStep
  <2>2. CASE DeleteTempBranch
    <3>1. cur \in Repo /\ mem[cur].temp \in Branch \ {"slice"}
      <4>1. cur \in Repo /\ mem[cur] \in Entry
        BY <2>2, AtStep DEF DeleteTempBranch
      <4> QED BY <4>1, EntryFields DEF Live, Branch
    <3>2. UNCHANGED refs \/ refs' = [refs EXCEPT ![cur][mem[cur].temp] = None]
      BY <2>2 DEF DeleteTempBranch, DeleteTempBranchIfAtTarget
    <3>3. ~UNCHANGED refs => OneBranch(cur, mem[cur].temp)
      BY <1>0, <3>1, <3>2, RefsSet DEF OneBranch
    <3> QED BY <3>1, <3>3 DEF RefsStep
  <2> QED BY <1>5, <2>1, <2>2 DEF RefsStep, Unwinds, DeactivateRepoFails,
          RestoreAfterRescue, PopPinnedStash, FinishUndo, FinishUnwind
<1>6. CASE Refresh
  <2>1. CASE \E r \in Repo : RefreshRepo(r)
    <3>1. PICK r \in Repo : RefreshRepo(r)
      BY <2>1
    <3>2. UNCHANGED refs \/ refs' = [refs EXCEPT ![r][mem[r].temp] = srcs[r].at]
      BY <3>1 DEF RefreshRepo
    <3>3. mem[r].temp \in Branch \ {"slice"}
      <4>1. mem[r] \in Entry
        BY <3>1 DEF RefreshRepo, InOrder, Sound, Typed, Control, Operands, Listed
      <4> QED BY <4>1, EntryFields DEF Live, Branch
    <3>4. CASE refs' = [refs EXCEPT ![r][mem[r].temp] = srcs[r].at]
      <4>1. \A q \in Repo : \A x \in Branch :
              refs'[q][x] = IF q = r /\ x = mem[r].temp THEN srcs[r].at ELSE refs[q][x]
        BY <1>0, <3>3, <3>4 DEF Typed, TypeOK, GitOK
      <4>2. OneBranch(r, mem[r].temp)
        BY <4>1 DEF OneBranch
      <4> QED BY <3>3, <4>2 DEF RefsStep
    <3> QED BY <3>2, <3>4 DEF RefsStep
  <2> QED BY <1>6, <2>1 DEF RefsStep, Refresh, RefreshRepoFails, SaveRefreshed,
          FinishRefresh
<1>7. CASE Sync
  <2>1. CASE SaveSynced
    <3>1. cur \in Repo
      BY <2>1 DEF SaveSynced, InOrder, Sound, Typed, Control, Operands, RepoSteps, TypeOK,
         CommandOK
    <3>2. UNCHANGED refs \/ ResetHead(cur, srcs[cur].at)
      BY <2>1 DEF SaveSynced
    <3> QED BY <1>0, <3>1, <3>2, HeadMoves
  <2>2. CASE \E r \in Repo : SyncApply(r) \/ SyncApplyFails(r)
    <3>1. \E r \in Repo : UNCHANGED refs \/ ResetHead(r, srcs[r].at)
      BY <2>2 DEF SyncApply, SyncApplyFails
    <3> QED BY <3>1, HeadMoves
  <2> QED BY <1>7, <2>1, <2>2 DEF RefsStep, Sync, SyncSkip
<1>8. CASE UserInPrimary
  <2>1. CASE \E r \in Repo : UserCommit(r)
    BY <2>1, HeadMoves DEF UserCommit
  <2>2. CASE \E r \in Repo : UserDeletesPrior(r)
    <3>1. "trunk" \in Branch \ {"slice"}
      BY DEF Branch
    <3>2. PICK r \in Repo : UserDeletesPrior(r)
      BY <2>2
    <3> QED BY <1>0, <3>1, <3>2, RefsSet DEF UserDeletesPrior, RefsStep, OneBranch
  <2>3. CASE \E r \in Repo : UserRecreatesPrior(r)
    <3>1. PICK r \in Repo : UserRecreatesPrior(r)
      BY <2>3
    <3>2. journal[r].prior \in Branch \ {"slice"}
      BY <3>1, EntryFields, SoundParts DEF UserRecreatesPrior, InOrder, Sound, Typed, TypeOK,
         JournalOK, Fine, AllFine, OffSlice
    <3>3. refs' = [refs EXCEPT ![r][journal[r].prior] = journal[r].priorAt]
      BY <3>1 DEF UserRecreatesPrior
    <3>4. journal[r].prior \in Branch
      BY <3>2
    <3>5. OneBranch(r, journal[r].prior)
      BY <1>0, <3>3, <3>4, RefsSet DEF OneBranch
    <3> QED BY <3>2, <3>5 DEF RefsStep
  <2> QED BY <1>8, <2>1, <2>2, <2>3 DEF UserInPrimary, RefsStep, UserEdit, UserDetach,
          UserSwitch, UserDropsStash
<1>9. CASE UserInWorktree \/ Crash \/ UNCHANGED vars
  BY <1>9 DEF UserInWorktree, RefsStep, SourceEdit, Crash, vars
<1> QED BY <1>1, <1>2, <1>3, <1>4, <1>5, <1>6, <1>7, <1>8, <1>9, UserSteps
        DEF Next, CommandStep

-----------------------------------------------------------------------------
(* Without a fault, the target of an entry is where its live branch is.     *)

LEMMA SliceSteps ==
    ASSUME InOrder, NEW q \in Repo, SourceMove(q)
    PROVE  \E c : refs' = [refs EXCEPT ![q]["slice"] = c]
BY SliceMoved DEF InOrder, Sound, Typed, TypeOK, GitOK, Control, SliceExists

\* Only a refresh puts a target behind the live branch.
LEMMA RewoundGrows ==
    ASSUME [Next]_vars
    PROVE  rewound \subseteq rewound'
<1>1. CASE StartCommand \/ SyncRound
  BY <1>1 DEF StartCommand, SyncRound, StartActivate, StartDeactivate, ghosts,
     StartDeactivateDrifted, StartRefresh, StartMirror, RecoverActivation,
     DoctorDropsStaleJournal, DoctorDropsOrphan, StartSync, StartSyncDrifted, SyncRefused
<1>2. CASE Activate \/ Deactivate \/ Crash
  BY <1>2 DEF Activate, ActivateRepo, ActivateRefused, StashNotPinned, ghosts,
     SwitchToLive, SwitchToLiveFails, CaptureBaseline, CaptureBaselineFails, JournalActivated,
     JournalActivatedFails, FinishActivate, Deactivate, ClearWorkingMirror,
     ClearWorkingMirrorFails, SaveCleared, MirrorsCleared, ArchiveDrift, Crash
<1>3. CASE Unwinds
  BY <1>3 DEF Unwinds, DeactivateRepo, DeactivateRepoFails, RestoreAfterRescue, ghosts,
     DeleteTempBranch, PopPinnedStash, FinishUndo, FinishUnwind
<1>4. CASE Refresh \/ Sync
  BY <1>4 DEF Refresh, RefreshRepo, RefreshRepoFails, SaveRefreshed, FinishRefresh, ghosts,
     Sync, SyncSkip, SyncApply, SyncApplyFails, SaveSynced
<1>5. CASE User \/ UNCHANGED vars
  BY <1>5 DEF User, UserEdit, UserCommit, UserDetach, UserSwitch, UserDeletesPrior,
     UserRecreatesPrior, UserDropsStash, SourceEdit, SourceMove, SourceCommit, SourceReset,
     userUnchanged, vars
<1> QED BY <1>1, <1>2, <1>3, <1>4, <1>5 DEF Next, CommandStep

\* Where an entry of the next state comes from when it names the same branch
\* and the same target as one that tracks its branch.
TrackKnown(e, r) ==
    \/ e = None
    \/ mem[r] # None /\ e.temp = mem[r].temp /\ e.target = mem[r].target
    \/ /\ journal[r] # None /\ e = journal[r]
       /\ ~(r = cur /\ pc \in {"refreshed", "synced"})

\* The steps that move a live branch of an entry or make an entry.
Tracked ==
    \/ SwitchToLive \/ CaptureBaseline \/ CaptureBaselineFails
    \/ \E r \in Repo : RefreshRepo(r) \/ SyncApply(r) \/ UserCommit(r)
                       \/ UserRecreatesPrior(r)

LEMMA TracksRecorded ==
    ASSUME ~Racing, InOrder, [Next]_vars, UNCHANGED faults, ~Tracked, NEW r \in Repo
    PROVE  /\ TrackKnown(mem'[r], r)
           /\ TrackKnown(journal'[r], r) \/ (r = cur' /\ pc' \in {"refreshed", "synced"})
<1>0. Empty[r] = None /\ faults + 1 # faults
  BY DEF Empty, InOrder, Sound, Typed, TypeOK, GhostOK
<1>1. pc = "idle" <=> cmd = "idle"
  BY DEF InOrder, Sound, Typed, Control, PcFitsCommand
<1>2. CASE StartCommand \/ SyncRound
  <2>1. cmd = "idle" /\ mem' \in {mem, journal, Empty} /\ journal' \in {journal, Empty}
    BY <1>2 DEF StartCommand, SyncRound, StartActivate, StartDeactivate, Archive,
       StartDeactivateDrifted, StartRefresh, StartMirror, RecoverActivation, Begin,
       DoctorDropsStaleJournal, DoctorDropsOrphan, StartSync, StartSyncDrifted, SyncRefused
  <2> QED BY <1>0, <1>1, <2>1 DEF TrackKnown
<1>3. CASE /\ CommandStep /\ pc \notin {"refreshed", "synced"}
           /\ ~\E q \in Repo : ClearWorkingMirror(q)
  <2>1. CASE Activate
    <3>1. mem' \in {mem, Empty} /\ journal' \in {journal, mem}
      BY <2>1, <1>0 DEF Tracked, Activate, ActivateRepo, ActivateRefused, StashNotPinned,
         SwitchToLiveFails, JournalActivated, JournalActivatedFails, FinishActivate, Quit,
         EndOfCommand, Unwind
    <3> QED BY <1>0, <1>3, <3>1 DEF TrackKnown
  <2>2. CASE Deactivate \/ Refresh \/ Sync
    <3>1. mem' \in {mem, Empty} /\ journal' \in {journal, mem, Empty}
      BY <1>3, <2>2 DEF Tracked, Deactivate, ClearWorkingMirrorFails, SaveCleared,
         MirrorsCleared, ArchiveDrift, Archive, Refresh, RefreshRepoFails, SaveRefreshed,
         FinishRefresh, Sync, SyncSkip, SyncApplyFails, SaveSynced, Quit, EndOfCommand
    <3> QED BY <1>0, <1>3, <3>1 DEF TrackKnown
  <2>3. CASE Unwinds
    <3>1. mem'[r] \in {mem[r], None} /\ journal'[r] \in {journal[r], mem[r], None}
      BY <1>0, <2>3 DEF Unwinds, DeactivateRepo, DeactivateRepoFails, RestoreAfterRescue,
         DeleteTempBranch, PopPinnedStash, FinishUndo, FinishUnwind, Quit, EndOfCommand,
         Unwind, Only
    <3> QED BY <1>3, <3>1 DEF TrackKnown
  <2> QED BY <1>3, <2>1, <2>2, <2>3 DEF CommandStep
<1>4. CASE pc \in {"refreshed", "synced"} /\ CommandStep
  <2>1. cmd \in {"refresh", "sync"}
    BY <1>4 DEF InOrder, Sound, Typed, Control, PcFitsCommand
  <2>2. SaveRefreshed \/ SaveSynced
    BY <1>4, <2>1 DEF CommandStep, Activate, ActivateRepo, ActivateRefused, StashNotPinned,
       SwitchToLive, SwitchToLiveFails, CaptureBaseline, CaptureBaselineFails,
       JournalActivated, JournalActivatedFails, FinishActivate, Deactivate,
       ClearWorkingMirror, ClearWorkingMirrorFails, SaveCleared, MirrorsCleared,
       ArchiveDrift, Refresh, RefreshRepo, RefreshRepoFails, FinishRefresh, Sync,
       SyncSkip, SyncApply, SyncApplyFails, Unwinds, DeactivateRepo, DeactivateRepoFails,
       RestoreAfterRescue, DeleteTempBranch, PopPinnedStash, FinishUndo, FinishUnwind
  <2>3. journal' = mem /\ UNCHANGED mem
    BY <1>0, <2>2 DEF SaveRefreshed, SaveSynced, Fault
  <2> QED BY <2>3 DEF TrackKnown
<1>5. CASE \E q \in Repo : ClearWorkingMirror(q)
  <2>1. PICK q \in Repo : ClearWorkingMirror(q)
    BY <1>5
  <2>2. /\ pc = "clear" /\ mem' = [mem EXCEPT ![q].mirror = None] /\ mem[q] \in Entry
        /\ UNCHANGED journal
    <3>1. cmd \in Listed /\ q \in todo
      BY <2>1 DEF ClearWorkingMirror, InOrder, Sound, Typed, Control, PcFitsCommand, Listed
    <3> QED BY <2>1, <3>1 DEF ClearWorkingMirror, InOrder, Sound, Typed, Control, Operands
  <2>3. \/ mem'[r] = mem[r]
        \/ r = q /\ mem'[r].target = mem[r].target /\ mem'[r].temp = mem[r].temp
    BY <2>2 DEF InOrder, Sound, Typed, TypeOK, CommandOK, Entry
  <2> QED BY <2>2, <2>3, NoneAssumption DEF TrackKnown
<1>6. CASE User \/ UNCHANGED vars
  <2>1. UNCHANGED <<mem, journal, cur, pc>>
    BY <1>6, UserSteps DEF vars
  <2> QED BY <2>1 DEF TrackKnown
<1>7. CASE Crash
  BY <1>0, <1>7 DEF Crash, Fault
<1> QED BY <1>2, <1>3, <1>4, <1>5, <1>6, <1>7 DEF Next

\* Those steps aside, a live branch stays where it is or is deleted.
LEMMA LiveRefs ==
    ASSUME InOrder, [Next]_vars, UNCHANGED faults, ~Tracked, NEW r \in Repo, NEW b \in Live
    PROVE  refs'[r][b] \in {refs[r][b], None}
<1>0. b \in Branch /\ b # "slice" /\ b # "rescue" /\ b # "trunk" /\ faults + 1 # faults
  BY DEF Live, Branch, InOrder, Sound, Typed, TypeOK, GhostOK
<1>1. refs \in [Repo -> [Branch -> Commit \cup {None}]]
  BY DEF InOrder, Sound, Typed, TypeOK, GitOK
<1>2. CASE StartCommand \/ SyncRound
  <2>1. UNCHANGED refs \/ \E q \in Repo : refs' = [refs EXCEPT ![q]["live"] = None]
    BY <1>2 DEF StartCommand, SyncRound, StartActivate, StartDeactivate, Begin,
       StartDeactivateDrifted, StartRefresh, StartMirror, RecoverActivation,
       DoctorDropsStaleJournal, DoctorDropsOrphan, StartSync, StartSyncDrifted, SyncRefused
  <2> QED BY <1>0, <1>1, <2>1
<1>3. CASE Unwinds
  <2>1. CASE \E q \in Repo : DeactivateRepo(q)
    <3>1. PICK q \in Repo : DeactivateRepo(q)
      BY <2>1
    <3>2. CASE refs' = [refs EXCEPT ![q][mem[q].temp] = None]
      BY <1>0, <1>1, <3>2
    <3> QED BY <1>0, <3>1, <3>2, UnwindRefs
  <2>2. UNCHANGED refs \/ refs' = [refs EXCEPT ![cur][mem[cur].temp] = None]
        \/ \E q \in Repo : DeactivateRepo(q)
    BY <1>3 DEF Unwinds, DeactivateRepoFails, RestoreAfterRescue, DeleteTempBranch,
       DeleteTempBranchIfAtTarget, PopPinnedStash, FinishUndo, FinishUnwind
  <2> QED BY <1>0, <1>1, <2>1, <2>2
<1>4. CASE Activate \/ Deactivate \/ Refresh \/ Sync \/ Crash
  BY <1>0, <1>4 DEF Tracked, Activate, ActivateRepo, ActivateRefused, StashNotPinned,
     SwitchToLiveFails, JournalActivated, JournalActivatedFails, FinishActivate,
     Deactivate, ClearWorkingMirror, ClearWorkingMirrorFails, SaveCleared, MirrorsCleared,
     ArchiveDrift, Refresh, RefreshRepoFails, SaveRefreshed, FinishRefresh, Sync, SyncSkip,
     SyncApplyFails, SaveSynced, Crash, Fault
<1>5. CASE User
  <2>1. UNCHANGED refs
        \/ \E q \in Repo : \/ refs' = [refs EXCEPT ![q]["trunk"] = None]
                           \/ \E c : refs' = [refs EXCEPT ![q]["slice"] = c]
    BY <1>5, SliceSteps DEF User, Tracked, UserEdit, UserDetach, UserSwitch,
       UserDeletesPrior, UserDropsStash, SourceEdit
  <2> QED BY <1>0, <1>1, <2>1
<1> QED BY <1>2, <1>3, <1>4, <1>5 DEF Next, CommandStep, vars

\* While an activation captures a baseline, its live branch stands.
LEMMA BaselineStands ==
    ASSUME ~Racing, InOrder, [Next]_vars, ~SwitchToLive, pc' = "baseline"
    PROVE  /\ pc = "baseline" /\ UNCHANGED <<draft, cur>>
           /\ refs'[cur][draft.temp] = refs[cur][draft.temp]
<1>0. pc = "idle" <=> cmd = "idle"
  BY DEF InOrder, Sound, Typed, Control, PcFitsCommand
<1>1. CASE StartCommand \/ SyncRound
  BY <1>0, <1>1 DEF StartCommand, SyncRound, StartActivate, StartDeactivate, Begin,
     StartDeactivateDrifted, StartRefresh, StartMirror, RecoverActivation,
     DoctorDropsStaleJournal, DoctorDropsOrphan, StartSync, StartSyncDrifted, SyncRefused
<1>2. CASE Activate \/ Crash
  BY <1>2 DEF Activate, ActivateRepo, ActivateRefused, StashNotPinned,
     SwitchToLiveFails, CaptureBaseline, CaptureBaselineFails, JournalActivated,
     JournalActivatedFails, FinishActivate, Quit, EndOfCommand, Unwind, Crash
<1>3. CASE Deactivate \/ Refresh \/ Sync
  <2>1. cmd # "activate" \/ pc' # "baseline"
    BY <1>3 DEF InOrder, Sound, Typed, Control, PcFitsCommand, Deactivate,
       ClearWorkingMirror, ClearWorkingMirrorFails, SaveCleared, MirrorsCleared,
       ArchiveDrift, Refresh, RefreshRepo, RefreshRepoFails, SaveRefreshed, FinishRefresh,
       Sync, SyncSkip, SyncApply, SyncApplyFails, SaveSynced, Quit, EndOfCommand
  <2>2. pc' \in {"clear", "cleared", "drifted", "repo", "refreshed", "synced", "idle"}
        \/ UNCHANGED pc
    BY <1>3 DEF Deactivate, ClearWorkingMirror, ClearWorkingMirrorFails, SaveCleared,
       MirrorsCleared, ArchiveDrift, Refresh, RefreshRepo, RefreshRepoFails, SaveRefreshed,
       FinishRefresh, Sync, SyncSkip, SyncApply, SyncApplyFails, SaveSynced, Quit,
       EndOfCommand
  <2>3. pc = "baseline" => cmd = "activate"
    BY DEF InOrder, Sound, Typed, Control, PcFitsCommand
  <2> QED BY <2>1, <2>2, <2>3
<1>4. CASE Unwinds
  BY <1>4 DEF Unwinds, DeactivateRepo, DeactivateRepoFails, RestoreAfterRescue, RepoGoesOn,
     DeleteTempBranch, PopPinnedStash, FinishUndo, FinishUnwind, Quit, EndOfCommand,
     RepoFails, RepoDone, Unwind
<1>5. CASE User \/ UNCHANGED vars
  <2>1. UNCHANGED <<pc, draft, cur>>
    BY <1>5, UserSteps DEF vars
  <2>2. UNCHANGED refs \/ \E q \in Repo : \E c : refs' = [refs EXCEPT ![q]["slice"] = c]
    BY <1>0, <1>5, <2>1, UserSteps, SliceSteps DEF vars, UserInWorktree, SourceEdit
  <2>3. cur \in Repo /\ draft.temp \in Branch /\ draft.temp # "slice"
    BY <2>1, InActivation, EntryFields DEF Live, Branch
  <2>4. refs \in [Repo -> [Branch -> Commit \cup {None}]]
    BY DEF InOrder, Sound, Typed, TypeOK, GitOK
  <2>5. refs'[cur][draft.temp] = refs[cur][draft.temp]
    BY <2>2, <2>3, <2>4
  <2> QED BY <2>1, <2>5
<1> QED BY <1>1, <1>2, <1>3, <1>4, <1>5 DEF Next, CommandStep

LEMMA KnownTracks ==
    ASSUME InOrder, TargetsTrack, faults = 0, NEW r \in Repo, NEW e, e # None, TrackKnown(e, r)
    PROVE  Tracks(r, e) /\ e.temp \in Live
BY EntryBranches DEF TargetsTrack, TrackKnown, Entries, Tracks

LEMMA RestTracks ==
    ASSUME ~Racing, InOrder, [Next]_vars, UNCHANGED faults, ~Tracked, TargetsTrack
    PROVE  TargetsTrack'
<1> SUFFICES ASSUME faults = 0 PROVE TargetsTrack'
  BY DEF TargetsTrack
<1>1. ASSUME NEW r \in Repo, NEW e, e # None, TrackKnown(e, r)
      PROVE  LET tip == refs'[r][e.temp] IN
             tip # None => r \in rewound' \/ tip.own # {} \/ tip = e.target
  <2>1. Tracks(r, e) /\ refs'[r][e.temp] \in {refs[r][e.temp], None}
    BY <1>1, KnownTracks, LiveRefs
  <2> QED BY <2>1, RewoundGrows DEF Tracks
<1>2. \A r \in Entries(mem)' : Tracks(r, mem[r])'
  BY <1>1, TracksRecorded DEF Entries, Tracks
<1>3. \A r \in Entries(journal)' :
        \/ r = cur' /\ pc' \in {"refreshed", "synced"}
        \/ Tracks(r, journal[r])'
  BY <1>1, TracksRecorded DEF Entries, Tracks
<1>4. ASSUME pc' = "baseline"
      PROVE  refs'[cur'][draft'.temp] = draft'.target
  BY <1>4, BaselineStands DEF Tracked, TargetsTrack
<1> QED BY <1>2, <1>3, <1>4 DEF TargetsTrack

LEMMA ActivationTracks ==
    ASSUME InOrder, Typed', TargetsTrack, faults = 0, UNCHANGED faults,
           SwitchToLive \/ CaptureBaseline
    PROVE  TargetsTrack'
<1>0. UNCHANGED rewound
  BY DEF SwitchToLive, CaptureBaseline, ghosts
<1>1. /\ cur \in Repo /\ mem[cur] = None /\ journal[cur] = None /\ draft \in Entry
      /\ pc \in {"switch", "baseline"} /\ pc' \in {"baseline", "journal"}
      /\ UNCHANGED <<journal, cur>> /\ draft # None
  BY InActivation, NoneAssumption DEF SwitchToLive, CaptureBaseline
<1>2. draft.temp \in Live /\ draft.temp \in Branch
  BY <1>1, EntryBranches
<1>3. /\ refs'[cur][draft.temp] = draft.target
      /\ \A r \in Repo \ {cur} : refs'[r] = refs[r]
      /\ \A r \in Repo \ {cur} : mem'[r] = mem[r]
      /\ mem'[cur] # None => /\ mem'[cur].temp = draft.temp
                             /\ mem'[cur].target = draft.target
  <2>1. CASE SwitchToLive
    <3>1. /\ refs' = [refs EXCEPT ![cur][draft.temp] = draft.target]
          /\ mem' = mem \/ mem' = [mem EXCEPT ![cur] = draft]
      BY <2>1 DEF SwitchToLive
    <3> QED BY <1>1, <1>2, <3>1 DEF InOrder, Sound, Typed, TypeOK, GitOK, CommandOK
  <2>2. CASE CaptureBaseline
    <3>1. /\ UNCHANGED refs /\ pc = "baseline"
          /\ mem' = [mem EXCEPT ![cur] = [draft EXCEPT !.mirror = CaptureSnapshot(cur)]]
      BY <2>2 DEF CaptureBaseline
    <3>2. refs[cur][draft.temp] = draft.target
      BY <3>1 DEF TargetsTrack
    <3> QED BY <1>1, <3>1, <3>2 DEF InOrder, Sound, Typed, TypeOK, CommandOK, Entry
  <2> QED BY <2>1, <2>2
<1>4. \A r \in Entries(mem)' : Tracks(r, mem[r])'
  BY <1>0, <1>1, <1>3 DEF Entries, Tracks, TargetsTrack
<1>5. \A r \in Entries(journal)' : Tracks(r, journal[r])'
  BY <1>0, <1>1, <1>3 DEF Entries, Tracks, TargetsTrack
<1>6. pc' = "baseline" => draft' = draft
  BY DEF SwitchToLive, CaptureBaseline
<1> QED BY <1>1, <1>3, <1>4, <1>5, <1>6 DEF TargetsTrack

\* History has no cycles.
LEMMA SameCommit ==
    ASSUME NEW tip \in Commit, NEW new \in Commit,
           IsAncestor(new, tip), IsAncestor(tip, new), new.own = {}
    PROVE  tip = new
<1>1. tip.own = {}
  BY DEF IsAncestor
<1>2. new.line \in Ancestors[tip.line] /\ tip.line \in Ancestors[new.line]
  BY <1>1 DEF IsAncestor
<1>3. tip.line = new.line
  BY <1>2, AncestorsAssumption DEF Commit
<1> QED BY <1>1, <1>3 DEF Commit

LEMMA TargetMoveTracks ==
    ASSUME InOrder, Typed', TargetsTrack, faults = 0, UNCHANGED faults, NEW q \in todo,
           cmd \in {"refresh", "sync"}, pc = "repo", NEW c, NEW m,
           mem' = [mem EXCEPT ![q].target = c, ![q].mirror = m],
           pc' \in {"refreshed", "synced"}, cur' = q,
           UNCHANGED <<journal, cmd, todo, draft, failed>>,
           \A r \in Repo : \A x \in Branch :
             r # q \/ x # mem[q].temp => refs'[r][x] = refs[r][x],
           rewound \subseteq rewound',
           LET tip == refs'[q][mem[q].temp] IN
           tip # None => q \in rewound' \/ tip.own # {} \/ tip = c
    PROVE  TargetsTrack'
<1>1. /\ q \in Repo /\ mem[q] \in Entry /\ mem'[q] # None /\ mem[q] # None
      /\ SameSwap(mem[q], mem'[q]) /\ mem'[q].target = c
      /\ \A r \in Repo \ {q} : mem'[r] = mem[r]
  BY TargetMoves, NoneAssumption
<1>2. \A r \in Entries(mem)' : Tracks(r, mem[r])'
  <2>1. Tracks(q, mem[q])'
    BY <1>1 DEF Tracks, SameSwap
  <2>2. ASSUME NEW r \in Repo \ {q}, mem'[r] # None PROVE Tracks(r, mem[r])'
    <3>1. mem'[r] = mem[r] /\ Tracks(r, mem[r]) /\ mem[r].temp \in Branch
      BY <1>1, <2>2, EntryBranches DEF TargetsTrack, Entries
    <3>2. refs'[r][mem[r].temp] = refs[r][mem[r].temp]
      BY <3>1
    <3> QED BY <3>1, <3>2 DEF Tracks
  <2> QED BY <2>1, <2>2 DEF Entries
<1>3. \A r \in Entries(journal)' :
        \/ r = cur' /\ pc' \in {"refreshed", "synced"}
        \/ Tracks(r, journal[r])'
  <2>1. ASSUME NEW r \in Repo \ {q}, journal[r] # None PROVE Tracks(r, journal[r])'
    BY <2>1, EntryBranches DEF Tracks, TargetsTrack, Entries
  <2> QED BY <2>1 DEF Entries
<1> QED BY <1>2, <1>3 DEF TargetsTrack

LEMMA RefreshTracks ==
    ASSUME InOrder, Typed', TargetsTrack, faults = 0, UNCHANGED faults,
           NEW q \in Repo, RefreshRepo(q)
    PROVE  TargetsTrack'
<1> DEFINE new == srcs[q].at
<1> DEFINE tip == refs[q][mem[q].temp]
<1>1. /\ cmd = "refresh" /\ pc = "repo" /\ q \in todo /\ head[q] = mem[q].temp
      /\ (IsAncestor(tip, new) /\ refs' = [refs EXCEPT ![q][mem[q].temp] = new])
         \/ (IsAncestor(new, tip) /\ UNCHANGED refs)
      /\ \E m : mem' = [mem EXCEPT ![q].target = new, ![q].mirror = m]
      /\ cur' = q /\ pc' = "refreshed" /\ UNCHANGED <<journal, cmd, todo, draft, failed>>
      /\ rewound' = IF IsAncestor(tip, new) \/ tip.own # {} THEN rewound
                    ELSE rewound \cup {q}
  BY DEF RefreshRepo
<1>2. /\ mem[q] \in Entry /\ mem[q] # None /\ mem[q].temp \in Branch /\ mem[q].temp # "slice"
      /\ srcs[q] \in Snapshot /\ new.own = {}
  <2>1. mem[q] \in Entry /\ srcs[q] \in Snapshot
    BY <1>1 DEF InOrder, Sound, Typed, Control, Operands, Listed
  <2>2. srcs[q] # None /\ mem[q] # None
    BY <2>1, NoneAssumption
  <2>3. new.own = {}
    BY <2>2, SoundParts DEF InOrder, SrcsOurs
  <2> QED BY <2>1, <2>2, <2>3, EntryBranches, EntryFields DEF Live, Branch
<1>3. \A r \in Repo : \A x \in Branch :
        r # q \/ x # mem[q].temp => refs'[r][x] = refs[r][x]
  BY <1>1, <1>2 DEF InOrder, Sound, Typed, TypeOK, GitOK
<1>4. LET now == refs'[q][mem[q].temp] IN
      now # None => q \in rewound' \/ now.own # {} \/ now = new
  <2>1. CASE refs' = [refs EXCEPT ![q][mem[q].temp] = new]
    BY <1>2, <2>1 DEF InOrder, Sound, Typed, TypeOK, GitOK
  <2>2. CASE IsAncestor(new, tip) /\ UNCHANGED refs /\ tip # None
    <3>1. tip \in Commit /\ new \in Commit
      BY <1>2, <2>2 DEF InOrder, Sound, Typed, TypeOK, GitOK, Snapshot
    <3>2. CASE IsAncestor(tip, new)
      BY <1>2, <2>2, <3>1, <3>2, SameCommit
    <3> QED BY <1>1, <2>2, <3>2
  <2> QED BY <1>1, <2>1, <2>2
<1> HIDE DEF new, tip
<1>5. rewound \subseteq rewound'
  BY <1>1
<1> QED BY <1>1, <1>3, <1>4, <1>5, TargetMoveTracks

LEMMA SyncTracks ==
    ASSUME InOrder, Typed', TargetsTrack, faults = 0, UNCHANGED faults,
           NEW q \in Repo, SyncApply(q)
    PROVE  TargetsTrack'
<1>1. /\ cmd = "sync" /\ pc = "repo" /\ q \in todo /\ ResetHead(q, srcs[q].at)
      /\ mem' = [mem EXCEPT ![q].target = srcs[q].at, ![q].mirror = srcs[q]]
      /\ cur' = q /\ pc' = "synced" /\ UNCHANGED <<journal, cmd, todo, draft, failed>>
  BY DEF SyncApply
<1>2. head[q] = mem[q].temp /\ mem[q].temp \in Branch
  <2>1. head[q] = mem[q].temp
    BY <1>1 DEF InOrder, Sound, Safe, ValidUntilSynced, ValidMirror
  <2>2. mem[q] \in Entry
    BY <1>1 DEF InOrder, Sound, Typed, Control, Operands, Listed
  <2> QED BY <2>1, <2>2, EntryFields DEF Live, Branch
<1>3. \A r \in Repo : \A x \in Branch :
        refs'[r][x] = IF r = q /\ x = mem[q].temp THEN srcs[q].at ELSE refs[r][x]
  BY <1>1, <1>2, HeadReset DEF InOrder, Sound
<1>4. refs'[q][mem[q].temp] = srcs[q].at
  BY <1>2, <1>3
<1>5. \A r \in Repo : \A x \in Branch :
        r # q \/ x # mem[q].temp => refs'[r][x] = refs[r][x]
  BY <1>3
<1>6. UNCHANGED rewound
  BY DEF SyncApply, ghosts
<1> QED BY <1>1, <1>4, <1>5, <1>6, TargetMoveTracks

\* The user commits on a live branch, or recreates a prior branch: no entry
\* leads back to the live branch it names.
LEMMA UserTracks ==
    ASSUME ~Racing, InOrder, TargetsTrack, faults = 0, UNCHANGED faults, NEW q \in Repo,
           UserCommit(q) \/ UserRecreatesPrior(q)
    PROVE  TargetsTrack'
<1>1. /\ cmd = "idle" /\ pc = "idle" /\ mem = Empty
      /\ UNCHANGED <<journal, mem, cmd, pc, cur, draft>>
  <2>1. UserInPrimary
    BY DEF UserInPrimary
  <2>2. cmd = "idle" /\ UNCHANGED <<journal, mem, cmd, pc, cur, draft>>
    BY <2>1, UserSteps
  <2> QED BY <2>2 DEF InOrder, Sound, Typed, Control, PcFitsCommand, Booked, OneAhead
<1>0. UNCHANGED rewound
  BY DEF UserCommit, UserRecreatesPrior, userUnchanged
<1>2. ASSUME NEW r \in Repo, journal[r] # None
      PROVE  Tracks(r, journal[r])'
  <2>1. journal[r].temp \in Live /\ journal[r].temp \in Branch /\ Tracks(r, journal[r])
    BY <1>1, <1>2, EntryBranches DEF TargetsTrack, Entries
  <2>2. CASE UserCommit(q)
    <3>1. /\ ResetHead(q, [HeadCommit(q) EXCEPT !.own = @ \cup wt[q]]) /\ wt[q] # {}
          /\ HeadCommit(q) \in Commit
      BY <2>2, HeadCommitTyped DEF UserCommit, IsDirty, InOrder, Sound, Typed, Control
    <3>2. [HeadCommit(q) EXCEPT !.own = @ \cup wt[q]].own # {}
      BY <3>1 DEF Commit
    <3> DEFINE c == [HeadCommit(q) EXCEPT !.own = @ \cup wt[q]]
    <3> HIDE DEF c
    <3>3. \A p \in Repo : \A x \in Branch :
            refs'[p][x] = IF p = q /\ x = head[q] THEN c ELSE refs[p][x]
      BY <3>1, HeadReset DEF InOrder, Sound, c
    <3>4. \/ refs'[r][journal[r].temp] = refs[r][journal[r].temp]
          \/ refs'[r][journal[r].temp].own # {}
      BY <2>1, <3>2, <3>3 DEF c
    <3> QED BY <1>0, <1>1, <2>1, <3>4 DEF Tracks
  <2>3. CASE UserRecreatesPrior(q)
    <3>1. journal[q] # None /\ refs' = [refs EXCEPT ![q][journal[q].prior] = journal[q].priorAt]
      BY <2>3 DEF UserRecreatesPrior
    <3>2. journal[q].prior # journal[q].temp
      BY <3>1 DEF InOrder, Booked, EntriesOffTemp, OffTemp
    <3>3. refs'[r][journal[r].temp] = refs[r][journal[r].temp]
      BY <2>1, <3>1, <3>2 DEF InOrder, Sound, Typed, TypeOK, GitOK
    <3> QED BY <1>0, <1>1, <2>1, <3>3 DEF Tracks
  <2> QED BY <2>2, <2>3
<1>3. \A r \in Repo : mem'[r] = None
  BY <1>1 DEF Empty
<1> QED BY <1>1, <1>2, <1>3 DEF TargetsTrack, Entries

LEMMA NextTrack ==
    ASSUME ~Racing, InOrder, Typed', TargetsTrack, [Next]_vars
    PROVE  TargetsTrack'
<1> SUFFICES ASSUME faults' = 0 PROVE TargetsTrack'
  BY DEF TargetsTrack
<1>1. faults \in Nat
  BY ConstantsAssumption DEF InOrder, Sound, Typed, TypeOK, GhostOK
<1>2. faults = 0 /\ UNCHANGED faults
  BY <1>1, FaultsGrow
<1>3. CASE ~Tracked
  BY <1>2, <1>3, RestTracks
<1>4. ~CaptureBaselineFails
  BY <1>1, <1>2 DEF CaptureBaselineFails, Fault
<1> QED BY <1>2, <1>3, <1>4, ActivationTracks, RefreshTracks, SyncTracks, UserTracks
        DEF Tracked

\* Without a fault, between two commands, the journal never lags a live branch
\* nobody committed on, so that the next deactivate does not take the slice's
\* own commits for the user's (engine.go:335-339, Fix W1), but for a refresh
\* that followed a reset of the slice branch.
THEOREM TargetsNeverStale ==
    ASSUME ~Racing, ~DetachedCommits
    PROVE  Spec => []TargetTracksTemp
<1> DEFINE Inv == InOrder /\ TargetsTrack
<1>1. Init => Inv
  <2>1. Init => TargetsTrack
    BY DEF Init, Empty, Entries, TargetsTrack
  <2> QED BY <2>1, InitKept
<1>2. Inv /\ [Next]_vars => Inv'
  BY NextKept, NextTrack
<1>3. Inv => TargetTracksTemp
  BY DEF InOrder, Sound, Typed, Control, PcFitsCommand, TargetsTrack, TargetTracksTemp, Tracks
<1> QED BY <1>1, <1>2, <1>3, PTL DEF Spec

\* What the commands know of the primaries, and what of it is on disk.
THEOREM RecordsHold ==
    ASSUME ~Racing, ~DetachedCommits
    PROVE  Spec => []Recorded
<1> DEFINE Inv == InOrder /\ OrphansNeedFaults /\ TargetsTrack
<1>1. Init => Inv
  <2>1. Init => TargetsTrack
    BY DEF Init, Empty, Entries, TargetsTrack
  <2> QED BY <2>1, InitKept, InitOrphans
<1>2. Inv /\ [Next]_vars => Inv'
  BY NextKept, NextTrack, NextOrphans DEF InOrder
<1>3. Inv => Recorded
  BY DEF InOrder, Booked, Recorded
<1> QED BY <1>1, <1>2, <1>3, PTL DEF Spec

=============================================================================
