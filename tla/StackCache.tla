------------------------------- MODULE StackCache ------------------------------
(***************************************************************************)
(* The process-wide cache of Graphite stacks (internal/gt) in the server   *)
(* of a hub: readers of one repository that share its entry and its lock,  *)
(* and the read behind it (`gt state` in one of a few slots, else the      *)
(* metadata in git's refs).                                                *)
(*                                                                         *)
(* What changes a stack, `slis create` and `slis restack` among it, runs   *)
(* in other processes: their Invalidate drops an entry of a cache of their *)
(* own that dies with them.  So this cache learns of a change by the       *)
(* fingerprint or by the age of its entry.  A stack has a part the         *)
(* fingerprint sees (refs) and one it may not see (hidden); both are       *)
(* numbers that grow with each change.                                     *)
(***************************************************************************)
EXTENDS Naturals, Sequences

CONSTANTS
    Reader,     \* requests that may read at a time
    MaxReads,   \* bound: reads
    MaxChanges, \* bound: changes of the refs, and of the hidden part
    Tips,       \* after so many changes of the refs the first fingerprint returns
    MaxTime,    \* bound: ticks of the clock
    MaxAge,     \* ticks an entry may be served (stackCacheMaxAge)
    SpawnSlots, \* gt processes at a time (maxConcurrentSpawns)
    MaxFailures \* bound: git and gt commands that fail, requests that are cancelled

ASSUME StackAssumption ==
    /\ MaxReads \in Nat /\ MaxChanges \in Nat /\ MaxTime \in Nat /\ MaxFailures \in Nat
    /\ Tips \in Nat \ {0} /\ MaxAge \in Nat \ {0} /\ SpawnSlots \in Nat \ {0}

VARIABLES
    refs, hidden,  \* the repository: how often each part of its stack changed
    clock,         \* the time
    was,           \* per tick that is over: the hidden part when it ended
    entry,         \* the repository's entry
    reader,        \* per reader: where its read is
    spawned,       \* gt processes that run
    reads, failures

stackVars == <<refs, hidden, clock, was, entry, reader, spawned, reads, failures>>
repository == <<refs, hidden, clock, was>>

\* A stack as it was read: complete or the fallback's, and under a context that
\* had ended before it was complete.
Stack(r, h, whole, cut) == [refs |-> r, hidden |-> h, whole |-> whole, cut |-> cut]
NoStack == Stack(0, 0, FALSE, FALSE)
NoEntry == [valid |-> FALSE, fingerprint |-> 0, readAt |-> 0, state |-> NoStack, owner |-> FALSE]

\* What the read began from (since, begun), whether it goes through the cache, and
\* its answer, if it has one.
NoRead == [at |-> "idle", gone |-> FALSE, fingerprint |-> 0, keyed |-> FALSE, now |-> 0,
           got |-> NoStack, since |-> 0, begun |-> 0, answered |-> FALSE]

StackInit ==
    /\ refs = 0 /\ hidden = 0 /\ clock = 0 /\ was = <<>>
    /\ entry = NoEntry
    /\ reader = [r \in Reader |-> NoRead]
    /\ spawned = 0
    /\ reads = 0 /\ failures = 0

stackFingerprint == refs % Tips
CommandFails == failures < MaxFailures /\ failures' = failures + 1
ReaderAt(r, place) == reader[r].at = place
MoveReader(r, place) == reader' = [reader EXCEPT ![r].at = place]
Answer(r, stack) == [reader[r] EXCEPT !.at = "idle", !.got = stack, !.answered = TRUE]

-----------------------------------------------------------------------------
BeginRead(r) ==
    /\ ReaderAt(r, "idle") /\ reads < MaxReads
    /\ reads' = reads + 1
    /\ reader' = [reader EXCEPT ![r] =
                     [NoRead EXCEPT !.at = "fingerprint", !.since = refs, !.begun = clock]]
    /\ UNCHANGED <<repository, entry, spawned, failures>>

\* Without the repository's git directory (commonDir), or without a fingerprint,
\* the read goes around the cache.
TakeFingerprint(r) ==
    /\ ReaderAt(r, "fingerprint")
    /\ \/ /\ reader' = [reader EXCEPT ![r].at = "lock", ![r].keyed = TRUE,
                                      ![r].fingerprint = stackFingerprint]
          /\ UNCHANGED failures
       \/ reader[r].gone /\ MoveReader(r, "slot") /\ UNCHANGED failures
       \/ CommandFails /\ MoveReader(r, "slot")
    /\ UNCHANGED <<repository, entry, spawned, reads>>

Serve(r) ==
    /\ reader' = [reader EXCEPT ![r] = [Answer(r, entry.state) EXCEPT !.now = clock]]
    /\ UNCHANGED entry
Refill(r) ==
    /\ reader' = [reader EXCEPT ![r].at = "slot", ![r].now = clock]
    /\ entry' = [entry EXCEPT !.owner = TRUE]
SameFingerprint(r) == entry.valid /\ entry.fingerprint = reader[r].fingerprint
Young == entry.valid /\ clock < entry.readAt + MaxAge

\* Faulty LockEntry: an entry is served by its age alone.
LockEntryByAge(r) ==
    /\ ReaderAt(r, "lock") /\ ~entry.owner
    /\ \/ Young /\ Serve(r)
       \/ ~Young /\ Refill(r)
    /\ UNCHANGED <<repository, spawned, reads, failures>>

\* Faulty LockEntry: an entry is served whatever its age.
LockEntryAnyAge(r) ==
    /\ ReaderAt(r, "lock") /\ ~entry.owner
    /\ \/ SameFingerprint(r) /\ Serve(r)
       \/ ~SameFingerprint(r) /\ Refill(r)
    /\ UNCHANGED <<repository, spawned, reads, failures>>

\* The lock is waited for whether or not the context has ended.  What a refill
\* stores is as old as the clock that is read here, before gt is asked.
LockEntry(r) ==
    /\ ReaderAt(r, "lock") /\ ~entry.owner
    /\ \/ SameFingerprint(r) /\ Young /\ Serve(r)
       \/ ~(SameFingerprint(r) /\ Young) /\ Refill(r)
    /\ UNCHANGED <<repository, spawned, reads, failures>>

Unlocked(r) == IF reader[r].keyed THEN [entry EXCEPT !.owner = FALSE] ELSE entry

\* ReadState: a cancelled caller waits for no slot; an error of any kind, a
\* timeout included, leads to the metadata in the refs.
acquireSpawnSlot(r) ==
    /\ ReaderAt(r, "slot")
    /\ IF reader[r].gone
       THEN MoveReader(r, "refs") /\ UNCHANGED spawned
       ELSE spawned < SpawnSlots /\ spawned' = spawned + 1 /\ MoveReader(r, "gt")
    /\ UNCHANGED <<repository, entry, reads, failures>>

ReadState(r) ==
    /\ ReaderAt(r, "gt")
    /\ \/ /\ reader' = [reader EXCEPT ![r].at = "store",
                                      ![r].got = Stack(refs, hidden, TRUE, FALSE)]
          /\ UNCHANGED failures
       \/ reader[r].gone /\ MoveReader(r, "refs") /\ UNCHANGED failures
       \/ CommandFails /\ MoveReader(r, "refs")
    /\ spawned' = spawned - 1
    /\ UNCHANGED <<repository, entry, reads>>

\* The fallback sees what Graphite keeps in the refs; its blobs are read one by
\* one, and those that cannot be read are left out.
ReadRefMetadata(r) ==
    /\ ReaderAt(r, "refs")
    /\ \/ /\ \E cut \in BOOLEAN :
                /\ cut <=> reader[r].gone
                /\ reader' = [reader EXCEPT ![r].at = "store",
                                            ![r].got = Stack(refs, 0, FALSE, cut)]
          /\ UNCHANGED <<entry, failures>>
       \/ /\ reader[r].gone /\ MoveReader(r, "idle")
          /\ entry' = Unlocked(r) /\ UNCHANGED failures
       \/ CommandFails /\ MoveReader(r, "idle") /\ entry' = Unlocked(r)
    /\ UNCHANGED <<repository, spawned, reads>>

Filled(r, readAt) ==
    [valid |-> TRUE, fingerprint |-> reader[r].fingerprint, readAt |-> readAt,
     state |-> reader[r].got, owner |-> FALSE]

\* Faulty StoreStack: the entry's age counts from when it is stored.
StoreStackNow(r) ==
    /\ ReaderAt(r, "store")
    /\ entry' = IF reader[r].keyed /\ ~reader[r].gone THEN Filled(r, clock) ELSE Unlocked(r)
    /\ reader' = [reader EXCEPT ![r] = Answer(r, reader[r].got)]
    /\ UNCHANGED <<repository, spawned, reads, failures>>

\* Only a read whose context is still alive is kept.
StoreStack(r) ==
    /\ ReaderAt(r, "store")
    /\ entry' = IF reader[r].keyed /\ ~reader[r].gone
                THEN Filled(r, reader[r].now) ELSE Unlocked(r)
    /\ reader' = [reader EXCEPT ![r] = Answer(r, reader[r].got)]
    /\ UNCHANGED <<repository, spawned, reads, failures>>

-----------------------------------------------------------------------------
\* The request is cancelled.
ReaderGone(r) ==
    /\ ~ReaderAt(r, "idle") /\ ~reader[r].gone
    /\ failures < MaxFailures /\ failures' = failures + 1
    /\ reader' = [reader EXCEPT ![r].gone = TRUE]
    /\ UNCHANGED <<repository, entry, spawned, reads>>

\* Commits, and what changes the stack where no fingerprint shows it: gt by hand,
\* gt track and gt restack in a command of their own.
RefsChange ==
    /\ refs < MaxChanges
    /\ refs' = refs + 1
    /\ UNCHANGED <<hidden, clock, was, entry, reader, spawned, reads, failures>>

HiddenChanges ==
    /\ hidden < MaxChanges
    /\ hidden' = hidden + 1
    /\ UNCHANGED <<refs, clock, was, entry, reader, spawned, reads, failures>>

ClockTicks ==
    /\ clock < MaxTime
    /\ clock' = clock + 1
    /\ was' = Append(was, hidden)
    /\ UNCHANGED <<refs, hidden, entry, reader, spawned, reads, failures>>

StackNext ==
    \/ \E r \in Reader :
          \/ BeginRead(r) \/ TakeFingerprint(r) \/ LockEntry(r)
          \/ acquireSpawnSlot(r) \/ ReadState(r) \/ ReadRefMetadata(r) \/ StoreStack(r)
          \/ ReaderGone(r)
    \/ RefsChange \/ HiddenChanges \/ ClockTicks

StackSpec == StackInit /\ [][StackNext]_stackVars

-----------------------------------------------------------------------------
\* Every variable has its type; the entry's lock and the slots have their holders.
StackTypeOK ==
    /\ refs \in 0 .. MaxChanges /\ hidden \in 0 .. MaxChanges
    /\ clock \in 0 .. MaxTime /\ Len(was) = clock
    /\ spawned \in 0 .. SpawnSlots
    /\ entry.owner <=> \E r \in Reader : reader[r].keyed
                            /\ reader[r].at \in {"slot", "gt", "refs", "store"}
    /\ reads \in 0 .. MaxReads /\ failures \in 0 .. MaxFailures

\* A stack that was read in full.
Full(r) == reader[r].answered /\ reader[r].got.whole

\* A reader is never answered with refs of before its read, whoever filled the
\* entry and however long it waited for the lock, unless the refs went back to
\* an earlier state; and a read that was cut short is never remembered, and
\* answered to the reader alone whose request had ended.
AnswerSeesItsRefs ==
    /\ \A r \in Reader : Full(r) /\ refs < Tips => reader[r].got.refs >= reader[r].since
    /\ \A r \in Reader : reader[r].answered /\ reader[r].got.cut => reader[r].gone
    /\ ~entry.state.cut

\* What no fingerprint shows reaches a reader late, but never later than the age
\* an entry may have: a change made in a tick is in every answer to a read that
\* begins MaxAge ticks later, though the entry was filled by a read that began
\* before the change and stored after it (stackCacheMaxAge).
AnswerIsRecent ==
    \A r \in Reader : Full(r) =>
       \A t \in 1 .. clock :
          (t - 1) + MaxAge <= reader[r].begun => reader[r].got.hidden >= was[t]
=============================================================================
