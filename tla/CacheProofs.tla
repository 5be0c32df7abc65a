------------------------------ MODULE CacheProofs ------------------------------
(***************************************************************************)
(* The promises of the two caches, proved.  Whoever filled the entry of    *)
(* the stack cache, and however its readers overtake each other, an answer *)
(* is not older than its read where the fingerprint shows the change, and  *)
(* older by the entry's age at most where it does not.  And a merged pull  *)
(* request stays with the work it was opened for, through two questions to *)
(* git, a cache and a pool of workers.                                     *)
(***************************************************************************)
EXTENDS StackCache, PullRequests, FiniteSetTheorems, TLAPS

Place == {"idle", "fingerprint", "lock", "slot", "gt", "refs", "store"}
Filling == {"slot", "gt", "refs", "store"}
StackRecord == [refs : Nat, hidden : Nat, whole : BOOLEAN, cut : BOOLEAN]
CacheEntry == [valid : BOOLEAN, fingerprint : Nat, readAt : Nat, state : StackRecord,
               owner : BOOLEAN]
ReaderRecord == [at : Place, gone : BOOLEAN, fingerprint : Nat, keyed : BOOLEAN, now : Nat,
                 got : StackRecord, since : Nat, begun : Nat, answered : BOOLEAN]

\* The shape of every variable.
StackTyped ==
    /\ refs \in Nat /\ hidden \in Nat /\ clock \in Nat
    /\ was \in Seq(Nat) /\ Len(was) = clock
    /\ entry \in CacheEntry
    /\ reader \in [Reader -> ReaderRecord]
    /\ spawned \in Int
    /\ reads \in Nat /\ failures \in Nat

\* What has been, is; the hidden part does not go back.
PastBehind == \A t \in 1 .. clock : was[t] <= hidden

\* Nothing that the reader x read lies ahead; it goes through the cache once it has
\* a fingerprint, and its entry's clock is not older than its begin.
Behind(x) ==
    /\ x.since <= refs /\ x.begun <= clock
    /\ x.at = "fingerprint" => ~x.keyed
    /\ x.at = "lock" => x.keyed
    /\ x.at \in Filling /\ x.keyed => x.begun <= x.now /\ x.now <= clock
    /\ x.answered => x.at = "idle"

\* What was cut short belongs to a reader whose request has ended.
CutOut(x) == (x.at = "store" \/ x.answered) /\ x.got.cut => x.gone

\* The stack s shows every change made before the tick n, or MaxAge before it.
Seen(s, n) == s.whole => \A t \in 1 .. clock : t <= n => was[t] <= s.hidden
SeenLate(s, n) == s.whole => \A t \in 1 .. clock : (t - 1) + MaxAge <= n => was[t] <= s.hidden

\* What x read itself is of its begin or later; what it is answered, of an age
\* before it.
Recent(x) ==
    /\ x.at = "store" => Seen(x.got, x.begun) /\ (x.keyed => Seen(x.got, x.now))
    /\ x.answered => SeenLate(x.got, x.begun)

\* Until the refs return to an earlier state a fingerprint is the refs it was
\* taken of: a reader's is not older than its read, nor newer than what it read.
Telling(x) ==
    refs < Tips =>
      /\ x.at = "lock" => x.since <= x.fingerprint
      /\ x.at # "idle" => x.fingerprint <= refs
      /\ x.at = "store" => x.since <= x.got.refs /\ x.fingerprint <= x.got.refs
      /\ x.answered /\ x.got.whole => x.since <= x.got.refs

ReaderHolds(x) == Behind(x) /\ CutOut(x) /\ Recent(x) /\ Telling(x)

\* What the entry e holds was read after its clock, is not older than its
\* fingerprint, and was not cut short.
EntryHolds(e) ==
    /\ ~e.state.cut
    /\ e.valid => /\ e.readAt <= clock /\ Seen(e.state, e.readAt)
                  /\ refs < Tips => e.fingerprint <= e.state.refs

StackInvariant ==
    StackTyped /\ PastBehind /\ EntryHolds(entry) /\ \A r \in Reader : ReaderHolds(reader[r])

-----------------------------------------------------------------------------
LEMMA SmallModulus ==
    ASSUME NEW a \in Nat, NEW n \in Nat \ {0}
    PROVE  a % n \in Nat /\ (a < n => a % n = a)
OBVIOUS

LEMMA NothingRead == NoRead \in ReaderRecord /\ NoEntry \in CacheEntry
BY DEF NoRead, ReaderRecord, NoEntry, CacheEntry, NoStack, Stack, StackRecord, Place

LEMMA CacheInit == StackInit => StackInvariant
<1> SUFFICES ASSUME StackInit PROVE StackInvariant
  OBVIOUS
<1>1. StackTyped /\ PastBehind
  BY NothingRead DEF StackInit, StackTyped, PastBehind
<1>2. EntryHolds(entry)
  BY DEF StackInit, EntryHolds, NoEntry, NoStack, Stack
<1>3. ASSUME NEW r \in Reader PROVE ReaderHolds(reader[r])
  <2>1. reader[r] = NoRead /\ refs = 0 /\ clock = 0
    BY DEF StackInit
  <2>2. /\ NoRead.at = "idle" /\ ~NoRead.answered /\ NoRead.since = 0 /\ NoRead.begun = 0
    BY DEF NoRead
  <2> QED BY <2>1, <2>2 DEF ReaderHolds, Behind, CutOut, Recent, Telling, Filling
<1> QED BY <1>1, <1>2, <1>3 DEF StackInvariant

\* In a step of one reader, that leaves the repository alone, the others' records
\* go on holding.
LEMMA ReaderStep ==
    ASSUME StackInvariant, NEW r \in Reader, NEW x \in ReaderRecord,
           reader' = [reader EXCEPT ![r] = x], UNCHANGED repository,
           reads' \in Nat, failures' \in Nat, spawned' \in Int,
           entry' \in CacheEntry, EntryHolds(entry'), ReaderHolds(x)
    PROVE  StackInvariant'
<1>1. /\ reader' \in [Reader -> ReaderRecord] /\ reader'[r] = x
      /\ \A q \in Reader : q # r => reader'[q] = reader[q]
      /\ UNCHANGED <<refs, hidden, clock, was>>
  BY DEF StackInvariant, StackTyped, repository
<1>2. StackTyped' /\ PastBehind'
  BY <1>1 DEF StackInvariant, StackTyped, PastBehind
<1>3. EntryHolds(entry)'
  BY <1>1 DEF EntryHolds, Seen
<1>4. \A q \in Reader : ReaderHolds(reader'[q])
  BY <1>1 DEF StackInvariant
<1>5. \A q \in Reader : ReaderHolds(reader[q])'
  BY <1>1, <1>4 DEF ReaderHolds, Behind, CutOut, Recent, Telling, Seen, SeenLate
<1> QED BY <1>2, <1>3, <1>5 DEF StackInvariant

\* The types of what a step of the reader r reads.
LEMMA ReaderTyped ==
    ASSUME StackInvariant, NEW r \in Reader
    PROVE  /\ reader[r] \in ReaderRecord /\ ReaderHolds(reader[r]) /\ EntryHolds(entry)
           /\ entry \in CacheEntry /\ entry.state \in StackRecord /\ reader[r].got \in StackRecord
           /\ refs \in Nat /\ hidden \in Nat /\ clock \in Nat /\ was \in Seq(Nat)
           /\ Len(was) = clock /\ PastBehind /\ spawned \in Int /\ reads \in Nat
           /\ failures \in Nat /\ \A t \in 1 .. clock : was[t] \in Nat
           /\ reader \in [Reader -> ReaderRecord]
<1>1. /\ refs \in Nat /\ hidden \in Nat /\ clock \in Nat /\ was \in Seq(Nat)
      /\ Len(was) = clock /\ spawned \in Int /\ reads \in Nat /\ failures \in Nat
      /\ reader \in [Reader -> ReaderRecord] /\ entry \in CacheEntry
  BY DEF StackInvariant, StackTyped
<1>2. reader[r] \in ReaderRecord
  BY <1>1
<1>3. entry.state \in StackRecord /\ reader[r].got \in StackRecord
  BY <1>1, <1>2 DEF CacheEntry, ReaderRecord
<1> QED BY <1>1, <1>2, <1>3 DEF StackInvariant

LEMMA BeginReadKeeps ==
    ASSUME StackInvariant, NEW r \in Reader, BeginRead(r)
    PROVE  StackInvariant'
<1> DEFINE x == [NoRead EXCEPT !.at = "fingerprint", !.since = refs, !.begun = clock]
<1>1. /\ reader' = [reader EXCEPT ![r] = x] /\ UNCHANGED repository /\ reads' \in Nat
      /\ UNCHANGED <<failures, spawned, entry>>
  BY ReaderTyped DEF BeginRead
<1>2. x \in ReaderRecord
  BY ReaderTyped, NothingRead DEF NoRead, ReaderRecord, Place
<1>3. ReaderHolds(x)
  BY ReaderTyped DEF NoRead, ReaderHolds, Behind, CutOut, Recent, Telling, Filling
<1> HIDE DEF x
<1> QED BY <1>1, <1>2, <1>3, ReaderTyped, ReaderStep

\* A reader's record that moves on and keeps what it read.
Moved(x, y) ==
    /\ x.fingerprint = y.fingerprint /\ x.keyed = y.keyed /\ x.now = y.now /\ x.got = y.got
    /\ x.since = y.since /\ x.begun = y.begun /\ x.answered = y.answered
    /\ y.gone => x.gone

LEMMA MovedHolds ==
    ASSUME StackInvariant, NEW r \in Reader, NEW x \in ReaderRecord, Moved(x, reader[r]),
           \/ x.at = reader[r].at
           \/ x.at \in {"slot", "gt", "refs"} /\ reader[r].at \in {"slot", "gt"}
           \/ x.at = "slot" /\ reader[r].at = "fingerprint"
           \/ x.at = "idle" /\ reader[r].at \in Filling
    PROVE  ReaderHolds(x)
<1>1. ReaderHolds(reader[r])
  BY ReaderTyped
<1>2. Behind(x) /\ CutOut(x) /\ Telling(x)
  BY <1>1 DEF ReaderHolds, Behind, CutOut, Telling, Moved, Filling
<1>3. Recent(x)
  BY <1>1 DEF ReaderHolds, Recent, Moved, Behind, Filling
<1> QED BY <1>2, <1>3 DEF ReaderHolds

\* The fingerprint is that of the refs of now, which are not older than the read.
LEMMA TakeFingerprintKeeps ==
    ASSUME StackInvariant, NEW r \in Reader, TakeFingerprint(r)
    PROVE  StackInvariant'
<1>1. /\ reader[r].at = "fingerprint" /\ UNCHANGED repository /\ failures' \in Nat
      /\ UNCHANGED <<reads, spawned, entry>>
      /\ stackFingerprint \in Nat /\ (refs < Tips => stackFingerprint = refs)
  BY ReaderTyped, SmallModulus, StackAssumption
  DEF TakeFingerprint, CommandFails, stackFingerprint, ReaderAt
<1>2. CASE reader' = [reader EXCEPT ![r].at = "lock", ![r].keyed = TRUE,
                                    ![r].fingerprint = stackFingerprint]
  <2> DEFINE x == [reader[r] EXCEPT !.at = "lock", !.keyed = TRUE,
                                    !.fingerprint = stackFingerprint]
  <2>1. x \in ReaderRecord
    BY <1>1, ReaderTyped DEF ReaderRecord, Place
  <2>2. /\ x.at = "lock" /\ x.keyed /\ x.fingerprint = stackFingerprint
        /\ x.since = reader[r].since /\ x.begun = reader[r].begun
        /\ x.answered = reader[r].answered /\ ~x.answered
    BY <1>1, ReaderTyped DEF ReaderRecord, ReaderHolds, Behind
  <2>3. ReaderHolds(x)
    BY <1>1, <2>2, ReaderTyped DEF ReaderHolds, Behind, CutOut, Recent, Telling, Filling
  <2>4. reader' = [reader EXCEPT ![r] = x]
    BY <1>2
  <2> HIDE DEF x
  <2> QED BY <1>1, <2>1, <2>3, <2>4, ReaderTyped, ReaderStep
<1>3. CASE MoveReader(r, "slot")
  <2> DEFINE x == [reader[r] EXCEPT !.at = "slot"]
  <2>1. x \in ReaderRecord /\ Moved(x, reader[r]) /\ x.at = "slot"
    BY ReaderTyped DEF ReaderRecord, Place, Moved
  <2>2. reader' = [reader EXCEPT ![r] = x]
    BY <1>3 DEF MoveReader
  <2> HIDE DEF x
  <2> QED BY <1>1, <2>1, <2>2, ReaderTyped, MovedHolds, ReaderStep
<1> QED BY <1>2, <1>3 DEF TakeFingerprint

\* An entry that is served was read of the refs of the fingerprint or later, and
\* MaxAge ticks ago at most.
LEMMA LockEntryKeeps ==
    ASSUME StackInvariant, NEW r \in Reader, LockEntry(r)
    PROVE  StackInvariant'
<1>1. /\ reader[r].at = "lock" /\ reader[r].keyed /\ UNCHANGED repository
      /\ UNCHANGED <<reads, spawned, failures>>
  BY ReaderTyped DEF LockEntry, ReaderAt, ReaderHolds, Behind
<1>2. CASE SameFingerprint(r) /\ Young /\ Serve(r)
  <2> DEFINE x == [Answer(r, entry.state) EXCEPT !.now = clock]
  <2>1. x \in ReaderRecord
    BY ReaderTyped DEF Answer, ReaderRecord, Place
  <2>2. /\ x.at = "idle" /\ x.got = entry.state /\ x.answered
        /\ x.since = reader[r].since /\ x.begun = reader[r].begun
    BY ReaderTyped DEF Answer, ReaderRecord
  <2>3. Behind(x) /\ CutOut(x)
    BY <2>2, ReaderTyped DEF ReaderHolds, Behind, CutOut, EntryHolds, Filling
  <2>4. Telling(x)
    BY <1>1, <1>2, <2>2, ReaderTyped
    DEF ReaderHolds, Telling, EntryHolds, SameFingerprint, ReaderRecord, CacheEntry, StackRecord
  <2>5. SeenLate(x.got, x.begun)
    <3> SUFFICES ASSUME x.got.whole, NEW t \in 1 .. clock, (t - 1) + MaxAge <= x.begun
                 PROVE  was[t] <= x.got.hidden
      BY DEF SeenLate
    <3>1. entry.valid /\ clock < entry.readAt + MaxAge /\ entry.readAt \in Nat
      BY <1>2, ReaderTyped DEF Young, CacheEntry
    <3>2. x.begun <= clock /\ x.begun \in Nat /\ MaxAge \in Nat /\ clock \in Nat
      BY <2>1, <2>3, StackAssumption, ReaderTyped DEF Behind, ReaderRecord
    <3>3. t <= entry.readAt
      BY <3>1, <3>2
    <3> QED BY <2>2, <3>1, <3>3, ReaderTyped DEF EntryHolds, Seen
  <2>6. ReaderHolds(x)
    BY <2>2, <2>3, <2>4, <2>5 DEF ReaderHolds, Recent
  <2>7. reader' = [reader EXCEPT ![r] = x] /\ entry' = entry
    BY <1>2 DEF Serve
  <2> HIDE DEF x
  <2> QED BY <1>1, <2>1, <2>6, <2>7, ReaderTyped, ReaderStep
<1>3. CASE Refill(r)
  <2> DEFINE x == [reader[r] EXCEPT !.at = "slot", !.now = clock]
             e == [entry EXCEPT !.owner = TRUE]
  <2>1. x \in ReaderRecord /\ e \in CacheEntry
    BY ReaderTyped DEF ReaderRecord, CacheEntry, Place
  <2>2. /\ x.at = "slot" /\ x.now = clock /\ x.since = reader[r].since
        /\ x.begun = reader[r].begun /\ x.answered = reader[r].answered
        /\ x.fingerprint = reader[r].fingerprint
    BY ReaderTyped DEF ReaderRecord
  <2>3. ReaderHolds(x)
    BY <1>1, <2>2, ReaderTyped DEF ReaderHolds, Behind, CutOut, Recent, Telling, Filling
  <2>4. EntryHolds(e)
    BY ReaderTyped DEF EntryHolds, CacheEntry
  <2>5. reader' = [reader EXCEPT ![r] = x] /\ entry' = e
    BY <1>3 DEF Refill
  <2> HIDE DEF x, e
  <2> QED BY <1>1, <2>1, <2>3, <2>4, <2>5, ReaderTyped, ReaderStep
<1> QED BY <1>2, <1>3 DEF LockEntry

LEMMA acquireSpawnSlotKeeps ==
    ASSUME StackInvariant, NEW r \in Reader, acquireSpawnSlot(r)
    PROVE  StackInvariant'
<1>1. /\ reader[r].at = "slot" /\ spawned' \in Int /\ UNCHANGED repository
      /\ UNCHANGED <<reads, failures, entry>>
  BY ReaderTyped DEF acquireSpawnSlot, ReaderAt
<1>2. PICK p \in {"refs", "gt"} : reader' = [reader EXCEPT ![r].at = p]
  BY DEF acquireSpawnSlot, MoveReader
<1> DEFINE x == [reader[r] EXCEPT !.at = p]
<1>3. x \in ReaderRecord /\ Moved(x, reader[r]) /\ x.at = p
  BY ReaderTyped DEF ReaderRecord, Place, Moved
<1>4. reader' = [reader EXCEPT ![r] = x]
  BY <1>2
<1> HIDE DEF x
<1> QED BY <1>1, <1>3, <1>4, ReaderTyped, MovedHolds, ReaderStep

LEMMA ReaderGoneKeeps ==
    ASSUME StackInvariant, NEW r \in Reader, ReaderGone(r)
    PROVE  StackInvariant'
<1>1. failures' \in Nat /\ UNCHANGED repository /\ UNCHANGED <<reads, spawned, entry>>
  BY ReaderTyped DEF ReaderGone
<1> DEFINE x == [reader[r] EXCEPT !.gone = TRUE]
<1>3. x \in ReaderRecord /\ Moved(x, reader[r]) /\ x.at = reader[r].at
  BY ReaderTyped DEF ReaderRecord, Moved
<1>4. reader' = [reader EXCEPT ![r] = x]
  BY DEF ReaderGone
<1> HIDE DEF x
<1> QED BY <1>1, <1>3, <1>4, ReaderTyped, MovedHolds, ReaderStep

\* What gt and the fallback read is the stack of now.
LEMMA ReadingHolds ==
    ASSUME StackInvariant, NEW r \in Reader, NEW x \in ReaderRecord,
           x.at = "store", reader[r].at \in {"gt", "refs"},
           x.got.refs = refs, x.got.whole => x.got.hidden = hidden, x.got.cut => x.gone,
           x.fingerprint = reader[r].fingerprint, x.keyed = reader[r].keyed,
           x.since = reader[r].since, x.begun = reader[r].begun, x.now = reader[r].now,
           x.answered = reader[r].answered
    PROVE  ReaderHolds(x)
<1>1. ReaderHolds(reader[r]) /\ PastBehind /\ ~x.answered
  BY ReaderTyped DEF ReaderHolds, Behind
<1>2. Behind(x) /\ CutOut(x) /\ Telling(x)
  BY <1>1 DEF ReaderHolds, Behind, CutOut, Telling, Filling
<1>3. \A n : Seen(x.got, n)
  BY <1>1 DEF Seen, PastBehind
<1> QED BY <1>1, <1>2, <1>3 DEF ReaderHolds, Recent

LEMMA ReadStateKeeps ==
    ASSUME StackInvariant, NEW r \in Reader, ReadState(r)
    PROVE  StackInvariant'
<1>1. /\ reader[r].at = "gt" /\ spawned' \in Int /\ failures' \in Nat /\ UNCHANGED repository
      /\ UNCHANGED <<reads, entry>>
  <2>1. spawned \in Int /\ failures \in Nat
    BY ReaderTyped
  <2>2. (UNCHANGED failures \/ CommandFails) /\ spawned' = spawned - 1
    BY DEF ReadState
  <2>3. spawned' \in Int /\ failures' \in Nat
    BY <2>1, <2>2 DEF CommandFails
  <2> QED BY <2>3 DEF ReadState, ReaderAt
<1>2. CASE MoveReader(r, "refs")
  <2> DEFINE x == [reader[r] EXCEPT !.at = "refs"]
  <2>1. x \in ReaderRecord /\ Moved(x, reader[r]) /\ x.at = "refs"
    BY ReaderTyped DEF ReaderRecord, Place, Moved
  <2>2. reader' = [reader EXCEPT ![r] = x]
    BY <1>2 DEF MoveReader
  <2> HIDE DEF x
  <2> QED BY <1>1, <2>1, <2>2, ReaderTyped, MovedHolds, ReaderStep
<1>3. CASE reader' = [reader EXCEPT ![r].at = "store", ![r].got = Stack(refs, hidden, TRUE, FALSE)]
  <2> DEFINE x == [reader[r] EXCEPT !.at = "store", !.got = Stack(refs, hidden, TRUE, FALSE)]
  <2>1. /\ x \in ReaderRecord /\ x.at = "store" /\ x.fingerprint = reader[r].fingerprint
        /\ x.keyed = reader[r].keyed /\ x.since = reader[r].since
        /\ x.begun = reader[r].begun /\ x.now = reader[r].now
        /\ x.answered = reader[r].answered
        /\ x.got.refs = refs /\ x.got.hidden = hidden /\ ~x.got.cut
    BY ReaderTyped DEF ReaderRecord, Place, Stack, StackRecord
  <2>2. reader' = [reader EXCEPT ![r] = x]
    BY <1>3
  <2> HIDE DEF x
  <2>3. ReaderHolds(x)
    BY <1>1, <2>1, ReadingHolds
  <2> QED BY <1>1, <2>1, <2>2, <2>3, ReaderTyped, ReaderStep
<1> QED BY <1>2, <1>3 DEF ReadState

\* An entry that is unlocked keeps what it holds.
LEMMA Unlocks ==
    ASSUME StackInvariant, NEW r \in Reader
    PROVE  /\ Unlocked(r) \in CacheEntry /\ EntryHolds(Unlocked(r))
           /\ Unlocked(r).owner <=> entry.owner /\ ~reader[r].keyed
<1>1. entry \in CacheEntry /\ EntryHolds(entry)
  BY ReaderTyped
<1> DEFINE e == [entry EXCEPT !.owner = FALSE]
<1>2. e \in CacheEntry /\ EntryHolds(e) /\ ~e.owner
  BY <1>1 DEF CacheEntry, EntryHolds
<1> HIDE DEF e
<1> QED BY <1>1, <1>2 DEF Unlocked, e

LEMMA ReadRefMetadataKeeps ==
    ASSUME StackInvariant, NEW r \in Reader, ReadRefMetadata(r)
    PROVE  StackInvariant'
<1>1. /\ reader[r].at = "refs" /\ failures' \in Nat /\ UNCHANGED repository
      /\ UNCHANGED <<reads, spawned>>
  <2>1. UNCHANGED failures \/ CommandFails
    BY DEF ReadRefMetadata
  <2> QED BY <2>1, ReaderTyped DEF ReadRefMetadata, ReaderAt, CommandFails
<1>2. CASE MoveReader(r, "idle") /\ entry' = Unlocked(r)
  <2> DEFINE x == [reader[r] EXCEPT !.at = "idle"]
  <2>1. x \in ReaderRecord /\ Moved(x, reader[r]) /\ x.at = "idle"
    BY ReaderTyped DEF ReaderRecord, Place, Moved
  <2>2. reader' = [reader EXCEPT ![r] = x]
    BY <1>2 DEF MoveReader
  <2> HIDE DEF x
  <2>3. ReaderHolds(x)
    BY <1>1, <2>1, MovedHolds DEF Filling
  <2> QED BY <1>1, <1>2, <2>1, <2>2, <2>3, Unlocks, ReaderTyped, ReaderStep
<1>3. ASSUME NEW cut \in BOOLEAN, cut => reader[r].gone, entry' = entry,
             reader' = [reader EXCEPT ![r].at = "store", ![r].got = Stack(refs, 0, FALSE, cut)]
      PROVE  StackInvariant'
  <2> DEFINE x == [reader[r] EXCEPT !.at = "store", !.got = Stack(refs, 0, FALSE, cut)]
  <2>1. /\ x \in ReaderRecord /\ x.at = "store" /\ x.fingerprint = reader[r].fingerprint
        /\ x.keyed = reader[r].keyed /\ x.since = reader[r].since
        /\ x.begun = reader[r].begun /\ x.now = reader[r].now
        /\ x.answered = reader[r].answered /\ x.gone = reader[r].gone
        /\ x.got.refs = refs /\ ~x.got.whole /\ x.got.cut = cut
    BY ReaderTyped DEF ReaderRecord, Place, Stack, StackRecord
  <2>2. reader' = [reader EXCEPT ![r] = x]
    BY <1>3
  <2> HIDE DEF x
  <2>3. ReaderHolds(x)
    BY <1>1, <1>3, <2>1, ReadingHolds
  <2> QED BY <1>1, <1>3, <2>1, <2>2, <2>3, ReaderTyped, ReaderStep
<1> QED BY <1>2, <1>3 DEF ReadRefMetadata

\* What is stored is what the fingerprint and the entry's age promise.
LEMMA StoreStackKeeps ==
    ASSUME StackInvariant, NEW r \in Reader, StoreStack(r)
    PROVE  StackInvariant'
<1> DEFINE x == Answer(r, reader[r].got)
           e == Filled(r, reader[r].now)
<1>1. /\ reader[r].at = "store" /\ UNCHANGED repository /\ UNCHANGED <<reads, spawned, failures>>
      /\ reader' = [reader EXCEPT ![r] = x]
      /\ entry' = IF reader[r].keyed /\ ~reader[r].gone THEN e ELSE Unlocked(r)
  BY DEF StoreStack, ReaderAt
<1>2. /\ x \in ReaderRecord /\ x.at = "idle" /\ x.answered /\ x.got = reader[r].got
      /\ x.since = reader[r].since /\ x.begun = reader[r].begun /\ x.gone = reader[r].gone
      /\ x.fingerprint = reader[r].fingerprint
  BY ReaderTyped DEF Answer, ReaderRecord, Place
<1>3. ReaderHolds(x)
  <2>1. Behind(x) /\ CutOut(x) /\ Telling(x)
    BY <1>1, <1>2, ReaderTyped DEF ReaderHolds, Behind, CutOut, Telling, Filling
  <2>2. Seen(x.got, x.begun)
    BY <1>1, <1>2, ReaderTyped DEF ReaderHolds, Recent
  <2>3. SeenLate(x.got, x.begun)
    <3> SUFFICES ASSUME x.got.whole, NEW t \in 1 .. clock, (t - 1) + MaxAge <= x.begun
                 PROVE  was[t] <= x.got.hidden
      BY DEF SeenLate
    <3>1. t <= x.begun
      BY <1>2, StackAssumption, ReaderTyped DEF ReaderRecord
    <3> QED BY <2>2, <3>1 DEF Seen
  <2> QED BY <1>2, <2>1, <2>3 DEF ReaderHolds, Recent
<1>4. reader[r].keyed /\ ~reader[r].gone => e \in CacheEntry /\ EntryHolds(e)
  BY <1>1, ReaderTyped
  DEF Filled, CacheEntry, EntryHolds, ReaderRecord, ReaderHolds, Behind, CutOut, Recent, Telling,
      Filling
<1> HIDE DEF x, e
<1> QED BY <1>1, <1>2, <1>3, <1>4, Unlocks, ReaderTyped, ReaderStep

\* The repository changes, or time passes.
LEMMA RepositoryKeeps ==
    ASSUME StackInvariant, RefsChange \/ HiddenChanges \/ ClockTicks \/ UNCHANGED stackVars
    PROVE  StackInvariant'
<1>1. /\ UNCHANGED <<entry, reader, spawned, reads, failures>>
      /\ refs' \in {refs, refs + 1} /\ hidden' \in {hidden, hidden + 1}
      /\ \/ was' = was /\ clock' = clock
         \/ was' = Append(was, hidden) /\ clock' = clock + 1 /\ hidden' = hidden
  BY DEF RefsChange, HiddenChanges, ClockTicks, stackVars
<1>2. /\ refs \in Nat /\ hidden \in Nat /\ clock \in Nat /\ was \in Seq(Nat) /\ Len(was) = clock
      /\ PastBehind /\ EntryHolds(entry) /\ entry \in CacheEntry
      /\ \A t \in 1 .. clock : was[t] \in Nat
  BY DEF StackInvariant, StackTyped
<1>3. /\ was' \in Seq(Nat) /\ Len(was') = clock' /\ clock <= clock' /\ refs <= refs'
      /\ clock' \in Nat /\ refs' \in Nat /\ hidden' \in Nat
      /\ \A t \in 1 .. clock : was'[t] = was[t]
      /\ \A t \in 1 .. clock' : t \in 1 .. clock \/ (t = clock + 1 /\ was'[t] = hidden')
  BY <1>1, <1>2
<1>4. StackTyped'
  BY <1>1, <1>3 DEF StackInvariant, StackTyped
<1>5. PastBehind'
  BY <1>1, <1>2, <1>3 DEF PastBehind
<1>6. ASSUME NEW s \in StackRecord, NEW n \in Nat, n <= clock
      PROVE  /\ Seen(s, n) => Seen(s, n)'
             /\ SeenLate(s, n) => SeenLate(s, n)'
  <2>1. \A t \in 1 .. clock' : t <= n => t \in 1 .. clock
    BY <1>2, <1>3, <1>6
  <2>2. \A t \in 1 .. clock' : (t - 1) + MaxAge <= n => t \in 1 .. clock
    BY <1>2, <1>3, <1>6, StackAssumption
  <2> QED BY <1>3, <2>1, <2>2 DEF Seen, SeenLate
<1>7. EntryHolds(entry)'
  <2>1. /\ entry.state \in StackRecord /\ entry.readAt \in Nat
        /\ refs' < Tips => refs < Tips
    BY <1>1, <1>2, StackAssumption DEF CacheEntry
  <2>2. entry.valid => entry.readAt <= clock' /\ Seen(entry.state, entry.readAt)'
    BY <1>1, <1>2, <1>3, <1>6, <2>1 DEF EntryHolds
  <2> QED BY <1>1, <1>2, <2>1, <2>2 DEF EntryHolds
<1>8. ASSUME NEW q \in Reader PROVE ReaderHolds(reader[q])'
  <2>1. reader[q] \in ReaderRecord /\ ReaderHolds(reader[q]) /\ reader[q].got \in StackRecord
    BY ReaderTyped
  <2>2. /\ reader[q].begun \in Nat /\ reader[q].now \in Nat /\ reader[q].since \in Nat
        /\ reader[q].fingerprint \in Nat
    BY <2>1 DEF ReaderRecord
  <2>3. Behind(reader[q])' /\ CutOut(reader[q])'
    BY <1>1, <1>2, <1>3, <2>1, <2>2 DEF ReaderHolds, Behind, CutOut
  <2>4. Recent(reader[q])'
    BY <1>1, <1>6, <2>1, <2>2 DEF ReaderHolds, Behind, Recent, Filling
  <2>5. Telling(reader[q])'
    BY <1>1, <1>2, <1>3, <2>1, <2>2, StackAssumption DEF ReaderHolds, Telling
  <2> QED BY <2>3, <2>4, <2>5 DEF ReaderHolds
<1> QED BY <1>4, <1>5, <1>7, <1>8 DEF StackInvariant

\* What the entry, every read and every answer has seen (stackCache.Read).
THEOREM CacheInvariantHolds == StackSpec => []StackInvariant
<1>1. StackInvariant /\ [StackNext]_stackVars => StackInvariant'
  BY BeginReadKeeps, TakeFingerprintKeeps, LockEntryKeeps, acquireSpawnSlotKeeps, ReadStateKeeps,
     ReadRefMetadataKeeps, StoreStackKeeps, ReaderGoneKeeps, RepositoryKeeps DEF StackNext
<1> QED BY <1>1, CacheInit, PTL DEF StackSpec

\* Whoever filled the entry and however long the reader waited for its lock, the
\* refs that it is answered are not older than its read, and a read that was cut
\* short is not remembered (stackCache.Read).
THEOREM AnswersSeeTheirRefs == StackSpec => []AnswerSeesItsRefs
<1>1. StackInvariant => AnswerSeesItsRefs
  BY DEF StackInvariant, StackTyped, ReaderHolds, Telling, CutOut, EntryHolds, Full,
         AnswerSeesItsRefs, ReaderRecord, StackRecord
<1> QED BY <1>1, CacheInvariantHolds, PTL

\* What no fingerprint shows is in every answer to a read that begins when the
\* entry's age is over (stackCacheMaxAge).
THEOREM AnswersAreRecent == StackSpec => []AnswerIsRecent
<1>1. StackInvariant => AnswerIsRecent
  <2> SUFFICES ASSUME StackInvariant, NEW r \in Reader, Full(r), NEW t \in 1 .. clock,
                      (t - 1) + MaxAge <= reader[r].begun
               PROVE  reader[r].got.hidden >= was[t]
    BY DEF AnswerIsRecent
  <2> QED BY ReaderTyped DEF ReaderHolds, Recent, SeenLate, Full, StackRecord
<1> QED BY <1>1, CacheInvariantHolds, PTL

-----------------------------------------------------------------------------
\* A reader that fills the entry and holds its lock.
Holds(r) == reader[r].keyed /\ reader[r].at \in Filling

\* The lock has at most one holder, and says whether it has one.
LocksHeld ==
    /\ entry.owner <=> \E r \in Reader : Holds(r)
    /\ \A r, q \in Reader : Holds(r) /\ Holds(q) => r = q

\* The slots that are taken are those of the readers that run gt.
Running == {r \in Reader : reader[r].at = "gt"}
SlotsCounted == IsFiniteSet(Running) /\ spawned = Cardinality(Running) /\ spawned <= SpawnSlots

Bounded ==
    /\ refs <= MaxChanges /\ hidden <= MaxChanges
    /\ clock <= MaxTime /\ reads <= MaxReads /\ failures <= MaxFailures

LockInvariant == StackInvariant /\ LocksHeld /\ SlotsCounted /\ Bounded

LEMMA LocksInit == StackInit => LocksHeld /\ SlotsCounted /\ Bounded
<1> SUFFICES ASSUME StackInit PROVE LocksHeld /\ SlotsCounted /\ Bounded
  OBVIOUS
<1>1. LocksHeld
  BY DEF StackInit, LocksHeld, Holds, NoRead, NoEntry
<1>2. Running = {}
  BY DEF StackInit, Running, NoRead
<1>3. SlotsCounted
  BY <1>2, FS_EmptySet, StackAssumption DEF StackInit, SlotsCounted
<1>4. Bounded
  BY StackAssumption DEF StackInit, Bounded
<1> QED BY <1>1, <1>3, <1>4

\* A slot is taken, given back, or neither, by a reader.
LEMMA SlotsFollow ==
    ASSUME LockInvariant, NEW r \in Reader,
           \A q \in Reader : q # r => reader'[q] = reader[q],
           \/ reader[r].at # "gt" /\ reader'[r].at # "gt" /\ spawned' = spawned
           \/ reader[r].at = "gt" /\ reader'[r].at = "gt" /\ spawned' = spawned
           \/ reader[r].at = "gt" /\ reader'[r].at # "gt" /\ spawned' = spawned - 1
           \/ /\ reader[r].at # "gt" /\ reader'[r].at = "gt" /\ spawned' = spawned + 1
              /\ spawned < SpawnSlots
    PROVE  SlotsCounted'
<1>1. /\ IsFiniteSet(Running) /\ Cardinality(Running) \in Nat /\ SpawnSlots \in Nat
      /\ spawned = Cardinality(Running) /\ spawned <= SpawnSlots
  BY FS_CardinalityType, StackAssumption DEF LockInvariant, SlotsCounted
<1>2. CASE spawned' = spawned
  <2> Running' = Running
    BY <1>1, <1>2 DEF Running
  <2> QED BY <1>1, <1>2 DEF SlotsCounted
<1>3. CASE spawned' = spawned - 1
  <2>1. Running' = Running \ {r} /\ r \in Running
    BY <1>1, <1>3 DEF Running
  <2>2. IsFiniteSet(Running') /\ Cardinality(Running') = Cardinality(Running) - 1
    BY <1>1, <2>1, FS_RemoveElement
  <2> QED BY <1>1, <1>3, <2>2 DEF SlotsCounted
<1>4. CASE spawned' = spawned + 1
  <2>1. Running' = Running \cup {r} /\ r \notin Running /\ spawned < SpawnSlots
    BY <1>1, <1>4 DEF Running
  <2>2. IsFiniteSet(Running') /\ Cardinality(Running') = Cardinality(Running) + 1
    BY <1>1, <2>1, FS_AddElement
  <2> QED BY <1>1, <1>4, <2>1, <2>2 DEF SlotsCounted
<1> QED BY <1>2, <1>3, <1>4

\* The reader r keeps its hold on the entry, takes it when nobody has it, or gives
\* it back.
LEMMA LocksFollow ==
    ASSUME LockInvariant, NEW r \in Reader,
           \A q \in Reader : q # r => reader'[q] = reader[q],
           \/ (Holds(r)' <=> Holds(r)) /\ entry'.owner = entry.owner
           \/ Holds(r)' /\ ~entry.owner /\ entry'.owner = TRUE
           \/ Holds(r) /\ ~Holds(r)' /\ entry'.owner = FALSE
    PROVE  LocksHeld'
<1>1. \A q \in Reader : q # r => (Holds(q)' <=> Holds(q))
  BY DEF Holds
<1> QED BY <1>1 DEF LockInvariant, LocksHeld

LEMMA UnlockedLocks ==
    ASSUME LockInvariant, NEW r \in Reader, reader[r].at \in Filling, entry' = Unlocked(r),
           \A q \in Reader : q # r => reader'[q] = reader[q], reader'[r].at = "idle"
    PROVE  LocksHeld'
<1>1. ~Holds(r)' /\ (Holds(r) <=> reader[r].keyed)
  BY DEF Holds, Filling
<1>2. entry \in CacheEntry
  BY DEF LockInvariant, StackInvariant, StackTyped
<1>3. CASE reader[r].keyed
  <2>1. entry'.owner = FALSE
    BY <1>2, <1>3 DEF Unlocked, CacheEntry
  <2> QED BY <1>1, <1>3, <2>1, LocksFollow
<1>4. CASE ~reader[r].keyed
  <2>1. entry' = entry
    BY <1>4 DEF Unlocked
  <2> QED BY <1>1, <1>4, <2>1, LocksFollow
<1> QED BY <1>3, <1>4

LEMMA ReaderLocks ==
    ASSUME LockInvariant, NEW r \in Reader,
           \/ BeginRead(r) \/ TakeFingerprint(r) \/ LockEntry(r) \/ acquireSpawnSlot(r)
           \/ ReadState(r) \/ ReadRefMetadata(r) \/ StoreStack(r) \/ ReaderGone(r)
    PROVE  LocksHeld' /\ SlotsCounted'
<1>1. /\ reader \in [Reader -> ReaderRecord] /\ reader[r] \in ReaderRecord /\ spawned \in Int
      /\ entry \in CacheEntry /\ Behind(reader[r]) /\ StackInvariant
  BY ReaderTyped DEF LockInvariant, ReaderHolds
<1>2. CASE BeginRead(r)
  <2>1. /\ reader[r].at = "idle" /\ spawned' = spawned /\ entry' = entry
        /\ \A q \in Reader : q # r => reader'[q] = reader[q]
        /\ reader'[r].at = "fingerprint"
    BY <1>1, <1>2 DEF BeginRead, ReaderAt, NoRead
  <2> QED BY <2>1, LocksFollow, SlotsFollow DEF Holds, Filling
<1>3. CASE TakeFingerprint(r)
  <2>1. /\ reader[r].at = "fingerprint" /\ spawned' = spawned /\ entry' = entry
        /\ \A q \in Reader : q # r => reader'[q] = reader[q]
        /\ reader'[r].at = "lock" \/ (reader'[r].at = "slot" /\ ~reader'[r].keyed)
    BY <1>1, <1>3 DEF TakeFingerprint, ReaderAt, MoveReader, ReaderRecord, Behind
  <2> QED BY <2>1, LocksFollow, SlotsFollow DEF Holds, Filling
<1>4. CASE LockEntry(r)
  <2>1. /\ reader[r].at = "lock" /\ reader[r].keyed /\ spawned' = spawned /\ ~entry.owner
        /\ \A q \in Reader : q # r => reader'[q] = reader[q]
        /\ \/ reader'[r].at = "idle" /\ entry' = entry
           \/ reader'[r].at = "slot" /\ reader'[r].keyed /\ entry'.owner = TRUE
    <3>1. /\ reader[r].at = "lock" /\ reader[r].keyed /\ spawned' = spawned /\ ~entry.owner
          /\ Serve(r) \/ Refill(r)
      BY <1>1, <1>4 DEF LockEntry, ReaderAt, Behind
    <3>2. CASE Serve(r)
      BY <1>1, <3>1, <3>2 DEF Serve, Answer, ReaderRecord
    <3>3. CASE Refill(r)
      BY <1>1, <3>1, <3>3 DEF Refill, ReaderRecord, CacheEntry
    <3> QED BY <3>1, <3>2, <3>3
  <2> QED BY <2>1, LocksFollow, SlotsFollow DEF Holds, Filling
<1>5. CASE acquireSpawnSlot(r)
  <2>1. /\ reader[r].at = "slot" /\ entry' = entry
        /\ \A q \in Reader : q # r => reader'[q] = reader[q]
        /\ reader'[r].keyed = reader[r].keyed
        /\ \/ reader'[r].at = "refs" /\ spawned' = spawned
           \/ reader'[r].at = "gt" /\ spawned' = spawned + 1 /\ spawned < SpawnSlots
    BY <1>1, <1>5 DEF acquireSpawnSlot, ReaderAt, MoveReader, ReaderRecord
  <2> QED BY <2>1, LocksFollow, SlotsFollow DEF Holds, Filling
<1>6. CASE ReadState(r)
  <2>1. /\ reader[r].at = "gt" /\ entry' = entry /\ spawned' = spawned - 1
        /\ \A q \in Reader : q # r => reader'[q] = reader[q]
        /\ reader'[r].keyed = reader[r].keyed /\ reader'[r].at \in {"store", "refs"}
    <3>1. /\ reader[r].at = "gt" /\ entry' = entry /\ spawned' = spawned - 1
          /\ \/ reader' = [reader EXCEPT ![r].at = "store",
                                         ![r].got = Stack(refs, hidden, TRUE, FALSE)]
             \/ reader' = [reader EXCEPT ![r].at = "refs"]
      BY <1>6 DEF ReadState, ReaderAt, MoveReader
    <3>2. CASE reader' = [reader EXCEPT ![r].at = "store",
                                        ![r].got = Stack(refs, hidden, TRUE, FALSE)]
      BY <1>1, <3>1, <3>2 DEF ReaderRecord
    <3>3. CASE reader' = [reader EXCEPT ![r].at = "refs"]
      BY <1>1, <3>1, <3>3 DEF ReaderRecord
    <3> QED BY <3>1, <3>2, <3>3
  <2> QED BY <2>1, LocksFollow, SlotsFollow DEF Holds, Filling
<1>7. CASE ReadRefMetadata(r)
  <2>1. /\ reader[r].at = "refs" /\ spawned' = spawned
        /\ \A q \in Reader : q # r => reader'[q] = reader[q]
        /\ \/ reader'[r].at = "store" /\ reader'[r].keyed = reader[r].keyed /\ entry' = entry
           \/ reader'[r].at = "idle" /\ entry' = Unlocked(r)
    <3>1. /\ reader[r].at = "refs" /\ spawned' = spawned
          /\ \/ /\ entry' = entry
                /\ \E x : reader' = [reader EXCEPT ![r].at = "store", ![r].got = x]
             \/ entry' = Unlocked(r) /\ reader' = [reader EXCEPT ![r].at = "idle"]
      BY <1>7 DEF ReadRefMetadata, ReaderAt, MoveReader
    <3>2. CASE entry' = entry /\ \E x : reader' = [reader EXCEPT ![r].at = "store", ![r].got = x]
      BY <1>1, <3>1, <3>2 DEF ReaderRecord
    <3>3. CASE entry' = Unlocked(r) /\ reader' = [reader EXCEPT ![r].at = "idle"]
      BY <1>1, <3>1, <3>3 DEF ReaderRecord
    <3> QED BY <3>1, <3>2, <3>3
  <2>2. CASE entry' = entry /\ reader'[r].at = "store"
    BY <2>1, <2>2, LocksFollow, SlotsFollow DEF Holds, Filling
  <2>3. CASE entry' = Unlocked(r) /\ reader'[r].at = "idle"
    BY <1>1, <2>1, <2>3, UnlockedLocks, SlotsFollow DEF Filling
  <2> QED BY <2>1, <2>2, <2>3
<1>8. CASE StoreStack(r)
  <2>1. /\ reader[r].at = "store" /\ spawned' = spawned
        /\ \A q \in Reader : q # r => reader'[q] = reader[q]
        /\ reader'[r].at = "idle"
        /\ \/ reader[r].keyed /\ entry'.owner = FALSE
           \/ entry' = Unlocked(r)
    BY <1>1, <1>8 DEF StoreStack, ReaderAt, Answer, ReaderRecord, Filled
  <2>2. CASE reader[r].keyed /\ entry'.owner = FALSE
    BY <2>1, <2>2, LocksFollow, SlotsFollow DEF Holds, Filling
  <2>3. CASE entry' = Unlocked(r)
    BY <1>1, <2>1, <2>3, UnlockedLocks, SlotsFollow DEF Filling
  <2> QED BY <2>1, <2>2, <2>3
<1>9. CASE ReaderGone(r)
  <2>1. /\ entry' = entry /\ spawned' = spawned
        /\ \A q \in Reader : q # r => reader'[q] = reader[q]
        /\ reader'[r].keyed = reader[r].keyed /\ reader'[r].at = reader[r].at
    BY <1>1, <1>9 DEF ReaderGone, ReaderRecord
  <2> QED BY <2>1, LocksFollow, SlotsFollow DEF Holds
<1> QED BY <1>2, <1>3, <1>4, <1>5, <1>6, <1>7, <1>8, <1>9

LEMMA WorldLocks ==
    ASSUME LockInvariant, RefsChange \/ HiddenChanges \/ ClockTicks \/ UNCHANGED stackVars
    PROVE  LocksHeld' /\ SlotsCounted'
<1>1. UNCHANGED <<entry, reader, spawned>>
  BY DEF RefsChange, HiddenChanges, ClockTicks, stackVars
<1>2. Running' = Running
  BY <1>1 DEF Running
<1> QED BY <1>1, <1>2 DEF LockInvariant, LocksHeld, Holds, SlotsCounted

LEMMA StaysBounded ==
    ASSUME LockInvariant, [StackNext]_stackVars
    PROVE  Bounded'
<1>0. refs \in Nat /\ hidden \in Nat /\ clock \in Nat /\ reads \in Nat /\ failures \in Nat
  BY DEF LockInvariant, StackInvariant, StackTyped
<1>1. ASSUME NEW r \in Reader,
             \/ BeginRead(r) \/ TakeFingerprint(r) \/ LockEntry(r)
             \/ acquireSpawnSlot(r) \/ ReadState(r) \/ ReadRefMetadata(r) \/ StoreStack(r)
             \/ ReaderGone(r)
      PROVE  Bounded'
  <2>1. UNCHANGED <<refs, hidden, clock>>
    BY <1>1 DEF BeginRead, TakeFingerprint, LockEntry, acquireSpawnSlot, ReadState,
       ReadRefMetadata, StoreStack, ReaderGone, repository
  <2>2. UNCHANGED reads \/ (reads < MaxReads /\ reads' = reads + 1)
    BY <1>1 DEF BeginRead, TakeFingerprint, LockEntry, acquireSpawnSlot, ReadState,
       ReadRefMetadata, StoreStack, ReaderGone
  <2>3. UNCHANGED failures \/ (failures < MaxFailures /\ failures' = failures + 1)
    BY <1>1 DEF BeginRead, TakeFingerprint, LockEntry, acquireSpawnSlot, ReadState,
       ReadRefMetadata, StoreStack, ReaderGone, CommandFails
  <2> QED BY <1>0, <2>1, <2>2, <2>3, StackAssumption DEF LockInvariant, Bounded
<1>2. CASE RefsChange \/ HiddenChanges \/ ClockTicks \/ UNCHANGED stackVars
  BY <1>0, <1>2, StackAssumption
  DEF RefsChange, HiddenChanges, ClockTicks, stackVars, LockInvariant, Bounded
<1> QED BY <1>1, <1>2 DEF StackNext

\* The entry's lock has at most one holder, and the slots are counted right.
THEOREM LockInvariantHolds == StackSpec => []LockInvariant
<1>1. StackInit => LockInvariant
  BY CacheInit, LocksInit DEF LockInvariant
<1>2. LockInvariant /\ [StackNext]_stackVars => LocksHeld' /\ SlotsCounted'
  BY ReaderLocks, WorldLocks DEF StackNext
<1>3. LockInvariant /\ StackInvariant' /\ [StackNext]_stackVars => LockInvariant'
  BY <1>2, StaysBounded DEF LockInvariant
<1> QED BY <1>1, <1>3, CacheInvariantHolds, PTL DEF StackSpec

\* The entry is locked just while one reader fills it, and no more gt processes run
\* than there are slots (stackCacheEntry.mu, acquireSpawnSlot).
THEOREM CacheTypeCorrect == StackSpec => []StackTypeOK
<1>1. LockInvariant => StackTypeOK
  <2> SUFFICES ASSUME LockInvariant PROVE StackTypeOK
    OBVIOUS
  <2>1. spawned \in 0 .. SpawnSlots
    BY FS_CardinalityType, StackAssumption DEF LockInvariant, SlotsCounted
  <2>2. entry.owner <=> \E r \in Reader : reader[r].keyed
                                /\ reader[r].at \in {"slot", "gt", "refs", "store"}
    BY DEF LockInvariant, LocksHeld, Holds, Filling
  <2> QED BY <2>1, <2>2, StackAssumption
      DEF LockInvariant, StackInvariant, StackTyped, Bounded, StackTypeOK
<1> QED BY <1>1, LockInvariantHolds, PTL

State == {"none", "open", "merged"}
Holding == {"view", "list", "stale", "tip", "inline", "store"}
Lookup == [at : {"idle", "lookup"} \cup Holding, branch : Branch \cup {"none"}, now : Nat,
           got : State, unsure : BOOLEAN]
PrEntry == [valid : BOOLEAN, storedAt : Nat, pr : State, unsure : BOOLEAN, busy : BOOLEAN]
Result == [branch : Branch, pr : State, err : BOOLEAN, now : Nat, unsure : BOOLEAN]

\* The shape of every variable.
PrTyped ==
    /\ pr \in [Branch -> State] /\ newWork \subseteq Branch /\ dirty \in BOOLEAN
    /\ prTime \in 0 .. MaxPrTime /\ freshAt \in [Branch -> Nat]
    /\ cache \in [Branch -> PrEntry]
    /\ call \in Seq(Branch) /\ prGone \in BOOLEAN /\ jobs \in Seq(Branch)
    /\ worker \in [Worker -> Lookup]
    /\ \A w \in Worker : worker[w].at # "idle" => worker[w].branch \in Branch
    /\ found \subseteq Result
    /\ returned.prs \subseteq Result
    /\ calls \in 0 .. MaxCalls /\ prTrouble \in 0 .. MaxPrTrouble

LooksUp(w, b) == worker[w].branch = b /\ worker[w].at \in Holding

\* The lock of an entry is the one worker's that looks its branch up.
OneLookup ==
    /\ \A b \in Branch : cache[b].busy <=> \E w \in Worker : LooksUp(w, b)
    /\ \A b \in Branch : \A v, w \in Worker : LooksUp(v, b) /\ LooksUp(w, b) => v = w

\* A branch without new work is fresh now.
FreshClock ==
    \A b \in Branch : /\ freshAt[b] <= prTime
                      /\ Fresh(b, newWork, dirty) => freshAt[b] = prTime

\* A merged pull request that git vouched for was seen while the branch was
\* fresh: no earlier than the lookup began, where it has no age yet, and within
\* the age of the cache once it is a result.
Vouched(x) == x.pr = "merged" /\ ~x.unsure => freshAt[x.branch] + PrTTL > x.now

MergedIsVouched ==
    /\ \A b \in Branch :
          cache[b].valid /\ cache[b].pr = "merged" /\ ~cache[b].unsure
            => cache[b].storedAt <= freshAt[b]
    /\ \A w \in Worker :
          /\ worker[w].now <= prTime
          /\ worker[w].got = "merged" /\ ~worker[w].unsure =>
               /\ worker[w].at = "tip" =>
                    worker[w].branch \in newWork \/ worker[w].now <= freshAt[worker[w].branch]
               /\ worker[w].at \in {"inline", "store"} =>
                    worker[w].now <= freshAt[worker[w].branch]
    /\ \A x \in found : Vouched(x)
    /\ \A x \in returned.prs : Vouched(x)

PrInvariant == PrTyped /\ OneLookup /\ FreshClock /\ MergedIsVouched

-----------------------------------------------------------------------------
\* At the start nothing is looked up and nothing is cached.
LEMMA PrInitHolds == PrInit => PrInvariant
<1> SUFFICES ASSUME PrInit PROVE PrInvariant
    OBVIOUS
<1>1. PrTyped
    <2>1. /\ pr \in [Branch -> State] /\ newWork \subseteq Branch /\ dirty \in BOOLEAN
          /\ freshAt \in [Branch -> Nat] /\ prGone \in BOOLEAN
          /\ call \in Seq(Branch) /\ jobs \in Seq(Branch)
        <3>1. <<>> \in Seq(Branch)
            OBVIOUS
        <3>2. call = <<>> /\ jobs = <<>>
            BY DEF PrInit
        <3>3. pr \in [Branch -> State] /\ newWork \subseteq Branch /\ dirty \in BOOLEAN
              /\ freshAt \in [Branch -> Nat] /\ prGone \in BOOLEAN
            BY DEF PrInit, State
        <3> QED BY <3>1, <3>2, <3>3
    <2>2. prTime \in 0 .. MaxPrTime /\ calls \in 0 .. MaxCalls /\ prTrouble \in 0 .. MaxPrTrouble
        BY PrAssumption DEF PrInit
    <2>3. EmptyEntry \in PrEntry
        BY DEF EmptyEntry, PrEntry, State
    <2>4. NoLookup \in Lookup /\ NoLookup.at = "idle"
        BY DEF NoLookup, Lookup, State
    <2>5. cache \in [Branch -> PrEntry] /\ worker \in [Worker -> Lookup]
        BY <2>3, <2>4 DEF PrInit
    <2>6. \A w \in Worker : worker[w].at # "idle" => worker[w].branch \in Branch
        BY <2>4 DEF PrInit
    <2>7. found \subseteq Result /\ returned.prs \subseteq Result
        BY DEF PrInit, Nothing
    <2> QED BY <2>1, <2>2, <2>5, <2>6, <2>7 DEF PrTyped
<1>2. OneLookup
    BY DEF PrInit, OneLookup, LooksUp, Holding, NoLookup, EmptyEntry
<1>3. FreshClock
    BY DEF PrInit, FreshClock, Fresh
<1>4. MergedIsVouched
    BY DEF PrInit, MergedIsVouched, NoLookup, EmptyEntry, Nothing
<1> QED BY <1>1, <1>2, <1>3, <1>4 DEF PrInvariant

\* A result that is vouched for stays so while no branch becomes less fresh.
LEMMA StaysVouched ==
    ASSUME PrTyped, PrTyped', MergedIsVouched,
           \A b \in Branch : freshAt[b] <= freshAt'[b],
           prTime <= prTime', newWork \subseteq newWork',
           UNCHANGED <<cache, worker, found, returned>>
    PROVE  MergedIsVouched'
<1>1. \A b \in Branch :
          cache'[b].valid /\ cache'[b].pr = "merged" /\ ~cache'[b].unsure
            => cache'[b].storedAt <= freshAt'[b]
    <2>1. \A b \in Branch : /\ cache[b].storedAt \in Nat
                            /\ freshAt[b] \in Nat /\ freshAt'[b] \in Nat
        BY DEF PrTyped, PrEntry
    <2> QED BY <2>1 DEF MergedIsVouched
<1>2. ASSUME NEW w \in Worker
      PROVE  /\ worker'[w].now <= prTime'
             /\ worker'[w].got = "merged" /\ ~worker'[w].unsure =>
                  /\ worker'[w].at = "tip" =>
                       \/ worker'[w].branch \in newWork'
                       \/ worker'[w].now <= freshAt'[worker'[w].branch]
                  /\ worker'[w].at \in {"inline", "store"} =>
                       worker'[w].now <= freshAt'[worker'[w].branch]
    <2>1. worker[w].now \in Nat /\ (worker[w].at # "idle" => worker[w].branch \in Branch)
        BY DEF PrTyped, Lookup
    <2> QED BY <2>1 DEF MergedIsVouched, PrTyped
<1>3. ASSUME NEW x \in Result, Vouched(x)
      PROVE  x.pr = "merged" /\ ~x.unsure => freshAt'[x.branch] + PrTTL > x.now
    BY <1>3, PrAssumption DEF Vouched, PrTyped, Result
<1>4. found \subseteq Result /\ returned.prs \subseteq Result
    BY DEF PrTyped
<1>5. \A x \in found' : (Vouched(x))'
    BY <1>3, <1>4 DEF MergedIsVouched, Vouched
<1>6. \A x \in returned'.prs : (Vouched(x))'
    BY <1>3, <1>4 DEF MergedIsVouched, Vouched
<1> QED BY <1>1, <1>2, <1>5, <1>6 DEF MergedIsVouched, Vouched

\* GitHub, the users and the clock: the pool and the cache are left alone, and
\* no branch becomes less fresh than it was.
LEMMA WorldKeeps ==
    ASSUME PrInvariant,
           \/ PrClockTicks
           \/ \E b \in Branch : Opens(b) \/ Merges(b) \/ NewWork(b)
    PROVE  PrInvariant'
<1>1. PrTyped /\ OneLookup /\ FreshClock /\ MergedIsVouched
    BY DEF PrInvariant
<1>2. CASE PrClockTicks
    <2>1. PrTyped'
        BY <1>1, <1>2, PrAssumption DEF PrTyped, PrClockTicks, pool
    <2>2. OneLookup'
        BY <1>1, <1>2 DEF OneLookup, LooksUp, PrClockTicks, pool
    <2>3. FreshClock'
        BY <1>1, <1>2, PrAssumption DEF FreshClock, PrClockTicks, Fresh, PrTyped
    <2>4. \A b \in Branch : freshAt[b] <= freshAt'[b]
        BY <1>1, <1>2 DEF FreshClock, PrClockTicks, PrTyped
    <2>5. prTime <= prTime' /\ newWork \subseteq newWork'
        BY <1>1, <1>2 DEF PrClockTicks, PrTyped
    <2>6. UNCHANGED <<cache, worker, found, returned>>
        BY <1>2 DEF PrClockTicks, pool
    <2>7. MergedIsVouched'
        BY <1>1, <2>1, <2>4, <2>5, <2>6, StaysVouched
    <2> QED BY <2>1, <2>2, <2>3, <2>7 DEF PrInvariant
<1>3. CASE \E b \in Branch : Opens(b) \/ Merges(b) \/ NewWork(b)
    <2>1. PICK b \in Branch : Opens(b) \/ Merges(b) \/ NewWork(b)
        BY <1>3
    <2>2. PrTyped'
        <3>1. /\ pr' \in [Branch -> State] /\ newWork' \subseteq Branch /\ dirty' \in BOOLEAN
              /\ freshAt' \in [Branch -> Nat] /\ prTime' = prTime
            <4>1. CASE Opens(b) \/ Merges(b)
                BY <1>1, <4>1 DEF PrTyped, Opens, Merges, State
            <4>2. CASE NewWork(b)
                <5>1. prTime \in Nat
                    BY <1>1 DEF PrTyped
                <5>2. \A d \in Branch : freshAt[d] \in Nat
                    BY <1>1 DEF PrTyped
                <5>3. freshAt' \in [Branch -> Nat]
                    BY <4>2, <5>1, <5>2 DEF NewWork
                <5>4. newWork' \subseteq Branch /\ dirty' \in BOOLEAN
                    BY <1>1, <4>2 DEF PrTyped, NewWork
                <5>5. UNCHANGED <<pr, prTime>>
                    BY <4>2 DEF NewWork
                <5> QED BY <1>1, <5>3, <5>4, <5>5 DEF PrTyped
            <4> QED BY <2>1, <4>1, <4>2
        <3>2. UNCHANGED <<cache, pool, worker, prTrouble>>
            BY <2>1 DEF Opens, Merges, NewWork
        <3> QED BY <1>1, <3>1, <3>2 DEF PrTyped, pool
    <2>3. OneLookup'
        BY <1>1, <2>1 DEF OneLookup, LooksUp, Opens, Merges, NewWork, pool
    <2>4. FreshClock' /\ \A c \in Branch : freshAt[c] <= freshAt'[c]
        <3>1. CASE Opens(b) \/ Merges(b)
            BY <1>1, <3>1 DEF FreshClock, Opens, Merges, Fresh, PrTyped
        <3>2. CASE NewWork(b)
            BY <1>1, <3>2, <2>2 DEF FreshClock, NewWork, Fresh, PrTyped
        <3> QED BY <2>1, <3>1, <3>2
    <2>5. prTime <= prTime' /\ newWork \subseteq newWork'
        BY <1>1, <2>1 DEF Opens, Merges, NewWork, PrTyped
    <2>6. UNCHANGED <<cache, worker, found, returned>>
        BY <2>1 DEF Opens, Merges, NewWork, pool
    <2>7. MergedIsVouched'
        BY <1>1, <2>2, <2>4, <2>5, <2>6, StaysVouched
    <2> QED BY <2>2, <2>3, <2>4, <2>7 DEF PrInvariant
<1> QED BY <1>2, <1>3
-----------------------------------------------------------------------------
\* A worker goes on with its lookup: what it got is vouched for where it says so.
LEMMA MovingOnKeeps ==
    ASSUME PrInvariant, NEW w \in Worker, NEW x \in Lookup,
           worker[w].at \in Holding, x.at \in Holding,
           x.branch = worker[w].branch, x.now = worker[w].now,
           x.got = "merged" /\ ~x.unsure =>
             /\ x.at = "tip" => x.branch \in newWork \/ x.now <= freshAt[x.branch]
             /\ x.at \in {"inline", "store"} => x.now <= freshAt[x.branch],
           worker' = [worker EXCEPT ![w] = x],
           UNCHANGED <<github, cache, pool>>, prTrouble' \in 0 .. MaxPrTrouble
    PROVE  PrInvariant'
<1>1. PrTyped /\ OneLookup /\ FreshClock /\ MergedIsVouched
    BY DEF PrInvariant
<1>2. worker' \in [Worker -> Lookup] /\ worker'[w] = x
      /\ \A v \in Worker \ {w} : worker'[v] = worker[v]
    BY <1>1 DEF PrTyped
<1>3. worker[w].branch \in Branch
    BY <1>1 DEF PrTyped, Holding
<1>4. \A v \in Worker : worker'[v].branch = worker[v].branch /\ worker'[v].now = worker[v].now
                        /\ (worker'[v].at \in Holding <=> worker[v].at \in Holding)
    BY <1>2
<1>5. \A v \in Worker : worker'[v].at # "idle" => worker'[v].branch \in Branch
    BY <1>1, <1>2, <1>3 DEF PrTyped
<1>6. PrTyped'
    BY <1>1, <1>2, <1>5 DEF PrTyped, github, pool
<1>7. OneLookup'
    BY <1>1, <1>4 DEF OneLookup, LooksUp
<1>8. FreshClock'
    BY <1>1 DEF FreshClock, Fresh, github
<1>9. MergedIsVouched'
    BY <1>1, <1>2 DEF MergedIsVouched, Vouched, github, pool
<1> QED BY <1>6, <1>7, <1>8, <1>9 DEF PrInvariant

\* A worker ends its lookup with a result and leaves the entry unlocked: what the
\* result and the entry say is vouched for.
LEMMA DeliveryKeeps ==
    ASSUME PrInvariant, NEW w \in Worker, NEW result \in State, NEW err \in BOOLEAN,
           NEW e \in PrEntry,
           worker[w].at \in Holding, Deliver(w, result, err),
           result = "merged" /\ ~worker[w].unsure => worker[w].now <= freshAt[worker[w].branch],
           cache' = [cache EXCEPT ![worker[w].branch] = e], ~e.busy,
           e.valid /\ e.pr = "merged" /\ ~e.unsure => e.storedAt <= freshAt[worker[w].branch],
           UNCHANGED github, prTrouble' \in 0 .. MaxPrTrouble
    PROVE  PrInvariant'
<1> DEFINE c == worker[w].branch
           new == [branch |-> c, pr |-> result, err |-> err, now |-> worker[w].now,
                   unsure |-> worker[w].unsure]
<1>1. PrTyped /\ OneLookup /\ FreshClock /\ MergedIsVouched
    BY DEF PrInvariant
<1>2. c \in Branch /\ worker[w] \in Lookup
    BY <1>1 DEF PrTyped, Holding
<1>3. new \in Result
    BY <1>2 DEF Result, Lookup
<1>4. found' = found \cup {new} /\ worker' = [worker EXCEPT ![w] = NoLookup]
      /\ UNCHANGED <<call, prGone, jobs, returned, calls>>
    BY DEF Deliver
<1>5. NoLookup \in Lookup /\ NoLookup.at = "idle" /\ NoLookup.now = 0 /\ NoLookup.got = "none"
    BY DEF NoLookup, Lookup, State
<1>6. worker' \in [Worker -> Lookup] /\ worker'[w] = NoLookup
      /\ \A v \in Worker \ {w} : worker'[v] = worker[v]
    BY <1>1, <1>4, <1>5 DEF PrTyped
<1>7. cache' \in [Branch -> PrEntry] /\ cache'[c] = e
      /\ \A b \in Branch \ {c} : cache'[b] = cache[b]
    BY <1>1, <1>2 DEF PrTyped
<1>8. \A v \in Worker : worker'[v].at # "idle" => worker'[v].branch \in Branch
    BY <1>1, <1>5, <1>6 DEF PrTyped
<1>9. PrTyped'
    <2>1. found' \subseteq Result /\ returned'.prs \subseteq Result
        BY <1>1, <1>3, <1>4 DEF PrTyped
    <2>2. /\ pr' \in [Branch -> State] /\ newWork' \subseteq Branch /\ dirty' \in BOOLEAN
          /\ prTime' \in 0 .. MaxPrTime /\ freshAt' \in [Branch -> Nat]
        BY <1>1 DEF PrTyped, github
    <2> QED BY <1>1, <1>4, <1>6, <1>7, <1>8, <2>1, <2>2 DEF PrTyped
<1>10. OneLookup'
    <2>1. LooksUp(w, c)
        BY DEF LooksUp
    <2>2. \A v \in Worker, b \in Branch : (LooksUp(v, b))' <=> LooksUp(v, b) /\ v # w
        BY <1>5, <1>6 DEF LooksUp, Holding
    <2>3. \A b \in Branch : (LooksUp(w, b) => b = c)
        BY DEF LooksUp
    <2>4. \A b \in Branch : cache[b].busy <=> \E v \in Worker : LooksUp(v, b)
        BY <1>1 DEF OneLookup
    <2>5. \A b \in Branch : \A u, v \in Worker : LooksUp(u, b) /\ LooksUp(v, b) => u = v
        BY <1>1 DEF OneLookup
    <2>6. \A b \in Branch : cache'[b].busy <=> \E v \in Worker : (LooksUp(v, b))'
        <3>1. \A b \in Branch : b = c => \A v \in Worker : ~(LooksUp(v, b))'
            BY <1>2, <2>1, <2>2, <2>5
        <3>2. \A b \in Branch \ {c} : cache'[b].busy <=> \E v \in Worker : (LooksUp(v, b))'
            BY <1>7, <2>2, <2>3, <2>4
        <3> QED BY <1>7, <3>1, <3>2
    <2>7. \A b \in Branch : \A u, v \in Worker : (LooksUp(u, b))' /\ (LooksUp(v, b))' => u = v
        BY <2>2, <2>5
    <2> QED BY <2>6, <2>7 DEF OneLookup
<1>11. FreshClock'
    BY <1>1 DEF FreshClock, Fresh, github
<1>12. MergedIsVouched'
    <2>1. UNCHANGED <<freshAt, prTime, newWork>>
        BY DEF github
    <2>2. Vouched(new)
        BY <1>1, <1>2, PrAssumption DEF Vouched, PrTyped, Lookup
    <2>3. \A x \in found' : Vouched(x)
        BY <1>1, <1>4, <2>2 DEF MergedIsVouched
    <2>4. \A b \in Branch :
              cache'[b].valid /\ cache'[b].pr = "merged" /\ ~cache'[b].unsure
                => cache'[b].storedAt <= freshAt[b]
        BY <1>1, <1>7 DEF MergedIsVouched
    <2>5. \A v \in Worker : /\ worker'[v].now <= prTime
                            /\ v # w => worker'[v] = worker[v]
                            /\ v = w => worker'[v].got = "none"
        <3>1. 0 <= prTime
            BY <1>1 DEF PrTyped
        <3> QED BY <1>1, <1>5, <1>6, <3>1 DEF MergedIsVouched
    <2>6. \A x \in returned.prs : Vouched(x)
        BY <1>1 DEF MergedIsVouched
    <2> QED BY <1>1, <1>4, <2>1, <2>3, <2>4, <2>5, <2>6 DEF MergedIsVouched, Vouched
<1> QED BY <1>9, <1>10, <1>11, <1>12 DEF PrInvariant

-----------------------------------------------------------------------------
\* The trouble counted stays in its bound.
LEMMA TroubleBounded ==
    ASSUME PrInvariant, GhFails \/ UNCHANGED prTrouble
    PROVE  prTrouble' \in 0 .. MaxPrTrouble
BY PrAssumption DEF PrInvariant, PrTyped, GhFails

\* The entry a worker unlocks says what it said before.
LEMMA UnlockedEntry ==
    ASSUME PrInvariant, NEW w \in Worker, worker[w].at \in Holding
    PROVE  \E e \in PrEntry :
              /\ Unlock(w) = [cache EXCEPT ![worker[w].branch] = e] /\ ~e.busy
              /\ e.valid /\ e.pr = "merged" /\ ~e.unsure
                   => e.storedAt <= freshAt[worker[w].branch]
<1> DEFINE c == worker[w].branch
           e == [cache[c] EXCEPT !.busy = FALSE]
<1>1. c \in Branch
    BY DEF PrInvariant, PrTyped, Holding
<1>2. cache[c] \in PrEntry
    BY <1>1 DEF PrInvariant, PrTyped
<1>3. e \in PrEntry /\ ~e.busy /\ e.valid = cache[c].valid /\ e.pr = cache[c].pr
      /\ e.unsure = cache[c].unsure /\ e.storedAt = cache[c].storedAt
    BY <1>2 DEF PrEntry
<1>4. Unlock(w) = [cache EXCEPT ![c] = e]
    BY DEF Unlock
<1>5. e.valid /\ e.pr = "merged" /\ ~e.unsure => e.storedAt <= freshAt[c]
    BY <1>1, <1>3 DEF PrInvariant, MergedIsVouched
<1> QED BY <1>3, <1>4, <1>5

\* A command that fails ends the lookup with nothing and an error.
LEMMA FailureKeeps ==
    ASSUME PrInvariant, NEW w \in Worker, worker[w].at \in Holding, NEW result \in State,
           result = "merged" /\ ~worker[w].unsure => worker[w].now <= freshAt[worker[w].branch],
           Deliver(w, result, TRUE), cache' = Unlock(w), UNCHANGED github,
           GhFails \/ UNCHANGED prTrouble
    PROVE  PrInvariant'
<1>1. PICK e \in PrEntry :
          /\ Unlock(w) = [cache EXCEPT ![worker[w].branch] = e] /\ ~e.busy
          /\ e.valid /\ e.pr = "merged" /\ ~e.unsure => e.storedAt <= freshAt[worker[w].branch]
    BY UnlockedEntry
<1>2. prTrouble' \in 0 .. MaxPrTrouble
    BY TroubleBounded
<1>3. cache' = [cache EXCEPT ![worker[w].branch] = e]
    BY <1>1
<1> QED BY <1>1, <1>2, <1>3, DeliveryKeeps

\* gh pr view answers with the branch's pull request, sends the worker to the
\* historical ones, or fails.
LEMMA ViewKeeps ==
    ASSUME PrInvariant, NEW w \in Worker, ViewPR(w)
    PROVE  PrInvariant'
<1> DEFINE b == worker[w].branch
<1>1. worker[w] \in Lookup /\ worker[w].at = "view" /\ UNCHANGED github
    BY DEF PrInvariant, PrTyped, ViewPR, WorkerAt
<1>2. pr[b] \in State
    BY <1>1 DEF PrInvariant, PrTyped
<1>3. CASE /\ worker' = [worker EXCEPT ![w].at = "stale", ![w].got = pr[b]]
           /\ UNCHANGED <<cache, pool, prTrouble>>
    <2> DEFINE x == [worker[w] EXCEPT !.at = "stale", !.got = pr[b]]
    <2>1. x \in Lookup /\ x.at = "stale" /\ x.branch = b /\ x.now = worker[w].now
        BY <1>1, <1>2 DEF Lookup, Holding
    <2>2. worker' = [worker EXCEPT ![w] = x]
        BY <1>3
    <2>3. prTrouble' \in 0 .. MaxPrTrouble
        BY <1>3, TroubleBounded
    <2>4. worker[w].at \in Holding /\ "stale" \in Holding
        BY <1>1 DEF Holding
    <2> HIDE DEF x
    <2> QED BY <1>1, <1>3, <2>1, <2>2, <2>3, <2>4, MovingOnKeeps
<1>4. CASE MoveWorker(w, "list") /\ UNCHANGED <<cache, pool, prTrouble>>
    <2> DEFINE x == [worker[w] EXCEPT !.at = "list"]
    <2>1. x \in Lookup /\ x.at = "list" /\ x.branch = b /\ x.now = worker[w].now
        BY <1>1 DEF Lookup, Holding
    <2>2. worker' = [worker EXCEPT ![w] = x]
        BY <1>4 DEF MoveWorker
    <2>3. prTrouble' \in 0 .. MaxPrTrouble
        BY <1>4, TroubleBounded
    <2>4. worker[w].at \in Holding /\ "list" \in Holding
        BY <1>1 DEF Holding
    <2> HIDE DEF x
    <2> QED BY <1>1, <1>4, <2>1, <2>2, <2>3, <2>4, MovingOnKeeps
<1>5. CASE Deliver(w, "none", TRUE) /\ cache' = Unlock(w) /\ (GhFails \/ UNCHANGED prTrouble)
    <2>1. "none" \in State /\ worker[w].at \in Holding
        BY <1>1 DEF State, Holding
    <2> QED BY <1>1, <1>5, <2>1, FailureKeeps
<1> QED BY <1>3, <1>4, <1>5 DEF ViewPR

\* So does the list of the historical ones.
LEMMA HistoricalKeeps ==
    ASSUME PrInvariant, NEW w \in Worker, historicalPRForBranch(w)
    PROVE  PrInvariant'
<1> DEFINE b == worker[w].branch
<1>1. worker[w] \in Lookup /\ worker[w].at = "list" /\ UNCHANGED github
    BY DEF PrInvariant, PrTyped, historicalPRForBranch, WorkerAt
<1>2. pr[b] \in State
    BY <1>1 DEF PrInvariant, PrTyped
<1>3. CASE /\ worker' = [worker EXCEPT ![w].got = pr[b],
                            ![w].at = IF pr[b] = "none" THEN "store" ELSE "stale"]
           /\ UNCHANGED <<cache, pool, prTrouble>>
    <2> DEFINE to == IF pr[b] = "none" THEN "store" ELSE "stale"
               x == [worker[w] EXCEPT !.got = pr[b], !.at = to]
    <2>1. x \in Lookup /\ x.at \in Holding /\ x.at # "tip" /\ x.branch = b
          /\ x.now = worker[w].now /\ (x.at # "stale" => x.got = "none")
          /\ x.at \in {"store", "stale"}
        BY <1>1, <1>2 DEF Lookup, Holding
    <2>2. worker' = [worker EXCEPT ![w] = x]
        BY <1>3
    <2>3. prTrouble' \in 0 .. MaxPrTrouble
        BY <1>3, TroubleBounded
    <2>4. worker[w].at \in Holding
        BY <1>1 DEF Holding
    <2> HIDE DEF x
    <2> QED BY <1>1, <1>3, <2>1, <2>2, <2>3, <2>4, MovingOnKeeps
<1>4. CASE GhFails /\ Deliver(w, "none", TRUE) /\ cache' = Unlock(w)
    <2>1. "none" \in State /\ worker[w].at \in Holding
        BY <1>1 DEF State, Holding
    <2> QED BY <1>1, <1>4, <2>1, FailureKeeps
<1> QED BY <1>3, <1>4 DEF historicalPRForBranch

\* The checkout was clean at the first question, and the branch at its head at
\* the second: it was fresh at the first.
LEMMA StaleKeeps ==
    ASSUME PrInvariant, NEW w \in Worker, historicalPRIsStale(w)
    PROVE  PrInvariant'
<1> DEFINE b == worker[w].branch
           open == worker[w].got = "open"
           next == IF open \/ WorkerAt(w, "tip") THEN "inline" ELSE "tip"
           stale == ~open /\ (IF WorkerAt(w, "tip") THEN b \in newWork ELSE dirty)
           to == IF stale THEN "store" ELSE next
           got == IF stale THEN "none" ELSE worker[w].got
<1>1. worker[w] \in Lookup /\ worker[w].at \in {"stale", "tip"} /\ UNCHANGED <<github, cache, pool>>
    BY DEF PrInvariant, PrTyped, historicalPRIsStale
<1>2. b \in Branch /\ worker[w].at \in Holding
    BY <1>1 DEF PrInvariant, PrTyped, Holding
<1>3. prTrouble' \in 0 .. MaxPrTrouble
    BY TroubleBounded DEF historicalPRIsStale
<1>4. /\ Fresh(b, newWork, dirty) => freshAt[b] = prTime
      /\ worker[w].now <= prTime
      /\ worker[w].got = "merged" /\ ~worker[w].unsure /\ worker[w].at = "tip"
           => b \in newWork \/ worker[w].now <= freshAt[b]
    BY <1>2 DEF PrInvariant, FreshClock, MergedIsVouched
<1>5. CASE worker' = [worker EXCEPT ![w].at = to, ![w].got = got]
    <2> DEFINE x == [worker[w] EXCEPT !.at = to, !.got = got]
    <2>1. x \in Lookup /\ x.at = to /\ x.branch = b /\ x.now = worker[w].now /\ x.got = got
          /\ x.unsure = worker[w].unsure
        BY <1>1 DEF Lookup, Holding, State
    <2>2. worker' = [worker EXCEPT ![w] = x]
        BY <1>5
    <2>3. x.at \in Holding
        BY <2>1 DEF Holding
    <2>4. x.got = "merged" /\ ~x.unsure =>
             /\ x.at = "tip" => x.branch \in newWork \/ x.now <= freshAt[x.branch]
             /\ x.at \in {"inline", "store"} => x.now <= freshAt[x.branch]
        <3> HIDE DEF x
        <3> QED BY <1>1, <1>4, <2>1 DEF Fresh, WorkerAt
    <2> HIDE DEF x
    <2> QED BY <1>1, <1>2, <1>3, <2>1, <2>2, <2>3, <2>4, MovingOnKeeps
<1>6. ASSUME NEW p \in {next, "inline"},
             worker' = [worker EXCEPT ![w].at = p, ![w].unsure = TRUE]
      PROVE  PrInvariant'
    <2> DEFINE x == [worker[w] EXCEPT !.at = p, !.unsure = TRUE]
    <2>1. x \in Lookup /\ x.at = p /\ x.branch = b /\ x.now = worker[w].now /\ x.unsure
        BY <1>1 DEF Lookup, Holding
    <2>2. worker' = [worker EXCEPT ![w] = x]
        BY <1>6
    <2>3. x.at \in Holding
        BY <2>1 DEF Holding
    <2> HIDE DEF x
    <2> QED BY <1>1, <1>2, <1>3, <2>1, <2>2, <2>3, MovingOnKeeps
<1>7. worker' = [worker EXCEPT ![w].at = to, ![w].got = got]
      \/ \E p \in {next, "inline"} :
            worker' = [worker EXCEPT ![w].at = p, ![w].unsure = TRUE]
    BY DEF historicalPRIsStale
<1> QED BY <1>5, <1>6, <1>7

\* The comments change nothing about the pull request, and neither does their
\* failure.
LEMMA CommentsKeep ==
    ASSUME PrInvariant, NEW w \in Worker, inlineComments(w)
    PROVE  PrInvariant'
<1>1. worker[w] \in Lookup /\ worker[w].at = "inline" /\ UNCHANGED github
    BY DEF PrInvariant, PrTyped, inlineComments, WorkerAt
<1>2. worker[w].got = "merged" /\ ~worker[w].unsure => worker[w].now <= freshAt[worker[w].branch]
    BY <1>1 DEF PrInvariant, MergedIsVouched
<1>3. CASE MoveWorker(w, "store") /\ UNCHANGED <<cache, pool, prTrouble>>
    <2> DEFINE x == [worker[w] EXCEPT !.at = "store"]
    <2>1. x \in Lookup /\ x.at = "store" /\ x.branch = worker[w].branch /\ x.now = worker[w].now
          /\ x.got = worker[w].got /\ x.unsure = worker[w].unsure
        BY <1>1 DEF Lookup, Holding
    <2>2. worker' = [worker EXCEPT ![w] = x]
        BY <1>3 DEF MoveWorker
    <2>3. prTrouble' \in 0 .. MaxPrTrouble
        BY <1>3, TroubleBounded
    <2>4. worker[w].at \in Holding /\ "store" \in Holding
        BY <1>1 DEF Holding
    <2> HIDE DEF x
    <2> QED BY <1>1, <1>2, <1>3, <2>1, <2>2, <2>3, <2>4, MovingOnKeeps
<1>4. CASE GhFails /\ Deliver(w, worker[w].got, TRUE) /\ cache' = Unlock(w)
    <2>1. worker[w].got \in State /\ worker[w].at \in Holding
        BY <1>1 DEF Lookup, Holding
    <2> QED BY <1>1, <1>2, <1>4, <2>1, FailureKeeps
<1> QED BY <1>3, <1>4 DEF inlineComments

\* What is stored has the age of its lookup.
LEMMA StoreKeeps ==
    ASSUME PrInvariant, NEW w \in Worker, StorePR(w)
    PROVE  PrInvariant'
<1> DEFINE b == worker[w].branch
           kept == [valid |-> TRUE, storedAt |-> worker[w].now, pr |-> worker[w].got,
                    unsure |-> worker[w].unsure, busy |-> FALSE]
<1>1. worker[w] \in Lookup /\ worker[w].at = "store" /\ UNCHANGED github
      /\ Deliver(w, worker[w].got, FALSE) /\ UNCHANGED prTrouble
    BY DEF PrInvariant, PrTyped, StorePR, WorkerAt
<1>2. worker[w].got = "merged" /\ ~worker[w].unsure => worker[w].now <= freshAt[b]
    BY <1>1 DEF PrInvariant, MergedIsVouched
<1>3. worker[w].got \in State /\ worker[w].at \in Holding
    BY <1>1 DEF Lookup, Holding
<1>4. prTrouble' \in 0 .. MaxPrTrouble
    BY <1>1, TroubleBounded
<1>5. CASE prGone
    <2>1. cache' = Unlock(w)
        BY <1>5 DEF StorePR
    <2>2. PICK e \in PrEntry :
              /\ Unlock(w) = [cache EXCEPT ![worker[w].branch] = e] /\ ~e.busy
              /\ e.valid /\ e.pr = "merged" /\ ~e.unsure => e.storedAt <= freshAt[worker[w].branch]
        BY <1>3, UnlockedEntry
    <2>3. cache' = [cache EXCEPT ![worker[w].branch] = e]
        BY <2>1, <2>2
    <2> QED BY <1>1, <1>2, <1>3, <1>4, <2>2, <2>3, DeliveryKeeps
<1>6. CASE ~prGone
    <2>1. kept \in PrEntry /\ ~kept.busy /\ kept.storedAt = worker[w].now
          /\ kept.pr = worker[w].got /\ kept.unsure = worker[w].unsure
        BY <1>1 DEF PrEntry, Lookup
    <2>2. cache' = [cache EXCEPT ![worker[w].branch] = kept]
        BY <1>6 DEF StorePR
    <2> HIDE DEF kept
    <2> QED BY <1>1, <1>2, <1>3, <1>4, <2>1, <2>2, DeliveryKeeps
<1> QED BY <1>5, <1>6

\* The cache serves what is not too old, or the worker takes the entry's lock.
LEMMA LookupKeeps ==
    ASSUME PrInvariant, NEW w \in Worker, lookup(w)
    PROVE  PrInvariant'
<1> DEFINE c == worker[w].branch
<1>1. PrTyped /\ OneLookup /\ FreshClock /\ MergedIsVouched
    BY DEF PrInvariant
<1>2. worker[w] \in Lookup /\ worker[w].at = "lookup" /\ c \in Branch
      /\ cache[c] \in PrEntry /\ ~cache[c].busy
      /\ UNCHANGED <<github, call, prGone, jobs, returned, calls, prTrouble>>
    BY <1>1 DEF PrTyped, lookup, WorkerAt
<1>3. prTime \in Nat /\ freshAt[c] \in Nat
    BY <1>1, <1>2 DEF PrTyped
<1>4. FreshClock'
    BY <1>1, <1>2 DEF FreshClock, Fresh, github
<1>5. CASE cache[c].valid /\ prTime < cache[c].storedAt + PrTTL
    <2> DEFINE new == [branch |-> c, pr |-> cache[c].pr, err |-> FALSE,
                       now |-> prTime, unsure |-> cache[c].unsure]
    <2>1. found' = found \cup {new} /\ worker' = [worker EXCEPT ![w] = NoLookup] /\ UNCHANGED cache
        BY <1>5 DEF lookup
    <2>2. new \in Result
        BY <1>2, <1>3 DEF Result, PrEntry
    <2>3. Vouched(new)
        BY <1>1, <1>2, <1>3, <1>5, PrAssumption DEF Vouched, MergedIsVouched, PrEntry
    <2>4. NoLookup \in Lookup /\ NoLookup.at = "idle" /\ NoLookup.now = 0 /\ NoLookup.got = "none"
        BY DEF NoLookup, Lookup, State
    <2>5. worker' \in [Worker -> Lookup] /\ worker'[w] = NoLookup
          /\ \A v \in Worker \ {w} : worker'[v] = worker[v]
        BY <1>1, <2>1, <2>4 DEF PrTyped
    <2>6. \A v \in Worker : worker'[v].at # "idle" => worker'[v].branch \in Branch
        BY <1>1, <2>4, <2>5 DEF PrTyped
    <2>7. PrTyped'
        <3>1. found' \subseteq Result /\ returned'.prs \subseteq Result
            BY <1>1, <1>2, <2>1, <2>2 DEF PrTyped
        <3>2. /\ pr' \in [Branch -> State] /\ newWork' \subseteq Branch /\ dirty' \in BOOLEAN
              /\ prTime' \in 0 .. MaxPrTime /\ freshAt' \in [Branch -> Nat]
            BY <1>1, <1>2 DEF PrTyped, github
        <3> HIDE DEF new
        <3> QED BY <1>1, <1>2, <2>1, <2>5, <2>6, <3>1, <3>2 DEF PrTyped
    <2>8. OneLookup'
        <3>1. \A v \in Worker : (worker'[v].at \in Holding <=> worker[v].at \in Holding)
                                /\ (v # w => worker'[v].branch = worker[v].branch)
            BY <1>2, <2>4, <2>5 DEF Holding
        <3>2. worker[w].at \notin Holding
            BY <1>2 DEF Holding
        <3>3. \A v \in Worker, b \in Branch : (LooksUp(v, b))' <=> LooksUp(v, b)
            BY <3>1, <3>2 DEF LooksUp
        <3> QED BY <1>1, <2>1, <3>3 DEF OneLookup
    <2>9. MergedIsVouched'
        <3>1. UNCHANGED <<freshAt, prTime, newWork, returned>>
            BY <1>2 DEF github
        <3>2. \A x \in found' : Vouched(x)
            BY <1>1, <2>1, <2>3 DEF MergedIsVouched
        <3>3. \A v \in Worker : /\ worker'[v].now <= prTime
                                /\ v # w => worker'[v] = worker[v]
                                /\ v = w => worker'[v].got = "none"
            BY <1>1, <1>3, <2>4, <2>5 DEF MergedIsVouched
        <3>4. \A x \in returned.prs : Vouched(x)
            BY <1>1 DEF MergedIsVouched
        <3> HIDE DEF new
        <3> QED BY <1>1, <2>1, <3>1, <3>2, <3>3, <3>4 DEF MergedIsVouched, Vouched
    <2> QED BY <1>4, <2>7, <2>8, <2>9 DEF PrInvariant
<1>6. CASE ~(cache[c].valid /\ prTime < cache[c].storedAt + PrTTL)
    <2> DEFINE x == [worker[w] EXCEPT !.at = "view", !.now = prTime]
               e == [cache[c] EXCEPT !.busy = TRUE]
    <2>1. worker' = [worker EXCEPT ![w] = x] /\ cache' = [cache EXCEPT ![c] = e] /\ UNCHANGED found
        BY <1>6 DEF lookup
    <2>2. x \in Lookup /\ x.at = "view" /\ x.now = prTime /\ x.branch = c
        BY <1>2, <1>3 DEF Lookup, Holding
    <2>3. e \in PrEntry /\ e.busy /\ e.valid = cache[c].valid /\ e.pr = cache[c].pr
          /\ e.unsure = cache[c].unsure /\ e.storedAt = cache[c].storedAt
        BY <1>2 DEF PrEntry
    <2> HIDE DEF x, e
    <2>4. worker' \in [Worker -> Lookup] /\ worker'[w] = x
          /\ \A v \in Worker \ {w} : worker'[v] = worker[v]
        BY <1>1, <2>1, <2>2 DEF PrTyped
    <2>5. cache' \in [Branch -> PrEntry] /\ cache'[c] = e
          /\ \A b \in Branch \ {c} : cache'[b] = cache[b]
        BY <1>1, <1>2, <2>1, <2>3 DEF PrTyped
    <2>6. \A v \in Worker : worker'[v].at # "idle" => worker'[v].branch \in Branch
        BY <1>1, <1>2, <2>2, <2>4 DEF PrTyped
    <2>7. PrTyped'
        <3>1. /\ pr' \in [Branch -> State] /\ newWork' \subseteq Branch /\ dirty' \in BOOLEAN
              /\ prTime' \in 0 .. MaxPrTime /\ freshAt' \in [Branch -> Nat]
            BY <1>1, <1>2 DEF PrTyped, github
        <3> QED BY <1>1, <1>2, <2>1, <2>4, <2>5, <2>6, <3>1 DEF PrTyped
    <2>8. OneLookup'
        <3>1. worker[w].at \notin Holding /\ x.at \in Holding
            BY <1>2, <2>2 DEF Holding
        <3>2. \A v \in Worker, b \in Branch : (LooksUp(v, b))' <=> LooksUp(v, b) \/ (v = w /\ b = c)
            BY <2>2, <2>4, <3>1 DEF LooksUp
        <3>3. \A b \in Branch : cache[b].busy <=> \E v \in Worker : LooksUp(v, b)
            BY <1>1 DEF OneLookup
        <3>4. \A b \in Branch : \A u, v \in Worker : LooksUp(u, b) /\ LooksUp(v, b) => u = v
            BY <1>1 DEF OneLookup
        <3>5. \A b \in Branch : cache'[b].busy <=> \E v \in Worker : (LooksUp(v, b))'
            BY <2>3, <2>5, <3>2, <3>3
        <3>6. \A b \in Branch : \A u, v \in Worker : (LooksUp(u, b))' /\ (LooksUp(v, b))' => u = v
            BY <1>2, <3>2, <3>3, <3>4
        <3> QED BY <3>5, <3>6 DEF OneLookup
    <2>9. MergedIsVouched'
        <3>1. UNCHANGED <<freshAt, prTime, newWork, returned, found>>
            BY <1>2, <2>1 DEF github
        <3>2. \A b \in Branch : /\ cache'[b].valid <=> cache[b].valid
                                /\ cache'[b].pr = cache[b].pr
                                /\ cache'[b].unsure <=> cache[b].unsure
                                /\ cache'[b].storedAt = cache[b].storedAt
            BY <2>3, <2>5
        <3>3. \A v \in Worker : /\ worker'[v].now <= prTime
                                /\ v # w => worker'[v] = worker[v]
                                /\ v = w => worker'[v].at = "view"
            BY <1>1, <1>3, <2>2, <2>4 DEF MergedIsVouched
        <3> QED BY <1>1, <3>1, <3>2, <3>3 DEF MergedIsVouched, Vouched
    <2> QED BY <1>4, <2>7, <2>8, <2>9 DEF PrInvariant
<1> QED BY <1>5, <1>6

\* A call begins, hands out its branches, is left by its caller and returns.
LEMMA CallsKeep ==
    ASSUME PrInvariant,
           \/ \E branches \in Calls : PRsForBranches(branches)
           \/ \E w \in Worker : TakeJob(w)
           \/ PRsReturn \/ CallGone
    PROVE  PrInvariant'
<1>1. PrTyped /\ OneLookup /\ FreshClock /\ MergedIsVouched
    BY DEF PrInvariant
<1>2. CASE \E branches \in Calls : PRsForBranches(branches)
    <2>1. PICK branches \in Calls : PRsForBranches(branches)
        BY <1>2
    <2>2. branches \in Seq(Branch)
        BY PrAssumption
    <2>3. PrTyped'
        <3>1. call' \in Seq(Branch) /\ jobs' \in Seq(Branch)
            BY <2>1, <2>2 DEF PRsForBranches
        <3>2. calls' \in 0 .. MaxCalls
            BY <1>1, <2>1, PrAssumption DEF PrTyped, PRsForBranches
        <3>3. found' = {} /\ returned'.prs = {} /\ prGone' = FALSE
              /\ UNCHANGED <<github, cache, worker, prTrouble>>
            BY <2>1 DEF PRsForBranches, Nothing
        <3> QED BY <1>1, <3>1, <3>2, <3>3 DEF PrTyped, github
    <2>4. OneLookup' /\ FreshClock' /\ MergedIsVouched'
        BY <1>1, <2>1 DEF OneLookup, LooksUp, FreshClock, Fresh, MergedIsVouched, Vouched,
                          PRsForBranches, github, Nothing
    <2> QED BY <2>3, <2>4 DEF PrInvariant
<1>3. CASE \E w \in Worker : TakeJob(w)
    <2>1. PICK w \in Worker : TakeJob(w)
        BY <1>3
    <2> DEFINE x == [NoLookup EXCEPT !.at = "lookup", !.branch = Head(jobs)]
    <2>2. jobs \in Seq(Branch) /\ jobs # <<>> /\ worker[w].at = "idle"
          /\ jobs' = Tail(jobs) /\ worker' = [worker EXCEPT ![w] = x]
          /\ UNCHANGED <<github, cache, call, prGone, found, returned, calls, prTrouble>>
        BY <1>1, <2>1 DEF PrTyped, TakeJob, WorkerAt
    <2>3. Head(jobs) \in Branch /\ Tail(jobs) \in Seq(Branch)
        BY <2>2
    <2>4. x \in Lookup /\ x.at = "lookup" /\ x.branch \in Branch /\ x.now = 0 /\ x.got = "none"
        BY <2>3 DEF NoLookup, Lookup, State
    <2> HIDE DEF x
    <2>5. worker' \in [Worker -> Lookup] /\ worker'[w] = x
          /\ \A v \in Worker \ {w} : worker'[v] = worker[v]
        BY <1>1, <2>2, <2>4 DEF PrTyped
    <2>6. \A v \in Worker : worker'[v].at # "idle" => worker'[v].branch \in Branch
        BY <1>1, <2>4, <2>5 DEF PrTyped
    <2>7. PrTyped'
        <3>1. /\ pr' \in [Branch -> State] /\ newWork' \subseteq Branch /\ dirty' \in BOOLEAN
              /\ prTime' \in 0 .. MaxPrTime /\ freshAt' \in [Branch -> Nat]
            BY <1>1, <2>2 DEF PrTyped, github
        <3>2. jobs' \in Seq(Branch)
            BY <2>2, <2>3
        <3> QED BY <1>1, <2>2, <2>5, <2>6, <3>1, <3>2 DEF PrTyped
    <2>8. OneLookup'
        <3>1. worker[w].at \notin Holding /\ x.at \notin Holding
            BY <2>2, <2>4 DEF Holding
        <3>2. \A v \in Worker, b \in Branch : (LooksUp(v, b))' <=> LooksUp(v, b)
            BY <2>5, <3>1 DEF LooksUp
        <3> QED BY <1>1, <2>2, <3>2 DEF OneLookup
    <2>9. FreshClock'
        BY <1>1, <2>2 DEF FreshClock, Fresh, github
    <2>10. MergedIsVouched'
        <3>1. UNCHANGED <<freshAt, prTime, newWork, returned, found, cache>>
            BY <2>2 DEF github
        <3>2. 0 <= prTime
            BY <1>1 DEF PrTyped
        <3>3. \A v \in Worker : /\ worker'[v].now <= prTime
                                /\ v # w => worker'[v] = worker[v]
                                /\ v = w => worker'[v].at = "lookup"
            BY <1>1, <2>4, <2>5, <3>2 DEF MergedIsVouched
        <3> QED BY <1>1, <3>1, <3>3 DEF MergedIsVouched, Vouched
    <2> QED BY <2>7, <2>8, <2>9, <2>10 DEF PrInvariant
<1>4. CASE PRsReturn
    <2>1. /\ returned'.prs = {f \in found : f.pr # "none"} /\ found' = {} /\ call' = <<>>
          /\ UNCHANGED <<github, cache, worker, prGone, jobs, calls, prTrouble>>
        BY <1>4 DEF PRsReturn
    <2>2. PrTyped'
        BY <1>1, <2>1 DEF PrTyped, github
    <2>3. OneLookup' /\ FreshClock'
        BY <1>1, <2>1 DEF OneLookup, LooksUp, FreshClock, Fresh, github
    <2>4. MergedIsVouched'
        BY <1>1, <2>1 DEF MergedIsVouched, Vouched, github
    <2> QED BY <2>2, <2>3, <2>4 DEF PrInvariant
<1>5. CASE CallGone
    <2>1. PrTyped'
        BY <1>1, <1>5, PrAssumption DEF PrTyped, CallGone, github
    <2>2. OneLookup' /\ FreshClock' /\ MergedIsVouched'
        BY <1>1, <1>5 DEF OneLookup, LooksUp, FreshClock, Fresh, MergedIsVouched, Vouched,
                          CallGone, github
    <2> QED BY <2>1, <2>2 DEF PrInvariant
<1> QED BY <1>2, <1>3, <1>4, <1>5

-----------------------------------------------------------------------------
\* Every step of the lookups keeps the invariant.
THEOREM PrInvariantHolds == PrSpec => []PrInvariant
<1>1. PrInit => PrInvariant
    BY PrInitHolds
<1>2. PrInvariant /\ [PrNext]_prVars => PrInvariant'
    <2> SUFFICES ASSUME PrInvariant, [PrNext]_prVars PROVE PrInvariant'
        OBVIOUS
    <2>1. ASSUME NEW w \in Worker,
                 \/ lookup(w) \/ ViewPR(w) \/ historicalPRForBranch(w)
                 \/ historicalPRIsStale(w) \/ inlineComments(w) \/ StorePR(w)
          PROVE  PrInvariant'
        BY <2>1, LookupKeeps, ViewKeeps, HistoricalKeeps, StaleKeeps, CommentsKeep, StoreKeeps
    <2>2. CASE UNCHANGED prVars
        BY <2>2 DEF prVars, PrInvariant, PrTyped, OneLookup, LooksUp, FreshClock, Fresh,
                    MergedIsVouched, Vouched
    <2> QED BY <2>1, <2>2, CallsKeep, WorldKeeps DEF PrNext
<1> QED BY <1>1, <1>2, PTL DEF PrSpec

\* A merged pull request that git vouched for is attached to no work that was
\* begun under its branch's name before the age of the cache: not by a lookup
\* whose two questions to git are commands apart, not by an entry of the cache,
\* and not by whichever of a call's workers comes first.
THEOREM MergedStaysWithItsWork == PrSpec => []MergedIsNotAttachedToNewWork
<1>1. PrInvariant => MergedIsNotAttachedToNewWork
    BY DEF PrInvariant, MergedIsVouched, Vouched, MergedIsNotAttachedToNewWork
<1> QED BY <1>1, PrInvariantHolds, PTL

\* Every variable of the lookups has its type, and an entry's lock is held by a
\* worker that looks its branch up.
THEOREM PrTypeCorrect == PrSpec => []PrTypeOK
<1>1. PrInvariant => PrTypeOK
    BY DEF PrInvariant, PrTyped, OneLookup, LooksUp, Holding, State, PrTypeOK
<1> QED BY <1>1, PrInvariantHolds, PTL

===============================================================================
