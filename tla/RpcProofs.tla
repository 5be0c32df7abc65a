-------------------------------- MODULE RpcProofs --------------------------------
(***************************************************************************)
(* The promises of the RPC server, proved for any number of requests,      *)
(* repositories and slots: what is registered for cancellation, who        *)
(* answers a result that is not complete, and how old a diff may be.  And  *)
(* those of the interface's client of it, for any number of callers,       *)
(* queries and sidecars: what a call waits for and what it gets.           *)
(***************************************************************************)
EXTENDS RpcServer, RpcClient, FiniteSetTheorems, TLAPS

Stage == {"unread", "dispatch", "gate", "work", "release", "write", "forget", "ended"}

\* What the methods other than diff check and read, and what is left of a diff.
Check == {"params", "read", "slice", "member", "primary", "branch"}
DiffTodo == {<<"params", "slice", "fingerprint", "lookup", "build">>,
             <<"slice", "fingerprint", "lookup", "build">>,
             <<"fingerprint", "lookup", "build">>, <<"lookup", "build">>, <<"build">>, <<>>}

OutcomeRecord == [what : {"none", "result", "cancelled", "error"}, whole : BOOLEAN,
                  tree : Nat, begun : Nat]
RequestRecord == [id : Id \cup {NoId}, method : Method \cup {"hello"}, at : Stage,
                  todo : Seq(Check) \cup DiffTodo, seen : Nat, left : Nat,
                  got : OutcomeRecord, since : Nat]
Fingerprints == {FingerprintAt[v] : v \in 0 .. MaxTrees}
CacheRecord == [valid : BOOLEAN, fingerprint : Fingerprints, result : OutcomeRecord]

\* The shape of every variable.
RpcTyped ==
    /\ serve \in {"reading", "collect", "cancel", "wait", "returned"}
    /\ ctxDone \in BOOLEAN
    /\ collected \subseteq Request /\ cancelled \subseteq Request
    /\ requests \in 0 .. MaxRequests
    /\ request \in [Request -> RequestRecord]
    /\ inFlight \in [Id -> 0 .. MaxRequests]
    /\ slots \in Int /\ worktrees \in 0 .. MaxTrees
    /\ diffCache \in CacheRecord
    /\ answer \in [Request -> OutcomeRecord]

\* What a request has left to do is what its method does, it has an outcome while
\* it works and until that is written, and only gated methods pass the gate.
Fits(x) ==
    /\ x.at = "gate" => x.method \in DOMAIN Handlers \ Ungated
    /\ x.at = "release" => x.method \notin Ungated
    /\ x.at = "forget" => x.id # NoId
    /\ x.at = "work" => IF x.method = "diff" THEN x.todo \in DiffTodo ELSE x.todo \in Seq(Check)
    /\ x.at \notin {"work", "release", "write"} => x.got = NoOutcome

RequestsFit ==
    \A i \in Request :
       /\ Fits(request[i])
       /\ request[i].at = "unread" <=> i > requests
       /\ i > requests => request[i] = NoRequest /\ answer[i] = NoOutcome

\* n is the newest request that carries the ID, and is registered unless it ended.
Newest(id, n) ==
    /\ n \in 1 .. requests /\ request[n].id = id
    /\ \A j \in 1 .. requests : request[j].id = id => j <= n

NewestRegistered ==
    \A id \in Id :
       \/ inFlight[id] = 0 /\ \A j \in 1 .. requests : request[j].id # id
       \/ \E n \in Request :
             Newest(id, n) /\ inFlight[id] = IF request[n].at = "ended" THEN 0 ELSE n

Holders == {i \in Request : Holding(i)}
SlotsHeld == slots = Cardinality(Holders) /\ slots <= Gate

\* A diff's request past the place where it may store what it built.
Past(x) ==
    /\ x.method = "diff"
    /\ x.at \in {"release", "write", "forget", "ended"} \/ (x.at = "work" /\ x.todo = <<>>)

\* The request i may answer what another diff's request left in the cache when it
\* was cut short.
Borrowed(i) ==
    /\ request[i].method = "diff" /\ diffCache.valid
    /\ \E j \in Request \ {i} : request[j].method = "diff" /\ ContextDone(j)

\* Where what is not complete comes from.
CutsKnown ==
    /\ \A i \in Request :
          /\ ~request[i].got.whole =>
                /\ request[i].at = "work" => ContextDone(i) /\ request[i].method \notin Ungated
                /\ request[i].at = "release" => ContextDone(i) \/ Borrowed(i)
                /\ request[i].at = "write" => Borrowed(i)
          /\ ~answer[i].whole => Borrowed(i)
    /\ ~diffCache.result.whole =>
          diffCache.valid /\ \E j \in Request : Past(request[j]) /\ ContextDone(j)

\* What is cached is not older than its fingerprint, and is kept under that.
CacheFits(c) ==
    c.valid => /\ c.fingerprint = FingerprintAt[c.result.begun]
               /\ c.result.begun <= c.result.tree

\* From the fingerprint on, a diff's request has seen the worktrees of a time after
\* it was read, and what it builds is not older than the fingerprint.
OldFree(x) ==
    /\ x.since <= worktrees
    /\ x.method = "diff" =>
          /\ x.at = "work" /\ x.todo \in {<<"lookup", "build">>, <<"build">>} =>
                x.since <= x.seen /\ x.seen <= worktrees
          /\ x.at = "work" /\ x.todo = <<"build">> =>
                x.seen = x.got.begun /\ x.got.begun <= x.got.tree
          /\ x.got.what = "result" => FoundAgain(x.since, x.got)

NothingOld ==
    /\ \A i \in Request :
          /\ OldFree(request[i])
          /\ request[i].method = "diff" /\ answer[i].what = "result" =>
                FoundAgain(request[i].since, answer[i])
    /\ CacheFits(diffCache)

RpcInvariant ==
    RpcTyped /\ RequestsFit /\ NewestRegistered /\ SlotsHeld /\ CutsKnown /\ NothingOld
-----------------------------------------------------------------------------
\* The methods other than diff make no step of a diff.
LEMMA HandlersFit ==
    ASSUME NEW m \in DOMAIN Handlers
    PROVE  IF m = "diff" THEN Handlers[m] \in DiffTodo ELSE Handlers[m] \in Seq(Check)
<1>1. m \in {"hello", "focusAck", "comments", "reviews", "reviewRuns", "ls", "conflicts", "show",
             "status", "capture", "procs", "prStack", "ciLog", "branchDiff", "tree", "file",
             "diff"}
  BY DEF Handlers
<1>2. CASE m = "diff"
  BY <1>2 DEF Handlers, DiffTodo
<1>3. CASE m # "diff"
  <2>1. Handlers[m] \in {<<>>, <<"read">>, <<"params", "read">>, <<"params", "read", "slice">>,
                         <<"params", "slice", "read">>, <<"params", "slice", "member", "read">>,
                         <<"params", "slice", "member", "primary", "branch", "read">>}
    BY <1>1, <1>3 DEF Handlers
  <2>2. /\ <<>> \in Seq(Check) /\ <<"read">> \in Seq(Check) /\ <<"params", "read">> \in Seq(Check)
        /\ <<"params", "read", "slice">> \in Seq(Check)
        /\ <<"params", "slice", "read">> \in Seq(Check)
        /\ <<"params", "slice", "member", "read">> \in Seq(Check)
        /\ <<"params", "slice", "member", "primary", "branch", "read">> \in Seq(Check)
    BY DEF Check
  <2> QED BY <1>3, <2>1, <2>2
<1> QED BY <1>2, <1>3

LEMMA Empty ==
    /\ NoOutcome \in OutcomeRecord /\ Cancelled \in OutcomeRecord /\ Failed \in OutcomeRecord
    /\ NoOutcome.whole /\ Cancelled.whole /\ Failed.whole
    /\ NoOutcome.what = "none" /\ Cancelled.what # "result" /\ Failed.what # "result"
    /\ NoRequest \in RequestRecord /\ NoRequest.at = "unread" /\ NoRequest.id = NoId
    /\ NoRequest.got = NoOutcome /\ NoRequest.method = "hello" /\ NoRequest.since = 0
BY DEF NoOutcome, Cancelled, Failed, Outcome, OutcomeRecord, NoRequest, RequestRecord, Stage

LEMMA RpcInitially == RpcInit => RpcInvariant
<1> SUFFICES ASSUME RpcInit PROVE RpcInvariant
  OBVIOUS
<1>1. RpcTyped
  <2>1. diffCache \in CacheRecord
    BY Empty, RpcAssumption DEF RpcInit, CacheRecord, Fingerprints
  <2>2. request \in [Request -> RequestRecord] /\ answer \in [Request -> OutcomeRecord]
    BY Empty DEF RpcInit
  <2>3. inFlight \in [Id -> 0 .. MaxRequests]
    BY RpcAssumption DEF RpcInit
  <2>4. requests \in 0 .. MaxRequests /\ worktrees \in 0 .. MaxTrees /\ slots \in Int
    BY RpcAssumption DEF RpcInit
  <2>5. serve \in {"reading", "collect", "cancel", "wait", "returned"}
    BY DEF RpcInit
  <2>6. ctxDone \in BOOLEAN /\ collected \subseteq Request /\ cancelled \subseteq Request
    BY DEF RpcInit
  <2> QED BY <2>1, <2>2, <2>3, <2>4, <2>5, <2>6 DEF RpcTyped
<1>2. RequestsFit
  BY Empty DEF RpcInit, RequestsFit, Fits, Request
<1>3. NewestRegistered
  BY Empty, RpcAssumption DEF RpcInit, NewestRegistered
<1>4. SlotsHeld
  <2> Holders = {}
    BY Empty DEF RpcInit, Holders, Holding
  <2> QED BY FS_EmptySet, RpcAssumption DEF RpcInit, SlotsHeld
<1>5. CutsKnown
  BY Empty DEF RpcInit, CutsKnown
<1>6. NothingOld
  BY Empty, RpcAssumption DEF RpcInit, NothingOld, OldFree, CacheFits
<1> QED BY <1>1, <1>2, <1>3, <1>4, <1>5, <1>6 DEF RpcInvariant

LEMMA RequestTypes ==
    ASSUME RpcInvariant
    PROVE  /\ Request \subseteq Nat /\ requests \in Nat /\ requests <= MaxRequests
           /\ worktrees \in Nat
           /\ \A i \in Request :
                 /\ request[i] \in RequestRecord /\ answer[i] \in OutcomeRecord
                 /\ request[i].since \in Nat /\ request[i].seen \in Nat
                 /\ request[i].got \in OutcomeRecord
                 /\ request[i].at # "unread" <=> i \in 1 .. requests
BY RpcAssumption DEF RpcInvariant, RpcTyped, RequestsFit, Request, RequestRecord

\* What is borrowed stays borrowed: contexts end once, the cache stays filled, and
\* requests keep their methods.
LEMMA BorrowedStays ==
    ASSUME RpcInvariant, NEW i \in Request,
           diffCache.valid => diffCache'.valid,
           ctxDone => ctxDone', cancelled \subseteq cancelled',
           \A j \in Request : request[j].method = "diff" => request'[j].method = "diff",
           Borrowed(i)
    PROVE  Borrowed(i)'
BY DEF Borrowed, ContextDone

\* While the worktrees stay, what was found stays so.
LEMMA FoundStays ==
    ASSUME NEW t, NEW o, FoundAgain(t, o), UNCHANGED worktrees
    PROVE  FoundAgain(t, o)'
BY DEF FoundAgain

\* A step that leaves the requests, the cache and the answers alone.
LEMMA RequestsUntouched ==
    ASSUME RpcInvariant, UNCHANGED <<request, diffCache, answer, requests, worktrees>>,
           ctxDone => ctxDone', cancelled \subseteq cancelled'
    PROVE  RequestsFit' /\ CutsKnown' /\ NothingOld'
<1>1. RequestsFit'
  BY DEF RpcInvariant, RequestsFit
<1>2. \A i \in Request : Borrowed(i) => Borrowed(i)'
  BY BorrowedStays
<1>3. \A i \in Request : ContextDone(i) => ContextDone(i)'
  BY DEF ContextDone
<1>4. CutsKnown'
  BY <1>2, <1>3 DEF RpcInvariant, CutsKnown
<1>5. NothingOld'
  BY FoundStays DEF RpcInvariant, NothingOld, OldFree, CacheFits
<1> QED BY <1>1, <1>4, <1>5

LEMMA RegistrationUntouched ==
    ASSUME RpcInvariant, UNCHANGED <<inFlight, requests>>,
           \A i \in Request : /\ request'[i].id = request[i].id
                              /\ request[i].id # NoId =>
                                    (request'[i].at = "ended" <=> request[i].at = "ended")
    PROVE  NewestRegistered'
<1>1. \A i \in 1 .. requests : i \in Request
  BY RequestTypes, RpcAssumption DEF Request
<1>2. \A id \in Id, n \in Request : Newest(id, n) =>
         Newest(id, n)' /\ (request'[n].at = "ended" <=> request[n].at = "ended")
  BY <1>1, RpcAssumption DEF Newest
<1> QED BY <1>1, <1>2 DEF RpcInvariant, NewestRegistered

LEMMA SlotsUntouched ==
    ASSUME RpcInvariant, slots' = slots,
           \A i \in Request : /\ request'[i].method = request[i].method
                              /\ (/\ request'[i].at \in {"work", "release"}
                                  /\ request[i].method \notin Ungated)
                                 <=> /\ request[i].at \in {"work", "release"}
                                     /\ request[i].method \notin Ungated
    PROVE  SlotsHeld'
<1> Holders' = Holders
  BY DEF Holders, Holding
<1> QED BY DEF RpcInvariant, SlotsHeld
-----------------------------------------------------------------------------
\* The reader's steps.

\* A request that is read is the newest under its ID, and what it has to see is
\* what there is.
LEMMA ReadRequestKeeps ==
    ASSUME RpcInvariant, NEW id \in Id \cup {NoId}, NEW m \in Method, ReadRequest(id, m)
    PROVE  RpcInvariant'
<1> PICK i, v, x : /\ i = requests + 1
                   /\ v = IF m = "diff" THEN worktrees ELSE 0
                   /\ x = [NoRequest EXCEPT !.id = id, !.method = m, !.at = "dispatch",
                                            !.since = v]
  OBVIOUS
<1>1. /\ i \in Request /\ requests' = i /\ requests \in Nat /\ worktrees \in Nat
      /\ request' = [request EXCEPT ![i] = x]
      /\ UNCHANGED <<serve, ctxDone, collected, cancelled, slots, worktrees, diffCache, answer>>
      /\ requests' \in 0 .. MaxRequests
  BY RpcAssumption DEF ReadRequest, Request, RpcInvariant, RpcTyped
<1>2. /\ x \in RequestRecord /\ x.id = id /\ x.method = m /\ x.at = "dispatch"
      /\ x.since \in Nat /\ x.since <= worktrees /\ x.got = NoOutcome
  <2>1. v \in Nat /\ v <= worktrees
    BY <1>1
  <2> QED BY <2>1, Empty DEF NoRequest, RequestRecord, Stage
<1>3. inFlight' = IF id = NoId THEN inFlight ELSE [inFlight EXCEPT ![id] = i]
  BY DEF ReadRequest, trackInFlight
<1>4. /\ request' \in [Request -> RequestRecord] /\ request'[i] = x
      /\ \A j \in Request : j # i => request'[j] = request[j]
      /\ request[i] = NoRequest /\ answer[i] = NoOutcome
  BY <1>1, <1>2 DEF RpcInvariant, RpcTyped, RequestsFit
<1>5. RpcTyped'
  <2>1. inFlight' \in [Id -> 0 .. MaxRequests]
    BY <1>1, <1>3 DEF RpcInvariant, RpcTyped
  <2> QED BY <1>1, <1>4, <2>1 DEF RpcInvariant, RpcTyped
<1>6. RequestsFit'
  <2>1. Fits(x)
    BY <1>2 DEF Fits
  <2>2. \A j \in Request : j > i <=> j > requests /\ j # i
    BY <1>1 DEF Request
  <2> QED BY <1>1, <1>2, <1>4, <2>1, <2>2 DEF RpcInvariant, RequestsFit
<1>7. NewestRegistered'
  <2> SUFFICES ASSUME NEW d \in Id
               PROVE  \/ inFlight'[d] = 0 /\ \A j \in 1 .. i : request'[j].id # d
                      \/ \E n \in Request :
                            /\ Newest(d, n)'
                            /\ inFlight'[d] = IF request'[n].at = "ended" THEN 0 ELSE n
    BY <1>1 DEF NewestRegistered
  <2>1. \A j \in 1 .. i : j = i \/ j \in 1 .. requests
    BY <1>1
  <2>2. \A j \in 1 .. requests : j \in Request /\ j < i /\ j # i
    BY <1>1, RpcAssumption DEF Request
  <2>3. CASE d = id
    <3>1. inFlight'[d] = i
      BY <1>3, <2>3, RpcAssumption DEF RpcInvariant, RpcTyped
    <3>2. Newest(d, i)'
      BY <1>1, <1>2, <1>4, <2>1, <2>2, <2>3 DEF Newest
    <3> QED BY <1>1, <1>2, <1>4, <3>1, <3>2
  <2>4. CASE d # id
    <3>1. inFlight'[d] = inFlight[d] /\ request'[i].id # d
      BY <1>2, <1>3, <1>4, <2>4 DEF RpcInvariant, RpcTyped
    <3>2. CASE inFlight[d] = 0 /\ \A j \in 1 .. requests : request[j].id # d
      BY <1>4, <2>1, <2>2, <3>1, <3>2
    <3>3. CASE \E n \in Request :
                  Newest(d, n) /\ inFlight[d] = IF request[n].at = "ended" THEN 0 ELSE n
      <4>1. PICK n \in Request :
                  Newest(d, n) /\ inFlight[d] = IF request[n].at = "ended" THEN 0 ELSE n
        BY <3>3
      <4>2. Newest(d, n)' /\ request'[n] = request[n]
        BY <1>1, <1>4, <2>1, <2>2, <3>1, <4>1 DEF Newest
      <4> QED BY <3>1, <4>1, <4>2
    <3> QED BY <3>2, <3>3 DEF RpcInvariant, NewestRegistered
  <2> QED BY <2>3, <2>4
<1>8. SlotsHeld'
  <2>1. ~Holding(i) /\ ~Holding(i)'
    BY <1>2, <1>4, Empty DEF Holding
  <2>2. \A j \in Request : Holding(j)' <=> Holding(j)
    <3> SUFFICES ASSUME NEW j \in Request, j # i PROVE Holding(j)' <=> Holding(j)
      BY <2>1
    <3> QED BY <1>4 DEF Holding
  <2>3. Holders' = Holders
    BY <2>2 DEF Holders
  <2> QED BY <1>1, <2>3 DEF RpcInvariant, SlotsHeld
<1>9. CutsKnown'
  <2>1. \A j \in Request : request[j].method = "diff" => request'[j] = request[j]
    BY <1>4, Empty
  <2>2. \A j \in Request : (Borrowed(j) => Borrowed(j)') /\ (ContextDone(j) => ContextDone(j)')
    BY <1>1, <2>1, BorrowedStays DEF ContextDone
  <2>3. \A j \in Request : Past(request[j]) => request'[j] = request[j]
    BY <2>1 DEF Past
  <2> QED BY <1>1, <1>2, <1>4, <2>2, <2>3, Empty DEF RpcInvariant, CutsKnown
<1>10. NothingOld'
  <2>1. OldFree(x)'
    BY <1>1, <1>2, Empty DEF OldFree
  <2>2. \A j \in Request : OldFree(request[j]) => OldFree(request[j])' \/ j = i
    BY <1>1, <1>4, FoundStays DEF OldFree
  <2>3. answer' = answer /\ answer[i] = NoOutcome /\ worktrees' = worktrees
    BY <1>1 DEF RpcInvariant, RequestsFit
  <2>4. ASSUME NEW j \in Request, request'[j].method = "diff", answer'[j].what = "result"
        PROVE  FoundAgain(request[j].since, answer[j])'
    <3>1. j # i
      BY <2>3, <2>4, Empty
    <3>2. request'[j] = request[j] /\ answer'[j] = answer[j]
      BY <1>4, <2>3, <3>1
    <3>3. PICK t, o : t = request[j].since /\ o = answer[j]
      OBVIOUS
    <3>4. FoundAgain(t, o)
      BY <2>4, <3>2, <3>3 DEF RpcInvariant, NothingOld
    <3>5. FoundAgain(t, o)'
      BY <2>3, <3>4, FoundStays
    <3> QED BY <3>2, <3>3, <3>5
  <2>5. CacheFits(diffCache)'
    BY <1>1 DEF RpcInvariant, NothingOld, CacheFits
  <2> QED BY <1>1, <1>2, <1>4, <2>1, <2>2, <2>4, <2>5, Empty DEF RpcInvariant, NothingOld
<1> QED BY <1>5, <1>6, <1>7, <1>8, <1>9, <1>10 DEF RpcInvariant

\* Cancellation, the signal and the shutdown leave what was read and done alone.
LEMMA ShutdownKeeps ==
    ASSUME RpcInvariant,
           \/ \E id \in Id : cancelRequest(id)
           \/ StopReading \/ SignalArrives \/ CollectInFlight \/ CancelCollected \/ ServeReturns
           \/ UNCHANGED rpcVars
    PROVE  RpcInvariant'
<1>1. /\ UNCHANGED <<request, diffCache, answer, requests, worktrees, inFlight, slots>>
      /\ (ctxDone => ctxDone') /\ cancelled \subseteq cancelled'
  BY DEF cancelRequest, StopReading, SignalArrives, CollectInFlight, CancelCollected,
     ServeReturns, rpcVars
<1>2. /\ collected' \subseteq Request /\ cancelled' \subseteq Request
      /\ serve' \in {"reading", "collect", "cancel", "wait", "returned"} /\ ctxDone' \in BOOLEAN
  <2>1. \A id \in Id : inFlight[id] # 0 => inFlight[id] \in Request
    BY RpcAssumption DEF RpcInvariant, RpcTyped, Request
  <2> QED BY <2>1 DEF RpcInvariant, RpcTyped, cancelRequest, StopReading, SignalArrives,
      CollectInFlight, CancelCollected, ServeReturns, rpcVars
<1>3. RpcTyped'
  BY <1>1, <1>2 DEF RpcInvariant, RpcTyped
<1>4. RequestsFit' /\ CutsKnown' /\ NothingOld'
  BY <1>1, RequestsUntouched
<1>5. NewestRegistered'
  BY <1>1, RegistrationUntouched
<1>6. SlotsHeld'
  BY <1>1, SlotsUntouched
<1> QED BY <1>3, <1>4, <1>5, <1>6 DEF RpcInvariant

LEMMA WorktreesChangeKeeps ==
    ASSUME RpcInvariant, WorktreesChange
    PROVE  RpcInvariant'
<1>1. /\ UNCHANGED <<request, diffCache, answer, requests, inFlight, slots, ctxDone, cancelled,
                     serve, collected>>
      /\ worktrees \in Nat /\ worktrees' = worktrees + 1 /\ worktrees' \in 0 .. MaxTrees
  BY RpcAssumption DEF WorktreesChange, RpcInvariant, RpcTyped
<1>2. RpcTyped'
  BY <1>1 DEF RpcInvariant, RpcTyped
<1>3. RequestsFit'
  BY <1>1 DEF RpcInvariant, RequestsFit
<1>4. NewestRegistered'
  BY <1>1, RegistrationUntouched
<1>5. SlotsHeld'
  BY <1>1, SlotsUntouched
<1>6. CutsKnown'
  BY <1>1 DEF RpcInvariant, CutsKnown, Borrowed, ContextDone
<1>7. NothingOld'
  <2>1. ASSUME NEW t \in Nat, NEW o, FoundAgain(t, o) PROVE FoundAgain(t, o)'
    BY <1>1, <2>1 DEF FoundAgain
  <2>2. \A j \in Request : request[j].since \in Nat
    BY RequestTypes
  <2>3. \A j \in Request : OldFree(request[j]) => OldFree(request[j])'
    BY <1>1, <2>1, <2>2, RequestTypes DEF OldFree
  <2>4. CacheFits(diffCache)'
    BY <1>1 DEF RpcInvariant, NothingOld, CacheFits
  <2> QED BY <1>1, <2>1, <2>2, <2>3, <2>4 DEF RpcInvariant, NothingOld
<1> QED BY <1>2, <1>3, <1>4, <1>5, <1>6, <1>7 DEF RpcInvariant
-----------------------------------------------------------------------------
\* The handlers' steps.

\* What a step of the handler of i changes is its request, the cache and its answer.
Stepped(i) ==
    /\ request' \in [Request -> RequestRecord] /\ diffCache' \in CacheRecord
    /\ answer' \in [Request -> OutcomeRecord] /\ cancelled' \subseteq Request
    /\ \A j \in Request : j # i => request'[j] = request[j]
    /\ request'[i].id = request[i].id /\ request'[i].method = request[i].method
    /\ UNCHANGED <<serve, ctxDone, collected, requests, worktrees>>

\* A handler's step fits if its request does after it, keeps what it saw, and does
\* not go back before the place where a diff is stored.
LEMMA HandlerKeeps ==
    ASSUME RpcInvariant, NEW i \in Request, NEW x \in RequestRecord,
           request' = [request EXCEPT ![i] = x],
           UNCHANGED <<serve, ctxDone, collected, requests, worktrees>>,
           request[i].at \notin {"unread", "ended"}, x.at # "unread",
           x.id = request[i].id, x.method = request[i].method, x.since = request[i].since,
           Fits(x), OldFree(x), Past(request[i]) => Past(x),
           cancelled \subseteq cancelled', cancelled' \subseteq Request,
           diffCache' \in CacheRecord, diffCache.valid => diffCache'.valid,
           CacheFits(diffCache'),
           ~diffCache'.result.whole =>
              diffCache' = diffCache \/ (diffCache'.valid /\ ContextDone(i) /\ Past(x)),
           answer' = answer \/
              \E a \in OutcomeRecord : /\ answer' = [answer EXCEPT ![i] = a]
                                       /\ ~a.whole => Borrowed(i)
                                       /\ x.method = "diff" /\ a.what = "result" =>
                                             FoundAgain(x.since, a),
           ~x.got.whole =>
              /\ x.at = "work" => ContextDone(i) /\ x.method \notin Ungated
              /\ x.at = "release" => ContextDone(i) \/ Borrowed(i)
              /\ x.at = "write" => Borrowed(i)
    PROVE  RequestsFit' /\ CutsKnown' /\ NothingOld' /\ Stepped(i)
<1>1. /\ request' \in [Request -> RequestRecord] /\ request'[i] = x
      /\ \A j \in Request : j # i => request'[j] = request[j]
  BY DEF RpcInvariant, RpcTyped
<1>2. \A j \in Request : answer'[j] = answer[j] \/ (j = i /\ answer' # answer)
  BY DEF RpcInvariant, RpcTyped
<1>3. RequestsFit'
  <2>1. i <= requests
    BY RequestTypes
  <2>2. i \in Nat /\ requests \in Nat
    BY RequestTypes
  <2> QED BY <1>1, <1>2, <2>1, <2>2 DEF RpcInvariant, RequestsFit
<1>4. \A j \in Request : ContextDone(j) => ContextDone(j)'
  BY DEF ContextDone
<1>5. \A j \in Request : Borrowed(j) => Borrowed(j)'
  <2> \A j \in Request : request[j].method = "diff" => request'[j].method = "diff"
    BY <1>1
  <2> QED BY BorrowedStays
<1>6. \A j \in Request : Past(request[j]) => Past(request'[j])
  BY <1>1
<1>7. CutsKnown'
  <2>1. \A j \in Request : ~answer'[j].whole => Borrowed(j)'
    BY <1>2, <1>5 DEF RpcInvariant, RpcTyped, CutsKnown
  <2>2. \A j \in Request : ~request'[j].got.whole =>
              /\ request'[j].at = "work" => ContextDone(j)' /\ request'[j].method \notin Ungated
              /\ request'[j].at = "release" => ContextDone(j)' \/ Borrowed(j)'
              /\ request'[j].at = "write" => Borrowed(j)'
    BY <1>1, <1>4, <1>5 DEF RpcInvariant, CutsKnown
  <2>3. ~diffCache'.result.whole =>
          diffCache'.valid /\ \E j \in Request : Past(request'[j]) /\ ContextDone(j)'
    BY <1>1, <1>4, <1>6 DEF RpcInvariant, CutsKnown
  <2> QED BY <2>1, <2>2, <2>3 DEF CutsKnown
<1>8. NothingOld'
  <2>0. \A t, o : FoundAgain(t, o) => FoundAgain(t, o)'
    BY DEF FoundAgain
  <2>1. \A j \in Request : OldFree(request[j]) => OldFree(request[j])'
    BY <1>1, <2>0 DEF OldFree
  <2>2. \A j \in Request : request'[j].method = "diff" /\ answer'[j].what = "result" =>
                FoundAgain(request'[j].since, answer'[j])
    BY <1>1, <1>2, <2>0 DEF RpcInvariant, RpcTyped, NothingOld
  <2> QED BY <1>1, <2>0, <2>1, <2>2 DEF RpcInvariant, NothingOld, OldFree
<1>9. Stepped(i)
  <2>1. answer' \in [Request -> OutcomeRecord]
    BY DEF RpcInvariant, RpcTyped
  <2> QED BY <1>1, <2>1 DEF Stepped
<1> QED BY <1>3, <1>7, <1>8, <1>9

\* What a request's stage says of it, and of how it gets on.
LEMMA WhatFits ==
    ASSUME RpcInvariant, NEW i \in Request
    PROVE  /\ request \in [Request -> RequestRecord] /\ request[i] \in RequestRecord
           /\ request[i].method \in Method \cup {"hello"} /\ request[i].id \in Id \cup {NoId}
           /\ Fits(request[i]) /\ OldFree(request[i])
           /\ request[i].got \in OutcomeRecord
           /\ request[i].since \in Nat /\ request[i].seen \in Nat /\ request[i].left \in Nat
           /\ worktrees \in Nat /\ request[i].since <= worktrees
           /\ diffCache \in CacheRecord /\ cancelled \subseteq Request
           /\ CacheFits(diffCache)
BY RequestTypes, RpcAssumption
DEF RpcInvariant, RpcTyped, RequestsFit, NothingOld, OldFree, RequestRecord

\* A request ends its work, or what it has is dropped: nothing is left of it.
LEMMA ConcludedKeeps ==
    ASSUME RpcInvariant, NEW i \in Request, NEW place \in {"write", "release"},
           NEW outcome \in {Cancelled, Failed}, Conclude(i, place, outcome),
           UNCHANGED <<serve, ctxDone, collected, requests, worktrees, cancelled, diffCache,
                        answer>>,
           request[i].at \in {"dispatch", "gate", "work"},
           place = "release" => request[i].method \notin Ungated
    PROVE  RequestsFit' /\ CutsKnown' /\ NothingOld' /\ Stepped(i)
<1> DEFINE x == [request[i] EXCEPT !.at = place, !.todo = <<>>, !.seen = 0, !.got = outcome]
<1>1. outcome \in OutcomeRecord /\ outcome.whole /\ outcome.what # "result"
  BY Empty
<1>2. <<>> \in Seq(Check)
  OBVIOUS
<1>3. /\ x \in RequestRecord /\ x.at = place /\ x.todo = <<>> /\ x.got = outcome
      /\ x.id = request[i].id /\ x.method = request[i].method /\ x.since = request[i].since
  BY <1>1, <1>2, WhatFits DEF RequestRecord, Stage
<1>4. request' = [request EXCEPT ![i] = x]
  BY DEF Conclude
<1> HIDE DEF x
<1>5. Fits(x)
  BY <1>3 DEF Fits
<1>6. OldFree(x)
  BY <1>1, <1>3, WhatFits DEF OldFree
<1>7. Past(request[i]) => Past(x)
  BY <1>3 DEF Past
<1> QED BY <1>1, <1>3, <1>4, <1>5, <1>6, <1>7, WhatFits, HandlerKeeps
    DEF RpcInvariant, CutsKnown

LEMMA DiffSteps ==
    ASSUME NEW t \in DiffTodo, t # <<>>
    PROVE  /\ Tail(t) \in DiffTodo
           /\ Head(t) \in {"params", "slice", "fingerprint", "lookup", "build"}
           /\ Head(t) \in {"params", "slice"} =>
                 Tail(t) \notin {<<"lookup", "build">>, <<"build">>, <<>>}
           /\ Head(t) = "fingerprint" => Tail(t) = <<"lookup", "build">>
           /\ Head(t) = "lookup" => t = <<"lookup", "build">> /\ Tail(t) = <<"build">>
           /\ Head(t) = "build" => t = <<"build">> /\ Tail(t) = <<>>
           /\ t = <<"lookup", "build">> => Head(t) = "lookup"
           /\ t = <<"build">> => Head(t) = "build"
           /\ <<"build">> # <<"lookup", "build">> /\ <<"build">> # <<>>
           /\ <<"lookup", "build">> # <<>>
<1>1. CASE t = <<"params", "slice", "fingerprint", "lookup", "build">>
  <2> Tail(t) = <<"slice", "fingerprint", "lookup", "build">> /\ Head(t) = "params"
    BY <1>1
  <2> QED BY <1>1 DEF DiffTodo
<1>2. CASE t = <<"slice", "fingerprint", "lookup", "build">>
  <2> Tail(t) = <<"fingerprint", "lookup", "build">> /\ Head(t) = "slice"
    BY <1>2
  <2> QED BY <1>2 DEF DiffTodo
<1>3. CASE t = <<"fingerprint", "lookup", "build">>
  <2> Tail(t) = <<"lookup", "build">> /\ Head(t) = "fingerprint"
    BY <1>3
  <2> QED BY <1>3 DEF DiffTodo
<1>4. CASE t = <<"lookup", "build">>
  <2> Tail(t) = <<"build">> /\ Head(t) = "lookup"
    BY <1>4
  <2> QED BY <1>4 DEF DiffTodo
<1>5. CASE t = <<"build">>
  <2> Tail(t) = <<>> /\ Head(t) = "build"
    BY <1>5
  <2> QED BY <1>5 DEF DiffTodo
<1> QED BY <1>1, <1>2, <1>3, <1>4, <1>5 DEF DiffTodo

LEMMA OtherSteps ==
    ASSUME NEW t \in Seq(Check), t # <<>>
    PROVE  Tail(t) \in Seq(Check) /\ Head(t) \in Check
OBVIOUS

\* What a working request does next, and what is left then.
LEMMA WorkSteps ==
    ASSUME RpcInvariant, NEW i \in Request, request[i].at = "work", request[i].todo # <<>>
    PROVE  /\ request[i].method = "diff" =>
                 request[i].todo \in DiffTodo /\ Tail(request[i].todo) \in DiffTodo
                 /\ NextCheck(i) # "read"
           /\ request[i].method # "diff" =>
                 Tail(request[i].todo) \in Seq(Check) /\ NextCheck(i) \in Check
           /\ Tail(request[i].todo) \in Seq(Check) \cup DiffTodo
BY WhatFits, DiffSteps, OtherSteps DEF Fits, NextCheck

LEMMA dispatchKeeps ==
    ASSUME RpcInvariant, NEW i \in Request, dispatch(i)
    PROVE  RequestsFit' /\ CutsKnown' /\ NothingOld' /\ Stepped(i)
<1> DEFINE m == request[i].method
<1>1. /\ request[i].at = "dispatch"
      /\ UNCHANGED <<serve, ctxDone, collected, requests, worktrees, cancelled, diffCache, answer>>
  BY DEF dispatch, HandlerAt
<1>2. CASE m \notin DOMAIN Handlers
  BY <1>1, <1>2, ConcludedKeeps DEF dispatch
<1>3. CASE m \in DOMAIN Handlers /\ m \in Ungated
  <2> DEFINE x == [request[i] EXCEPT !.at = "work", !.todo = Handlers[m]]
  <2>1. request' = [request EXCEPT ![i] = x]
    BY <1>3 DEF dispatch
  <2>2. Handlers[m] \in Seq(Check) \cup DiffTodo
    BY <1>3, HandlersFit
  <2>3. /\ x \in RequestRecord /\ x.at = "work" /\ x.todo = Handlers[m]
        /\ x.got = request[i].got /\ x.id = request[i].id /\ x.method = m
        /\ x.since = request[i].since /\ x.seen = request[i].seen
    BY <2>2, WhatFits DEF RequestRecord, Stage
  <2>4. m # "diff" /\ x.got = NoOutcome
    BY <1>1, <1>3, <2>3, WhatFits DEF Ungated, Fits
  <2> HIDE DEF x
  <2>5. Fits(x) /\ OldFree(x) /\ ~Past(request[i])
    BY <1>3, <2>3, <2>4, HandlersFit, WhatFits DEF Fits, OldFree, Past
  <2> QED BY <1>1, <2>1, <2>3, <2>4, <2>5, Empty, WhatFits, HandlerKeeps
<1>4. CASE m \in DOMAIN Handlers /\ m \notin Ungated /\ ContextDone(i)
  BY <1>1, <1>4, ConcludedKeeps DEF dispatch
<1>5. CASE m \in DOMAIN Handlers /\ m \notin Ungated /\ ~ContextDone(i)
  <2> DEFINE x == [request[i] EXCEPT !.at = "gate"]
  <2>1. request' = [request EXCEPT ![i] = x]
    BY <1>5 DEF dispatch, MoveHandler
  <2>3. /\ x \in RequestRecord /\ x.at = "gate"
        /\ x.got = request[i].got /\ x.id = request[i].id /\ x.method = m
        /\ x.since = request[i].since /\ x.seen = request[i].seen
    BY WhatFits DEF RequestRecord, Stage
  <2>4. x.got = NoOutcome
    BY <1>1, <2>3, WhatFits DEF Fits
  <2> HIDE DEF x
  <2>5. Fits(x) /\ OldFree(x) /\ ~Past(request[i])
    BY <1>1, <1>5, <2>3, <2>4, Empty, WhatFits DEF Fits, OldFree, Past
  <2> QED BY <1>1, <2>1, <2>3, <2>4, <2>5, Empty, WhatFits, HandlerKeeps
<1> QED BY <1>2, <1>3, <1>4, <1>5

LEMMA TakeSlotKeeps ==
    ASSUME RpcInvariant, NEW i \in Request, TakeSlot(i)
    PROVE  RequestsFit' /\ CutsKnown' /\ NothingOld' /\ Stepped(i)
<1> DEFINE m == request[i].method
           x == [request[i] EXCEPT !.at = "work", !.todo = Handlers[m]]
<1>1. /\ request[i].at = "gate" /\ request' = [request EXCEPT ![i] = x]
      /\ UNCHANGED <<serve, ctxDone, collected, requests, worktrees, cancelled, diffCache, answer>>
  BY DEF TakeSlot, HandlerAt
<1>2. m \in DOMAIN Handlers /\ request[i].got = NoOutcome
  BY <1>1, WhatFits DEF Fits
<1>3. Handlers[m] \in Seq(Check) \cup DiffTodo
  BY <1>2, HandlersFit
<1>4. /\ x \in RequestRecord /\ x.at = "work" /\ x.todo = Handlers[m]
      /\ x.got = NoOutcome /\ x.id = request[i].id /\ x.method = m
      /\ x.since = request[i].since /\ x.seen = request[i].seen
  BY <1>2, <1>3, WhatFits DEF RequestRecord, Stage
<1>5. m = "diff" => Handlers[m] \notin {<<"lookup", "build">>, <<"build">>}
  BY DEF Handlers
<1> HIDE DEF x
<1>6. Fits(x) /\ OldFree(x) /\ ~Past(request[i])
  BY <1>1, <1>2, <1>4, <1>5, Empty, HandlersFit, WhatFits DEF Fits, OldFree, Past
<1> QED BY <1>1, <1>4, <1>6, Empty, WhatFits, HandlerKeeps

LEMMA GiveUpKeeps ==
    ASSUME RpcInvariant, NEW i \in Request, GiveUpWaiting(i) \/ CheckFails(i)
    PROVE  RequestsFit' /\ CutsKnown' /\ NothingOld' /\ Stepped(i)
<1>1. UNCHANGED <<serve, ctxDone, collected, requests, worktrees, cancelled, diffCache, answer>>
  BY DEF GiveUpWaiting, CheckFails
<1>2. CASE GiveUpWaiting(i)
  BY <1>1, <1>2, ConcludedKeeps DEF GiveUpWaiting, HandlerAt
<1>3. CASE CheckFails(i)
  <2>1. /\ AfterMethod(i) \in {"write", "release"} /\ request[i].at = "work"
        /\ AfterMethod(i) = "release" => request[i].method \notin Ungated
        /\ Conclude(i, AfterMethod(i), Failed)
    BY <1>3 DEF AfterMethod, CheckFails, HandlerAt
  <2> QED BY <1>1, <2>1, ConcludedKeeps
<1> QED BY <1>2, <1>3
\* What CutsKnown says of one request and of the cache.
LEMMA WhereCut ==
    ASSUME RpcInvariant, NEW i \in Request
    PROVE  /\ ~request[i].got.whole =>
                 /\ request[i].at = "work" => ContextDone(i) /\ request[i].method \notin Ungated
                 /\ request[i].at = "release" => ContextDone(i) \/ Borrowed(i)
                 /\ request[i].at = "write" => Borrowed(i)
           /\ ~diffCache.result.whole => diffCache.valid
           /\ ~diffCache.result.whole /\ ~Past(request[i]) /\ request[i].method = "diff" =>
                 Borrowed(i)
BY DEF RpcInvariant, CutsKnown, Borrowed, Past

LEMMA CheckPassesKeeps ==
    ASSUME RpcInvariant, NEW i \in Request, CheckPasses(i)
    PROVE  RequestsFit' /\ CutsKnown' /\ NothingOld' /\ Stepped(i)
<1> DEFINE x == Passed(i)
<1>1. /\ request[i].at = "work" /\ request[i].todo # <<>> /\ request' = [request EXCEPT ![i] = x]
      /\ NextCheck(i) \in {"params", "slice", "member", "primary", "branch"}
      /\ UNCHANGED <<serve, ctxDone, collected, requests, worktrees, cancelled, diffCache, answer>>
  BY DEF CheckPasses, HandlerAt
<1>2. /\ x \in RequestRecord /\ x.at = "work" /\ x.todo = Tail(request[i].todo)
      /\ x.got = request[i].got /\ x.id = request[i].id /\ x.method = request[i].method
      /\ x.since = request[i].since /\ x.seen = request[i].seen
  BY <1>1, WhatFits, WorkSteps DEF Passed, RequestRecord
<1>3. x.method = "diff" => x.todo \notin {<<"lookup", "build">>, <<"build">>, <<>>}
  BY <1>1, <1>2, WorkSteps, DiffSteps DEF NextCheck
<1> HIDE DEF x
<1>4. Fits(x) /\ ~Past(request[i])
  BY <1>1, <1>2, <1>3, WorkSteps DEF Fits, Past
<1>5. OldFree(x)
  BY <1>2, <1>3, WhatFits DEF OldFree
<1> QED BY <1>1, <1>2, <1>4, <1>5, WhatFits, WhereCut, HandlerKeeps

LEMMA ReadKeeps ==
    ASSUME RpcInvariant, NEW i \in Request, Read(i)
    PROVE  RequestsFit' /\ CutsKnown' /\ NothingOld' /\ Stepped(i)
<1>1. /\ request[i].at = "work" /\ request[i].todo # <<>> /\ NextCheck(i) = "read"
      /\ UNCHANGED <<serve, ctxDone, collected, requests, worktrees, cancelled, diffCache, answer>>
  BY DEF Read, Working, HandlerAt
<1>2. PICK whole \in IF ContextDone(i) /\ request[i].method \notin Ungated
                       THEN BOOLEAN ELSE {TRUE} :
         request' = [request EXCEPT ![i] =
                        [Passed(i) EXCEPT !.got = Outcome("result", whole, 0)]]
  BY DEF Read
<1> DEFINE x == [Passed(i) EXCEPT !.got = Outcome("result", whole, 0)]
<1>3. Outcome("result", whole, 0) \in OutcomeRecord
  BY WhatFits DEF Outcome, OutcomeRecord
<1>4. /\ x \in RequestRecord /\ x.at = "work" /\ x.todo = Tail(request[i].todo)
      /\ x.got = Outcome("result", whole, 0)
      /\ x.id = request[i].id /\ x.method = request[i].method /\ x.since = request[i].since
  BY <1>1, <1>3, WhatFits, WorkSteps DEF Passed, RequestRecord
<1>5. x.got.whole = whole
  BY <1>4 DEF Outcome
<1> HIDE DEF x
<1>6. x.method # "diff"
  BY <1>1, <1>4, WorkSteps
<1>7. Fits(x) /\ OldFree(x) /\ ~Past(request[i])
  BY <1>1, <1>4, <1>6, WorkSteps, WhatFits DEF Fits, OldFree, Past
<1>8. ~x.got.whole => ContextDone(i) /\ x.method \notin Ungated
  BY <1>4, <1>5
<1>9. request' = [request EXCEPT ![i] = x]
  BY <1>2 DEF x
<1> QED BY <1>1, <1>4, <1>7, <1>8, <1>9, WhatFits, HandlerKeeps

LEMMA MethodReturnsKeeps ==
    ASSUME RpcInvariant, NEW i \in Request, MethodReturns(i)
    PROVE  RequestsFit' /\ CutsKnown' /\ NothingOld' /\ Stepped(i)
<1> DEFINE g == IF request[i].got = NoOutcome THEN Outcome("result", TRUE, worktrees)
                ELSE request[i].got
           x == [request[i] EXCEPT !.at = AfterMethod(i), !.got = g]
<1>1. /\ request[i].at = "work" /\ request[i].todo = <<>> /\ request' = [request EXCEPT ![i] = x]
      /\ UNCHANGED <<serve, ctxDone, collected, requests, worktrees, cancelled, diffCache, answer>>
  BY DEF MethodReturns, HandlerAt
<1>2. /\ g \in OutcomeRecord /\ (~g.whole => g = request[i].got)
      /\ g = request[i].got \/ (g.tree = worktrees /\ g.begun = worktrees)
  BY WhatFits DEF Outcome, OutcomeRecord
<1>3. /\ x \in RequestRecord /\ x.at = AfterMethod(i) /\ x.todo = <<>>
      /\ x.got = g /\ x.id = request[i].id /\ x.method = request[i].method
      /\ x.since = request[i].since /\ AfterMethod(i) \in {"write", "release"}
      /\ AfterMethod(i) = "write" <=> request[i].method \in Ungated
  BY <1>1, <1>2, WhatFits DEF RequestRecord, Stage, AfterMethod
<1> HIDE DEF x, g
<1>4. Fits(x) /\ (Past(request[i]) => Past(x))
  BY <1>3 DEF Fits, Past
<1>5. OldFree(x)
  <2>1. x.at # "work" /\ x.since \in Nat /\ x.since <= worktrees
    BY <1>3, WhatFits
  <2>2. ASSUME x.method = "diff", g.what = "result" PROVE FoundAgain(x.since, g)
    <3>1. CASE g = request[i].got
      BY <1>3, <2>2, <3>1, WhatFits DEF OldFree
    <3>2. CASE g # request[i].got
      <4>1. g.tree = worktrees /\ g.begun = worktrees
        BY <1>2, <2>2, <3>2
      <4> QED BY <2>1, <4>1, WhatFits DEF FoundAgain
    <3> QED BY <3>1, <3>2
  <2> QED BY <1>3, <2>1, <2>2 DEF OldFree
<1> QED BY <1>1, <1>2, <1>3, <1>4, <1>5, WhatFits, WhereCut, HandlerKeeps

LEMMA DiffFingerprintKeeps ==
    ASSUME RpcInvariant, NEW i \in Request, DiffFingerprint(i)
    PROVE  RequestsFit' /\ CutsKnown' /\ NothingOld' /\ Stepped(i)
<1> DEFINE x == [Passed(i) EXCEPT !.seen = worktrees]
<1>1. /\ request[i].at = "work" /\ request[i].todo # <<>> /\ request' = [request EXCEPT ![i] = x]
      /\ NextCheck(i) = "fingerprint"
      /\ UNCHANGED <<serve, ctxDone, collected, requests, worktrees, cancelled, diffCache, answer>>
  BY DEF DiffFingerprint, Working, HandlerAt
<1>2. /\ x \in RequestRecord /\ x.at = "work" /\ x.todo = Tail(request[i].todo)
      /\ x.got = request[i].got /\ x.id = request[i].id /\ x.method = request[i].method
      /\ x.since = request[i].since /\ x.seen = worktrees
  BY <1>1, WhatFits, WorkSteps DEF Passed, RequestRecord
<1>3. x.method = "diff" /\ x.todo = <<"lookup", "build">> /\ x.todo # <<"build">>
      /\ x.todo \in DiffTodo
  BY <1>1, <1>2, WorkSteps, DiffSteps DEF NextCheck, Check
<1> HIDE DEF x
<1>4. Fits(x) /\ ~Past(request[i])
  BY <1>1, <1>2, <1>3 DEF Fits, Past
<1>5. OldFree(x)
  <2>1. x.since \in Nat /\ x.since <= worktrees /\ x.seen = worktrees /\ worktrees \in Nat
    BY <1>2, WhatFits
  <2>2. x.got.what = "result" => FoundAgain(x.since, x.got)
    BY <1>2, <1>3, WhatFits DEF OldFree
  <2> QED BY <1>3, <2>1, <2>2 DEF OldFree
<1> QED BY <1>1, <1>2, <1>4, <1>5, WhatFits, WhereCut, HandlerKeeps

\* What is served from the cache has the fingerprint that this request took.
LEMMA DiffLookupKeeps ==
    ASSUME RpcInvariant, NEW i \in Request, DiffLookup(i)
    PROVE  RequestsFit' /\ CutsKnown' /\ NothingOld' /\ Stepped(i)
<1>1. /\ request[i].at = "work" /\ request[i].todo # <<>> /\ NextCheck(i) = "lookup"
      /\ UNCHANGED <<serve, ctxDone, collected, requests, worktrees, cancelled, diffCache, answer>>
  BY DEF DiffLookup, Working, HandlerAt
<1>2. /\ request[i].method = "diff" /\ request[i].todo = <<"lookup", "build">>
      /\ Tail(request[i].todo) = <<"build">> /\ <<"build">> \in DiffTodo
      /\ <<"build">> # <<"lookup", "build">> /\ request[i].todo # <<>>
      /\ request[i].method \notin Ungated /\ <<"build">> # <<>>
  BY <1>1, WorkSteps, DiffSteps DEF NextCheck, Check, Ungated, DiffTodo
<1>3. /\ request[i].since <= request[i].seen /\ request[i].seen <= worktrees
      /\ ~Past(request[i])
  BY <1>1, <1>2, WhatFits DEF OldFree, Past
<1>4. CASE diffCache.valid /\ diffCache.fingerprint = FingerprintAt[request[i].seen]
  <2> DEFINE x == [request[i] EXCEPT !.at = "release", !.todo = <<>>, !.seen = 0,
                                     !.got = diffCache.result]
  <2>1. request' = [request EXCEPT ![i] = x]
    BY <1>2, <1>4 DEF DiffLookup, Conclude, AfterMethod
  <2>2. diffCache.result \in OutcomeRecord /\ <<>> \in Seq(Check)
    BY WhatFits DEF CacheRecord
  <2>3. /\ x \in RequestRecord /\ x.at = "release" /\ x.got = diffCache.result
        /\ x.id = request[i].id /\ x.method = request[i].method /\ x.since = request[i].since
    BY <2>2, WhatFits DEF RequestRecord, Stage
  <2> HIDE DEF x
  <2>4. Fits(x)
    BY <1>2, <2>3 DEF Fits
  <2>5. FoundAgain(x.since, x.got)
    BY <1>3, <1>4, <2>2, <2>3, WhatFits DEF FoundAgain, CacheFits
  <2>7. OldFree(x)
    BY <2>3, <2>5, WhatFits DEF OldFree
  <2>6. ~x.got.whole => Borrowed(i)
    BY <1>2, <1>3, <2>3, WhereCut
  <2> QED BY <1>1, <1>3, <2>1, <2>3, <2>4, <2>6, <2>7, WhatFits, HandlerKeeps
<1>5. CASE ~(diffCache.valid /\ diffCache.fingerprint = FingerprintAt[request[i].seen])
  <2> DEFINE g == DiffBegun(i)
             x == [Passed(i) EXCEPT !.left = Members, !.got = g]
  <2>1. request' = [request EXCEPT ![i] = x]
    BY <1>5 DEF DiffLookup
  <2>2. g \in OutcomeRecord /\ g.whole /\ g.tree = worktrees /\ g.begun = request[i].seen
    BY WhatFits DEF DiffBegun, Outcome, OutcomeRecord
  <2> HIDE DEF g
  <2>3. /\ x \in RequestRecord /\ x.at = "work" /\ x.got = g
        /\ x.id = request[i].id /\ x.method = request[i].method /\ x.since = request[i].since
        /\ x.seen = request[i].seen /\ x.todo = <<"build">>
    BY <1>1, <1>2, <2>2, WhatFits, RpcAssumption DEF Passed, RequestRecord
  <2> HIDE DEF x
  <2>4. Fits(x)
    BY <1>2, <2>2, <2>3 DEF Fits
  <2>5. FoundAgain(x.since, x.got)
    BY <1>3, <2>2, <2>3, WhatFits DEF FoundAgain
  <2>6. OldFree(x)
    BY <1>3, <2>2, <2>3, <2>5, WhatFits DEF OldFree
  <2> QED BY <1>1, <1>3, <2>1, <2>2, <2>3, <2>4, <2>6, WhatFits, WhereCut, HandlerKeeps
<1> QED BY <1>4, <1>5

LEMMA SliceDiffBasesKeeps ==
    ASSUME RpcInvariant, NEW i \in Request, SliceDiffBases(i)
    PROVE  RequestsFit' /\ CutsKnown' /\ NothingOld' /\ Stepped(i)
<1>1. /\ request[i].at = "work" /\ request[i].todo # <<>> /\ NextCheck(i) = "build"
      /\ request[i].left > 0
      /\ UNCHANGED <<serve, ctxDone, collected, requests, worktrees, cancelled, diffCache, answer>>
  BY DEF SliceDiffBases, Working, HandlerAt
<1>2. /\ request[i].method = "diff" /\ request[i].todo = <<"build">>
      /\ request[i].method \notin Ungated
  BY <1>1, WorkSteps, DiffSteps DEF NextCheck, Check, Ungated
<1>3. PICK fails \in IF ContextDone(i) THEN BOOLEAN ELSE {FALSE} :
          request' = [request EXCEPT ![i].left = @ - 1,
                                     ![i].got.whole = @ /\ ~fails]
  BY DEF SliceDiffBases
<1> DEFINE g == [request[i].got EXCEPT !.whole = request[i].got.whole /\ ~fails]
           x == [request[i] EXCEPT !.left = request[i].left - 1, !.got = g]
<1>4. request' = [request EXCEPT ![i] = x]
  BY <1>3, WhatFits
<1>5. /\ g \in OutcomeRecord /\ g.tree = request[i].got.tree /\ g.begun = request[i].got.begun
      /\ g.what = request[i].got.what
      /\ ~g.whole => ~request[i].got.whole \/ fails
  BY WhatFits DEF OutcomeRecord
<1>6. /\ x \in RequestRecord /\ x.at = "work" /\ x.todo = request[i].todo /\ x.got = g
      /\ x.id = request[i].id /\ x.method = request[i].method
      /\ x.since = request[i].since /\ x.seen = request[i].seen
  <2> HIDE DEF g
  <2> request[i].left - 1 \in Nat
    BY <1>1, WhatFits
  <2> QED BY <1>1, <1>5, WhatFits DEF RequestRecord
<1> HIDE DEF x, g
<1>7. /\ request[i].since <= request[i].seen /\ request[i].seen <= worktrees
      /\ request[i].seen = request[i].got.begun /\ request[i].got.begun <= request[i].got.tree
  BY <1>1, <1>2, WhatFits DEF OldFree
<1>7a. x.got.what = "result" => FoundAgain(x.since, x.got)
  BY <1>2, <1>5, <1>6, WhatFits DEF OldFree, FoundAgain
<1>8. Fits(x) /\ OldFree(x) /\ (Past(request[i]) => Past(x))
  BY <1>1, <1>2, <1>5, <1>6, <1>7, <1>7a, WhatFits DEF Fits, OldFree, Past
<1>9. ~x.got.whole => ContextDone(i)
  BY <1>1, <1>5, <1>6, WhereCut
<1> QED BY <1>1, <1>2, <1>4, <1>6, <1>8, <1>9, WhatFits, HandlerKeeps

LEMMA DiffStoreKeeps ==
    ASSUME RpcInvariant, NEW i \in Request, DiffStore(i)
    PROVE  RequestsFit' /\ CutsKnown' /\ NothingOld' /\ Stepped(i)
<1> DEFINE x == [Passed(i) EXCEPT !.seen = 0]
<1>1. /\ request[i].at = "work" /\ request[i].todo # <<>> /\ NextCheck(i) = "build"
      /\ request' = [request EXCEPT ![i] = x]
      /\ diffCache' = [valid |-> TRUE, fingerprint |-> FingerprintAt[request[i].seen],
                     result |-> request[i].got]
      /\ UNCHANGED <<serve, ctxDone, collected, requests, worktrees, cancelled, answer>>
  BY DEF DiffStore, Working, HandlerAt
<1>2. /\ request[i].method = "diff" /\ request[i].todo = <<"build">>
      /\ Tail(request[i].todo) = <<>> /\ <<>> \in DiffTodo
      /\ request[i].method \notin Ungated
      /\ <<>> # <<"build">> /\ <<>> # <<"lookup", "build">>
  BY <1>1, WorkSteps, DiffSteps DEF NextCheck, Check, Ungated, DiffTodo
<1>3. /\ x \in RequestRecord /\ x.at = "work" /\ x.todo = <<>> /\ x.got = request[i].got
      /\ x.id = request[i].id /\ x.method = request[i].method /\ x.since = request[i].since
  BY <1>1, <1>2, WhatFits DEF Passed, RequestRecord
<1> HIDE DEF x
<1>4. Fits(x) /\ OldFree(x) /\ Past(x)
  BY <1>2, <1>3, WhatFits DEF Fits, OldFree, Past
<1>5. /\ diffCache' \in CacheRecord /\ diffCache'.valid
      /\ CacheFits(diffCache') /\ diffCache'.result = request[i].got
  <2>1. request[i].seen \in 0 .. MaxTrees
    <3>1. request[i].seen <= worktrees /\ request[i].seen \in Nat
      BY <1>1, <1>2, WhatFits DEF OldFree
    <3>2. worktrees \in 0 .. MaxTrees /\ MaxTrees \in Nat
      BY RpcAssumption DEF RpcInvariant, RpcTyped
    <3> QED BY <3>1, <3>2
  <2>2. FingerprintAt[request[i].seen] \in Fingerprints
    BY <2>1 DEF Fingerprints
  <2>3. request[i].seen = request[i].got.begun /\ request[i].got.begun <= request[i].got.tree
    BY <1>1, <1>2, WhatFits DEF OldFree
  <2> QED BY <1>1, <2>2, <2>3, WhatFits DEF CacheRecord, CacheFits
<1>7. ~request[i].got.whole => ContextDone(i)
  BY <1>1, WhereCut
<1> QED BY <1>1, <1>2, <1>3, <1>4, <1>5, <1>7, WhatFits, HandlerKeeps
LEMMA gatedReturnsKeeps ==
    ASSUME RpcInvariant, NEW i \in Request, gatedReturns(i)
    PROVE  RequestsFit' /\ CutsKnown' /\ NothingOld' /\ Stepped(i)
<1> DEFINE g == IF ContextDone(i) THEN Cancelled ELSE request[i].got
           x == [request[i] EXCEPT !.at = "write", !.got = g]
<1>1. /\ request[i].at = "release" /\ request' = [request EXCEPT ![i] = x]
      /\ UNCHANGED <<serve, ctxDone, collected, requests, worktrees, cancelled, diffCache, answer>>
  BY DEF gatedReturns, HandlerAt
<1>2. /\ g \in OutcomeRecord /\ (~g.whole => g = request[i].got /\ ~ContextDone(i))
      /\ g.what = "result" => g = request[i].got
  BY WhatFits, Empty
<1>3. /\ x \in RequestRecord /\ x.at = "write" /\ x.got = g
      /\ x.id = request[i].id /\ x.method = request[i].method /\ x.since = request[i].since
  BY <1>2, WhatFits DEF RequestRecord, Stage
<1> HIDE DEF x, g
<1>4. Fits(x) /\ (Past(request[i]) => Past(x))
  BY <1>3 DEF Fits, Past
<1>5. OldFree(x)
  BY <1>2, <1>3, WhatFits DEF OldFree
<1> QED BY <1>1, <1>2, <1>3, <1>4, <1>5, WhatFits, WhereCut, HandlerKeeps

\* What is written is what the request has, and nothing is left of it.
LEMMA writeMessageKeeps ==
    ASSUME RpcInvariant, NEW i \in Request, writeMessage(i)
    PROVE  RequestsFit' /\ CutsKnown' /\ NothingOld' /\ Stepped(i)
<1>1. /\ request[i].at = "write"
      /\ UNCHANGED <<serve, ctxDone, collected, requests, worktrees, cancelled, diffCache>>
  BY DEF writeMessage, HandlerAt
<1>2. PICK place \in {"ended", "forget"} :
         /\ request' = [request EXCEPT ![i].at = place, ![i].got = NoOutcome]
         /\ IF place = "ended" THEN UNCHANGED answer
            ELSE request[i].id # NoId /\ answer' = [answer EXCEPT ![i] = request[i].got]
  BY DEF writeMessage, Written, isNotification
<1> DEFINE x == [request[i] EXCEPT !.at = place, !.got = NoOutcome]
<1>3. /\ x \in RequestRecord /\ x.at = place /\ x.got = NoOutcome
      /\ x.id = request[i].id /\ x.method = request[i].method /\ x.since = request[i].since
  BY Empty, WhatFits DEF RequestRecord, Stage
<1>4. request' = [request EXCEPT ![i] = x]
  BY <1>2
<1> HIDE DEF x
<1>5. Fits(x) /\ (Past(request[i]) => Past(x))
  BY <1>2, <1>3 DEF Fits, Past
<1>6. OldFree(x)
  BY <1>2, <1>3, WhatFits, Empty DEF OldFree
<1>7. answer' = answer \/
         \E a \in OutcomeRecord : /\ answer' = [answer EXCEPT ![i] = a]
                                  /\ ~a.whole => Borrowed(i)
                                  /\ x.method = "diff" /\ a.what = "result" =>
                                        FoundAgain(x.since, a)
  <2>1. CASE place = "ended"
    BY <1>2, <2>1
  <2>2. CASE place = "forget"
    <3>1. /\ request[i].got \in OutcomeRecord /\ answer' = [answer EXCEPT ![i] = request[i].got]
          /\ ~request[i].got.whole => Borrowed(i)
      BY <1>1, <1>2, <2>2, WhatFits, WhereCut
    <3>2. x.method = "diff" /\ request[i].got.what = "result" =>
             FoundAgain(x.since, request[i].got)
      BY <1>3, WhatFits DEF OldFree
    <3> QED BY <3>1, <3>2
  <2> QED BY <2>1, <2>2
<1> QED BY <1>1, <1>2, <1>3, <1>4, <1>5, <1>6, <1>7, Empty, WhatFits, HandlerKeeps

LEMMA forgetInFlightKeeps ==
    ASSUME RpcInvariant, NEW i \in Request, forgetInFlight(i)
    PROVE  RequestsFit' /\ CutsKnown' /\ NothingOld' /\ Stepped(i)
<1> DEFINE x == [request[i] EXCEPT !.at = "ended"]
<1>1. /\ request[i].at = "forget" /\ request' = [request EXCEPT ![i] = x]
      /\ UNCHANGED <<serve, ctxDone, collected, requests, worktrees, diffCache, answer>>
      /\ cancelled' \in {cancelled, cancelled \cup {i}}
  BY DEF forgetInFlight, HandlerAt, MoveHandler
<1>2. /\ x \in RequestRecord /\ x.at = "ended" /\ x.got = request[i].got
      /\ x.id = request[i].id /\ x.method = request[i].method /\ x.since = request[i].since
  BY WhatFits DEF RequestRecord, Stage
<1>3. request[i].got = NoOutcome
  BY <1>1, WhatFits DEF Fits
<1> HIDE DEF x
<1>4. Fits(x) /\ (Past(request[i]) => Past(x))
  BY <1>2, <1>3 DEF Fits, Past
<1>5. OldFree(x)
  BY <1>2, <1>3, WhatFits, Empty DEF OldFree
<1>6. cancelled \subseteq cancelled' /\ cancelled' \subseteq Request
  BY <1>1, WhatFits
<1> QED BY <1>1, <1>2, <1>3, <1>4, <1>5, <1>6, Empty, WhatFits, HandlerKeeps

\* No step of a handler leaves what a request is, where a result comes from, or how
\* old it is behind.
LEMMA HandleKeeps ==
    ASSUME RpcInvariant, NEW i \in Request, Handle(i)
    PROVE  RequestsFit' /\ CutsKnown' /\ NothingOld' /\ Stepped(i)
BY dispatchKeeps, TakeSlotKeeps, GiveUpKeeps, CheckPassesKeeps, ReadKeeps, MethodReturnsKeeps,
   DiffFingerprintKeeps, DiffLookupKeeps, SliceDiffBasesKeeps, DiffStoreKeeps,
   gatedReturnsKeeps, writeMessageKeeps, forgetInFlightKeeps DEF Handle
-----------------------------------------------------------------------------
\* Where a handler's step leads, and whether it takes or gives back a slot.
SlotKept(i) == UNCHANGED slots /\ (Holding(i)' <=> Holding(i))
SlotTaken(i) == slots < Gate /\ slots' = slots + 1 /\ ~Holding(i) /\ Holding(i)'
SlotGiven(i) == slots' = slots - 1 /\ Holding(i) /\ ~Holding(i)'

LEMMA HandlerStages ==
    ASSUME RpcInvariant, NEW i \in Request, Handle(i), Stepped(i)
    PROVE  /\ SlotKept(i) \/ SlotTaken(i) \/ SlotGiven(i)
           /\ \/ forgetInFlight(i)
              \/ UNCHANGED inFlight /\ (request[i].id # NoId =>
                    (request'[i].at = "ended" <=> request[i].at = "ended"))
<1> DEFINE m == request[i].method
           old == request[i].at
           new == request'[i].at
<1>0. request \in [Request -> RequestRecord] /\ request[i] \in RequestRecord
      /\ request'[i].method = m
  BY WhatFits DEF Stepped
<1>1. CASE dispatch(i)
  <2>1. UNCHANGED <<slots, inFlight>> /\ old = "dispatch"
    BY <1>1 DEF dispatch, HandlerAt
  <2>2. new \in {"write", "work", "gate"} /\ (new = "work" => m \in Ungated)
    <3>1. CASE m \notin DOMAIN Handlers
      BY <1>0, <1>1, <3>1 DEF dispatch, Conclude, RequestRecord
    <3>2. CASE m \in DOMAIN Handlers /\ m \in Ungated
      BY <1>0, <1>1, <3>2 DEF dispatch, RequestRecord
    <3>3. CASE m \in DOMAIN Handlers /\ m \notin Ungated /\ ContextDone(i)
      BY <1>0, <1>1, <3>3 DEF dispatch, Conclude, RequestRecord
    <3>4. CASE m \in DOMAIN Handlers /\ m \notin Ungated /\ ~ContextDone(i)
      BY <1>0, <1>1, <3>4 DEF dispatch, MoveHandler, RequestRecord
    <3> QED BY <3>1, <3>2, <3>3, <3>4
  <2> QED BY <1>0, <2>1, <2>2 DEF SlotKept, Holding
<1>2. CASE TakeSlot(i)
  <2>1. UNCHANGED inFlight /\ old = "gate" /\ slots < Gate /\ slots' = slots + 1
    BY <1>2 DEF TakeSlot, HandlerAt
  <2>2. new = "work"
    BY <1>0, <1>2 DEF TakeSlot, RequestRecord
  <2>3. m \notin Ungated
    BY <2>1, WhatFits DEF Fits
  <2> QED BY <1>0, <2>1, <2>2, <2>3 DEF SlotTaken, Holding
<1>3. CASE GiveUpWaiting(i)
  <2>1. UNCHANGED <<slots, inFlight>> /\ old = "gate"
    BY <1>3 DEF GiveUpWaiting, HandlerAt
  <2>2. new = "write"
    BY <1>0, <1>3 DEF GiveUpWaiting, Conclude, RequestRecord
  <2> QED BY <1>0, <2>1, <2>2 DEF SlotKept, Holding
<1>4. CASE CheckFails(i)
  <2>1. UNCHANGED <<slots, inFlight>> /\ old = "work"
    BY <1>4 DEF CheckFails, HandlerAt
  <2>2. new = AfterMethod(i)
    BY <1>0, <1>4 DEF CheckFails, Conclude, RequestRecord
  <2> QED BY <1>0, <2>1, <2>2 DEF SlotKept, Holding, AfterMethod
<1>5. CASE CheckPasses(i) \/ Read(i) \/ DiffFingerprint(i) \/ DiffStore(i)
  <2>1. UNCHANGED <<slots, inFlight>> /\ old = "work"
    BY <1>5 DEF CheckPasses, Read, DiffFingerprint, DiffStore, Working, HandlerAt
  <2>2. Passed(i) \in RequestRecord /\ Passed(i).at = "work"
    <3>1. request[i].todo # <<>>
      BY <1>5 DEF CheckPasses, Read, DiffFingerprint, DiffStore, Working
    <3> QED BY <1>0, <2>1, <3>1, WorkSteps DEF Passed, RequestRecord
  <2>3. PICK x : request' = [request EXCEPT ![i] = x] /\ x.at = "work"
    <3> DEFINE p == Passed(i)
    <3> HIDE DEF p
    <3>0. p \in RequestRecord /\ p.at = "work"
      BY <2>2 DEF p
    <3>1. CASE CheckPasses(i)
      BY <3>0, <3>1 DEF CheckPasses, p
    <3>2. CASE Read(i)
      <4>1. PICK whole : request' = [request EXCEPT ![i] =
                                        [p EXCEPT !.got = Outcome("result", whole, 0)]]
        BY <3>2 DEF Read, p
      <4>2. [p EXCEPT !.got = Outcome("result", whole, 0)].at = "work"
        BY <3>0 DEF RequestRecord
      <4> QED BY <4>1, <4>2
    <3>3. CASE DiffFingerprint(i)
      <4>1. request' = [request EXCEPT ![i] = [p EXCEPT !.seen = worktrees]]
        BY <3>3 DEF DiffFingerprint, p
      <4>2. [p EXCEPT !.seen = worktrees].at = "work"
        BY <3>0 DEF RequestRecord
      <4> QED BY <4>1, <4>2
    <3>4. CASE DiffStore(i)
      <4>1. request' = [request EXCEPT ![i] = [p EXCEPT !.seen = 0]]
        BY <3>4 DEF DiffStore, p
      <4>2. [p EXCEPT !.seen = 0].at = "work"
        BY <3>0 DEF RequestRecord
      <4> QED BY <4>1, <4>2
    <3> QED BY <1>5, <3>1, <3>2, <3>3, <3>4
  <2>4. new = "work"
    BY <1>0, <2>3
  <2> QED BY <1>0, <2>1, <2>4 DEF SlotKept, Holding
<1>6. CASE MethodReturns(i)
  <2>1. UNCHANGED <<slots, inFlight>> /\ old = "work"
    BY <1>6 DEF MethodReturns, HandlerAt
  <2>2. new = AfterMethod(i)
    BY <1>0, <1>6 DEF MethodReturns, RequestRecord
  <2> QED BY <1>0, <2>1, <2>2 DEF SlotKept, Holding, AfterMethod
<1>7. CASE DiffLookup(i)
  <2>1. UNCHANGED <<slots, inFlight>> /\ old = "work"
    BY <1>7 DEF DiffLookup, Working, HandlerAt
  <2>2. new \in {"work", AfterMethod(i)}
    <3>1. CASE diffCache.valid /\ diffCache.fingerprint = FingerprintAt[request[i].seen]
      BY <1>0, <1>7, <3>1 DEF DiffLookup, Conclude, RequestRecord
    <3>2. CASE ~(diffCache.valid /\ diffCache.fingerprint = FingerprintAt[request[i].seen])
      BY <1>0, <1>7, <2>1, <3>2 DEF DiffLookup, Passed, RequestRecord
    <3> QED BY <3>1, <3>2
  <2> QED BY <1>0, <2>1, <2>2 DEF SlotKept, Holding, AfterMethod
<1>8. CASE SliceDiffBases(i)
  <2>1. UNCHANGED <<slots, inFlight>> /\ old = "work"
    BY <1>8 DEF SliceDiffBases, Working, HandlerAt
  <2>2. PICK l, g : request' = [request EXCEPT ![i].left = l, ![i].got = g]
    BY <1>8 DEF SliceDiffBases
  <2>3. new = "work"
    BY <1>0, <2>1, <2>2 DEF RequestRecord
  <2> QED BY <1>0, <2>1, <2>3 DEF SlotKept, Holding
<1>9. CASE gatedReturns(i)
  <2>1. UNCHANGED inFlight /\ old = "release" /\ slots' = slots - 1
    BY <1>9 DEF gatedReturns, HandlerAt
  <2>2. new = "write"
    BY <1>0, <1>9 DEF gatedReturns, RequestRecord
  <2>3. m \notin Ungated
    BY <2>1, WhatFits DEF Fits
  <2> QED BY <1>0, <2>1, <2>2, <2>3 DEF SlotGiven, Holding
<1>10. CASE writeMessage(i)
  <2>1. UNCHANGED <<slots, inFlight>> /\ old = "write"
    BY <1>10 DEF writeMessage, HandlerAt
  <2>2. new \in {"ended", "forget"} /\ (new = "ended" => request[i].id = NoId)
    <3>1. CASE isNotification(i)
      BY <1>0, <1>10, <3>1 DEF writeMessage, Written, isNotification, RequestRecord
    <3>2. CASE ~isNotification(i)
      BY <1>0, <1>10, <3>2 DEF writeMessage, Written, isNotification, RequestRecord
    <3> QED BY <3>1, <3>2
  <2> QED BY <1>0, <2>1, <2>2 DEF SlotKept, Holding
<1>11. CASE forgetInFlight(i)
  <2>1. UNCHANGED slots /\ old = "forget"
    BY <1>11 DEF forgetInFlight, HandlerAt
  <2>2. new = "ended"
    BY <1>0, <1>11 DEF forgetInFlight, MoveHandler, RequestRecord
  <2> QED BY <1>0, <1>11, <2>1, <2>2 DEF SlotKept, Holding
<1> QED BY <1>1, <1>2, <1>3, <1>4, <1>5, <1>6, <1>7, <1>8, <1>9, <1>10, <1>11 DEF Handle

\* Only the end of a request, when its registration is its own, takes that away.
LEMMA HandleRegisters ==
    ASSUME RpcInvariant, NEW i \in Request, Handle(i), Stepped(i)
    PROVE  NewestRegistered' /\ inFlight' \in [Id -> 0 .. MaxRequests]
<1>1. /\ inFlight \in [Id -> 0 .. MaxRequests] /\ 0 \in 0 .. MaxRequests
      /\ request \in [Request -> RequestRecord]
  BY RpcAssumption DEF RpcInvariant, RpcTyped
<1>2. CASE UNCHANGED inFlight /\ (request[i].id # NoId =>
              (request'[i].at = "ended" <=> request[i].at = "ended"))
  <2>1. \A j \in Request : /\ request'[j].id = request[j].id
                           /\ request[j].id # NoId =>
                                 (request'[j].at = "ended" <=> request[j].at = "ended")
    BY <1>2 DEF Stepped
  <2> QED BY <1>1, <1>2, <2>1, RegistrationUntouched DEF Stepped
<1>3. CASE forgetInFlight(i)
  <2>0. PICK id : id = request[i].id
    OBVIOUS
  <2>1. /\ id \in Id /\ request[i].at = "forget" /\ request'[i].at = "ended"
        /\ inFlight' = IF inFlight[id] = i THEN [inFlight EXCEPT ![id] = 0] ELSE inFlight
    BY <1>1, <1>3, <2>0, WhatFits
    DEF forgetInFlight, HandlerAt, MoveHandler, Fits, RequestRecord
  <2>2. /\ \A j \in 1 .. requests : j \in Request
        /\ i \in 1 .. requests /\ i # 0 /\ requests' = requests
    BY <2>1, RequestTypes, RpcAssumption DEF Request, Stepped
  <2>3. \A d \in Id, n \in Request : Newest(d, n) => Newest(d, n)'
    BY <2>2 DEF Newest, Stepped
  <2>4. \A j \in Request : request'[j].id = request[j].id
    BY DEF Stepped
  <2>5. ASSUME NEW d \in Id, d # id
        PROVE  \/ inFlight'[d] = 0 /\ \A j \in 1 .. requests : request'[j].id # d
               \/ \E n \in Request :
                     Newest(d, n)' /\ inFlight'[d] = IF request'[n].at = "ended" THEN 0 ELSE n
    <3>1. inFlight'[d] = inFlight[d]
      BY <1>1, <2>1, <2>5
    <3>2. CASE inFlight[d] = 0 /\ \A j \in 1 .. requests : request[j].id # d
      BY <2>2, <2>4, <3>1, <3>2
    <3>3. CASE \E n \in Request :
                  Newest(d, n) /\ inFlight[d] = IF request[n].at = "ended" THEN 0 ELSE n
      <4>1. PICK n \in Request :
                  Newest(d, n) /\ inFlight[d] = IF request[n].at = "ended" THEN 0 ELSE n
        BY <3>3
      <4>2. n # i /\ request'[n] = request[n]
        BY <2>0, <2>5, <4>1 DEF Newest, Stepped
      <4> QED BY <2>3, <3>1, <4>1, <4>2
    <3> QED BY <3>2, <3>3 DEF RpcInvariant, NewestRegistered
  <2>6. \E n \in Request :
           Newest(id, n)' /\ inFlight'[id] = IF request'[n].at = "ended" THEN 0 ELSE n
    <3>1. PICK n \in Request :
             Newest(id, n) /\ inFlight[id] = IF request[n].at = "ended" THEN 0 ELSE n
      BY <2>0, <2>1, <2>2 DEF RpcInvariant, NewestRegistered
    <3>2. CASE n = i
      <4>1. inFlight[id] = i
        BY <2>1, <3>1, <3>2
      <4>2. inFlight'[id] = 0
        BY <1>1, <2>1, <4>1
      <4> QED BY <2>1, <2>3, <3>1, <3>2, <4>2
    <3>3. CASE n # i
      <4>1. inFlight[id] # i
        BY <2>2, <3>1, <3>3
      <4>2. inFlight'[id] = inFlight[id] /\ request'[n] = request[n]
        BY <2>1, <3>3, <4>1 DEF Stepped
      <4> QED BY <2>1, <2>3, <3>1, <4>2
    <3> QED BY <3>2, <3>3
  <2>7. inFlight' \in [Id -> 0 .. MaxRequests]
    BY <1>1, <2>1
  <2>8. NewestRegistered'
    <3> SUFFICES ASSUME NEW d \in Id
        PROVE  \/ inFlight'[d] = 0 /\ \A j \in 1 .. requests' : request'[j].id # d
               \/ \E n \in Request :
                     Newest(d, n)' /\ inFlight'[d] = IF request'[n].at = "ended" THEN 0 ELSE n
      BY DEF NewestRegistered
    <3>1. CASE d = id
      BY <2>6, <3>1
    <3>2. CASE d # id
      BY <2>2, <2>5, <3>2
    <3> QED BY <3>1, <3>2
  <2> QED BY <2>7, <2>8
<1> QED BY <1>2, <1>3, HandlerStages

\* The gate counts those that hold a slot.
LEMMA HandleCounts ==
    ASSUME RpcInvariant, NEW i \in Request, Handle(i), Stepped(i)
    PROVE  SlotsHeld' /\ slots' \in Int
<1>1. IsFiniteSet(Holders) /\ Cardinality(Holders) \in Nat /\ slots = Cardinality(Holders)
      /\ slots <= Gate /\ Gate \in Nat /\ slots \in Int
  <2>1. IsFiniteSet(Request)
    BY FS_Interval, RpcAssumption DEF Request
  <2>2. IsFiniteSet(Holders)
    BY <2>1, FS_Subset DEF Holders
  <2> QED BY <2>2, FS_CardinalityType, RpcAssumption DEF RpcInvariant, SlotsHeld
<1>2. \A j \in Request : j # i => (Holding(j)' <=> Holding(j))
  BY DEF Stepped, Holding
<1>3. CASE SlotKept(i)
  <2> Holders' = Holders
    BY <1>2, <1>3 DEF Holders, SlotKept
  <2> QED BY <1>1, <1>3 DEF SlotsHeld, SlotKept
<1>4. CASE SlotTaken(i)
  <2>1. Holders' = Holders \cup {i} /\ i \notin Holders
    BY <1>2, <1>4 DEF Holders, SlotTaken
  <2>2. Cardinality(Holders') = Cardinality(Holders) + 1
    BY <1>1, <2>1, FS_AddElement
  <2> QED BY <1>1, <1>4, <2>2 DEF SlotsHeld, SlotTaken
<1>5. CASE SlotGiven(i)
  <2>1. Holders' = Holders \ {i} /\ i \in Holders
    BY <1>2, <1>5 DEF Holders, SlotGiven
  <2>2. Cardinality(Holders') = Cardinality(Holders) - 1
    BY <1>1, <2>1, FS_RemoveElement
  <2> QED BY <1>1, <1>5, <2>2 DEF SlotsHeld, SlotGiven
<1> QED BY <1>3, <1>4, <1>5, HandlerStages

\* Requests, registrations, the gate and the cache of diffs are as RpcInvariant says.
THEOREM RpcInvariantHolds == RpcSpec => []RpcInvariant
<1>1. ASSUME RpcInvariant, NEW i \in Request, Handle(i) PROVE RpcInvariant'
  <2>1. RequestsFit' /\ CutsKnown' /\ NothingOld' /\ Stepped(i)
    BY <1>1, HandleKeeps
  <2>2. NewestRegistered' /\ inFlight' \in [Id -> 0 .. MaxRequests]
    BY <1>1, <2>1, HandleRegisters
  <2>3. SlotsHeld' /\ slots' \in Int
    BY <1>1, <2>1, HandleCounts
  <2>4. RpcTyped'
    BY <1>1, <2>1, <2>2, <2>3 DEF RpcInvariant, RpcTyped, Stepped
  <2> QED BY <2>1, <2>2, <2>3, <2>4 DEF RpcInvariant
<1>2. RpcInvariant /\ [RpcNext]_rpcVars => RpcInvariant'
  BY <1>1, ReadRequestKeeps, ShutdownKeeps, WorktreesChangeKeeps DEF RpcNext
<1> QED BY <1>2, RpcInitially, PTL DEF RpcSpec

\* Every variable has its type, and the gate counts those that hold a slot (gated).
THEOREM RpcTypeCorrect == RpcSpec => []RpcTypeOK
<1>1. RpcInvariant => RpcTypeOK
  <2> SUFFICES ASSUME RpcInvariant PROVE RpcTypeOK
    OBVIOUS
  <2>1. IsFiniteSet(Request)
    BY FS_Interval, RpcAssumption DEF Request
  <2>2. IsFiniteSet(Holders)
    BY <2>1, FS_Subset DEF Holders
  <2>3. slots \in 0 .. Gate /\ slots = Cardinality(Holders)
    BY <2>2, FS_CardinalityType, RpcAssumption DEF RpcInvariant, SlotsHeld
  <2>4. Holders = {i \in Request : Holding(i)}
    BY DEF Holders
  <2> QED BY <2>3, <2>4 DEF RpcInvariant, RpcTyped, RpcTypeOK
<1> QED BY <1>1, RpcInvariantHolds, PTL

\* Under an ID stands the newest request that carries it until that has ended:
\* a cancel reaches that one (trackInFlight, forgetInFlight).
THEOREM RegistrationsAreTheNewest == RpcSpec => []RegistrationIsTheNewest
<1>1. ASSUME RpcInvariant PROVE RegistrationIsTheNewest
  <2> SUFFICES ASSUME NEW id \in Id
      PROVE  LET bearers == {i \in 1 .. requests : request[i].id = id}
                 newest == CHOOSE i \in bearers : \A j \in bearers : j <= i
             IN  inFlight[id] = IF bearers = {} \/ HandlerAt(newest, "ended") THEN 0 ELSE newest
    BY DEF RegistrationIsTheNewest
  <2> DEFINE bearers == {i \in 1 .. requests : request[i].id = id}
             newest == CHOOSE i \in bearers : \A j \in bearers : j <= i
  <2>1. CASE inFlight[id] = 0 /\ \A j \in 1 .. requests : request[j].id # id
    <3> bearers = {}
      BY <2>1
    <3> QED BY <2>1
  <2>2. CASE \E n \in Request :
                Newest(id, n) /\ inFlight[id] = IF request[n].at = "ended" THEN 0 ELSE n
    <3>1. PICK n \in Request :
             Newest(id, n) /\ inFlight[id] = IF request[n].at = "ended" THEN 0 ELSE n
      BY <2>2
    <3>2. n \in bearers /\ \A j \in bearers : j <= n
      BY <3>1 DEF Newest
    <3>3. newest \in bearers /\ \A j \in bearers : j <= newest
      BY <3>2
    <3>4. newest = n
      BY <1>1, <3>2, <3>3, RequestTypes
    <3> QED BY <3>1, <3>2, <3>4 DEF HandlerAt
  <2> QED BY <1>1, <2>1, <2>2 DEF RpcInvariant, NewestRegistered
<1> QED BY <1>1, RpcInvariantHolds, PTL

\* Who answers a result that is not complete is the cache of diffs alone, after
\* another diff was cancelled (gated, SliceDiffBases, DiffStore).
THEOREM PartialResultsAreBorrowed == RpcSpec => []PartialOnlyFromDiffCache
<1>1. RpcInvariant => PartialOnlyFromDiffCache
  BY DEF RpcInvariant, CutsKnown, Borrowed, PartialOnlyFromDiffCache
<1> QED BY <1>1, RpcInvariantHolds, PTL

\* A diff, cached or not, was built for a fingerprint that the worktrees have had since
\* the request it answers was read, and is not older than that fingerprint: what
\* DiffLookup compares, and what DiffStore stores it under.
THEOREM DiffsFitFingerprint == RpcSpec => []DiffFitsFingerprint
<1>1. RpcInvariant => DiffFitsFingerprint
  BY RequestTypes DEF RpcInvariant, NothingOld, DiffFitsFingerprint, OutcomeRecord
<1> QED BY <1>1, RpcInvariantHolds, PTL

-----------------------------------------------------------------------------
(* The client: what a call waits for, and which sidecar it is of.          *)

SentRecord == [query : Query \cup {"none"}, sidecar : 0 .. MaxSidecars, since : Nat,
               how : {"none", "result", "error", "timeout", "down", "closed"},
               of : Query \cup {"none"}, seen : Nat]
LineRecord == [id : RequestId, how : {"result", "error"}, query : Query \cup {"none"}, seen : Nat]
CallRecord == [query : Query \cup {"none"}, id : 0 .. MaxClientCalls]

\* The shape of every variable; an ID is used by a call at most.
ClientTyped ==
    /\ sidecar \in 0 .. sidecars /\ sidecars \in Sidecar
    /\ up \subseteq Sidecar /\ exits \subseteq Sidecar
    /\ restart \in BOOLEAN /\ closed \in BOOLEAN
    /\ sends \in 0 .. MaxClientCalls /\ sends <= clientCalls
    /\ pending \subseteq RequestId /\ serving \subseteq RequestId /\ withdrawn \subseteq RequestId
    /\ joined \in [Query -> 0 .. sends]
    /\ sentAs \in [RequestId -> SentRecord]
    /\ lines \subseteq LineRecord
    /\ caller \in [Caller -> CallRecord]
    /\ view \in Nat
    /\ clientCalls \in 0 .. MaxClientCalls /\ clientTrouble \in 0 .. MaxClientTrouble

Sent(i) == sentAs[i].sidecar # 0

\* The sidecar the client talks to is the only one that runs; when it has ended,
\* its exit is still to be heard of.  A restart is only under way without one.
OneSidecar ==
    /\ up \subseteq {sidecar}
    /\ sidecar # 0 => sidecar \in up \cup exits
    /\ exits \subseteq 1 .. sidecars /\ up \cap exits = {}
    /\ restart \/ closed => sidecar = 0
    /\ closed => ~restart

\* What waits was sent to that sidecar, and nobody has been told its end; a
\* sidecar that was given up is not talked to again.
PendingIsCurrent ==
    \A i \in RequestId :
       /\ i > sends => ~Sent(i)
       /\ ~Sent(i) => sentAs[i].how = "none"
       /\ i \in pending <=> Sent(i) /\ sentAs[i].how = "none"
       /\ i \in pending => sentAs[i].sidecar = sidecar
       /\ sentAs[i].sidecar <= sidecars
       /\ sentAs[i].how = "down" => sentAs[i].sidecar # sidecar
       /\ i \in serving => sentAs[i].sidecar \in up

\* Every line is of a request that was sent, and was read after that.
Tells(of, seen, i) == of = sentAs[i].query /\ seen >= sentAs[i].since
OwnLines ==
    /\ \A i \in RequestId : sentAs[i].since <= view
    /\ \A line \in lines : /\ Sent(line.id) /\ line.id \notin serving
                           /\ Tells(line.query, line.seen, line.id)
    /\ \A i \in RequestId : sentAs[i].how = "result" => Tells(sentAs[i].of, sentAs[i].seen, i)

\* Calls wait for a request of their query, and one that waits for an answer is
\* what equal calls join; a sidecar that serves another was told to abandon it.
CallsJoin ==
    /\ \A c \in Caller : caller[c].id # 0 =>
          Sent(caller[c].id) /\ sentAs[caller[c].id].query = caller[c].query
    /\ \A q \in Query : joined[q] # 0 => Sent(joined[q]) /\ sentAs[joined[q]].query = q
    /\ \A i \in pending : sentAs[i].query \in Query /\ joined[sentAs[i].query] = i
    /\ \A i \in serving : i \in pending \/ i \in withdrawn

ClientInvariant == ClientTyped /\ OneSidecar /\ PendingIsCurrent /\ OwnLines /\ CallsJoin

LEMMA ClientBegins == ClientInit => ClientInvariant
<1> SUFFICES ASSUME ClientInit PROVE ClientInvariant
  OBVIOUS
<1> USE DEF ClientInit
<1>1. NoQuery \in SentRecord /\ NoQuery.sidecar = 0 /\ NoQuery.how = "none" /\ NoQuery.since = 0
  BY ClientAssumption DEF NoQuery, NewRequest, SentRecord
<1>2. NoCall \in CallRecord /\ NoCall.id = 0
  BY ClientAssumption DEF NoCall, CallRecord
<1>3. ClientTyped
  <2>1. sidecar \in 0 .. sidecars /\ sidecars \in Sidecar /\ up \subseteq Sidecar
    BY ClientAssumption DEF Sidecar
  <2>2. /\ sends \in 0 .. MaxClientCalls /\ sends <= clientCalls /\ view \in Nat
        /\ clientCalls \in 0 .. MaxClientCalls /\ clientTrouble \in 0 .. MaxClientTrouble
    BY ClientAssumption
  <2>3. joined \in [Query -> 0 .. sends] /\ sentAs \in [RequestId -> SentRecord]
        /\ caller \in [Caller -> CallRecord]
    BY <1>1, <1>2
  <2> QED BY <2>1, <2>2, <2>3 DEF ClientTyped
<1>4. OneSidecar
  BY DEF OneSidecar
<1>5. PendingIsCurrent
  BY <1>1 DEF PendingIsCurrent, Sent
<1>6. OwnLines
  BY <1>1 DEF OwnLines
<1>7. CallsJoin
  BY <1>2 DEF CallsJoin
<1> QED BY <1>3, <1>4, <1>5, <1>6, <1>7 DEF ClientInvariant

\* A step that leaves the requests, the answers and the calls alone.
LEMMA RequestsUnchanged ==
    ASSUME ClientInvariant, UNCHANGED <<sentAs, sends, joined, caller, pending, lines>>,
           view <= view', ClientTyped', serving' \subseteq serving, withdrawn \subseteq withdrawn'
    PROVE  OwnLines' /\ CallsJoin'
<1>1. OwnLines'
  BY DEF ClientInvariant, OwnLines, Tells, Sent, ClientTyped, SentRecord
<1>2. CallsJoin'
  BY DEF ClientInvariant, CallsJoin, Sent
<1> QED BY <1>1, <1>2

\* Settled requests have another end; nothing else of them changes but what the
\* response said.
LEMMA SettleEnds ==
    ASSUME ClientInvariant, NEW ids \in SUBSET pending, NEW how, NEW of, NEW seen,
           how \in {"result", "error", "timeout", "down", "closed"},
           of \in Query \cup {"none"}, seen \in Nat, Settle(ids, how, of, seen)
    PROVE  /\ sentAs' \in [RequestId -> SentRecord] /\ pending' = pending \ ids
           /\ \A i \in RequestId :
                 /\ sentAs'[i].query = sentAs[i].query /\ sentAs'[i].sidecar = sentAs[i].sidecar
                 /\ sentAs'[i].since = sentAs[i].since
                 /\ i \in ids => sentAs'[i].how = how /\ sentAs'[i].of = of /\ sentAs'[i].seen = seen
                 /\ i \notin ids => sentAs'[i] = sentAs[i]
<1>1. sentAs \in [RequestId -> SentRecord] /\ ids \subseteq RequestId
  BY DEF ClientInvariant, ClientTyped
<1> QED BY <1>1 DEF Settle, SentRecord

-----------------------------------------------------------------------------

\* A call is of a request that was sent, or of none.
LEMMA PlacesCallKeeps ==
    ASSUME ClientInvariant, NEW c \in Caller, NEW q \in Query, NEW id \in 0 .. MaxClientCalls,
           PlacesCall(c, q, id)
    PROVE  /\ caller' \in [Caller -> CallRecord] /\ clientCalls' \in 0 .. MaxClientCalls
           /\ clientCalls' = clientCalls + 1
           /\ caller'[c].id = id /\ caller'[c].query = q
           /\ \A d \in Caller \ {c} : caller'[d] = caller[d]
<1>1. caller \in [Caller -> CallRecord] /\ clientCalls \in 0 .. MaxClientCalls
  BY DEF ClientInvariant, ClientTyped
<1>2. [query |-> q, id |-> id] \in CallRecord
  BY DEF CallRecord
<1> QED BY <1>1, <1>2, ClientAssumption DEF PlacesCall

LEMMA JoinCallKeeps ==
    ASSUME ClientInvariant, NEW c \in Caller, NEW q \in Query, JoinCall(c, q)
    PROVE  ClientInvariant'
<1> USE DEF process, clientBounds
<1>1. ClientTyped /\ OneSidecar /\ PendingIsCurrent /\ OwnLines /\ CallsJoin
  BY DEF ClientInvariant
<1>2. joined[q] # 0 /\ joined[q] \in RequestId /\ PlacesCall(c, q, joined[q])
  BY <1>1, ClientAssumption DEF JoinCall, ClientTyped, RequestId
<1>3. /\ caller' \in [Caller -> CallRecord] /\ clientCalls' \in 0 .. MaxClientCalls
      /\ clientCalls' = clientCalls + 1
      /\ caller'[c].id = joined[q] /\ caller'[c].query = q
      /\ \A d \in Caller \ {c} : caller'[d] = caller[d]
  BY <1>2, PlacesCallKeeps DEF RequestId
<1>4. ClientTyped'
  BY <1>1, <1>3 DEF ClientTyped, JoinCall, PlacesCall
<1>5. OneSidecar' /\ PendingIsCurrent' /\ OwnLines'
  BY <1>1 DEF OneSidecar, PendingIsCurrent, OwnLines, Sent, Tells, JoinCall, PlacesCall
<1>6. CallsJoin'
  <2>1. sentAs'[joined[q]].query = q /\ Sent(joined[q])'
    BY <1>1, <1>2 DEF CallsJoin, Sent, JoinCall
  <2>2. \A d \in Caller : caller'[d].id # 0 =>
           sentAs'[caller'[d].id].sidecar # 0 /\ sentAs'[caller'[d].id].query = caller'[d].query
    BY <1>1, <1>3, <2>1 DEF CallsJoin, Sent, JoinCall
  <2> QED BY <1>1, <2>2 DEF CallsJoin, Sent, JoinCall, PlacesCall
<1> QED BY <1>4, <1>5, <1>6 DEF ClientInvariant

LEMMA NewCallKeeps ==
    ASSUME ClientInvariant, NEW c \in Caller, NEW q \in Query, NewCall(c, q)
    PROVE  ClientInvariant'
<1> USE DEF process, clientBounds
<1>1. ClientTyped /\ OneSidecar /\ PendingIsCurrent /\ OwnLines /\ CallsJoin
  BY DEF ClientInvariant
<1>2. CASE /\ sidecar # 0 /\ sends' = sends + 1
           /\ sentAs' = [sentAs EXCEPT ![sends'] = NewRequest(q, sidecar, view)]
           /\ pending' = pending \cup {sends'}
           /\ serving' = IF sidecar \in up THEN serving \cup {sends'} ELSE serving
           /\ joined' = [joined EXCEPT ![q] = sends']
           /\ PlacesCall(c, q, sends')
  <2> DEFINE i == sends'
             new == NewRequest(q, sidecar, view)
  <2>1. clientCalls < MaxClientCalls
    BY <1>2 DEF PlacesCall
  <2>2. i \in RequestId /\ i = sends + 1 /\ sends \in Nat /\ i \in 0 .. MaxClientCalls /\ i # 0
    BY <1>1, <1>2, <2>1, ClientAssumption DEF ClientTyped, RequestId
  <2>3. /\ new \in SentRecord /\ new.query = q /\ new.sidecar = sidecar /\ new.how = "none"
        /\ new.since = view
    BY <1>1, ClientAssumption DEF NewRequest, SentRecord, ClientTyped, Sidecar
  <2> HIDE DEF new
  <2>4. /\ sentAs' = [sentAs EXCEPT ![i] = new] /\ sentAs'[i] = new
        /\ \A k \in RequestId \ {i} : sentAs'[k] = sentAs[k]
        /\ sentAs' \in [RequestId -> SentRecord]
    BY <1>1, <1>2, <2>2, <2>3 DEF ClientTyped, new
  <2>5. /\ caller' \in [Caller -> CallRecord] /\ clientCalls' \in 0 .. MaxClientCalls
        /\ clientCalls' = clientCalls + 1
        /\ caller'[c].id = i /\ caller'[c].query = q
        /\ \A d \in Caller \ {c} : caller'[d] = caller[d]
    BY <1>2, <2>2, PlacesCallKeeps
  <2>6. UNCHANGED <<process, withdrawn, lines, view, clientTrouble>>
    BY <1>2 DEF PlacesCall
  <2>7. /\ joined' \in [Query -> 0 .. sends'] /\ joined'[q] = i
        /\ \A k \in Query \ {q} : joined'[k] = joined[k]
    BY <1>1, <1>2, <2>2 DEF ClientTyped
  <2>8. ~Sent(i) /\ joined[q] = 0
    BY <1>1, <2>2, ClientAssumption DEF PendingIsCurrent, NewCall, RequestId
  <2>9. ClientTyped'
    BY <1>1, <1>2, <2>2, <2>4, <2>5, <2>6, <2>7 DEF ClientTyped
  <2>10. OneSidecar'
    BY <1>1, <2>6 DEF OneSidecar
  <2>11. PendingIsCurrent'
    <3>1. i \notin pending /\ i \notin serving
      BY <1>1, <2>2, <2>8 DEF PendingIsCurrent, OneSidecar, Sent, ClientTyped, Sidecar
    <3>2. sidecar <= sidecars
      BY <1>1 DEF ClientTyped
    <3>3. ASSUME NEW k \in RequestId
          PROVE  /\ k > sends' => sentAs'[k].sidecar = 0
                 /\ sentAs'[k].sidecar = 0 => sentAs'[k].how = "none"
                 /\ k \in pending' <=> sentAs'[k].sidecar # 0 /\ sentAs'[k].how = "none"
                 /\ k \in pending' => sentAs'[k].sidecar = sidecar'
                 /\ sentAs'[k].sidecar <= sidecars'
                 /\ sentAs'[k].how = "down" => sentAs'[k].sidecar # sidecar'
                 /\ k \in serving' => sentAs'[k].sidecar \in up'
      <4>1. CASE k = i
        BY <1>2, <2>2, <2>3, <2>4, <2>6, <3>1, <3>2, <4>1 DEF RequestId
      <4>2. CASE k # i
        BY <1>1, <1>2, <2>2, <2>4, <2>6, <4>2 DEF PendingIsCurrent, Sent, RequestId
      <4> QED BY <4>1, <4>2
    <3> QED BY <3>3 DEF PendingIsCurrent, Sent
  <2>12. OwnLines'
    <3>1. \A line \in lines : line.id # i /\ line.id \in RequestId
      BY <1>1, <2>8 DEF OwnLines, ClientTyped, LineRecord
    <3>2. view \in Nat
      BY <1>1 DEF ClientTyped
    <3> QED BY <1>1, <1>2, <2>3, <2>4, <2>6, <3>1, <3>2 DEF OwnLines, Tells, Sent
  <2>13. CallsJoin'
    <3>1. \A d \in Caller : caller'[d].id # 0 =>
             sentAs'[caller'[d].id].sidecar # 0 /\ sentAs'[caller'[d].id].query = caller'[d].query
      <4>1. \A d \in Caller : caller[d].id # 0 => caller[d].id \in RequestId \ {i}
        BY <1>1, <2>8, ClientAssumption DEF CallsJoin, ClientTyped, CallRecord, RequestId
      <4> QED BY <1>1, <1>2, <2>3, <2>4, <2>5, <4>1 DEF CallsJoin, Sent
    <3>2. \A k \in Query : joined'[k] # 0 =>
             sentAs'[joined'[k]].sidecar # 0 /\ sentAs'[joined'[k]].query = k
      <4>1. \A k \in Query : joined[k] # 0 => joined[k] \in RequestId \ {i}
        BY <1>1, <2>2, ClientAssumption DEF ClientTyped, RequestId
      <4> QED BY <1>1, <1>2, <2>3, <2>4, <2>7, <4>1 DEF CallsJoin, Sent
    <3>3. \A k \in pending' : sentAs'[k].query \in Query /\ joined'[sentAs'[k].query] = k
      <4>1. \A k \in pending : k \in RequestId \ {i} /\ sentAs[k].query # q
        <5>1. \A k \in pending : k \in RequestId /\ k # i
          BY <1>1, <2>8 DEF ClientTyped, PendingIsCurrent
        <5>2. \A k \in pending : k # 0 /\ joined[sentAs[k].query] = k
          BY <1>1, <5>1 DEF CallsJoin, RequestId
        <5> QED BY <2>8, <5>1, <5>2
      <4> QED BY <1>1, <1>2, <2>3, <2>4, <2>7, <4>1 DEF CallsJoin
    <3>4. \A k \in serving' : k \in pending' \/ k \in withdrawn'
      BY <1>1, <1>2, <2>6 DEF CallsJoin
    <3> QED BY <3>1, <3>2, <3>3, <3>4 DEF CallsJoin, Sent
  <2> QED BY <2>9, <2>10, <2>11, <2>12, <2>13 DEF ClientInvariant
<1>3. CASE /\ sidecar \notin up
           /\ sends' = IF sidecar = 0 THEN sends ELSE sends + 1
           /\ PlacesCall(c, q, 0)
           /\ UNCHANGED <<joined, sentAs, pending, serving>>
  <2>1. /\ caller' \in [Caller -> CallRecord] /\ clientCalls' \in 0 .. MaxClientCalls
        /\ clientCalls' = clientCalls + 1 /\ caller'[c].id = 0
        /\ \A d \in Caller \ {c} : caller'[d] = caller[d]
    BY <1>3, PlacesCallKeeps, ClientAssumption
  <2>2. /\ sends' \in 0 .. MaxClientCalls /\ sends' <= clientCalls' /\ sends <= sends'
        /\ sends \in Nat
    BY <1>1, <1>3, <2>1, ClientAssumption DEF ClientTyped
  <2>3. ClientTyped'
    BY <1>1, <1>3, <2>1, <2>2 DEF ClientTyped, PlacesCall
  <2>4. OneSidecar' /\ OwnLines'
    BY <1>1, <1>3 DEF OneSidecar, OwnLines, Sent, Tells, PlacesCall
  <2>5. PendingIsCurrent'
    BY <1>1, <1>3, <2>2 DEF PendingIsCurrent, Sent, PlacesCall, RequestId
  <2>6. CallsJoin'
    BY <1>1, <1>3, <2>1 DEF CallsJoin, Sent, PlacesCall
  <2> QED BY <2>3, <2>4, <2>5, <2>6 DEF ClientInvariant
<1> QED BY <1>2, <1>3 DEF NewCall

LEMMA ForgetJoinedKeeps ==
    ASSUME ClientInvariant, NEW q \in Query, ForgetJoined(q)
    PROVE  ClientInvariant'
<1> USE DEF process, clientBounds
<1>1. ClientTyped /\ OneSidecar /\ PendingIsCurrent /\ OwnLines /\ CallsJoin
  BY DEF ClientInvariant
<1>2. /\ joined' \in [Query -> 0 .. sends] /\ joined'[q] = 0 /\ joined[q] \notin pending
      /\ \A k \in Query \ {q} : joined'[k] = joined[k]
  BY <1>1 DEF ForgetJoined, ClientTyped
<1>3. ClientTyped' /\ OneSidecar' /\ PendingIsCurrent' /\ OwnLines'
  BY <1>1, <1>2 DEF ForgetJoined, ClientTyped, OneSidecar, PendingIsCurrent, OwnLines, Sent,
     Tells
<1>4. CallsJoin'
  <2>1. \A i \in pending : sentAs[i].query # q
    BY <1>1, <1>2 DEF CallsJoin
  <2> QED BY <1>1, <1>2, <2>1 DEF CallsJoin, ForgetJoined, Sent
<1> QED BY <1>3, <1>4 DEF ClientInvariant

-----------------------------------------------------------------------------
(* Responses, timeouts and sidecars.                                       *)

\* Settling some requests, with nothing new sent and no sidecar started.
LEMMA SettleKeepsInvariant ==
    ASSUME ClientInvariant, NEW ids \in SUBSET pending, NEW how, NEW of, NEW seen,
           how \in {"result", "error", "timeout", "down", "closed"},
           of \in Query \cup {"none"}, seen \in Nat, Settle(ids, how, of, seen),
           how = "result" => \A i \in ids : Tells(of, seen, i),
           how = "down" => sidecar' = 0,
           UNCHANGED <<sends, joined, caller, view, sidecars, clientCalls>>, lines' \subseteq lines,
           \A i \in serving' : /\ i \in serving /\ (i \in ids => i \in withdrawn')
                               /\ sentAs[i].sidecar \in up',
           withdrawn \subseteq withdrawn', withdrawn' \subseteq RequestId,
           sidecar' = sidecar \/ (sidecar' = 0 /\ ids = pending),
           up' \subseteq up, exits' \subseteq exits \cup up, restart' \in BOOLEAN, closed' \in BOOLEAN,
           clientTrouble' \in 0 .. MaxClientTrouble, OneSidecar'
    PROVE  ClientInvariant'
<1>1. ClientTyped /\ OneSidecar /\ PendingIsCurrent /\ OwnLines /\ CallsJoin
  BY DEF ClientInvariant
<1>2. /\ sentAs' \in [RequestId -> SentRecord] /\ pending' = pending \ ids
      /\ \A i \in RequestId :
            /\ sentAs'[i].query = sentAs[i].query /\ sentAs'[i].sidecar = sentAs[i].sidecar
            /\ sentAs'[i].since = sentAs[i].since
            /\ i \in ids => sentAs'[i].how = how /\ sentAs'[i].of = of /\ sentAs'[i].seen = seen
            /\ i \notin ids => sentAs'[i] = sentAs[i]
  BY SettleEnds
<1>3. OwnLines' /\ CallsJoin'
  <2>1. OwnLines'
    BY <1>1, <1>2 DEF OwnLines, Tells, Sent, ClientTyped, LineRecord
  <2>2. /\ \A c \in Caller : caller[c].id # 0 => caller[c].id \in RequestId
        /\ \A q \in Query : joined[q] # 0 => joined[q] \in RequestId
        /\ pending \subseteq RequestId /\ serving \subseteq RequestId
    BY <1>1, ClientAssumption DEF ClientTyped, CallRecord, RequestId
  <2>3. CallsJoin'
    BY <1>1, <1>2, <2>2 DEF CallsJoin, Sent
  <2> QED BY <2>1, <2>3
<1>4. ClientTyped'
  <2>1. sidecar' \in 0 .. sidecars' /\ sidecars' \in Sidecar
    BY <1>1, ClientAssumption DEF ClientTyped, Sidecar
  <2> QED BY <1>1, <1>2, <2>1 DEF ClientTyped
<1>5. PendingIsCurrent'
  <2> SUFFICES ASSUME NEW i \in RequestId
               PROVE  /\ i > sends' => sentAs'[i].sidecar = 0
                      /\ sentAs'[i].sidecar = 0 => sentAs'[i].how = "none"
                      /\ i \in pending' <=> sentAs'[i].sidecar # 0 /\ sentAs'[i].how = "none"
                      /\ i \in pending' => sentAs'[i].sidecar = sidecar'
                      /\ sentAs'[i].sidecar <= sidecars'
                      /\ sentAs'[i].how = "down" => sentAs'[i].sidecar # sidecar'
                      /\ i \in serving' => sentAs'[i].sidecar \in up'
    BY DEF PendingIsCurrent, Sent
  <2>1. CASE i \in ids
    <3>1. i \in pending /\ sentAs[i].sidecar # 0
      BY <1>1, <2>1 DEF PendingIsCurrent, Sent
    <3> QED BY <1>1, <1>2, <2>1, <3>1 DEF PendingIsCurrent, Sent
  <2>2. CASE i \notin ids
    <3>1. sentAs'[i] = sentAs[i] /\ (i \in pending' <=> i \in pending)
      BY <1>2, <2>2
    <3>2. i \in pending => sidecar' = sidecar
      BY <2>2
    <3>3. sentAs[i].how = "down" => sentAs[i].sidecar # 0
      BY <1>1, <1>2 DEF PendingIsCurrent, Sent
    <3> QED BY <1>1, <3>1, <3>2, <3>3 DEF PendingIsCurrent, Sent
  <2> QED BY <2>1, <2>2
<1> QED BY <1>1, <1>3, <1>4, <1>5 DEF ClientInvariant

LEMMA handleLineKeeps ==
    ASSUME ClientInvariant, NEW line \in lines, handleLine(line)
    PROVE  ClientInvariant'
<1> USE DEF process, clientBounds
<1>1. ClientTyped /\ OneSidecar /\ PendingIsCurrent /\ OwnLines /\ CallsJoin
  BY DEF ClientInvariant
<1>2. line \in LineRecord /\ lines' = lines \ {line}
  BY <1>1 DEF ClientTyped, handleLine
<1>3. UNCHANGED <<process, sends, joined, serving, withdrawn, caller, clientBounds>>
  BY DEF handleLine
<1>4. OneSidecar'
  BY <1>1, <1>3 DEF OneSidecar
<1>5. CASE line.id \in pending /\ Settle({line.id}, line.how, line.query, line.seen)
  <2>1. {line.id} \in SUBSET pending /\ line.how \in {"result", "error", "timeout", "down", "closed"}
        /\ line.query \in Query \cup {"none"} /\ line.seen \in Nat
    BY <1>2, <1>5 DEF LineRecord
  <2>2. line.how = "result" => \A i \in {line.id} : Tells(line.query, line.seen, i)
    BY <1>1 DEF OwnLines
  <2>3. line.how # "down" /\ line.id \notin serving
    BY <1>1, <1>2 DEF LineRecord, OwnLines
  <2> QED BY <1>1, <1>2, <1>3, <1>4, <1>5, <2>1, <2>2, <2>3, SettleKeepsInvariant
          DEF ClientTyped, PendingIsCurrent
<1>6. CASE line.id \notin pending /\ UNCHANGED <<pending, sentAs>>
  <2>1. ClientTyped' /\ PendingIsCurrent'
    BY <1>1, <1>2, <1>3, <1>6 DEF ClientTyped, PendingIsCurrent, Sent
  <2>2. OwnLines' /\ CallsJoin'
    BY <1>1, <1>2, <1>3, <1>6 DEF OwnLines, CallsJoin, Sent, Tells
  <2> QED BY <1>4, <2>1, <2>2 DEF ClientInvariant
<1> QED BY <1>5, <1>6 DEF handleLine

LEMMA RequestTimesOutKeeps ==
    ASSUME ClientInvariant, NEW id \in RequestId, RequestTimesOut(id)
    PROVE  ClientInvariant'
<1> USE DEF process, clientBounds
<1>1. ClientTyped /\ OneSidecar /\ PendingIsCurrent
  BY DEF ClientInvariant
<1>2. /\ {id} \in SUBSET pending /\ Settle({id}, "timeout", "none", 0)
      /\ clientTrouble' \in 0 .. MaxClientTrouble
      /\ withdrawn' = IF id \in serving THEN withdrawn \cup {id} ELSE withdrawn
      /\ UNCHANGED <<process, sends, joined, serving, lines, caller, view, clientCalls>>
  BY <1>1, ClientAssumption DEF RequestTimesOut, ClientTrouble, ClientTyped
<1>3. OneSidecar'
  BY <1>1, <1>2 DEF OneSidecar
<1> QED BY <1>1, <1>2, <1>3, SettleKeepsInvariant DEF ClientTyped, PendingIsCurrent

\* Steps of the sidecars that settle no request.
LEMMA ProcessKeeps ==
    ASSUME ClientInvariant, OneSidecar',
           UNCHANGED <<sends, pending, joined, sentAs, withdrawn, lines, caller, view, clientCalls>>,
           serving' \subseteq serving, \A i \in serving' : sentAs[i].sidecar \in up',
           sidecar' \in 0 .. sidecars', sidecars' \in Sidecar, sidecars <= sidecars',
           up' \subseteq Sidecar, exits' \subseteq Sidecar, restart' \in BOOLEAN, closed' = closed,
           clientTrouble' \in 0 .. MaxClientTrouble,
           pending # {} => sidecar' = sidecar,
           sidecar' # sidecar => sidecar' = 0 \/ sidecar' > sidecars
    PROVE  ClientInvariant'
<1>1. ClientTyped /\ PendingIsCurrent /\ OwnLines /\ CallsJoin
  BY DEF ClientInvariant
<1>2. ClientTyped'
  BY <1>1 DEF ClientTyped
<1>3. OwnLines' /\ CallsJoin'
  BY <1>1 DEF OwnLines, CallsJoin, Tells, Sent, ClientTyped
<1>4. PendingIsCurrent'
  <2>1. \A i \in RequestId : sentAs[i].sidecar \in 0 .. MaxSidecars /\ sidecars \in Nat /\ sidecars' \in Nat
    BY <1>1, ClientAssumption DEF ClientTyped, SentRecord, Sidecar
  <2>2. \A i \in RequestId : sentAs[i].how = "down" => sentAs[i].sidecar # 0
    BY <1>1 DEF PendingIsCurrent, Sent
  <2> QED BY <1>1, <2>1, <2>2 DEF PendingIsCurrent, Sent
<1> QED BY <1>2, <1>3, <1>4 DEF ClientInvariant

\* What goes on when the sidecar s is found to be down.
LEMMA TransportDown ==
    ASSUME ClientInvariant, NEW s \in Sidecar, onTransportDown(s), s \in up \cup exits,
           exits' \in {exits \cup (up \ up'), exits \ {s}}, s \in up => exits' = exits \cup (up \ up'),
           \/ serving' = {i \in serving : sentAs[i].sidecar \in up'}
           \/ s \notin up /\ serving' = serving,
           UNCHANGED <<sidecars, closed, sends, joined, withdrawn, lines, caller, view, clientCalls>>,
           clientTrouble' \in 0 .. MaxClientTrouble
    PROVE  ClientInvariant'
<1>1. ClientTyped /\ OneSidecar /\ PendingIsCurrent
  BY DEF ClientInvariant
<1>2. s # 0 /\ closed \in BOOLEAN
  BY <1>1 DEF ClientTyped, Sidecar
<1>3. CASE closed \/ sidecar # s
  <2>1. UNCHANGED <<sidecar, up, restart, pending, sentAs>>
    BY <1>3 DEF onTransportDown
  <2>2. sidecar # s /\ s \notin up
    BY <1>1, <1>2, <1>3 DEF OneSidecar
  <2>3. exits' \in {exits, exits \ {s}}
    BY <2>1, <2>2
  <2>4. OneSidecar'
    BY <1>1, <2>1, <2>2, <2>3 DEF OneSidecar
  <2>5. serving' \subseteq serving /\ \A i \in serving' : sentAs[i].sidecar \in up'
    BY <1>1, <2>1 DEF PendingIsCurrent, ClientTyped
  <2> QED BY <1>1, <2>1, <2>3, <2>4, <2>5, ProcessKeeps DEF ClientTyped, Sidecar
<1>4. CASE ~closed /\ sidecar = s
  <2>1. /\ Settle(pending, "down", "none", 0) /\ sidecar' = 0
        /\ up' = up \ {s} /\ restart' = TRUE
    BY <1>4 DEF onTransportDown
  <2>2. up' = {}
    BY <1>1, <1>4, <2>1 DEF OneSidecar
  <2>3. exits' \subseteq exits \cup up
    BY <2>1
  <2>4. OneSidecar'
    BY <1>1, <1>4, <2>1, <2>2, <2>3 DEF OneSidecar, ClientTyped, Sidecar
  <2>5. serving' = {}
    BY <1>1, <1>4, <2>2 DEF PendingIsCurrent, ClientTyped, OneSidecar
  <2> QED BY <1>1, <1>4, <2>1, <2>2, <2>3, <2>4, <2>5, SettleKeepsInvariant DEF ClientTyped
<1> QED BY <1>2, <1>3, <1>4

LEMMA SidecarStepsKeep ==
    ASSUME ClientInvariant, NEW s \in Sidecar, ReadLoopBreaks(s) \/ ExitHeard(s) \/ SidecarEnds(s)
    PROVE  ClientInvariant'
<1> USE DEF process, clientBounds
<1>1. ClientTyped /\ OneSidecar /\ PendingIsCurrent
  BY DEF ClientInvariant
<1>2. CASE ReadLoopBreaks(s)
  <2>1. /\ onTransportDown(s) /\ s \in up \cup exits
        /\ exits' = exits \cup (up \ up') /\ serving' = {i \in serving : sentAs[i].sidecar \in up'}
        /\ clientTrouble' \in 0 .. MaxClientTrouble
        /\ UNCHANGED <<sidecars, closed, sends, joined, withdrawn, lines, caller, view, clientCalls>>
    BY <1>1, <1>2, ClientAssumption DEF ReadLoopBreaks, ProcessesEnd, ClientTrouble,
       ClientTyped, onTransportDown
  <2> QED BY <2>1, TransportDown
<1>3. CASE ExitHeard(s)
  <2>1. s \in exits /\ s \notin up
    BY <1>1, <1>3 DEF ExitHeard, OneSidecar
  <2> QED BY <1>1, <1>3, <2>1, TransportDown DEF ExitHeard, ClientTyped
<1>4. CASE SidecarEnds(s)
  <2>1. /\ s \in up /\ up' = up \ {s} /\ exits' = exits \cup {s}
        /\ serving' = {i \in serving : sentAs[i].sidecar \in up'}
        /\ clientTrouble' \in 0 .. MaxClientTrouble
        /\ UNCHANGED <<sidecar, sidecars, restart, closed, sends, pending, joined, sentAs, withdrawn,
                       lines, caller, view, clientCalls>>
    BY <1>1, <1>4, ClientAssumption DEF SidecarEnds, ProcessesEnd, ClientTrouble, ClientTyped
  <2>2. s = sidecar /\ OneSidecar'
    BY <1>1, <2>1 DEF OneSidecar, ClientTyped, Sidecar
  <2>3. serving' \subseteq serving /\ \A i \in serving' : sentAs[i].sidecar \in up'
    BY <2>1
  <2> HIDE DEF process, clientBounds
  <2> QED BY <1>1, <2>1, <2>2, <2>3, ProcessKeeps DEF ClientTyped, Sidecar
<1> QED BY <1>2, <1>3, <1>4

LEMMA spawnKeeps == ClientInvariant /\ spawn => ClientInvariant'
<1> SUFFICES ASSUME ClientInvariant, spawn PROVE ClientInvariant'
  OBVIOUS
<1>1. ClientTyped /\ OneSidecar /\ PendingIsCurrent
  BY DEF ClientInvariant
<1>2. /\ restart /\ restart' = FALSE /\ sidecars' = sidecars + 1 /\ sidecar' = sidecars + 1
      /\ up' = up \cup {sidecars + 1}
      /\ UNCHANGED <<exits, closed, sends, pending, joined, sentAs, serving, withdrawn, lines, caller,
                     view, clientCalls, clientTrouble>>
  BY DEF spawn, clientBounds
<1>3. sidecar = 0 /\ up = {} /\ ~closed
  BY <1>1, <1>2 DEF OneSidecar, ClientTyped, Sidecar
<1>4. sidecars \in Nat /\ sidecars' \in Sidecar
  BY <1>1, <1>2, ClientAssumption DEF ClientTyped, Sidecar, spawn
<1>5. OneSidecar'
  BY <1>1, <1>2, <1>3, <1>4 DEF OneSidecar
<1>6. pending = {} /\ serving = {}
  BY <1>1, <1>3 DEF PendingIsCurrent, Sent, ClientTyped
<1>7. /\ sidecar' \in 0 .. sidecars' /\ sidecars <= sidecars' /\ sidecar' > sidecars
      /\ up' \subseteq Sidecar /\ exits' \subseteq Sidecar /\ restart' \in BOOLEAN
      /\ clientTrouble' \in 0 .. MaxClientTrouble
  <2>1. sidecar' \in 0 .. sidecars' /\ sidecars <= sidecars' /\ sidecar' > sidecars
    BY <1>2, <1>3, <1>4
  <2>2. up' \subseteq Sidecar /\ exits' \subseteq Sidecar /\ restart' \in BOOLEAN
    BY <1>1, <1>2, <1>3, <1>4 DEF ClientTyped
  <2> QED BY <1>1, <1>2, <2>1, <2>2 DEF ClientTyped
<1>8. /\ UNCHANGED <<sends, pending, joined, sentAs, withdrawn, lines, caller, view, clientCalls>>
      /\ serving' = {} /\ closed' = closed
  BY <1>2, <1>6
<1> QED BY <1>4, <1>5, <1>6, <1>7, <1>8, ProcessKeeps

LEMMA closeKeeps == ClientInvariant /\ close => ClientInvariant'
<1> SUFFICES ASSUME ClientInvariant, close PROVE ClientInvariant'
  OBVIOUS
<1>1. ClientTyped /\ OneSidecar /\ PendingIsCurrent
  BY DEF ClientInvariant
<1>2. /\ closed' = TRUE /\ restart' = FALSE /\ Settle(pending, "closed", "none", 0)
      /\ sidecar' = 0 /\ up' = up \ {sidecar} /\ exits' = exits \cup (up \ up')
      /\ serving' = {i \in serving : sentAs[i].sidecar \in up'}
      /\ UNCHANGED <<sidecars, sends, joined, withdrawn, lines, caller, view, clientCalls,
                     clientTrouble>>
  BY DEF close, ProcessesEnd, clientBounds
<1>3. up' = {} /\ serving' = {}
  BY <1>1, <1>2 DEF OneSidecar
<1>4. OneSidecar'
  BY <1>1, <1>2, <1>3 DEF OneSidecar, ClientTyped, Sidecar
<1>5. /\ UNCHANGED <<sends, joined, caller, view, sidecars, clientCalls>> /\ lines' = lines
      /\ withdrawn' = withdrawn /\ withdrawn \subseteq RequestId
      /\ up' \subseteq up /\ exits' \subseteq exits \cup up /\ restart' \in BOOLEAN
      /\ closed' \in BOOLEAN /\ clientTrouble' \in 0 .. MaxClientTrouble
  BY <1>1, <1>2 DEF ClientTyped
<1> QED BY <1>2, <1>3, <1>4, <1>5, SettleKeepsInvariant

LEMMA SidecarAnswersKeeps ==
    ASSUME ClientInvariant, NEW id \in RequestId, SidecarAnswers(id)
    PROVE  ClientInvariant'
<1> USE DEF process, clientBounds
<1>1. ClientTyped /\ OneSidecar /\ PendingIsCurrent /\ OwnLines /\ CallsJoin
  BY DEF ClientInvariant
<1>2. PICK how \in {"result", "error"} :
         lines' = lines \cup {[id |-> id, how |-> how, query |-> sentAs[id].query, seen |-> view]}
  BY DEF SidecarAnswers
<1> DEFINE line == [id |-> id, how |-> how, query |-> sentAs[id].query, seen |-> view]
<1>3. /\ line \in LineRecord /\ line.id = id /\ line.query = sentAs[id].query /\ line.seen = view
      /\ lines' = lines \cup {line}
  BY <1>1, <1>2 DEF LineRecord, ClientTyped, SentRecord
<1> HIDE DEF line
<1>4. /\ id \in serving /\ serving' = serving \ {id} /\ withdrawn' = withdrawn \ {id}
      /\ UNCHANGED <<process, sends, pending, joined, sentAs, caller, clientBounds>>
  BY DEF SidecarAnswers
<1>5. ClientTyped'
  BY <1>1, <1>3, <1>4 DEF ClientTyped
<1>6. OneSidecar' /\ PendingIsCurrent' /\ CallsJoin'
  BY <1>1, <1>4 DEF OneSidecar, PendingIsCurrent, CallsJoin, Sent
<1>7. OwnLines'
  <2>1. Sent(id) /\ Tells(line.query, line.seen, id)
    <3>1. sentAs[id].sidecar \in up
      BY <1>1, <1>4 DEF PendingIsCurrent
    <3>2. sentAs[id].sidecar # 0
      BY <1>1, <3>1 DEF ClientTyped, Sidecar
    <3> QED BY <1>1, <1>3, <3>2 DEF OwnLines, Tells, Sent, ClientTyped, SentRecord
  <2> QED BY <1>1, <1>3, <1>4, <2>1 DEF OwnLines, Tells, Sent
<1> QED BY <1>5, <1>6, <1>7 DEF ClientInvariant

LEMMA ViewChangesKeeps == ClientInvariant /\ ViewChanges => ClientInvariant'
<1> SUFFICES ASSUME ClientInvariant, ViewChanges PROVE ClientInvariant'
  OBVIOUS
<1>1. ClientTyped /\ OneSidecar /\ PendingIsCurrent /\ OwnLines /\ CallsJoin
  BY DEF ClientInvariant
<1>2. /\ view' = view + 1 /\ view \in Nat
      /\ UNCHANGED <<process, sends, pending, joined, sentAs, serving, withdrawn, lines, caller,
                     clientCalls, clientTrouble>>
  BY <1>1 DEF ViewChanges, ClientTyped
<1>3. ClientTyped' /\ OneSidecar' /\ PendingIsCurrent'
  BY <1>1, <1>2 DEF ClientTyped, OneSidecar, PendingIsCurrent, Sent, process
<1>4. OwnLines' /\ CallsJoin'
  BY <1>2, <1>3, RequestsUnchanged
<1> QED BY <1>3, <1>4 DEF ClientInvariant

\* The client's invariant holds for any callers, queries and bounds.
THEOREM ClientInvariantHolds == ClientSpec => []ClientInvariant
<1>1. ASSUME ClientInvariant, UNCHANGED rpcClientVars PROVE ClientInvariant'
  BY <1>1 DEF ClientInvariant, ClientTyped, OneSidecar, PendingIsCurrent, OwnLines,
     CallsJoin, Sent, Tells, rpcClientVars, process, clientBounds
<1>2. ClientInvariant /\ [ClientNext]_rpcClientVars => ClientInvariant'
  BY <1>1, JoinCallKeeps, NewCallKeeps, ForgetJoinedKeeps, handleLineKeeps,
     RequestTimesOutKeeps, SidecarAnswersKeeps, SidecarStepsKeep, spawnKeeps, closeKeeps,
     ViewChangesKeeps
  DEF ClientNext
<1> QED BY <1>2, ClientBegins, PTL DEF ClientSpec

\* No call waits for a request that nothing will settle; it gets the answer to
\* its own query, read after its request was sent, and fails for a sidecar only
\* when that one was given up; no read is at work twice, no sidecar left behind
\* (client.ts, call, onTransportDown and handleLine).
THEOREM CallsSettledByTheirOwn == ClientSpec => []CallsAreSettledByTheirOwn
<1>1. ASSUME ClientInvariant PROVE CallsAreSettledByTheirOwn
  <2>1. ClientTyped /\ OneSidecar /\ PendingIsCurrent /\ OwnLines /\ CallsJoin
    BY <1>1 DEF ClientInvariant
  <2>2. ASSUME NEW c \in Caller, caller[c].id # 0
        PROVE  LET sent == sentAs[caller[c].id]
               IN  /\ sent.query = caller[c].query
                   /\ sent.how = "none" => caller[c].id \in pending /\ sent.sidecar = sidecar
                   /\ sent.how = "result" =>
                         sent.of = caller[c].query /\ sent.seen >= sent.since
                   /\ sent.how = "down" => sent.sidecar # sidecar
    <3>1. caller[c].id \in RequestId
      BY <2>1, <2>2, ClientAssumption DEF ClientTyped, CallRecord, RequestId
    <3> QED BY <2>1, <2>2, <3>1 DEF CallsJoin, PendingIsCurrent, OwnLines, Tells
  <2>3. ASSUME NEW i \in serving, NEW j \in serving, i # j, sentAs[i].query = sentAs[j].query
        PROVE  {i, j} \cap withdrawn # {}
    BY <2>1, <2>3 DEF CallsJoin
  <2>4. up \subseteq {sidecar} /\ (pending # {} => sidecar \in up \cup exits)
    <3>1. \A i \in pending : sentAs[i].sidecar # 0 /\ sentAs[i].sidecar = sidecar
      BY <2>1 DEF PendingIsCurrent, Sent, ClientTyped
    <3> QED BY <2>1, <3>1 DEF OneSidecar
  <2> QED BY <2>2, <2>3, <2>4 DEF CallsAreSettledByTheirOwn
<1> QED BY <1>1, ClientInvariantHolds, PTL

\* Every variable of the client keeps its type.
THEOREM ClientTypeCorrect == ClientSpec => []ClientTypeOK
<1>1. ASSUME ClientInvariant PROVE ClientTypeOK
  <2>1. ClientTyped /\ OneSidecar /\ PendingIsCurrent
    BY <1>1 DEF ClientInvariant
  <2>2. exits \subseteq Sidecar \ up
    BY <2>1 DEF OneSidecar, ClientTyped
  <2>3. pending \subseteq 1 .. sends /\ serving \subseteq 1 .. sends
    <3>1. \A i \in pending \cup serving : i \in RequestId /\ Sent(i)
      BY <2>1 DEF PendingIsCurrent, Sent, ClientTyped, Sidecar
    <3> QED BY <2>1, <3>1, ClientAssumption DEF PendingIsCurrent, ClientTyped, RequestId
  <2> QED BY <2>1, <2>2, <2>3 DEF ClientTypeOK, ClientTyped
<1> QED BY <1>1, ClientInvariantHolds, PTL

=============================================================================
