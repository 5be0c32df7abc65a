------------------------------- MODULE RpcServer -------------------------------
(***************************************************************************)
(* The read-only JSON-RPC sidecar (internal/rpcserver): one reader that    *)
(* takes lines in wire order, a goroutine per request, the registrations   *)
(* that cancellation goes by, the gate in front of the reads that spawn    *)
(* processes, the cache of diffs with the diff it holds built repository   *)
(* by repository (internal/report, internal/diff), and the shutdown.       *)
(*                                                                         *)
(* A blank line changes nothing and a line that does not parse only has an *)
(* error written.  Whether parameters are good and things exist is decided *)
(* at each check: they change while a request is handled.  The kinds of    *)
(* error are not told apart.                                               *)
(***************************************************************************)
EXTENDS Naturals, Sequences, FiniteSets

CONSTANTS
    Id,           \* the IDs clients choose, and may use again
    Method,       \* the methods clients call
    MaxRequests,  \* bound: requests and notifications read
    Gate,         \* the slots of the gate (gateConcurrency)
    Members,      \* how many repositories the slice has
    MaxTrees,     \* bound: changes of what a diff shows
    FingerprintAt, \* the fingerprint the worktrees have after each of these changes
    NoId          \* the ID of a notification

ASSUME RpcAssumption ==
    /\ NoId \notin Id
    /\ MaxRequests \in Nat /\ Gate \in Nat \ {0} /\ Members \in Nat \ {0} /\ MaxTrees \in Nat
    /\ DOMAIN FingerprintAt = 0 .. MaxTrees

Request == 1 .. MaxRequests

\* What a method checks and reads, in order.
Handlers ==
    [hello      |-> <<>>,
     focusAck   |-> <<"params", "read">>,
     comments   |-> <<"params", "read">>,
     reviews    |-> <<"params", "read">>,
     reviewRuns |-> <<"params", "read">>,
     ls         |-> <<"read">>,
     conflicts  |-> <<"read">>,
     show       |-> <<"params", "read", "slice">>,
     status     |-> <<"params", "read">>,
     capture    |-> <<"params", "read">>,
     procs      |-> <<"params", "read">>,
     prStack    |-> <<"params", "slice", "read">>,
     ciLog      |-> <<"params", "slice", "member", "read">>,
     branchDiff |-> <<"params", "slice", "member", "primary", "branch", "read">>,
     tree       |-> <<"params", "slice", "member", "primary", "branch", "read">>,
     file       |-> <<"params", "slice", "member", "primary", "branch", "read">>,
     diff       |-> <<"params", "slice", "fingerprint", "lookup", "build">>]

Ungated == {"hello", "focusAck", "comments", "reviews", "reviewRuns"}

-----------------------------------------------------------------------------
VARIABLES
    serve,      \* where Serve is
    ctxDone,    \* the server's context is cancelled by a signal
    collected,  \* the registrations that shutdown has still to cancel
    requests,   \* how many requests and notifications were read
    request,    \* per request: its ID, method and where its handler is
    inFlight,   \* per ID: the request registered under it, or 0
    cancelled,  \* requests whose own context is cancelled
    slots,      \* slots of the gate that are taken
    worktrees,  \* the state of the worktrees that diffs show
    diffCache,  \* the diff of the one slice, scope and format, or empty
    answer      \* per request: the response that was written

rpcVars == <<serve, ctxDone, collected, requests, request, inFlight, cancelled,
             slots, worktrees, diffCache, answer>>

\* What a handler has to say: a result, complete or not, nothing of which was read
\* before the worktrees' change number tree, for a request that had begun at the
\* change begun; or an error.
Outcome(what, whole, tree) ==
    [what |-> what, whole |-> whole, tree |-> tree, begun |-> tree]
NoOutcome == Outcome("none", TRUE, 0)
Cancelled == Outcome("cancelled", TRUE, 0)
Failed == Outcome("error", TRUE, 0)

NoRequest == [id |-> NoId, method |-> "hello", at |-> "unread", todo |-> <<>>, seen |-> 0,
              left |-> 0, got |-> NoOutcome, since |-> 0]

RpcInit ==
    /\ serve = "reading" /\ ctxDone = FALSE /\ collected = {}
    /\ requests = 0
    /\ request = [i \in Request |-> NoRequest]
    /\ inFlight = [id \in Id |-> 0]
    /\ cancelled = {}
    /\ slots = 0
    /\ worktrees = 0
    /\ diffCache = [valid |-> FALSE, fingerprint |-> FingerprintAt[0], result |-> NoOutcome]
    /\ answer = [i \in Request |-> NoOutcome]

HandlerAt(i, place) == request[i].at = place
isNotification(i) == request[i].id = NoId
ContextDone(i) == ctxDone \/ i \in cancelled

-----------------------------------------------------------------------------
\* The reader.  Registration and cancellation happen here, in wire order.

trackInFlight(id, i) == inFlight' = [inFlight EXCEPT ![id] = i]

ReadRequest(id, method) ==
    /\ serve = "reading" /\ requests < MaxRequests
    /\ LET i == requests + 1
       IN  /\ requests' = i
           /\ request' = [request EXCEPT ![i] =
                 [NoRequest EXCEPT !.id = id, !.method = method, !.at = "dispatch",
                                   !.since = IF method = "diff" THEN worktrees ELSE 0]]
           /\ IF id = NoId THEN UNCHANGED inFlight ELSE trackInFlight(id, i)
    /\ UNCHANGED <<serve, ctxDone, collected, cancelled, slots, worktrees, diffCache, answer>>

cancelRequest(id) ==
    /\ serve = "reading" /\ inFlight[id] # 0
    /\ cancelled' = cancelled \cup {inFlight[id]}
    /\ UNCHANGED <<serve, ctxDone, collected, requests, request, inFlight, slots, worktrees,
                   diffCache, answer>>

\* The input ends; or a signal came, which the reader may notice only after
\* further lines.
StopReading ==
    /\ serve = "reading"
    /\ serve' = "collect"
    /\ UNCHANGED <<ctxDone, collected, requests, request, inFlight, cancelled, slots,
                   worktrees, diffCache, answer>>

SignalArrives ==
    /\ ~ctxDone /\ serve # "returned"
    /\ ctxDone' = TRUE
    /\ UNCHANGED <<serve, collected, requests, request, inFlight, cancelled, slots,
                   worktrees, diffCache, answer>>

\* cancelAllInFlight: the registrations are collected under the lock and their
\* contexts cancelled one by one after it.
CollectInFlight ==
    /\ serve = "collect"
    /\ collected' = {inFlight[id] : id \in Id} \ {0}
    /\ serve' = "cancel"
    /\ UNCHANGED <<ctxDone, requests, request, inFlight, cancelled, slots, worktrees,
                   diffCache, answer>>

CancelCollected ==
    /\ serve = "cancel"
    /\ \/ \E i \in collected :
             /\ collected' = collected \ {i}
             /\ cancelled' = cancelled \cup {i}
             /\ UNCHANGED serve
       \/ collected = {} /\ serve' = "wait" /\ UNCHANGED <<collected, cancelled>>
    /\ UNCHANGED <<ctxDone, requests, request, inFlight, slots, worktrees, diffCache, answer>>

ServeReturns ==
    /\ serve = "wait"
    /\ \A i \in 1 .. requests : HandlerAt(i, "ended")
    /\ serve' = "returned"
    /\ UNCHANGED <<ctxDone, collected, requests, request, inFlight, cancelled, slots,
                   worktrees, diffCache, answer>>

-----------------------------------------------------------------------------
\* A handler: dispatch, the gate, the method, the response.

MoveHandler(i, place) == request' = [request EXCEPT ![i].at = place]
Written(i, place) == request' = [request EXCEPT ![i].at = place, ![i].got = NoOutcome]
Conclude(i, place, outcome) ==
    request' = [request EXCEPT ![i].at = place, ![i].todo = <<>>, ![i].seen = 0, ![i].got = outcome]

dispatch(i) ==
    /\ HandlerAt(i, "dispatch")
    /\ LET m == request[i].method
       IN  IF m \notin DOMAIN Handlers THEN Conclude(i, "write", Failed)
           ELSE IF m \in Ungated
           THEN request' = [request EXCEPT ![i].at = "work", ![i].todo = Handlers[m]]
           ELSE IF ContextDone(i) THEN Conclude(i, "write", Cancelled) ELSE MoveHandler(i, "gate")
    /\ UNCHANGED <<serve, ctxDone, collected, requests, inFlight, cancelled, slots,
                   worktrees, diffCache, answer>>

\* Faulty TakeSlot: nobody waits for a slot.
TakeAnySlot(i) ==
    /\ HandlerAt(i, "gate")
    /\ slots' = slots + 1
    /\ request' = [request EXCEPT ![i].at = "work", ![i].todo = Handlers[request[i].method]]
    /\ UNCHANGED <<serve, ctxDone, collected, requests, inFlight, cancelled, worktrees, diffCache,
                   answer>>

\* With a free slot and a cancelled context the wait may end either way.
TakeSlot(i) ==
    /\ HandlerAt(i, "gate") /\ slots < Gate
    /\ slots' = slots + 1
    /\ request' = [request EXCEPT ![i].at = "work", ![i].todo = Handlers[request[i].method]]
    /\ UNCHANGED <<serve, ctxDone, collected, requests, inFlight, cancelled, worktrees,
                   diffCache, answer>>

GiveUpWaiting(i) ==
    /\ HandlerAt(i, "gate") /\ ContextDone(i)
    /\ Conclude(i, "write", Cancelled)
    /\ UNCHANGED <<serve, ctxDone, collected, requests, inFlight, cancelled, slots,
                   worktrees, diffCache, answer>>

AfterMethod(i) == IF request[i].method \in Ungated THEN "write" ELSE "release"
NextCheck(i) == Head(request[i].todo)
Working(i, check) == HandlerAt(i, "work") /\ request[i].todo # <<>> /\ NextCheck(i) = check
Passed(i) == [request[i] EXCEPT !.todo = Tail(@)]

CheckFails(i) ==
    /\ HandlerAt(i, "work") /\ request[i].todo # <<>> /\ NextCheck(i) \notin {"lookup", "build"}
    /\ Conclude(i, AfterMethod(i), Failed)
    /\ UNCHANGED <<serve, ctxDone, collected, requests, inFlight, cancelled, slots,
                   worktrees, diffCache, answer>>

CheckPasses(i) ==
    /\ HandlerAt(i, "work") /\ request[i].todo # <<>>
    /\ NextCheck(i) \in {"params", "slice", "member", "primary", "branch"}
    /\ request' = [request EXCEPT ![i] = Passed(i)]
    /\ UNCHANGED <<serve, ctxDone, collected, requests, inFlight, cancelled, slots,
                   worktrees, diffCache, answer>>

\* A gated read whose processes are killed returns what it managed to collect.  Of
\* what it shows only diffs keep track.
Read(i) ==
    /\ Working(i, "read")
    /\ \E whole \in IF ContextDone(i) /\ request[i].method \notin Ungated THEN BOOLEAN ELSE {TRUE} :
          request' = [request EXCEPT ![i] =
                         [Passed(i) EXCEPT !.got = Outcome("result", whole, 0)]]
    /\ UNCHANGED <<serve, ctxDone, collected, requests, inFlight, cancelled, slots,
                   worktrees, diffCache, answer>>

MethodReturns(i) ==
    /\ HandlerAt(i, "work") /\ request[i].todo = <<>>
    /\ request' = [request EXCEPT ![i].at = AfterMethod(i),
                                  ![i].got = IF @ = NoOutcome THEN Outcome("result", TRUE, worktrees) ELSE @]
    /\ UNCHANGED <<serve, ctxDone, collected, requests, inFlight, cancelled, slots,
                   worktrees, diffCache, answer>>

-----------------------------------------------------------------------------
\* The diff method: a fingerprint of the worktrees, the cache, and the diff.  The
\* fingerprint is of each base's commit and of the contents of the files that differ
\* from the merge base: a rebase or a reset that keeps the files keeps it, an edit
\* that is undone brings it back.  It is taken as read at one time.

DiffFingerprint(i) ==
    /\ Working(i, "fingerprint")
    /\ request' = [request EXCEPT ![i] = [Passed(i) EXCEPT !.seen = worktrees]]
    /\ UNCHANGED <<serve, ctxDone, collected, requests, inFlight, cancelled, slots,
                   worktrees, diffCache, answer>>

DiffBegun(i) == [Outcome("result", TRUE, worktrees) EXCEPT !.begun = request[i].seen]

\* Faulty DiffLookup: whatever is cached is the answer.
DiffLookupUnchecked(i) ==
    /\ Working(i, "lookup")
    /\ IF diffCache.valid
       THEN Conclude(i, AfterMethod(i), diffCache.result)
       ELSE request' = [request EXCEPT ![i] =
               [Passed(i) EXCEPT !.left = Members, !.got = DiffBegun(i)]]
    /\ UNCHANGED <<serve, ctxDone, collected, requests, inFlight, cancelled, slots,
                   worktrees, diffCache, answer>>

DiffLookup(i) ==
    /\ Working(i, "lookup")
    /\ IF diffCache.valid /\ diffCache.fingerprint = FingerprintAt[request[i].seen]
       THEN Conclude(i, AfterMethod(i), diffCache.result)
       ELSE request' = [request EXCEPT ![i] =
               [Passed(i) EXCEPT !.left = Members, !.got = DiffBegun(i)]]
    /\ UNCHANGED <<serve, ctxDone, collected, requests, inFlight, cancelled, slots,
                   worktrees, diffCache, answer>>

\* One repository of the slice: git that fails for its numbers puts its error
\* in the repository's entry, git that fails for its text leaves that empty; the
\* diff goes on, and the whole is no error.
SliceDiffBases(i) ==
    /\ Working(i, "build") /\ request[i].left > 0
    /\ \E fails \in IF ContextDone(i) THEN BOOLEAN ELSE {FALSE} :
          request' = [request EXCEPT ![i].left = @ - 1,
                                     ![i].got.whole = @ /\ ~fails]
    /\ UNCHANGED <<serve, ctxDone, collected, requests, inFlight, cancelled, slots,
                   worktrees, diffCache, answer>>

DiffStore(i) ==
    /\ Working(i, "build") /\ request[i].left = 0
    /\ diffCache' = [valid |-> TRUE, fingerprint |-> FingerprintAt[request[i].seen],
                     result |-> request[i].got]
    /\ request' = [request EXCEPT ![i] = [Passed(i) EXCEPT !.seen = 0]]
    /\ UNCHANGED <<serve, ctxDone, collected, requests, inFlight, cancelled, slots,
                   worktrees, answer>>

-----------------------------------------------------------------------------
\* Faulty gatedReturns: what was read is returned in any case.
gatedReturnsAll(i) ==
    /\ HandlerAt(i, "release")
    /\ slots' = slots - 1
    /\ MoveHandler(i, "write")
    /\ UNCHANGED <<serve, ctxDone, collected, requests, inFlight, cancelled, worktrees,
                   diffCache, answer>>

\* The gate's own end: whatever was read under a cancelled context is dropped.
gatedReturns(i) ==
    /\ HandlerAt(i, "release")
    /\ slots' = slots - 1
    /\ request' = [request EXCEPT ![i].at = "write",
                                  ![i].got = IF ContextDone(i) THEN Cancelled ELSE @]
    /\ UNCHANGED <<serve, ctxDone, collected, requests, inFlight, cancelled, worktrees,
                   diffCache, answer>>

writeMessage(i) ==
    /\ HandlerAt(i, "write")
    /\ IF isNotification(i)
       THEN Written(i, "ended") /\ UNCHANGED answer
       ELSE /\ Written(i, "forget")
            /\ answer' = [answer EXCEPT ![i] = request[i].got]
    /\ UNCHANGED <<serve, ctxDone, collected, requests, inFlight, cancelled, slots,
                   worktrees, diffCache>>

\* Faulty forgetInFlight: whatever is registered under the ID is dropped.
forgetWhatever(i) ==
    /\ HandlerAt(i, "forget")
    /\ inFlight' = [inFlight EXCEPT ![request[i].id] = 0]
    /\ cancelled' = cancelled \cup {i}
    /\ MoveHandler(i, "ended")
    /\ UNCHANGED <<serve, ctxDone, collected, requests, slots, worktrees, diffCache, answer>>

\* Only the request's own registration is dropped and cancelled.
forgetInFlight(i) ==
    /\ HandlerAt(i, "forget")
    /\ LET id == request[i].id
           mine == inFlight[id] = i
       IN  IF mine
           THEN inFlight' = [inFlight EXCEPT ![id] = 0] /\ cancelled' = cancelled \cup {i}
           ELSE UNCHANGED <<inFlight, cancelled>>
    /\ MoveHandler(i, "ended")
    /\ UNCHANGED <<serve, ctxDone, collected, requests, slots, worktrees, diffCache, answer>>

WorktreesChange ==
    /\ worktrees < MaxTrees /\ serve = "reading"
    /\ worktrees' = worktrees + 1
    /\ UNCHANGED <<serve, ctxDone, collected, requests, request, inFlight, cancelled, slots,
                   diffCache, answer>>

-----------------------------------------------------------------------------
Handle(i) ==
    \/ dispatch(i) \/ TakeSlot(i) \/ GiveUpWaiting(i)
    \/ CheckFails(i) \/ CheckPasses(i) \/ Read(i) \/ MethodReturns(i)
    \/ DiffFingerprint(i) \/ DiffLookup(i) \/ SliceDiffBases(i) \/ DiffStore(i)
    \/ gatedReturns(i) \/ writeMessage(i) \/ forgetInFlight(i)

RpcNext ==
    \/ \E id \in Id \cup {NoId}, m \in Method : ReadRequest(id, m)
    \/ \E id \in Id : cancelRequest(id)
    \/ StopReading \/ SignalArrives \/ CollectInFlight \/ CancelCollected \/ ServeReturns
    \/ \E i \in Request : Handle(i)
    \/ WorktreesChange

RpcSpec == RpcInit /\ [][RpcNext]_rpcVars

-----------------------------------------------------------------------------
Holding(i) == request[i].method \notin Ungated /\ request[i].at \in {"work", "release"}

\* Every variable has its type, and the gate counts those that hold a slot.
RpcTypeOK ==
    /\ serve \in {"reading", "collect", "cancel", "wait", "returned"}
    /\ ctxDone \in BOOLEAN
    /\ collected \subseteq Request /\ cancelled \subseteq Request
    /\ requests \in 0 .. MaxRequests
    /\ DOMAIN request = Request
    /\ inFlight \in [Id -> 0 .. MaxRequests]
    /\ slots \in 0 .. Gate /\ slots = Cardinality({i \in Request : Holding(i)})
    /\ worktrees \in 0 .. MaxTrees

\* Under an ID stands the newest request that carries it until that one has
\* ended: the end of an older request with the same ID never takes it away, so
\* a cancel reaches the newest one, and nothing that ended stays registered.
RegistrationIsTheNewest ==
    \A id \in Id :
        LET bearers == {i \in 1 .. requests : request[i].id = id}
            newest == CHOOSE i \in bearers : \A j \in bearers : j <= i
        IN  inFlight[id] = IF bearers = {} \/ HandlerAt(newest, "ended") THEN 0 ELSE newest

\* A result that is not complete is never answered to the request whose read
\* was cut short: the only way out for one is the cache of diffs.
PartialOnlyFromDiffCache ==
    \A i \in Request :
        ~answer[i].whole =>
            /\ request[i].method = "diff"
            /\ diffCache.valid
            /\ \E j \in Request \ {i} : request[j].method = "diff" /\ ContextDone(j)

\* What is read for a diff is read after its fingerprint, and the worktrees had
\* that fingerprint again, or still, at some time since the request was read.
FoundAgain(since, outcome) ==
    /\ outcome.begun <= outcome.tree
    /\ \E v \in since .. worktrees : FingerprintAt[v] = FingerprintAt[outcome.begun]

\* A diff, cached or not, was built for a fingerprint that the worktrees have had
\* since the request it answers was read, and nothing in it is older than the time
\* that fingerprint was taken for it.  (It may all the same show another state of
\* the worktrees than any since that request: what the fingerprint leaves out may
\* have changed, and an edit made between fingerprint and diff may be undone.)
DiffFitsFingerprint ==
    \A i \in Request :
        request[i].method = "diff" /\ answer[i].what = "result" =>
            FoundAgain(request[i].since, answer[i])

\* What the code's test of cancelled requests says of every answer (see the
\* findings): no result that is not complete is answered.
AnswersAreWhole == \A i \in Request : answer[i].whole
=============================================================================
