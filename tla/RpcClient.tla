------------------------------- MODULE RpcClient -------------------------------
(***************************************************************************)
(* The interface's client of the RPC server (tui-js/src/rpc/client.ts):    *)
(* calls that join a request that is under way, the requests with their    *)
(* timers, and the server's process (the sidecar), which is started again  *)
(* when it ends or can no longer be read.                                  *)
(*                                                                         *)
(* The client is one thread; its callbacks run one at a time, in any       *)
(* order: a late line or exit of a sidecar that was given up may come when *)
(* the next one is at work.  The server is what a client sees of it: it    *)
(* answers what it was asked, or ends.  Restarts are delayed by some time. *)
(***************************************************************************)
EXTENDS Naturals, FiniteSets

CONSTANTS
    Caller,          \* parts of the interface that await an answer
    Query,           \* a method with its parameters (the key of inFlight)
    MaxClientCalls,  \* bound: calls
    MaxSidecars,     \* bound: sidecars that are started
    MaxViews,        \* bound: changes of what the reads show
    MaxClientTrouble \* bound: timeouts, sidecars that end or cannot be read

ASSUME ClientAssumption ==
    /\ MaxClientCalls \in Nat /\ MaxSidecars \in Nat \ {0} /\ MaxViews \in Nat
    /\ MaxClientTrouble \in Nat

RequestId == 1 .. MaxClientCalls
Sidecar == 1 .. MaxSidecars

VARIABLES
    sidecar,   \* the sidecar the client talks to, 0 for none
    sidecars,  \* how many were started
    up,        \* sidecars whose process runs
    exits,     \* sidecars whose exit the client has still to hear of
    restart,   \* the restart timer runs
    closed,
    sends,     \* how often send was called, the last ID
    pending,   \* requests that wait for an answer or their timer
    joined,    \* per query: the request that its calls join, 0 for none (inFlight)
    sentAs,    \* per request: what it is and how it ended
    serving,   \* requests a sidecar has and has not answered
    withdrawn, \* those it was told to abandon
    lines,     \* responses that were written and not yet read
    caller,    \* per caller: the query and the request of its last call
    view,      \* the state of what the reads show
    clientCalls, clientTrouble

process == <<sidecar, sidecars, up, exits, restart, closed>>
clientBounds == <<view, clientCalls, clientTrouble>>
rpcClientVars == <<process, sends, pending, joined, sentAs, serving, withdrawn, lines, caller, clientBounds>>

\* A request of a query, sent to a sidecar in a state of the view (since); how it
\* ended, and what the response was of and had seen.
NewRequest(q, s, since) ==
    [query |-> q, sidecar |-> s, since |-> since, how |-> "none", of |-> "none", seen |-> 0]
NoQuery == NewRequest("none", 0, 0)
NoCall == [query |-> "none", id |-> 0]

ClientInit ==
    /\ sidecar = 1 /\ sidecars = 1 /\ up = {1} /\ exits = {}
    /\ restart = FALSE /\ closed = FALSE
    /\ sends = 0 /\ pending = {}
    /\ joined = [q \in Query |-> 0]
    /\ sentAs = [i \in RequestId |-> NoQuery]
    /\ serving = {} /\ withdrawn = {} /\ lines = {}
    /\ caller = [c \in Caller |-> NoCall]
    /\ view = 0 /\ clientCalls = 0 /\ clientTrouble = 0

ClientTrouble == clientTrouble < MaxClientTrouble /\ clientTrouble' = clientTrouble + 1

\* Requests end, and with each of them every call that awaits it.
Settle(ids, how, of, seen) ==
    /\ pending' = pending \ ids
    /\ sentAs' = [i \in RequestId |->
                  IF i \in ids THEN [sentAs[i] EXCEPT !.how = how, !.of = of, !.seen = seen]
                  ELSE sentAs[i]]

\* A process that ends can be heard to, and what it was asked is gone.
ProcessesEnd ==
    /\ exits' = exits \cup (up \ up')
    /\ serving' = {i \in serving : sentAs[i].sidecar \in up'}

-----------------------------------------------------------------------------
\* call: an identical call that is under way is joined, else a request is sent,
\* which fails at once when there is no sidecar, and perhaps when it has ended.
PlacesCall(c, q, id) ==
    /\ caller[c].id \notin pending /\ clientCalls < MaxClientCalls
    /\ clientCalls' = clientCalls + 1
    /\ caller' = [caller EXCEPT ![c] = [query |-> q, id |-> id]]
    /\ UNCHANGED <<process, withdrawn, lines, view, clientTrouble>>

\* A request that has ended is still in the map for the handlers of the lines
\* that were read together with its response.
JoinCall(c, q) ==
    /\ joined[q] # 0
    /\ PlacesCall(c, q, joined[q])
    /\ UNCHANGED <<sends, pending, joined, sentAs, serving>>

NewCall(c, q) ==
    /\ joined[q] = 0
    /\ \/ /\ sidecar # 0
          /\ sends' = sends + 1
          /\ sentAs' = [sentAs EXCEPT ![sends'] = NewRequest(q, sidecar, view)]
          /\ pending' = pending \cup {sends'}
          /\ serving' = IF sidecar \in up THEN serving \cup {sends'} ELSE serving
          /\ joined' = [joined EXCEPT ![q] = sends']
          /\ PlacesCall(c, q, sends')
       \/ /\ sidecar \notin up
          /\ sends' = IF sidecar = 0 THEN sends ELSE sends + 1
          /\ PlacesCall(c, q, 0)
          /\ UNCHANGED <<joined, sentAs, pending, serving>>

\* The end of a settled promise takes its key out of the map.
ForgetJoined(q) ==
    /\ joined[q] # 0 /\ joined[q] \notin pending
    /\ joined' = [joined EXCEPT ![q] = 0]
    /\ UNCHANGED <<process, sends, sentAs, pending, serving, withdrawn, lines, caller, clientBounds>>

-----------------------------------------------------------------------------
\* A response; for a request that is no longer pending it is dropped.
handleLine(line) ==
    /\ line \in lines
    /\ lines' = lines \ {line}
    /\ IF line.id \in pending
       THEN Settle({line.id}, line.how, line.query, line.seen)
       ELSE UNCHANGED <<pending, sentAs>>
    /\ UNCHANGED <<process, sends, joined, serving, withdrawn, caller, clientBounds>>

RequestTimesOut(id) ==
    /\ id \in pending /\ ClientTrouble
    /\ withdrawn' = IF id \in serving THEN withdrawn \cup {id} ELSE withdrawn
    /\ Settle({id}, "timeout", "none", 0)
    /\ UNCHANGED <<process, sends, joined, serving, lines, caller, view, clientCalls>>

\* Faulty onTransportDown: the news may be of a sidecar that was given up before.
onAnyTransportDown(s) ==
    IF closed THEN UNCHANGED <<sidecar, up, restart, pending, sentAs>>
    ELSE /\ Settle(pending, "down", "none", 0)
         /\ sidecar' = 0 /\ up' = up \ {s} /\ restart' = TRUE

\* Every pending request is rejected, the sidecar killed, the timer set.
onTransportDown(s) ==
    IF closed \/ sidecar # s THEN UNCHANGED <<sidecar, up, restart, pending, sentAs>>
    ELSE /\ Settle(pending, "down", "none", 0)
         /\ sidecar' = 0 /\ up' = up \ {s} /\ restart' = TRUE

\* The output of a sidecar cannot be read any more, or its end is heard of.
ReadLoopBreaks(s) ==
    /\ s \in up \cup exits /\ ClientTrouble
    /\ onTransportDown(s) /\ ProcessesEnd
    /\ UNCHANGED <<sidecars, closed, sends, joined, withdrawn, lines, caller, view, clientCalls>>

ExitHeard(s) ==
    /\ s \in exits
    /\ onTransportDown(s)
    /\ exits' = exits \ {s}
    /\ UNCHANGED <<sidecars, closed, sends, joined, serving, withdrawn, lines, caller, clientBounds>>

spawn ==
    /\ restart /\ sidecars < MaxSidecars
    /\ restart' = FALSE
    /\ sidecars' = sidecars + 1 /\ sidecar' = sidecars' /\ up' = up \cup {sidecars'}
    /\ UNCHANGED <<exits, closed, sends, pending, joined, sentAs, serving, withdrawn, lines, caller,
                   clientBounds>>

\* What is pending is withdrawn and rejected, the sidecar killed.
close ==
    /\ ~closed
    /\ closed' = TRUE /\ restart' = FALSE
    /\ Settle(pending, "closed", "none", 0)
    /\ sidecar' = 0 /\ up' = up \ {sidecar} /\ ProcessesEnd
    /\ UNCHANGED <<sidecars, sends, joined, withdrawn, lines, caller, clientBounds>>

-----------------------------------------------------------------------------
\* The server: a result of what it sees now, or an error, which is all a request
\* that was withdrawn is sure to get; or it ends.  What it wrote can still be read.
SidecarAnswers(id) ==
    /\ id \in serving
    /\ serving' = serving \ {id} /\ withdrawn' = withdrawn \ {id}
    /\ \E how \in {"result", "error"} :
          lines' = lines \cup {[id |-> id, how |-> how, query |-> sentAs[id].query, seen |-> view]}
    /\ UNCHANGED <<process, sends, pending, joined, sentAs, caller, clientBounds>>

SidecarEnds(s) ==
    /\ s \in up /\ ClientTrouble
    /\ up' = up \ {s} /\ ProcessesEnd
    /\ UNCHANGED <<sidecar, sidecars, restart, closed, sends, pending, joined, sentAs, withdrawn,
                   lines, caller, view, clientCalls>>

ViewChanges ==
    /\ view < MaxViews
    /\ view' = view + 1
    /\ UNCHANGED <<process, sends, pending, joined, sentAs, serving, withdrawn, lines, caller,
                   clientCalls, clientTrouble>>

ClientNext ==
    \/ \E c \in Caller, q \in Query : JoinCall(c, q) \/ NewCall(c, q)
    \/ \E q \in Query : ForgetJoined(q)
    \/ \E line \in lines : handleLine(line)
    \/ \E id \in RequestId : RequestTimesOut(id) \/ SidecarAnswers(id)
    \/ \E s \in Sidecar : ReadLoopBreaks(s) \/ ExitHeard(s) \/ SidecarEnds(s)
    \/ spawn \/ close \/ ViewChanges

ClientSpec == ClientInit /\ [][ClientNext]_rpcClientVars

-----------------------------------------------------------------------------
\* Every variable of the client has its type.
ClientTypeOK ==
    /\ sidecar \in 0 .. sidecars /\ sidecars \in Sidecar
    /\ up \subseteq Sidecar /\ exits \subseteq Sidecar \ up
    /\ restart \in BOOLEAN /\ closed \in BOOLEAN
    /\ sends \in 0 .. MaxClientCalls
    /\ pending \subseteq 1 .. sends /\ serving \subseteq 1 .. sends /\ withdrawn \subseteq RequestId
    /\ joined \in [Query -> 0 .. sends]
    /\ clientCalls \in 0 .. MaxClientCalls /\ clientTrouble \in 0 .. MaxClientTrouble

\* No call waits for a request that nothing will settle any more; what it gets is
\* the answer to its own query, read after its request was sent; it fails for a
\* sidecar only when that one was given up; each read is at work once in the
\* sidecar, but for one that was withdrawn; and no sidecar is left behind.
CallsAreSettledByTheirOwn ==
    /\ \A c \in Caller :
          LET request == sentAs[caller[c].id]
          IN  caller[c].id # 0 =>
                 /\ request.query = caller[c].query
                 /\ request.how = "none" =>
                       caller[c].id \in pending /\ request.sidecar = sidecar
                 /\ request.how = "result" =>
                       request.of = caller[c].query /\ request.seen >= request.since
                 /\ request.how = "down" => request.sidecar # sidecar
    /\ \A i, j \in serving : i # j /\ sentAs[i].query = sentAs[j].query => {i, j} \cap withdrawn # {}
    /\ up \subseteq {sidecar}
    /\ pending # {} => sidecar \in up \cup exits
=============================================================================
