------------------------------ MODULE ServerEvents -----------------------------
(***************************************************************************)
(* What the server tells its client without being asked (rpcserver's       *)
(* watcher): the session statuses that agents' hooks write into the events *)
(* directory, and the requests of slis focus in the state directory.       *)
(*                                                                         *)
(* Hooks and focus commands are processes of their own.  A hook reads the  *)
(* status that was, truncates the file, writes it and shows a banner when  *)
(* the status has changed.  The watcher reads everything again after each  *)
(* event of the file system; the client's badges are what it was last told.*)
(***************************************************************************)
EXTENDS Integers, FiniteSets

CONSTANTS
    Badge,       \* slices that have a session
    FileName,    \* the name of a slice's status file, its own with "-" for "/"
    Hook,        \* processes of hooks
    Focuser,     \* slis focus commands, each with the id of its request
    NoFocus,     \* no request, and no slice
    MaxEvents,   \* bound: hooks, removals, status calls and focus commands
    MaxMishaps   \* bound: kills and server restarts

ASSUME EventsAssumption ==
    /\ MaxEvents \in Nat /\ MaxMishaps \in Nat /\ NoFocus \notin Focuser \cup Badge
    /\ DOMAIN FileName = Badge

Status == {"running", "waiting-input", "done"}
Alertable == {"waiting-input", "done"}
\* A file has the record that was written last; or it is gone, empty or torn.
Record(slice, status) == [slice |-> slice, status |-> status]
NoRecord(is) == Record(NoFocus, is)
Blank == {NoRecord("gone"), NoRecord("empty")}
statusFileName == {FileName[s] : s \in Badge}
Alike(s) == {t \in Badge : FileName[t] = FileName[s]}
parseStatus(file) == IF file.status \in Status THEN file.status ELSE "none"
Unread == [s \in Badge |-> "unread"]

VARIABLES
    statusFile,   \* per file name: its record
    hook,         \* per hook: [at, slice, status, previous, linked]
    fsEvents,     \* the watcher has an event that it has not taken
    watcher,      \* the watcher's goroutine: where it is and what it reads
    prev,         \* the watcher's last snapshot
    badge,        \* what the client shows
    statusAnswer,       \* per slice: the status that an answer under way has read
    focusRequest, focusAck, \* the two files
    stale,        \* requests that are older than five seconds
    focuser,      \* per focus command: "idle", "waiting", "focused" or "fell back"
    lastFocusID,  \* the request the watcher has seen last
    asked,        \* requests the client was asked to show
    events, mishaps
VARIABLES
    actual,       \* per slice: the status that was last written in full
    due,          \* changes without their banner, less banners without a change
    mixed,        \* slices with hooks at once, a killed hook, a removal meanwhile, or whose
                  \* file was another slice's
    overtaken,    \* slices of which an answer has told the client what the watcher had not seen
    emitted,      \* how often each request was sent to the client
    shown         \* requests whose tab the client has opened

statusVars == <<statusFile, hook, actual, due, mixed>>
focusVars == <<focusRequest, focusAck, stale, focuser, shown>>
watchVars == <<watcher, prev, lastFocusID, emitted>>
clientVars == <<badge, statusAnswer, asked, overtaken>>
eventVars == <<statusVars, fsEvents, watchVars, clientVars, focusVars, events, mishaps>>

IdleHook == [at |-> "idle", slice |-> NoFocus, status |-> "none", previous |-> "none",
             linked |-> FALSE]
Starting == [at |-> "snapshot", cur |-> Unread]

EventsInit ==
    /\ statusFile = [f \in statusFileName |-> NoRecord("gone")] /\ actual = [s \in Badge |-> "none"]
    /\ hook = [h \in Hook |-> IdleHook]
    /\ due = [s \in Badge |-> 0] /\ mixed = {}
    /\ fsEvents = FALSE /\ watcher = Starting /\ prev = [s \in Badge |-> "none"]
    /\ badge = [s \in Badge |-> "none"] /\ statusAnswer = Unread /\ overtaken = {}
    /\ focusRequest = NoFocus /\ focusAck = NoFocus /\ stale = {}
    /\ focuser = [f \in Focuser |-> "idle"]
    /\ lastFocusID = NoFocus /\ asked = {} /\ shown = {}
    /\ emitted = [f \in Focuser |-> 0]
    /\ events = 0 /\ mishaps = 0

Counts == events < MaxEvents /\ events' = events + 1
Mishap == mishaps < MaxMishaps /\ mishaps' = mishaps + 1
HookAt(h, place) == hook[h].at = place
BusyWith(s) == {h \in Hook : hook[h].slice \in Alike(s)}
ReadStatus(s) == parseStatus(statusFile[FileName[s]])
\* The record must be the slice's own.
StatusIn(s) == IF statusFile[FileName[s]].slice = s THEN ReadStatus(s) ELSE "none"
\* What overlaps or shares a file is not compared with what it was.
Mixes(s) == mixed' = mixed \cup (Alike(s) \ {s}) \cup (IF BusyWith(s) = {} THEN {} ELSE {s})

-----------------------------------------------------------------------------
\* A hook whose working directory lies in a slice; others do nothing.
HandleHook(h, s, status) ==
    /\ HookAt(h, "idle") /\ Counts
    /\ hook' = [hook EXCEPT ![h] = [at |-> "truncate", slice |-> s, status |-> status,
                                    previous |-> ReadStatus(s), linked |-> FALSE]]
    /\ Mixes(s)
    /\ UNCHANGED <<statusFile, actual, due, fsEvents, watchVars, clientVars, focusVars, mishaps>>

\* os.WriteFile: the file is made or truncated, then written; the longer of two
\* texts that are written at once keeps its end, and what is written to a file that
\* was removed meanwhile is lost.
StatusTruncated(h) ==
    /\ HookAt(h, "truncate")
    /\ statusFile' = [statusFile EXCEPT ![FileName[hook[h].slice]] = NoRecord("empty")]
    /\ hook' = [hook EXCEPT ![h].at = "write", ![h].linked = TRUE]
    /\ fsEvents' = TRUE
    /\ UNCHANGED <<actual, due, mixed, watchVars, clientVars, focusVars, events, mishaps>>

WriteStatusRecord(h) ==
    /\ HookAt(h, "write")
    /\ LET s == hook[h].slice
           f == FileName[s]
           status == hook[h].status
       IN  /\ IF hook[h].linked
              THEN \E now \in {Record(s, status)}
                              \cup (IF statusFile[f] \in Blank THEN {} ELSE {NoRecord("torn")}) :
                      statusFile' = [statusFile EXCEPT ![f] = now]
              ELSE UNCHANGED statusFile
           /\ due' = [due EXCEPT ![s] = IF status \in Alertable /\ status # actual[s] THEN @ + 1 ELSE @]
           /\ actual' = [actual EXCEPT ![s] = status]
    /\ hook' = [hook EXCEPT ![h].at = "notify"]
    /\ fsEvents' = (fsEvents \/ hook[h].linked)
    /\ UNCHANGED <<mixed, watchVars, clientVars, focusVars, events, mishaps>>

\* Faulty fireNotification: a banner for every alertable status.
fireAlways(h) ==
    /\ HookAt(h, "notify")
    /\ LET s == hook[h].slice
       IN  due' = [due EXCEPT ![s] = IF hook[h].status \in Alertable THEN @ - 1 ELSE @]
    /\ hook' = [hook EXCEPT ![h] = IdleHook]
    /\ UNCHANGED <<statusFile, actual, mixed, fsEvents, watchVars, clientVars, focusVars, events, mishaps>>

\* A banner for a status that differs from the one that was read.
fireNotification(h) ==
    /\ HookAt(h, "notify")
    /\ LET s == hook[h].slice
           fires == hook[h].status \in Alertable /\ hook[h].status # hook[h].previous
       IN  due' = [due EXCEPT ![s] = IF fires THEN @ - 1 ELSE @]
    /\ hook' = [hook EXCEPT ![h] = IdleHook]
    /\ UNCHANGED <<statusFile, actual, mixed, fsEvents, watchVars, clientVars, focusVars, events, mishaps>>

HookKilled(h) ==
    /\ ~HookAt(h, "idle") /\ Mishap
    /\ hook' = [hook EXCEPT ![h] = IdleHook]
    /\ mixed' = mixed \cup Alike(hook[h].slice)
    /\ UNCHANGED <<statusFile, actual, due, fsEvents, watchVars, clientVars, focusVars, events>>

\* slis rm takes the file of its slice away, whosever record it has.
RemoveStatus(s) ==
    /\ statusFile[FileName[s]] # NoRecord("gone") /\ Counts
    /\ statusFile' = [statusFile EXCEPT ![FileName[s]] = NoRecord("gone")]
    /\ hook' = [h \in Hook |->
          IF h \in BusyWith(s) THEN [hook[h] EXCEPT !.linked = FALSE] ELSE hook[h]]
    /\ actual' = [actual EXCEPT ![s] = "none"]
    /\ Mixes(s)
    /\ fsEvents' = TRUE
    /\ UNCHANGED <<due, watchVars, clientVars, focusVars, mishaps>>

-----------------------------------------------------------------------------
\* The watcher is set on both directories before its goroutine takes the first
\* snapshot; it reads file by file, for the slice that the record names.
ReadAllStatuses(s) ==
    /\ watcher.at \in {"snapshot", "read"} /\ watcher.cur[s] = "unread"
    /\ watcher' = [watcher EXCEPT !.cur = [t \in Badge |->
                      IF t \in Alike(s) THEN StatusIn(t) ELSE watcher.cur[t]]]
    /\ UNCHANGED <<statusVars, fsEvents, prev, lastFocusID, emitted, clientVars, focusVars,
                   events, mishaps>>

AllRead == \A s \in Badge : watcher.cur[s] # "unread"

startWatcher ==
    /\ watcher.at = "snapshot" /\ AllRead
    /\ prev' = watcher.cur
    /\ watcher' = [at |-> "select", cur |-> Unread]
    /\ overtaken' = {s \in Badge : watcher.cur[s] # badge[s]}
    /\ UNCHANGED <<statusVars, fsEvents, lastFocusID, emitted, badge, statusAnswer, asked, focusVars,
                   events, mishaps>>

\* Events that arrive from here on are another turn of the loop.
WatcherWakes ==
    /\ watcher.at = "select" /\ fsEvents
    /\ fsEvents' = FALSE
    /\ watcher' = [watcher EXCEPT !.at = "read"]
    /\ UNCHANGED <<statusVars, prev, lastFocusID, emitted, clientVars, focusVars, events, mishaps>>

\* Faulty emitChangedStatuses: a slice without a status is passed over.
emitRecordedStatuses ==
    /\ watcher.at = "read" /\ AllRead
    /\ badge' = [s \in Badge |-> IF watcher.cur[s] \in {prev[s], "none"} THEN badge[s] ELSE watcher.cur[s]]
    /\ overtaken' = overtaken \ {s \in Badge : watcher.cur[s] # prev[s]}
    /\ prev' = watcher.cur
    /\ watcher' = [at |-> "focus", cur |-> Unread]
    /\ UNCHANGED <<statusVars, fsEvents, lastFocusID, emitted, statusAnswer, asked, focusVars, events, mishaps>>

\* The client is told of each slice whose status differs from the last snapshot.
emitChangedStatuses ==
    /\ watcher.at = "read" /\ AllRead
    /\ badge' = [s \in Badge |-> IF watcher.cur[s] = prev[s] THEN badge[s] ELSE watcher.cur[s]]
    /\ overtaken' = overtaken \ {s \in Badge : watcher.cur[s] # prev[s]}
    /\ prev' = watcher.cur
    /\ watcher' = [at |-> "focus", cur |-> Unread]
    /\ UNCHANGED <<statusVars, fsEvents, lastFocusID, emitted, statusAnswer, asked, focusVars, events, mishaps>>

\* A request is passed on once, and never when it is old.
emitFocusRequest ==
    /\ watcher.at = "focus"
    /\ watcher' = [watcher EXCEPT !.at = "select"]
    /\ IF focusRequest \in {NoFocus, lastFocusID} THEN UNCHANGED <<asked, emitted, lastFocusID>>
       ELSE /\ lastFocusID' = focusRequest
            /\ IF focusRequest \in stale THEN UNCHANGED <<asked, emitted>>
               ELSE /\ asked' = asked \cup {focusRequest}
                    /\ emitted' = [emitted EXCEPT ![focusRequest] = @ + 1]
    /\ UNCHANGED <<statusVars, fsEvents, prev, badge, statusAnswer, overtaken, focusVars, events, mishaps>>

\* The client loses the server and starts another, which it asks for everything.
ServerRestarts ==
    /\ Mishap
    /\ watcher' = Starting /\ fsEvents' = FALSE
    /\ prev' = [s \in Badge |-> "none"] /\ lastFocusID' = NoFocus
    /\ statusAnswer' = Unread /\ asked' = {}
    /\ UNCHANGED <<statusVars, badge, overtaken, emitted, focusVars, events>>

-----------------------------------------------------------------------------
\* The status request: the files are read, and the answer is written when all of
\* its slices have been, beside the watcher's messages.  Whose record it is that is
\* in the file is not asked.  A slice without a status is running when it has a
\* session.
SliceStatusDTO(s) ==
    /\ statusAnswer[s] = "unread" /\ Counts
    /\ \E status \in {ReadStatus(s)} \cup (IF ReadStatus(s) = "none" THEN {"running"} ELSE {}) :
          statusAnswer' = [statusAnswer EXCEPT ![s] = status]
    /\ UNCHANGED <<statusVars, fsEvents, watchVars, badge, asked, overtaken, focusVars, mishaps>>

StatusAnswered(s) ==
    /\ statusAnswer[s] # "unread"
    /\ badge' = [badge EXCEPT ![s] = statusAnswer[s]]
    /\ statusAnswer' = [statusAnswer EXCEPT ![s] = "unread"]
    /\ overtaken' = IF statusAnswer[s] = prev[s] \/ (statusAnswer[s] = "running" /\ prev[s] = "none")
                    THEN overtaken \ {s} ELSE overtaken \cup {s}
    /\ UNCHANGED <<statusVars, fsEvents, watchVars, asked, focusVars, events, mishaps>>

-----------------------------------------------------------------------------
\* slis focus: the request replaces another's; so does the acknowledgement.
RequestFrontendFocus(f) ==
    /\ focuser[f] = "idle" /\ Counts
    /\ focuser' = [focuser EXCEPT ![f] = "waiting"]
    /\ focusRequest' = f /\ fsEvents' = TRUE
    /\ UNCHANGED <<statusVars, watchVars, clientVars, focusAck, stale, shown, mishaps>>

\* Faulty Acknowledged: any acknowledgement will do.
AnyAck(f) ==
    /\ focuser[f] = "waiting" /\ focusAck # NoFocus
    /\ focuser' = [focuser EXCEPT ![f] = "focused"]
    /\ UNCHANGED <<statusVars, fsEvents, watchVars, clientVars, focusRequest, focusAck, stale, shown,
                   events, mishaps>>

Acknowledged(f) ==
    /\ focuser[f] = "waiting" /\ focusAck = f
    /\ focuser' = [focuser EXCEPT ![f] = "focused"]
    /\ UNCHANGED <<statusVars, fsEvents, watchVars, clientVars, focusRequest, focusAck, stale, shown,
                   events, mishaps>>

\* After 750 ms a terminal is opened, or the command that attaches to it printed.
FallsBack(f) ==
    /\ focuser[f] = "waiting"
    /\ focuser' = [focuser EXCEPT ![f] = "fell back"]
    /\ UNCHANGED <<statusVars, fsEvents, watchVars, clientVars, focusRequest, focusAck, stale, shown,
                   events, mishaps>>

FocusExpires(f) ==
    /\ focuser[f] \in {"focused", "fell back"} /\ f \notin stale
    /\ stale' = stale \cup {f}
    /\ UNCHANGED <<statusVars, fsEvents, watchVars, clientVars, focusRequest, focusAck, focuser, shown,
                   events, mishaps>>

\* The client opens the tab and acknowledges, or has no such slice.
onFocusRequest(f) ==
    /\ f \in asked
    /\ asked' = asked \ {f}
    /\ \/ shown' = shown \cup {f} /\ focusAck' = f /\ fsEvents' = TRUE
       \/ UNCHANGED <<shown, focusAck, fsEvents>>
    /\ UNCHANGED <<statusVars, watchVars, badge, statusAnswer, overtaken, focusRequest, stale, focuser,
                   events, mishaps>>

EventsNext ==
    \/ \E h \in Hook :
          \/ \E s \in Badge, status \in Status : HandleHook(h, s, status)
          \/ StatusTruncated(h) \/ WriteStatusRecord(h) \/ fireNotification(h) \/ HookKilled(h)
    \/ \E s \in Badge :
          RemoveStatus(s) \/ ReadAllStatuses(s) \/ SliceStatusDTO(s) \/ StatusAnswered(s)
    \/ startWatcher \/ WatcherWakes \/ emitChangedStatuses \/ emitFocusRequest
    \/ ServerRestarts
    \/ \E f \in Focuser :
          \/ RequestFrontendFocus(f) \/ Acknowledged(f) \/ FallsBack(f) \/ FocusExpires(f)
          \/ onFocusRequest(f)

EventsSpec == EventsInit /\ [][EventsNext]_eventVars

-----------------------------------------------------------------------------
\* Every variable of the events has its type.
EventsTypeOK ==
    /\ statusFile \in [statusFileName -> [slice : Badge \cup {NoFocus},
                                          status : Status \cup {"gone", "empty", "torn"}]]
    /\ badge \in [Badge -> Status \cup {"none"}]
    /\ prev \in [Badge -> Status \cup {"none"}]
    /\ watcher.at \in {"snapshot", "select", "read", "focus"}
    /\ focusRequest \in Focuser \cup {NoFocus} /\ focusAck \in Focuser \cup {NoFocus}
    /\ focuser \in [Focuser -> {"idle", "waiting", "focused", "fell back"}]
    /\ events \in 0 .. MaxEvents /\ mishaps \in 0 .. MaxMishaps

\* When the watcher has seen all events, the client shows of each slice what the
\* record in its file says; but for one of which the client was last told by a
\* status answer that was not what the watcher had seen last - an older one, one of
\* a status that came and went, one read from the record of a slice whose name makes
\* the same file name - or that changed before the watcher's first snapshot.
BadgesAgreeAtRest ==
    watcher.at = "select" /\ ~fsEvents =>
        \A s \in Badge : s \in overtaken \/ badge[s] = StatusIn(s)
                         \/ (badge[s] = "running" /\ StatusIn(s) = "none")

\* Every change to a status that wants attention has one banner and no other
\* status has one; but when hooks on one file overlapped, one was killed, it was
\* removed meanwhile, or another slice had the same file since.
BannersMatchChanges ==
    \A s \in Badge : s \notin mixed /\ BusyWith(s) = {} => due[s] = 0

\* A focus command reports success only when the client has opened its own tab,
\* and the client is asked once for it, unless the server was restarted.
FocusIsShownOnce ==
    \A f \in Focuser : /\ focuser[f] = "focused" => f \in shown
                       /\ emitted[f] <= 1 + mishaps
=============================================================================
