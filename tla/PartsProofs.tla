------------------------------ MODULE PartsProofs ------------------------------
(***************************************************************************)
(* The promises of the interface and of the files it shares: the agent     *)
(* hooks, the server's watcher and the focus handshake (ServerEvents), the *)
(* store of the review comments (ReviewComments), the interface that swaps *)
(* slices and holds a live-sync process (LiveSwap), the terminals of a     *)
(* slice with their locks (SessionTabs), and the work that adopting a      *)
(* branch moves (AdoptBranch).                                             *)
(***************************************************************************)
EXTENDS ServerEvents, ReviewComments, LiveSwap, SessionTabs, AdoptBranch,
        FiniteSetTheorems, WellFoundedInduction, TLAPS

StatusOrNone == Status \cup {"none"}
HookRecord == [at : {"idle", "truncate", "write", "notify"}, slice : Badge \cup {NoFocus},
               status : StatusOrNone, previous : StatusOrNone, linked : BOOLEAN]
FileRecord == [slice : Badge \cup {NoFocus}, status : Status \cup {"gone", "empty", "torn"}]

\* The shape of every variable of the events.
EventsTyped ==
    /\ statusFile \in [statusFileName -> FileRecord]
    /\ hook \in [Hook -> HookRecord]
    /\ actual \in [Badge -> StatusOrNone] /\ due \in [Badge -> Int] /\ mixed \subseteq Badge
    /\ fsEvents \in BOOLEAN
    /\ watcher \in [at : {"snapshot", "select", "read", "focus"},
                    cur : [Badge -> StatusOrNone \cup {"unread"}]]
    /\ prev \in [Badge -> StatusOrNone] /\ badge \in [Badge -> StatusOrNone]
    /\ statusAnswer \in [Badge -> StatusOrNone \cup {"unread"}]
    /\ focusRequest \in Focuser \cup {NoFocus} /\ focusAck \in Focuser \cup {NoFocus}
    /\ focuser \in [Focuser -> {"idle", "waiting", "focused", "fell back"}]
    /\ asked \subseteq Focuser /\ emitted \in [Focuser -> Nat]
    /\ events \in 0 .. MaxEvents /\ mishaps \in 0 .. MaxMishaps

\* A hook is idle, or at work for a slice with a status.
HooksAtWork ==
    \A h \in Hook : IF hook[h].at = "idle" THEN hook[h].slice = NoFocus
                    ELSE hook[h].slice \in Badge /\ hook[h].status \in Status

\* A slice whose hooks ran one after the other, alone with its file: what was read
\* is what was written last, and a banner is owed from the write of a change to its
\* notification.
BannerOwed(h) ==
    LET s == hook[h].slice
    IN  CASE hook[h].at = "truncate" -> /\ due[s] = 0 /\ hook[h].previous = actual[s]
          [] hook[h].at = "write" -> /\ due[s] = 0 /\ hook[h].previous = actual[s]
                                     /\ hook[h].linked /\ statusFile[FileName[s]] \in Blank
          [] hook[h].at = "notify" ->
                /\ ReadStatus(s) = hook[h].status /\ actual[s] = hook[h].status
                /\ due[s] = IF hook[h].status \in Alertable /\ hook[h].status # hook[h].previous
                            THEN 1 ELSE 0
          [] OTHER -> TRUE

SliceAtRest(s) == due[s] = 0 /\ ReadStatus(s) = actual[s]

BannersOwed ==
    \A s \in Badge \ mixed :
        /\ \A h, k \in BusyWith(s) : h = k
        /\ \A h \in BusyWith(s) : hook[h].slice = s /\ BannerOwed(h)
        /\ BusyWith(s) = {} => SliceAtRest(s)

\* What the watcher has read is what the file says, unless an event awaits it.
WatcherUpToDate ==
    /\ watcher.at \in {"select", "focus"} => watcher.cur = Unread
    /\ ~fsEvents =>
         \A s \in Badge :
            /\ watcher.at \in {"select", "focus"} => prev[s] = StatusIn(s)
            /\ watcher.cur[s] # "unread" => watcher.cur[s] = StatusIn(s)

\* A badge shows the watcher's last snapshot, or the slice was overtaken.
BadgesFollow ==
    watcher.at # "snapshot" =>
        \A s \in Badge : \/ s \in overtaken \/ badge[s] = prev[s]
                         \/ badge[s] = "running" /\ prev[s] = "none"

\* An acknowledgement is of a tab that was opened; a request was passed on once
\* for every server, but for one that the server has still to see.
FocusCounted ==
    /\ focusAck # NoFocus => focusAck \in shown
    /\ \A f \in Focuser :
          /\ focuser[f] = "focused" => f \in shown
          /\ focuser[f] = "idle" => focusRequest # f /\ emitted[f] = 0
          /\ emitted[f] <= 1 + mishaps
          /\ focusRequest = f /\ lastFocusID # f => emitted[f] <= mishaps

EventsInvariant ==
    EventsTyped /\ HooksAtWork /\ BannersOwed /\ WatcherUpToDate /\ BadgesFollow /\ FocusCounted

-----------------------------------------------------------------------------
LEMMA ParsedIsStatus == \A file : parseStatus(file) \in StatusOrNone
BY DEF parseStatus, StatusOrNone, Status

LEMMA StatusesRead ==
    /\ \A s : ReadStatus(s) \in StatusOrNone /\ StatusIn(s) \in StatusOrNone
    /\ UNCHANGED statusFile => \A s : /\ (ReadStatus(s))' = ReadStatus(s)
                                     /\ (StatusIn(s))' = StatusIn(s)
<1>1. \A s : ReadStatus(s) \in StatusOrNone /\ StatusIn(s) \in StatusOrNone
    BY ParsedIsStatus DEF ReadStatus, StatusIn, StatusOrNone
<1>2. UNCHANGED statusFile => \A s : (ReadStatus(s))' = ReadStatus(s)
    BY DEF ReadStatus, parseStatus
<1>3. UNCHANGED statusFile => \A s : (StatusIn(s))' = StatusIn(s)
    BY <1>2 DEF StatusIn
<1> QED BY <1>1, <1>2, <1>3

LEMMA FileOfSlice ==
    ASSUME NEW s \in Badge
    PROVE  FileName[s] \in statusFileName /\ s \in Alike(s)
BY DEF statusFileName, Alike

\* At the start there are no files, and the watcher has read nothing.
LEMMA EventsInitHolds == EventsInit => EventsInvariant
<1> SUFFICES ASSUME EventsInit PROVE EventsInvariant
    OBVIOUS
<1> USE DEF Status, StatusOrNone
<1>1. EventsTyped
    <2>1. IdleHook \in HookRecord
        BY DEF IdleHook, HookRecord
    <2>2. Unread \in [Badge -> StatusOrNone \cup {"unread"}]
        BY DEF Unread
    <2>3. watcher \in [at : {"snapshot", "select", "read", "focus"},
                       cur : [Badge -> StatusOrNone \cup {"unread"}]]
        BY <2>2 DEF EventsInit, Starting
    <2>4. events \in 0 .. MaxEvents /\ mishaps \in 0 .. MaxMishaps
        BY EventsAssumption DEF EventsInit
    <2>5. hook \in [Hook -> HookRecord] /\ due \in [Badge -> Int] /\ emitted \in [Focuser -> Nat]
        BY <2>1 DEF EventsInit
    <2>6. statusFile \in [statusFileName -> FileRecord]
        BY DEF EventsInit, FileRecord, NoRecord, Record
    <2> QED BY <2>2, <2>3, <2>4, <2>5, <2>6 DEF EventsInit, EventsTyped
<1>2. HooksAtWork /\ FocusCounted
    BY EventsAssumption DEF EventsInit, HooksAtWork, FocusCounted, IdleHook
<1>3. BannersOwed
    <2>1. \A s \in Badge : BusyWith(s) = {}
        BY EventsAssumption DEF EventsInit, BusyWith, IdleHook, Alike
    <2>2. \A s \in Badge : ReadStatus(s) = "none"
        BY FileOfSlice DEF EventsInit, ReadStatus, parseStatus, NoRecord, Record
    <2> QED BY <2>1, <2>2 DEF EventsInit, BannersOwed, SliceAtRest
<1>4. WatcherUpToDate /\ BadgesFollow
    BY DEF EventsInit, WatcherUpToDate, BadgesFollow, Starting, Unread
<1> QED BY <1>1, <1>2, <1>3, <1>4 DEF EventsInvariant

\* The watcher's and the client's share, when the hooks change the files.
LEMMA FilesChange ==
    ASSUME EventsInvariant, UNCHANGED <<watchVars, clientVars, focusVars, mishaps>>,
           fsEvents' \/ UNCHANGED <<statusFile, fsEvents>>
    PROVE  WatcherUpToDate' /\ BadgesFollow' /\ FocusCounted'
<1> USE DEF EventsInvariant, watchVars, clientVars, focusVars
<1>1. WatcherUpToDate'
    BY StatusesRead DEF WatcherUpToDate, Unread
<1>2. BadgesFollow' /\ FocusCounted'
    BY DEF BadgesFollow, FocusCounted
<1> QED BY <1>1, <1>2

\* Neither count leaves its bound.
LEMMA EventsBounded ==
    ASSUME EventsInvariant
    PROVE  /\ Counts \/ UNCHANGED events => events' \in 0 .. MaxEvents
           /\ Mishap \/ UNCHANGED mishaps => mishaps' \in 0 .. MaxMishaps
<1>1. events \in 0 .. MaxEvents /\ mishaps \in 0 .. MaxMishaps /\ MaxEvents \in Nat
      /\ MaxMishaps \in Nat
    BY EventsAssumption DEF EventsInvariant, EventsTyped
<1> QED BY <1>1 DEF Counts, Mishap

\* Files of other names, and what else is theirs, are as they were.
LEMMA OtherSlicesOwe ==
    ASSUME EventsInvariant, NEW s \in Badge,
           \A h \in Hook : \/ hook'[h] = hook[h]
                           \/ hook[h].slice \in Alike(s) \cup {NoFocus}
                              /\ hook'[h].slice \in Alike(s) \cup {NoFocus},
           \A f \in statusFileName \ {FileName[s]} : statusFile'[f] = statusFile[f],
           \A t \in Badge \ {s} : actual'[t] = actual[t] /\ due'[t] = due[t],
           mixed \subseteq mixed',
           \A t \in Alike(s) \ {s} : t \in mixed',
           s \notin mixed' =>
             /\ \A i, k \in (BusyWith(s))' : i = k
             /\ \A i \in (BusyWith(s))' : hook'[i].slice = s /\ (BannerOwed(i))'
             /\ (BusyWith(s))' = {} => (SliceAtRest(s))'
    PROVE  BannersOwed'
<1> SUFFICES ASSUME NEW t \in Badge \ mixed', t # s
             PROVE  /\ \A i, k \in (BusyWith(t))' : i = k
                    /\ \A i \in (BusyWith(t))' : hook'[i].slice = t /\ (BannerOwed(i))'
                    /\ (BusyWith(t))' = {} => (SliceAtRest(t))'
    BY DEF BannersOwed
<1>1. t \notin mixed /\ NoFocus \notin Badge /\ FileName[t] # FileName[s]
    BY EventsAssumption DEF Alike
<1>2. statusFile'[FileName[t]] = statusFile[FileName[t]] /\ actual'[t] = actual[t] /\ due'[t] = due[t]
    BY <1>1, FileOfSlice
<1>3. (ReadStatus(t))' = ReadStatus(t)
    BY <1>2 DEF ReadStatus, parseStatus
<1>4. \A h \in Hook : \/ hook'[h] = hook[h]
                      \/ hook[h].slice \notin Alike(t) /\ hook'[h].slice \notin Alike(t)
    BY <1>1 DEF Alike
<1>5. (BusyWith(t))' = BusyWith(t) /\ \A h \in BusyWith(t) : hook'[h] = hook[h]
    BY <1>4 DEF BusyWith
<1>6. /\ \A h, k \in BusyWith(t) : h = k
      /\ \A h \in BusyWith(t) : hook[h].slice = t /\ BannerOwed(h)
      /\ BusyWith(t) = {} => SliceAtRest(t)
    BY <1>1 DEF EventsInvariant, BannersOwed
<1>7. \A h \in BusyWith(t) : (BannerOwed(h))'
    <2> SUFFICES ASSUME NEW h \in BusyWith(t) PROVE (BannerOwed(h))'
        OBVIOUS
    <2>1. hook'[h] = hook[h] /\ hook[h].slice = t /\ BannerOwed(h)
        BY <1>5, <1>6
    <2> QED BY <1>2, <1>3, <2>1 DEF BannerOwed
<1>8. BusyWith(t) = {} => (SliceAtRest(t))'
    BY <1>2, <1>3, <1>6 DEF SliceAtRest
<1> QED BY <1>5, <1>6, <1>7, <1>8

\* A slice that is not mixed is alone with its file.
LEMMA AloneWithSlice ==
    ASSUME EventsInvariant, NEW h \in Hook, hook[h].at # "idle"
    PROVE  /\ hook[h].slice \in Badge /\ hook[h].status \in Status /\ hook[h] \in HookRecord
           /\ hook[h].slice \notin mixed => BusyWith(hook[h].slice) = {h} /\ BannerOwed(h)
           /\ \A t \in Alike(hook[h].slice) \ {hook[h].slice} : t \in mixed
<1>1. hook[h].slice \in Badge /\ hook[h].status \in Status /\ hook[h] \in HookRecord
    BY DEF EventsInvariant, HooksAtWork, EventsTyped
<1>2. h \in BusyWith(hook[h].slice)
    BY <1>1, FileOfSlice DEF BusyWith
<1>3. hook[h].slice \notin mixed => BusyWith(hook[h].slice) = {h} /\ BannerOwed(h)
    BY <1>1, <1>2 DEF EventsInvariant, BannersOwed
<1>4. ASSUME NEW t \in Alike(hook[h].slice) \ {hook[h].slice}, t \notin mixed PROVE FALSE
    <2>1. t \in Badge /\ h \in BusyWith(t)
        BY <1>1 DEF BusyWith, Alike
    <2> QED BY <1>4, <2>1 DEF EventsInvariant, BannersOwed
<1> QED BY <1>1, <1>3, <1>4

\* A hook begins for a slice, reads its status, and shares the file or has it
\* alone.
LEMMA HandleHookKeeps ==
    ASSUME EventsInvariant, NEW h \in Hook, NEW s \in Badge, NEW status \in Status,
           HandleHook(h, s, status)
    PROVE  EventsInvariant'
<1> DEFINE new == [at |-> "truncate", slice |-> s, status |-> status,
                   previous |-> ReadStatus(s), linked |-> FALSE]
<1>1. hook[h].at = "idle" /\ hook' = [hook EXCEPT ![h] = new]
      /\ mixed' = mixed \cup (Alike(s) \ {s}) \cup (IF BusyWith(s) = {} THEN {} ELSE {s})
      /\ UNCHANGED <<statusFile, actual, due, fsEvents, watchVars, clientVars, focusVars, mishaps>>
    BY DEF HandleHook, HookAt, Mixes
<1>7. events' \in 0 .. MaxEvents
    BY EventsBounded DEF HandleHook
<1>2. new \in HookRecord /\ new.slice = s /\ new.at = "truncate" /\ new.previous = ReadStatus(s)
      /\ new.status = status
    BY StatusesRead DEF HookRecord, StatusOrNone
<1> HIDE DEF new
<1>3. hook' \in [Hook -> HookRecord] /\ hook'[h] = new /\ \A k \in Hook \ {h} : hook'[k] = hook[k]
    BY <1>1, <1>2 DEF EventsInvariant, EventsTyped
<1>4. EventsTyped'
    <2>1. mixed' \subseteq Badge
        BY <1>1 DEF EventsInvariant, EventsTyped, Alike
    <2> QED BY <1>1, <1>7, <1>3, <2>1
        DEF EventsInvariant, EventsTyped, watchVars, clientVars, focusVars
<1>5. HooksAtWork'
    BY <1>2, <1>3 DEF EventsInvariant, HooksAtWork
<1>6. BannersOwed'
    <2>1. hook[h].slice = NoFocus /\ NoFocus \notin Badge
        BY <1>1, EventsAssumption DEF EventsInvariant, HooksAtWork
    <2>2. s \in Alike(s)
        BY FileOfSlice
    <2>3. ASSUME s \notin mixed'
          PROVE  (BusyWith(s))' = {h} /\ hook'[h].slice = s /\ (BannerOwed(h))'
        <3>1. BusyWith(s) = {} /\ s \notin mixed
            BY <1>1, <2>3
        <3>2. SliceAtRest(s)
            BY <3>1 DEF EventsInvariant, BannersOwed
        <3>3. (BusyWith(s))' = {h}
            BY <1>2, <1>3, <2>2, <3>1 DEF BusyWith, Alike
        <3>4. hook'[h].at = "truncate" /\ hook'[h].slice = s /\ hook'[h].previous = ReadStatus(s)
            BY <1>2, <1>3
        <3>5. due'[s] = 0 /\ actual'[s] = ReadStatus(s)
            BY <1>1, <3>2 DEF SliceAtRest
        <3> QED BY <3>3, <3>4, <3>5 DEF BannerOwed
    <2>4. /\ \A k \in Hook : \/ hook'[k] = hook[k]
                             \/ hook[k].slice \in Alike(s) \cup {NoFocus}
                                /\ hook'[k].slice \in Alike(s) \cup {NoFocus}
          /\ \A f \in statusFileName \ {FileName[s]} : statusFile'[f] = statusFile[f]
          /\ \A t \in Badge \ {s} : actual'[t] = actual[t] /\ due'[t] = due[t]
          /\ mixed \subseteq mixed' /\ \A t \in Alike(s) \ {s} : t \in mixed'
        BY <1>1, <1>2, <1>3, <2>1, <2>2
    <2> QED BY <2>3, <2>4, OtherSlicesOwe
<1> QED BY <1>1, <1>4, <1>5, <1>6, FilesChange DEF EventsInvariant

\* One hook at work takes a step on its file.
LEMMA HookStepOwes ==
    ASSUME EventsInvariant, NEW h \in Hook, hook[h].at # "idle", NEW s, s = hook[h].slice,
           \A k \in Hook \ {h} : hook'[k] = hook[k],
           hook'[h].slice = s,
           \A f \in statusFileName \ {FileName[s]} : statusFile'[f] = statusFile[f],
           \A t \in Badge \ {s} : actual'[t] = actual[t] /\ due'[t] = due[t],
           mixed' = mixed,
           s \notin mixed => (BannerOwed(h))'
    PROVE  BannersOwed'
<1>1. /\ s \in Badge /\ \A t \in Alike(s) \ {s} : t \in mixed
      /\ s \notin mixed => BusyWith(s) = {h}
    BY AloneWithSlice
<1>2. (BusyWith(s))' = BusyWith(s)
    BY DEF BusyWith, Alike
<1>3. \A k \in Hook : \/ hook'[k] = hook[k]
                      \/ hook[k].slice \in Alike(s) \cup {NoFocus}
                         /\ hook'[k].slice \in Alike(s) \cup {NoFocus}
    BY <1>1, FileOfSlice
<1> QED BY <1>1, <1>2, <1>3, OtherSlicesOwe

\* A hook truncates the file.
LEMMA TruncatedKeeps ==
    ASSUME EventsInvariant, NEW h \in Hook, StatusTruncated(h)
    PROVE  EventsInvariant'
<1> DEFINE new == [hook[h] EXCEPT !.at = "write", !.linked = TRUE]
<1>1. PICK s : s = hook[h].slice
    OBVIOUS
<1>2. hook[h].at = "truncate" /\ hook' = [hook EXCEPT ![h] = new]
      /\ statusFile' = [statusFile EXCEPT ![FileName[s]] = NoRecord("empty")] /\ fsEvents' = TRUE
      /\ UNCHANGED <<actual, due, mixed, watchVars, clientVars, focusVars, events, mishaps>>
    BY <1>1 DEF StatusTruncated, HookAt
<1>3. s \in Badge /\ hook[h].status \in Status /\ hook[h] \in HookRecord
      /\ (s \notin mixed => BannerOwed(h))
    BY <1>1, <1>2, AloneWithSlice
<1>4. new \in HookRecord /\ new.at = "write" /\ new.slice = s /\ new.status = hook[h].status
      /\ new.previous = hook[h].previous /\ new.linked = TRUE
    BY <1>1, <1>3 DEF HookRecord
<1> HIDE DEF new
<1>5. hook' \in [Hook -> HookRecord] /\ hook'[h] = new /\ \A k \in Hook \ {h} : hook'[k] = hook[k]
    BY <1>2, <1>4 DEF EventsInvariant, EventsTyped
<1>6. /\ statusFile' \in [statusFileName -> FileRecord]
      /\ statusFile'[FileName[s]] = NoRecord("empty")
      /\ \A f \in statusFileName \ {FileName[s]} : statusFile'[f] = statusFile[f]
    <2>1. NoRecord("empty") \in FileRecord
        BY DEF NoRecord, Record, FileRecord
    <2>2. statusFile \in [statusFileName -> FileRecord] /\ FileName[s] \in statusFileName
        BY <1>3, FileOfSlice DEF EventsInvariant, EventsTyped
    <2> QED BY <1>2, <2>1, <2>2
<1>7. EventsTyped'
    BY <1>2, <1>5, <1>6 DEF EventsInvariant, EventsTyped, watchVars, clientVars, focusVars
<1>8. HooksAtWork'
    BY <1>3, <1>4, <1>5 DEF EventsInvariant, HooksAtWork
<1>9. s \notin mixed => (BannerOwed(h))'
    <2> SUFFICES ASSUME s \notin mixed PROVE (BannerOwed(h))'
        OBVIOUS
    <2>1. due[s] = 0 /\ hook[h].previous = actual[s]
        BY <1>1, <1>2, <1>3 DEF BannerOwed
    <2>2. /\ hook'[h].at = "write" /\ hook'[h].slice = s /\ hook'[h].linked
          /\ hook'[h].previous = actual'[s] /\ due'[s] = 0
        BY <1>2, <1>4, <1>5, <2>1
    <2>3. statusFile'[FileName[s]] \in Blank
        BY <1>6 DEF Blank
    <2> QED BY <2>2, <2>3 DEF BannerOwed
<1>10. BannersOwed'
    BY <1>1, <1>2, <1>4, <1>5, <1>6, <1>9, HookStepOwes
<1> QED BY <1>2, <1>7, <1>8, <1>10, FilesChange DEF EventsInvariant

\* A hook writes its status: into a file it has emptied, nothing else is left; a
\* banner is owed if this is a change.
LEMMA WriteKeeps ==
    ASSUME EventsInvariant, NEW h \in Hook, WriteStatusRecord(h)
    PROVE  EventsInvariant'
<1> DEFINE new == [hook[h] EXCEPT !.at = "notify"]
<1>1. PICK s, f, status : s = hook[h].slice /\ f = FileName[s] /\ status = hook[h].status
    OBVIOUS
<1> DEFINE owes == status \in Alertable /\ status # actual[s]
<1>2. hook[h].at = "write" /\ hook' = [hook EXCEPT ![h] = new]
      /\ fsEvents' = (fsEvents \/ hook[h].linked)
      /\ actual' = [actual EXCEPT ![s] = status]
      /\ due' = [due EXCEPT ![s] = IF owes THEN due[s] + 1 ELSE due[s]]
      /\ UNCHANGED <<mixed, watchVars, clientVars, focusVars, events, mishaps>>
    BY <1>1 DEF WriteStatusRecord, HookAt
<1>3. IF hook[h].linked
      THEN \E now \in {Record(s, status)}
                      \cup (IF statusFile[f] \in Blank THEN {} ELSE {NoRecord("torn")}) :
              statusFile' = [statusFile EXCEPT ![f] = now]
      ELSE UNCHANGED statusFile
    BY <1>1 DEF WriteStatusRecord
<1>4. s \in Badge /\ status \in Status /\ hook[h] \in HookRecord /\ f \in statusFileName
      /\ (s \notin mixed => BannerOwed(h))
    BY <1>1, <1>2, AloneWithSlice, FileOfSlice
<1>5. new \in HookRecord /\ new.at = "notify" /\ new.slice = s /\ new.status = status
      /\ new.previous = hook[h].previous
    BY <1>1, <1>4 DEF HookRecord
<1> HIDE DEF new
<1>6. hook' \in [Hook -> HookRecord] /\ hook'[h] = new /\ \A k \in Hook \ {h} : hook'[k] = hook[k]
    BY <1>2, <1>5 DEF EventsInvariant, EventsTyped
<1>7. /\ statusFile' \in [statusFileName -> FileRecord]
      /\ \A g \in statusFileName \ {f} : statusFile'[g] = statusFile[g]
      /\ hook[h].linked /\ statusFile[f] \in Blank => statusFile'[f] = Record(s, status)
    <2>1. Record(s, status) \in FileRecord /\ NoRecord("torn") \in FileRecord
        BY <1>4 DEF NoRecord, Record, FileRecord
    <2>2. statusFile \in [statusFileName -> FileRecord]
        BY DEF EventsInvariant, EventsTyped
    <2> QED BY <1>3, <1>4, <2>1, <2>2
<1>8. /\ actual' \in [Badge -> StatusOrNone] /\ actual'[s] = status
      /\ due' \in [Badge -> Int] /\ due'[s] = (IF owes THEN due[s] + 1 ELSE due[s])
      /\ \A t \in Badge \ {s} : actual'[t] = actual[t] /\ due'[t] = due[t]
    <2>1. due \in [Badge -> Int] /\ actual \in [Badge -> StatusOrNone] /\ due[s] \in Int
        BY <1>4 DEF EventsInvariant, EventsTyped
    <2> DEFINE d == IF owes THEN due[s] + 1 ELSE due[s]
    <2>2. d \in Int /\ due' = [due EXCEPT ![s] = d]
        BY <1>2, <2>1
    <2> HIDE DEF d
    <2>3. due' \in [Badge -> Int] /\ due'[s] = d /\ \A t \in Badge \ {s} : due'[t] = due[t]
        BY <1>4, <2>1, <2>2
    <2>4. /\ actual' \in [Badge -> StatusOrNone] /\ actual'[s] = status
          /\ \A t \in Badge \ {s} : actual'[t] = actual[t]
        BY <1>2, <1>4, <2>1 DEF StatusOrNone
    <2> QED BY <2>3, <2>4 DEF d
<1>9. EventsTyped'
    <2>1. fsEvents' \in BOOLEAN
        BY <1>2, <1>4 DEF EventsInvariant, EventsTyped, HookRecord
    <2> QED BY <1>2, <1>6, <1>7, <1>8, <2>1
        DEF EventsInvariant, EventsTyped, watchVars, clientVars, focusVars
<1>10. HooksAtWork'
    BY <1>4, <1>5, <1>6 DEF EventsInvariant, HooksAtWork
<1>11. s \notin mixed => (BannerOwed(h))'
    <2> SUFFICES ASSUME s \notin mixed PROVE (BannerOwed(h))'
        OBVIOUS
    <2>1. due[s] = 0 /\ hook[h].previous = actual[s] /\ hook[h].linked /\ statusFile[f] \in Blank
        BY <1>1, <1>2, <1>4 DEF BannerOwed
    <2>2. hook'[h].at = "notify" /\ hook'[h].slice = s /\ hook'[h].status = status
          /\ hook'[h].previous = actual[s]
        BY <1>5, <1>6, <2>1
    <2>3. due'[s] = IF owes THEN 1 ELSE 0
        BY <1>8, <2>1
    <2>4. (ReadStatus(s))' = status
        BY <1>1, <1>4, <1>7, <2>1 DEF ReadStatus, parseStatus, Record
    <2> QED BY <1>8, <2>2, <2>3, <2>4 DEF BannerOwed
<1>12. BannersOwed'
    <2>1. hook'[h].slice = s /\ hook[h].at # "idle" /\ mixed' = mixed
        BY <1>2, <1>5, <1>6
    <2> QED BY <1>1, <1>6, <1>7, <1>8, <1>11, <2>1, HookStepOwes
<1>13. fsEvents' \/ UNCHANGED <<statusFile, fsEvents>>
    BY <1>2, <1>3, <1>4 DEF EventsInvariant, EventsTyped, HookRecord
<1> QED BY <1>2, <1>9, <1>10, <1>12, <1>13, FilesChange DEF EventsInvariant

\* A hook ends without a write: it pays the banner it owes, or is killed.
LEMMA HookEndsKeeps ==
    ASSUME EventsInvariant, NEW h \in Hook, fireNotification(h) \/ HookKilled(h)
    PROVE  EventsInvariant'
<1>1. hook[h].at # "idle" /\ hook' = [hook EXCEPT ![h] = IdleHook]
      /\ UNCHANGED <<statusFile, actual, fsEvents, watchVars, clientVars, focusVars, events>>
    BY DEF fireNotification, HookKilled, HookAt
<1>2. PICK s \in Badge :
          /\ hook[h].slice = s /\ hook[h].status \in Status /\ hook[h] \in HookRecord
          /\ (s \notin mixed => BusyWith(s) = {h} /\ BannerOwed(h))
          /\ \A t \in Alike(s) \ {s} : t \in mixed
    BY <1>1, AloneWithSlice
<1>3. IdleHook \in HookRecord /\ IdleHook.at = "idle" /\ IdleHook.slice = NoFocus
    BY DEF IdleHook, HookRecord, StatusOrNone
<1>4. hook' \in [Hook -> HookRecord] /\ hook'[h] = IdleHook
      /\ \A k \in Hook \ {h} : hook'[k] = hook[k]
    BY <1>1, <1>3 DEF EventsInvariant, EventsTyped
<1>5. HooksAtWork'
    BY <1>3, <1>4 DEF EventsInvariant, HooksAtWork
<1>6. \A k \in Hook : \/ hook'[k] = hook[k]
                      \/ hook[k].slice \in Alike(s) \cup {NoFocus}
                         /\ hook'[k].slice \in Alike(s) \cup {NoFocus}
    BY <1>2, <1>3, <1>4, FileOfSlice
<1>7. \A f \in statusFileName \ {FileName[s]} : statusFile'[f] = statusFile[f]
    BY <1>1
<1>8. CASE fireNotification(h)
    <2> DEFINE fires == hook[h].status \in Alertable /\ hook[h].status # hook[h].previous
    <2>1. hook[h].at = "notify" /\ UNCHANGED <<mixed, mishaps>>
          /\ due' = [due EXCEPT ![s] = IF fires THEN due[s] - 1 ELSE due[s]]
        BY <1>2, <1>8 DEF fireNotification, HookAt
    <2>2. due \in [Badge -> Int]
        BY DEF EventsInvariant, EventsTyped
    <2>3. due' \in [Badge -> Int] /\ due'[s] = (IF fires THEN due[s] - 1 ELSE due[s])
          /\ \A t \in Badge \ {s} : due'[t] = due[t]
        BY <1>2, <2>1, <2>2
    <2>4. EventsTyped'
        BY <1>1, <1>4, <2>1, <2>3 DEF EventsInvariant, EventsTyped, watchVars, clientVars,
           focusVars
    <2>5. ASSUME s \notin mixed PROVE (BusyWith(s))' = {} /\ (SliceAtRest(s))'
        <3>1. (BusyWith(s))' = {}
            BY <1>2, <1>3, <1>4, <2>5, EventsAssumption DEF BusyWith, Alike
        <3>2. ReadStatus(s) = hook[h].status /\ actual[s] = hook[h].status
              /\ due[s] = IF fires THEN 1 ELSE 0
            BY <1>2, <2>1, <2>5 DEF BannerOwed
        <3>3. due'[s] = 0
            BY <2>3, <3>2
        <3>4. (ReadStatus(s))' = actual'[s]
            BY <1>1, <3>2, StatusesRead
        <3> QED BY <3>1, <3>3, <3>4 DEF SliceAtRest
    <2>6. mixed' = mixed /\ \A t \in Badge \ {s} : actual'[t] = actual[t] /\ due'[t] = due[t]
        BY <1>1, <2>1, <2>3
    <2>7. BannersOwed'
        BY <1>2, <1>6, <1>7, <2>5, <2>6, OtherSlicesOwe
    <2> QED BY <1>1, <1>5, <2>1, <2>4, <2>7, FilesChange DEF EventsInvariant
<1>9. CASE HookKilled(h)
    <2>1. mixed' = mixed \cup Alike(s) /\ UNCHANGED due /\ mishaps' \in 0 .. MaxMishaps
          /\ mishaps' = mishaps + 1
        BY <1>2, <1>9, EventsBounded DEF HookKilled, Mishap
    <2>2. EventsTyped'
        BY <1>1, <1>2, <1>4, <2>1
        DEF EventsInvariant, EventsTyped, watchVars, clientVars, focusVars, Alike
    <2>3. /\ mixed \subseteq mixed' /\ s \in mixed' /\ \A t \in Alike(s) : t \in mixed'
          /\ \A t \in Badge \ {s} : actual'[t] = actual[t] /\ due'[t] = due[t]
        BY <1>1, <2>1, FileOfSlice
    <2>4. BannersOwed'
        BY <1>6, <1>7, <2>3, OtherSlicesOwe
    <2>5. WatcherUpToDate' /\ BadgesFollow'
        BY <1>1, StatusesRead DEF EventsInvariant, WatcherUpToDate, BadgesFollow, watchVars,
           clientVars, Unread
    <2>6. FocusCounted'
        <3>1. mishaps \in Nat /\ \A f \in Focuser : emitted[f] \in Nat
            <4>1. mishaps \in 0 .. MaxMishaps /\ emitted \in [Focuser -> Nat]
                BY DEF EventsInvariant, EventsTyped
            <4> QED BY <4>1
        <3> QED BY <1>1, <2>1, <3>1 DEF EventsInvariant, FocusCounted, watchVars, focusVars
    <2> QED BY <1>5, <2>2, <2>4, <2>5, <2>6 DEF EventsInvariant
<1> QED BY <1>8, <1>9

\* slis rm takes a file away: a slice with a hook at work is disturbed, and one
\* with the same file name.
LEMMA RemoveStatusKeeps ==
    ASSUME EventsInvariant, NEW s \in Badge, RemoveStatus(s)
    PROVE  EventsInvariant'
<1>1. /\ statusFile' = [statusFile EXCEPT ![FileName[s]] = NoRecord("gone")]
      /\ hook' = [h \in Hook |->
            IF h \in BusyWith(s) THEN [hook[h] EXCEPT !.linked = FALSE] ELSE hook[h]]
      /\ actual' = [actual EXCEPT ![s] = "none"] /\ fsEvents' = TRUE
      /\ mixed' = mixed \cup (Alike(s) \ {s}) \cup (IF BusyWith(s) = {} THEN {} ELSE {s})
      /\ UNCHANGED <<due, watchVars, clientVars, focusVars, mishaps>>
    BY DEF RemoveStatus, Mixes
<1>2. events' \in 0 .. MaxEvents
    BY EventsBounded DEF RemoveStatus
<1>3. hook \in [Hook -> HookRecord]
    BY DEF EventsInvariant, EventsTyped
<1>4. \A h \in Hook : /\ hook'[h] \in HookRecord /\ hook'[h].slice = hook[h].slice
                      /\ hook'[h].at = hook[h].at /\ hook'[h].status = hook[h].status
                      /\ h \in BusyWith(s) \/ hook'[h] = hook[h]
    BY <1>1, <1>3 DEF HookRecord
<1>5. hook' \in [Hook -> HookRecord]
    BY <1>1, <1>4
<1>6. /\ statusFile' \in [statusFileName -> FileRecord]
      /\ statusFile'[FileName[s]] = NoRecord("gone")
      /\ \A f \in statusFileName \ {FileName[s]} : statusFile'[f] = statusFile[f]
    <2>1. NoRecord("gone") \in FileRecord
        BY DEF NoRecord, Record, FileRecord
    <2>2. statusFile \in [statusFileName -> FileRecord] /\ FileName[s] \in statusFileName
        BY FileOfSlice DEF EventsInvariant, EventsTyped
    <2> QED BY <1>1, <2>1, <2>2
<1>7. /\ actual' \in [Badge -> StatusOrNone] /\ mixed' \subseteq Badge /\ actual'[s] = "none"
      /\ \A t \in Badge \ {s} : actual'[t] = actual[t] /\ due'[t] = due[t]
    BY <1>1 DEF EventsInvariant, EventsTyped, StatusOrNone, Alike
<1>8. EventsTyped'
    BY <1>1, <1>2, <1>5, <1>6, <1>7 DEF EventsInvariant, EventsTyped, watchVars, clientVars,
       focusVars
<1>9. HooksAtWork'
    BY <1>4 DEF EventsInvariant, HooksAtWork
<1>10. BannersOwed'
    <2>1. \A h \in Hook : \/ hook'[h] = hook[h]
                          \/ hook[h].slice \in Alike(s) \cup {NoFocus}
                             /\ hook'[h].slice \in Alike(s) \cup {NoFocus}
        BY <1>4 DEF BusyWith
    <2>2. mixed \subseteq mixed' /\ \A t \in Alike(s) \ {s} : t \in mixed'
        BY <1>1
    <2>3. ASSUME s \notin mixed' PROVE (BusyWith(s))' = {} /\ (SliceAtRest(s))'
        <3>1. BusyWith(s) = {} /\ s \notin mixed
            BY <1>1, <2>3
        <3>2. (BusyWith(s))' = {}
            BY <1>4, <3>1 DEF BusyWith
        <3>3. due'[s] = 0
            BY <1>1, <3>1 DEF EventsInvariant, BannersOwed, SliceAtRest
        <3>4. (ReadStatus(s))' = "none"
            BY <1>6 DEF ReadStatus, parseStatus, NoRecord, Record, Status
        <3> QED BY <1>7, <3>2, <3>3, <3>4 DEF SliceAtRest
    <2> QED BY <1>6, <1>7, <2>1, <2>2, <2>3, OtherSlicesOwe
<1> QED BY <1>1, <1>8, <1>9, <1>10, FilesChange DEF EventsInvariant


-----------------------------------------------------------------------------
\* The hooks' share, when the watcher and the client are at work.
LEMMA HooksRest ==
    ASSUME EventsInvariant, UNCHANGED statusVars
    PROVE  HooksAtWork' /\ BannersOwed'
<1>1. HooksAtWork'
    BY DEF EventsInvariant, HooksAtWork, statusVars
<1>2. \A s : (BusyWith(s))' = BusyWith(s)
    BY DEF BusyWith, statusVars
<1>3. \A h : (BannerOwed(h))' <=> BannerOwed(h)
    BY StatusesRead DEF BannerOwed, statusVars
<1>4. \A s : (SliceAtRest(s))' <=> SliceAtRest(s)
    BY StatusesRead DEF SliceAtRest, statusVars
<1>5. BannersOwed'
    BY <1>2, <1>3, <1>4 DEF EventsInvariant, BannersOwed, statusVars
<1> QED BY <1>1, <1>5

\* The watcher reads a file: what it reads is what the file says.
LEMMA ReadKeeps ==
    ASSUME EventsInvariant, NEW s \in Badge, ReadAllStatuses(s)
    PROVE  EventsInvariant'
<1> DEFINE cur == [t \in Badge |-> IF t \in Alike(s) THEN StatusIn(t) ELSE watcher.cur[t]]
<1>1. watcher.at \in {"snapshot", "read"} /\ watcher' = [watcher EXCEPT !.cur = cur]
      /\ UNCHANGED <<statusVars, fsEvents, prev, lastFocusID, emitted, clientVars, focusVars,
                     events, mishaps>>
    BY DEF ReadAllStatuses
<1>2. watcher \in [at : {"snapshot", "select", "read", "focus"},
                   cur : [Badge -> StatusOrNone \cup {"unread"}]]
    BY DEF EventsInvariant, EventsTyped
<1>3. cur \in [Badge -> StatusOrNone \cup {"unread"}]
    BY <1>2, StatusesRead
<1>4. \A t \in Badge : cur[t] \in {StatusIn(t), watcher.cur[t]}
    OBVIOUS
<1> HIDE DEF cur
<1>5. /\ watcher'.at = watcher.at /\ watcher'.cur = cur
      /\ watcher' \in [at : {"snapshot", "select", "read", "focus"},
                       cur : [Badge -> StatusOrNone \cup {"unread"}]]
    BY <1>1, <1>2, <1>3
<1>6. EventsTyped'
    BY <1>1, <1>5 DEF EventsInvariant, EventsTyped, statusVars, clientVars, focusVars
<1>7. WatcherUpToDate'
    BY <1>1, <1>4, <1>5, StatusesRead DEF EventsInvariant, WatcherUpToDate, statusVars
<1>8. BadgesFollow' /\ FocusCounted'
    BY <1>1, <1>5 DEF EventsInvariant, BadgesFollow, FocusCounted, clientVars, focusVars
<1> QED BY <1>1, <1>6, <1>7, <1>8, HooksRest DEF EventsInvariant

\* The snapshot is complete: badges that differ from it are overtaken.
LEMMA SnapshotKeeps ==
    ASSUME EventsInvariant, startWatcher \/ emitChangedStatuses
    PROVE  EventsInvariant'
<1>1. watcher.at \in {"snapshot", "read"} /\ AllRead /\ prev' = watcher.cur
      /\ watcher'.at \in {"select", "focus"} /\ watcher'.cur = Unread
      /\ watcher' = [at |-> watcher'.at, cur |-> watcher'.cur]
      /\ UNCHANGED <<statusVars, fsEvents, lastFocusID, emitted, statusAnswer, asked, focusVars,
                     events, mishaps>>
    BY DEF startWatcher, emitChangedStatuses
<1>2. watcher.cur \in [Badge -> StatusOrNone]
    BY <1>1 DEF EventsInvariant, EventsTyped, AllRead
<1>3. Unread \in [Badge -> StatusOrNone \cup {"unread"}]
    BY DEF Unread
<1>4. badge' \in [Badge -> StatusOrNone]
    <2>1. CASE startWatcher
        BY <2>1 DEF startWatcher, EventsInvariant, EventsTyped
    <2>2. CASE emitChangedStatuses
        <3>1. badge \in [Badge -> StatusOrNone]
            BY DEF EventsInvariant, EventsTyped
        <3> QED BY <1>2, <2>2, <3>1 DEF emitChangedStatuses
    <2> QED BY <2>1, <2>2
<1>5. EventsTyped'
    <2>1. watcher' \in [at : {"snapshot", "select", "read", "focus"},
                        cur : [Badge -> StatusOrNone \cup {"unread"}]]
        BY <1>1, <1>3
    <2> QED BY <1>1, <1>2, <1>4, <2>1 DEF EventsInvariant, EventsTyped, statusVars, focusVars
<1>6. WatcherUpToDate'
    <2>1. \A s \in Badge : watcher'.cur[s] = "unread"
        BY <1>1 DEF Unread
    <2>2. ~fsEvents => \A s \in Badge : watcher.cur[s] = StatusIn(s)
        BY <1>1 DEF EventsInvariant, WatcherUpToDate, AllRead
    <2> QED BY <1>1, <2>1, <2>2, StatusesRead DEF WatcherUpToDate, statusVars, Unread
<1>7. BadgesFollow'
    <2>1. CASE startWatcher
        BY <2>1 DEF BadgesFollow, startWatcher
    <2>2. CASE emitChangedStatuses
        <3>1. \A s \in Badge : badge'[s] = IF watcher.cur[s] = prev[s] THEN badge[s] ELSE watcher.cur[s]
            BY <2>2 DEF emitChangedStatuses
        <3>2. overtaken' = overtaken \ {s \in Badge : watcher.cur[s] # prev[s]}
              /\ watcher.at = "read"
            BY <2>2 DEF emitChangedStatuses
        <3> QED BY <1>1, <3>1, <3>2 DEF BadgesFollow, EventsInvariant
    <2> QED BY <2>1, <2>2
<1>8. FocusCounted'
    BY <1>1 DEF EventsInvariant, FocusCounted, focusVars
<1> QED BY <1>1, <1>5, <1>6, <1>7, <1>8, HooksRest DEF EventsInvariant

\* The watcher takes its event and begins to read.
LEMMA WakesKeeps ==
    ASSUME EventsInvariant, WatcherWakes
    PROVE  EventsInvariant'
<1>1. watcher.at = "select" /\ fsEvents' = FALSE /\ watcher' = [watcher EXCEPT !.at = "read"]
      /\ UNCHANGED <<statusVars, prev, lastFocusID, emitted, clientVars, focusVars, events, mishaps>>
    BY DEF WatcherWakes
<1>2. watcher \in [at : {"snapshot", "select", "read", "focus"},
                   cur : [Badge -> StatusOrNone \cup {"unread"}]]
    BY DEF EventsInvariant, EventsTyped
<1>3. watcher'.at = "read" /\ watcher'.cur = Unread /\ watcher.cur = Unread
      /\ watcher' \in [at : {"snapshot", "select", "read", "focus"},
                       cur : [Badge -> StatusOrNone \cup {"unread"}]]
    BY <1>1, <1>2 DEF EventsInvariant, WatcherUpToDate
<1>4. EventsTyped'
    BY <1>1, <1>3 DEF EventsInvariant, EventsTyped, statusVars, clientVars, focusVars
<1>5. WatcherUpToDate'
    BY <1>3 DEF WatcherUpToDate, Unread
<1>6. BadgesFollow' /\ FocusCounted'
    BY <1>1, <1>3 DEF EventsInvariant, BadgesFollow, FocusCounted, clientVars, focusVars
<1> QED BY <1>1, <1>4, <1>5, <1>6, HooksRest DEF EventsInvariant

\* A request is passed on when it is not the last one that was seen: for the first
\* time by this server.
LEMMA FocusRequestKeeps ==
    ASSUME EventsInvariant, emitFocusRequest
    PROVE  EventsInvariant'
<1>1. watcher.at = "focus" /\ watcher' = [watcher EXCEPT !.at = "select"]
      /\ UNCHANGED <<statusVars, fsEvents, prev, badge, statusAnswer, overtaken, focusVars, events,
                     mishaps>>
    BY DEF emitFocusRequest
<1>2. watcher \in [at : {"snapshot", "select", "read", "focus"},
                   cur : [Badge -> StatusOrNone \cup {"unread"}]]
      /\ emitted \in [Focuser -> Nat] /\ asked \subseteq Focuser
      /\ focusRequest \in Focuser \cup {NoFocus} /\ mishaps \in 0 .. MaxMishaps
    BY DEF EventsInvariant, EventsTyped
<1>3. watcher'.at = "select" /\ watcher'.cur = watcher.cur
      /\ watcher' \in [at : {"snapshot", "select", "read", "focus"},
                       cur : [Badge -> StatusOrNone \cup {"unread"}]]
    BY <1>1, <1>2
<1>4. asked' \subseteq Focuser /\ emitted' \in [Focuser -> Nat] /\ FocusCounted'
    <2>1. CASE focusRequest \in {NoFocus, lastFocusID}
        <3>1. UNCHANGED <<asked, emitted, lastFocusID>>
            BY <2>1 DEF emitFocusRequest
        <3> QED BY <1>1, <1>2, <3>1 DEF EventsInvariant, FocusCounted, focusVars
    <2>2. CASE focusRequest \notin {NoFocus, lastFocusID} /\ focusRequest \in stale
        <3>1. UNCHANGED <<asked, emitted>> /\ lastFocusID' = focusRequest
            BY <2>2 DEF emitFocusRequest
        <3> QED BY <1>1, <1>2, <3>1 DEF EventsInvariant, FocusCounted, focusVars
    <2>3. CASE focusRequest \notin {NoFocus, lastFocusID} /\ focusRequest \notin stale
        <3>1. lastFocusID' = focusRequest /\ asked' = asked \cup {focusRequest}
              /\ emitted' = [emitted EXCEPT ![focusRequest] = emitted[focusRequest] + 1]
            BY <2>3 DEF emitFocusRequest
        <3>2. focusRequest \in Focuser /\ emitted[focusRequest] \in Nat
              /\ emitted[focusRequest] <= mishaps /\ focuser[focusRequest] # "idle"
            BY <1>2, <2>3 DEF EventsInvariant, FocusCounted
        <3>3. emitted' \in [Focuser -> Nat] /\ emitted'[focusRequest] = emitted[focusRequest] + 1
              /\ \A f \in Focuser \ {focusRequest} : emitted'[f] = emitted[f]
            BY <1>2, <3>1, <3>2
        <3>4. emitted'[focusRequest] <= 1 + mishaps
            BY <1>2, <3>2, <3>3
        <3>5. FocusCounted'
            <4> SUFFICES ASSUME NEW f \in Focuser
                         PROVE  /\ focuser[f] = "focused" => f \in shown
                                /\ focuser[f] = "idle" => focusRequest # f /\ emitted'[f] = 0
                                /\ emitted'[f] <= 1 + mishaps
                                /\ focusRequest = f /\ lastFocusID' # f => emitted'[f] <= mishaps
                BY <1>1 DEF EventsInvariant, FocusCounted, focusVars
            <4> QED BY <3>1, <3>2, <3>3, <3>4 DEF EventsInvariant, FocusCounted
        <3> QED BY <1>2, <3>1, <3>2, <3>3, <3>5
    <2> QED BY <2>1, <2>2, <2>3
<1>5. EventsTyped'
    BY <1>1, <1>3, <1>4 DEF EventsInvariant, EventsTyped, statusVars, focusVars
<1>6. WatcherUpToDate' /\ BadgesFollow'
    BY <1>1, <1>3, StatusesRead DEF EventsInvariant, WatcherUpToDate, BadgesFollow, statusVars
<1> QED BY <1>1, <1>4, <1>5, <1>6, HooksRest DEF EventsInvariant

\* Another server knows of nothing that was passed on.
LEMMA RestartKeeps ==
    ASSUME EventsInvariant, ServerRestarts
    PROVE  EventsInvariant'
<1>1. watcher' = Starting /\ fsEvents' = FALSE /\ prev' = [s \in Badge |-> "none"]
      /\ lastFocusID' = NoFocus /\ statusAnswer' = Unread /\ asked' = {}
      /\ UNCHANGED <<statusVars, badge, overtaken, emitted, focusVars, events>>
      /\ mishaps' = mishaps + 1
    BY DEF ServerRestarts, Mishap
<1>2. mishaps' \in 0 .. MaxMishaps
    BY EventsBounded DEF ServerRestarts
<1>3. Unread \in [Badge -> StatusOrNone \cup {"unread"}]
    BY DEF Unread
<1>4. watcher' \in [at : {"snapshot", "select", "read", "focus"},
                    cur : [Badge -> StatusOrNone \cup {"unread"}]]
    BY <1>1, <1>3 DEF Starting
<1>5. prev' \in [Badge -> StatusOrNone]
    BY <1>1 DEF StatusOrNone
<1>6. EventsTyped'
    BY <1>1, <1>2, <1>3, <1>4, <1>5 DEF EventsInvariant, EventsTyped, statusVars, focusVars
<1>7. WatcherUpToDate' /\ BadgesFollow'
    BY <1>1 DEF WatcherUpToDate, BadgesFollow, Starting, Unread
<1>8. FocusCounted'
    <2>1. mishaps \in Int /\ \A f \in Focuser : emitted[f] \in Nat
        <3>1. mishaps \in 0 .. MaxMishaps /\ emitted \in [Focuser -> Nat]
            BY DEF EventsInvariant, EventsTyped
        <3> QED BY <3>1
    <2>2. \A f \in Focuser : emitted[f] <= 1 + mishaps
        BY DEF EventsInvariant, FocusCounted
    <2> QED BY <1>1, <2>1, <2>2 DEF EventsInvariant, FocusCounted, focusVars
<1> QED BY <1>1, <1>6, <1>7, <1>8, HooksRest DEF EventsInvariant

-----------------------------------------------------------------------------
\* A status answer is read and shown, beside what the watcher says.
LEMMA StatusAnswerKeeps ==
    ASSUME EventsInvariant, NEW s \in Badge, SliceStatusDTO(s) \/ StatusAnswered(s)
    PROVE  EventsInvariant'
<1>1. UNCHANGED <<statusVars, fsEvents, watchVars, asked, focusVars, mishaps>>
    BY DEF SliceStatusDTO, StatusAnswered, clientVars
<1>2. events' \in 0 .. MaxEvents
    BY EventsBounded DEF SliceStatusDTO, StatusAnswered
<1>3. badge' \in [Badge -> StatusOrNone] /\ statusAnswer' \in [Badge -> StatusOrNone \cup {"unread"}]
    <2>1. badge \in [Badge -> StatusOrNone] /\ statusAnswer \in [Badge -> StatusOrNone \cup {"unread"}]
        BY DEF EventsInvariant, EventsTyped
    <2>2. CASE SliceStatusDTO(s)
        <3>1. PICK status \in {ReadStatus(s)} \cup
                      (IF ReadStatus(s) = "none" THEN {"running"} ELSE {}) :
                  statusAnswer' = [statusAnswer EXCEPT ![s] = status]
            BY <2>2 DEF SliceStatusDTO
        <3>2. status \in StatusOrNone
            BY StatusesRead DEF StatusOrNone, Status
        <3>3. UNCHANGED badge
            BY <2>2 DEF SliceStatusDTO
        <3> QED BY <2>1, <3>1, <3>2, <3>3
    <2>3. CASE StatusAnswered(s)
        BY <2>1, <2>3 DEF StatusAnswered
    <2> QED BY <2>2, <2>3
<1>4. EventsTyped'
    BY <1>1, <1>2, <1>3 DEF EventsInvariant, EventsTyped, statusVars, watchVars, focusVars
<1>5. WatcherUpToDate' /\ FocusCounted'
    BY <1>1, StatusesRead DEF EventsInvariant, WatcherUpToDate, FocusCounted, statusVars,
       watchVars, focusVars, Unread
<1>6. BadgesFollow'
    <2>1. CASE SliceStatusDTO(s)
        BY <1>1, <2>1 DEF EventsInvariant, BadgesFollow, SliceStatusDTO, watchVars
    <2>2. CASE StatusAnswered(s)
        <3>1. \A t \in Badge : badge'[t] = IF t = s THEN statusAnswer[s] ELSE badge[t]
            <4>1. badge \in [Badge -> StatusOrNone]
                BY DEF EventsInvariant, EventsTyped
            <4> QED BY <2>2, <4>1 DEF StatusAnswered
        <3>2. overtaken' = IF statusAnswer[s] = prev[s] \/ (statusAnswer[s] = "running" /\ prev[s] = "none")
                           THEN overtaken \ {s} ELSE overtaken \cup {s}
            BY <2>2 DEF StatusAnswered
        <3> QED BY <1>1, <3>1, <3>2 DEF EventsInvariant, BadgesFollow, watchVars
    <2> QED BY <2>1, <2>2
<1> QED BY <1>1, <1>4, <1>5, <1>6, HooksRest DEF EventsInvariant

\* A focus command asks, hears of the acknowledgement or gives up; the client
\* opens the tab before it acknowledges.
LEMMA FocusKeeps ==
    ASSUME EventsInvariant, NEW f \in Focuser,
           \/ RequestFrontendFocus(f) \/ Acknowledged(f) \/ FallsBack(f) \/ FocusExpires(f)
           \/ onFocusRequest(f)
    PROVE  EventsInvariant'
<1>1. UNCHANGED <<statusVars, watchVars, badge, statusAnswer, overtaken, mishaps>>
      /\ (fsEvents' = TRUE \/ UNCHANGED fsEvents)
    BY DEF RequestFrontendFocus, Acknowledged, FallsBack, FocusExpires, onFocusRequest,
       clientVars
<1>2. events' \in 0 .. MaxEvents
    BY EventsBounded DEF RequestFrontendFocus, Acknowledged, FallsBack, FocusExpires,
       onFocusRequest
<1>3. /\ focuser \in [Focuser -> {"idle", "waiting", "focused", "fell back"}]
      /\ focusRequest \in Focuser \cup {NoFocus} /\ focusAck \in Focuser \cup {NoFocus}
      /\ asked \subseteq Focuser /\ fsEvents \in BOOLEAN
      /\ emitted \in [Focuser -> Nat] /\ mishaps \in 0 .. MaxMishaps
    BY DEF EventsInvariant, EventsTyped
<1>4. /\ focuser' \in [Focuser -> {"idle", "waiting", "focused", "fell back"}]
      /\ focusRequest' \in Focuser \cup {NoFocus} /\ focusAck' \in Focuser \cup {NoFocus}
      /\ asked' \subseteq Focuser /\ fsEvents' \in BOOLEAN
      /\ FocusCounted'
    <2>1. CASE RequestFrontendFocus(f)
        <3>1. focuser[f] = "idle" /\ focuser' = [focuser EXCEPT ![f] = "waiting"]
              /\ focusRequest' = f /\ UNCHANGED <<asked, focusAck, shown>>
            BY <2>1 DEF RequestFrontendFocus, clientVars
        <3>2. emitted[f] = 0 /\ 0 <= mishaps
            <4>1. emitted[f] = 0
                BY <3>1 DEF EventsInvariant, FocusCounted
            <4>2. 0 <= mishaps
                <5>1. mishaps \in 0 .. MaxMishaps
                    BY DEF EventsInvariant, EventsTyped
                <5> QED BY <5>1
            <4> QED BY <4>1, <4>2
        <3>3. \A g \in Focuser : focuser'[g] = IF g = f THEN "waiting" ELSE focuser[g]
            BY <1>3, <3>1
        <3>4. FocusCounted'
            <4> SUFFICES ASSUME NEW g \in Focuser
                         PROVE  /\ focuser'[g] = "focused" => g \in shown
                                /\ focuser'[g] = "idle" => f # g /\ emitted[g] = 0
                                /\ emitted[g] <= 1 + mishaps
                                /\ f = g /\ lastFocusID # g => emitted[g] <= mishaps
                BY <1>1, <3>1 DEF EventsInvariant, FocusCounted, watchVars
            <4> QED BY <3>2, <3>3 DEF EventsInvariant, FocusCounted
        <3> QED BY <1>1, <1>3, <3>1, <3>4
    <2>2. CASE Acknowledged(f)
        <3>1. focusAck = f /\ focuser' = [focuser EXCEPT ![f] = "focused"]
              /\ focuser[f] = "waiting"
              /\ UNCHANGED <<asked, focusRequest, focusAck, shown>>
            BY <2>2 DEF Acknowledged, clientVars
        <3>2. f \in shown
            BY <3>1, EventsAssumption DEF EventsInvariant, FocusCounted
        <3> QED BY <1>1, <1>3, <3>1, <3>2 DEF EventsInvariant, FocusCounted, watchVars
    <2>3. CASE FallsBack(f)
        <3>1. focuser' = [focuser EXCEPT ![f] = "fell back"]
              /\ focuser[f] = "waiting"
              /\ UNCHANGED <<asked, focusRequest, focusAck, shown>>
            BY <2>3 DEF FallsBack, clientVars
        <3> QED BY <1>1, <1>3, <3>1 DEF EventsInvariant, FocusCounted, watchVars
    <2>4. CASE FocusExpires(f)
        BY <1>1, <1>3, <2>4 DEF FocusExpires, EventsInvariant, FocusCounted, watchVars,
           clientVars
    <2>5. CASE onFocusRequest(f)
        <3>1. asked' = asked \ {f} /\ UNCHANGED <<focuser, focusRequest>>
              /\ \/ shown' = shown \cup {f} /\ focusAck' = f
                 \/ UNCHANGED <<shown, focusAck>>
            BY <2>5 DEF onFocusRequest
        <3> QED BY <1>1, <1>3, <3>1 DEF EventsInvariant, FocusCounted, watchVars
    <2> QED BY <2>1, <2>2, <2>3, <2>4, <2>5
<1>5. EventsTyped'
    BY <1>1, <1>2, <1>4 DEF EventsInvariant, EventsTyped, statusVars, watchVars
<1>6. WatcherUpToDate' /\ BadgesFollow'
    BY <1>1, StatusesRead DEF EventsInvariant, WatcherUpToDate, BadgesFollow, statusVars,
       watchVars, Unread, StatusIn, ReadStatus
<1> QED BY <1>1, <1>4, <1>5, <1>6, HooksRest DEF EventsInvariant

-----------------------------------------------------------------------------
\* Every step of the hooks, the watcher, the client and the focus commands keeps
\* the invariant.
THEOREM EventsInvariantHolds == EventsSpec => []EventsInvariant
<1>1. EventsInit => EventsInvariant
    BY EventsInitHolds
<1>2. EventsInvariant /\ [EventsNext]_eventVars => EventsInvariant'
    <2> SUFFICES ASSUME EventsInvariant, [EventsNext]_eventVars PROVE EventsInvariant'
        OBVIOUS
    <2>1. CASE EventsNext
        <3>1. ASSUME NEW h \in Hook,
                     \/ \E s \in Badge, status \in Status : HandleHook(h, s, status)
                     \/ StatusTruncated(h) \/ WriteStatusRecord(h) \/ fireNotification(h)
                     \/ HookKilled(h)
              PROVE  EventsInvariant'
            BY <3>1, HandleHookKeeps, TruncatedKeeps, WriteKeeps, HookEndsKeeps
        <3>2. ASSUME NEW s \in Badge,
                     \/ RemoveStatus(s) \/ ReadAllStatuses(s) \/ SliceStatusDTO(s)
                     \/ StatusAnswered(s)
              PROVE  EventsInvariant'
            BY <3>2, RemoveStatusKeeps, ReadKeeps, StatusAnswerKeeps
        <3> QED BY <2>1, <3>1, <3>2, SnapshotKeeps, WakesKeeps, FocusRequestKeeps, RestartKeeps,
                   FocusKeeps DEF EventsNext
    <2>2. CASE UNCHANGED eventVars
        <3>1. UNCHANGED <<statusVars, watchVars, clientVars, focusVars, fsEvents, events, mishaps>>
            BY <2>2 DEF eventVars
        <3>2. EventsTyped'
            BY <3>1 DEF EventsInvariant, EventsTyped, statusVars, watchVars, clientVars,
               focusVars
        <3>3. UNCHANGED <<statusFile, fsEvents>>
            BY <3>1 DEF statusVars
        <3> QED BY <3>1, <3>2, <3>3, HooksRest, FilesChange DEF EventsInvariant
    <2> QED BY <2>1, <2>2
<1> QED BY <1>1, <1>2, PTL DEF EventsSpec

\* When the watcher has seen all events, a badge shows what the file of its slice
\* says, whatever was written between its reads; but for a slice of which a status
\* answer was older or newer, or that changed before the first snapshot.
THEOREM BadgesAgree == EventsSpec => []BadgesAgreeAtRest
<1>1. EventsInvariant => BadgesAgreeAtRest
    BY DEF EventsInvariant, WatcherUpToDate, BadgesFollow, BadgesAgreeAtRest
<1> QED BY <1>1, EventsInvariantHolds, PTL

\* Every change to a status that wants attention has one banner, for any number of
\* hooks that run one after the other.
THEOREM BannersMatch == EventsSpec => []BannersMatchChanges
<1>1. EventsInvariant => BannersMatchChanges
    BY DEF EventsInvariant, BannersOwed, SliceAtRest, BannersMatchChanges
<1> QED BY <1>1, EventsInvariantHolds, PTL

\* A focus command reports success only for its own tab, and each server asks the
\* client for it at most once.
THEOREM FocusShownOnce == EventsSpec => []FocusIsShownOnce
<1>1. EventsInvariant => FocusIsShownOnce
    BY DEF EventsInvariant, FocusCounted, FocusIsShownOnce
<1> QED BY <1>1, EventsInvariantHolds, PTL

\* Every variable of the events has its type.
THEOREM EventsTypeCorrect == EventsSpec => []EventsTypeOK
<1>1. EventsInvariant => EventsTypeOK
    BY DEF EventsInvariant, EventsTyped, StatusOrNone, FileRecord, EventsTypeOK
<1> QED BY <1>1, EventsInvariantHolds, PTL

-----------------------------------------------------------------------------

Content == [torn : BOOLEAN, comments : SUBSET Comment]
AuthorRecord == [op : {"add", "rm", "clear", "send", NoComment},
                 at : {"idle", "list", "send", "load", "open", "write", "rename"},
                 of : Comment \cup ReviewSlice \cup {NoComment}, keep : BOOLEAN,
                 listed : SUBSET Comment, write : SUBSET Comment, fd : Inode \cup {NoComment}]

\* The shape of every variable.
CommentsTyped ==
    /\ inode \in [Inode -> Content]
    /\ stored \in Inode \cup {NoComment} /\ temp \in Inode \cup {NoComment}
    /\ author \in [Author -> AuthorRecord]
    /\ reviewCommands \in 0 .. MaxReviewCommands /\ reviewTrouble \in 0 .. MaxReviewTrouble
    /\ sent \in [Comment -> Nat] /\ overlapped \in BOOLEAN /\ added \subseteq Comment

Sender(c) == author[c].op = "send"
Clearing(c) == author[c].at \in {"load", "open", "write", "rename"}

\* A command is what it began as, and holds a file open while it writes.
CommandShape(a) ==
    /\ a.op = "send" => a.listed \subseteq OfSlice(Comment, a.of)
    /\ a.at = "send" => a.op = "send"
    /\ a.at # "idle" => a.op \in {"add", "rm", "clear", "send"}
    /\ a.at # "idle" /\ a.op \in {"add", "rm"} => a.of \in Comment
    /\ IF a.at = "write" THEN a.fd \in Inode ELSE a.fd = NoComment

CommandsShaped == \A c \in Author : CommandShape(author[c])

\* A send clears what it has delivered.
SentOut == \A c \in Author : Sender(c) /\ Clearing(c) => \A x \in author[c].listed : sent[x] > 0

\* What a command saves.
After(c) == CASE author[c].op = "add" -> load \cup {author[c].of}
              [] author[c].op = "rm" -> load \ {author[c].of}
              [] OTHER -> load \ OfSlice(load, author[c].of)

\* While nobody has saved beside another: one process saves, the store is whole and
\* no inode of a writer, and what is written is the store with the command's change.
StoreSafe ==
    ~overlapped =>
      /\ \A c, d \in Author : Saving(c) /\ Saving(d) => c = d
      /\ stored # NoComment => stored # temp /\ ~inode[stored].torn
      /\ \A c \in Author :
            /\ author[c].at = "write" => author[c].fd = temp /\ inode[temp] = Whole({})
            /\ author[c].at = "rename" => temp # NoComment /\ inode[temp] = Whole(author[c].write)
            /\ Saving(c) => author[c].write = After(c)

\* Every comment that was added is pending, sent or discarded.
AddedKept == ~overlapped => \A x \in added : x \in load \/ sent[x] > 0 \/ x \in discarded

\* What was sent and is still pending, or was listed by two sends, may repeat: unless
\* the send that delivered it has still to clear it.
RepeatsKnown ==
    ~overlapped =>
      /\ \A x \in Comment : sent[x] > 1 => x \in mayRepeat
      /\ \A c, d \in Author : Sender(c) /\ Sender(d) /\ c # d =>
            author[c].listed \cap author[d].listed \subseteq mayRepeat
      /\ \A x \in load : sent[x] > 0 =>
            \/ x \in mayRepeat
            \/ \E d \in Author : Sender(d) /\ Clearing(d) /\ x \in author[d].listed
      /\ \A c \in Author : author[c].at = "send" =>
            \A x \in author[c].listed : sent[x] > 0 => x \in mayRepeat

CommentsInvariant ==
    CommentsTyped /\ CommandsShaped /\ SentOut /\ StoreSafe /\ AddedKept /\ RepeatsKnown

-----------------------------------------------------------------------------
LEMMA NobodyShaped == NoAuthor \in AuthorRecord /\ CommandShape(NoAuthor)
BY DEF NoAuthor, AuthorRecord, CommandShape

LEMMA LoadIsComments == ASSUME CommentsTyped PROVE load \subseteq Comment
BY DEF CommentsTyped, load, Content

\* At the start nothing is stored.
LEMMA CommentsInitHolds == CommentsInit => CommentsInvariant
<1> SUFFICES ASSUME CommentsInit PROVE CommentsInvariant
    OBVIOUS
<1>1. CommentsTyped
    <2>1. author \in [Author -> AuthorRecord] /\ inode \in [Inode -> Content]
        BY NobodyShaped DEF CommentsInit, Content, Whole
    <2>2. reviewCommands \in 0 .. MaxReviewCommands /\ reviewTrouble \in 0 .. MaxReviewTrouble
        BY CommentAssumption DEF CommentsInit
    <2>3. sent \in [Comment -> Nat]
        BY DEF CommentsInit
    <2> QED BY <2>1, <2>2, <2>3 DEF CommentsInit, CommentsTyped
<1>2. CommandsShaped
    BY NobodyShaped DEF CommentsInit, CommandsShaped
<1>3. \A c \in Author : author[c].at = "idle" /\ author[c].listed = {} /\ ~Saving(c) /\ ~Clearing(c)
    BY DEF CommentsInit, NoAuthor, Saving, Clearing
<1>4. SentOut /\ StoreSafe
    BY <1>3 DEF CommentsInit, SentOut, StoreSafe
<1>5. AddedKept
    BY DEF CommentsInit, AddedKept
<1>6. RepeatsKnown
    BY <1>3 DEF CommentsInit, RepeatsKnown, load
<1> QED BY <1>1, <1>2, <1>4, <1>5, <1>6 DEF CommentsInvariant

\* The counts stay in their bounds.
LEMMA TroubleCounted ==
    ASSUME CommentsInvariant, Trouble \/ UNCHANGED reviewTrouble
    PROVE  reviewTrouble' \in 0 .. MaxReviewTrouble
<1>1. reviewTrouble \in 0 .. MaxReviewTrouble /\ MaxReviewTrouble \in Nat
    BY CommentAssumption DEF CommentsInvariant, CommentsTyped
<1> QED BY <1>1 DEF Trouble

\* What a step of author c does to the record of c alone.
LEMMA TurnKeepsShape ==
    ASSUME CommentsInvariant, NEW c \in Author, NEW a \in AuthorRecord, CommandShape(a),
           Turn(c, a)
    PROVE  /\ author' \in [Author -> AuthorRecord] /\ CommandsShaped'
           /\ author'[c] = a /\ \A d \in Author \ {c} : author'[d] = author[d]
<1>1. author \in [Author -> AuthorRecord]
    BY DEF CommentsInvariant, CommentsTyped
<1>2. author' = [author EXCEPT ![c] = a]
    BY DEF Turn
<1>3. author' \in [Author -> AuthorRecord] /\ author'[c] = a
      /\ \A d \in Author \ {c} : author'[d] = author[d]
    BY <1>1, <1>2
<1>4. CommandsShaped'
    BY <1>3 DEF CommentsInvariant, CommandsShaped
<1> QED BY <1>3, <1>4

\* A command begins.
LEMMA BeginKeeps ==
    ASSUME CommentsInvariant, NEW c \in Author, NEW op \in {"add", "rm", "clear", "send"},
           NEW of \in Comment \cup ReviewSlice, op \in {"add", "rm"} => of \in Comment,
           NEW keep \in BOOLEAN, BeginReviewCommand(c, op, of, keep)
    PROVE  CommentsInvariant'
<1> DEFINE a == [NoAuthor EXCEPT !.op = op, !.of = of, !.keep = keep,
                                 !.at = IF op = "add" THEN "load" ELSE "list"]
<1>1. author[c].at = "idle" /\ Turn(c, a) /\ UNCHANGED <<reviewFiles, reviewTrouble, reviewGhosts>>
    BY DEF BeginReviewCommand, AuthorAt
<1>2. reviewCommands' \in 0 .. MaxReviewCommands
    <2>1. reviewCommands \in 0 .. MaxReviewCommands /\ MaxReviewCommands \in Nat
        BY CommentAssumption DEF CommentsInvariant, CommentsTyped
    <2> QED BY <2>1 DEF BeginReviewCommand
<1>3. a \in AuthorRecord /\ a.op = op /\ a.at = (IF op = "add" THEN "load" ELSE "list")
      /\ a.listed = {} /\ a.of = of /\ a.fd = NoComment
    BY DEF NoAuthor, AuthorRecord
<1>4. CommandShape(a)
    BY <1>3 DEF CommandShape
<1> HIDE DEF a
<1>5. author' \in [Author -> AuthorRecord] /\ CommandsShaped'
      /\ author'[c] = a /\ \A d \in Author \ {c} : author'[d] = author[d]
    BY <1>1, <1>3, <1>4, TurnKeepsShape
<1>6. CommentsTyped'
    BY <1>1, <1>2, <1>5 DEF CommentsInvariant, CommentsTyped, reviewFiles, reviewGhosts
<1>7. SentOut'
    BY <1>1, <1>3, <1>5 DEF CommentsInvariant, SentOut, Sender, Clearing, reviewGhosts
<1>8. load' = load
    BY <1>1 DEF load, reviewFiles
<1>9. ~(Saving(c))' /\ \A d \in Author \ {c} : (Saving(d))' <=> Saving(d)
    BY <1>3, <1>5 DEF Saving
<1>10. \A d \in Author \ {c} : (After(d))' = After(d)
    BY <1>5, <1>8 DEF After
<1>11. StoreSafe'
    BY <1>1, <1>3, <1>5, <1>9, <1>10
    DEF CommentsInvariant, StoreSafe, reviewFiles, reviewGhosts
<1>12. AddedKept'
    BY <1>1, <1>8 DEF CommentsInvariant, AddedKept, reviewGhosts
<1>13. RepeatsKnown'
    <2>1. \A d \in Author : Sender(d) /\ Clearing(d) => d # c
        BY <1>1 DEF Clearing
    <2> QED BY <1>1, <1>3, <1>5, <1>8, <2>1
        DEF CommentsInvariant, RepeatsKnown, Sender, Clearing, reviewGhosts
<1> QED BY <1>5, <1>6, <1>7, <1>11, <1>12, <1>13 DEF CommentsInvariant
\* A step that touches no file and does not begin a save.
LEMMA QuietStep ==
    ASSUME CommentsInvariant, NEW c \in Author, NEW a \in AuthorRecord, CommandShape(a),
           Turn(c, a), UNCHANGED <<reviewFiles, overlapped>>,
           a.at \notin {"open", "write", "rename"}
    PROVE  /\ author' \in [Author -> AuthorRecord] /\ CommandsShaped' /\ StoreSafe'
           /\ load' = load
           /\ author'[c] = a /\ \A d \in Author \ {c} : author'[d] = author[d]
<1>1. author' \in [Author -> AuthorRecord] /\ CommandsShaped'
      /\ author'[c] = a /\ \A d \in Author \ {c} : author'[d] = author[d]
    BY TurnKeepsShape
<1>2. load' = load
    BY DEF load, reviewFiles
<1>3. ~(Saving(c))' /\ \A d \in Author \ {c} : (Saving(d))' <=> Saving(d)
    BY <1>1 DEF Saving
<1>4. \A d \in Author \ {c} : (After(d))' = After(d)
    BY <1>1, <1>2 DEF After
<1>5. author'[c].at \notin {"write", "rename"}
    BY <1>1
<1>6. StoreSafe'
    BY <1>1, <1>3, <1>4, <1>5 DEF CommentsInvariant, StoreSafe, reviewFiles
<1> QED BY <1>1, <1>2, <1>6

\* A command ends: what its send delivered and is still pending may repeat.
LEMMA EndsQuietly ==
    ASSUME CommentsInvariant, NEW c \in Author, Done(c),
           UNCHANGED <<sent, added, discarded, overlapped>>,
           mayRepeat \subseteq mayRepeat',
           Sender(c) /\ Clearing(c) => author[c].listed \subseteq mayRepeat',
           overlapped \/ load' = load
    PROVE  /\ author' \in [Author -> AuthorRecord] /\ CommandsShaped'
           /\ author'[c] = NoAuthor /\ \A d \in Author \ {c} : author'[d] = author[d]
           /\ SentOut' /\ AddedKept' /\ RepeatsKnown'
<1>1. author' \in [Author -> AuthorRecord] /\ CommandsShaped'
      /\ author'[c] = NoAuthor /\ \A d \in Author \ {c} : author'[d] = author[d]
    BY NobodyShaped, TurnKeepsShape DEF Done
<1>2. author'[c].at = "idle" /\ author'[c].listed = {}
    BY <1>1 DEF NoAuthor
<1>3. SentOut'
    BY <1>1, <1>2 DEF CommentsInvariant, SentOut, Sender, Clearing
<1>4. AddedKept'
    BY DEF CommentsInvariant, AddedKept
<1>5. RepeatsKnown'
    <2> SUFFICES ASSUME ~overlapped
                 PROVE  /\ \A x \in Comment : sent[x] > 1 => x \in mayRepeat'
                        /\ \A d, e \in Author : (Sender(d))' /\ (Sender(e))' /\ d # e =>
                              author'[d].listed \cap author'[e].listed \subseteq mayRepeat'
                        /\ \A x \in load : sent[x] > 0 =>
                              \/ x \in mayRepeat'
                              \/ \E d \in Author : (Sender(d))' /\ (Clearing(d))' /\ x \in author'[d].listed
                        /\ \A d \in Author : author'[d].at = "send" =>
                              \A x \in author'[d].listed : sent[x] > 0 => x \in mayRepeat'
        BY DEF RepeatsKnown
    <2>1. RepeatsKnown
        BY DEF CommentsInvariant
    <2>2. \A d \in Author \ {c} : /\ (Sender(d))' <=> Sender(d)
                                  /\ (Clearing(d))' <=> Clearing(d)
        BY <1>1 DEF Sender, Clearing
    <2>3. \A x \in Comment : sent[x] > 1 => x \in mayRepeat'
        BY <2>1 DEF RepeatsKnown
    <2>4. \A d, e \in Author : (Sender(d))' /\ (Sender(e))' /\ d # e =>
              author'[d].listed \cap author'[e].listed \subseteq mayRepeat'
        BY <1>1, <1>2, <2>1, <2>2 DEF RepeatsKnown
    <2>5. \A x \in load : sent[x] > 0 =>
              \/ x \in mayRepeat'
              \/ \E d \in Author : (Sender(d))' /\ (Clearing(d))' /\ x \in author'[d].listed
        BY <1>1, <2>1, <2>2 DEF RepeatsKnown
    <2>6. \A d \in Author : author'[d].at = "send" =>
              \A x \in author'[d].listed : sent[x] > 0 => x \in mayRepeat'
        BY <1>1, <1>2, <2>1 DEF RepeatsKnown
    <2> QED BY <2>3, <2>4, <2>5, <2>6
<1> QED BY <1>1, <1>3, <1>4, <1>5

\* It ends without having saved, and touches no file.
LEMMA DoneKeeps ==
    ASSUME CommentsInvariant, NEW c \in Author, Done(c),
           UNCHANGED <<reviewFiles, reviewCommands, sent, added, discarded, overlapped>>,
           mayRepeat \subseteq mayRepeat',
           Sender(c) /\ Clearing(c) => author[c].listed \subseteq mayRepeat',
           reviewTrouble' \in 0 .. MaxReviewTrouble
    PROVE  CommentsInvariant'
<1>1. StoreSafe' /\ load' = load
    <2>1. NoAuthor.at = "idle"
        BY DEF NoAuthor
    <2> QED BY <2>1, NobodyShaped, QuietStep DEF Done
<1>2. author' \in [Author -> AuthorRecord] /\ CommandsShaped'
      /\ SentOut' /\ AddedKept' /\ RepeatsKnown'
    BY <1>1, EndsQuietly
<1>3. CommentsTyped'
    BY <1>2 DEF CommentsInvariant, CommentsTyped, reviewFiles
<1> QED BY <1>1, <1>2, <1>3 DEF CommentsInvariant

\* GiveUp is such an end.
LEMMA GivesUp ==
    ASSUME NEW c \in Author, GiveUp(c)
    PROVE  /\ Done(c) /\ UNCHANGED overlapped /\ mayRepeat \subseteq mayRepeat'
           /\ Sender(c) /\ Clearing(c) => author[c].listed \subseteq mayRepeat'
BY DEF GiveUp, Sender, AuthorDoes

\* rm and send read the list: two sends of one comment know of each other.
LEMMA ListKeeps ==
    ASSUME CommentsInvariant, NEW c \in Author, ListComments(c)
    PROVE  CommentsInvariant'
<1> DEFINE s == IF AuthorDoes(c, {"rm"}) THEN CommentSlice[author[c].of] ELSE author[c].of
           listed == OfSlice(load, s)
           a == [author[c] EXCEPT !.listed = listed,
                                  !.at = IF AuthorDoes(c, {"send"}) THEN "send" ELSE "load"]
<1>1. author[c].at = "list" /\ author[c] \in AuthorRecord /\ CommandShape(author[c])
    BY DEF ListComments, AuthorAt, CommentsInvariant, CommandsShaped, CommentsTyped
<1>2. UNCHANGED <<reviewFiles, reviewCommands, reviewTrouble, added, discarded, sent, overlapped>>
    BY DEF ListComments
<1>3. mayRepeat \subseteq mayRepeat' /\ reviewTrouble' \in 0 .. MaxReviewTrouble
    <2>1. mayRepeat \subseteq mayRepeat'
        BY DEF ListComments
    <2>2. UNCHANGED reviewTrouble
        BY <1>2
    <2> QED BY <2>1, <2>2, TroubleCounted
<1>4. CASE Done(c)
    <2>1. ~Clearing(c)
        BY <1>1 DEF Clearing
    <2> QED BY <1>2, <1>3, <1>4, <2>1, DoneKeeps
<1>5. CASE Turn(c, a)
    <2>1. load \subseteq Comment /\ listed \subseteq OfSlice(Comment, s) /\ listed \subseteq load
        BY LoadIsComments DEF CommentsInvariant, OfSlice
    <2>2. a \in AuthorRecord /\ a.op = author[c].op /\ a.of = author[c].of /\ a.fd = author[c].fd
          /\ a.listed = listed /\ a.at = (IF author[c].op = "send" THEN "send" ELSE "load")
        BY <1>1, <2>1 DEF AuthorRecord, AuthorDoes, OfSlice
    <2>3. author[c].op = "send" => s = author[c].of
        BY DEF AuthorDoes
    <2>4. CommandShape(a)
        BY <1>1, <2>1, <2>2, <2>3 DEF CommandShape
    <2>5. Sender(c) => \A x \in listed : (\E d \in Author \ {c} : Sender(d) /\ x \in author[d].listed)
                                           => x \in mayRepeat'
        BY DEF ListComments, Sender, AuthorDoes
    <2> HIDE DEF a, listed
    <2>6. author' \in [Author -> AuthorRecord] /\ CommandsShaped' /\ StoreSafe' /\ load' = load
          /\ author'[c] = a /\ \A d \in Author \ {c} : author'[d] = author[d]
        BY <1>2, <1>5, <2>2, <2>4, QuietStep
    <2>7. CommentsTyped'
        BY <1>2, <2>6 DEF CommentsInvariant, CommentsTyped, reviewFiles
    <2>8. \A d \in Author : /\ (Sender(d))' <=> Sender(d)
                            /\ d # c => ((Clearing(d))' <=> Clearing(d))
        BY <2>2, <2>6 DEF Sender, Clearing
    <2>9. Sender(c) => ~Clearing(c) /\ ~(Clearing(c))' /\ author'[c].at = "send"
        BY <1>1, <2>2, <2>6 DEF Sender, Clearing
    <2>10. SentOut'
        BY <1>2, <2>6, <2>8, <2>9 DEF CommentsInvariant, SentOut
    <2>11. AddedKept'
        BY <1>2, <2>6 DEF CommentsInvariant, AddedKept
    <2>12. RepeatsKnown'
        <3> SUFFICES ASSUME ~overlapped
                     PROVE  /\ \A x \in Comment : sent[x] > 1 => x \in mayRepeat'
                            /\ \A d, e \in Author : Sender(d) /\ Sender(e) /\ d # e =>
                                  author'[d].listed \cap author'[e].listed \subseteq mayRepeat'
                            /\ \A x \in load : sent[x] > 0 =>
                                  \/ x \in mayRepeat'
                                  \/ \E d \in Author : Sender(d) /\ (Clearing(d))' /\ x \in author'[d].listed
                            /\ \A d \in Author : author'[d].at = "send" =>
                                  \A x \in author'[d].listed : sent[x] > 0 => x \in mayRepeat'
            BY <1>2, <2>6, <2>8 DEF RepeatsKnown
        <3>1. RepeatsKnown
            BY DEF CommentsInvariant
        <3>2. \A x \in Comment : sent[x] > 1 => x \in mayRepeat'
            BY <1>3, <3>1 DEF RepeatsKnown
        <3>3. \A d, e \in Author : Sender(d) /\ Sender(e) /\ d # e =>
                  author'[d].listed \cap author'[e].listed \subseteq mayRepeat'
            BY <1>3, <2>2, <2>5, <2>6, <3>1 DEF RepeatsKnown
        <3>4. \A x \in load : sent[x] > 0 =>
                  \/ x \in mayRepeat'
                  \/ \E d \in Author : Sender(d) /\ (Clearing(d))' /\ x \in author'[d].listed
            BY <1>3, <2>6, <2>8, <2>9, <3>1 DEF RepeatsKnown
        <3>5. Sender(c) => \A x \in listed : sent[x] > 0 => x \in mayRepeat'
            BY <1>3, <2>1, <2>5, <2>9, <3>1 DEF RepeatsKnown
        <3>6. author'[c].at = "send" => Sender(c)
            BY <2>2, <2>6 DEF Sender
        <3>7. \A d \in Author : author'[d].at = "send" =>
                  \A x \in author'[d].listed : sent[x] > 0 => x \in mayRepeat'
            BY <1>3, <2>2, <2>6, <3>1, <3>5, <3>6 DEF RepeatsKnown
        <3> QED BY <3>2, <3>3, <3>4, <3>7
    <2> QED BY <2>6, <2>7, <2>10, <2>11, <2>12 DEF CommentsInvariant
<1> QED BY <1>4, <1>5 DEF ListComments

\* A send delivers what it listed: for the first time, or it is known to repeat.
LEMMA SendKeeps ==
    ASSUME CommentsInvariant, NEW c \in Author, SendComments(c)
    PROVE  CommentsInvariant'
<1>1. author[c].at = "send" /\ author[c] \in AuthorRecord /\ CommandShape(author[c]) /\ Sender(c)
      /\ ~Clearing(c) /\ UNCHANGED <<reviewFiles, reviewCommands, added, discarded, overlapped>>
    BY DEF SendComments, AuthorAt, CommentsInvariant, CommandsShaped, CommentsTyped,
       CommandShape, Sender, Clearing
<1>2. reviewTrouble' \in 0 .. MaxReviewTrouble
    BY TroubleCounted DEF SendComments
<1>3. CASE Done(c) /\ UNCHANGED <<reviewTrouble, sent, mayRepeat>>
    BY <1>1, <1>2, <1>3, DoneKeeps
<1>4. CASE /\ sent' = [x \in Comment |-> IF x \in author[c].listed THEN sent[x] + 1 ELSE sent[x]]
           /\ \/ Done(c) /\ mayRepeat' = mayRepeat \cup author[c].listed
              \/ Turn(c, [author[c] EXCEPT !.at = "load"]) /\ mayRepeat' = mayRepeat
    <2> DEFINE listed == author[c].listed
               a == [author[c] EXCEPT !.at = "load"]
               b == IF Done(c) THEN NoAuthor ELSE a
    <2>1. \/ Done(c) /\ mayRepeat' = mayRepeat \cup listed
          \/ Turn(c, a) /\ mayRepeat' = mayRepeat /\ ~Done(c)
        <3>1. NoAuthor.at = "idle" /\ a.at = "load"
            BY <1>1 DEF NoAuthor, AuthorRecord
        <3>2. author \in [Author -> AuthorRecord]
            BY DEF CommentsInvariant, CommentsTyped
        <3>3. ~(Turn(c, a) /\ Done(c))
            BY <3>1, <3>2 DEF Turn, Done
        <3>4. \/ Done(c) /\ mayRepeat' = mayRepeat \cup listed
              \/ Turn(c, a) /\ mayRepeat' = mayRepeat
            BY <1>4
        <3> QED BY <3>3, <3>4
    <2>2. Turn(c, b) /\ b \in AuthorRecord /\ CommandShape(b) /\ b.at \in {"idle", "load"}
          /\ b.listed \subseteq listed
          /\ (b.op = "send" /\ b.at = "load" => b.listed = listed)
          /\ (b.at = "idle" => b.listed = {} /\ mayRepeat' = mayRepeat \cup listed)
          /\ (b.at = "load" => b.op = "send" /\ b.listed = listed /\ mayRepeat' = mayRepeat)
        <3>1. CASE Done(c)
            BY <2>1, <3>1, NobodyShaped DEF Done, NoAuthor
        <3>2. CASE ~Done(c)
            <4>1. a \in AuthorRecord /\ a.op = "send" /\ a.of = author[c].of /\ a.fd = NoComment
                  /\ a.listed = listed /\ a.at = "load"
                BY <1>1 DEF AuthorRecord, CommandShape, Sender
            <4>2. CommandShape(a)
                BY <1>1, <4>1 DEF CommandShape
            <4> HIDE DEF a
            <4> QED BY <2>1, <3>2, <4>1, <4>2
        <3> QED BY <3>1, <3>2
    <2> HIDE DEF a, b
    <2>3. author' \in [Author -> AuthorRecord] /\ CommandsShaped' /\ StoreSafe' /\ load' = load
          /\ author'[c] = b /\ \A d \in Author \ {c} : author'[d] = author[d]
        BY <1>1, <2>2, QuietStep
    <2>4. listed \subseteq Comment /\ sent \in [Comment -> Nat]
        BY <1>1 DEF AuthorRecord, CommentsInvariant, CommentsTyped
    <2>5. sent' \in [Comment -> Nat]
          /\ \A x \in Comment : /\ sent[x] \in Nat
                                /\ sent'[x] = IF x \in listed THEN sent[x] + 1 ELSE sent[x]
        BY <1>4, <2>4
    <2>6. CommentsTyped'
        BY <1>1, <1>2, <2>3, <2>5 DEF CommentsInvariant, CommentsTyped, reviewFiles
    <2>7. \A d \in Author \ {c} : /\ (Sender(d))' <=> Sender(d)
                                  /\ (Clearing(d))' <=> Clearing(d)
        BY <2>3 DEF Sender, Clearing
    <2>8. \A x \in Comment : /\ sent[x] > 0 => sent'[x] > 0
                             /\ x \in listed => sent'[x] > 0
                             /\ x \notin listed => sent'[x] = sent[x]
                             /\ sent'[x] > 1 => sent[x] > 0
        BY <2>5
    <2> HIDE DEF listed
    <2>9. SentOut'
        <3> SUFFICES ASSUME NEW d \in Author, (Sender(d))', (Clearing(d))', NEW x \in author'[d].listed
                     PROVE  sent'[x] > 0
            BY DEF SentOut
        <3>1. x \in Comment
            BY <2>3 DEF AuthorRecord
        <3>2. CASE d = c
            BY <2>2, <2>3, <2>8, <3>1, <3>2
        <3>3. CASE d # c
            BY <2>3, <2>7, <2>8, <3>1, <3>3 DEF CommentsInvariant, SentOut
        <3> QED BY <3>2, <3>3
    <2>10. AddedKept'
        <3>1. \A x \in added : sent[x] > 0 => sent'[x] > 0
            BY <2>8 DEF CommentsInvariant, CommentsTyped
        <3> QED BY <1>1, <2>3, <3>1 DEF CommentsInvariant, AddedKept
    <2>11. RepeatsKnown'
        <3> SUFFICES ASSUME ~overlapped
                     PROVE  /\ \A x \in Comment : sent'[x] > 1 => x \in mayRepeat'
                            /\ \A d, e \in Author : (Sender(d))' /\ (Sender(e))' /\ d # e =>
                                  author'[d].listed \cap author'[e].listed \subseteq mayRepeat'
                            /\ \A x \in load : sent'[x] > 0 =>
                                  \/ x \in mayRepeat'
                                  \/ \E d \in Author : (Sender(d))' /\ (Clearing(d))' /\ x \in author'[d].listed
                            /\ \A d \in Author : author'[d].at = "send" =>
                                  \A x \in author'[d].listed : sent'[x] > 0 => x \in mayRepeat'
            BY <1>1, <2>3 DEF RepeatsKnown
        <3>1. RepeatsKnown /\ mayRepeat \subseteq mayRepeat'
            BY <2>2 DEF CommentsInvariant
        <3>2. \A x \in Comment : sent'[x] > 1 => x \in mayRepeat'
            <4> SUFFICES ASSUME NEW x \in Comment, sent'[x] > 1 PROVE x \in mayRepeat'
                OBVIOUS
            <4>1. CASE x \in listed
                BY <1>1, <2>8, <3>1, <4>1 DEF RepeatsKnown, listed
            <4>2. CASE x \notin listed
                BY <2>8, <3>1, <4>2 DEF RepeatsKnown
            <4> QED BY <4>1, <4>2
        <3>3. \A d, e \in Author : (Sender(d))' /\ (Sender(e))' /\ d # e =>
                  author'[d].listed \cap author'[e].listed \subseteq mayRepeat'
            <4>1. \A d \in Author : /\ (Sender(d))' => Sender(d) \/ author'[d].listed = {}
                                    /\ author'[d].listed \subseteq author[d].listed
                BY <1>1, <2>2, <2>3, <2>7 DEF Sender, listed
            <4> QED BY <3>1, <4>1 DEF RepeatsKnown
        <3>4. \A x \in load : sent'[x] > 0 =>
                  \/ x \in mayRepeat'
                  \/ \E d \in Author : (Sender(d))' /\ (Clearing(d))' /\ x \in author'[d].listed
            <4> SUFFICES ASSUME NEW x \in load, sent'[x] > 0, x \notin mayRepeat'
                         PROVE  \E d \in Author : (Sender(d))' /\ (Clearing(d))' /\ x \in author'[d].listed
                OBVIOUS
            <4>1. x \in Comment
                BY LoadIsComments DEF CommentsInvariant
            <4>2. CASE x \in listed
                <5>1. b.at = "load"
                    BY <2>2, <4>2
                <5> QED BY <2>2, <2>3, <4>2, <5>1 DEF Sender, Clearing
            <4>3. CASE x \notin listed
                <5>1. sent[x] > 0 /\ x \notin mayRepeat
                    BY <2>8, <3>1, <4>1, <4>3
                <5>2. PICK d \in Author : Sender(d) /\ Clearing(d) /\ x \in author[d].listed
                    BY <3>1, <5>1 DEF RepeatsKnown
                <5>3. d # c
                    BY <1>1, <5>2
                <5> QED BY <2>3, <2>7, <5>2, <5>3
            <4> QED BY <4>2, <4>3
        <3>5. \A d \in Author : author'[d].at = "send" =>
                  \A x \in author'[d].listed : sent'[x] > 0 => x \in mayRepeat'
            <4> SUFFICES ASSUME NEW d \in Author, author'[d].at = "send",
                                NEW x \in author'[d].listed, sent'[x] > 0
                         PROVE  x \in mayRepeat'
                OBVIOUS
            <4>1. d # c
                BY <2>2, <2>3
            <4>2. author[d].at = "send" /\ x \in author[d].listed /\ x \in Comment
                BY <2>3, <4>1 DEF AuthorRecord
            <4>3. Sender(d)
                BY <4>2 DEF CommentsInvariant, CommandsShaped, CommandShape, Sender
            <4>4. CASE x \in listed
                BY <1>1, <3>1, <4>1, <4>2, <4>3, <4>4 DEF RepeatsKnown, listed
            <4>5. CASE x \notin listed
                BY <2>8, <3>1, <4>2, <4>5 DEF RepeatsKnown
            <4> QED BY <4>4, <4>5
        <3> QED BY <3>2, <3>3, <3>4, <3>5
    <2> QED BY <2>3, <2>6, <2>9, <2>10, <2>11 DEF CommentsInvariant
<1> QED BY <1>3, <1>4 DEF SendComments

-----------------------------------------------------------------------------
\* A command that is to save its change of the store: alone, or overlapped.
LEMMA RewriteKeeps ==
    ASSUME CommentsInvariant, NEW c \in Author, author[c].at = "load",
           NEW comments \in SUBSET Comment, comments = After(c), Rewrite(c, comments),
           UNCHANGED <<reviewFiles, reviewCommands, reviewTrouble, discarded, sent>>
    PROVE  CommentsInvariant'
<1> DEFINE a == [author[c] EXCEPT !.at = "open", !.write = comments]
<1>1. Turn(c, a) /\ UNCHANGED <<added, mayRepeat>>
      /\ overlapped' = (overlapped \/ \E d \in Author \ {c} : Saving(d))
    BY DEF Rewrite
<1>2. author[c] \in AuthorRecord /\ CommandShape(author[c])
    BY DEF CommentsInvariant, CommandsShaped, CommentsTyped
<1>3. a \in AuthorRecord /\ a.at = "open" /\ a.op = author[c].op /\ a.of = author[c].of
      /\ a.listed = author[c].listed /\ a.fd = author[c].fd /\ a.write = comments
    BY <1>2 DEF AuthorRecord
<1>4. CommandShape(a)
    BY <1>2, <1>3 DEF CommandShape
<1> HIDE DEF a
<1>5. author' \in [Author -> AuthorRecord] /\ CommandsShaped'
      /\ author'[c] = a /\ \A d \in Author \ {c} : author'[d] = author[d]
    BY <1>1, <1>3, <1>4, TurnKeepsShape
<1>6. CommentsTyped'
    BY <1>1, <1>5 DEF CommentsInvariant, CommentsTyped, reviewFiles
<1>7. load' = load
    BY DEF load, reviewFiles
<1>8. \A d \in Author : /\ (Sender(d))' <=> Sender(d)
                        /\ (Clearing(d))' <=> Clearing(d)
                        /\ author'[d].listed = author[d].listed
                        /\ author'[d].at = "send" => author[d].at = "send"
                        /\ (After(d))' = After(d)
    BY <1>3, <1>5, <1>7 DEF Sender, Clearing, After
<1>9. SentOut'
    BY <1>8 DEF CommentsInvariant, SentOut
<1>10. AddedKept'
    BY <1>1, <1>7 DEF CommentsInvariant, AddedKept
<1>11. RepeatsKnown'
    BY <1>1, <1>7, <1>8 DEF CommentsInvariant, RepeatsKnown
<1>12. StoreSafe'
    <2> SUFFICES ASSUME ~overlapped'
                 PROVE  /\ \A d, e \in Author : (Saving(d))' /\ (Saving(e))' => d = e
                        /\ stored # NoComment => stored # temp /\ ~inode[stored].torn
                        /\ \A d \in Author :
                              /\ author'[d].at = "write" => author'[d].fd = temp /\ inode[temp] = Whole({})
                              /\ author'[d].at = "rename" =>
                                    temp # NoComment /\ inode[temp] = Whole(author'[d].write)
                              /\ (Saving(d))' => author'[d].write = (After(d))'
        BY DEF StoreSafe, reviewFiles
    <2>1. StoreSafe /\ ~overlapped /\ \A d \in Author \ {c} : ~Saving(d)
        BY <1>1 DEF CommentsInvariant
    <2>2. \A d \in Author : (Saving(d))' => d = c
        BY <1>5, <2>1 DEF Saving
    <2>3. \A d \in Author \ {c} : author'[d].at \notin {"write", "rename"}
        BY <2>2 DEF Saving
    <2>4. author'[c].at = "open" /\ author'[c].write = (After(c))'
        BY <1>3, <1>5, <1>8
    <2> QED BY <2>1, <2>2, <2>3, <2>4 DEF StoreSafe
<1> QED BY <1>5, <1>6, <1>9, <1>10, <1>11, <1>12 DEF CommentsInvariant

\* A comment is added that is there, or to be; the store cannot be read.
LEMMA AddKeeps ==
    ASSUME CommentsInvariant, NEW c \in Author, AddComment(c)
    PROVE  CommentsInvariant'
<1>1. author[c].op = "add" /\ author[c].at = "load" /\ author[c] \in AuthorRecord
      /\ author[c].of \in Comment /\ load \subseteq Comment
      /\ UNCHANGED <<reviewFiles, reviewCommands, reviewTrouble, discarded, sent>>
    BY LoadIsComments
    DEF AddComment, AuthorDoes, AuthorAt, CommentsInvariant, CommandsShaped, CommandShape, CommentsTyped
<1>2. reviewTrouble' \in 0 .. MaxReviewTrouble
    BY <1>1, TroubleCounted
<1>3. CASE GiveUp(c) /\ UNCHANGED added
    <2>1. Done(c) /\ UNCHANGED overlapped /\ mayRepeat \subseteq mayRepeat'
          /\ (Sender(c) /\ Clearing(c) => author[c].listed \subseteq mayRepeat')
        BY <1>3, GivesUp
    <2> QED BY <1>1, <1>2, <1>3, <2>1, DoneKeeps
<1>4. CASE author[c].of \in load /\ Done(c) /\ added' = added \cup {author[c].of}
           /\ UNCHANGED <<mayRepeat, overlapped>>
    <2>1. StoreSafe' /\ load' = load /\ author' \in [Author -> AuthorRecord] /\ CommandsShaped'
          /\ author'[c] = NoAuthor /\ \A d \in Author \ {c} : author'[d] = author[d]
        <3>1. NoAuthor.at = "idle"
            BY DEF NoAuthor
        <3> QED BY <1>1, <1>4, <3>1, NobodyShaped, QuietStep DEF Done
    <2>2. author'[c].at = "idle" /\ author'[c].listed = {}
        BY <2>1 DEF NoAuthor
    <2>3. CommentsTyped'
        BY <1>1, <1>4, <2>1 DEF CommentsInvariant, CommentsTyped, reviewFiles
    <2>4. SentOut'
        BY <1>1, <2>1, <2>2 DEF CommentsInvariant, SentOut, Sender, Clearing
    <2>5. AddedKept'
        BY <1>1, <1>4, <2>1 DEF CommentsInvariant, AddedKept
    <2>6. RepeatsKnown'
        <3>1. ~Sender(c)
            BY <1>1 DEF Sender
        <3>2. \A d \in Author \ {c} : /\ (Sender(d))' <=> Sender(d)
                                      /\ (Clearing(d))' <=> Clearing(d)
                                      /\ author'[d] = author[d]
            BY <2>1 DEF Sender, Clearing
        <3> QED BY <1>1, <1>4, <2>1, <2>2, <3>1, <3>2 DEF CommentsInvariant, RepeatsKnown
    <2> QED BY <2>1, <2>3, <2>4, <2>5, <2>6 DEF CommentsInvariant
<1>5. CASE Rewrite(c, load \cup {author[c].of})
    <2>1. After(c) = load \cup {author[c].of} /\ load \cup {author[c].of} \in SUBSET Comment
        BY <1>1 DEF After
    <2> QED BY <1>1, <1>5, <2>1, RewriteKeeps
<1> QED BY <1>3, <1>4, <1>5 DEF AddComment

\* A comment is removed, or the comments of a slice are.
LEMMA DropKeeps ==
    ASSUME CommentsInvariant, NEW c \in Author, RemoveComment(c) \/ ClearComments(c)
    PROVE  CommentsInvariant'
<1>1. author[c].at = "load" /\ author[c] \in AuthorRecord /\ load \subseteq Comment
      /\ UNCHANGED <<reviewFiles, reviewCommands, reviewTrouble, discarded, sent>>
    BY LoadIsComments DEF RemoveComment, ClearComments, AuthorAt, CommentsInvariant,
       CommentsTyped
<1>2. reviewTrouble' \in 0 .. MaxReviewTrouble
    BY <1>1, TroubleCounted
<1>3. CASE GiveUp(c) /\ UNCHANGED added
    <2>1. Done(c) /\ UNCHANGED overlapped /\ mayRepeat \subseteq mayRepeat'
          /\ (Sender(c) /\ Clearing(c) => author[c].listed \subseteq mayRepeat')
        BY <1>3, GivesUp
    <2> QED BY <1>1, <1>2, <1>3, <2>1, DoneKeeps
<1>4. CASE author[c].op = "rm" /\ Rewrite(c, load \ {author[c].of})
    <2>1. After(c) = load \ {author[c].of} /\ load \ {author[c].of} \in SUBSET Comment
        BY <1>1, <1>4 DEF After
    <2> QED BY <1>1, <1>4, <2>1, RewriteKeeps
<1>5. CASE author[c].op \in {"clear", "send"} /\ Rewrite(c, load \ OfSlice(load, author[c].of))
    <2>1. After(c) = load \ OfSlice(load, author[c].of)
          /\ load \ OfSlice(load, author[c].of) \in SUBSET Comment
        BY <1>1, <1>5 DEF After
    <2> QED BY <1>1, <1>5, <2>1, RewriteKeeps
<1> QED BY <1>3, <1>4, <1>5 DEF RemoveComment, ClearComments, AuthorDoes

-----------------------------------------------------------------------------
\* There is an inode for the temporary file: of those that are held open one is
\* the store's, and the process that is about to open has none.
LEMMA FreeInodeIsFree ==
    ASSUME CommentsTyped, NEW c \in Author, author[c].fd = NoComment, temp = NoComment
    PROVE  FreeInode \in Inode /\ FreeInode \notin HeldOpen
<1> DEFINE n == Cardinality(Author)
           F == {author[d].fd : d \in Author \ {c}}
<1>1. IsFiniteSet(Author) /\ n \in Nat /\ IsFiniteSet(Author \ {c}) /\ Cardinality(Author \ {c}) = n - 1
    BY CommentAssumption, FS_CardinalityType, FS_RemoveElement
<1>2. IsFiniteSet(F) /\ Cardinality(F) <= n - 1
    <2> DEFINE f == [d \in Author \ {c} |-> author[d].fd]
    <2>1. f \in Surjection(Author \ {c}, F)
        <3>1. f \in [Author \ {c} -> F]
            OBVIOUS
        <3>2. \A t \in F : \E d \in Author \ {c} : f[d] = t
            OBVIOUS
        <3> QED BY <3>1, <3>2 DEF Surjection
    <2> QED BY <1>1, <2>1, FS_Surjection
<1>3. IsFiniteSet(F \cup {stored}) /\ Cardinality(F \cup {stored}) <= n
    <2>1. IsFiniteSet(F \cup {stored})
          /\ Cardinality(F \cup {stored}) = IF stored \in F THEN Cardinality(F) ELSE Cardinality(F) + 1
        BY <1>2, FS_AddElement
    <2>2. Cardinality(F) \in Nat
        BY <1>2, FS_CardinalityType
    <2> HIDE DEF n, F
    <2> QED BY <1>1, <1>2, <2>1, <2>2
<1>4. IsFiniteSet(Inode) /\ Cardinality(Inode) = n + 2
    <2>1. n + 2 \in Int /\ 1 <= n + 2
        BY <1>1
    <2>2. IsFiniteSet(1 .. n + 2) /\ Cardinality(1 .. n + 2) = IF 1 > n + 2 THEN 0 ELSE (n + 2) - 1 + 1
        BY <2>1, FS_Interval
    <2> HIDE DEF n
    <2>3. IsFiniteSet(1 .. n + 2) /\ Cardinality(1 .. n + 2) = n + 2
        BY <1>1, <2>1, <2>2
    <2> QED BY <2>3 DEF Inode, n
<1>5. ~(Inode \subseteq F \cup {stored})
    <2> SUFFICES ASSUME Inode \subseteq F \cup {stored} PROVE FALSE
        OBVIOUS
    <2>1. Cardinality(Inode) <= Cardinality(F \cup {stored})
        BY <1>3, FS_Subset
    <2>2. Cardinality(F \cup {stored}) \in Nat
        BY <1>3, FS_CardinalityType
    <2> HIDE DEF n, F
    <2> QED BY <1>1, <1>3, <1>4, <2>1, <2>2
<1>6. PICK i \in Inode : i \notin F \cup {stored}
    BY <1>5
<1>7. i \notin HeldOpen
    <2>1. i # NoComment
        BY CommentAssumption
    <2>2. \A d \in Author : author[d].fd = i => d = c
        BY <1>6
    <2> QED BY <1>6, <2>1, <2>2 DEF HeldOpen
<1> QED BY <1>6, <1>7 DEF FreeInode

\* A writer that nobody saves beside opens an inode that is not the store's.
LEMMA OpensKeeps ==
    ASSUME CommentsInvariant, NEW c \in Author, SaveOpens(c)
    PROVE  CommentsInvariant'
<1> DEFINE i == IF temp = NoComment THEN FreeInode ELSE temp
           a == [author[c] EXCEPT !.at = "write", !.fd = i]
<1>1. author[c].at = "open" /\ author[c] \in AuthorRecord /\ CommandShape(author[c])
      /\ temp' = i /\ inode' = [inode EXCEPT ![i] = Whole({})] /\ Turn(c, a)
      /\ UNCHANGED <<stored, reviewCommands, reviewTrouble, reviewGhosts>>
    BY DEF SaveOpens, AuthorAt, CommentsInvariant, CommandsShaped, CommentsTyped
<1>2. i \in Inode /\ i # NoComment /\ (temp = NoComment => i # stored)
    <2>1. CASE temp = NoComment
        <3>1. author[c].fd = NoComment
            BY <1>1 DEF CommandShape
        <3>2. FreeInode \in Inode /\ FreeInode \notin HeldOpen
            BY <2>1, <3>1, FreeInodeIsFree DEF CommentsInvariant
        <3>3. stored \in HeldOpen
            BY DEF HeldOpen
        <3> QED BY <2>1, <3>2, <3>3, CommentAssumption
    <2>2. CASE temp # NoComment
        BY <2>2 DEF CommentsInvariant, CommentsTyped
    <2> QED BY <2>1, <2>2
<1> HIDE DEF i
<1>3. a \in AuthorRecord /\ a.at = "write" /\ a.op = author[c].op /\ a.of = author[c].of
      /\ a.listed = author[c].listed /\ a.fd = i /\ a.write = author[c].write
    BY <1>1, <1>2 DEF AuthorRecord
<1>4. CommandShape(a)
    BY <1>1, <1>2, <1>3 DEF CommandShape
<1> HIDE DEF a
<1>5. author' \in [Author -> AuthorRecord] /\ CommandsShaped'
      /\ author'[c] = a /\ \A d \in Author \ {c} : author'[d] = author[d]
    BY <1>1, <1>3, <1>4, TurnKeepsShape
<1>6. Whole({}) \in Content /\ inode \in [Inode -> Content]
    BY DEF Whole, Content, CommentsInvariant, CommentsTyped
<1>7. inode' \in [Inode -> Content] /\ inode'[i] = Whole({})
      /\ \A j \in Inode \ {i} : inode'[j] = inode[j]
    BY <1>1, <1>2, <1>6
<1>8. CommentsTyped'
    BY <1>1, <1>2, <1>5, <1>7 DEF CommentsInvariant, CommentsTyped, reviewGhosts
<1>9. ~overlapped => load' = load /\ (stored # NoComment => stored # i /\ inode'[stored] = inode[stored])
    <2>1. ~overlapped /\ stored # NoComment => stored # i
        BY <1>2 DEF i, CommentsInvariant, StoreSafe
    <2>2. stored \in Inode \cup {NoComment}
        BY DEF CommentsInvariant, CommentsTyped
    <2> QED BY <1>1, <1>7, <2>1, <2>2 DEF load
<1>10. \A d \in Author : /\ (Sender(d))' <=> Sender(d)
                         /\ (Clearing(d))' <=> Clearing(d)
                         /\ author'[d].listed = author[d].listed
                         /\ author'[d].at = "send" => author[d].at = "send"
                         /\ (Saving(d))' <=> Saving(d)
                         /\ author'[d].write = author[d].write
                         /\ ~overlapped => (After(d))' = After(d)
    BY <1>1, <1>3, <1>5, <1>9 DEF Sender, Clearing, Saving, After
<1>11. SentOut'
    BY <1>1, <1>10 DEF CommentsInvariant, SentOut, reviewGhosts
<1>12. AddedKept'
    BY <1>1, <1>9 DEF CommentsInvariant, AddedKept, reviewGhosts
<1>13. RepeatsKnown'
    BY <1>1, <1>9, <1>10 DEF CommentsInvariant, RepeatsKnown, reviewGhosts
<1>14. StoreSafe'
    <2> SUFFICES ASSUME ~overlapped
                 PROVE  /\ \A d, e \in Author : (Saving(d))' /\ (Saving(e))' => d = e
                        /\ stored # NoComment => stored # i /\ ~inode'[stored].torn
                        /\ \A d \in Author :
                              /\ author'[d].at = "write" => author'[d].fd = i /\ inode'[i] = Whole({})
                              /\ author'[d].at = "rename" =>
                                    i # NoComment /\ inode'[i] = Whole(author'[d].write)
                              /\ (Saving(d))' => author'[d].write = (After(d))'
        BY <1>1 DEF StoreSafe, reviewGhosts
    <2>1. StoreSafe
        BY DEF CommentsInvariant
    <2>2. Saving(c)
        BY <1>1 DEF Saving
    <2>3. \A d \in Author \ {c} : author'[d].at \notin {"write", "rename"}
        BY <1>5, <2>1, <2>2 DEF StoreSafe, Saving
    <2>4. author'[c].at = "write" /\ author'[c].fd = i
        BY <1>3, <1>5
    <2>5. \A d, e \in Author : (Saving(d))' /\ (Saving(e))' => d = e
        BY <1>10, <2>1 DEF StoreSafe
    <2>6. \A d \in Author : (Saving(d))' => author'[d].write = (After(d))'
        BY <1>10, <2>1 DEF StoreSafe
    <2>7. stored # NoComment => stored # i /\ ~inode'[stored].torn
        BY <1>9, <2>1 DEF StoreSafe
    <2> QED BY <1>7, <2>3, <2>4, <2>5, <2>6, <2>7
<1> QED BY <1>5, <1>8, <1>11, <1>12, <1>13, <1>14 DEF CommentsInvariant

\* It writes there, wholly unless the disk is full.
LEMMA WritesKeeps ==
    ASSUME CommentsInvariant, NEW c \in Author, SaveWrites(c)
    PROVE  CommentsInvariant'
<1> DEFINE i == author[c].fd
           torn == [torn |-> TRUE, comments |-> {}]
<1>1. author[c].at = "write" /\ author[c] \in AuthorRecord /\ CommandShape(author[c])
      /\ i \in Inode /\ Saving(c) /\ Clearing(c)
      /\ UNCHANGED <<stored, temp, reviewCommands, added, discarded, sent>>
    BY DEF SaveWrites, AuthorAt, CommentsInvariant, CommandsShaped, CommentsTyped, CommandShape,
           Saving, Clearing
<1>2. ~overlapped => i = temp /\ inode[temp] = Whole({}) /\ stored # i
      /\ (stored # NoComment => ~inode[stored].torn)
      /\ \A d \in Author \ {c} : ~Saving(d)
    <2>1. StoreSafe
        BY DEF CommentsInvariant
    <2>2. ~overlapped => i = temp /\ inode[temp] = Whole({})
        BY <1>1, <2>1 DEF StoreSafe
    <2>3. i # NoComment
        BY <1>1, CommentAssumption
    <2>4. ~overlapped => (stored # NoComment => stored # temp /\ ~inode[stored].torn)
        BY <2>1 DEF StoreSafe
    <2>5. ~overlapped => \A d \in Author \ {c} : ~Saving(d)
        BY <1>1, <2>1 DEF StoreSafe
    <2> QED BY <2>2, <2>3, <2>4, <2>5
<1>3. torn \in Content /\ Whole(author[c].write) \in Content /\ inode \in [Inode -> Content]
      /\ stored \in Inode \cup {NoComment}
    BY <1>1 DEF Whole, Content, CommentsInvariant, CommentsTyped, AuthorRecord
<1>4. CASE /\ \E now \in {Whole(author[c].write)} \cup (IF inode[i] \in {Whole({}), Whole(author[c].write)}
                                                        THEN {} ELSE {torn}) :
                    inode' = [inode EXCEPT ![i] = now]
           /\ Turn(c, [author[c] EXCEPT !.at = "rename", !.fd = NoComment])
           /\ UNCHANGED <<reviewTrouble, mayRepeat, overlapped>>
    <2> DEFINE a == [author[c] EXCEPT !.at = "rename", !.fd = NoComment]
    <2>1. PICK now \in {Whole(author[c].write)} \cup (IF inode[i] \in {Whole({}), Whole(author[c].write)}
                                                      THEN {} ELSE {torn}) :
              inode' = [inode EXCEPT ![i] = now]
        BY <1>4
    <2>2. now \in Content /\ (~overlapped => now = Whole(author[c].write))
        BY <1>2, <1>3
    <2>3. a \in AuthorRecord /\ a.at = "rename" /\ a.op = author[c].op /\ a.of = author[c].of
          /\ a.listed = author[c].listed /\ a.fd = NoComment /\ a.write = author[c].write
        BY <1>1 DEF AuthorRecord
    <2>4. CommandShape(a)
        BY <1>1, <2>3 DEF CommandShape
    <2> HIDE DEF a
    <2>5. author' \in [Author -> AuthorRecord] /\ CommandsShaped'
          /\ author'[c] = a /\ \A d \in Author \ {c} : author'[d] = author[d]
        BY <1>4, <2>3, <2>4, TurnKeepsShape DEF a
    <2>6. inode' \in [Inode -> Content] /\ inode'[i] = now
          /\ \A j \in Inode \ {i} : inode'[j] = inode[j]
        BY <1>1, <1>3, <2>1, <2>2
    <2>7. CommentsTyped'
        BY <1>1, <1>4, <2>5, <2>6 DEF CommentsInvariant, CommentsTyped
    <2>8. ~overlapped => load' = load /\ (stored # NoComment => inode'[stored] = inode[stored])
        BY <1>1, <1>2, <1>3, <2>6 DEF load
    <2>9. \A d \in Author : /\ (Sender(d))' <=> Sender(d)
                            /\ (Clearing(d))' <=> Clearing(d)
                            /\ author'[d].listed = author[d].listed
                            /\ author'[d].at = "send" => author[d].at = "send"
                            /\ (Saving(d))' <=> Saving(d)
                            /\ author'[d].write = author[d].write
                            /\ ~overlapped => (After(d))' = After(d)
        BY <1>1, <2>3, <2>5, <2>8 DEF Sender, Clearing, Saving, After
    <2>10. SentOut'
        BY <1>1, <2>9 DEF CommentsInvariant, SentOut
    <2>11. AddedKept'
        BY <1>1, <1>4, <2>8 DEF CommentsInvariant, AddedKept
    <2>12. RepeatsKnown'
        BY <1>1, <1>4, <2>8, <2>9 DEF CommentsInvariant, RepeatsKnown
    <2>13. StoreSafe'
        <3> SUFFICES ASSUME ~overlapped
                     PROVE  /\ \A d, e \in Author : (Saving(d))' /\ (Saving(e))' => d = e
                            /\ stored # NoComment => stored # temp /\ ~inode'[stored].torn
                            /\ \A d \in Author :
                                  /\ author'[d].at = "write" =>
                                        author'[d].fd = temp /\ inode'[temp] = Whole({})
                                  /\ author'[d].at = "rename" =>
                                        temp # NoComment /\ inode'[temp] = Whole(author'[d].write)
                                  /\ (Saving(d))' => author'[d].write = (After(d))'
            BY <1>1, <1>4 DEF StoreSafe
        <3>1. StoreSafe
            BY DEF CommentsInvariant
        <3>2. \A d \in Author \ {c} : author'[d].at \notin {"write", "rename"}
            BY <1>2, <2>5 DEF Saving
        <3>3. author'[c].at = "rename" /\ temp # NoComment /\ inode'[temp] = Whole(author'[c].write)
            BY <1>1, <1>2, <2>2, <2>3, <2>5, <2>6, CommentAssumption
        <3>4. \A d, e \in Author : (Saving(d))' /\ (Saving(e))' => d = e
            BY <2>9, <3>1 DEF StoreSafe
        <3>5. \A d \in Author : (Saving(d))' => author'[d].write = (After(d))'
            BY <2>9, <3>1 DEF StoreSafe
        <3>6. stored # NoComment => stored # temp /\ ~inode'[stored].torn
            BY <2>8, <3>1 DEF StoreSafe
        <3> QED BY <3>2, <3>3, <3>4, <3>5, <3>6
    <2> QED BY <2>5, <2>7, <2>10, <2>11, <2>12, <2>13 DEF CommentsInvariant
<1>5. CASE Trouble /\ GiveUp(c) /\ inode' = [inode EXCEPT ![i] = torn]
    <2>1. Done(c) /\ UNCHANGED overlapped /\ mayRepeat \subseteq mayRepeat'
          /\ (Sender(c) /\ Clearing(c) => author[c].listed \subseteq mayRepeat')
        BY <1>5, GivesUp
    <2>2. inode' \in [Inode -> Content] /\ \A j \in Inode \ {i} : inode'[j] = inode[j]
        BY <1>1, <1>3, <1>5
    <2>3. ~overlapped => load' = load /\ (stored # NoComment => inode'[stored] = inode[stored])
        BY <1>1, <1>2, <1>3, <2>2 DEF load
    <2>4. author' \in [Author -> AuthorRecord] /\ CommandsShaped'
          /\ author'[c] = NoAuthor /\ (\A d \in Author \ {c} : author'[d] = author[d])
          /\ SentOut' /\ AddedKept' /\ RepeatsKnown'
        BY <1>1, <2>1, <2>3, EndsQuietly
    <2>5. reviewTrouble' \in 0 .. MaxReviewTrouble
        BY <1>5, TroubleCounted
    <2>6. CommentsTyped'
        BY <1>1, <2>1, <2>2, <2>4, <2>5 DEF CommentsInvariant, CommentsTyped
    <2>7. StoreSafe'
        <3> SUFFICES ASSUME ~overlapped PROVE StoreSafe'
            BY <2>1 DEF StoreSafe
        <3>1. \A d \in Author : ~(Saving(d))'
            BY <1>2, <2>4 DEF Saving, NoAuthor
        <3>2. \A d \in Author : author'[d].at \notin {"write", "rename"}
            BY <3>1 DEF Saving
        <3>3. stored # NoComment => stored # temp /\ ~inode'[stored].torn
            BY <2>3 DEF CommentsInvariant, StoreSafe
        <3> QED BY <1>1, <3>1, <3>2, <3>3 DEF StoreSafe
    <2> QED BY <2>4, <2>6, <2>7 DEF CommentsInvariant
<1> QED BY <1>4, <1>5 DEF SaveWrites

\* What a save has done to the comments: no process but those at a send forgets
\* what was sent.
LEMMA SavedEffects ==
    ASSUME CommentsInvariant, NEW c \in Author, author[c].at = "rename", Saved(c)
    PROVE  /\ sent' \in [Comment -> Nat] /\ added' \subseteq Comment
           /\ \A d \in Author : Sender(d) => \A x \in author[d].listed : sent'[x] = sent[x]
           /\ \A x \in Comment : \/ sent'[x] = sent[x]
                                 \/ sent'[x] = 0 /\ author[c].op = "add" /\ x = author[c].of
           /\ \A x \in mayRepeat : x \in mayRepeat' \/ (sent'[x] = 0 /\ author[c].op = "add"
                                /\ x = author[c].of /\ \A d \in Author : Sender(d) => x \notin author[d].listed)
           /\ author[c].op = "add" /\ (\E d \in Author : Sender(d) /\ author[c].of \in author[d].listed)
                => author[c].of \in mayRepeat'
           /\ author[c].op = "add" /\ ~(\E d \in Author : Sender(d) /\ author[c].of \in author[d].listed)
                => sent'[author[c].of] = 0
           /\ author[c].op # "add" => UNCHANGED <<sent, added, mayRepeat>> /\ discarded \subseteq discarded'
           /\ author[c].op = "add" => /\ added' = added \cup {author[c].of}
                                      /\ discarded' = discarded \ {author[c].of}
           /\ author[c].op = "rm" => author[c].of \in discarded'
           /\ author[c].op = "clear" => OfSlice(Comment, author[c].of) \subseteq discarded'
           /\ author[c].op = "send" => OfSlice(Comment, author[c].of) \ author[c].listed \subseteq discarded'
<1>1. author[c] \in AuthorRecord /\ CommandShape(author[c])
      /\ sent \in [Comment -> Nat] /\ added \subseteq Comment
    BY DEF CommentsInvariant, CommentsTyped, CommandsShaped
<1>2. CASE author[c].op = "add"
    <2> DEFINE x == author[c].of
               again == \E d \in Author : Sender(d) /\ x \in author[d].listed
    <2>1. x \in Comment
        BY <1>1, <1>2 DEF CommandShape
    <2>2. /\ added' = added \cup {x} /\ discarded' = discarded \ {x}
          /\ sent' = IF again THEN sent ELSE [sent EXCEPT ![x] = 0]
          /\ mayRepeat' = IF again THEN mayRepeat \cup {x} ELSE mayRepeat \ {x}
        BY <1>2 DEF Saved, AuthorDoes, Sender
    <2>3. CASE again
        <3>1. sent' = sent /\ mayRepeat' = mayRepeat \cup {x}
            BY <2>2, <2>3
        <3> QED BY <1>1, <1>2, <2>1, <2>2, <2>3, <3>1
    <2>4. CASE ~again
        <3>1. sent' = [sent EXCEPT ![x] = 0] /\ mayRepeat' = mayRepeat \ {x}
            BY <2>2, <2>4
        <3>2. sent' \in [Comment -> Nat] /\ sent'[x] = 0 /\ \A y \in Comment \ {x} : sent'[y] = sent[y]
            BY <1>1, <2>1, <3>1
        <3>3. \A d \in Author : Sender(d) => \A y \in author[d].listed : y \in Comment /\ y # x
            BY <2>4 DEF CommentsInvariant, CommentsTyped, AuthorRecord
        <3> QED BY <1>1, <1>2, <2>1, <2>2, <2>4, <3>1, <3>2, <3>3
    <2> QED BY <2>3, <2>4
<1>3. CASE author[c].op = "rm"
    BY <1>1, <1>3 DEF Saved, AuthorDoes
<1>4. CASE author[c].op \in {"clear", "send"}
    <2>1. UNCHANGED <<added, sent, mayRepeat>>
          /\ discarded' = discarded \cup (IF author[c].op = "clear" THEN OfSlice(Comment, author[c].of)
                                          ELSE OfSlice(Comment, author[c].of) \ author[c].listed)
        BY <1>4 DEF Saved, AuthorDoes
    <2> QED BY <1>1, <1>4, <2>1
<1>5. author[c].op \in {"add", "rm", "clear", "send"}
    BY <1>1 DEF CommandShape
<1> QED BY <1>2, <1>3, <1>4, <1>5

\* The file is renamed over the store, unless another process has renamed it.
LEMMA RenamesKeeps ==
    ASSUME CommentsInvariant, NEW c \in Author, SaveRenames(c)
    PROVE  CommentsInvariant'
<1>1. author[c].at = "rename" /\ author[c] \in AuthorRecord /\ CommandShape(author[c])
      /\ Saving(c) /\ Clearing(c) /\ UNCHANGED <<inode, reviewCommands, reviewTrouble, overlapped>>
    BY DEF SaveRenames, AuthorAt, CommentsInvariant, CommandsShaped, CommentsTyped,
           Saving, Clearing, GiveUp
<1>2. CASE temp = NoComment /\ GiveUp(c) /\ UNCHANGED <<stored, temp, added, discarded, sent>>
    <2>1. Done(c) /\ UNCHANGED overlapped /\ mayRepeat \subseteq mayRepeat'
          /\ (Sender(c) /\ Clearing(c) => author[c].listed \subseteq mayRepeat')
        BY <1>2, GivesUp
    <2>2. UNCHANGED reviewFiles
        BY <1>1, <1>2 DEF reviewFiles
    <2>3. reviewTrouble' \in 0 .. MaxReviewTrouble
        BY <1>1, TroubleCounted
    <2> QED BY <1>1, <1>2, <2>1, <2>2, <2>3, DoneKeeps
<1>3. CASE /\ temp # NoComment
           /\ stored' = temp /\ temp' = NoComment /\ Saved(c) /\ Done(c)
    <2>1. /\ sent' \in [Comment -> Nat] /\ added' \subseteq Comment
          /\ \A d \in Author : Sender(d) => \A x \in author[d].listed : sent'[x] = sent[x]
          /\ \A x \in Comment : \/ sent'[x] = sent[x]
                                \/ sent'[x] = 0 /\ author[c].op = "add" /\ x = author[c].of
          /\ \A x \in mayRepeat : x \in mayRepeat' \/ (sent'[x] = 0 /\ author[c].op = "add"
                               /\ x = author[c].of /\ \A d \in Author : Sender(d) => x \notin author[d].listed)
          /\ author[c].op = "add" /\ (\E d \in Author : Sender(d) /\ author[c].of \in author[d].listed)
               => author[c].of \in mayRepeat'
          /\ author[c].op = "add" /\ ~(\E d \in Author : Sender(d) /\ author[c].of \in author[d].listed)
               => sent'[author[c].of] = 0
          /\ author[c].op # "add" => UNCHANGED <<sent, added, mayRepeat>> /\ discarded \subseteq discarded'
          /\ author[c].op = "add" => /\ added' = added \cup {author[c].of}
                                     /\ discarded' = discarded \ {author[c].of}
          /\ author[c].op = "rm" => author[c].of \in discarded'
          /\ author[c].op = "clear" => OfSlice(Comment, author[c].of) \subseteq discarded'
          /\ author[c].op = "send" => OfSlice(Comment, author[c].of) \ author[c].listed \subseteq discarded'
        BY <1>1, <1>3, SavedEffects
    <2>2. author' \in [Author -> AuthorRecord] /\ CommandsShaped'
          /\ author'[c] = NoAuthor /\ \A d \in Author \ {c} : author'[d] = author[d]
        BY <1>3, NobodyShaped, TurnKeepsShape DEF Done
    <2>3. author'[c].at = "idle" /\ author'[c].listed = {}
        BY <2>2 DEF NoAuthor
    <2>4. CommentsTyped'
        BY <1>1, <1>3, <2>1, <2>2 DEF CommentsInvariant, CommentsTyped
    <2>5. \A d \in Author \ {c} : /\ (Sender(d))' <=> Sender(d)
                                  /\ (Clearing(d))' <=> Clearing(d)
        BY <2>2 DEF Sender, Clearing
    <2>6. SentOut'
        BY <2>1, <2>2, <2>3, <2>5 DEF CommentsInvariant, SentOut, Clearing
    <2>7. ~overlapped => /\ load' = After(c) /\ ~inode[temp].torn
                         /\ \A d \in Author \ {c} : ~Saving(d)
        <3>1. ~overlapped => inode[temp] = Whole(author[c].write) /\ author[c].write = After(c)
                             /\ \A d \in Author \ {c} : ~Saving(d)
            BY <1>1 DEF CommentsInvariant, StoreSafe
        <3>2. load' = inode[temp].comments
            BY <1>1, <1>3 DEF load
        <3> QED BY <3>1, <3>2 DEF Whole
    <2>8. load \subseteq Comment
        BY LoadIsComments DEF CommentsInvariant
    <2>9. StoreSafe'
        <3> SUFFICES ASSUME ~overlapped PROVE StoreSafe'
            BY <1>1 DEF StoreSafe
        <3>1. \A d \in Author : ~(Saving(d))'
            BY <2>2, <2>3, <2>7 DEF Saving
        <3>2. \A d \in Author : author'[d].at \notin {"write", "rename"}
            BY <3>1 DEF Saving
        <3> QED BY <1>1, <1>3, <2>7, <3>1, <3>2 DEF StoreSafe
    <2>10. author[c].op \in {"add", "rm", "clear", "send"}
        BY <1>1 DEF CommandShape
    <2>11. AddedKept'
        <3> SUFFICES ASSUME ~overlapped, NEW x \in added'
                     PROVE  x \in load' \/ sent'[x] > 0 \/ x \in discarded'
            BY <1>1 DEF AddedKept
        <3>1. load' = After(c) /\ x \in Comment
            BY <2>1, <2>7
        <3>2. CASE author[c].op = "add"
            <4>1. CASE x = author[c].of
                BY <3>1, <3>2, <4>1 DEF After
            <4>2. CASE x # author[c].of
                <5>1. x \in added /\ sent'[x] = sent[x]
                    BY <2>1, <3>1, <3>2, <4>2
                <5>2. x \in load \/ sent[x] > 0 \/ x \in discarded
                    BY <5>1 DEF CommentsInvariant, AddedKept
                <5> QED BY <2>1, <3>1, <3>2, <4>2, <5>1, <5>2 DEF After
            <4> QED BY <4>1, <4>2
        <3>3. CASE author[c].op # "add"
            <4>1. x \in added /\ sent' = sent /\ discarded \subseteq discarded'
                BY <2>1, <3>3
            <4>2. x \in load \/ sent[x] > 0 \/ x \in discarded
                BY <4>1 DEF CommentsInvariant, AddedKept
            <4>3. CASE author[c].op = "rm"
                BY <2>1, <3>1, <4>1, <4>2, <4>3 DEF After
            <4>4. CASE author[c].op = "clear"
                <5>1. x \in load => x \in load' \/ x \in discarded'
                    BY <2>1, <3>1, <4>4 DEF After, OfSlice
                <5> QED BY <4>1, <4>2, <5>1
            <4>5. CASE author[c].op = "send"
                <5>1. x \in load => x \in load' \/ x \in OfSlice(Comment, author[c].of)
                    BY <3>1, <4>5 DEF After, OfSlice
                <5>2. x \in author[c].listed => sent[x] > 0
                    BY <1>1, <4>5 DEF CommentsInvariant, SentOut, Sender
                <5> QED BY <2>1, <4>1, <4>2, <4>5, <5>1, <5>2
            <4> QED BY <2>10, <3>3, <4>3, <4>4, <4>5
        <3> QED BY <3>2, <3>3
    <2>12. RepeatsKnown'
        <3> SUFFICES ASSUME ~overlapped
                     PROVE  /\ \A x \in Comment : sent'[x] > 1 => x \in mayRepeat'
                            /\ \A d, e \in Author : (Sender(d))' /\ (Sender(e))' /\ d # e =>
                                  author'[d].listed \cap author'[e].listed \subseteq mayRepeat'
                            /\ \A x \in load' : sent'[x] > 0 =>
                                  \/ x \in mayRepeat'
                                  \/ \E d \in Author : (Sender(d))' /\ (Clearing(d))' /\ x \in author'[d].listed
                            /\ \A d \in Author : author'[d].at = "send" =>
                                  \A x \in author'[d].listed : sent'[x] > 0 => x \in mayRepeat'
            BY <1>1 DEF RepeatsKnown
        <3>1. RepeatsKnown /\ load' = After(c)
            BY <2>7 DEF CommentsInvariant
        <3>2. \A x \in Comment : sent'[x] > 0 => sent'[x] = sent[x] /\ (x \in mayRepeat => x \in mayRepeat')
            BY <2>1
        <3>3. \A d \in Author : Sender(d) => author[d].listed \cap mayRepeat \subseteq mayRepeat'
            BY <2>1
        <3>4. \A x \in Comment : sent'[x] > 1 => x \in mayRepeat'
            <4> SUFFICES ASSUME NEW x \in Comment, sent'[x] > 1 PROVE x \in mayRepeat'
                OBVIOUS
            <4>1. sent'[x] \in Nat
                BY <2>1
            <4>2. sent'[x] > 0
                BY <4>1
            <4> QED BY <3>1, <3>2, <4>2 DEF RepeatsKnown
        <3>5. \A d, e \in Author : (Sender(d))' /\ (Sender(e))' /\ d # e =>
                  author'[d].listed \cap author'[e].listed \subseteq mayRepeat'
            <4> SUFFICES ASSUME NEW d \in Author, NEW e \in Author, (Sender(d))', (Sender(e))', d # e,
                                NEW x \in author'[d].listed \cap author'[e].listed
                         PROVE  x \in mayRepeat'
                OBVIOUS
            <4>1. d # c /\ e # c
                BY <2>3
            <4> QED BY <2>2, <2>5, <3>1, <3>3, <4>1 DEF RepeatsKnown
        <3>6. \A x \in load' : sent'[x] > 0 =>
                  \/ x \in mayRepeat'
                  \/ \E d \in Author : (Sender(d))' /\ (Clearing(d))' /\ x \in author'[d].listed
            <4> SUFFICES ASSUME NEW x \in load', sent'[x] > 0, x \notin mayRepeat'
                         PROVE  \E d \in Author : (Sender(d))' /\ (Clearing(d))' /\ x \in author'[d].listed
                OBVIOUS
            <4>1. x \in load
                <5>1. CASE author[c].op = "add"
                    <6>1. x \in load \/ x = author[c].of
                        BY <3>1, <5>1 DEF After
                    <6>2. CASE \E d \in Author : Sender(d) /\ author[c].of \in author[d].listed
                        BY <2>1, <5>1, <6>1, <6>2
                    <6>3. CASE ~(\E d \in Author : Sender(d) /\ author[c].of \in author[d].listed)
                        <7>1. sent'[author[c].of] = 0
                            BY <2>1, <5>1, <6>3
                        <7> QED BY <6>1, <7>1
                    <6> QED BY <6>2, <6>3
                <5>2. CASE author[c].op # "add"
                    BY <3>1, <5>2 DEF After
                <5> QED BY <5>1, <5>2
            <4>2. x \in Comment /\ sent[x] > 0 /\ x \notin mayRepeat
                BY <2>8, <3>2, <4>1
            <4>3. PICK d \in Author : Sender(d) /\ Clearing(d) /\ x \in author[d].listed
                BY <3>1, <4>1, <4>2 DEF RepeatsKnown
            <4>4. CASE d = c
                <5>1. author[c].op = "send" /\ author[c].listed \subseteq OfSlice(Comment, author[c].of)
                    BY <1>1, <4>3, <4>4 DEF Sender, CommandShape
                <5>2. x \in OfSlice(load, author[c].of)
                    BY <4>1, <4>3, <4>4, <5>1 DEF OfSlice
                <5> QED BY <3>1, <5>1, <5>2 DEF After
            <4>5. CASE d # c
                BY <2>2, <2>5, <4>3, <4>5
            <4> QED BY <4>4, <4>5
        <3>7. \A d \in Author : author'[d].at = "send" =>
                  \A x \in author'[d].listed : sent'[x] > 0 => x \in mayRepeat'
            <4> SUFFICES ASSUME NEW d \in Author, author'[d].at = "send",
                                NEW x \in author'[d].listed, sent'[x] > 0
                         PROVE  x \in mayRepeat'
                OBVIOUS
            <4>1. d # c /\ author[d].at = "send" /\ x \in author[d].listed
                BY <2>2, <2>3
            <4>2. x \in Comment
                BY <4>1 DEF CommentsInvariant, CommentsTyped, AuthorRecord
            <4> QED BY <3>1, <3>2, <4>1, <4>2 DEF RepeatsKnown
        <3> QED BY <3>4, <3>5, <3>6, <3>7
    <2> QED BY <2>2, <2>4, <2>6, <2>9, <2>11, <2>12 DEF CommentsInvariant
<1> QED BY <1>1, <1>2, <1>3 DEF SaveRenames

\* A command is killed, and may have delivered what it has not cleared.
LEMMA KillKeeps ==
    ASSUME CommentsInvariant, NEW c \in Author, ReviewKilled(c)
    PROVE  CommentsInvariant'
<1>1. UNCHANGED <<reviewFiles, reviewCommands, added, discarded, sent>>
    BY DEF ReviewKilled
<1>2. reviewTrouble' \in 0 .. MaxReviewTrouble
    BY TroubleCounted DEF ReviewKilled
<1>3. Done(c) /\ UNCHANGED overlapped /\ mayRepeat \subseteq mayRepeat'
      /\ (Sender(c) /\ Clearing(c) => author[c].listed \subseteq mayRepeat')
    <2>1. CASE author[c].at = "send"
        BY <2>1 DEF ReviewKilled, AuthorAt, Clearing
    <2>2. CASE author[c].at # "send"
        BY <2>2, GivesUp DEF ReviewKilled, AuthorAt
    <2> QED BY <2>1, <2>2
<1> QED BY <1>1, <1>2, <1>3, DoneKeeps

-----------------------------------------------------------------------------
\* Every step of every command keeps the invariant.
THEOREM CommentsInvariantHolds == CommentsSpec => []CommentsInvariant
<1>1. CommentsInit => CommentsInvariant
    BY CommentsInitHolds
<1>2. CommentsInvariant /\ [CommentsNext]_commentVars => CommentsInvariant'
    <2> SUFFICES ASSUME CommentsInvariant, [CommentsNext]_commentVars PROVE CommentsInvariant'
        OBVIOUS
    <2>1. ASSUME NEW c \in Author, BeginReview(c) PROVE CommentsInvariant'
        <3>1. CASE \E x \in Comment, op \in {"add", "rm"} : BeginReviewCommand(c, op, x, FALSE)
            <4>1. PICK x \in Comment, op \in {"add", "rm"} : BeginReviewCommand(c, op, x, FALSE)
                BY <3>1
            <4>2. op \in {"add", "rm", "clear", "send"} /\ x \in Comment \cup ReviewSlice
                  /\ FALSE \in BOOLEAN
                OBVIOUS
            <4> QED BY <4>1, <4>2, BeginKeeps
        <3>2. ASSUME NEW s \in ReviewSlice, BeginReviewCommand(c, "clear", s, FALSE)
              PROVE  CommentsInvariant'
            BY <3>2, BeginKeeps
        <3>3. ASSUME NEW s \in ReviewSlice, NEW keep \in BOOLEAN, BeginReviewCommand(c, "send", s, keep)
              PROVE  CommentsInvariant'
            BY <3>3, BeginKeeps
        <3> QED BY <2>1, <3>1, <3>2, <3>3 DEF BeginReview
    <2>2. CASE UNCHANGED commentVars
        BY <2>2 DEF commentVars, reviewFiles, reviewGhosts, CommentsInvariant, CommentsTyped,
                    CommandsShaped, SentOut, StoreSafe, AddedKept, RepeatsKnown, Sender, Clearing,
                    Saving, After, load
    <2> QED BY <2>1, <2>2, ListKeeps, SendKeeps, AddKeeps, DropKeeps, OpensKeeps, WritesKeeps,
               RenamesKeeps, KillKeeps DEF CommentsNext
<1> QED BY <1>1, <1>2, PTL DEF CommentsSpec

\* A comment whose add was reported is pending until it was sent or dropped, and the
\* store can be read, for any number of processes that are killed or run out of disk,
\* as long as no two save at once.
THEOREM CommentsKept == CommentsSpec => []CommentsAreKept
<1>1. CommentsInvariant => CommentsAreKept
    BY DEF CommentsInvariant, StoreSafe, AddedKept, CommentsAreKept, loadFails
<1> QED BY <1>1, CommentsInvariantHolds, PTL

\* A comment goes to an agent a second time only when its send kept it, failed, was
\* killed before it had cleared the comments, or ran beside another send.
THEOREM CommentsSentOnce == CommentsSpec => []SentOnce
<1>1. CommentsInvariant => SentOnce
    BY DEF CommentsInvariant, RepeatsKnown, SentOnce
<1> QED BY <1>1, CommentsInvariantHolds, PTL

\* Every variable of the comments has its type: the temporary file is an inode of
\* its own even when processes save at once.
THEOREM CommentsTypeCorrect == CommentsSpec => []CommentsTypeOK
<1>1. CommentsInvariant => CommentsTypeOK
    BY DEF CommentsInvariant, CommentsTyped, AuthorRecord, Content, CommentsTypeOK
<1> QED BY <1>1, CommentsInvariantHolds, PTL

-----------------------------------------------------------------------------

\* What the plans of jobs are made of.
Act(s) == [op |-> "activate", slice |-> s]
Recover(s) == [op |-> "recover-activation", slice |-> s]
Shown == LiveSlice \cup {"none"}
Plan == {<<>>, <<Deactivate>>} \cup {<<Act(s)>> : s \in LiveSlice}
           \cup {<<Deactivate, Act(s)>> : s \in LiveSlice} \cup {<<Recover(s)>> : s \in Shown}
JobKind == {"none", "swap", "reset", "recover", "quit"}
JobPlace == {"idle", "stopping", "stopped", "checked", "written"}
JobRecord == [kind : JobKind, at : JobPlace, plan : Plan, handoff : BOOLEAN,
              wasActive : BOOLEAN, awaits : 0 .. MaxMirrors]
DialogKind == {"none", "swap", "working", "result", "recovery"}
DialogRecord == [kind : DialogKind, slice : Shown, active : BOOLEAN, replacing : Shown]
MirrorState == {"none", "new", "mirrors", "clean", "error", "drift", "heard"}

\* The shape of every variable of the interface's swaps.
LiveTyped ==
    /\ journalOf \in Shown
    /\ lsShown \in Shown \cup {"unknown"} /\ lsCall \in Shown \cup {"idle", "asked"}
    /\ dialog \in DialogRecord /\ job \in [Jobs -> JobRecord]
    /\ mirror \in [Mirrors -> MirrorState]
    /\ held \in 0 .. MaxMirrors /\ stopping \in 0 .. MaxMirrors /\ told \subseteq Mirrors
    /\ gone \in BOOLEAN /\ crossed \in BOOLEAN /\ astray \in BOOLEAN
    /\ confirms \in 0 .. MaxConfirms /\ liveTrouble \in 0 .. MaxLiveTrouble

AtWork(j) == job[j].at # "idle"

\* A job at work has a plan that fits what the user asked for.
PlanFits(x) ==
    \/ x.kind = "reset" /\ x.plan = <<Deactivate>>
    \/ /\ x.kind = "swap" /\ x.handoff
       /\ \E s \in LiveSlice : x.plan \in {<<Deactivate, Act(s)>>, <<Act(s)>>}
    \/ x.kind = "swap" /\ ~x.handoff /\ x.wasActive /\ x.plan = <<Deactivate>>
    \/ /\ x.kind = "swap" /\ ~x.handoff /\ ~x.wasActive
       /\ \E s \in LiveSlice : x.plan = <<Act(s)>>

DialogFits == dialog.kind = "swap" => dialog.slice \in LiveSlice /\ lsShown # "unknown"

JobsFit ==
    /\ DialogFits
    /\ \A j \in SwapJob : AtWork(j) => PlanFits(job[j])
    /\ AtWork("recover") =>
          /\ job["recover"].kind = "recover" /\ job["recover"].at \in {"stopped", "checked"}
          /\ \E s \in Shown : job["recover"].plan = <<Recover(s)>>
    /\ AtWork("quit") => job["quit"].kind = "quit" /\ job["quit"].plan = <<Deactivate>>
    /\ gone => job["quit"].kind = "quit"
    /\ \A j \in Jobs : job[j].at = "stopping" => job[j].awaits \in Mirrors
    /\ lsShown = "unknown" <=> job["recover"].kind = "none"

\* The user waited for each answer, and nothing was shown over a swap.
Orderly == ~crossed /\ job["quit"].kind # "quit"

\* The check of the start is not yet answered.
Unchecked == job["recover"].kind = "none" \/ AtWork("recover")

\* A process that runs is the one that is held, or one that a job awaits; a swap at
\* work has the dialog, and holds none; before the check is answered there is none.
OneAtWork ==
    /\ \A j \in SwapJob : AtWork(j) => dialog.kind = "working" /\ held = 0 /\ ~Unchecked
    /\ \A j, k \in SwapJob : AtWork(j) /\ AtWork(k) => j = k
    /\ \A m \in Mirrors : Runs(m) =>
          m = held \/ \E j \in SwapJob : job[j].at = "stopping" /\ job[j].awaits = m
    /\ dialog.kind = "recovery" => ~Unchecked /\ held = 0
    /\ Unchecked => held = 0 /\ \A m \in Mirrors : mirror[m] = "none"

SwapsOrdered == Orderly => OneAtWork

\* How many live-sync processes may have been started: one per confirmed swap that
\* is done, and one by the answer to the question of the start.
One(b) == IF b THEN 1 ELSE 0
Budget == confirms + 1 - One(\E j \in SwapJob : AtWork(j)) - One(Unchecked \/ dialog.kind = "recovery")

\* The process that is held was not told to end, mirrors a journal, and has ended
\* in failure at most; without one there is no journal, once the check is answered
\* and nothing is under way.
MirrorHeld ==
    /\ told \subseteq {m \in Mirrors : mirror[m] # "none"}
    /\ held # 0 => mirror[held] \in {"new", "mirrors", "clean", "error", "drift"} /\ held \notin told
    /\ stopping # 0 => \E j \in SwapJob : job[j].at = "stopping" /\ job[j].awaits = stopping
    /\ \A m \in Mirrors : mirror[m] # "none" => m <= Budget
    /\ job["recover"].kind = "none" => lsCall \in {"idle", "asked", journalOf}
    /\ AtWork("recover") => job["recover"].plan = <<Recover(journalOf)>>
    /\ dialog.kind = "recovery" => journalOf # "none"
    /\ ~(astray \/ Unchecked \/ dialog.kind = "recovery" \/ \E j \in SwapJob : AtWork(j)) =>
          IF held = 0 \/ mirror[held] = "drift" THEN journalOf = "none"
          ELSE journalOf # "none" /\ mirror[held] # "clean"

MirrorFollows == Orderly => MirrorHeld

LiveInvariant == LiveTyped /\ JobsFit /\ SwapsOrdered /\ MirrorFollows
-----------------------------------------------------------------------------
LEMMA PlanShapes ==
    /\ Len(<<Deactivate>>) = 1 /\ <<Deactivate>>[1] = Deactivate /\ Deactivate.op = "deactivate"
    /\ \A s : /\ Len(<<Act(s)>>) = 1 /\ <<Act(s)>>[1] = Act(s)
              /\ Act(s).op = "activate" /\ Act(s).slice = s
    /\ \A s : /\ Len(<<Deactivate, Act(s)>>) = 2 /\ <<Deactivate, Act(s)>>[1] = Deactivate
              /\ Tail(<<Deactivate, Act(s)>>) = <<Act(s)>>
    /\ \A s : /\ Len(<<Recover(s)>>) = 1 /\ <<Recover(s)>>[1] = Recover(s)
              /\ Recover(s).op = "recover-activation" /\ Recover(s).slice = s
<1>1. ASSUME NEW s PROVE Tail(<<Deactivate, Act(s)>>) = <<Act(s)>>
    OBVIOUS
<1> QED BY <1>1 DEF Deactivate, Act, Recover

LEMMA LeastOf ==
    ASSUME NEW T \in SUBSET Nat, T # {}
    PROVE  \E x \in T : \A y \in T : x <= y
<1> DEFINE R == {ss \in Nat \X Nat : ss[1] < ss[2]}
<1>1. IsWellFoundedOn(R, Nat)
    BY NatLessThanWellFounded DEF OpToRel
<1>2. PICK x \in T : \A y \in T : ~(<<y, x>> \in R)
    BY <1>1, WFMin
<1>3. \A y \in T : x <= y
    <2> TAKE y \in T
    <2>1. ~(<<y, x>> \in R)
        BY <1>2
    <2>2. <<y, x>> \in Nat \X Nat
        OBVIOUS
    <2>3. ~(y < x)
        BY <2>1, <2>2
    <2> QED BY <2>3
<1> QED BY <1>3

\* A process is started as the first that was not yet, if there is one.
LEMMA Started ==
    ASSUME LiveTyped, start
    PROVE  \/ held # 0 /\ UNCHANGED <<mirror, held>>
           \/ (\A m \in Mirrors : mirror[m] # "none") /\ UNCHANGED <<mirror, held>>
           \/ \E m \in Mirrors :
                 /\ held = 0 /\ held' = m /\ mirror[m] = "none"
                 /\ \A k \in Mirrors : mirror[k] = "none" => m <= k
                 /\ mirror' = [mirror EXCEPT ![m] = "new"]
<1> DEFINE new == {m \in Mirrors : mirror[m] = "none"}
<1>1. CASE held # 0 \/ new = {}
    BY <1>1 DEF start
<1>2. CASE held = 0 /\ new # {}
    <2>1. new \in SUBSET Nat
        BY DEF Mirrors
    <2>2. \E n \in new : \A k \in new : n <= k
        BY <2>1, <1>2, LeastOf
    <2> DEFINE m == CHOOSE n \in new : \A k \in new : n <= k
    <2>3. m \in new /\ \A k \in new : m <= k
        BY <2>2
    <2>4. held' = m /\ mirror' = [mirror EXCEPT ![m] = "new"]
        BY <1>2 DEF start
    <2> HIDE DEF m
    <2> QED BY <2>3, <2>4, <1>2
<1> QED BY <1>1, <1>2

-----------------------------------------------------------------------------
\* Types, and plans that fit.
LEMMA NobodyTyped ==
    /\ NoJob \in JobRecord /\ NoJob.at = "idle" /\ NoJob.kind = "none"
    /\ \A kind \in DialogKind : Dialog(kind) \in DialogRecord /\ Dialog(kind).kind = kind
    /\ NoDialog \in DialogRecord /\ NoDialog.kind = "none" /\ Dialog("none") = NoDialog
<1>1. NoJob \in JobRecord /\ NoJob.at = "idle" /\ NoJob.kind = "none"
    BY LiveAssumption DEF NoJob, JobRecord, JobKind, JobPlace, Plan
<1>2. NoDialog \in DialogRecord /\ NoDialog.kind = "none"
    BY DEF NoDialog, DialogRecord, DialogKind, Shown
<1>3. \A kind : Dialog(kind) = [NoDialog EXCEPT !.kind = kind]
    BY DEF Dialog
<1>4. \A kind \in DialogKind : Dialog(kind) \in DialogRecord /\ Dialog(kind).kind = kind
    BY <1>2, <1>3 DEF DialogRecord
<1>5. Dialog("none") = NoDialog
    BY <1>3 DEF NoDialog
<1> QED BY <1>1, <1>2, <1>4, <1>5

LEMMA JobNames ==
    /\ "recover" \in Jobs /\ "quit" \in Jobs /\ SwapJob \subseteq Jobs
    /\ "recover" \notin SwapJob /\ "quit" \notin SwapJob
    /\ \A j \in Jobs : j \in SwapJob \/ j = "recover" \/ j = "quit"
BY LiveAssumption DEF Jobs

LEMMA LiveBeginsTyped == LiveInit => LiveTyped /\ JobsFit
<1> SUFFICES ASSUME LiveInit PROVE LiveTyped /\ JobsFit
    OBVIOUS
<1>1. job = [j \in Jobs |-> NoJob] /\ \A j \in Jobs : job[j] = NoJob
    BY DEF LiveInit
<1>2. job \in [Jobs -> JobRecord] /\ dialog \in DialogRecord
    BY <1>1, NobodyTyped DEF LiveInit
<1>3. LiveTyped
    <2>1. mirror \in [Mirrors -> MirrorState] /\ told \subseteq Mirrors
        BY DEF LiveInit, MirrorState
    <2>2. 0 \in 0 .. MaxMirrors /\ 0 \in 0 .. MaxConfirms /\ 0 \in 0 .. MaxLiveTrouble
        BY LiveAssumption
    <2> QED BY <1>2, <2>1, <2>2 DEF LiveInit, LiveTyped, Shown
<1>4. JobsFit
    BY <1>1, NobodyTyped DEF LiveInit, NoDialog, JobsFit, DialogFits, AtWork, Jobs
<1> QED BY <1>3, <1>4

LEMMA MirrorBeginsTyped ==
    ASSUME LiveTyped, JobsFit, NEW m \in Mirrors, MirrorBegins(m)
    PROVE  LiveTyped' /\ JobsFit'
BY NobodyTyped, LiveAssumption DEF LiveTyped, JobsFit, DialogFits, AtWork, Jobs,
   MirrorBegins, MirrorState, manager, liveBounds, shows

LEMMA MirrorEndsTyped ==
    ASSUME LiveTyped, JobsFit, NEW m \in Mirrors, MirrorEnds(m)
    PROVE  LiveTyped' /\ JobsFit'
BY NobodyTyped, LiveAssumption DEF LiveTyped, JobsFit, DialogFits, AtWork, Jobs, MirrorEnds,
   LiveTrouble, MirrorState, Shown, shows

LEMMA openSwapTyped ==
    ASSUME LiveTyped, JobsFit, NEW s \in LiveSlice, openSwap(s)
    PROVE  LiveTyped' /\ JobsFit'
BY NobodyTyped, LiveAssumption DEF LiveTyped, JobsFit, DialogFits, AtWork, Jobs, openSwap,
   DialogRecord, DialogKind, Shown, shows, manager, liveBounds

LEMMA CloseDialogTyped ==
    ASSUME LiveTyped, JobsFit, CloseDialog
    PROVE  LiveTyped' /\ JobsFit'
BY NobodyTyped, LiveAssumption DEF LiveTyped, JobsFit, DialogFits, AtWork, Jobs,
   CloseDialog, shows, manager, liveBounds

LEMMA OtherNewsTyped ==
    ASSUME LiveTyped, JobsFit, OtherNews
    PROVE  LiveTyped' /\ JobsFit'
BY NobodyTyped, LiveAssumption DEF LiveTyped, JobsFit, DialogFits, AtWork, Jobs, OtherNews,
   Shows, LiveTrouble, DialogKind, shows, manager, liveBounds

LEMMA TickTyped ==
    ASSUME LiveTyped, JobsFit, Tick
    PROVE  LiveTyped' /\ JobsFit'
BY NobodyTyped, LiveAssumption DEF LiveTyped, JobsFit, DialogFits, AtWork, Jobs, Tick,
   refresh, LiveTrouble, manager, liveBounds

LEMMA LsReadsTyped ==
    ASSUME LiveTyped, JobsFit, LsReads
    PROVE  LiveTyped' /\ JobsFit'
BY NobodyTyped, LiveAssumption DEF LiveTyped, JobsFit, DialogFits, AtWork, Jobs, LsReads,
   manager, liveBounds, Shown

LEMMA MirrorEndHeardTyped ==
    ASSUME LiveTyped, JobsFit, NEW m \in Mirrors, MirrorEndHeard(m)
    PROVE  LiveTyped' /\ JobsFit'
<1>1. UNCHANGED <<journalOf, lsShown, job, told, gone, confirms, liveTrouble>>
    BY DEF MirrorEndHeard, liveBounds, Shows, refresh, shows
<1>2. lsCall' \in Shown \cup {"idle", "asked"} /\ dialog' \in DialogRecord
      /\ crossed' \in BOOLEAN /\ astray' \in BOOLEAN
    BY NobodyTyped DEF MirrorEndHeard, LiveTyped, refresh, Shows, DialogKind, shows
<1>3. mirror' \in [Mirrors -> MirrorState] /\ held' \in 0 .. MaxMirrors /\ stopping' \in 0 .. MaxMirrors
    BY LiveAssumption DEF MirrorEndHeard, LiveTyped, MirrorState
<1>4. LiveTyped'
    BY <1>1, <1>2, <1>3 DEF LiveTyped
<1>5. DialogFits'
    <2>1. dialog' = dialog \/ dialog'.kind = "result"
        BY NobodyTyped DEF MirrorEndHeard, Shows, DialogKind
    <2> QED BY <1>1, <2>1 DEF JobsFit, DialogFits
<1>6. JobsFit'
    BY <1>1, <1>5 DEF JobsFit, AtWork, PlanFits
<1> QED BY <1>4, <1>6

LEMMA MirrorStoppedTyped ==
    ASSUME LiveTyped, JobsFit, NEW j \in Jobs, MirrorStopped(j)
    PROVE  LiveTyped' /\ JobsFit'
BY NobodyTyped, LiveAssumption DEF LiveTyped, JobsFit, DialogFits, AtWork, Jobs,
   MirrorStopped, JobRecord, JobPlace, PlanFits, shows, liveBounds

LEMMA ReactivateTyped ==
    ASSUME LiveTyped, JobsFit, Reactivate
    PROVE  LiveTyped' /\ JobsFit'
BY Started, NobodyTyped, LiveAssumption DEF LiveTyped, JobsFit, DialogFits, AtWork, Jobs,
   Reactivate, Mirrors, MirrorState, shows, liveBounds

LEMMA ActivateWritesTyped ==
    ASSUME LiveTyped, JobsFit, NEW j \in Jobs, ActivateWrites(j)
    PROVE  LiveTyped' /\ JobsFit'
<1> DEFINE x == [job[j] EXCEPT !.at = "written"]
<1>1. job' = [job EXCEPT ![j] = x] /\ job[j] \in JobRecord
    BY DEF ActivateWrites, LiveTyped
<1>2. x \in JobRecord /\ x.kind = job[j].kind /\ x.plan = job[j].plan /\ x.at = "written"
      /\ (PlanFits(job[j]) => PlanFits(x))
    BY <1>1 DEF JobRecord, JobPlace, PlanFits
<1>3. AtWork(j) /\ job[j].plan[1].op = "activate"
    BY DEF ActivateWrites, AtWork
<1>4. j \in SwapJob
    BY <1>3, PlanShapes, JobNames DEF JobsFit
<1>5. PlanFits(job[j])
    BY <1>3, <1>4 DEF JobsFit
<1>6. \E s \in LiveSlice : job[j].plan[1].slice = s
    BY <1>3, <1>5, PlanShapes DEF PlanFits
<1>7. journalOf' \in Shown
    BY <1>6 DEF ActivateWrites, Shown
<1> HIDE DEF x
<1>8. LiveTyped'
    BY <1>1, <1>2, <1>7 DEF LiveTyped, ActivateWrites, shows, manager, liveBounds
<1>9. \A k \in Jobs : job'[k] = IF k = j THEN x ELSE job[k]
    BY <1>1 DEF LiveTyped
<1>10. "recover" \in Jobs /\ "quit" \in Jobs /\ j \notin {"recover", "quit"} /\ SwapJob \subseteq Jobs
    BY <1>4, LiveAssumption DEF Jobs
<1>11. JobsFit'
    BY <1>2, <1>5, <1>9, <1>10 DEF JobsFit, DialogFits, AtWork, ActivateWrites, shows
<1> QED BY <1>8, <1>11

\* What the stop that a job begins with comes to.
LEMMA Stopping ==
    ASSUME LiveTyped, NEW j \in Jobs, NEW begun \in JobRecord, stop(j, begun)
    PROVE  /\ held' = 0 /\ stopping' \in 0 .. MaxMirrors /\ told' \subseteq Mirrors
           /\ \E x \in JobRecord :
                 /\ job' = [job EXCEPT ![j] = x]
                 /\ \A k \in Jobs : job'[k] = IF k = j THEN x ELSE job[k]
                 /\ x.kind = begun.kind /\ x.plan = begun.plan
                 /\ x.handoff = begun.handoff /\ x.wasActive = begun.wasActive
                 /\ \/ x.at = "stopped" /\ held = 0 /\ UNCHANGED <<stopping, told>>
                    \/ /\ x.at = "stopping" /\ held \in Mirrors
                       /\ x.awaits = held /\ stopping' = held /\ told' = told \cup {held}
<1>1. CASE held = 0
    <2> DEFINE x == [begun EXCEPT !.at = "stopped"]
    <2>1. x \in JobRecord /\ x.at = "stopped" /\ x.kind = begun.kind /\ x.plan = begun.plan
          /\ x.handoff = begun.handoff /\ x.wasActive = begun.wasActive
        BY DEF JobRecord, JobPlace
    <2>2. job' = [job EXCEPT ![j] = x] /\ held' = 0 /\ UNCHANGED <<stopping, told>>
        BY <1>1 DEF stop
    <2> HIDE DEF x
    <2> QED BY <1>1, <2>1, <2>2 DEF LiveTyped
<1>2. CASE held # 0
    <2> DEFINE x == [begun EXCEPT !.at = "stopping", !.awaits = held]
    <2>1. held \in Mirrors
        BY <1>2, LiveAssumption DEF LiveTyped, Mirrors
    <2>2. x \in JobRecord /\ x.at = "stopping" /\ x.kind = begun.kind /\ x.plan = begun.plan
          /\ x.handoff = begun.handoff /\ x.wasActive = begun.wasActive /\ x.awaits = held
        BY DEF JobRecord, JobPlace, LiveTyped
    <2>3. job' = [job EXCEPT ![j] = x] /\ held' = 0 /\ stopping' = held /\ told' = told \cup {held}
        BY <1>2 DEF stop
    <2> HIDE DEF x
    <2> QED BY <1>2, <2>1, <2>2, <2>3 DEF LiveTyped
<1> QED BY <1>1, <1>2

\* The job a confirmed dialog begins with.
SwapJobOf(d) == [NoJob EXCEPT !.kind = "swap", !.plan = swapPlan(d),
                              !.wasActive = d.active, !.handoff = Len(swapPlan(d)) = 2]

LEMMA SwapBegun ==
    ASSUME LiveTyped, JobsFit, dialog.kind = "swap"
    PROVE  SwapJobOf(dialog) \in JobRecord /\ PlanFits(SwapJobOf(dialog))
<1> DEFINE b == SwapJobOf(dialog)
<1> DEFINE p == swapPlan(dialog)
<1>1. /\ dialog.active => p = <<Deactivate>>
      /\ ~dialog.active /\ dialog.replacing # "none" => p = <<Deactivate, Act(dialog.slice)>>
      /\ ~dialog.active /\ dialog.replacing = "none" => p = <<Act(dialog.slice)>>
    BY DEF swapPlan, Act
<1>2. dialog.active \in BOOLEAN /\ dialog.slice \in LiveSlice
    BY DEF LiveTyped, DialogRecord, JobsFit, DialogFits
<1>3. p \in Plan
    BY <1>1, <1>2 DEF Plan
<1>4. Len(p) = 2 <=> (~dialog.active /\ dialog.replacing # "none")
    BY <1>1, <1>2, PlanShapes
<1> HIDE DEF p
<1>5. b = [NoJob EXCEPT !.kind = "swap", !.plan = p, !.wasActive = dialog.active,
                        !.handoff = Len(p) = 2]
    BY DEF p, SwapJobOf
<1>6. b \in JobRecord /\ b.kind = "swap" /\ b.plan = p /\ b.wasActive = dialog.active
      /\ b.handoff = (Len(p) = 2)
    BY <1>2, <1>3, <1>5, NobodyTyped DEF JobRecord, JobKind
<1> HIDE DEF b
<1>7. PlanFits(b)
    BY <1>1, <1>2, <1>4, <1>6 DEF PlanFits
<1> QED BY <1>6, <1>7 DEF b

\* A swap confirmed, or a reset.
LEMMA runSwapTyped ==
    ASSUME LiveTyped, JobsFit, NEW j \in SwapJob, runSwapWithLiveMirror(j)
    PROVE  LiveTyped' /\ JobsFit'
<1> DEFINE b == [NoJob EXCEPT !.kind = "swap", !.plan = swapPlan(dialog),
                              !.wasActive = dialog.active, !.handoff = Len(swapPlan(dialog)) = 2]
<1>1. stop(j, b) /\ dialog.kind = "swap" /\ dialog \in DialogRecord
    BY DEF runSwapWithLiveMirror, LiveTyped
<1>2. b \in JobRecord /\ PlanFits(b)
    BY <1>1, SwapBegun DEF SwapJobOf
<1> HIDE DEF b
<1>3. PICK x \in JobRecord :
           /\ job' = [job EXCEPT ![j] = x]
           /\ \A k \in Jobs : job'[k] = IF k = j THEN x ELSE job[k]
           /\ x.kind = b.kind /\ x.plan = b.plan
           /\ x.handoff = b.handoff /\ x.wasActive = b.wasActive
           /\ x.at = "stopping" => x.awaits = held /\ held \in Mirrors
    BY <1>1, <1>2, Stopping, JobNames
<1>4. held' = 0 /\ stopping' \in 0 .. MaxMirrors /\ told' \subseteq Mirrors
    BY <1>1, <1>2, Stopping, JobNames
<1>5. confirms' \in 0 .. MaxConfirms
    BY LiveAssumption DEF runSwapWithLiveMirror, LiveTyped
<1>6. dialog' \in DialogRecord /\ crossed' \in BOOLEAN
    BY NobodyTyped DEF runSwapWithLiveMirror, DialogKind, LiveTyped, AtWork
<1>7. LiveTyped'
    <2>1. job' \in [Jobs -> JobRecord]
        BY <1>3 DEF LiveTyped
    <2>2. held' \in 0 .. MaxMirrors
        BY <1>4, LiveAssumption
    <2> QED BY <2>1, <2>2, <1>4, <1>5, <1>6 DEF LiveTyped, runSwapWithLiveMirror, shows
<1>8. PlanFits(x)
    BY <1>2, <1>3 DEF PlanFits
<1>9. DialogFits'
    BY NobodyTyped DEF DialogFits, runSwapWithLiveMirror, DialogKind
<1>10. \A k \in SwapJob : (AtWork(k) => PlanFits(job[k]))'
    BY <1>3, <1>8, JobNames DEF JobsFit, AtWork
<1>11. JobsFit'
    BY <1>3, <1>9, <1>10, JobNames DEF JobsFit, AtWork, runSwapWithLiveMirror, shows
<1> QED BY <1>7, <1>11

LEMMA ResetLiveTyped ==
    ASSUME LiveTyped, JobsFit, NEW j \in SwapJob, ResetLive(j)
    PROVE  LiveTyped' /\ JobsFit'
<1> DEFINE b == [NoJob EXCEPT !.kind = "reset", !.plan = <<Deactivate>>]
<1>1. stop(j, b)
    BY DEF ResetLive
<1>2. b \in JobRecord /\ PlanFits(b)
    BY NobodyTyped DEF JobRecord, JobKind, PlanFits, Plan
<1> HIDE DEF b
<1>3. PICK x \in JobRecord :
           /\ job' = [job EXCEPT ![j] = x]
           /\ \A k \in Jobs : job'[k] = IF k = j THEN x ELSE job[k]
           /\ x.kind = b.kind /\ x.plan = b.plan
           /\ x.handoff = b.handoff /\ x.wasActive = b.wasActive
           /\ x.at = "stopping" => x.awaits = held /\ held \in Mirrors
    BY <1>1, <1>2, Stopping, JobNames
<1>4. held' = 0 /\ stopping' \in 0 .. MaxMirrors /\ told' \subseteq Mirrors
    BY <1>1, <1>2, Stopping, JobNames
<1>5. confirms' \in 0 .. MaxConfirms
    BY LiveAssumption DEF ResetLive, LiveTyped
<1>6. dialog' \in DialogRecord /\ DialogFits'
    BY NobodyTyped DEF ResetLive, DialogKind, DialogFits
<1>7. LiveTyped'
    <2>1. job' \in [Jobs -> JobRecord]
        BY <1>3 DEF LiveTyped
    <2>2. held' \in 0 .. MaxMirrors
        BY <1>4, LiveAssumption
    <2> QED BY <2>1, <2>2, <1>4, <1>5, <1>6 DEF LiveTyped, ResetLive, shows
<1>8. PlanFits(x)
    BY <1>2, <1>3 DEF PlanFits
<1>9. \A k \in SwapJob : (AtWork(k) => PlanFits(job[k]))'
    BY <1>3, <1>8, JobNames DEF JobsFit, AtWork
<1>10. JobsFit'
    BY <1>3, <1>6, <1>9, JobNames DEF JobsFit, AtWork, ResetLive, shows
<1> QED BY <1>7, <1>10

\* The user quits.
LEMMA quitTyped ==
    ASSUME LiveTyped, JobsFit, quit
    PROVE  LiveTyped' /\ JobsFit'
<1> DEFINE b == [NoJob EXCEPT !.kind = "quit", !.plan = <<Deactivate>>]
<1>1. stop("quit", b)
    BY DEF quit
<1>2. b \in JobRecord /\ b.kind = "quit" /\ b.plan = <<Deactivate>>
    BY NobodyTyped DEF JobRecord, JobKind, Plan
<1> HIDE DEF b
<1>3. PICK x \in JobRecord :
           /\ job' = [job EXCEPT !["quit"] = x]
           /\ \A k \in Jobs : job'[k] = IF k = "quit" THEN x ELSE job[k]
           /\ x.kind = b.kind /\ x.plan = b.plan
           /\ x.at = "stopping" => x.awaits = held /\ held \in Mirrors
    BY <1>1, <1>2, Stopping, JobNames
<1>4. held' = 0 /\ stopping' \in 0 .. MaxMirrors /\ told' \subseteq Mirrors
    BY <1>1, <1>2, Stopping, JobNames
<1>5. liveTrouble' \in 0 .. MaxLiveTrouble
    BY LiveAssumption DEF quit, LiveTyped, LiveTrouble
<1>6. LiveTyped'
    <2>1. job' \in [Jobs -> JobRecord]
        BY <1>3 DEF LiveTyped
    <2>2. held' \in 0 .. MaxMirrors
        BY <1>4, LiveAssumption
    <2> QED BY <2>1, <2>2, <1>4, <1>5 DEF LiveTyped, quit, shows
<1>7. \A k \in SwapJob : (AtWork(k) => PlanFits(job[k]))'
    BY <1>3, JobNames DEF JobsFit, AtWork
<1>8. JobsFit'
    BY <1>2, <1>3, <1>7, JobNames DEF JobsFit, DialogFits, AtWork, quit, shows
<1> QED BY <1>6, <1>8

LEMMA LsAnswersTyped ==
    ASSUME LiveTyped, JobsFit, LsAnswers
    PROVE  LiveTyped' /\ JobsFit'
<1>1. lsShown' \in Shown /\ lsShown' # "unknown" /\ lsCall \in Shown /\ lsCall' = "idle"
    BY LiveAssumption DEF LsAnswers, LiveTyped, Shown
<1>2. CASE job["recover"].kind = "none"
    <2> DEFINE x == [NoJob EXCEPT !.kind = "recover", !.at = "stopped", !.plan = <<Recover(lsCall)>>]
    <2>1. x \in JobRecord /\ x.kind = "recover" /\ x.at = "stopped" /\ x.plan = <<Recover(lsCall)>>
        BY <1>1, NobodyTyped DEF JobRecord, JobKind, JobPlace, Plan
    <2>2. job' = [job EXCEPT !["recover"] = x]
        BY <1>2 DEF LsAnswers, Recover
    <2> HIDE DEF x
    <2>3. LiveTyped'
        BY <1>1, <2>1, <2>2 DEF LiveTyped, LsAnswers, manager, liveBounds
    <2>4. \A k \in Jobs : job'[k] = IF k = "recover" THEN x ELSE job[k]
        BY <2>2 DEF LiveTyped
    <2>5. \A k \in SwapJob : (AtWork(k) => PlanFits(job[k]))'
        BY <2>4, JobNames DEF JobsFit, AtWork
    <2>6. JobsFit'
        BY <1>1, <2>1, <2>4, <2>5, JobNames DEF JobsFit, DialogFits, AtWork, LsAnswers,
           manager, liveBounds
    <2> QED BY <2>3, <2>6
<1>3. CASE job["recover"].kind # "none"
    <2>1. UNCHANGED job
        BY <1>3 DEF LsAnswers
    <2> QED BY <1>1, <1>3, <2>1 DEF LiveTyped, JobsFit, DialogFits, AtWork, PlanFits,
               LsAnswers, manager, liveBounds
<1> QED BY <1>2, <1>3

\* The end of a command of a swap: the second half of a handoff follows, or the job
\* is done and live-sync starts again if the slice is live.
LEMMA SwapSettled ==
    ASSUME LiveTyped, JobsFit, NEW j \in SwapJob, AtWork(j), NEW ok \in BOOLEAN, SwapSettles(j, ok)
    PROVE  \/ /\ ok /\ UNCHANGED <<shows, dialog, mirror, held, astray>>
              /\ \E s \in LiveSlice, x \in JobRecord :
                    /\ job[j].plan = <<Deactivate, Act(s)>>
                    /\ x.plan = <<Act(s)>> /\ x.at = "stopped" /\ PlanFits(x)
                    /\ job' = [job EXCEPT ![j] = x]
           \/ /\ job' = [job EXCEPT ![j] = NoJob]
              /\ ok => Len(job[j].plan) # 2
              /\ IF job[j].kind = "swap" /\ activeAfter(job[j], ok)
                 THEN start ELSE UNCHANGED <<mirror, held>>
              /\ dialog' = IF ok THEN NoDialog ELSE Dialog("result")
              /\ astray' = ~ok
              /\ refresh /\ UNCHANGED lsShown
<1>1. CASE ok /\ Len(job[j].plan) = 2
    <2>1. PlanFits(job[j]) /\ job[j] \in JobRecord
        BY JobNames DEF JobsFit, LiveTyped
    <2>2. PICK s \in LiveSlice : job[j].plan = <<Deactivate, Act(s)>>
        BY <1>1, <2>1, PlanShapes DEF PlanFits
    <2>3. job[j].kind = "swap" /\ job[j].handoff
        BY <2>1, <2>2, <1>1, PlanShapes DEF PlanFits
    <2> DEFINE x == [job[j] EXCEPT !.plan = <<Act(s)>>, !.at = "stopped"]
    <2>4. x \in JobRecord /\ x.plan = <<Act(s)>> /\ x.at = "stopped" /\ x.kind = "swap" /\ x.handoff
        BY <2>1, <2>3 DEF JobRecord, JobPlace, Plan
    <2>5. job' = [job EXCEPT ![j].plan = Tail(@), ![j].at = "stopped"]
          /\ UNCHANGED <<shows, dialog, mirror, held, astray>>
        BY <1>1 DEF SwapSettles
    <2>6. Tail(job[j].plan) = <<Act(s)>>
        BY <2>2, PlanShapes
    <2>7. job' = [job EXCEPT ![j] = x]
        BY <2>5, <2>6, JobNames DEF LiveTyped
    <2> HIDE DEF x
    <2>8. PlanFits(x)
        BY <2>4 DEF PlanFits
    <2> QED BY <1>1, <2>2, <2>4, <2>5, <2>7, <2>8
<1>2. CASE ~(ok /\ Len(job[j].plan) = 2)
    BY <1>2 DEF SwapSettles
<1> QED BY <1>1, <1>2

\* Whose end is heard, and what that leaves of types and plans.
SettledTyped ==
    /\ job \in [Jobs -> JobRecord] /\ mirror \in [Mirrors -> MirrorState]
    /\ held \in 0 .. MaxMirrors /\ told \subseteq Mirrors
    /\ lsShown \in Shown \cup {"unknown"} /\ lsCall \in Shown \cup {"idle", "asked"}
    /\ dialog \in DialogRecord
    /\ gone \in BOOLEAN /\ crossed \in BOOLEAN /\ astray \in BOOLEAN

Heard == {"ok", "failed", "drift"}

LEMMA SwapSettlesTyped ==
    ASSUME LiveTyped, JobsFit, NEW j \in SwapJob, AtWork(j), NEW how \in Heard, Settles(j, how)
    PROVE  SettledTyped' /\ JobsFit'
<1> DEFINE ok == how # "failed"
<1>1. SwapSettles(j, ok) /\ UNCHANGED <<told, gone, crossed>>
    BY JobNames DEF Settles
<1>2. ok \in BOOLEAN
    OBVIOUS
<1> HIDE DEF ok
<1>3. CASE /\ UNCHANGED <<shows, dialog, mirror, held, astray>>
           /\ \E s \in LiveSlice, x \in JobRecord :
                    /\ x.plan = <<Act(s)>> /\ x.at = "stopped" /\ PlanFits(x)
                    /\ job' = [job EXCEPT ![j] = x]
    <2>1. PICK x \in JobRecord : x.at = "stopped" /\ PlanFits(x) /\ job' = [job EXCEPT ![j] = x]
        BY <1>3
    <2>2. \A k \in Jobs : job'[k] = IF k = j THEN x ELSE job[k]
        BY <2>1 DEF LiveTyped
    <2>3. \A k \in Jobs : (job[k].at = "stopping" => job[k].awaits \in Mirrors)'
        BY <2>1, <2>2 DEF JobsFit
    <2>4. \A k \in SwapJob : (AtWork(k) => PlanFits(job[k]))'
        BY <2>1, <2>2, JobNames DEF JobsFit, AtWork
    <2>5. JobsFit'
        BY <1>1, <1>3, <2>2, <2>3, <2>4, JobNames DEF JobsFit, DialogFits, AtWork, shows
    <2>6. SettledTyped'
        BY <1>1, <1>3, <2>1 DEF SettledTyped, LiveTyped, shows
    <2> QED BY <2>5, <2>6
<1>4. CASE /\ job' = [job EXCEPT ![j] = NoJob]
           /\ IF job[j].kind = "swap" /\ activeAfter(job[j], ok)
              THEN start ELSE UNCHANGED <<mirror, held>>
           /\ dialog' = IF ok THEN NoDialog ELSE Dialog("result")
           /\ astray' = ~ok
           /\ refresh /\ UNCHANGED lsShown
    <2>1. \A k \in Jobs : job'[k] = IF k = j THEN NoJob ELSE job[k]
        BY <1>4 DEF LiveTyped
    <2>2. dialog' \in DialogRecord /\ dialog'.kind # "swap"
        BY <1>4, NobodyTyped DEF DialogKind
    <2>3. mirror' \in [Mirrors -> MirrorState] /\ held' \in 0 .. MaxMirrors
        <3>1. CASE UNCHANGED <<mirror, held>>
            BY <3>1 DEF LiveTyped
        <3>2. CASE start
            BY <3>2, Started, LiveAssumption DEF LiveTyped, MirrorState, Mirrors
        <3> QED BY <3>1, <3>2, <1>4
    <2>4. lsCall' \in Shown \cup {"idle", "asked"}
        BY <1>4 DEF refresh, LiveTyped
    <2>5. job' \in [Jobs -> JobRecord]
        BY <1>4, NobodyTyped DEF LiveTyped
    <2>6. SettledTyped'
        BY <1>1, <1>2, <1>4, <2>2, <2>3, <2>4, <2>5 DEF SettledTyped, LiveTyped
    <2>7. \A k \in SwapJob : (AtWork(k) => PlanFits(job[k]))'
        BY <2>1, NobodyTyped, JobNames DEF JobsFit, AtWork
    <2>8. JobsFit'
        BY <1>1, <1>4, <2>1, <2>2, <2>7, NobodyTyped, JobNames DEF JobsFit, DialogFits, AtWork
    <2> QED BY <2>6, <2>8
<1> QED BY <1>1, <1>2, <1>3, <1>4, SwapSettled

LEMMA RecoverSettlesTyped ==
    ASSUME LiveTyped, JobsFit, AtWork("recover"), NEW how \in Heard, Settles("recover", how)
    PROVE  SettledTyped' /\ JobsFit'
<1>1. RecoverSettles(how) /\ UNCHANGED <<mirror, held, told, gone>>
    BY JobNames DEF Settles
<1> DEFINE x == [job["recover"] EXCEPT !.at = "idle", !.plan = <<>>]
<1>2. x \in JobRecord /\ x.at = "idle" /\ x.kind = job["recover"].kind
    BY JobNames DEF LiveTyped, JobRecord, JobPlace, Plan
<1>3. job' = [job EXCEPT !["recover"] = x]
    BY <1>1, JobNames DEF RecoverSettles, LiveTyped
<1> HIDE DEF x
<1>4. \A k \in Jobs : job'[k] = IF k = "recover" THEN x ELSE job[k]
    BY <1>3 DEF LiveTyped
<1>5. /\ dialog' \in DialogRecord /\ (dialog' = dialog \/ dialog'.kind \in {"result", "recovery"})
      /\ lsShown' = lsShown /\ lsCall' \in Shown \cup {"idle", "asked"}
      /\ crossed' \in BOOLEAN /\ astray' \in BOOLEAN
    BY <1>1, NobodyTyped DEF RecoverSettles, Heard, Shows, refresh, shows, DialogKind, LiveTyped
<1>6. \A k \in SwapJob : (AtWork(k) => PlanFits(job[k]))'
    BY <1>4, JobNames DEF JobsFit, AtWork
<1>7. DialogFits'
    BY <1>5 DEF JobsFit, DialogFits
<1>8. JobsFit'
    BY <1>1, <1>2, <1>4, <1>5, <1>6, <1>7, JobNames DEF JobsFit, AtWork
<1>9. job' \in [Jobs -> JobRecord]
    BY <1>2, <1>3 DEF LiveTyped
<1>10. SettledTyped'
    BY <1>1, <1>5, <1>9 DEF SettledTyped, LiveTyped
<1> QED BY <1>8, <1>10

LEMMA QuitSettlesTyped ==
    ASSUME LiveTyped, JobsFit, AtWork("quit"), NEW how \in Heard, Settles("quit", how)
    PROVE  SettledTyped' /\ JobsFit'
<1>1. /\ job' = [job EXCEPT !["quit"].at = "idle"] /\ gone' = TRUE /\ told' = Mirrors
      /\ dialog' = NoDialog /\ lsCall' = "idle"
      /\ UNCHANGED <<lsShown, mirror, held, astray, crossed>>
    BY JobNames DEF Settles
<1> DEFINE x == [job["quit"] EXCEPT !.at = "idle"]
<1>2. x \in JobRecord /\ x.at = "idle" /\ x.kind = job["quit"].kind
    BY JobNames DEF LiveTyped, JobRecord, JobPlace
<1>3. job' = [job EXCEPT !["quit"] = x]
    BY <1>1, JobNames DEF LiveTyped
<1> HIDE DEF x
<1>4. \A k \in Jobs : job'[k] = IF k = "quit" THEN x ELSE job[k]
    BY <1>3 DEF LiveTyped
<1>5. \A k \in SwapJob : (AtWork(k) => PlanFits(job[k]))'
    BY <1>4, JobNames DEF JobsFit, AtWork
<1>6. JobsFit'
    BY <1>1, <1>2, <1>4, <1>5, NobodyTyped, JobNames DEF JobsFit, DialogFits, AtWork
<1>7. job' \in [Jobs -> JobRecord]
    BY <1>2, <1>3 DEF LiveTyped
<1>8. SettledTyped'
    BY <1>1, <1>7, NobodyTyped DEF SettledTyped, LiveTyped
<1> QED BY <1>6, <1>8

LEMMA SettlesTyped ==
    ASSUME LiveTyped, JobsFit, NEW j \in Jobs, AtWork(j), NEW how \in Heard, Settles(j, how)
    PROVE  SettledTyped' /\ JobsFit'
<1>1. CASE j \in SwapJob
    BY <1>1, SwapSettlesTyped
<1>2. CASE j = "recover"
    BY <1>2, RecoverSettlesTyped
<1>3. CASE j = "quit"
    BY <1>3, QuitSettlesTyped
<1> QED BY <1>1, <1>2, <1>3, JobNames

\* A command ends, whether the interface is there to hear of it or not.
LEMMA EndsTyped ==
    ASSUME LiveTyped, JobsFit, NEW j \in Jobs, AtWork(j), NEW how \in Heard, Ends(j, how)
    PROVE  SettledTyped' /\ JobsFit'
<1>1. CASE ~gone
    BY <1>1, SettlesTyped DEF Ends
<1>2. CASE gone
    <2> DEFINE x == [job[j] EXCEPT !.at = "idle"]
    <2>1. /\ job' = [job EXCEPT ![j].at = "idle"]
          /\ UNCHANGED <<shows, dialog, mirror, held, told, gone, astray, crossed>>
        BY <1>2 DEF Ends
    <2>2. x \in JobRecord /\ x.at = "idle" /\ x.kind = job[j].kind
        BY DEF LiveTyped, JobRecord, JobPlace
    <2>3. job' = [job EXCEPT ![j] = x]
        BY <2>1 DEF LiveTyped
    <2> HIDE DEF x
    <2>4. \A k \in Jobs : job'[k] = IF k = j THEN x ELSE job[k]
        BY <2>3 DEF LiveTyped
    <2>5. \A k \in SwapJob : (AtWork(k) => PlanFits(job[k]))'
        BY <2>2, <2>4, JobNames DEF JobsFit, AtWork
    <2>6. JobsFit'
        BY <2>1, <2>2, <2>4, <2>5, JobNames DEF JobsFit, DialogFits, AtWork, shows
    <2>7. job' \in [Jobs -> JobRecord]
        BY <2>2, <2>3 DEF LiveTyped
    <2>8. SettledTyped'
        BY <2>1, <2>7 DEF SettledTyped, LiveTyped, shows
    <2> QED BY <2>6, <2>8
<1> QED BY <1>1, <1>2 DEF LiveTyped

LEMMA CommandStartsTyped ==
    ASSUME LiveTyped, JobsFit, NEW j \in Jobs, CommandStarts(j)
    PROVE  LiveTyped' /\ JobsFit'
<1>1. AtWork(j) /\ job[j].at = "stopped" /\ UNCHANGED <<journalOf, stopping, confirms, liveTrouble>>
    BY DEF CommandStarts, AtWork, liveBounds
<1>2. CASE \E how \in Heard : Settles(j, how)
    BY <1>1, <1>2, SettlesTyped DEF LiveTyped, SettledTyped
<1>3. CASE /\ job' = [job EXCEPT ![j].at = "checked"]
           /\ UNCHANGED <<shows, dialog, mirror, held, told, gone, astray, crossed>>
    <2> DEFINE x == [job[j] EXCEPT !.at = "checked"]
    <2>1. x \in JobRecord /\ x.at = "checked" /\ x.kind = job[j].kind /\ x.plan = job[j].plan
          /\ x.handoff = job[j].handoff /\ x.wasActive = job[j].wasActive
        BY DEF LiveTyped, JobRecord, JobPlace
    <2>2. job' = [job EXCEPT ![j] = x]
        BY <1>3 DEF LiveTyped
    <2> HIDE DEF x
    <2>3. \A k \in Jobs : job'[k] = IF k = j THEN x ELSE job[k]
        BY <2>2 DEF LiveTyped
    <2>4. \A k \in SwapJob : (AtWork(k) => PlanFits(job[k]))'
        BY <1>1, <2>1, <2>3, JobNames DEF JobsFit, AtWork, PlanFits
    <2>5. JobsFit'
        BY <1>1, <1>3, <2>1, <2>3, <2>4, JobNames DEF JobsFit, DialogFits, AtWork, shows
    <2>6. job' \in [Jobs -> JobRecord]
        BY <2>1, <2>2 DEF LiveTyped
    <2>7. LiveTyped'
        BY <1>1, <1>3, <2>6 DEF LiveTyped, shows
    <2> QED BY <2>5, <2>7
<1> QED BY <1>2, <1>3 DEF CommandStarts, Heard

LEMMA ActivateEndsTyped ==
    ASSUME LiveTyped, JobsFit, NEW j \in Jobs, ActivateEnds(j)
    PROVE  LiveTyped' /\ JobsFit'
<1>1. AtWork(j) /\ job[j].plan[1].op = "activate" /\ UNCHANGED <<stopping, confirms>>
    BY DEF ActivateEnds, AtWork
<1>2. j \in SwapJob
    BY <1>1, PlanShapes, JobNames DEF JobsFit
<1>3. PlanFits(job[j])
    BY <1>1, <1>2 DEF JobsFit
<1>4. \E s \in LiveSlice : job[j].plan[1].slice = s
    BY <1>1, <1>3, PlanShapes DEF PlanFits
<1>5. journalOf' \in Shown /\ liveTrouble' \in 0 .. MaxLiveTrouble
    BY <1>4, LiveAssumption DEF ActivateEnds, Shown, LiveTyped, LiveTrouble
<1>6. \E how \in Heard : Ends(j, how)
    BY DEF ActivateEnds, Heard
<1>7. SettledTyped' /\ JobsFit'
    BY <1>1, <1>6, EndsTyped
<1> QED BY <1>1, <1>5, <1>7 DEF LiveTyped, SettledTyped

LEMMA OtherEndsTyped ==
    ASSUME LiveTyped, JobsFit, NEW j \in Jobs, OtherEnds(j)
    PROVE  LiveTyped' /\ JobsFit'
<1>1. AtWork(j) /\ UNCHANGED <<stopping, confirms, liveTrouble>>
    BY DEF OtherEnds, AtWork, liveBounds
<1>2. journalOf' \in Shown
    BY DEF OtherEnds, Shown, LiveTyped
<1>3. \E how \in Heard : Ends(j, how)
    BY DEF OtherEnds, Heard
<1>4. SettledTyped' /\ JobsFit'
    BY <1>1, <1>3, EndsTyped
<1> QED BY <1>1, <1>2, <1>4 DEF LiveTyped, SettledTyped

LEMMA LiveTypedStep ==
    ASSUME LiveTyped, JobsFit, [LiveNext]_liveVars
    PROVE  LiveTyped' /\ JobsFit'
<1>1. CASE UNCHANGED liveVars
    BY <1>1 DEF liveVars, shows, manager, liveBounds, LiveTyped, JobsFit, DialogFits,
       AtWork, PlanFits
<1>2. CASE LiveNext
    BY <1>2, openSwapTyped, runSwapTyped, ResetLiveTyped, MirrorStoppedTyped,
       CommandStartsTyped, ActivateWritesTyped, ActivateEndsTyped, OtherEndsTyped,
       MirrorBeginsTyped, MirrorEndsTyped, MirrorEndHeardTyped, CloseDialogTyped,
       ReactivateTyped, quitTyped, OtherNewsTyped, TickTyped, LsReadsTyped, LsAnswersTyped DEF
       LiveNext
<1> QED BY <1>1, <1>2

-----------------------------------------------------------------------------
\* One at a time.

LEMMA MirrorBeginsAlone ==
    ASSUME LiveTyped, JobsFit, SwapsOrdered, NEW m \in Mirrors, MirrorBegins(m)
    PROVE  SwapsOrdered'
BY NobodyTyped, JobNames, LiveAssumption DEF SwapsOrdered, Orderly, OneAtWork, Unchecked,
   AtWork, Runs, MirrorBegins, LiveTyped, MirrorState, manager, liveBounds, shows

LEMMA MirrorEndsAlone ==
    ASSUME LiveTyped, JobsFit, SwapsOrdered, NEW m \in Mirrors, MirrorEnds(m)
    PROVE  SwapsOrdered'
BY NobodyTyped, JobNames, LiveAssumption DEF SwapsOrdered, Orderly, OneAtWork, Unchecked,
   AtWork, Runs, MirrorEnds, LiveTyped, MirrorState, shows

LEMMA openSwapAlone ==
    ASSUME LiveTyped, JobsFit, SwapsOrdered, NEW s \in LiveSlice, openSwap(s)
    PROVE  SwapsOrdered'
BY NobodyTyped, JobNames, LiveAssumption DEF SwapsOrdered, Orderly, OneAtWork, Unchecked,
   AtWork, Runs, openSwap, shows, manager, liveBounds

LEMMA CloseDialogAlone ==
    ASSUME LiveTyped, JobsFit, SwapsOrdered, CloseDialog
    PROVE  SwapsOrdered'
BY NobodyTyped, JobNames, LiveAssumption DEF SwapsOrdered, Orderly, OneAtWork, Unchecked,
   AtWork, Runs, CloseDialog, shows, manager, liveBounds

LEMMA OtherNewsAlone ==
    ASSUME LiveTyped, JobsFit, SwapsOrdered, OtherNews
    PROVE  SwapsOrdered'
BY NobodyTyped, JobNames, LiveAssumption DEF SwapsOrdered, Orderly, OneAtWork, Unchecked,
   AtWork, Runs, OtherNews, Shows, DialogKind, shows, manager, liveBounds

LEMMA TickAlone ==
    ASSUME LiveTyped, JobsFit, SwapsOrdered, Tick
    PROVE  SwapsOrdered'
BY NobodyTyped, JobNames, LiveAssumption DEF SwapsOrdered, Orderly, OneAtWork, Unchecked,
   AtWork, Runs, Tick, manager, liveBounds

LEMMA LsReadsAlone ==
    ASSUME LiveTyped, JobsFit, SwapsOrdered, LsReads
    PROVE  SwapsOrdered'
BY NobodyTyped, JobNames, LiveAssumption DEF SwapsOrdered, Orderly, OneAtWork, Unchecked,
   AtWork, Runs, LsReads, manager, liveBounds

LEMMA MirrorEndHeardAlone ==
    ASSUME LiveTyped, JobsFit, SwapsOrdered, NEW m \in Mirrors, MirrorEndHeard(m)
    PROVE  SwapsOrdered'
<1>1. /\ UNCHANGED job
      /\ mirror' = [mirror EXCEPT ![m] = "heard"] /\ held' = (IF held = m THEN 0 ELSE held)
    BY DEF MirrorEndHeard
<1>2. mirror[m] \notin {"none", "new", "mirrors"}
    BY DEF MirrorEndHeard
<1>3. \/ UNCHANGED <<dialog, crossed>>
      \/ dialog'.kind = "result" /\ crossed' = (crossed \/ dialog.kind = "working")
    BY NobodyTyped DEF MirrorEndHeard, Shows, DialogKind
<1>4. \A k \in Mirrors : mirror'[k] = IF k = m THEN "heard" ELSE mirror[k]
    BY <1>1 DEF LiveTyped
<1>5. SUFFICES ASSUME Orderly' PROVE OneAtWork'
    BY DEF SwapsOrdered
<1>6. OneAtWork
    BY <1>1, <1>3, <1>5 DEF SwapsOrdered, Orderly
<1>7. ~Unchecked /\ (Unchecked' <=> Unchecked)
    BY <1>1, <1>2, <1>6 DEF OneAtWork, Unchecked, AtWork
<1>8. dialog'.kind = dialog.kind \/ (dialog'.kind = "result" /\ dialog.kind # "working")
    BY <1>3, <1>5 DEF Orderly
<1>9. \A k \in Mirrors : Runs(k)' => Runs(k) /\ k # m
    BY <1>2, <1>4 DEF Runs
<1>10. held = 0 => held' = 0
    BY <1>1
<1>11. \A k \in Mirrors : k = held /\ k # m => k = held'
    BY <1>1
<1>12. \A k \in SwapJob : AtWork(k)' <=> AtWork(k)
    BY <1>1 DEF AtWork
<1> QED BY <1>1, <1>6, <1>7, <1>8, <1>9, <1>10, <1>11, <1>12 DEF OneAtWork

LEMMA ActivateWritesAlone ==
    ASSUME LiveTyped, JobsFit, SwapsOrdered, NEW j \in Jobs, ActivateWrites(j)
    PROVE  SwapsOrdered'
BY NobodyTyped, JobNames, LiveAssumption DEF SwapsOrdered, Orderly, OneAtWork, Unchecked,
   AtWork, Runs, ActivateWrites, LiveTyped, JobRecord, shows, manager, liveBounds

LEMMA LsAnswersAlone ==
    ASSUME LiveTyped, JobsFit, SwapsOrdered, LsAnswers
    PROVE  SwapsOrdered'
BY NobodyTyped, JobNames, LiveAssumption DEF SwapsOrdered, Orderly, OneAtWork, Unchecked,
   AtWork, Runs, LsAnswers, LiveTyped, JobRecord, NoJob, shows, manager, liveBounds

LEMMA ReactivateAlone ==
    ASSUME LiveTyped, JobsFit, SwapsOrdered, Reactivate
    PROVE  SwapsOrdered'
<1>1. /\ UNCHANGED <<job, crossed>> /\ dialog.kind = "recovery" /\ dialog' = NoDialog /\ start
    BY DEF Reactivate
<1>2. SUFFICES ASSUME Orderly' PROVE OneAtWork'
    BY DEF SwapsOrdered
<1>3. OneAtWork /\ ~Unchecked /\ \A j \in SwapJob : ~AtWork(j)
    BY <1>1, <1>2 DEF SwapsOrdered, Orderly, OneAtWork
<1>4. \A m \in Mirrors : ~Runs(m)
    BY <1>1, <1>3 DEF OneAtWork, AtWork, Mirrors
<1>5. \A m \in Mirrors : Runs(m)' => m = held'
    <2>1. CASE UNCHANGED <<mirror, held>>
        BY <2>1, <1>4 DEF Runs
    <2>2. CASE \E n \in Mirrors : held' = n /\ mirror' = [mirror EXCEPT ![n] = "new"]
        BY <2>2, <1>4 DEF Runs, LiveTyped
    <2> QED BY <2>1, <2>2, <1>1, Started
<1> QED BY <1>1, <1>3, <1>5, NobodyTyped DEF OneAtWork, Unchecked, AtWork

LEMMA MirrorStoppedAlone ==
    ASSUME LiveTyped, JobsFit, SwapsOrdered, NEW j \in Jobs, MirrorStopped(j)
    PROVE  SwapsOrdered'
<1>1. /\ job[j].at = "stopping" /\ ~Runs(job[j].awaits)
      /\ UNCHANGED <<dialog, mirror, held, crossed>>
      /\ job' = [job EXCEPT ![j].at = "stopped", ![j].awaits = 0]
    BY DEF MirrorStopped
<1>2. \A k \in Jobs : /\ job'[k].kind = job[k].kind
                      /\ IF k = j THEN job'[k].at = "stopped"
                                  ELSE job'[k].at = job[k].at /\ job'[k].awaits = job[k].awaits
    BY <1>1 DEF LiveTyped, JobRecord
<1>3. SUFFICES ASSUME Orderly' PROVE OneAtWork'
    BY DEF SwapsOrdered
<1>4. OneAtWork
    BY <1>1, <1>2, <1>3, JobNames DEF SwapsOrdered, Orderly
<1>5. \A k \in Jobs : AtWork(k)' <=> AtWork(k)
    BY <1>1, <1>2 DEF AtWork
<1>6. \A m \in Mirrors : Runs(m)' =>
          m = held' \/ \E k \in SwapJob : job'[k].at = "stopping" /\ job'[k].awaits = m
    <2> SUFFICES ASSUME NEW m \in Mirrors, Runs(m)', m # held
                 PROVE  \E k \in SwapJob : job'[k].at = "stopping" /\ job'[k].awaits = m
        BY <1>1
    <2>1. Runs(m)
        BY <1>1 DEF Runs
    <2>2. PICK k \in SwapJob : job[k].at = "stopping" /\ job[k].awaits = m
        BY <1>4, <2>1 DEF OneAtWork
    <2>3. k # j
        BY <1>1, <2>1, <2>2
    <2> QED BY <1>2, <2>2, <2>3, JobNames
<1>7. Unchecked' <=> Unchecked
    BY <1>2, <1>5, JobNames DEF Unchecked
<1> QED BY <1>1, <1>4, <1>5, <1>6, <1>7, JobNames DEF OneAtWork

LEMMA runSwapAlone ==
    ASSUME LiveTyped, JobsFit, SwapsOrdered, NEW j \in SwapJob,
           runSwapWithLiveMirror(j) \/ ResetLive(j)
    PROVE  SwapsOrdered'
<1>1. /\ UNCHANGED <<lsShown, mirror>> /\ dialog' = Dialog("working") /\ job[j].at = "idle"
      /\ dialog.kind \in {"swap", "recovery"}
    BY DEF runSwapWithLiveMirror, ResetLive, shows
<1>11. ~crossed' => ~crossed /\ (dialog.kind = "swap" => ~AtWork("recover"))
    BY DEF runSwapWithLiveMirror, ResetLive, AtWork
<1>2. \E b \in JobRecord : stop(j, b)
    <2>1. CASE runSwapWithLiveMirror(j)
        <3> DEFINE b == [NoJob EXCEPT !.kind = "swap", !.plan = swapPlan(dialog),
                                 !.wasActive = dialog.active, !.handoff = Len(swapPlan(dialog)) = 2]
        <3>1. stop(j, b)
            BY <2>1 DEF runSwapWithLiveMirror
        <3>2. b \in JobRecord
            BY <2>1, SwapBegun DEF SwapJobOf, runSwapWithLiveMirror
        <3> QED BY <3>1, <3>2
    <2>2. CASE ResetLive(j)
        <3> DEFINE b == [NoJob EXCEPT !.kind = "reset", !.plan = <<Deactivate>>]
        <3>1. stop(j, b)
            BY <2>2 DEF ResetLive
        <3>2. b \in JobRecord
            BY NobodyTyped DEF JobRecord, JobKind, Plan
        <3> QED BY <3>1, <3>2
    <2> QED BY <2>1, <2>2
<1>3. PICK x \in JobRecord :
           /\ \A k \in Jobs : job'[k] = IF k = j THEN x ELSE job[k]
           /\ \/ x.at = "stopped" /\ held = 0
              \/ x.at = "stopping" /\ x.awaits = held
    BY <1>2, Stopping, JobNames
<1>4. held' = 0
    BY <1>2, Stopping, JobNames
<1>5. SUFFICES ASSUME Orderly' PROVE OneAtWork'
    BY DEF SwapsOrdered
<1>6. OneAtWork /\ ~Unchecked /\ \A k \in SwapJob : ~AtWork(k)
    <2>1. Orderly /\ ~(dialog.kind = "swap" /\ AtWork("recover"))
        BY <1>11, <1>3, <1>5, JobNames DEF Orderly
    <2>2. OneAtWork
        BY <2>1 DEF SwapsOrdered
    <2>3. job["recover"].kind # "none"
        BY <1>1, <2>2 DEF OneAtWork, Unchecked, JobsFit, DialogFits
    <2> QED BY <1>1, <2>1, <2>2, <2>3 DEF OneAtWork, Unchecked
<1>7. \A m \in Mirrors : Runs(m)' => \E k \in SwapJob : job'[k].at = "stopping" /\ job'[k].awaits = m
    BY <1>1, <1>3, <1>6, JobNames DEF OneAtWork, AtWork, Runs, Mirrors
<1>8. \A k \in SwapJob : AtWork(k)' => k = j
    BY <1>3, <1>6, JobNames DEF AtWork
<1>9. ~Unchecked'
    BY <1>3, <1>6, JobNames DEF Unchecked, AtWork
<1>10. dialog'.kind = "working"
    BY <1>1, NobodyTyped DEF DialogKind
<1> QED BY <1>4, <1>7, <1>8, <1>9, <1>10 DEF OneAtWork

LEMMA quitAlone == ASSUME LiveTyped, JobsFit, quit PROVE ~Orderly'
<1> DEFINE b == [NoJob EXCEPT !.kind = "quit", !.plan = <<Deactivate>>]
<1>1. stop("quit", b)
    BY DEF quit
<1>2. b \in JobRecord /\ b.kind = "quit"
    BY NobodyTyped DEF JobRecord, JobKind, Plan
<1> HIDE DEF b
<1>3. job'["quit"].kind = "quit"
    BY <1>1, <1>2, Stopping, JobNames
<1> QED BY <1>3 DEF Orderly

\* A swap that has a command to run is alone.
LEMMA CommandIsAlone ==
    ASSUME LiveTyped, JobsFit, OneAtWork, NEW j \in SwapJob, AtWork(j), job[j].at # "stopping"
    PROVE  /\ held = 0 /\ ~Unchecked /\ dialog.kind = "working"
           /\ \A m \in Mirrors : ~Runs(m)
           /\ \A k \in SwapJob : AtWork(k) => k = j
<1>1. held = 0 /\ ~Unchecked /\ dialog.kind = "working" /\ \A k \in SwapJob : AtWork(k) => k = j
    BY DEF OneAtWork
<1>2. \A k \in SwapJob : job[k].at # "stopping"
    BY <1>1 DEF AtWork
<1>3. \A m \in Mirrors : ~Runs(m)
    BY <1>1, <1>2 DEF OneAtWork, Mirrors
<1> QED BY <1>1, <1>3

LEMMA SwapSettlesAlone ==
    ASSUME LiveTyped, JobsFit, SwapsOrdered, NEW j \in SwapJob, AtWork(j), job[j].at # "stopping",
           NEW how \in Heard, Settles(j, how)
    PROVE  SwapsOrdered'
<1> DEFINE ok == how # "failed"
<1>1. SwapSettles(j, ok) /\ UNCHANGED <<told, gone, crossed>>
    BY JobNames DEF Settles
<1>2. ok \in BOOLEAN
    OBVIOUS
<1> HIDE DEF ok
<1>3. \E x \in JobRecord : job' = [job EXCEPT ![j] = x] /\ x.at \in {"idle", "stopped"}
    BY <1>1, <1>2, SwapSettled, NobodyTyped
<1>4. PICK x \in JobRecord :
           x.at \in {"idle", "stopped"} /\ \A k \in Jobs : job'[k] = IF k = j THEN x ELSE job[k]
    BY <1>3 DEF LiveTyped
<1>5. SUFFICES ASSUME Orderly' PROVE OneAtWork'
    BY DEF SwapsOrdered
<1>6. OneAtWork
    BY <1>1, <1>4, <1>5, JobNames DEF SwapsOrdered, Orderly
<1>7. /\ held = 0 /\ ~Unchecked /\ dialog.kind = "working"
      /\ \A m \in Mirrors : ~Runs(m)
      /\ \A k \in SwapJob : AtWork(k) => k = j
    BY <1>6, CommandIsAlone
<1>8. ~Unchecked' /\ \A k \in SwapJob : AtWork(k)' => k = j
    BY <1>4, <1>7, JobNames DEF Unchecked, AtWork
<1>9. CASE UNCHANGED <<dialog, mirror, held>>
    BY <1>7, <1>8, <1>9 DEF OneAtWork, Runs
<1>10. CASE /\ job' = [job EXCEPT ![j] = NoJob]
            /\ start \/ UNCHANGED <<mirror, held>>
            /\ dialog' = IF ok THEN NoDialog ELSE Dialog("result")
    <2>1. \A m \in Mirrors : Runs(m)' => m = held'
        <3>1. CASE UNCHANGED <<mirror, held>>
            BY <3>1, <1>7 DEF Runs
        <3>2. CASE \E n \in Mirrors : held' = n /\ mirror' = [mirror EXCEPT ![n] = "new"]
            BY <3>2, <1>7 DEF Runs, LiveTyped
        <3> QED BY <3>1, <3>2, <1>10, Started
    <2>2. dialog'.kind \in {"none", "result"}
        BY <1>10, NobodyTyped DEF DialogKind
    <2>3. \A k \in SwapJob : ~AtWork(k)'
        BY <1>8, <1>10, NobodyTyped, JobNames DEF AtWork, LiveTyped
    <2> QED BY <1>8, <2>1, <2>2, <2>3 DEF OneAtWork
<1> QED BY <1>1, <1>2, <1>9, <1>10, SwapSettled

LEMMA RecoverSettlesAlone ==
    ASSUME LiveTyped, JobsFit, SwapsOrdered, AtWork("recover"), NEW how \in Heard,
           Settles("recover", how)
    PROVE  SwapsOrdered'
<1>1. RecoverSettles(how) /\ UNCHANGED <<mirror, held, told, gone>>
    BY JobNames DEF Settles
<1>2. \A k \in Jobs : /\ job'[k].kind = job[k].kind
                      /\ IF k = "recover" THEN job'[k].at = "idle" ELSE job'[k] = job[k]
    BY <1>1, JobNames DEF RecoverSettles, LiveTyped, JobRecord
<1>3. SUFFICES ASSUME Orderly' PROVE OneAtWork'
    BY DEF SwapsOrdered
<1>4. \/ UNCHANGED <<dialog, crossed>>
      \/ dialog'.kind \in {"result", "recovery"} /\ crossed' = (crossed \/ dialog.kind = "working")
    BY <1>1, NobodyTyped DEF RecoverSettles, Heard, Shows, DialogKind
<1>5. OneAtWork
    BY <1>2, <1>3, <1>4, JobNames DEF SwapsOrdered, Orderly
<1>6. held = 0 /\ (\A m \in Mirrors : mirror[m] = "none") /\ \A k \in SwapJob : ~AtWork(k)
    BY <1>5 DEF OneAtWork, Unchecked
<1>7. job["recover"].kind = "recover"
    BY DEF JobsFit
<1>8. ~Unchecked' /\ \A k \in SwapJob : ~AtWork(k)'
    BY <1>2, <1>6, <1>7, JobNames DEF Unchecked, AtWork
<1>9. \A m \in Mirrors : ~Runs(m)'
    BY <1>1, <1>6 DEF Runs
<1> QED BY <1>1, <1>6, <1>8, <1>9 DEF OneAtWork

LEMMA SettlesAlone ==
    ASSUME LiveTyped, JobsFit, SwapsOrdered, NEW j \in Jobs, AtWork(j), job[j].at # "stopping",
           NEW how \in Heard, Settles(j, how)
    PROVE  SwapsOrdered'
<1>1. CASE j \in SwapJob
    BY <1>1, SwapSettlesAlone
<1>2. CASE j = "recover"
    BY <1>2, RecoverSettlesAlone
<1>3. CASE j = "quit"
    <2>1. job' = [job EXCEPT ![j].at = "idle"]
        BY <1>3, JobNames DEF Settles
    <2>2. job'["quit"].kind = "quit"
        BY <2>1, <1>3 DEF LiveTyped, JobRecord, JobsFit
    <2> QED BY <2>2 DEF SwapsOrdered, Orderly
<1> QED BY <1>1, <1>2, <1>3, JobNames

LEMMA EndsAlone ==
    ASSUME LiveTyped, JobsFit, SwapsOrdered, NEW j \in Jobs, AtWork(j), job[j].at # "stopping",
           NEW how \in Heard, Ends(j, how)
    PROVE  SwapsOrdered'
<1>1. CASE ~gone
    BY <1>1, SettlesAlone DEF Ends
<1>2. CASE gone
    <2>1. job' = [job EXCEPT ![j].at = "idle"]
        BY <1>2 DEF Ends
    <2>2. job'["quit"].kind = "quit"
        BY <2>1, <1>2, JobNames DEF LiveTyped, JobRecord, JobsFit
    <2> QED BY <2>2 DEF SwapsOrdered, Orderly
<1> QED BY <1>1, <1>2 DEF LiveTyped

LEMMA CommandStartsAlone ==
    ASSUME LiveTyped, JobsFit, SwapsOrdered, NEW j \in Jobs, CommandStarts(j)
    PROVE  SwapsOrdered'
<1>1. AtWork(j) /\ job[j].at = "stopped"
    BY DEF CommandStarts, AtWork
<1>2. CASE \E how \in Heard : Settles(j, how)
    BY <1>1, <1>2, SettlesAlone
<1>3. CASE /\ job' = [job EXCEPT ![j].at = "checked"]
           /\ UNCHANGED <<shows, dialog, mirror, held, told, gone, astray, crossed>>
    <2>1. \A k \in Jobs : /\ job'[k].kind = job[k].kind
                          /\ IF k = j THEN job'[k].at = "checked" ELSE job'[k] = job[k]
        BY <1>3 DEF LiveTyped, JobRecord
    <2>2. SUFFICES ASSUME Orderly' PROVE OneAtWork'
        BY DEF SwapsOrdered
    <2>3. OneAtWork
        BY <1>3, <2>1, <2>2, JobNames DEF SwapsOrdered, Orderly
    <2>4. \A k \in Jobs : AtWork(k)' <=> AtWork(k)
        BY <1>1, <2>1 DEF AtWork
    <2>5. \A k \in SwapJob : job[k].at = "stopping" => job'[k] = job[k]
        BY <1>1, <2>1, JobNames
    <2>6. Unchecked' <=> Unchecked
        BY <2>1, <2>4, JobNames DEF Unchecked
    <2>7. \A m \in Mirrors : Runs(m)' <=> Runs(m)
        BY <1>3 DEF Runs
    <2> QED BY <1>3, <2>3, <2>4, <2>5, <2>6, <2>7, JobNames DEF OneAtWork
<1> QED BY <1>2, <1>3 DEF CommandStarts, Heard

LEMMA ActivateEndsAlone ==
    ASSUME LiveTyped, JobsFit, SwapsOrdered, NEW j \in Jobs, ActivateEnds(j) \/ OtherEnds(j)
    PROVE  SwapsOrdered'
<1>1. AtWork(j) /\ job[j].at # "stopping"
    BY DEF ActivateEnds, OtherEnds, AtWork
<1>2. \E how \in Heard : Ends(j, how)
    BY DEF ActivateEnds, OtherEnds, Heard
<1> QED BY <1>1, <1>2, EndsAlone

LEMMA SwapsOrderedStep ==
    ASSUME LiveTyped, JobsFit, SwapsOrdered, [LiveNext]_liveVars
    PROVE  SwapsOrdered'
<1>1. CASE UNCHANGED liveVars
    BY <1>1 DEF liveVars, shows, manager, liveBounds, SwapsOrdered, OneAtWork, Orderly,
       Unchecked, AtWork, Runs
<1>2. CASE quit
    BY <1>2, quitAlone DEF SwapsOrdered
<1>3. CASE LiveNext /\ ~quit
    BY <1>3, openSwapAlone, runSwapAlone, MirrorStoppedAlone, CommandStartsAlone,
       ActivateWritesAlone, ActivateEndsAlone, MirrorBeginsAlone, MirrorEndsAlone,
       MirrorEndHeardAlone, CloseDialogAlone, ReactivateAlone, OtherNewsAlone, TickAlone,
       LsReadsAlone, LsAnswersAlone
       DEF LiveNext
<1> QED BY <1>1, <1>2, <1>3

LEMMA LiveBeginsOrdered == LiveInit => SwapsOrdered
<1> SUFFICES ASSUME LiveInit PROVE OneAtWork
    BY DEF SwapsOrdered
<1>1. \A j \in Jobs : job[j] = NoJob
    BY DEF LiveInit
<1>2. Unchecked /\ \A j \in Jobs : ~AtWork(j)
    BY <1>1, NobodyTyped, JobNames DEF Unchecked, AtWork
<1>3. held = 0 /\ dialog.kind = "none" /\ \A m \in Mirrors : mirror[m] = "none"
    BY NobodyTyped DEF LiveInit
<1> QED BY <1>2, <1>3, JobNames DEF OneAtWork, Runs
-----------------------------------------------------------------------------
\* The mirror that is held follows the journal.
LEMMA MirrorBeginsFollows ==
    ASSUME LiveTyped, JobsFit, SwapsOrdered, MirrorFollows, NEW m \in Mirrors, MirrorBegins(m)
    PROVE  MirrorFollows'
BY NobodyTyped, JobNames, LiveAssumption DEF MirrorFollows, MirrorHeld, Budget, One,
   Orderly, SwapsOrdered, OneAtWork, Unchecked, AtWork, MirrorBegins, LiveTyped, Mirrors,
   manager, liveBounds, shows

LEMMA MirrorEndsFollows ==
    ASSUME LiveTyped, JobsFit, SwapsOrdered, MirrorFollows, NEW m \in Mirrors, MirrorEnds(m)
    PROVE  MirrorFollows'
BY NobodyTyped, JobNames, LiveAssumption DEF MirrorFollows, MirrorHeld, Budget, One,
   Orderly, SwapsOrdered, OneAtWork, Unchecked, AtWork, MirrorEnds, Runs, LiveTyped, Mirrors,
   manager, liveBounds, shows

LEMMA openSwapFollows ==
    ASSUME LiveTyped, JobsFit, SwapsOrdered, MirrorFollows, NEW s \in LiveSlice, openSwap(s)
    PROVE  MirrorFollows'
BY NobodyTyped, JobNames, LiveAssumption DEF MirrorFollows, MirrorHeld, Budget, One,
   Orderly, SwapsOrdered, OneAtWork, Unchecked, AtWork, openSwap, LiveTyped, Mirrors,
   manager, liveBounds, shows

LEMMA CloseDialogFollows ==
    ASSUME LiveTyped, JobsFit, SwapsOrdered, MirrorFollows, CloseDialog
    PROVE  MirrorFollows'
BY NobodyTyped, JobNames, LiveAssumption DEF MirrorFollows, MirrorHeld, Budget, One,
   Orderly, SwapsOrdered, OneAtWork, Unchecked, AtWork, CloseDialog, LiveTyped, Mirrors,
   manager, liveBounds, shows

LEMMA OtherNewsFollows ==
    ASSUME LiveTyped, JobsFit, SwapsOrdered, MirrorFollows, OtherNews
    PROVE  MirrorFollows'
<1>1. /\ UNCHANGED <<journalOf, lsCall, lsShown, job, mirror, held, stopping, told, gone, confirms>>
      /\ dialog'.kind \in {"result", "none"} /\ (crossed => crossed')
      /\ ~astray' => ~astray /\ dialog.kind # "recovery"
    BY NobodyTyped DEF OtherNews, Shows, DialogKind, shows, manager, LiveTyped
<1>2. SUFFICES ASSUME Orderly' PROVE MirrorHeld'
    BY DEF MirrorFollows
<1>3. Orderly
    BY <1>1, <1>2 DEF Orderly
<1>4. MirrorHeld
    BY <1>3 DEF MirrorFollows
<1>5. Unchecked' = Unchecked /\ \A j \in Jobs : AtWork(j)' = AtWork(j)
    BY <1>1 DEF Unchecked, AtWork
<1>6. (\E j \in SwapJob : AtWork(j))' = (\E j \in SwapJob : AtWork(j))
    BY <1>1 DEF AtWork
<1>7. Budget' >= Budget /\ Budget' \in Int /\ Budget \in Int
    <2>1. confirms \in Nat /\ confirms' = confirms
        BY <1>1, LiveAssumption DEF LiveTyped
    <2>2. One(Unchecked \/ dialog.kind = "recovery")' <= One(Unchecked \/ dialog.kind = "recovery")
        BY <1>1, <1>5 DEF One
    <2>3. One(\E j \in SwapJob : AtWork(j))' = One(\E j \in SwapJob : AtWork(j))
        BY <1>6 DEF One
    <2>4. \A b : One(b) \in {0, 1}
        BY DEF One
    <2> DEFINE a == One(\E j \in SwapJob : AtWork(j))
               b == One(Unchecked \/ dialog.kind = "recovery")
    <2>5. a \in {0, 1} /\ b \in {0, 1} /\ a' = a /\ b' \in {0, 1} /\ b' <= b
        BY <2>2, <2>3, <2>4
    <2>6. Budget = confirms + 1 - a - b /\ Budget' = confirms' + 1 - a' - b'
        BY DEF Budget
    <2>7. PICK c \in Nat, x \in {0, 1}, y \in {0, 1}, z \in {0, 1} :
             c = confirms /\ x = a /\ y = b /\ z = b'
        BY <2>1, <2>5
    <2> HIDE DEF a, b
    <2>8. Budget = c + 1 - x - y /\ Budget' = c + 1 - x - z /\ z <= y
        BY <2>1, <2>5, <2>6, <2>7
    <2> QED BY <2>8
<1>8. \A m \in Mirrors : mirror'[m] # "none" => m <= Budget'
    <2>1. \A m \in Mirrors : m \in Int
        BY LiveAssumption DEF Mirrors
    <2> QED BY <1>1, <1>4, <1>7, <2>1 DEF MirrorHeld
<1>9. ~(astray \/ Unchecked \/ dialog.kind = "recovery" \/ \E j \in SwapJob : AtWork(j))' =>
          ~(astray \/ Unchecked \/ dialog.kind = "recovery" \/ \E j \in SwapJob : AtWork(j))
    BY <1>1, <1>5, <1>6
<1> QED BY <1>1, <1>4, <1>5, <1>8, <1>9, JobNames DEF MirrorHeld

LEMMA TickFollows ==
    ASSUME LiveTyped, JobsFit, SwapsOrdered, MirrorFollows, Tick
    PROVE  MirrorFollows'
BY NobodyTyped, JobNames, LiveAssumption DEF MirrorFollows, MirrorHeld, Budget, One,
   Orderly, Unchecked, AtWork, Tick, refresh, LiveTyped, Mirrors, manager, liveBounds, shows

LEMMA LsReadsFollows ==
    ASSUME LiveTyped, JobsFit, SwapsOrdered, MirrorFollows, LsReads
    PROVE  MirrorFollows'
BY NobodyTyped, JobNames, LiveAssumption DEF MirrorFollows, MirrorHeld, Budget, One,
   Orderly, Unchecked, AtWork, LsReads, LiveTyped, Mirrors, manager, liveBounds, shows

LEMMA ActivateWritesFollows ==
    ASSUME LiveTyped, JobsFit, SwapsOrdered, MirrorFollows, NEW j \in Jobs, ActivateWrites(j)
    PROVE  MirrorFollows'
BY NobodyTyped, JobNames, PlanShapes, LiveAssumption DEF MirrorFollows, MirrorHeld, Budget,
   One, Orderly, SwapsOrdered, OneAtWork, Unchecked, AtWork, ActivateWrites, JobsFit,
   JobRecord, LiveTyped, Mirrors, manager, liveBounds, shows

LEMMA LsAnswersFollows ==
    ASSUME LiveTyped, JobsFit, SwapsOrdered, MirrorFollows, LsAnswers
    PROVE  MirrorFollows'
BY NobodyTyped, JobNames, PlanShapes, LiveAssumption DEF MirrorFollows, MirrorHeld, Budget,
   One, Orderly, SwapsOrdered, OneAtWork, Unchecked, AtWork, LsAnswers, JobsFit, JobRecord,
   NoJob, Recover, LiveTyped, Mirrors, manager, liveBounds, shows
LEMMA MirrorEndHeardFollows ==
    ASSUME LiveTyped, JobsFit, SwapsOrdered, MirrorFollows, NEW m \in Mirrors, MirrorEndHeard(m)
    PROVE  MirrorFollows'
<1>1. /\ UNCHANGED <<journalOf, lsShown, job, told, gone, confirms>>
      /\ mirror' = [mirror EXCEPT ![m] = "heard"] /\ mirror[m] \in {"clean", "error", "drift"}
      /\ held' = (IF held = m THEN 0 ELSE held) /\ stopping' = (IF stopping = m THEN 0 ELSE stopping)
    BY DEF MirrorEndHeard, liveBounds, Shows, refresh, shows
<1>2. \/ dialog' = dialog /\ crossed' = crossed
      \/ dialog'.kind = "result" /\ crossed' = (crossed \/ dialog.kind = "working")
    BY NobodyTyped DEF MirrorEndHeard, Shows, DialogKind
<1>3. \/ UNCHANGED <<lsCall, astray>> /\ (stopping = m \/ mirror[m] = "clean") /\ dialog' = dialog
      \/ astray' /\ lsCall' \in {lsCall, "asked"}
    BY <1>1 DEF MirrorEndHeard, Shows, refresh, shows
<1>4. SUFFICES ASSUME Orderly' PROVE MirrorHeld'
    BY DEF MirrorFollows
<1>5. OneAtWork /\ MirrorHeld
    BY <1>1, <1>2, <1>4 DEF SwapsOrdered, MirrorFollows, Orderly
<1>6. \A k \in Mirrors : mirror'[k] = IF k = m THEN "heard" ELSE mirror[k]
    BY <1>1 DEF LiveTyped
<1>7. ~Unchecked /\ (Unchecked' <=> Unchecked) /\ \A k \in SwapJob : AtWork(k)' <=> AtWork(k)
    BY <1>1, <1>5 DEF OneAtWork, Unchecked, AtWork
<1>8. dialog'.kind = "recovery" => dialog.kind = "recovery"
    BY <1>2
<1>9. \A k \in Mirrors : mirror'[k] # "none" => k <= Budget'
    <2>1. Budget <= Budget' /\ Budget \in Int /\ Budget' \in Int
        BY <1>1, <1>7, <1>8, LiveAssumption DEF Budget, One, LiveTyped
    <2> HIDE DEF Budget
    <2> QED BY <1>1, <1>5, <1>6, <2>1 DEF MirrorHeld, Mirrors
<1>10. told' \subseteq {k \in Mirrors : mirror'[k] # "none"}
    BY <1>1, <1>5, <1>6 DEF MirrorHeld
<1>11. held' # 0 => mirror'[held'] = mirror[held'] /\ held' = held
    BY <1>1, <1>6, LiveAssumption DEF LiveTyped, Mirrors
<1>12. ~(astray \/ Unchecked \/ dialog.kind = "recovery" \/ \E j \in SwapJob : AtWork(j))'
          => IF held' = 0 \/ mirror'[held'] = "drift" THEN journalOf' = "none"
             ELSE journalOf' # "none" /\ mirror'[held'] # "clean"
    <2> SUFFICES ASSUME ~(astray' \/ dialog'.kind = "recovery" \/ \E j \in SwapJob : AtWork(j)')
                 PROVE  IF held' = 0 \/ mirror'[held'] = "drift" THEN journalOf' = "none"
                        ELSE journalOf' # "none" /\ mirror'[held'] # "clean"
        OBVIOUS
    <2>1. UNCHANGED <<lsCall, astray, dialog>> /\ (stopping = m \/ mirror[m] = "clean")
        BY <1>3
    <2>2. ~(astray \/ Unchecked \/ dialog.kind = "recovery" \/ \E j \in SwapJob : AtWork(j))
        BY <1>7, <2>1
    <2>3. stopping # m
        BY <1>5, <2>2 DEF MirrorHeld, AtWork, Mirrors
    <2>4. held # m
        BY <1>5, <2>1, <2>2, <2>3, LiveAssumption DEF MirrorHeld, Mirrors
    <2>5. held' = held
        BY <1>1, <2>4
    <2> QED BY <1>1, <1>5, <1>11, <2>2, <2>5 DEF MirrorHeld
<1> QED BY <1>1, <1>3, <1>5, <1>7, <1>8, <1>9, <1>10, <1>11, <1>12 DEF MirrorHeld, Unchecked

LEMMA ReactivateFollows ==
    ASSUME LiveTyped, JobsFit, SwapsOrdered, MirrorFollows, Reactivate
    PROVE  MirrorFollows'
BY Started, NobodyTyped, JobNames, LiveAssumption DEF MirrorFollows, MirrorHeld, Budget,
   One, Orderly, SwapsOrdered, OneAtWork, Unchecked, AtWork, Reactivate, LiveTyped, Mirrors,
   manager, liveBounds, shows

LEMMA MirrorStoppedFollows ==
    ASSUME LiveTyped, JobsFit, SwapsOrdered, MirrorFollows, NEW j \in Jobs, MirrorStopped(j)
    PROVE  MirrorFollows'
<1>1. /\ job[j].at = "stopping"
      /\ job' = [job EXCEPT ![j].at = "stopped", ![j].awaits = 0]
      /\ stopping' = IF stopping = job[j].awaits THEN 0 ELSE stopping
      /\ UNCHANGED <<journalOf, lsShown, lsCall, dialog, mirror, held, told, confirms, crossed, astray>>
    BY DEF MirrorStopped, shows, liveBounds
<1>2. \A k \in Jobs : /\ job'[k].kind = job[k].kind /\ job'[k].plan = job[k].plan
                      /\ IF k = j THEN job'[k].at = "stopped"
                                  ELSE job'[k].at = job[k].at /\ job'[k].awaits = job[k].awaits
    BY <1>1 DEF LiveTyped, JobRecord
<1>3. SUFFICES ASSUME Orderly' PROVE MirrorHeld'
    BY DEF MirrorFollows
<1>4. MirrorHeld
    BY <1>1, <1>2, <1>3, JobNames DEF MirrorFollows, Orderly
<1>5. \A k \in Jobs : AtWork(k)' <=> AtWork(k)
    BY <1>1, <1>2 DEF AtWork
<1>6. /\ Unchecked' <=> Unchecked
      /\ (\E k \in SwapJob : AtWork(k))' <=> \E k \in SwapJob : AtWork(k)
      /\ AtWork("recover")' <=> AtWork("recover")
      /\ job'["recover"].kind = job["recover"].kind /\ job'["recover"].plan = job["recover"].plan
    BY <1>2, <1>5, JobNames DEF Unchecked
<1>7. Budget' = Budget
    BY <1>1, <1>6 DEF Budget
<1>8. stopping' # 0 => \E k \in SwapJob : job'[k].at = "stopping" /\ job'[k].awaits = stopping'
    BY <1>1, <1>2, <1>4, JobNames DEF MirrorHeld
<1> HIDE DEF Budget
<1> QED BY <1>1, <1>4, <1>6, <1>7, <1>8 DEF MirrorHeld

\* A swap that begins holds no mirror any more, and is counted.
LEMMA BegunFollows ==
    ASSUME LiveTyped, JobsFit, SwapsOrdered, MirrorFollows, NEW j \in SwapJob, NEW b \in JobRecord,
           Orderly, ~Unchecked, \A k \in SwapJob : ~AtWork(k),
           stop(j, b), dialog' = Dialog("working"), confirms' = confirms + 1,
           UNCHANGED <<journalOf, lsShown, lsCall, mirror, astray>>
    PROVE  MirrorHeld'
<1>1. held' = 0 /\ MirrorHeld
    BY Stopping, JobNames DEF MirrorFollows
<1>2. PICK x \in JobRecord :
           /\ \A k \in Jobs : job'[k] = IF k = j THEN x ELSE job[k]
           /\ \/ x.at = "stopped" /\ held = 0 /\ UNCHANGED <<stopping, told>>
              \/ /\ x.at = "stopping" /\ held \in Mirrors
                 /\ x.awaits = held /\ stopping' = held /\ told' = told \cup {held}
    BY Stopping, JobNames
<1>3. ~Unchecked' /\ dialog'.kind = "working" /\ AtWork(j)'
    BY <1>2, NobodyTyped, JobNames DEF Unchecked, AtWork, DialogKind
<1>4. stopping = 0
    BY <1>1 DEF MirrorHeld, AtWork
<1>5. told' \subseteq {m \in Mirrors : mirror'[m] # "none"}
    <2>1. told \subseteq {m \in Mirrors : mirror[m] # "none"} /\ UNCHANGED mirror
        BY <1>1 DEF MirrorHeld
    <2>2. held # 0 => mirror[held] # "none"
        BY <1>1 DEF MirrorHeld
    <2>3. told' = told \/ (held \in Mirrors /\ held # 0 /\ told' = told \cup {held})
        BY <1>2 DEF Mirrors
    <2> QED BY <2>1, <2>2, <2>3
<1>6. stopping' # 0 => \E k \in SwapJob : job'[k].at = "stopping" /\ job'[k].awaits = stopping'
    BY <1>2, <1>4, JobNames
<1>7. \A m \in Mirrors : mirror'[m] # "none" => m <= Budget'
    <2>1. Budget <= Budget'
        BY <1>3, LiveAssumption DEF Budget, One, LiveTyped
    <2>2. Budget \in Int /\ Budget' \in Int
        BY <1>3, LiveAssumption DEF Budget, One, LiveTyped
    <2> HIDE DEF Budget
    <2> QED BY <1>1, <2>1, <2>2 DEF MirrorHeld, Mirrors
<1> QED BY <1>1, <1>3, <1>5, <1>6, <1>7 DEF MirrorHeld, Unchecked

LEMMA runSwapFollows ==
    ASSUME LiveTyped, JobsFit, SwapsOrdered, MirrorFollows, NEW j \in SwapJob,
           runSwapWithLiveMirror(j) \/ ResetLive(j)
    PROVE  MirrorFollows'
<1>1. /\ UNCHANGED <<journalOf, lsShown, lsCall, mirror, astray>> /\ job[j].at = "idle"
      /\ dialog' = Dialog("working") /\ confirms' = confirms + 1 /\ dialog.kind \in {"swap", "recovery"}
    BY DEF runSwapWithLiveMirror, ResetLive, shows
<1>11. ~crossed' => ~crossed /\ (dialog.kind = "swap" => ~AtWork("recover"))
    BY DEF runSwapWithLiveMirror, ResetLive, AtWork
<1>2. \E b \in JobRecord : stop(j, b)
    <2>1. CASE runSwapWithLiveMirror(j)
        BY <2>1, SwapBegun DEF SwapJobOf, runSwapWithLiveMirror
    <2>2. CASE ResetLive(j)
        <3> DEFINE b == [NoJob EXCEPT !.kind = "reset", !.plan = <<Deactivate>>]
        <3>1. stop(j, b)
            BY <2>2 DEF ResetLive
        <3>2. b \in JobRecord
            BY NobodyTyped DEF JobRecord, JobKind, Plan
        <3> QED BY <3>1, <3>2
    <2> QED BY <2>1, <2>2
<1>3. SUFFICES ASSUME Orderly' PROVE MirrorHeld'
    BY DEF MirrorFollows
<1>4. Orderly /\ ~(dialog.kind = "swap" /\ AtWork("recover"))
    BY <1>11, <1>2, <1>3, Stopping, JobNames DEF Orderly
<1>5. ~Unchecked /\ \A k \in SwapJob : ~AtWork(k)
    <2>1. OneAtWork
        BY <1>4 DEF SwapsOrdered
    <2>2. job["recover"].kind # "none"
        BY <1>1, <2>1 DEF OneAtWork, Unchecked, JobsFit, DialogFits
    <2> QED BY <1>1, <1>4, <2>1, <2>2 DEF OneAtWork, Unchecked
<1> QED BY <1>1, <1>2, <1>4, <1>5, BegunFollows
\* A swap that is done has its mirror started, exactly when a slice is live then.
LEMMA SwapSettlesFollows ==
    ASSUME LiveTyped, JobsFit, SwapsOrdered, MirrorFollows, NEW j \in SwapJob, AtWork(j),
           job[j].at # "stopping", NEW how \in Heard, Settles(j, how), UNCHANGED <<stopping, confirms>>,
           how # "failed" => journalOf' = IF job[j].plan[1].op = "activate"
                                          THEN job[j].plan[1].slice ELSE "none"
    PROVE  MirrorFollows'
<1> DEFINE ok == how # "failed"
<1>1. SwapSettles(j, ok) /\ UNCHANGED <<told, gone, crossed>>
    BY JobNames DEF Settles
<1>2. ok \in BOOLEAN
    OBVIOUS
<1>3. ok => journalOf' = IF job[j].plan[1].op = "activate" THEN job[j].plan[1].slice ELSE "none"
    OBVIOUS
<1> HIDE DEF ok
<1>4. \E x \in JobRecord : job' = [job EXCEPT ![j] = x] /\ x.at \in {"idle", "stopped"}
    BY <1>1, <1>2, SwapSettled, NobodyTyped
<1>5. PICK x \in JobRecord :
           x.at \in {"idle", "stopped"} /\ \A k \in Jobs : job'[k] = IF k = j THEN x ELSE job[k]
    BY <1>4 DEF LiveTyped
<1>6. SUFFICES ASSUME Orderly' PROVE MirrorHeld'
    BY DEF MirrorFollows
<1>7. OneAtWork /\ MirrorHeld
    BY <1>1, <1>5, <1>6, JobNames DEF SwapsOrdered, MirrorFollows, Orderly
<1>8. /\ held = 0 /\ ~Unchecked /\ dialog.kind = "working"
      /\ \A k \in SwapJob : AtWork(k) => k = j
    BY <1>7, CommandIsAlone
<1>9. ~Unchecked' /\ \A k \in SwapJob : AtWork(k)' => k = j
    BY <1>5, <1>8, JobNames DEF Unchecked, AtWork
<1>10. stopping = 0 /\ stopping' = 0
    <2>1. \A k \in SwapJob : job[k].at # "stopping"
        BY <1>8 DEF AtWork
    <2>2. stopping = 0
        BY <1>7, <2>1 DEF MirrorHeld
    <2>3. UNCHANGED stopping
        OBVIOUS
    <2> QED BY <2>2, <2>3
<1>11. UNCHANGED confirms /\ confirms \in 0 .. MaxConfirms
    BY DEF LiveTyped
<1>12. CASE /\ ok /\ UNCHANGED <<shows, dialog, mirror, held, astray>>
            /\ \E y \in JobRecord : y.at = "stopped" /\ job' = [job EXCEPT ![j] = y]
    <2>1. AtWork(j)'
        BY <1>12, JobNames DEF LiveTyped, AtWork
    <2>2. Budget' = Budget
        BY <1>8, <1>9, <1>11, <1>12, <2>1 DEF Budget
    <2> HIDE DEF Budget
    <2> QED BY <1>1, <1>7, <1>8, <1>9, <1>10, <1>12, <2>1, <2>2 DEF MirrorHeld, Unchecked, shows
<1>13. CASE /\ job' = [job EXCEPT ![j] = NoJob]
            /\ ok => Len(job[j].plan) # 2
            /\ IF job[j].kind = "swap" /\ activeAfter(job[j], ok)
               THEN start ELSE UNCHANGED <<mirror, held>>
            /\ dialog' = IF ok THEN NoDialog ELSE Dialog("result")
            /\ astray' = ~ok
            /\ refresh /\ UNCHANGED lsShown
    <2>1. \A k \in SwapJob : ~AtWork(k)'
        BY <1>9, <1>13, NobodyTyped, JobNames DEF AtWork, LiveTyped
    <2>2. dialog'.kind \in {"none", "result"}
        BY <1>13, NobodyTyped DEF DialogKind
    <2>3. Budget = confirms /\ Budget' = confirms + 1
        BY <1>8, <1>9, <1>11, <2>1, <2>2 DEF Budget, One
    <2> HIDE DEF Budget
    <2>4. \A m \in Mirrors : mirror[m] # "none" => m <= confirms
        BY <1>7, <2>3 DEF MirrorHeld
    <2>5. told' \subseteq {m \in Mirrors : mirror[m] # "none"}
        BY <1>1, <1>7 DEF MirrorHeld
    <2>6. \/ UNCHANGED <<mirror, held>>
          \/ \E m \in Mirrors : /\ held' = m /\ mirror[m] = "none" /\ m <= confirms + 1
                                /\ mirror' = [mirror EXCEPT ![m] = "new"]
        <3>1. SUFFICES ASSUME start, ~UNCHANGED <<mirror, held>>
                       PROVE  \E m \in Mirrors :
                                  /\ held' = m /\ mirror[m] = "none" /\ m <= confirms + 1
                                  /\ mirror' = [mirror EXCEPT ![m] = "new"]
            BY <1>13
        <3>2. PICK m \in Mirrors :
                  /\ held' = m /\ mirror[m] = "none" /\ mirror' = [mirror EXCEPT ![m] = "new"]
                  /\ \A k \in Mirrors : mirror[k] = "none" => m <= k
            BY <3>1, Started
        <3>3. confirms + 1 \in Mirrors /\ confirms + 1 \in Nat
            BY <1>11, LiveAssumption DEF Mirrors
        <3>4. ~(confirms + 1 <= confirms)
            BY <1>11
        <3>5. mirror[confirms + 1] = "none"
            BY <2>4, <3>3, <3>4
        <3> QED BY <3>2, <3>3, <3>5
    <2>7. \A m \in Mirrors : mirror'[m] # "none" => m <= Budget'
        <3>1. \A m \in Mirrors : mirror'[m] # "none" => mirror[m] # "none" \/ m <= confirms + 1
            BY <2>6 DEF LiveTyped
        <3> QED BY <1>11, <2>3, <2>4, <3>1 DEF Mirrors
    <2>8. told' \subseteq {m \in Mirrors : mirror'[m] # "none"}
        BY <2>5, <2>6 DEF LiveTyped
    <2>9. held' # 0 => mirror'[held'] = "new" /\ held' \notin told'
        BY <1>8, <2>5, <2>6 DEF LiveTyped
    <2>10. ok => IF job[j].kind = "swap" /\ activeAfter(job[j], ok)
                 THEN held' # 0 /\ journalOf' # "none" ELSE held' = 0 /\ journalOf' = "none"
        <3> SUFFICES ASSUME ok
                     PROVE  IF job[j].kind = "swap" /\ activeAfter(job[j], ok)
                            THEN held' # 0 /\ journalOf' # "none" ELSE held' = 0 /\ journalOf' = "none"
            OBVIOUS
        <3>1. PlanFits(job[j]) /\ job[j] \in JobRecord /\ Len(job[j].plan) # 2
            BY <1>13, JobNames DEF JobsFit, LiveTyped
        <3>2. CASE job[j].plan = <<Deactivate>>
            <4>1. Len(job[j].plan) = 1 /\ job[j].plan[1].op = "deactivate"
                BY <3>2, PlanShapes
            <4>2. job[j].kind = "reset" \/ (~job[j].handoff /\ job[j].wasActive)
                BY <3>1, <4>1, PlanShapes DEF PlanFits
            <4>3. ~(job[j].kind = "swap" /\ activeAfter(job[j], ok))
                BY <4>2 DEF activeAfter
            <4>4. journalOf' = "none"
                BY <1>3, <3>2, PlanShapes
            <4> QED BY <1>8, <1>13, <4>3, <4>4
        <3>3. CASE \E s \in LiveSlice : job[j].plan = <<Act(s)>>
            <4>1. job[j].kind = "swap" /\ activeAfter(job[j], ok)
                BY <3>1, <3>3, PlanShapes DEF PlanFits, activeAfter, Act, Deactivate, JobRecord
            <4>2. journalOf' # "none"
                BY <1>3, <3>3, PlanShapes, LiveAssumption
            <4>3. start
                BY <1>13, <4>1
            <4>4. confirms + 1 \in Mirrors /\ ~(confirms + 1 <= confirms)
                BY <1>11, LiveAssumption DEF Mirrors
            <4>5. mirror[confirms + 1] = "none"
                BY <2>4, <4>4
            <4>6. held' \in Mirrors
                BY <1>8, <4>3, <4>4, <4>5, Started
            <4>7. held' # 0
                BY <4>6 DEF Mirrors
            <4> QED BY <4>1, <4>2, <4>7
        <3> QED BY <3>1, <3>2, <3>3, PlanShapes DEF PlanFits
    <2>11. job'["recover"].kind # "none" /\ ~AtWork("recover")'
        BY <1>9 DEF Unchecked
    <2>12. ok => astray' = FALSE
        BY <1>2, <1>13
    <2>13. ~ok => astray'
        BY <1>2, <1>13
    <2>14. ~astray' => IF held' = 0 \/ mirror'[held'] = "drift" THEN journalOf' = "none"
                         ELSE journalOf' # "none" /\ mirror'[held'] # "clean"
        BY <1>2, <2>9, <2>10, <2>13
    <2> QED BY <1>10, <2>2, <2>7, <2>8, <2>9, <2>11, <2>14 DEF MirrorHeld
<1> QED BY <1>1, <1>2, <1>12, <1>13, SwapSettled

\* The check of the start is answered: nothing is live, or the user is asked.
LEMMA RecoverSettlesFollows ==
    ASSUME LiveTyped, JobsFit, SwapsOrdered, MirrorFollows, AtWork("recover"), NEW how \in Heard,
           Settles("recover", how), UNCHANGED <<stopping, confirms>>,
           how = "ok" => UNCHANGED journalOf
    PROVE  MirrorFollows'
<1>1. RecoverSettles(how) /\ UNCHANGED <<mirror, held, told, gone>>
    BY JobNames DEF Settles
<1>2. \A k \in Jobs : /\ job'[k].kind = job[k].kind
                      /\ IF k = "recover" THEN job'[k].at = "idle" ELSE job'[k] = job[k]
    BY <1>1, JobNames DEF RecoverSettles, LiveTyped, JobRecord
<1>3. SUFFICES ASSUME Orderly' PROVE MirrorHeld'
    BY DEF MirrorFollows
<1>4. crossed => crossed'
    BY <1>1 DEF RecoverSettles, Heard, Shows
<1>5. OneAtWork /\ MirrorHeld
    BY <1>2, <1>3, <1>4, JobNames DEF SwapsOrdered, MirrorFollows, Orderly
<1>6. /\ held = 0 /\ (\A m \in Mirrors : mirror[m] = "none") /\ dialog.kind # "recovery"
      /\ \A k \in SwapJob : ~AtWork(k)
    BY <1>5 DEF OneAtWork, Unchecked
<1>7. job["recover"].plan = <<Recover(journalOf)>> /\ job["recover"].kind = "recover"
    BY <1>5 DEF MirrorHeld, JobsFit
<1>8. ~Unchecked' /\ \A k \in SwapJob : ~AtWork(k)'
    BY <1>2, <1>6, <1>7, JobNames DEF Unchecked, AtWork
<1>9. \/ astray' /\ dialog'.kind # "recovery"
      \/ journalOf' = "none" /\ dialog'.kind # "recovery"
      \/ journalOf' # "none" /\ dialog'.kind = "recovery"
    <2>1. job["recover"].plan[1].slice = journalOf
        BY <1>7, PlanShapes
    <2> QED BY <1>1, <1>6, <2>1, NobodyTyped DEF RecoverSettles, Heard, Shows, DialogKind
<1>10. stopping' = 0
    <2>1. stopping = 0
        BY <1>5, <1>6 DEF MirrorHeld, AtWork
    <2> QED BY <2>1
<1>11. told' = {}
    BY <1>1, <1>5, <1>6 DEF MirrorHeld
<1> QED BY <1>1, <1>6, <1>8, <1>9, <1>10, <1>11 DEF MirrorHeld, Unchecked

LEMMA SettlesFollows ==
    ASSUME LiveTyped, JobsFit, SwapsOrdered, MirrorFollows, NEW j \in Jobs, AtWork(j),
           job[j].at # "stopping", NEW how \in Heard, Settles(j, how), UNCHANGED <<stopping, confirms>>,
           how # "failed" =>
               CASE job[j].plan[1].op = "activate" -> journalOf' = job[j].plan[1].slice
                 [] job[j].plan[1].op = "deactivate" -> journalOf' = "none"
                 [] OTHER -> how = "ok" => UNCHANGED journalOf
    PROVE  MirrorFollows'
<1>0. UNCHANGED <<stopping, confirms>>
    OBVIOUS
<1>1. CASE j \in SwapJob
    <2>1. PlanFits(job[j])
        BY <1>1 DEF JobsFit
    <2>2. job[j].plan[1].op \in {"activate", "deactivate"}
        BY <2>1, PlanShapes DEF PlanFits
    <2>3. how # "failed" => journalOf' = IF job[j].plan[1].op = "activate"
                                          THEN job[j].plan[1].slice ELSE "none"
        BY <2>2
    <2> QED BY <1>0, <1>1, <2>3, SwapSettlesFollows
<1>2. CASE j = "recover"
    <2>1. job[j].plan[1].op = "recover-activation"
        BY <1>2, PlanShapes DEF JobsFit
    <2>2. how = "ok" => UNCHANGED journalOf
        BY <2>1
    <2> QED BY <1>0, <1>2, <2>2, RecoverSettlesFollows
<1>3. CASE j = "quit"
    <2>1. job' = [job EXCEPT ![j].at = "idle"]
        BY <1>3, JobNames DEF Settles
    <2>2. job'["quit"].kind = "quit"
        BY <2>1, <1>3 DEF LiveTyped, JobRecord, JobsFit
    <2> QED BY <2>2 DEF MirrorFollows, Orderly
<1> QED BY <1>1, <1>2, <1>3, JobNames
LEMMA EndsFollows ==
    ASSUME LiveTyped, JobsFit, SwapsOrdered, MirrorFollows, NEW j \in Jobs, AtWork(j),
           job[j].at # "stopping", NEW how \in Heard, Ends(j, how), UNCHANGED <<stopping, confirms>>,
           how # "failed" =>
               CASE job[j].plan[1].op = "activate" -> journalOf' = job[j].plan[1].slice
                 [] job[j].plan[1].op = "deactivate" -> journalOf' = "none"
                 [] OTHER -> how = "ok" => UNCHANGED journalOf
    PROVE  MirrorFollows'
<1>1. CASE ~gone
    BY <1>1, SettlesFollows DEF Ends
<1>2. CASE gone
    <2>1. job' = [job EXCEPT ![j].at = "idle"]
        BY <1>2 DEF Ends
    <2>2. job'["quit"].kind = "quit"
        BY <2>1, <1>2, JobNames DEF LiveTyped, JobRecord, JobsFit
    <2> QED BY <2>2 DEF MirrorFollows, Orderly
<1> QED BY <1>1, <1>2 DEF LiveTyped

LEMMA CommandStartsFollows ==
    ASSUME LiveTyped, JobsFit, SwapsOrdered, MirrorFollows, NEW j \in Jobs, CommandStarts(j)
    PROVE  MirrorFollows'
<1>1. AtWork(j) /\ job[j].at = "stopped" /\ UNCHANGED <<journalOf, stopping, confirms>>
    BY DEF CommandStarts, AtWork, liveBounds
<1>2. CASE j = "quit"
    <2>1. \A k \in Jobs : job'[k].kind = job[k].kind \/ k # "quit"
        BY <1>2, JobNames DEF CommandStarts, Settles, LiveTyped, JobRecord
    <2>2. job'["quit"].kind = "quit"
        BY <1>1, <1>2, <2>1 DEF JobsFit
    <2> QED BY <2>2 DEF MirrorFollows, Orderly
<1>3. CASE Settles(j, "failed")
    BY <1>1, <1>3, SettlesFollows DEF Heard
<1>4. CASE Settles(j, "ok") /\ job[j].plan[1].op # "activate" /\ journalOf = "none"
    BY <1>1, <1>4, SettlesFollows DEF Heard
<1>5. CASE /\ job' = [job EXCEPT ![j].at = "checked"]
           /\ UNCHANGED <<shows, dialog, mirror, held, told, gone, astray, crossed>>
    <2>1. \A k \in Jobs : /\ job'[k].kind = job[k].kind /\ job'[k].plan = job[k].plan
                          /\ IF k = j THEN job'[k].at = "checked" ELSE job'[k] = job[k]
        BY <1>5 DEF LiveTyped, JobRecord
    <2>2. SUFFICES ASSUME Orderly' PROVE MirrorHeld'
        BY DEF MirrorFollows
    <2>3. OneAtWork /\ MirrorHeld
        BY <1>5, <2>1, <2>2, JobNames DEF SwapsOrdered, MirrorFollows, Orderly
    <2>4. \A k \in Jobs : AtWork(k)' <=> AtWork(k)
        BY <1>1, <2>1 DEF AtWork
    <2>5. \A k \in SwapJob : job[k].at = "stopping" => job'[k] = job[k]
        BY <1>1, <2>1, JobNames
    <2>6. (Unchecked' <=> Unchecked) /\ (AtWork("recover")' <=> AtWork("recover"))
          /\ job'["recover"].kind = job["recover"].kind /\ job'["recover"].plan = job["recover"].plan
        BY <2>1, <2>4, JobNames DEF Unchecked
    <2>7. (\E k \in SwapJob : AtWork(k))' <=> \E k \in SwapJob : AtWork(k)
        BY <2>4, JobNames
    <2>8. Budget' = Budget
        BY <1>1, <1>5, <2>6, <2>7 DEF Budget
    <2>9. UNCHANGED <<journalOf, lsCall, dialog, mirror, held, stopping, told, astray>>
        BY <1>1, <1>5 DEF shows
    <2> HIDE DEF Budget
    <2> QED BY <2>3, <2>5, <2>6, <2>7, <2>8, <2>9 DEF MirrorHeld
<1> QED BY <1>2, <1>3, <1>4, <1>5 DEF CommandStarts

LEMMA ActivateEndsFollows ==
    ASSUME LiveTyped, JobsFit, SwapsOrdered, MirrorFollows, NEW j \in Jobs, ActivateEnds(j)
    PROVE  MirrorFollows'
<1>1. AtWork(j) /\ job[j].at # "stopping" /\ job[j].plan[1].op = "activate"
      /\ UNCHANGED <<stopping, confirms>>
    BY DEF ActivateEnds, AtWork
<1>2. CASE Ends(j, "ok") /\ journalOf' = job[j].plan[1].slice
    BY <1>1, <1>2, EndsFollows DEF Heard
<1>3. CASE Ends(j, "failed")
    BY <1>1, <1>3, EndsFollows DEF Heard
<1> QED BY <1>2, <1>3 DEF ActivateEnds

LEMMA OtherEndsFollows ==
    ASSUME LiveTyped, JobsFit, SwapsOrdered, MirrorFollows, NEW j \in Jobs, OtherEnds(j)
    PROVE  MirrorFollows'
<1>1. AtWork(j) /\ job[j].at # "stopping" /\ job[j].plan[1].op # "activate"
      /\ UNCHANGED <<stopping, confirms>>
    BY DEF OtherEnds, AtWork, liveBounds
<1>2. CASE /\ Ends(j, "ok")
           /\ journalOf' = IF job[j].plan[1].op = "deactivate" THEN "none" ELSE journalOf
    <2>1. CASE job[j].plan[1].op = "deactivate"
        BY <1>1, <1>2, <2>1, EndsFollows DEF Heard
    <2>2. CASE job[j].plan[1].op # "deactivate"
        BY <1>1, <1>2, <2>2, EndsFollows DEF Heard
    <2> QED BY <2>1, <2>2
<1>3. CASE Ends(j, "drift") /\ journalOf' = "none"
    BY <1>1, <1>3, EndsFollows DEF Heard
<1>4. CASE Ends(j, "failed")
    BY <1>1, <1>4, EndsFollows DEF Heard
<1> QED BY <1>2, <1>3, <1>4 DEF OtherEnds

LEMMA MirrorFollowsStep ==
    ASSUME LiveTyped, JobsFit, SwapsOrdered, MirrorFollows, [LiveNext]_liveVars
    PROVE  MirrorFollows'
<1>1. CASE UNCHANGED liveVars
    BY <1>1 DEF liveVars, shows, manager, liveBounds, MirrorFollows, MirrorHeld, Orderly,
       Unchecked, Budget, AtWork
<1>2. CASE quit
    BY <1>2, quitAlone DEF MirrorFollows
<1>3. CASE LiveNext /\ ~quit
    BY <1>3, openSwapFollows, runSwapFollows, MirrorStoppedFollows, CommandStartsFollows,
       ActivateWritesFollows, ActivateEndsFollows, OtherEndsFollows, MirrorBeginsFollows,
       MirrorEndsFollows, MirrorEndHeardFollows, CloseDialogFollows, ReactivateFollows,
       OtherNewsFollows, TickFollows, LsReadsFollows, LsAnswersFollows
       DEF LiveNext
<1> QED BY <1>1, <1>2, <1>3

LEMMA LiveBeginsFollowing == LiveInit => MirrorFollows
<1> SUFFICES ASSUME LiveInit PROVE MirrorHeld
    BY DEF MirrorFollows
<1>1. \A j \in Jobs : job[j] = NoJob
    BY DEF LiveInit
<1>2. Unchecked /\ \A j \in Jobs : ~AtWork(j)
    BY <1>1, NobodyTyped, JobNames DEF Unchecked, AtWork
<1>3. held = 0 /\ stopping = 0 /\ told = {} /\ lsCall = "asked" /\ dialog.kind = "none"
      /\ \A m \in Mirrors : mirror[m] = "none"
    BY NobodyTyped DEF LiveInit
<1> QED BY <1>2, <1>3, JobNames DEF MirrorHeld

-----------------------------------------------------------------------------
\* The invariant of the interface's swaps (runSwapWithLiveMirror, LiveMirrorManager):
\* shapes, plans that fit, one thing at work, and the mirror that is held.
THEOREM LiveInvariantHolds == LiveSpec => []LiveInvariant
<1>1. LiveInit => LiveInvariant
    BY LiveBeginsTyped, LiveBeginsOrdered, LiveBeginsFollowing DEF LiveInvariant
<1>2. LiveInvariant /\ [LiveNext]_liveVars => LiveInvariant'
    BY LiveTypedStep, SwapsOrderedStep, MirrorFollowsStep DEF LiveInvariant
<1> QED BY <1>1, <1>2, PTL DEF LiveSpec

\* Every variable of the interface's swaps has its type (app.tsx, live/mirror.ts).
THEOREM LiveTypeCorrect == LiveSpec => []LiveTypeOK
<1>1. LiveInvariant => LiveTypeOK
    <2> SUFFICES ASSUME LiveTyped PROVE LiveTypeOK
        BY DEF LiveInvariant
    <2>1. \A j \in Jobs : job[j] \in JobRecord
        BY DEF LiveTyped
    <2>2. \A p \in Plan : Len(p) \in 0 .. 2
        BY PlanShapes DEF Plan
    <2>3. \A j \in Jobs :
              /\ job[j].at \in {"idle", "stopping", "stopped", "checked", "written"}
              /\ job[j].awaits \in 0 .. MaxMirrors /\ Len(job[j].plan) \in 0 .. 2
        BY <2>1, <2>2 DEF JobRecord, JobPlace
    <2> QED BY <2>3 DEF LiveTyped, LiveTypeOK, Shown, DialogRecord, DialogKind, MirrorState
<1> QED BY <1>1, LiveInvariantHolds, PTL

\* At rest, when nothing failed unreported, live-sync is up exactly when a slice is
\* live (runSwapWithLiveMirror's activeAfter, LiveMirrorManager.start).
THEOREM MirrorUp == LiveSpec => []MirrorUpWhileLive
<1>1. LiveInvariant => MirrorUpWhileLive
    <2> SUFFICES ASSUME LiveTyped, JobsFit, MirrorFollows,
                        \A j \in Jobs : job[j].at = "idle",
                        \A m \in Mirrors : mirror[m] \notin {"clean", "error", "drift"},
                        job["recover"].kind # "none", dialog.kind # "recovery",
                        job["quit"].kind = "none", ~crossed, ~astray
                 PROVE  journalOf # "none" <=> \E m \in Mirrors : m = held /\ Runs(m)
        BY DEF LiveInvariant, MirrorUpWhileLive
    <2>1. MirrorHeld
        BY DEF MirrorFollows, Orderly
    <2>2. ~Unchecked /\ \A j \in SwapJob : ~AtWork(j)
        BY JobNames DEF Unchecked, AtWork
    <2>3. IF held = 0 \/ mirror[held] = "drift" THEN journalOf = "none"
          ELSE journalOf # "none" /\ mirror[held] # "clean"
        BY <2>1, <2>2 DEF MirrorHeld
    <2>4. held # 0 => held \in Mirrors /\ mirror[held] \in {"new", "mirrors"}
        BY <2>1, LiveAssumption DEF MirrorHeld, LiveTyped, Mirrors
    <2> QED BY <2>3, <2>4 DEF Runs, Mirrors
<1> QED BY <1>1, LiveInvariantHolds, PTL

LEMMA AtMostOne ==
    ASSUME NEW S, \A x, y \in S : x = y
    PROVE  Cardinality(S) \in {0, 1} /\ (S = {} => Cardinality(S) = 0)
<1>1. CASE S = {}
    BY <1>1, FS_EmptySet
<1>2. CASE S # {}
    <2>1. PICK x \in S : TRUE
        BY <1>2
    <2>2. S = {x}
        BY <2>1
    <2> QED BY <1>2, <2>2, FS_Singleton
<1> QED BY <1>1, <1>2

\* Of the processes that move primaries - swap commands, the check of the start,
\* live-sync - two are at work at once only when the user crossed the interface or
\* quit (runSwapWithLiveMirror awaits LiveMirrorManager.stop).
THEOREM SwapsAlone == LiveSpec => []SwapsRunAlone
<1>1. LiveInvariant => SwapsRunAlone
    <2> DEFINE Running == {m \in Mirrors : Runs(m)}
    <2> SUFFICES ASSUME LiveTyped, JobsFit, SwapsOrdered, ~crossed, job["quit"].kind # "quit"
                 PROVE  ~(Cardinality(Commands) + Cardinality(Running) > 1)
        BY DEF LiveInvariant, SwapsRunAlone
    <2>1. ~AtWork("quit")
        BY DEF JobsFit
    <2>2. OneAtWork
        BY DEF SwapsOrdered, Orderly
    <2>3. \A j \in Commands : j \in Jobs /\ AtWork(j) /\ job[j].at # "stopping" /\ j # "quit"
        BY <2>1 DEF Commands, AtWork
    <2>4. \A j \in Commands : Running = {} /\ \A k \in Commands : k = j
        <3> TAKE j \in Commands
        <3>1. CASE j \in SwapJob
            BY <2>2, <2>3, <3>1, CommandIsAlone, JobNames DEF Unchecked
        <3>2. CASE j = "recover"
            <4>1. Unchecked
                BY <2>3, <3>2 DEF Unchecked
            <4>2. \A k \in SwapJob : ~AtWork(k)
                BY <2>2, <4>1 DEF OneAtWork
            <4>3. Running = {}
                BY <2>2, <4>1 DEF OneAtWork, Runs
            <4> QED BY <2>3, <3>2, <4>2, <4>3, JobNames
        <3> QED BY <2>3, <3>1, <3>2, JobNames
    <2>5. \A m, n \in Running : m = n
        BY <2>2 DEF OneAtWork, AtWork, Mirrors
    <2>6. Cardinality(Commands) \in {0, 1} /\ (Commands = {} => Cardinality(Commands) = 0)
        BY <2>4, AtMostOne
    <2>7. Cardinality(Running) \in {0, 1} /\ (Running = {} => Cardinality(Running) = 0)
        BY <2>5, AtMostOne
    <2> HIDE DEF Running
    <2> QED BY <2>4, <2>6, <2>7
<1> QED BY <1>1, LiveInvariantHolds, PTL

\* A process's record has its fields.
TabsFields == {"op", "at", "tab", "plan", "todo", "made", "failed"}
TabsProc(r) == r = [k \in TabsFields |-> r[k]]

\* What is typed and runs in the terminals, and who holds them.
TerminalsTyped ==
    /\ typed \in [TabId -> Nat] /\ late \in [TabId -> Nat]
    /\ running \in [TabId -> {NoTab, "slis", "user"}]
    /\ mark \in [TabId -> {"none", "started", "done"}]
    /\ lock \in [TabId -> Process \cup {NoTab}]
    /\ proc = [p \in Process |-> proc[p]] /\ \A p \in Process : TabsProc(proc[p])

\* Where a command has a tab of its own, and where it holds the tab's lock.
UnderLock == {"start check", "start type", "start wait", "send prepare", "send", "send mark",
              "tab kill get", "tab kill", "tab kill update"}
OnTab == UnderLock \cup {"tab get", "tab list", "tab run", "tab update", "start-existing",
                         "send-once", "kill-tab", "start lock"}

LocksHeld ==
    \A p \in Process : /\ proc[p].at \in OnTab => proc[p].tab \in TabId
                       /\ proc[p].at \in UnderLock => lock[proc[p].tab] = p

\* The starter that waits in a terminal for its command line to be read.
Waits(t) == \E p \in Process : proc[p].at = "start wait" /\ proc[p].tab = t
Slis(t) == IF running[t] = "slis" THEN 1 ELSE 0

\* Lines that nobody waits for were counted when their starter went; the one a
\* starter waits for is one more, until the state file says that it was read.
LinesCounted ==
    \A t \in TabId : IF Waits(t) THEN /\ typed[t] + Slis(t) <= 1 + late[t]
                                      /\ mark[t] # "none" => typed[t] <= late[t]
                     ELSE typed[t] <= late[t]

TabsInvariant == TerminalsTyped /\ LocksHeld /\ LinesCounted
-----------------------------------------------------------------------------
\* The record of process p becomes x, under locks that are kept, taken or given back.
Moved(p, x) ==
    /\ TabsProc(x) /\ proc' = [proc EXCEPT ![p] = x]
    /\ x.at \in OnTab => x.tab \in TabId
    /\ \/ /\ UNCHANGED lock
          /\ x.at \in UnderLock => proc[p].at \in UnderLock /\ x.tab = proc[p].tab
       \/ /\ x.at = "idle"
          /\ lock' = [t \in TabId |-> IF lock[t] = p THEN NoTab ELSE lock[t]]
       \/ /\ x.tab \in TabId /\ lock[x.tab] = NoTab
          /\ lock' = [lock EXCEPT ![x.tab] = p]

LEMMA ProcAt ==
    ASSUME NEW r, TabsProc(r), NEW place
    PROVE  /\ TabsProc([r EXCEPT !.at = place])
           /\ [r EXCEPT !.at = place].at = place /\ [r EXCEPT !.at = place].tab = r.tab
BY DEF TabsProc, TabsFields

LEMMA MovedKeepsLocks ==
    ASSUME TerminalsTyped, LocksHeld, NEW p \in Process, NEW x, Moved(p, x)
    PROVE  /\ LocksHeld' /\ lock' \in [TabId -> Process \cup {NoTab}]
           /\ proc' = [q \in Process |-> proc'[q]] /\ \A q \in Process : TabsProc(proc'[q])
           /\ \A q \in Process : proc'[q] = IF q = p THEN x ELSE proc[q]
<1>1. \A q \in Process : proc'[q] = IF q = p THEN x ELSE proc[q]
    BY DEF TerminalsTyped, Moved
<1>2. proc' = [q \in Process |-> proc'[q]]
    BY DEF TerminalsTyped, Moved
<1>3. \A q \in Process : TabsProc(proc'[q])
    BY <1>1 DEF TerminalsTyped, Moved
<1>4. lock' \in [TabId -> Process \cup {NoTab}]
    BY DEF TerminalsTyped, Moved
<1>5. \A q \in Process : proc'[q].at \in OnTab => proc'[q].tab \in TabId
    BY <1>1 DEF LocksHeld, Moved
<1>6. \A q \in Process : proc'[q].at \in UnderLock => lock'[proc'[q].tab] = q
    <2> SUFFICES ASSUME NEW q \in Process, proc'[q].at \in UnderLock
                 PROVE  lock'[proc'[q].tab] = q
        OBVIOUS
    <2>1. proc'[q].tab \in TabId
        BY <1>5 DEF OnTab
    <2>2. CASE q = p
        BY <1>1, <2>1, <2>2 DEF LocksHeld, Moved, TerminalsTyped, UnderLock
    <2>3. CASE q # p
        BY <1>1, <2>1, <2>3, TabsAssumption DEF LocksHeld, Moved, TerminalsTyped
    <2> QED BY <2>2, <2>3
<1> QED BY <1>1, <1>2, <1>3, <1>4, <1>5, <1>6 DEF LocksHeld

\* A step of a process that types nothing and does not begin or end a wait.
LEMMA QuietMove ==
    ASSUME TabsInvariant, NEW p \in Process, NEW x, Moved(p, x),
           proc[p].at # "start wait", x.at # "start wait", UNCHANGED <<typed, running, mark, late>>
    PROVE  TabsInvariant'
<1>1. /\ LocksHeld' /\ lock' \in [TabId -> Process \cup {NoTab}]
      /\ proc' = [q \in Process |-> proc'[q]] /\ \A q \in Process : TabsProc(proc'[q])
      /\ \A q \in Process : proc'[q] = IF q = p THEN x ELSE proc[q]
    BY MovedKeepsLocks DEF TabsInvariant
<1>2. TerminalsTyped'
    BY <1>1 DEF TabsInvariant, TerminalsTyped
<1>3. \A t : Waits(t)' <=> Waits(t)
    BY <1>1 DEF Waits
<1>4. LinesCounted'
    BY <1>3 DEF TabsInvariant, LinesCounted, Slis
<1> QED BY <1>1, <1>2, <1>4 DEF TabsInvariant

LEMMA IdleIsProc == TabsProc(Idle) /\ Idle.at = "idle"
BY DEF Idle, TabsProc, TabsFields

LEMMA QuietExit ==
    ASSUME TabsInvariant, NEW p \in Process, Exit(p), proc[p].at # "start wait",
           UNCHANGED <<typed, running, mark, late>>
    PROVE  TabsInvariant'
<1>1. Moved(p, Idle)
    BY IdleIsProc DEF Exit, Moved, OnTab, UnderLock
<1> QED BY <1>1, IdleIsProc, QuietMove

LEMMA QuietGoto ==
    ASSUME TabsInvariant, NEW p \in Process, NEW place, Goto(p, place),
           proc[p].at # "start wait", place # "start wait",
           UNCHANGED <<typed, running, mark, late>>,
           place \in OnTab => proc[p].at \in OnTab,
           \/ UNCHANGED lock /\ (place \in UnderLock => proc[p].at \in UnderLock)
           \/ /\ place \in OnTab /\ lock[proc[p].tab] = NoTab
              /\ lock' = [lock EXCEPT ![proc[p].tab] = p]
    PROVE  TabsInvariant'
<1> DEFINE x == [proc[p] EXCEPT !.at = place]
<1>1. TabsProc(proc[p])
    BY DEF TabsInvariant, TerminalsTyped
<1>2. TabsProc(x) /\ x.at = place /\ x.tab = proc[p].tab
    BY <1>1, ProcAt
<1>3. proc' = [proc EXCEPT ![p] = x]
    BY DEF Goto
<1> HIDE DEF x
<1>4. Moved(p, x)
    BY <1>2, <1>3 DEF Moved, TabsInvariant, LocksHeld
<1> QED BY <1>2, <1>4, QuietMove

LEMMA BeginsQuietly ==
    ASSUME TabsInvariant, NEW p \in Process, NEW op, NEW t, NEW place, Begin(p, op, t, place),
           place # "start wait", place \notin UnderLock, place \in OnTab => t \in TabId
    PROVE  TabsInvariant'
<1> DEFINE x == [Idle EXCEPT !.op = op, !.tab = t, !.at = place]
<1>1. TabsProc(x) /\ x.at = place /\ x.tab = t
    BY IdleIsProc DEF TabsProc, TabsFields
<1>2. proc' = [proc EXCEPT ![p] = x] /\ UNCHANGED <<lock, typed, running, mark, late>>
      /\ proc[p].at = "idle"
    BY DEF Begin, At, terminals, history
<1> HIDE DEF x
<1>3. Moved(p, x)
    BY <1>1, <1>2 DEF Moved
<1> QED BY <1>1, <1>2, <1>3, QuietMove

LEMMA BeginsKeep ==
    ASSUME TabsInvariant, NEW p \in Process,
           BeginGroupCommand(p) \/ BeginTabCommand(p) \/ BeginTerminalCommand(p)
    PROVE  TabsInvariant'
<1>1. CASE \E op \in {"ensure", "kill"} : Begin(p, op, NoTab, op)
    BY <1>1, BeginsQuietly DEF UnderLock, OnTab
<1>2. CASE \E t \in Extra, op \in {"ensure-tab", "start"} : Begin(p, op, t, "tab get")
    BY <1>2, BeginsQuietly DEF UnderLock, TabId
<1>3. CASE \E t \in TabId, op \in {"start-existing", "send-once", "kill-tab"} : Begin(p, op, t, op)
    BY <1>3, BeginsQuietly DEF UnderLock
<1> QED BY <1>1, <1>2, <1>3 DEF BeginGroupCommand, BeginTabCommand, BeginTerminalCommand

\* A command that goes on without a terminal of its own, or in the one it has.
LEMMA GoesOn ==
    ASSUME TabsInvariant, NEW p \in Process, NEW x, TabsProc(x), proc' = [proc EXCEPT ![p] = x],
           proc[p].at # "start wait", x.at # "start wait",
           UNCHANGED <<lock, typed, running, mark, late>>,
           \/ x.at \notin OnTab
           \/ /\ proc[p].at \in OnTab /\ x.tab = proc[p].tab
              /\ x.at \in UnderLock => proc[p].at \in UnderLock
    PROVE  TabsInvariant'
<1>1. Moved(p, x)
    BY DEF Moved, TabsInvariant, LocksHeld, OnTab
<1> QED BY <1>1, QuietMove

LEMMA EnsureKeeps ==
    ASSUME TabsInvariant, NEW p \in Process,
           EnsureGet(p) \/ EnsureList(p) \/ EnsureRuntime(p) \/ EnsureUpsert(p)
    PROVE  TabsInvariant'
<1>0. TabsProc(proc[p])
    BY DEF TabsInvariant, TerminalsTyped
<1>1. CASE EnsureGet(p)
    <2>1. PICK d, e : proc' = [proc EXCEPT ![p].plan = d, ![p].at = "ensure list", ![p].todo = e]
        BY <1>1 DEF EnsureGet
    <2> DEFINE x == [proc[p] EXCEPT !.plan = d, !.at = "ensure list", !.todo = e]
    <2>2. TabsProc(x) /\ x.at = "ensure list"
        BY <1>0 DEF TabsProc, TabsFields
    <2>3. proc' = [proc EXCEPT ![p] = x] /\ proc[p].at = "ensure"
          /\ UNCHANGED <<lock, typed, running, mark, late>>
        BY <1>1, <2>1 DEF EnsureGet, At, terminals, history
    <2> HIDE DEF x
    <2> QED BY <2>2, <2>3, GoesOn DEF OnTab, UnderLock
<1>2. CASE EnsureList(p)
    <2>1. PICK e : proc' = [proc EXCEPT ![p].todo = e, ![p].at = "ensure run"]
        BY <1>2 DEF EnsureList
    <2> DEFINE x == [proc[p] EXCEPT !.todo = e, !.at = "ensure run"]
    <2>2. TabsProc(x) /\ x.at = "ensure run"
        BY <1>0 DEF TabsProc, TabsFields
    <2>3. proc' = [proc EXCEPT ![p] = x] /\ proc[p].at = "ensure list"
          /\ UNCHANGED <<lock, typed, running, mark, late>>
        BY <1>2, <2>1 DEF EnsureList, At, terminals, history
    <2> HIDE DEF x
    <2> QED BY <2>2, <2>3, GoesOn DEF OnTab, UnderLock
<1>3. CASE EnsureRuntime(p)
    <2>1. UNCHANGED <<typed, running, mark, late>> /\ proc[p].at = "ensure run"
        BY <1>3 DEF EnsureRuntime, At, history
    <2>2. CASE Exit(p)
        BY <2>1, <2>2, QuietExit
    <2>3. CASE \E e, m : proc' = [proc EXCEPT ![p].todo = e, ![p].made = m] /\ UNCHANGED lock
        <3>1. PICK e, m : proc' = [proc EXCEPT ![p].todo = e, ![p].made = m] /\ UNCHANGED lock
            BY <2>3
        <3> DEFINE x == [proc[p] EXCEPT !.todo = e, !.made = m]
        <3>2. TabsProc(x) /\ x.at = proc[p].at
            BY <1>0 DEF TabsProc, TabsFields
        <3>3. proc' = [proc EXCEPT ![p] = x]
            BY <3>1
        <3> HIDE DEF x
        <3> QED BY <2>1, <3>1, <3>2, <3>3, GoesOn DEF OnTab, UnderLock
    <2> QED BY <1>3, <2>2, <2>3 DEF EnsureRuntime, Fail
<1>4. CASE EnsureUpsert(p)
    BY <1>4, QuietExit DEF EnsureUpsert, At, terminals
<1> QED BY <1>1, <1>2, <1>3, <1>4

LEMMA EnsureTabKeeps ==
    ASSUME TabsInvariant, NEW p \in Process,
           EnsureTabGet(p) \/ EnsureTabList(p) \/ EnsureTabRuntime(p) \/ EnsureTabUpdate(p)
    PROVE  TabsInvariant'
<1>1. CASE EnsureTabGet(p)
    BY <1>1, QuietExit, QuietGoto DEF EnsureTabGet, At, terminals, history, OnTab, UnderLock
<1>2. CASE EnsureTabList(p)
    BY <1>2, QuietGoto DEF EnsureTabList, At, terminals, history, OnTab, UnderLock
<1>3. CASE EnsureTabRuntime(p)
    <2>1. UNCHANGED <<typed, running, mark, late>> /\ proc[p].at = "tab run"
        BY <1>3 DEF EnsureTabRuntime, At, history
    <2>2. CASE Exit(p)
        BY <2>1, <2>2, QuietExit
    <2>3. CASE \E m : proc' = [proc EXCEPT ![p].at = "tab update", ![p].made = m] /\ UNCHANGED lock
        <3>1. PICK m : proc' = [proc EXCEPT ![p].at = "tab update", ![p].made = m] /\ UNCHANGED lock
            BY <2>3
        <3> DEFINE x == [proc[p] EXCEPT !.at = "tab update", !.made = m]
        <3>2. TabsProc(x) /\ x.at = "tab update" /\ x.tab = proc[p].tab
            BY DEF TabsInvariant, TerminalsTyped, TabsProc, TabsFields
        <3>3. proc' = [proc EXCEPT ![p] = x]
            BY <3>1
        <3> HIDE DEF x
        <3> QED BY <2>1, <3>1, <3>2, <3>3, GoesOn DEF OnTab, UnderLock
    <2> QED BY <1>3, <2>2, <2>3 DEF EnsureTabRuntime
<1>4. CASE EnsureTabUpdate(p)
    BY <1>4, QuietExit, QuietGoto DEF EnsureTabUpdate, Fail, At, terminals, OnTab, UnderLock
<1> QED BY <1>1, <1>2, <1>3, <1>4

\* The terminal's lock is taken.
LEMMA LockKeeps ==
    ASSUME TabsInvariant, NEW p \in Process,
           \/ withTerminalLock(p, "start lock", "start check")
           \/ withTerminalLock(p, "send-once", "send prepare")
           \/ withTerminalLock(p, "kill-tab", "tab kill get")
    PROVE  TabsInvariant'
BY QuietGoto DEF withTerminalLock, At, terminals, history, OnTab, UnderLock

LEMMA StartsKeep ==
    ASSUME TabsInvariant, NEW p \in Process, StartExistingCommand(p) \/ StartCheck(p)
    PROVE  TabsInvariant'
BY QuietGoto, QuietExit DEF StartExistingCommand, StartCheck, At, terminals, history, OnTab,
   UnderLock

LEMMA SendsKeep ==
    ASSUME TabsInvariant, NEW p \in Process, SendOncePrepare(p) \/ Send(p) \/ SendOnceMark(p)
    PROVE  TabsInvariant'
BY QuietGoto, QuietExit DEF SendOncePrepare, Send, SendOnceMark, At, terminals, history, OnTab,
   UnderLock

\* One command closes the group, or the tab it has locked.
LEMMA KillsKeep ==
    ASSUME TabsInvariant, NEW p \in Process,
           KillGet(p) \/ KillDelete(p) \/ KillTabGet(p) \/ KillTabUpdate(p)
    PROVE  TabsInvariant'
<1>1. CASE KillDelete(p) \/ KillTabUpdate(p)
    BY <1>1, QuietExit DEF KillDelete, KillTabUpdate, At, terminals, history
<1>2. CASE KillGet(p) /\ Exit(p)
    BY <1>2, QuietExit DEF KillGet, At, terminals, history
<1>3. CASE KillTabGet(p) /\ Exit(p)
    BY <1>3, QuietExit DEF KillTabGet, At, terminals, history
<1>4. CASE KillGet(p) /\ ~Exit(p)
    <2> DEFINE x == [proc[p] EXCEPT !.at = "kill run", !.todo = group.tabs]
    <2>1. TabsProc(x) /\ x.at = "kill run"
        BY DEF TabsInvariant, TerminalsTyped, TabsProc, TabsFields
    <2>2. proc' = [proc EXCEPT ![p] = x] /\ proc[p].at = "kill"
          /\ UNCHANGED <<lock, typed, running, mark, late>>
        BY <1>4 DEF KillGet, At, terminals, history
    <2> HIDE DEF x
    <2> QED BY <2>1, <2>2, GoesOn DEF OnTab, UnderLock
<1>5. CASE KillTabGet(p) /\ ~Exit(p)
    <2> DEFINE x == [proc[p] EXCEPT !.at = "tab kill", !.todo = group.tabs]
    <2>1. TabsProc(x) /\ x.at = "tab kill" /\ x.tab = proc[p].tab
        BY DEF TabsInvariant, TerminalsTyped, TabsProc, TabsFields
    <2>2. proc' = [proc EXCEPT ![p] = x] /\ proc[p].at = "tab kill get"
          /\ UNCHANGED <<lock, typed, running, mark, late>>
        BY <1>5 DEF KillTabGet, At, terminals, history
    <2> HIDE DEF x
    <2> QED BY <2>1, <2>2, GoesOn DEF OnTab, UnderLock
<1> QED BY <1>1, <1>2, <1>3, <1>4, <1>5

\* A terminal that ends has no lines.
LEMMA EndedCounts ==
    ASSUME TerminalsTyped, LinesCounted, NEW t, End(t), \A u \in TabId : Waits(u)' <=> Waits(u),
           mark' = mark \/ mark' = [mark EXCEPT ![t] = "none"]
    PROVE  LinesCounted'
<1>1. \A u \in TabId : u # t => /\ typed'[u] = typed[u] /\ running'[u] = running[u]
                                /\ late'[u] = late[u] /\ mark'[u] = mark[u]
    BY DEF End, TerminalsTyped
<1>2. t \in TabId => typed'[t] = 0 /\ late'[t] = 0 /\ running'[t] = NoTab
    BY DEF End, TerminalsTyped
<1>3. \A u \in TabId : u # t => Slis(u)' = Slis(u)
    BY <1>1 DEF Slis
<1>4. t \in TabId => Slis(t)' = 0
    BY <1>2, TabsAssumption DEF Slis
<1> QED BY <1>1, <1>2, <1>3, <1>4 DEF LinesCounted

LEMMA EndedTyped ==
    ASSUME TerminalsTyped, NEW t, End(t), mark' = mark \/ mark' = [mark EXCEPT ![t] = "none"]
    PROVE  /\ typed' \in [TabId -> Nat] /\ late' \in [TabId -> Nat]
           /\ running' \in [TabId -> {NoTab, "slis", "user"}]
           /\ mark' \in [TabId -> {"none", "started", "done"}]
BY DEF TerminalsTyped, End

LEMMA KillRuntimeKeeps ==
    ASSUME TabsInvariant, NEW p \in Process, KillRuntime(p)
    PROVE  TabsInvariant'
<1>1. proc[p].at = "kill run" /\ UNCHANGED lock
    BY DEF KillRuntime, At
<1>2. \E x : /\ TabsProc(x) /\ x.at = "kill run" /\ proc' = [proc EXCEPT ![p] = x]
    <2>1. PICK e : \/ proc' = [proc EXCEPT ![p].todo = e]
                   \/ proc' = [proc EXCEPT ![p].todo = e, ![p].failed = TRUE]
        BY DEF KillRuntime
    <2> DEFINE x == [proc[p] EXCEPT !.todo = e]
    <2> DEFINE y == [proc[p] EXCEPT !.todo = e, !.failed = TRUE]
    <2>2. TabsProc(x) /\ x.at = "kill run" /\ TabsProc(y) /\ y.at = "kill run"
        BY <1>1 DEF TabsInvariant, TerminalsTyped, TabsProc, TabsFields
    <2>3. proc' = [proc EXCEPT ![p] = x] \/ proc' = [proc EXCEPT ![p] = y]
        BY <2>1
    <2> HIDE DEF x, y
    <2> QED BY <2>2, <2>3
<1>3. PICK x : TabsProc(x) /\ x.at = "kill run" /\ proc' = [proc EXCEPT ![p] = x]
    BY <1>2
<1>4. Moved(p, x)
    BY <1>1, <1>3 DEF Moved, OnTab, UnderLock
<1>5. CASE UNCHANGED <<typed, running, mark, late>>
    BY <1>1, <1>3, <1>4, <1>5, QuietMove
<1>6. CASE \E t : End(t) /\ mark' = [mark EXCEPT ![t] = "none"]
    <2>1. /\ LocksHeld' /\ lock' \in [TabId -> Process \cup {NoTab}]
          /\ proc' = [q \in Process |-> proc'[q]] /\ \A q \in Process : TabsProc(proc'[q])
          /\ \A q \in Process : proc'[q] = IF q = p THEN x ELSE proc[q]
        BY <1>4, MovedKeepsLocks DEF TabsInvariant
    <2>2. TerminalsTyped'
        BY <1>6, <2>1, EndedTyped DEF TabsInvariant, TerminalsTyped
    <2>3. \A u \in TabId : Waits(u)' <=> Waits(u)
        BY <1>1, <1>3, <2>1 DEF Waits
    <2>4. LinesCounted'
        BY <1>6, <2>3, EndedCounts DEF TabsInvariant
    <2> QED BY <2>1, <2>2, <2>4 DEF TabsInvariant
<1> QED BY <1>5, <1>6 DEF KillRuntime, terminals

LEMMA KillTabRuntimeKeeps ==
    ASSUME TabsInvariant, NEW p \in Process, KillTabRuntime(p)
    PROVE  TabsInvariant'
<1>1. proc[p].at = "tab kill"
    BY DEF KillTabRuntime, At
<1>2. CASE Exit(p) /\ UNCHANGED <<terminals, lost, late>>
    BY <1>1, <1>2, QuietExit DEF terminals
<1>3. CASE /\ End(proc[p].tab) /\ mark' = [mark EXCEPT ![proc[p].tab] = "none"]
           /\ Goto(p, "tab kill update") /\ UNCHANGED lock
    <2> DEFINE x == [proc[p] EXCEPT !.at = "tab kill update"]
    <2>1. TabsProc(x) /\ x.at = "tab kill update" /\ x.tab = proc[p].tab
        BY ProcAt DEF TabsInvariant, TerminalsTyped
    <2>2. proc' = [proc EXCEPT ![p] = x] /\ UNCHANGED lock
        BY <1>3 DEF Goto
    <2> HIDE DEF x
    <2>3. Moved(p, x)
        BY <1>1, <2>1, <2>2 DEF Moved, OnTab, UnderLock, TabsInvariant, LocksHeld
    <2>4. /\ LocksHeld' /\ lock' \in [TabId -> Process \cup {NoTab}]
          /\ proc' = [q \in Process |-> proc'[q]] /\ \A q \in Process : TabsProc(proc'[q])
          /\ \A q \in Process : proc'[q] = IF q = p THEN x ELSE proc[q]
        BY <2>3, MovedKeepsLocks DEF TabsInvariant
    <2>5. TerminalsTyped'
        BY <1>3, <2>4, EndedTyped DEF TabsInvariant, TerminalsTyped
    <2>6. \A u \in TabId : Waits(u)' <=> Waits(u)
        BY <1>1, <2>1, <2>4 DEF Waits
    <2>7. LinesCounted'
        BY <1>3, <2>6, EndedCounts DEF TabsInvariant
    <2> QED BY <2>4, <2>5, <2>7 DEF TabsInvariant
<1> QED BY <1>2, <1>3 DEF KillTabRuntime

\* The line is typed, and waited for: until then, nobody waits there.
LEMMA StartShellCommandKeeps ==
    ASSUME TabsInvariant, NEW p \in Process, StartShellCommand(p)
    PROVE  TabsInvariant'
<1>0. PICK t : t = proc[p].tab
    OBVIOUS
<1>1. proc[p].at = "start type" /\ t \in TabId /\ lock[t] = p
    BY <1>0 DEF StartShellCommand, At, TabsInvariant, LocksHeld, OnTab, UnderLock
<1>2. ~Waits(t)
    BY <1>1 DEF Waits, TabsInvariant, LocksHeld, UnderLock
<1>3. UNCHANGED <<running, late>> /\ mark' = [mark EXCEPT ![t] = "none"]
    BY <1>0 DEF StartShellCommand, history
<1>4. CASE UNCHANGED typed /\ Exit(p)
    <2>1. Moved(p, Idle)
        BY <1>4, IdleIsProc DEF Exit, Moved, OnTab, UnderLock
    <2>2. /\ LocksHeld' /\ lock' \in [TabId -> Process \cup {NoTab}]
          /\ proc' = [q \in Process |-> proc'[q]] /\ \A q \in Process : TabsProc(proc'[q])
          /\ \A q \in Process : proc'[q] = IF q = p THEN Idle ELSE proc[q]
        BY <2>1, MovedKeepsLocks DEF TabsInvariant
    <2>3. TerminalsTyped'
        BY <1>3, <1>4, <2>2 DEF TabsInvariant, TerminalsTyped
    <2>4. \A u \in TabId : Waits(u)' <=> Waits(u)
        BY <1>1, <2>2, IdleIsProc DEF Waits
    <2>5. LinesCounted'
        BY <1>2, <1>3, <1>4, <2>4 DEF TabsInvariant, LinesCounted, Slis, TerminalsTyped
    <2> QED BY <2>2, <2>3, <2>5 DEF TabsInvariant
<1>5. CASE /\ typed' = [typed EXCEPT ![t] = IF running[t] = NoTab THEN @ + 1 ELSE @]
           /\ Goto(p, "start wait") /\ UNCHANGED lock
    <2> DEFINE x == [proc[p] EXCEPT !.at = "start wait"]
    <2>1. TabsProc(x) /\ x.at = "start wait" /\ x.tab = t
        BY <1>0, ProcAt DEF TabsInvariant, TerminalsTyped
    <2>2. proc' = [proc EXCEPT ![p] = x] /\ UNCHANGED lock
        BY <1>5 DEF Goto
    <2> HIDE DEF x
    <2>3. Moved(p, x)
        BY <1>0, <1>1, <2>1, <2>2 DEF Moved, OnTab, UnderLock
    <2>4. /\ LocksHeld' /\ lock' \in [TabId -> Process \cup {NoTab}]
          /\ proc' = [q \in Process |-> proc'[q]] /\ \A q \in Process : TabsProc(proc'[q])
          /\ \A q \in Process : proc'[q] = IF q = p THEN x ELSE proc[q]
        BY <2>3, MovedKeepsLocks DEF TabsInvariant
    <2>5. typed' \in [TabId -> Nat] /\ typed'[t] = IF running[t] = NoTab THEN typed[t] + 1 ELSE typed[t]
        <3>1. PICK n : n = IF running[t] = NoTab THEN typed[t] + 1 ELSE typed[t]
            OBVIOUS
        <3>2. typed[t] \in Nat /\ typed \in [TabId -> Nat]
            BY <1>1 DEF TabsInvariant, TerminalsTyped
        <3>3. n \in Nat
            BY <3>1, <3>2
        <3>4. typed' = [typed EXCEPT ![t] = n]
            BY <1>5, <3>1
        <3> QED BY <1>1, <3>1, <3>2, <3>3, <3>4
    <2>6. TerminalsTyped'
        BY <1>3, <2>4, <2>5 DEF TabsInvariant, TerminalsTyped
    <2>7. \A u \in TabId : u # t => (Waits(u)' <=> Waits(u))
        BY <1>1, <2>1, <2>4 DEF Waits
    <2>8. Waits(t)'
        BY <2>1, <2>4 DEF Waits
    <2>9. typed[t] <= late[t] /\ typed[t] \in Nat /\ late[t] \in Nat
        BY <1>1, <1>2 DEF TabsInvariant, LinesCounted, TerminalsTyped
    <2>10. typed'[t] + Slis(t)' <= 1 + late'[t]
        <3>1. CASE running[t] = NoTab
            BY <1>3, <2>5, <2>9, <3>1, TabsAssumption DEF Slis
        <3>2. CASE running[t] # NoTab
            BY <1>3, <2>5, <2>9, <3>2 DEF Slis
        <3> QED BY <3>1, <3>2
    <2>11. mark'[t] = "none"
        BY <1>1, <1>3 DEF TabsInvariant, TerminalsTyped
    <2>12. \A u \in TabId : u # t => /\ typed'[u] = typed[u] /\ late'[u] = late[u]
                                     /\ mark'[u] = mark[u] /\ Slis(u)' = Slis(u)
        BY <1>3, <1>5 DEF Slis, TabsInvariant, TerminalsTyped
    <2>13. LinesCounted'
        BY <2>7, <2>8, <2>10, <2>11, <2>12 DEF TabsInvariant, LinesCounted
    <2> QED BY <2>4, <2>6, <2>13 DEF TabsInvariant
<1> QED BY <1>0, <1>4, <1>5 DEF StartShellCommand

LEMMA OneMore ==
    ASSUME NEW a \in Nat, NEW b \in Nat
    PROVE  b + 1 \in Nat /\ \A n \in Nat : a + n <= 1 + b => a <= b + 1
OBVIOUS

\* A starter goes: the line was read, its time is over, or it is killed.
LEMMA LeavesTerminal ==
    ASSUME TabsInvariant, NEW p \in Process, Exit(p), UNCHANGED <<typed, running, mark>>,
           IF proc[p].at = "start wait"
           THEN \/ late' = late /\ mark[proc[p].tab] # "none"
                \/ late' = [late EXCEPT ![proc[p].tab] = @ + 1]
           ELSE late' = late
    PROVE  TabsInvariant'
<1>0. PICK t : t = proc[p].tab
    OBVIOUS
<1>1. CASE proc[p].at # "start wait"
    BY <1>1, QuietExit
<1>2. CASE proc[p].at = "start wait"
    <2>1. t \in TabId /\ lock[t] = p
        BY <1>0, <1>2 DEF TabsInvariant, LocksHeld, OnTab, UnderLock
    <2>2. Moved(p, Idle)
        BY IdleIsProc DEF Exit, Moved, OnTab, UnderLock
    <2>3. /\ LocksHeld' /\ lock' \in [TabId -> Process \cup {NoTab}]
          /\ proc' = [q \in Process |-> proc'[q]] /\ \A q \in Process : TabsProc(proc'[q])
          /\ \A q \in Process : proc'[q] = IF q = p THEN Idle ELSE proc[q]
        BY <2>2, MovedKeepsLocks DEF TabsInvariant
    <2>4. Waits(t) /\ \A q \in Process : proc[q].at = "start wait" /\ proc[q].tab = t => q = p
        BY <1>0, <1>2, <2>1 DEF Waits, TabsInvariant, LocksHeld, UnderLock
    <2>5. ~Waits(t)' /\ \A u \in TabId : u # t => (Waits(u)' <=> Waits(u))
        BY <2>3, <2>4, IdleIsProc DEF Waits
    <2>6. /\ typed[t] \in Nat /\ late[t] \in Nat /\ typed[t] + Slis(t) <= 1 + late[t]
          /\ mark[t] # "none" => typed[t] <= late[t]
        BY <2>1, <2>4 DEF TabsInvariant, LinesCounted, TerminalsTyped
    <2>7. Slis(t) \in Nat
        BY DEF Slis
    <2>8. late'[t] \in Nat /\ typed'[t] <= late'[t]
        <3>1. CASE late' = late /\ mark[t] # "none"
            BY <3>1, <2>6
        <3>2. CASE late' = [late EXCEPT ![t] = @ + 1]
            <4>1. late'[t] = late[t] + 1 /\ typed'[t] = typed[t]
                BY <2>1, <3>2 DEF TabsInvariant, TerminalsTyped
            <4>2. PICK n \in Nat : n = Slis(t)
                BY <2>7
            <4>3. typed[t] + n <= 1 + late[t] /\ typed[t] \in Nat /\ late[t] \in Nat
                BY <2>6, <4>2
            <4>4. typed[t] <= late[t] + 1 /\ late[t] + 1 \in Nat
                BY <4>2, <4>3, OneMore
            <4> QED BY <4>1, <4>4
        <3> QED BY <1>0, <1>2, <3>1, <3>2
    <2>9. \A u \in TabId : u # t => late'[u] = late[u]
        BY <1>0, <1>2 DEF TabsInvariant, TerminalsTyped
    <2>10. late' \in [TabId -> Nat]
        <3>1. late \in [TabId -> Nat] /\ (late' = late \/ late' = [late EXCEPT ![t] = @ + 1])
            BY <1>0, <1>2 DEF TabsInvariant, TerminalsTyped
        <3>2. late[t] + 1 \in Nat
            BY <2>6, OneMore
        <3> QED BY <3>1, <3>2
    <2>11. TerminalsTyped'
        BY <2>3, <2>10 DEF TabsInvariant, TerminalsTyped
    <2>12. LinesCounted'
        BY <2>5, <2>8, <2>9 DEF TabsInvariant, LinesCounted, Slis
    <2> QED BY <2>3, <2>11, <2>12 DEF TabsInvariant
<1> QED BY <1>1, <1>2

LEMMA StartLeavesKeep ==
    ASSUME TabsInvariant, NEW p \in Process,
           StartAccepted(p) \/ StartDeadline(p) \/ ProcessKilled(p)
    PROVE  TabsInvariant'
<1>1. CASE StartAccepted(p)
    BY <1>1, LeavesTerminal DEF StartAccepted, At, ShellCommandRunning, terminals, history
<1>2. CASE StartDeadline(p)
    BY <1>2, LeavesTerminal DEF StartDeadline, At, terminals
<1>3. CASE ProcessKilled(p)
    BY <1>3, LeavesTerminal DEF ProcessKilled, Fail, At, terminals
<1> QED BY <1>1, <1>2, <1>3

\* What happens in a terminal by itself.
LEMMA TerminalKeeps ==
    ASSUME TabsInvariant, NEW t \in TabId,
           ShellReads(t) \/ ProgramEnds(t) \/ UserRuns(t) \/ TerminalEnds(t)
    PROVE  TabsInvariant'
<1>1. UNCHANGED <<lock, proc>>
    BY DEF ShellReads, ProgramEnds, UserRuns, TerminalEnds
<1>2. LocksHeld' /\ \A u : Waits(u)' <=> Waits(u)
    BY <1>1 DEF TabsInvariant, LocksHeld, Waits
<1>3. CASE TerminalEnds(t)
    <2>1. TerminalsTyped'
        BY <1>1, <1>3, EndedTyped DEF TabsInvariant, TerminalsTyped, TerminalEnds
    <2>2. LinesCounted'
        BY <1>2, <1>3, EndedCounts DEF TabsInvariant, TerminalEnds
    <2> QED BY <1>2, <2>1, <2>2 DEF TabsInvariant
<1>4. typed[t] \in Nat /\ late[t] \in Nat /\ Slis(t) \in {0, 1}
    BY DEF TabsInvariant, TerminalsTyped, Slis
<1>5. CASE ~TerminalEnds(t)
    <2>1. \A u \in TabId : u # t => /\ typed'[u] = typed[u] /\ late'[u] = late[u]
                                    /\ mark'[u] = mark[u] /\ Slis(u)' = Slis(u)
        BY <1>5 DEF ShellReads, ProgramEnds, UserRuns, history, Slis, TabsInvariant,
           TerminalsTyped
    <2>2. CASE ShellReads(t)
        <3>1. /\ typed'[t] = typed[t] - 1 /\ late'[t] = late[t] /\ typed[t] > 0
              /\ Slis(t) = 0 /\ Slis(t)' = 1
            BY <2>2, TabsAssumption DEF ShellReads, history, Slis, TabsInvariant, TerminalsTyped
        <3>2. TerminalsTyped'
            <4>1. typed' \in [TabId -> Nat]
                BY <1>4, <2>2, <3>1 DEF ShellReads, TabsInvariant, TerminalsTyped
            <4>2. mark' \in [TabId -> {"none", "started", "done"}]
                  /\ running' \in [TabId -> {NoTab, "slis", "user"}] /\ UNCHANGED late
                BY <2>2 DEF ShellReads, history, TabsInvariant, TerminalsTyped
            <4> QED BY <1>1, <4>1, <4>2 DEF TabsInvariant, TerminalsTyped
        <3>3. LinesCounted'
            BY <1>2, <1>4, <2>1, <3>1 DEF TabsInvariant, LinesCounted
        <3> QED BY <1>2, <3>2, <3>3 DEF TabsInvariant
    <2>3. CASE ProgramEnds(t)
        <3>1. /\ typed'[t] = typed[t] /\ late'[t] = (IF typed[t] = 0 THEN 0 ELSE late[t])
              /\ Slis(t)' = 0
              /\ running[t] # "slis" => mark'[t] = mark[t]
            BY <2>3, TabsAssumption DEF ProgramEnds, Slis, TabsInvariant, TerminalsTyped
        <3>2. TerminalsTyped'
            <4>1. late' \in [TabId -> Nat] /\ UNCHANGED typed
                BY <2>3, <1>4 DEF ProgramEnds, TabsInvariant, TerminalsTyped
            <4>2. running' \in [TabId -> {NoTab, "slis", "user"}]
                BY <2>3 DEF ProgramEnds, TabsInvariant, TerminalsTyped
            <4>3. mark' \in [TabId -> {"none", "started", "done"}]
                BY <2>3 DEF ProgramEnds, TabsInvariant, TerminalsTyped
            <4> QED BY <1>1, <4>1, <4>2, <4>3 DEF TabsInvariant, TerminalsTyped
        <3>3. running[t] = "slis" => Slis(t) = 1
            BY DEF Slis
        <3>4. LinesCounted'
            <4> SUFFICES ASSUME NEW u \in TabId
                         PROVE  IF Waits(u)' THEN /\ typed'[u] + Slis(u)' <= 1 + late'[u]
                                                  /\ mark'[u] # "none" => typed'[u] <= late'[u]
                                ELSE typed'[u] <= late'[u]
                BY DEF LinesCounted
            <4>1. IF Waits(u) THEN /\ typed[u] + Slis(u) <= 1 + late[u]
                                   /\ mark[u] # "none" => typed[u] <= late[u]
                  ELSE typed[u] <= late[u]
                BY DEF TabsInvariant, LinesCounted
            <4>2. CASE u # t
                BY <1>2, <2>1, <4>1, <4>2
            <4>3. CASE u = t /\ typed[t] = 0
                BY <1>2, <3>1, <4>3
            <4>4. CASE u = t /\ typed[t] # 0
                <5>1. typed'[u] = typed[t] /\ late'[u] = late[t] /\ Slis(u)' = 0
                    BY <3>1, <4>4
                <5>2. CASE running[t] = "slis"
                    BY <1>2, <1>4, <3>3, <4>1, <4>4, <5>1, <5>2
                <5>3. CASE running[t] # "slis"
                    BY <1>2, <1>4, <3>1, <4>1, <4>4, <5>1, <5>3
                <5> QED BY <5>2, <5>3
            <4> QED BY <4>2, <4>3, <4>4
        <3> QED BY <1>2, <3>2, <3>4 DEF TabsInvariant
    <2>4. CASE UserRuns(t)
        <3>1. UNCHANGED <<typed, late, mark>> /\ Slis(t)' = 0 /\ Slis(t) = 0
              /\ running' \in [TabId -> {NoTab, "slis", "user"}]
            BY <2>4, TabsAssumption DEF UserRuns, history, Slis, TabsInvariant, TerminalsTyped
        <3>2. TerminalsTyped'
            BY <1>1, <3>1 DEF TabsInvariant, TerminalsTyped
        <3>3. LinesCounted'
            BY <1>2, <1>4, <2>1, <3>1 DEF TabsInvariant, LinesCounted
        <3> QED BY <1>2, <3>2, <3>3 DEF TabsInvariant
    <2> QED BY <1>5, <2>2, <2>3, <2>4
<1> QED BY <1>3, <1>5

LEMMA TabsKept ==
    ASSUME UNCHANGED <<typed, running, mark, late, lock, proc>>, TabsInvariant
    PROVE  TabsInvariant'
BY DEF TabsInvariant, TerminalsTyped, LocksHeld, LinesCounted, Waits, Slis

LEMMA TabsBegin == TabsInit => TabsInvariant
<1> SUFFICES ASSUME TabsInit PROVE TabsInvariant
    OBVIOUS
<1>1. proc = [p \in Process |-> Idle] /\ \A p \in Process : proc[p].at = "idle"
    BY IdleIsProc DEF TabsInit
<1>2. TerminalsTyped
    BY <1>1, IdleIsProc DEF TabsInit, TerminalsTyped
<1>3. LocksHeld
    BY <1>1 DEF LocksHeld, OnTab, UnderLock
<1>4. LinesCounted
    <2>1. \A t \in TabId : ~Waits(t)
        BY <1>1 DEF Waits
    <2>2. \A t \in TabId : typed[t] = 0 /\ late[t] = 0
        BY DEF TabsInit
    <2> QED BY <2>1, <2>2 DEF LinesCounted
<1> QED BY <1>2, <1>3, <1>4 DEF TabsInvariant

\* The invariant of the tabs (Manager.startCommand, withTerminalLock): one process has
\* a terminal's lock, and the lines typed there are counted.
THEOREM TabsInvariantHolds == TabsSpec => []TabsInvariant
<1>1. TabsInvariant /\ [TabsNext]_tabsVars => TabsInvariant'
    <2> SUFFICES ASSUME TabsInvariant, [TabsNext]_tabsVars PROVE TabsInvariant'
        OBVIOUS
    <2>1. CASE UNCHANGED tabsVars
        BY <2>1, TabsKept DEF tabsVars
    <2>2. ASSUME NEW p \in Process, TabCommand(p) PROVE TabsInvariant'
        BY <2>2, EnsureKeeps, EnsureTabKeeps, LockKeeps, StartsKeep, StartShellCommandKeeps,
           StartLeavesKeep, SendsKeep, KillsKeep, KillRuntimeKeeps, KillTabRuntimeKeeps
           DEF TabCommand
    <2>3. ASSUME NEW t \in TabId, Activate(t) PROVE TabsInvariant'
        BY <2>3, TabsKept DEF Activate, terminals, history
    <2>4. CASE LayoutChanges
        BY <2>4, TabsKept DEF LayoutChanges, terminals, history
    <2> QED BY <2>1, <2>2, <2>3, <2>4, BeginsKeep, StartLeavesKeep, TerminalKeeps DEF TabsNext
<1> QED BY <1>1, TabsBegin, PTL DEF TabsSpec

\* Two slis command lines are in one terminal, typed or running, only when the starter
\* of the first gave up or was killed before it ran (Manager.startCommand types under
\* the terminal's lock, and waits for the command state file).
THEOREM OneCommand == TabsSpec => []OneCommandPerTerminal
<1>1. TabsInvariant => OneCommandPerTerminal
    <2> SUFFICES ASSUME TabsInvariant, NEW t \in TabId
                 PROVE  typed[t] + Slis(t) <= 1 + late[t]
        BY DEF OneCommandPerTerminal, Slis
    <2>1. typed[t] \in Nat /\ late[t] \in Nat /\ Slis(t) \in {0, 1}
        BY DEF TabsInvariant, TerminalsTyped, Slis
    <2> QED BY <2>1 DEF TabsInvariant, LinesCounted
<1> QED BY <1>1, TabsInvariantHolds, PTL

-----------------------------------------------------------------------------
\* No terminal is forgotten.  First reconcileGroup's selection, a recursive function:
\* it is defined, and it selects.

\* One step of Only, and the functions that are made of such steps up to n.
OnlyNext(s, T, kept, i) == IF s[i] \in T THEN Append(kept, s[i]) ELSE kept
OnlySteps(s, T, f, n) ==
    f = [i \in 0 .. n |-> IF i = 0 THEN <<>> ELSE OnlyNext(s, T, f[i - 1], i)]

LEMMA OnlyIsDefined ==
    ASSUME NEW s, NEW T, NEW n \in Nat
    PROVE  \E f : OnlySteps(s, T, f, n)
<1> DEFINE Bad == {m \in Nat : ~\E f : OnlySteps(s, T, f, m)}
<1>1. SUFFICES ASSUME Bad # {} PROVE FALSE
  OBVIOUS
<1>2. PICK m \in Bad : \A k \in Bad : m <= k
  <2> Bad \in SUBSET Nat
    OBVIOUS
  <2> HIDE DEF Bad
  <2> QED BY <1>1, LeastOf
<1>3. CASE m = 0
  <2> DEFINE f == [i \in 0 .. m |-> <<>>]
  <2>1. OnlySteps(s, T, f, m)
    BY <1>3 DEF OnlySteps
  <2> QED BY <2>1
<1>4. CASE m # 0
  <2>1. m - 1 \in Nat /\ ~(m <= m - 1)
    BY <1>4
  <2>2. m - 1 \notin Bad
    <3> HIDE DEF Bad
    <3> QED BY <1>2, <2>1
  <2>3. PICK f : OnlySteps(s, T, f, m - 1)
    BY <2>1, <2>2
  <2> DEFINE g == [i \in 0 .. m |-> IF i = m THEN OnlyNext(s, T, f[m - 1], m) ELSE f[i]]
  <2>4. \A i \in 0 .. m : g[i] = IF i = 0 THEN <<>> ELSE OnlyNext(s, T, g[i - 1], i)
    <3> TAKE i \in 0 .. m
    <3>1. CASE i = m
      BY <1>4, <2>1, <3>1
    <3>2. CASE i # m
      <4>1. i \in 0 .. m - 1 /\ (i # 0 => i - 1 \in 0 .. m - 1 /\ i - 1 # m)
        BY <3>2
      <4>2. f[i] = IF i = 0 THEN <<>> ELSE OnlyNext(s, T, f[i - 1], i)
        BY <2>3, <4>1 DEF OnlySteps
      <4> QED BY <3>2, <4>1, <4>2
    <3> QED BY <3>1, <3>2
  <2>5. OnlySteps(s, T, g, m)
    <3>1. g = [i \in 0 .. m |-> g[i]]
      OBVIOUS
    <3> HIDE DEF g
    <3> QED BY <2>4, <3>1 DEF OnlySteps
  <2>6. \E h : OnlySteps(s, T, h, m)
    <3> HIDE DEF g
    <3> QED BY <2>5
  <2> QED BY <2>6
<1> QED BY <1>3, <1>4

LEMMA OnlyUnfolds ==
    ASSUME NEW s, NEW T, Len(s) \in Nat
    PROVE  \E f : OnlySteps(s, T, f, Len(s)) /\ Only(s, T) = f[Len(s)]
<1> DEFINE F == CHOOSE f : OnlySteps(s, T, f, Len(s))
<1>1. OnlySteps(s, T, F, Len(s))
  BY OnlyIsDefined
<1>2. Only(s, T) = F[Len(s)]
  BY DEF Only, OnlySteps, OnlyNext
<1> QED BY <1>1, <1>2

\* Appending an element.
LEMMA Appended ==
    ASSUME NEW S, NEW s \in Seq(S), NEW x \in S
    PROVE  /\ Append(s, x) \in Seq(S) /\ Append(s, x) # <<>>
           /\ \A t : Contains(Append(s, x), t) <=> Contains(s, t) \/ t = x
           /\ IsInjective(s) /\ ~Contains(s, x) => IsInjective(Append(s, x))
<1> DEFINE n == Len(s)
           u == Append(s, x)
<1>1. n \in Nat /\ DOMAIN s = 1 .. n
  OBVIOUS
<1>2. u \in Seq(S) /\ Len(u) = n + 1 /\ DOMAIN u = 1 .. n + 1 /\ u # <<>>
  OBVIOUS
<1>3. \A i \in 1 .. n + 1 : u[i] = IF i = n + 1 THEN x ELSE s[i]
  OBVIOUS
<1> HIDE DEF n, u
<1>4. \A t : Contains(u, t) <=> Contains(s, t) \/ t = x
  <2> TAKE t
  <2>1. Contains(s, t) <=> \E i \in 1 .. n : s[i] = t
    BY DEF Contains, n
  <2>2. Contains(u, t) <=> \E i \in 1 .. n + 1 : u[i] = t
    BY <1>2 DEF Contains
  <2>3. n + 1 \in 1 .. n + 1 /\ \A i \in 1 .. n : i \in 1 .. n + 1 /\ i # n + 1
    BY <1>1
  <2>4. \A i \in 1 .. n + 1 : i # n + 1 => i \in 1 .. n
    BY <1>1
  <2> QED BY <1>3, <2>1, <2>2, <2>3, <2>4
<1>5. ASSUME IsInjective(s), ~Contains(s, x) PROVE IsInjective(u)
  <2> SUFFICES ASSUME NEW a \in 1 .. n + 1, NEW b \in 1 .. n + 1, u[a] = u[b] PROVE a = b
    BY <1>2 DEF IsInjective
  <2>1. \A i \in 1 .. n : s[i] # x
    BY <1>5 DEF Contains, n
  <2>2. (a # n + 1 => a \in 1 .. n) /\ (b # n + 1 => b \in 1 .. n)
    BY <1>1
  <2> QED BY <1>1, <1>3, <1>5, <2>1, <2>2 DEF IsInjective
<1> QED BY <1>2, <1>4, <1>5 DEF u

\* Two sequences put together.
LEMMA Joined ==
    ASSUME NEW S, NEW s \in Seq(S), NEW u \in Seq(S)
    PROVE  /\ s \o u \in Seq(S) /\ (s # <<>> => s \o u # <<>>)
           /\ \A t : Contains(s \o u, t) <=> Contains(s, t) \/ Contains(u, t)
           /\ IsInjective(s) /\ IsInjective(u) /\ (\A t : ~(Contains(s, t) /\ Contains(u, t)))
                => IsInjective(s \o u)
<1> DEFINE n == Len(s)
           m == Len(u)
           w == s \o u
<1>1. n \in Nat /\ m \in Nat /\ DOMAIN s = 1 .. n /\ DOMAIN u = 1 .. m
  OBVIOUS
<1>2. w \in Seq(S) /\ Len(w) = n + m /\ DOMAIN w = 1 .. n + m
  OBVIOUS
<1>3. \A i \in 1 .. n + m : w[i] = IF i <= n THEN s[i] ELSE u[i - n]
  OBVIOUS
<1>0. s # <<>> => w # <<>>
  <2>1. s # <<>> => n # 0
    OBVIOUS
  <2>2. n # 0 => Len(w) # 0
    BY <1>1, <1>2
  <2> QED BY <2>1, <2>2
<1> DEFINE inS(t) == \E i \in 1 .. n : s[i] = t
           inU(t) == \E i \in 1 .. m : u[i] = t
           inW(t) == \E i \in 1 .. n + m : w[i] = t
<1>4. \A t : (Contains(s, t) <=> inS(t)) /\ (Contains(u, t) <=> inU(t)) /\ (Contains(w, t) <=> inW(t))
  BY <1>2 DEF Contains
<1> HIDE DEF n, m, w
<1>5. \A i \in 1 .. n : i \in 1 .. n + m /\ w[i] = s[i]
  BY <1>1, <1>3
<1>6. \A i \in 1 .. m : n + i \in 1 .. n + m /\ w[n + i] = u[i]
  <2> TAKE i \in 1 .. m
  <2>1. n + i \in 1 .. n + m /\ ~(n + i <= n) /\ (n + i) - n = i
    BY <1>1
  <2> QED BY <1>3, <2>1
<1>7. \A i \in 1 .. n + m : \/ i \in 1 .. n /\ w[i] = s[i]
                            \/ i - n \in 1 .. m /\ w[i] = u[i - n]
  BY <1>1, <1>3
<1>8. \A t : inW(t) <=> inS(t) \/ inU(t)
  BY <1>5, <1>6, <1>7
<1>9. ASSUME IsInjective(s), IsInjective(u), \A t : ~(inS(t) /\ inU(t)) PROVE IsInjective(w)
  <2> SUFFICES ASSUME NEW a \in 1 .. n + m, NEW b \in 1 .. n + m, w[a] = w[b] PROVE a = b
    BY <1>2 DEF IsInjective
  <2>1. CASE a \in 1 .. n /\ w[a] = s[a] /\ b \in 1 .. n /\ w[b] = s[b]
    BY <1>1, <1>9, <2>1 DEF IsInjective
  <2>2. CASE a - n \in 1 .. m /\ w[a] = u[a - n] /\ b - n \in 1 .. m /\ w[b] = u[b - n]
    <3>1. a - n = b - n
      BY <1>1, <1>9, <2>2 DEF IsInjective
    <3> QED BY <1>1, <3>1
  <2>3. CASE a \in 1 .. n /\ w[a] = s[a] /\ b - n \in 1 .. m /\ w[b] = u[b - n]
    <3>1. inS(w[a]) /\ inU(w[a])
      BY <2>3
    <3> QED BY <1>9, <3>1
  <2>4. CASE b \in 1 .. n /\ w[b] = s[b] /\ a - n \in 1 .. m /\ w[a] = u[a - n]
    <3>1. inS(w[b]) /\ inU(w[b])
      BY <2>4
    <3> QED BY <1>9, <3>1
  <2> QED BY <1>7, <2>1, <2>2, <2>3, <2>4
<1> QED BY <1>0, <1>2, <1>4, <1>8, <1>9 DEF w

\* What Only keeps, and that it keeps nothing twice.
LEMMA OnlySelects ==
    ASSUME NEW S, NEW s \in Seq(S), NEW T
    PROVE  /\ Only(s, T) \in Seq(S)
           /\ \A t : Contains(Only(s, T), t) <=> Contains(s, t) /\ t \in T
           /\ IsInjective(s) => IsInjective(Only(s, T))
<1> DEFINE n == Len(s)
<1>1. n \in Nat /\ DOMAIN s = 1 .. n /\ \A i \in 1 .. n : s[i] \in S
  OBVIOUS
<1>2. PICK f : OnlySteps(s, T, f, n) /\ Only(s, T) = f[n]
  BY <1>1, OnlyUnfolds
<1> DEFINE Good(i) == /\ f[i] \in Seq(S)
                      /\ \A t : Contains(f[i], t) <=> t \in T /\ \E j \in 1 .. i : s[j] = t
                      /\ IsInjective(s) => IsInjective(f[i])
           Bad == {i \in 0 .. n : ~Good(i)}
<1> HIDE DEF n
<1>3. f[0] = <<>> /\ \A i \in 1 .. n : f[i] = OnlyNext(s, T, f[i - 1], i)
  <2>1. \A i \in 1 .. n : i \in 0 .. n /\ i # 0
    BY <1>1
  <2>2. 0 \in 0 .. n
    BY <1>1
  <2> QED BY <1>2, <2>1, <2>2 DEF OnlySteps
<1>4. Good(0)
  <2>1. \A t : ~Contains(<<>>, t)
    BY DEF Contains
  <2>2. IsInjective(<<>>) /\ <<>> \in Seq(S)
    BY DEF IsInjective
  <2>3. \A t : ~\E j \in 1 .. 0 : s[j] = t
    OBVIOUS
  <2> QED BY <1>3, <2>1, <2>2, <2>3
<1>5. ASSUME NEW i \in 1 .. n, Good(i - 1) PROVE Good(i)
  <2>1. i \in Nat /\ i - 1 \in Nat /\ i \notin 1 .. i - 1 /\ i \in 1 .. i /\ s[i] \in S
    BY <1>1
  <2>2. \A j \in 1 .. i : j = i \/ j \in 1 .. i - 1
    BY <2>1
  <2>3. \A j \in 1 .. i - 1 : j \in 1 .. i /\ j \in 1 .. n
    BY <1>1, <2>1
  <2>4. CASE s[i] \in T
    <3>1. f[i] = Append(f[i - 1], s[i]) /\ f[i - 1] \in Seq(S)
      BY <1>3, <1>5, <2>4 DEF OnlyNext
    <3>2. \A t : Contains(f[i], t) <=> Contains(f[i - 1], t) \/ t = s[i]
      BY <2>1, <3>1, Appended
    <3>3. f[i] \in Seq(S)
      BY <2>1, <3>1, Appended
    <3>4. \A t : Contains(f[i], t) <=> t \in T /\ \E j \in 1 .. i : s[j] = t
      BY <1>5, <2>1, <2>2, <2>3, <2>4, <3>2
    <3>5. ASSUME IsInjective(s) PROVE IsInjective(f[i])
      <4>1. ~Contains(f[i - 1], s[i])
        BY <1>1, <1>5, <2>1, <2>3, <3>5 DEF IsInjective
      <4>2. IsInjective(f[i - 1])
        BY <1>5, <3>5
      <4> QED BY <2>1, <3>1, <4>1, <4>2, Appended
    <3> QED BY <3>3, <3>4, <3>5
  <2>5. CASE s[i] \notin T
    <3>1. f[i] = f[i - 1]
      BY <1>3, <2>5 DEF OnlyNext
    <3>2. \A t : Contains(f[i], t) <=> t \in T /\ \E j \in 1 .. i : s[j] = t
      BY <1>5, <2>2, <2>3, <2>5, <3>1
    <3> QED BY <1>5, <3>1, <3>2
  <2> QED BY <2>4, <2>5
<1> HIDE DEF Good
<1>6. Bad = {}
  <2> SUFFICES ASSUME Bad # {} PROVE FALSE
    OBVIOUS
  <2>1. Bad \in SUBSET Nat
    BY <1>1
  <2>2. PICK i \in Bad : \A k \in Bad : i <= k
    <3> HIDE DEF Bad
    <3> QED BY <2>1, LeastOf
  <2>3. i \in 0 .. n /\ ~Good(i) /\ i # 0
    BY <1>4
  <2>4. i \in 1 .. n /\ i - 1 \in 0 .. n /\ ~(i <= i - 1)
    BY <1>1, <2>3
  <2>5. Good(i - 1)
    BY <2>2, <2>4
  <2> QED BY <1>5, <2>3, <2>4, <2>5
<1>7. Good(n)
  BY <1>1, <1>6
<1>8. \A t : Contains(s, t) <=> \E j \in 1 .. n : s[j] = t
  BY DEF Contains, n
<1> QED BY <1>2, <1>7, <1>8 DEF Good

\* What is left when the first of an element is taken out.
LEMMA TakenOut ==
    ASSUME NEW S, NEW s \in Seq(S), NEW k \in DOMAIN s
    PROVE  /\ RemoveAt(s, k) \in Seq(S)
           /\ Len(RemoveAt(s, k)) = Len(s) - 1
           /\ \A i \in 1 .. Len(s) - 1 : RemoveAt(s, k)[i] = IF i < k THEN s[i] ELSE s[i + 1]
           /\ \A t : Contains(s, t) => t = s[k] \/ Contains(RemoveAt(s, k), t)
           /\ IsInjective(s) => IsInjective(RemoveAt(s, k))
<1> DEFINE n == Len(s)
           t == RemoveAt(s, k)
<1>1. n \in Nat /\ DOMAIN s = 1 .. n /\ k \in 1 .. n
  OBVIOUS
<1>2. SubSeq(s, 1, k - 1) \in Seq(S) /\ Len(SubSeq(s, 1, k - 1)) = k - 1
  BY <1>1
<1>3. SubSeq(s, k + 1, n) \in Seq(S) /\ Len(SubSeq(s, k + 1, n)) = n - k
  BY <1>1
<1>4. t \in Seq(S) /\ DOMAIN t = 1 .. n - 1 /\ Len(t) = n - 1
  <2>1. t = SubSeq(s, 1, k - 1) \o SubSeq(s, k + 1, n)
    BY DEF RemoveAt
  <2>2. t \in Seq(S) /\ Len(t) = (k - 1) + (n - k)
    BY <1>2, <1>3, <2>1
  <2>3. (k - 1) + (n - k) = n - 1
    BY <1>1
  <2> HIDE DEF t, n
  <2> QED BY <2>2, <2>3
<1>5. \A i \in 1 .. n - 1 : t[i] = IF i < k THEN s[i] ELSE s[i + 1]
  <2> TAKE i \in 1 .. n - 1
  <2>1. CASE i < k
    BY <2>1, <1>1, <1>2, <1>3 DEF RemoveAt
  <2>2. CASE ~(i < k)
    <3>1. t[i] = SubSeq(s, k + 1, n)[i - (k - 1)]
      BY <2>2, <1>1, <1>2, <1>3 DEF RemoveAt
    <3>2. SubSeq(s, k + 1, n)[i - (k - 1)] = s[i + 1]
      BY <2>2, <1>1
    <3> QED BY <3>1, <3>2, <2>2
  <2> QED BY <2>1, <2>2
<1>0. \A e : (Contains(s, e) <=> \E i \in 1 .. n : s[i] = e)
           /\ (Contains(t, e) <=> \E i \in 1 .. n - 1 : t[i] = e)
  BY <1>4 DEF Contains
<1> HIDE DEF n, t
<1>6. ASSUME NEW i \in 1 .. n, i # k PROVE \E j \in 1 .. n - 1 : t[j] = s[i]
  <2>1. CASE i < k
    <3>1. i \in 1 .. n - 1 /\ t[i] = s[i]
      BY <2>1, <1>1, <1>5
    <3> QED BY <3>1
  <2>2. CASE i > k
    <3>1. i - 1 \in 1 .. n - 1 /\ ~(i - 1 < k) /\ (i - 1) + 1 = i
      BY <2>2, <1>1
    <3>2. t[i - 1] = s[i]
      BY <3>1, <1>5
    <3> QED BY <3>1, <3>2
  <2> QED BY <1>6, <2>1, <2>2, <1>1
<1>7. \A e : Contains(s, e) => e = s[k] \/ Contains(t, e)
  BY <1>0, <1>6
<1>8. ASSUME IsInjective(s) PROVE IsInjective(t)
  <2> SUFFICES ASSUME NEW a \in 1 .. n - 1, NEW b \in 1 .. n - 1, t[a] = t[b] PROVE a = b
    BY <1>4 DEF IsInjective
  <2> DEFINE at(i) == IF i < k THEN i ELSE i + 1
  <2>1. at(a) \in 1 .. n /\ at(b) \in 1 .. n /\ t[a] = s[at(a)] /\ t[b] = s[at(b)]
    BY <1>1, <1>5
  <2>2. at(a) = at(b)
    <3> HIDE DEF at
    <3> QED BY <1>1, <1>8, <2>1 DEF IsInjective
  <2> QED BY <1>1, <2>2
<1>9. t \in Seq(S) /\ Len(t) = n - 1
  BY <1>4
<1> QED BY <1>5, <1>7, <1>8, <1>9 DEF n, t
\* The group is there and has the tab.
InGroup(t) == group # NoTab /\ groupHasTab(group, t)

Ensuring == {"ensure list", "ensure run"}
StartsInTab == {"start lock", "start check", "start type", "start wait"}
KillingTab == {"kill-tab", "tab kill get", "tab kill", "tab kill update"}

\* The shape of a process's record, by the place where it is: a plan lists tabs
\* once, and nothing but an Ensure or an EnsureTab creates terminals.
Shaped(r) ==
    /\ r.plan \in Seq(TabId) /\ r.todo \in Seq(TabId) /\ r.made \in SUBSET TabId
    /\ r.failed \in BOOLEAN
    /\ r.at \in Ensuring => r.plan # <<>> /\ IsInjective(r.plan)
    /\ r.at \in {"kill", "kill run"} => r.op = "kill"
    /\ r.at \in KillingTab => r.op = "kill-tab"
    /\ r.made # {} => \/ r.at = "ensure run"
                      \/ r.at \in {"tab update"} \cup StartsInTab /\ r.made = {r.tab}
    /\ r.at \in {"tab get", "tab list", "tab run", "tab update"} => r.tab \in Extra
    /\ r.at \in StartsInTab /\ r.made # {} => r.tab \in Extra

TabsShaped ==
    /\ layout \in Layouts /\ alive \subseteq TabId /\ lost \subseteq TabId
    /\ commands \in 0 .. MaxCommands /\ trouble \in 0 .. MaxTrouble
    /\ clash \in BOOLEAN /\ panicked \in BOOLEAN
    /\ group # NoTab => /\ group \in Group
                        /\ IsInjective(group.tabs) /\ groupHasTab(group, group.active)
    /\ \A p \in Process : Shaped(proc[p])

\* A command that closes tabs, before it ends, is the only one.
ClosersAlone ==
    \A p, q \in Process :
        closing(proc[p].op) /\ proc[p].at # "idle" /\ p # q => proc[q].at = "idle"

\* What a process relies on from one access to the store to the next: the group
\* is still there, with the delivery it recorded, with the tabs it found or added,
\* with the tabs it has still to close.
Relies(r) ==
    /\ r.at \in {"send", "send mark"} => group # NoTab /\ group.letter # NoTab
    /\ r.at \in Ensuring =>
         \A t \in TabId : Contains(r.todo, t) \/ t \in r.made =>
                             Contains(r.plan, t) \/ (t \in Extra /\ InGroup(t))
    /\ r.at \in StartsInTab => \A t \in r.made : InGroup(t)
    /\ r.at = "kill run" =>
         group # NoTab /\ (r.failed \/ \A t \in alive : InGroup(t) => Contains(r.todo, t))
    /\ r.at \in {"tab kill", "tab kill update"} =>
         group # NoTab /\ r.todo = group.tabs /\ groupHasTab(group, r.tab)
    /\ r.at = "tab kill update" => r.tab \notin alive

\* A terminal that runs is known to the group, to its creator, or left behind.
Known == \A t \in alive : InGroup(t) \/ (\E p \in Process : t \in proc[p].made) \/ t \in lost

SafeAlone ==
    ~clash => /\ ClosersAlone /\ \A p \in Process : Relies(proc[p])
              /\ ~panicked /\ Known

\* A slice's group is one record.
LEMMA GroupRecord ==
    ASSUME NEW g
    PROVE  g \in Group <=> /\ g = [tabs |-> g.tabs, active |-> g.active, letter |-> g.letter]
                           /\ g.tabs \in Seq(TabId) /\ g.active \in TabId \cup {NoTab}
                           /\ g.letter \in Delivery \cup {NoTab}
BY DEF Group

\* A plan has at least a tab per member or the root's, and none twice.
LEMMA PlanListsTabs ==
    ASSUME NEW l
    PROVE  /\ PlanGroupTabs(l) \in Seq(TabId) /\ PlanGroupTabs(l) # <<>>
           /\ IsInjective(PlanGroupTabs(l))
<1> DEFINE root == IF l # "repos" /\ sharedRootCWD THEN <<RootTab>> ELSE <<>>
           repos == [i \in DOMAIN Member |-> Member[i].repo]
<1>1. Len(Member) \in Nat /\ DOMAIN Member = 1 .. Len(Member) /\ Len(Member) # 0
  BY TabsAssumption
<1>2. \A i \in DOMAIN Member : Member[i].repo \in TabId
  BY DEF TabId, Planned
<1>3. repos \in Seq(TabId) /\ Len(repos) = Len(Member) /\ repos # <<>>
  BY <1>1, <1>2
<1>4. IsInjective(repos)
  BY TabsNamesAssumption DEF IsInjective
<1>5. ~Contains(repos, RootTab)
  BY <1>1, <1>3, TabsNamesAssumption DEF Contains
<1>6. root \in Seq(TabId) /\ IsInjective(root) /\ \A t : Contains(root, t) => t = RootTab
  <2>1. RootTab \in TabId
    BY DEF TabId, Planned
  <2>2. <<RootTab>> \in Seq(TabId) /\ IsInjective(<<RootTab>>)
        /\ \A t : Contains(<<RootTab>>, t) => t = RootTab
    BY <2>1 DEF IsInjective, Contains
  <2>3. <<>> \in Seq(TabId) /\ IsInjective(<<>>) /\ \A t : ~Contains(<<>>, t)
    BY DEF IsInjective, Contains
  <2> QED BY <2>2, <2>3
<1> HIDE DEF root, repos
<1>7. root \o repos \in Seq(TabId) /\ root \o repos # <<>> /\ IsInjective(root \o repos)
  <2>1. \A t : ~(Contains(root, t) /\ Contains(repos, t))
    BY <1>5, <1>6
  <2>2. root \o repos \in Seq(TabId) /\ IsInjective(root \o repos)
    BY ONLY <1>3, <1>4, <1>6, <2>1, Joined
  <2>3. root \o repos # <<>>
    BY <1>3, <1>6
  <2> QED BY <2>2, <2>3
<1>8. PlanGroupTabs(l) = root \/ PlanGroupTabs(l) = root \o repos
  BY DEF PlanGroupTabs, root, repos
<1>9. PlanGroupTabs(l) = root => root # <<>> \/ root \o repos = root
  BY DEF PlanGroupTabs, root, repos
<1> QED BY <1>6, <1>7, <1>8, <1>9

\* reconcileGroup: the plan's tabs, then those that users and agents added.
LEMMA Reconciled ==
    ASSUME NEW d \in Seq(TabId), d # <<>>, IsInjective(d),
           NEW g \in Group, IsInjective(g.tabs)
    PROVE  LET n == reconcileGroup(d, g)
           IN  /\ n \in Group /\ IsInjective(n.tabs) /\ groupHasTab(n, n.active)
               /\ \A t : groupHasTab(n, t) <=> Contains(d, t) \/ (t \in Extra /\ groupHasTab(g, t))
               /\ n.letter = g.letter
<1> DEFINE T == {t \in TabId : dynamicTabKind(t) /\ ~Contains(d, t)}
           kept == Only(g.tabs, T)
           tabs == d \o kept
           n == reconcileGroup(d, g)
<1>1. g.tabs \in Seq(TabId) /\ g.active \in TabId \cup {NoTab} /\ g.letter \in Delivery \cup {NoTab}
  BY GroupRecord
<1> HIDE DEF T
<1>2. /\ kept \in Seq(TabId) /\ IsInjective(kept)
      /\ \A t : Contains(kept, t) <=> Contains(g.tabs, t) /\ t \in T
  BY ONLY <1>1, IsInjective(g.tabs), OnlySelects
<1> HIDE DEF kept
<1>3. \A t : ~(Contains(d, t) /\ Contains(kept, t))
  BY <1>2 DEF T
<1>4. /\ tabs \in Seq(TabId) /\ tabs # <<>> /\ IsInjective(tabs)
      /\ \A t : Contains(tabs, t) <=> Contains(d, t) \/ Contains(kept, t)
  BY ONLY <1>2, <1>3, d \in Seq(TabId), d # <<>>, IsInjective(d), Joined
<1> HIDE DEF tabs
<1>5. n = [tabs |-> tabs, letter |-> g.letter,
           active |-> IF Contains(tabs, g.active) THEN g.active
                      ELSE IF tabs # <<>> THEN tabs[1] ELSE NoTab]
  BY DEF reconcileGroup, tabs, kept, T
<1>6. 1 \in 1 .. Len(tabs) /\ tabs[1] \in TabId /\ Contains(tabs, tabs[1])
  <2>1. 1 \in 1 .. Len(tabs) /\ tabs[1] \in TabId
    BY <1>4
  <2> QED BY <2>1 DEF Contains
<1>7. n \in Group
  BY <1>1, <1>4, <1>5, <1>6 DEF Group
<1>8. groupHasTab(n, n.active)
  BY <1>4, <1>5, <1>6 DEF groupHasTab
<1>9. \A t : Contains(d, t) => t \in TabId
  BY DEF Contains
<1>10. \A t : groupHasTab(n, t) <=> Contains(d, t) \/ (t \in Extra /\ groupHasTab(g, t))
  BY <1>2, <1>4, <1>5 DEF groupHasTab, T, dynamicTabKind, TabId
<1> HIDE DEF n
<1>11. n.letter = g.letter /\ IsInjective(n.tabs)
  BY <1>4, <1>5
<1> QED BY <1>7, <1>8, <1>10, <1>11 DEF n

\* The update of EnsureTab.
LEMMA TabAdded ==
    ASSUME NEW g \in Group, IsInjective(g.tabs), groupHasTab(g, g.active), NEW t \in TabId
    PROVE  LET n == [g EXCEPT !.tabs = IF Contains(@, t) THEN @ ELSE Append(@, t)]
           IN  /\ n \in Group /\ IsInjective(n.tabs) /\ groupHasTab(n, n.active)
               /\ \A u : groupHasTab(n, u) <=> groupHasTab(g, u) \/ u = t
               /\ n.letter = g.letter
<1> DEFINE tabs == IF Contains(g.tabs, t) THEN g.tabs ELSE Append(g.tabs, t)
           n == [g EXCEPT !.tabs = tabs]
<1>1. g = [tabs |-> g.tabs, active |-> g.active, letter |-> g.letter] /\ g.tabs \in Seq(TabId)
      /\ g.active \in TabId \cup {NoTab} /\ g.letter \in Delivery \cup {NoTab}
  BY GroupRecord
<1>2. /\ tabs \in Seq(TabId) /\ IsInjective(tabs)
      /\ \A u : Contains(tabs, u) <=> Contains(g.tabs, u) \/ u = t
  <2>1. CASE Contains(g.tabs, t)
    BY <1>1, <2>1
  <2>2. CASE ~Contains(g.tabs, t)
    <3>1. tabs = Append(g.tabs, t)
      BY <2>2
    <3> HIDE DEF tabs
    <3>2. Append(g.tabs, t) \in Seq(TabId) /\ IsInjective(Append(g.tabs, t))
          /\ \A u : Contains(Append(g.tabs, t), u) <=> Contains(g.tabs, u) \/ u = t
      BY ONLY <1>1, <2>2, IsInjective(g.tabs), t \in TabId, Appended
    <3> QED BY <3>1, <3>2
  <2> QED BY <2>1, <2>2
<1> HIDE DEF tabs
<1>3. n = [tabs |-> tabs, active |-> g.active, letter |-> g.letter]
  BY <1>1
<1>4. n \in Group
  BY <1>1, <1>2, <1>3 DEF Group
<1>5. IsInjective(n.tabs) /\ groupHasTab(n, n.active) /\ n.letter = g.letter
      /\ \A u : groupHasTab(n, u) <=> groupHasTab(g, u) \/ u = t
  BY <1>2, <1>3 DEF groupHasTab
<1> QED BY <1>4, <1>5 DEF tabs

\* The update of KillTab: the group had another tab, so that one is active.
LEMMA TabTakenOut ==
    ASSUME NEW g \in Group, IsInjective(g.tabs), groupHasTab(g, g.active),
           NEW t \in TabId, groupHasTab(g, t), ~(g.tabs = <<t>> /\ g.active = t)
    PROVE  LET n == withoutTab(g, t)
           IN  /\ n \in Group /\ IsInjective(n.tabs) /\ groupHasTab(n, n.active)
               /\ \A u : groupHasTab(g, u) => u = t \/ groupHasTab(n, u)
<1> DEFINE I == {j \in 1 .. Len(g.tabs) : g.tabs[j] = t}
           i == SelectInSeq(g.tabs, LAMBDA u : u = t)
           tabs == RemoveAt(g.tabs, i)
           n == withoutTab(g, t)
<1>1. g.tabs \in Seq(TabId) /\ g.active \in TabId \cup {NoTab} /\ g.letter \in Delivery \cup {NoTab}
  BY GroupRecord
<1>2. i \in DOMAIN g.tabs /\ g.tabs[i] = t
  <2>1. i = IF I # {} THEN Min(I) ELSE 0
    BY DEF SelectInSeq
  <2>2. I # {} /\ I \in SUBSET Nat
    BY DEF groupHasTab, Contains
  <2>3. \E x \in I : \A y \in I : x <= y
    <3> HIDE DEF I
    <3> QED BY <2>2, LeastOf
  <2>4. Min(I) \in I
    BY <2>3 DEF Min
  <2>5. i \in I
    <3> HIDE DEF I, i
    <3> QED BY <2>1, <2>2, <2>4
  <2>6. DOMAIN g.tabs = 1 .. Len(g.tabs)
    BY <1>1
  <2> HIDE DEF i
  <2> QED BY <2>5, <2>6
<1> HIDE DEF i, I
<1>3. /\ tabs \in Seq(TabId) /\ Len(tabs) = Len(g.tabs) - 1 /\ IsInjective(tabs)
      /\ \A u : Contains(g.tabs, u) => u = t \/ Contains(tabs, u)
  BY ONLY <1>1, <1>2, IsInjective(g.tabs), TakenOut
<1> HIDE DEF tabs
<1>4. n = [tabs |-> tabs,
           active |-> IF g.active # t THEN g.active ELSE tabs[IF i > 1 THEN i - 1 ELSE 1],
           letter |-> IF g.letter # NoTab /\ g.letter.tab = t THEN NoTab ELSE g.letter]
  BY DEF withoutTab, tabs, i
<1>5. Len(g.tabs) \in Nat /\ i \in 1 .. Len(g.tabs) /\ DOMAIN tabs = 1 .. Len(tabs)
  BY <1>1, <1>2, <1>3
<1>6. ASSUME g.active = t PROVE Len(g.tabs) # 1
  <2> SUFFICES ASSUME Len(g.tabs) = 1 PROVE FALSE
    OBVIOUS
  <2>1. g.tabs[1] = t
    BY <1>2, <1>5
  <2>2. g.tabs = <<t>>
    BY <1>1, <2>1
  <2> QED BY <1>6, <2>2
<1>7. ASSUME g.active = t PROVE (IF i > 1 THEN i - 1 ELSE 1) \in 1 .. Len(tabs)
  <2>1. \A m \in Nat : \A j \in 1 .. m :
            m # 1 => (IF j > 1 THEN j - 1 ELSE 1) \in 1 .. m - 1
    OBVIOUS
  <2> QED BY <1>3, <1>5, <1>6, <1>7, <2>1
<1>8. Contains(tabs, n.active) /\ n.active \in TabId
  <2>1. CASE g.active # t
    <3>1. n.active = g.active
      BY <1>4, <2>1
    <3>2. Contains(g.tabs, g.active)
      BY DEF groupHasTab
    <3>3. g.active \in TabId
      BY <1>1, <3>2 DEF Contains
    <3>4. Contains(tabs, g.active)
      BY <1>3, <2>1, <3>2
    <3> QED BY <3>1, <3>3, <3>4
  <2>2. CASE g.active = t
    <3>1. n.active = tabs[IF i > 1 THEN i - 1 ELSE 1]
      BY <1>4, <2>2
    <3> QED BY <1>3, <1>7, <2>2, <3>1 DEF Contains
  <2> QED BY <2>1, <2>2
<1>9. n \in Group
  BY <1>1, <1>3, <1>4, <1>8 DEF Group
<1> HIDE DEF n
<1>10. IsInjective(n.tabs) /\ groupHasTab(n, n.active)
       /\ \A u : groupHasTab(g, u) => u = t \/ groupHasTab(n, u)
  BY <1>3, <1>4, <1>8 DEF groupHasTab
<1> QED BY <1>9, <1>10 DEF n

TabsSafe == TabsInvariant /\ TabsShaped /\ SafeAlone

LEMMA IdleIsSafe == Shaped(Idle) /\ Relies(Idle) /\ Idle.at = "idle" /\ Idle.made = {}
BY DEF Idle, Shaped, Relies, Ensuring, StartsInTab, KillingTab

\* A process goes from one place to the next, or ends: what the others rely on
\* stays, as the tabs of users and agents stay, and nobody closes beside it.
LEMMA ProcessMoves ==
    ASSUME TabsSafe, NEW p \in Process, NEW x, proc' = [proc EXCEPT ![p] = x],
           Shaped(x), proc[p].at # "idle", clash' = clash,
           x.at = "idle" \/ x.op = proc[p].op,
           ~clash => Relies(x)',
           \/ clash
           \/ closing(proc[p].op)
           \/ /\ \A t \in Extra : InGroup(t) => InGroup(t)'
              /\ group # NoTab /\ group.letter # NoTab => group' # NoTab /\ group'.letter # NoTab,
           ~clash => ~panicked',
           ~clash => \A t \in alive' : \/ t \in x.made \/ InGroup(t)' \/ t \in lost'
                                       \/ \E q \in Process : q # p /\ t \in proc[q].made
    PROVE  SafeAlone' /\ \A q \in Process : Shaped(proc'[q])
<1>1. \A q \in Process : proc'[q] = IF q = p THEN x ELSE proc[q]
  BY DEF TabsSafe, TabsInvariant, TerminalsTyped
<1>2. \A q \in Process : Shaped(proc[q])
  BY DEF TabsSafe, TabsShaped
<1>3. \A q \in Process : Shaped(proc'[q])
  BY <1>1, <1>2
<1>4. SUFFICES ASSUME ~clash PROVE ClosersAlone' /\ (\A q \in Process : Relies(proc[q]))' /\ Known'
  BY <1>3 DEF SafeAlone
<1>5. ClosersAlone /\ \A q \in Process : Relies(proc[q])
  BY <1>4 DEF TabsSafe, SafeAlone
<1>6. ClosersAlone'
  <2> SUFFICES ASSUME NEW q \in Process, NEW r \in Process, q # r,
                      closing(proc'[q].op), proc'[q].at # "idle"
               PROVE  proc'[r].at = "idle"
    BY DEF ClosersAlone
  <2>1. CASE q = p
    BY <1>1, <1>5, <2>1 DEF ClosersAlone
  <2>2. CASE q # p
    BY <1>1, <1>5, <2>2 DEF ClosersAlone
  <2> QED BY <2>1, <2>2
<1>7. ASSUME NEW q \in Process PROVE Relies(proc[q])'
  <2>1. CASE q = p
    <3>1. proc'[q] = x
      BY <1>1, <2>1
    <3> QED BY <1>4, <3>1 DEF Relies, InGroup
  <2>2. CASE q # p
    <3>1. PICK r : r = proc[q]
      OBVIOUS
    <3>2. proc'[q] = r /\ Shaped(r) /\ Relies(r)
      BY <1>1, <1>2, <1>5, <2>2, <3>1
    <3>3. ~(closing(r.op) /\ r.at # "idle") /\ (closing(proc[p].op) => r.at = "idle")
      BY <1>5, <2>2, <3>1 DEF ClosersAlone
    <3>4. CASE r.at = "idle"
      BY <3>2, <3>4 DEF KillingTab, Relies, Ensuring, StartsInTab
    <3>5. CASE r.at # "idle"
      <4>1. /\ \A t \in Extra : InGroup(t) => InGroup(t)'
            /\ group # NoTab /\ group.letter # NoTab => group' # NoTab /\ group'.letter # NoTab
        BY <1>4, <3>3, <3>5
      <4>2. r.at \notin {"kill", "kill run"} \cup KillingTab
        BY <3>2, <3>3, <3>5 DEF Shaped, closing
      <4>3. r.at \in {"send", "send mark"} => group' # NoTab /\ group'.letter # NoTab
        BY <3>2, <4>1 DEF Relies
      <4>4. r.at \in Ensuring =>
               \A t \in TabId : Contains(r.todo, t) \/ t \in r.made =>
                                   Contains(r.plan, t) \/ (t \in Extra /\ InGroup(t)')
        BY <3>2, <4>1 DEF Relies
      <4>5. r.at \in StartsInTab => \A t \in r.made : InGroup(t)'
        <5> SUFFICES ASSUME r.at \in StartsInTab, NEW t \in r.made PROVE InGroup(t)'
          OBVIOUS
        <5>1. t \in Extra
          BY <3>2 DEF Shaped, StartsInTab
        <5> QED BY <3>2, <4>1, <5>1 DEF Relies
      <4> QED BY <3>2, <4>2, <4>3, <4>4, <4>5 DEF Relies, KillingTab, InGroup
    <3> QED BY <3>4, <3>5
  <2> QED BY <2>1, <2>2
<1>8. Known'
  <2> SUFFICES ASSUME NEW t \in alive', ~InGroup(t)', t \notin lost'
               PROVE  \E q \in Process : t \in proc'[q].made
    BY DEF Known
  <2> QED BY <1>1, <1>4
<1> QED BY <1>6, <1>7, <1>8

\* ... and changes nothing of the group and the terminals.
LEMMA QuietlyMoves ==
    ASSUME TabsSafe, NEW p \in Process, NEW x, proc' = [proc EXCEPT ![p] = x],
           Shaped(x), proc[p].at # "idle", UNCHANGED <<group, alive, lost, panicked, clash, layout>>,
           commands' \in 0 .. MaxCommands, trouble' \in 0 .. MaxTrouble,
           x.at = "idle" \/ x.op = proc[p].op,
           ~clash => Relies(x) /\ \A t \in proc[p].made : t \in x.made \/ InGroup(t)
    PROVE  TabsShaped' /\ SafeAlone'
<1>1. ~clash => Relies(x)'
  BY DEF Relies, InGroup
<1>2. ~clash => ~panicked'
  BY DEF TabsSafe, SafeAlone
<1>3. \A t : InGroup(t)' <=> InGroup(t)
  BY DEF InGroup
<1>4. ~clash => \A t \in alive' : \/ t \in x.made \/ InGroup(t)' \/ t \in lost'
                                  \/ \E q \in Process : q # p /\ t \in proc[q].made
  <2> SUFFICES ASSUME ~clash, NEW t \in alive, t \notin x.made, ~InGroup(t), t \notin lost
               PROVE  \E q \in Process : q # p /\ t \in proc[q].made
    BY <1>3
  <2> QED BY DEF TabsSafe, SafeAlone, Known
<1>5. SafeAlone' /\ \A q \in Process : Shaped(proc'[q])
  BY <1>1, <1>2, <1>3, <1>4, ProcessMoves
<1> QED BY <1>5 DEF TabsSafe, TabsShaped

\* It ends where what it made is in the group, or it made nothing.
LEMMA QuietlyExits ==
    ASSUME TabsSafe, NEW p \in Process, Exit(p), proc[p].at \notin {"idle", "ensure run", "tab update"},
           UNCHANGED <<group, alive, lost, panicked, clash, layout>>,
           commands' \in 0 .. MaxCommands, trouble' \in 0 .. MaxTrouble
    PROVE  TabsShaped' /\ SafeAlone'
<1>1. ~clash => \A t \in proc[p].made : InGroup(t)
  BY DEF TabsSafe, TabsShaped, Shaped, SafeAlone, Relies
<1> QED BY <1>1, IdleIsSafe, QuietlyMoves DEF Exit

\* It goes to another place with what it has.
LEMMA QuietlyGoes ==
    ASSUME TabsSafe, NEW p \in Process, NEW place, Goto(p, place),
           proc[p].at # "idle", UNCHANGED <<group, alive, lost, panicked, clash, layout>>,
           commands' \in 0 .. MaxCommands, trouble' \in 0 .. MaxTrouble,
           Shaped([proc[p] EXCEPT !.at = place]),
           ~clash => Relies([proc[p] EXCEPT !.at = place])
    PROVE  TabsShaped' /\ SafeAlone'
<1> DEFINE x == [proc[p] EXCEPT !.at = place]
<1>1. x.op = proc[p].op /\ x.made = proc[p].made
  BY DEF TabsSafe, TabsInvariant, TerminalsTyped, TabsProc, TabsFields
<1>2. proc' = [proc EXCEPT ![p] = x] /\ Shaped(x) /\ (~clash => Relies(x))
  BY DEF Goto
<1> HIDE DEF x
<1>3. PICK y : y = x
  OBVIOUS
<1>4. proc' = [proc EXCEPT ![p] = y] /\ Shaped(y) /\ (~clash => Relies(y))
      /\ y.op = proc[p].op /\ y.made = proc[p].made
  BY <1>1, <1>2, <1>3
<1> QED BY <1>4, QuietlyMoves

\* The first of a sequence, and the rest.
LEMMA HeadAndTail ==
    ASSUME NEW S, NEW s \in Seq(S), s # <<>>
    PROVE  /\ Head(s) \in S /\ Tail(s) \in Seq(S)
           /\ \A t : Contains(s, t) <=> t = Head(s) \/ Contains(Tail(s), t)
<1> DEFINE n == Len(s)
           rest == Tail(s)
<1>1. n \in Nat /\ n # 0 /\ Head(s) = s[1] /\ 1 \in 1 .. n /\ s[1] \in S
  OBVIOUS
<1>2. rest \in Seq(S) /\ Len(rest) = n - 1 /\ \A i \in 1 .. n - 1 : rest[i] = s[i + 1]
  OBVIOUS
<1>3. \A t : /\ Contains(s, t) <=> \E i \in 1 .. n : s[i] = t
             /\ Contains(rest, t) <=> \E i \in 1 .. n - 1 : rest[i] = t
  BY <1>2 DEF Contains
<1> HIDE DEF n, rest
<1>4. \A i \in 1 .. n - 1 : i + 1 \in 1 .. n
  BY <1>1
<1>5. \A i \in 1 .. n : i = 1 \/ (i - 1 \in 1 .. n - 1 /\ (i - 1) + 1 = i)
  BY <1>1
<1>6. \A t : Contains(s, t) <=> t = s[1] \/ Contains(rest, t)
  <2> TAKE t
  <2>1. ASSUME NEW i \in 1 .. n, s[i] = t PROVE t = s[1] \/ Contains(rest, t)
    <3>1. i # 1 => i - 1 \in 1 .. n - 1 /\ rest[i - 1] = s[i]
      BY <1>2, <1>5
    <3> QED BY <1>3, <2>1, <3>1
  <2>2. ASSUME NEW i \in 1 .. n - 1, rest[i] = t PROVE Contains(s, t)
    BY <1>2, <1>3, <1>4, <2>2
  <2> QED BY <1>1, <1>3, <2>1, <2>2
<1> QED BY <1>1, <1>2, <1>6 DEF rest

\* The record of a process, and the counters, in a step.
LEMMA TabsFacts ==
    ASSUME TabsSafe, NEW p \in Process
    PROVE  /\ TabsProc(proc[p]) /\ Shaped(proc[p]) /\ (~clash => Relies(proc[p]))
           /\ commands \in 0 .. MaxCommands /\ trouble \in 0 .. MaxTrouble
           /\ TroubleComes => trouble' \in 0 .. MaxTrouble
           /\ proc[p].at \in OnTab => proc[p].tab \in TabId
<1>1. TroubleComes => trouble' \in 0 .. MaxTrouble
  BY TabsAssumption DEF TroubleComes, TabsSafe, TabsShaped
<1> QED BY <1>1 DEF TabsSafe, TabsInvariant, TerminalsTyped, LocksHeld, TabsShaped, SafeAlone

\* What Get and Upsert take for the group: one without tabs if there is none.
LEMMA CurrentGroup ==
    ASSUME TabsShaped
    PROVE  LET g == IF group = NoTab THEN EmptyGroup ELSE group
           IN  /\ g \in Group /\ IsInjective(g.tabs)
               /\ \A t : groupHasTab(g, t) <=> InGroup(t)
<1>1. EmptyGroup \in Group /\ IsInjective(EmptyGroup.tabs) /\ \A t : ~groupHasTab(EmptyGroup, t)
  BY DEF EmptyGroup, Group, IsInjective, groupHasTab, Contains
<1> QED BY <1>1 DEF TabsShaped, InGroup

\* A process that fails leaves behind what it made and nobody recorded.
LEMMA FailIsSafe ==
    ASSUME TabsSafe, NEW p \in Process, Fail(p), proc[p].at # "idle",
           UNCHANGED <<group, alive, panicked, clash, layout>>,
           commands' \in 0 .. MaxCommands, trouble' \in 0 .. MaxTrouble
    PROVE  TabsShaped' /\ SafeAlone'
<1>1. proc' = [proc EXCEPT ![p] = Idle]
  BY DEF Fail, Exit
<1>2. /\ lost \subseteq lost' /\ lost' \subseteq TabId
      /\ \A t \in alive : t \in proc[p].made => InGroup(t) \/ t \in lost'
  BY DEF Fail, InGroup, TabsSafe, TabsShaped
<1>3. \A t : InGroup(t)' <=> InGroup(t)
  BY DEF InGroup
<1>4. ~clash => \A t \in alive' : \/ t \in Idle.made \/ InGroup(t)' \/ t \in lost'
                                  \/ \E q \in Process : q # p /\ t \in proc[q].made
  BY <1>2, <1>3 DEF TabsSafe, SafeAlone, Known
<1>5. ~clash => Relies(Idle)'
  BY IdleIsSafe DEF Relies, Idle, Ensuring, StartsInTab
<1>6. ~clash => ~panicked'
  BY DEF TabsSafe, SafeAlone
<1>7. SafeAlone' /\ \A q \in Process : Shaped(proc'[q])
  BY <1>1, <1>3, <1>4, <1>5, <1>6, IdleIsSafe, ProcessMoves
<1> QED BY <1>2, <1>7 DEF TabsSafe, TabsShaped

LEMMA EnsureGetIsSafe ==
    ASSUME TabsSafe, NEW p \in Process, EnsureGet(p)
    PROVE  TabsShaped' /\ SafeAlone'
<1> DEFINE g == IF group = NoTab THEN EmptyGroup ELSE group
           d == PlanGroupTabs(layout)
           n == reconcileGroup(d, g)
           x == [proc[p] EXCEPT !.plan = d, !.at = "ensure list", !.todo = n.tabs]
<1>1. d \in Seq(TabId) /\ d # <<>> /\ IsInjective(d)
  BY PlanListsTabs
<1>2. g \in Group /\ IsInjective(g.tabs) /\ \A t : groupHasTab(g, t) <=> InGroup(t)
  BY CurrentGroup DEF TabsSafe
<1> HIDE DEF d, g
<1>3. n \in Group /\ \A t : groupHasTab(n, t) <=> Contains(d, t) \/ (t \in Extra /\ groupHasTab(g, t))
  BY <1>1, <1>2, Reconciled
<1>4. proc' = [proc EXCEPT ![p] = x] /\ proc[p].at = "ensure"
      /\ UNCHANGED <<group, alive, lost, panicked, clash, layout, commands, trouble>>
  BY DEF EnsureGet, At, store, terminals, history, d, g
<1> HIDE DEF n
<1>5. n.tabs \in Seq(TabId)
  BY <1>3, GroupRecord
<1>6. /\ x.plan = d /\ x.at = "ensure list" /\ x.todo = n.tabs /\ x.made = proc[p].made
      /\ x.failed = proc[p].failed /\ x.op = proc[p].op
  BY TabsFacts DEF TabsProc, TabsFields
<1>7. proc[p].made = {} /\ proc[p].failed \in BOOLEAN
  BY <1>4, TabsFacts DEF Shaped, StartsInTab
<1> HIDE DEF x
<1>8. Shaped(x)
  BY <1>1, <1>5, <1>6, <1>7 DEF Shaped, KillingTab, StartsInTab
<1>9. Relies(x)
  BY <1>2, <1>3, <1>6, <1>7 DEF Relies, StartsInTab, groupHasTab
<1>10. PICK y : y = x
  OBVIOUS
<1> QED BY <1>4, <1>6, <1>7, <1>8, <1>9, <1>10, TabsFacts, QuietlyMoves

LEMMA EnsureListIsSafe ==
    ASSUME TabsSafe, NEW p \in Process, EnsureList(p)
    PROVE  TabsShaped' /\ SafeAlone'
<1> DEFINE todo == Only(proc[p].todo, TabId \ alive)
           x == [proc[p] EXCEPT !.todo = todo, !.at = "ensure run"]
<1>1. proc' = [proc EXCEPT ![p] = x] /\ proc[p].at = "ensure list"
      /\ UNCHANGED <<group, alive, lost, panicked, clash, layout, commands, trouble>>
  BY DEF EnsureList, At, store, terminals, history
<1>2. proc[p].todo \in Seq(TabId)
  BY TabsFacts DEF Shaped
<1>3. todo \in Seq(TabId) /\ \A t : Contains(todo, t) => Contains(proc[p].todo, t)
  BY <1>2, OnlySelects
<1> HIDE DEF todo
<1>4. /\ x.plan = proc[p].plan /\ x.at = "ensure run" /\ x.todo = todo /\ x.made = proc[p].made
      /\ x.failed = proc[p].failed /\ x.op = proc[p].op
  BY TabsFacts DEF TabsProc, TabsFields
<1> HIDE DEF x
<1>5. Shaped(x)
  BY <1>1, <1>3, <1>4, TabsFacts DEF Shaped, KillingTab, StartsInTab, Ensuring
<1>6. ~clash => Relies(x)
  <2>1. ~clash => \A t \in TabId : Contains(todo, t) \/ t \in proc[p].made =>
                      Contains(proc[p].plan, t) \/ (t \in Extra /\ InGroup(t))
    BY <1>1, <1>3, TabsFacts DEF Relies, Ensuring
  <2> QED BY <1>4, <2>1 DEF Relies, StartsInTab
<1>7. PICK y : y = x
  OBVIOUS
<1> QED BY <1>1, <1>4, <1>5, <1>6, <1>7, TabsFacts, QuietlyMoves

LEMMA EnsureRuntimeIsSafe ==
    ASSUME TabsSafe, NEW p \in Process, EnsureRuntime(p)
    PROVE  TabsShaped' /\ SafeAlone'
<1>1. proc[p].at = "ensure run" /\ proc[p].todo \in Seq(TabId) /\ proc[p].todo # <<>>
      /\ UNCHANGED <<group, panicked, clash, layout, commands>>
  <2>1. proc[p].todo \in Seq(TabId)
    BY TabsFacts DEF Shaped
  <2> QED BY <2>1 DEF EnsureRuntime, At, store, history
<1>2. CASE TroubleComes /\ Fail(p) /\ UNCHANGED <<alive, panicked, late>>
  BY <1>1, <1>2, TabsFacts, FailIsSafe
<1>3. CASE /\ Create(Head(proc[p].todo))
           /\ proc' = [proc EXCEPT ![p].todo = Tail(@), ![p].made = @ \cup {Head(proc[p].todo)}]
           /\ UNCHANGED <<lock, trouble, history>>
  <2> DEFINE h == Head(proc[p].todo)
             rest == Tail(proc[p].todo)
             x == [proc[p] EXCEPT !.todo = rest, !.made = @ \cup {h}]
  <2>1. h \in TabId /\ rest \in Seq(TabId) /\ Contains(proc[p].todo, h)
        /\ \A t : Contains(rest, t) => Contains(proc[p].todo, t)
    BY ONLY <1>1, HeadAndTail
  <2>2. /\ proc' = [proc EXCEPT ![p] = x] /\ alive' = alive \cup {h}
        /\ UNCHANGED <<lost, trouble>>
    BY <1>3 DEF Create, history
  <2> HIDE DEF h, rest
  <2>3. /\ x.plan = proc[p].plan /\ x.at = "ensure run" /\ x.todo = rest
        /\ x.made = proc[p].made \cup {h} /\ x.failed = proc[p].failed /\ x.op = proc[p].op
    BY <1>1, TabsFacts DEF TabsProc, TabsFields
  <2> HIDE DEF x
  <2>4. Shaped(x)
    BY <1>1, <2>1, <2>3, TabsFacts DEF Shaped, KillingTab, StartsInTab, Ensuring
  <2>5. \A t : InGroup(t)' <=> InGroup(t)
    BY <1>1 DEF InGroup
  <2>6. ~clash => \A t \in TabId : Contains(rest, t) \/ t \in proc[p].made \cup {h} =>
                      Contains(proc[p].plan, t) \/ (t \in Extra /\ InGroup(t)')
    BY <1>1, <2>1, <2>5, TabsFacts DEF Relies, Ensuring
  <2>7. PICK y : y = x
    OBVIOUS
  <2>8. ~clash => Relies(y)'
    BY <2>3, <2>6, <2>7 DEF Relies, StartsInTab, InGroup
  <2>9. ~clash => \A t \in alive' : \/ t \in y.made \/ InGroup(t)' \/ t \in lost'
                                    \/ \E q \in Process : q # p /\ t \in proc[q].made
    BY <2>2, <2>3, <2>5, <2>7 DEF TabsSafe, SafeAlone, Known
  <2>10. ~clash => ~panicked'
    BY <1>1 DEF TabsSafe, SafeAlone
  <2>11. SafeAlone' /\ \A q \in Process : Shaped(proc'[q])
    BY <1>1, <2>2, <2>3, <2>4, <2>5, <2>7, <2>8, <2>9, <2>10, ProcessMoves
  <2> QED BY <1>1, <2>1, <2>2, <2>11 DEF TabsSafe, TabsShaped
<1> QED BY <1>2, <1>3 DEF EnsureRuntime

LEMMA EnsureUpsertIsSafe ==
    ASSUME TabsSafe, NEW p \in Process, EnsureUpsert(p)
    PROVE  TabsShaped' /\ SafeAlone'
<1> DEFINE g == IF group = NoTab THEN EmptyGroup ELSE group
           n == reconcileGroup(proc[p].plan, g)
<1>1. g \in Group /\ IsInjective(g.tabs) /\ \A t : groupHasTab(g, t) <=> InGroup(t)
  BY CurrentGroup DEF TabsSafe
<1>2. /\ proc[p].at = "ensure run" /\ proc' = [proc EXCEPT ![p] = Idle] /\ group' = n
      /\ lost' = lost \cup {t \in alive : groupHasTab(g, t) /\ ~groupHasTab(n, t)}
      /\ UNCHANGED <<alive, panicked, clash, layout, commands, trouble>>
  BY DEF EnsureUpsert, Exit, At, terminals
<1>3. proc[p].plan \in Seq(TabId) /\ proc[p].plan # <<>> /\ IsInjective(proc[p].plan)
  BY <1>2, TabsFacts DEF Shaped, Ensuring
<1>4. group # NoTab => g.letter = group.letter
  OBVIOUS
<1> HIDE DEF g
<1>5. /\ n \in Group /\ IsInjective(n.tabs) /\ groupHasTab(n, n.active)
      /\ \A t : groupHasTab(n, t) <=> Contains(proc[p].plan, t) \/ (t \in Extra /\ groupHasTab(g, t))
      /\ n.letter = g.letter
  BY <1>1, <1>3, Reconciled
<1> HIDE DEF n
<1>6. n # NoTab
  BY <1>5, TabsNamesAssumption
<1>7. \A t : InGroup(t)' <=> groupHasTab(n, t)
  BY <1>2, <1>6 DEF InGroup
<1>8. \A t \in Extra : InGroup(t) => InGroup(t)'
  BY <1>1, <1>5, <1>7
<1>9. group # NoTab /\ group.letter # NoTab => group' # NoTab /\ group'.letter # NoTab
  BY <1>2, <1>4, <1>5, <1>6
<1>10. ~clash => \A t \in proc[p].made : InGroup(t)'
  <2>1. proc[p].made \subseteq TabId
    BY TabsFacts DEF Shaped
  <2> QED BY <1>1, <1>2, <1>5, <1>7, <2>1, TabsFacts DEF Relies, Ensuring
<1>11. ~clash => \A t \in alive' : \/ t \in Idle.made \/ InGroup(t)' \/ t \in lost'
                                   \/ \E q \in Process : q # p /\ t \in proc[q].made
  <2> SUFFICES ASSUME ~clash, NEW t \in alive, ~InGroup(t)', t \notin lost'
               PROVE  \E q \in Process : q # p /\ t \in proc[q].made
    BY <1>2
  <2>1. ~InGroup(t) /\ t \notin lost
    BY <1>1, <1>2, <1>7
  <2> QED BY <1>10, <2>1 DEF TabsSafe, SafeAlone, Known
<1>12. ~clash => Relies(Idle)' /\ ~panicked'
  BY <1>2, IdleIsSafe DEF Relies, Idle, Ensuring, StartsInTab, TabsSafe, SafeAlone
<1>13. SafeAlone' /\ \A q \in Process : Shaped(proc'[q])
  BY <1>2, <1>8, <1>9, <1>11, <1>12, IdleIsSafe, ProcessMoves
<1>14. lost' \subseteq TabId
  BY <1>2 DEF TabsSafe, TabsShaped
<1> QED BY <1>2, <1>5, <1>13, <1>14 DEF TabsSafe, TabsShaped

\* A record in another place.
LEMMA Placed ==
    ASSUME NEW r, TabsProc(r), NEW place
    PROVE  LET x == [r EXCEPT !.at = place]
           IN  /\ x.at = place /\ x.op = r.op /\ x.tab = r.tab /\ x.plan = r.plan
               /\ x.todo = r.todo /\ x.made = r.made /\ x.failed = r.failed
BY DEF TabsProc, TabsFields

\* EnsureTab: it is in a place of its own tab.
LEMMA EnsureTabIsSafe ==
    ASSUME TabsSafe, NEW p \in Process, EnsureTabGet(p) \/ EnsureTabList(p) \/ EnsureTabRuntime(p)
    PROVE  TabsShaped' /\ SafeAlone'
<1>1. CASE EnsureTabGet(p) \/ EnsureTabList(p)
  <2>1. UNCHANGED <<group, alive, lost, panicked, clash, layout, commands, trouble>>
    BY <1>1 DEF EnsureTabGet, EnsureTabList, store, terminals, history
  <2>2. proc[p].at \in {"tab get", "tab list"}
    BY <1>1 DEF EnsureTabGet, EnsureTabList, At
  <2>3. CASE Exit(p)
    BY <2>1, <2>2, <2>3, TabsFacts, QuietlyExits
  <2>4. ASSUME NEW place \in {"tab list", "tab update", "tab run"}, Goto(p, place)
        PROVE  TabsShaped' /\ SafeAlone'
    <3> DEFINE x == [proc[p] EXCEPT !.at = place]
    <3>0. /\ x.plan = proc[p].plan /\ x.at = place /\ x.todo = proc[p].todo /\ x.tab = proc[p].tab
          /\ x.made = proc[p].made /\ x.failed = proc[p].failed /\ x.op = proc[p].op
      BY TabsFacts, Placed
    <3> HIDE DEF x
    <3>1. Shaped(x)
      BY <2>2, <2>4, <3>0, TabsFacts DEF Shaped, Ensuring, KillingTab, StartsInTab
    <3>2. Relies(x)
      BY <2>2, <2>4, <3>0, TabsFacts DEF Relies, Ensuring, KillingTab, StartsInTab
    <3> QED BY <2>1, <2>2, <2>4, <3>1, <3>2, TabsFacts, QuietlyGoes DEF x
  <2> QED BY <1>1, <2>3, <2>4 DEF EnsureTabGet, EnsureTabList
<1>2. CASE EnsureTabRuntime(p)
  <2>1. UNCHANGED <<group, lost, panicked, clash, layout, commands>> /\ proc[p].at = "tab run"
    BY <1>2 DEF EnsureTabRuntime, store, history, At
  <2>2. CASE TroubleComes /\ Exit(p) /\ UNCHANGED alive
    BY <2>1, <2>2, TabsFacts, QuietlyExits
  <2>3. CASE /\ Create(proc[p].tab)
             /\ proc' = [proc EXCEPT ![p].at = "tab update", ![p].made = {proc[p].tab}]
             /\ UNCHANGED <<lock, trouble>>
    <3> DEFINE t == proc[p].tab
               x == [proc[p] EXCEPT !.at = "tab update", !.made = {t}]
    <3>1. t \in Extra /\ t \in TabId /\ proc[p].made = {}
      BY <2>1, TabsFacts DEF Shaped, StartsInTab, TabId
    <3>2. proc' = [proc EXCEPT ![p] = x] /\ alive' = alive \cup {t} /\ UNCHANGED trouble
      BY <2>3 DEF Create
    <3>3. /\ x.plan = proc[p].plan /\ x.at = "tab update" /\ x.todo = proc[p].todo /\ x.tab = t
          /\ x.made = {t} /\ x.failed = proc[p].failed /\ x.op = proc[p].op
      BY TabsFacts DEF TabsProc, TabsFields
    <3> HIDE DEF t, x
    <3>4. Shaped(x)
      BY <3>1, <3>3, TabsFacts DEF Shaped, KillingTab, StartsInTab, Ensuring
    <3>5. PICK y : y = x
      OBVIOUS
    <3>6. Relies(y)'
      BY <3>3, <3>5 DEF Relies, StartsInTab, Ensuring
    <3>7. \A u : InGroup(u)' <=> InGroup(u)
      BY <2>1 DEF InGroup
    <3>8. ~clash => \A u \in alive' : \/ u \in y.made \/ InGroup(u)' \/ u \in lost'
                                      \/ \E q \in Process : q # p /\ u \in proc[q].made
      BY <2>1, <3>1, <3>2, <3>3, <3>5, <3>7 DEF TabsSafe, SafeAlone, Known
    <3>9. ~clash => ~panicked'
      BY <2>1 DEF TabsSafe, SafeAlone
    <3>10. SafeAlone' /\ \A q \in Process : Shaped(proc'[q])
      BY <2>1, <3>2, <3>3, <3>4, <3>5, <3>6, <3>7, <3>8, <3>9, ProcessMoves
    <3> QED BY <2>1, <3>1, <3>2, <3>10 DEF TabsSafe, TabsShaped
  <2> QED BY <1>2, <2>2, <2>3 DEF EnsureTabRuntime
<1> QED BY <1>1, <1>2

\* The group that Update reads has the tab added, whatever it is by then.
LEMMA EnsureTabUpdateIsSafe ==
    ASSUME TabsSafe, NEW p \in Process, EnsureTabUpdate(p)
    PROVE  TabsShaped' /\ SafeAlone'
<1> DEFINE t == proc[p].tab
           n == [group EXCEPT !.tabs = IF Contains(@, t) THEN @ ELSE Append(@, t)]
<1>1. /\ proc[p].at = "tab update" /\ t \in Extra /\ t \in TabId /\ proc[p].made \subseteq {t}
      /\ UNCHANGED <<layout, alive, commands, trouble, clash, panicked>>
  BY TabsFacts DEF EnsureTabUpdate, At, terminals, Shaped, StartsInTab, TabId
<1>2. CASE group = NoTab /\ Fail(p) /\ UNCHANGED group
  BY <1>1, <1>2, TabsFacts, FailIsSafe
<1>3. CASE /\ group # NoTab /\ group' = n
           /\ IF proc[p].op = "start" THEN Goto(p, "start lock") /\ UNCHANGED lock ELSE Exit(p)
           /\ UNCHANGED lost
  <2>1. group \in Group /\ IsInjective(group.tabs) /\ groupHasTab(group, group.active)
    BY <1>3 DEF TabsSafe, TabsShaped
  <2>2. /\ n \in Group /\ IsInjective(n.tabs) /\ groupHasTab(n, n.active)
        /\ \A u : groupHasTab(n, u) <=> groupHasTab(group, u) \/ u = t
        /\ n.letter = group.letter
    BY <1>1, <2>1, TabAdded
  <2>3. n # NoTab
    BY <2>2, TabsNamesAssumption
  <2> HIDE DEF n
  <2>4. \A u : InGroup(u)' <=> InGroup(u) \/ u = t
    BY <1>3, <2>2, <2>3 DEF InGroup
  <2>5. \E x : /\ proc' = [proc EXCEPT ![p] = x] /\ Shaped(x) /\ Relies(x)'
               /\ x.at = "idle" \/ x.op = proc[p].op
    <3>1. CASE Exit(p)
      <4>1. Relies(Idle)'
        BY IdleIsSafe DEF Relies, Idle, Ensuring, StartsInTab
      <4> QED BY <3>1, <4>1, IdleIsSafe DEF Exit
    <3>2. CASE Goto(p, "start lock")
      <4> DEFINE x == [proc[p] EXCEPT !.at = "start lock"]
      <4>1. PICK y : y = x
        OBVIOUS
      <4>2. /\ x.plan = proc[p].plan /\ x.at = "start lock" /\ x.todo = proc[p].todo
            /\ x.tab = t /\ x.made = proc[p].made /\ x.failed = proc[p].failed /\ x.op = proc[p].op
        BY TabsFacts, Placed
      <4> HIDE DEF x
      <4>3. Shaped(y)
        BY <1>1, <4>1, <4>2, TabsFacts DEF Shaped, KillingTab, StartsInTab, Ensuring
      <4>4. Relies(y)'
        BY <1>1, <2>4, <4>1, <4>2 DEF Relies, StartsInTab, Ensuring
      <4>5. proc' = [proc EXCEPT ![p] = y]
        BY <3>2, <4>1 DEF Goto, x
      <4> QED BY <4>1, <4>2, <4>3, <4>4, <4>5
    <3> QED BY <1>3, <3>1, <3>2
  <2>6. PICK x : /\ proc' = [proc EXCEPT ![p] = x] /\ Shaped(x) /\ Relies(x)'
                 /\ x.at = "idle" \/ x.op = proc[p].op
    BY <2>5
  <2>7. ~clash => \A u \in alive' : \/ u \in x.made \/ InGroup(u)' \/ u \in lost'
                                    \/ \E q \in Process : q # p /\ u \in proc[q].made
    BY <1>1, <1>3, <2>4 DEF TabsSafe, SafeAlone, Known
  <2>8. ~clash => ~panicked'
    BY <1>1 DEF TabsSafe, SafeAlone
  <2>9. SafeAlone' /\ \A q \in Process : Shaped(proc'[q])
    BY <1>1, <1>3, <2>2, <2>3, <2>4, <2>6, <2>7, <2>8, ProcessMoves
  <2> QED BY <1>1, <1>3, <2>2, <2>9 DEF TabsSafe, TabsShaped
<1> HIDE DEF n
<1> QED BY <1>2, <1>3 DEF EnsureTabUpdate, n

\* A command goes on in a tab of its own: its record is as it was, but for the place.
LEMMA GoesOnSafely ==
    ASSUME TabsSafe, NEW p \in Process, NEW place, Goto(p, place), proc[p].at # "idle",
           UNCHANGED <<group, alive, lost, panicked, clash, layout, commands, trouble>>,
           \/ proc[p].at \in StartsInTab /\ place \in StartsInTab
           \/ proc[p].at \in {"send-once", "send prepare"} /\ place = "send prepare"
           \/ proc[p].at = "send" /\ place = "send mark"
           \/ proc[p].at = "kill-tab" /\ place = "tab kill get"
           \/ proc[p].at = "start-existing" /\ place = "start lock"
    PROVE  TabsShaped' /\ SafeAlone'
<1> DEFINE x == [proc[p] EXCEPT !.at = place]
<1>1. /\ x.plan = proc[p].plan /\ x.at = place /\ x.todo = proc[p].todo /\ x.tab = proc[p].tab
      /\ x.made = proc[p].made /\ x.failed = proc[p].failed /\ x.op = proc[p].op
  BY TabsFacts, Placed
<1> HIDE DEF x
<1>2. Shaped(x)
  BY <1>1, TabsFacts DEF Shaped, Ensuring, KillingTab, StartsInTab
<1>3. ~clash => Relies(x)
  BY <1>1, TabsFacts DEF Shaped, Relies, Ensuring, KillingTab, StartsInTab
<1> QED BY <1>2, <1>3, TabsFacts, QuietlyGoes DEF x

LEMMA LocksAreSafe ==
    ASSUME TabsSafe, NEW p \in Process,
           \/ withTerminalLock(p, "start lock", "start check")
           \/ withTerminalLock(p, "send-once", "send prepare")
           \/ withTerminalLock(p, "kill-tab", "tab kill get")
    PROVE  TabsShaped' /\ SafeAlone'
<1>1. UNCHANGED <<group, alive, lost, panicked, clash, layout, commands, trouble>>
  BY DEF withTerminalLock, store, terminals, history
<1> QED BY <1>1, GoesOnSafely DEF withTerminalLock, At, StartsInTab

LEMMA StartsAreSafe ==
    ASSUME TabsSafe, NEW p \in Process,
           \/ StartExistingCommand(p) \/ StartCheck(p) \/ StartShellCommand(p)
           \/ StartAccepted(p) \/ StartDeadline(p)
    PROVE  TabsShaped' /\ SafeAlone'
<1>1. UNCHANGED <<group, alive, lost, panicked, clash, layout, commands, trouble>>
  BY DEF StartExistingCommand, StartCheck, StartShellCommand, StartAccepted, StartDeadline,
     store, terminals, history
<1>2. proc[p].at \in {"start-existing", "start check", "start type", "start wait"}
  BY DEF StartExistingCommand, StartCheck, StartShellCommand, StartAccepted, StartDeadline, At
<1>3. CASE Exit(p)
  BY <1>1, <1>2, <1>3, TabsFacts, QuietlyExits
<1>4. CASE ~Exit(p)
  <2>1. PICK place \in StartsInTab : Goto(p, place)
    BY <1>4 DEF StartExistingCommand, StartCheck, StartShellCommand, StartAccepted,
       StartDeadline, StartsInTab
  <2>2. proc[p].at = "start-existing" => Goto(p, "start lock")
    BY <1>4 DEF StartExistingCommand, StartCheck, StartShellCommand, StartAccepted,
       StartDeadline, At
  <2>3. CASE proc[p].at = "start-existing"
    BY <1>1, <2>2, <2>3, GoesOnSafely
  <2>4. CASE proc[p].at # "start-existing"
    BY <1>1, <1>2, <2>1, <2>4, GoesOnSafely DEF StartsInTab
  <2> QED BY <2>3, <2>4
<1> QED BY <1>3, <1>4

LEMMA SendIsSafe ==
    ASSUME TabsSafe, NEW p \in Process, Send(p)
    PROVE  TabsShaped' /\ SafeAlone'
<1>1. UNCHANGED <<group, alive, lost, panicked, clash, layout, commands>> /\ proc[p].at = "send"
  BY DEF Send, At, store, terminals, history
<1>2. trouble' \in 0 .. MaxTrouble
  BY TabsFacts DEF Send
<1>3. CASE Exit(p)
  BY <1>1, <1>2, <1>3, TabsFacts, QuietlyExits
<1>4. CASE Goto(p, "send mark") /\ UNCHANGED <<lock, trouble>>
  BY <1>1, <1>4, GoesOnSafely
<1> QED BY <1>3, <1>4 DEF Send

\* A process goes on, or ends, with a group that has the same tabs.
LEMMA GroupRewritten ==
    ASSUME TabsSafe, NEW p \in Process, NEW x, proc' = [proc EXCEPT ![p] = x], Shaped(x),
           proc[p].at \notin {"idle", "ensure run", "tab update"},
           UNCHANGED <<alive, lost, panicked, clash, layout, commands, trouble>>,
           x.at = "idle" \/ x.op = proc[p].op, x.made = {}, ~clash => Relies(x)',
           group # NoTab, group' \in Group, group'.tabs = group.tabs, group'.active = group.active,
           group.letter # NoTab => group'.letter # NoTab
    PROVE  TabsShaped' /\ SafeAlone'
<1>1. group' # NoTab
  BY TabsNamesAssumption
<1>2. \A t : InGroup(t)' <=> InGroup(t)
  BY <1>1 DEF InGroup, groupHasTab
<1>3. ~clash => \A t \in proc[p].made : InGroup(t)
  BY DEF TabsSafe, TabsShaped, Shaped, SafeAlone, Relies
<1>4. ~clash => \A t \in alive' : \/ t \in x.made \/ InGroup(t)' \/ t \in lost'
                                  \/ \E q \in Process : q # p /\ t \in proc[q].made
  BY <1>2, <1>3 DEF TabsSafe, SafeAlone, Known
<1>5. ~clash => ~panicked'
  BY DEF TabsSafe, SafeAlone
<1>6. SafeAlone' /\ \A q \in Process : Shaped(proc'[q])
  BY <1>1, <1>2, <1>4, <1>5, ProcessMoves
<1>7. IsInjective(group'.tabs) /\ groupHasTab(group', group'.active)
  BY DEF TabsSafe, TabsShaped, groupHasTab
<1> QED BY <1>1, <1>6, <1>7 DEF TabsSafe, TabsShaped

LEMMA SendOncePrepareIsSafe ==
    ASSUME TabsSafe, NEW p \in Process, SendOncePrepare(p)
    PROVE  TabsShaped' /\ SafeAlone'
<1>1. UNCHANGED <<alive, lost, panicked, clash, layout, commands, trouble>>
      /\ proc[p].at = "send prepare"
  BY DEF SendOncePrepare, At, terminals, history
<1>2. CASE Exit(p) /\ UNCHANGED group
  BY <1>1, <1>2, TabsFacts, QuietlyExits
<1>3. CASE /\ group # NoTab /\ group.letter = NoTab
           /\ group' = [group EXCEPT !.letter = [tab |-> proc[p].tab, status |-> "prepared"]]
           /\ Goto(p, "send") /\ UNCHANGED lock
  <2> DEFINE x == [proc[p] EXCEPT !.at = "send"]
             d == [tab |-> proc[p].tab, status |-> "prepared"]
  <2>1. /\ x.plan = proc[p].plan /\ x.at = "send" /\ x.todo = proc[p].todo /\ x.tab = proc[p].tab
        /\ x.made = proc[p].made /\ x.failed = proc[p].failed /\ x.op = proc[p].op
    BY TabsFacts, Placed
  <2>2. PICK y : y = x
    OBVIOUS
  <2>3. proc' = [proc EXCEPT ![p] = y]
    BY <1>3, <2>2 DEF Goto
  <2> HIDE DEF x
  <2>4. d \in Delivery /\ d # NoTab
    <3>1. proc[p].tab \in TabId
      BY <1>1, TabsFacts DEF OnTab, UnderLock
    <3>2. d \in Delivery
      BY <3>1 DEF Delivery
    <3> HIDE DEF d
    <3> QED BY <3>2, TabsNamesAssumption
  <2>5. group \in Group
    BY <1>3 DEF TabsSafe, TabsShaped
  <2>6. group' = [group EXCEPT !.letter = d]
    BY <1>3
  <2> HIDE DEF d
  <2>7. group' = [tabs |-> group.tabs, active |-> group.active, letter |-> d]
    BY <2>5, <2>6, GroupRecord
  <2>8. group' \in Group /\ group' # NoTab
    <3>1. group' \in Group
      BY <2>4, <2>5, <2>7, GroupRecord DEF Group
    <3> QED BY <3>1, TabsNamesAssumption
  <2>9. group'.tabs = group.tabs /\ group'.active = group.active /\ group'.letter = d
    BY <2>7
  <2>10. y.made = {} /\ Shaped(y) /\ y.op = proc[p].op
    BY <1>1, <2>1, <2>2, TabsFacts DEF Shaped, Ensuring, KillingTab, StartsInTab
  <2>11. Relies(y)'
    BY <2>1, <2>2, <2>4, <2>8, <2>9 DEF Relies, Ensuring, StartsInTab
  <2> QED BY <1>1, <1>3, <2>3, <2>4, <2>8, <2>9, <2>10, <2>11, GroupRewritten
<1> QED BY <1>2, <1>3 DEF SendOncePrepare

\* As long as nobody closes beside it, the record of the delivery is there.
LEMMA SendOnceMarkIsSafe ==
    ASSUME TabsSafe, NEW p \in Process, SendOnceMark(p)
    PROVE  TabsShaped' /\ SafeAlone'
<1>1. /\ UNCHANGED <<alive, lost, clash, layout, commands, trouble>>
      /\ proc[p].at = "send mark" /\ proc' = [proc EXCEPT ![p] = Idle]
  BY DEF SendOnceMark, At, terminals, Exit
<1>2. ~clash => group # NoTab /\ group.letter # NoTab
  BY <1>1, TabsFacts DEF Relies
<1>3. ~clash => Relies(Idle)'
  BY IdleIsSafe DEF Relies, Idle, Ensuring, StartsInTab
<1>4. CASE group # NoTab /\ group.letter # NoTab
  <2>1. group' = [group EXCEPT !.letter.status = "sent"] /\ UNCHANGED panicked
    BY <1>4 DEF SendOnceMark
  <2>2. group \in Group /\ group.letter \in Delivery
    <3>1. group \in Group
      BY <1>4 DEF TabsSafe, TabsShaped
    <3> QED BY <1>4, <3>1, GroupRecord
  <2> DEFINE d == [group.letter EXCEPT !.status = "sent"]
  <2>3. d \in Delivery /\ d # NoTab
    <3>1. d \in Delivery
      BY <2>2 DEF Delivery
    <3> HIDE DEF d
    <3> QED BY <3>1, TabsNamesAssumption
  <2>4. group' = [group EXCEPT !.letter = d]
    BY <2>1
  <2> HIDE DEF d
  <2>5. group' = [tabs |-> group.tabs, active |-> group.active, letter |-> d]
    BY <2>2, <2>4, GroupRecord
  <2>6. group' \in Group
    BY <2>2, <2>3, <2>5, GroupRecord DEF Group
  <2>7. group'.tabs = group.tabs /\ group'.active = group.active /\ group'.letter = d
    BY <2>5
  <2> QED BY <1>1, <1>3, <1>4, <2>1, <2>3, <2>6, <2>7, IdleIsSafe, GroupRewritten
<1>5. CASE ~(group # NoTab /\ group.letter # NoTab)
  <2>1. UNCHANGED group /\ panicked' \in BOOLEAN /\ clash
    <3>1. panicked' = (panicked \/ group # NoTab) /\ UNCHANGED group
      BY <1>5 DEF SendOnceMark
    <3>2. panicked' \in BOOLEAN
      BY <3>1, Zenon
    <3>3. clash
      BY <1>2, <1>5
    <3> QED BY <3>1, <3>2, <3>3
  <2>2. \A q \in Process : Shaped(proc'[q])
    BY <1>1, IdleIsSafe DEF TabsSafe, TabsShaped, TabsInvariant, TerminalsTyped
  <2>3. TabsShaped'
    BY <1>1, <2>1, <2>2 DEF TabsSafe, TabsShaped
  <2> QED BY <1>1, <2>1, <2>3 DEF SafeAlone
<1> QED BY <1>4, <1>5

\* A command that closes has read the group; when no other runs, what it read is
\* what it finds in its next steps.
LEMMA KillGetsAreSafe ==
    ASSUME TabsSafe, NEW p \in Process, KillGet(p) \/ KillTabGet(p)
    PROVE  TabsShaped' /\ SafeAlone'
<1>1. UNCHANGED <<group, alive, lost, panicked, clash, layout, commands, trouble>>
  BY DEF KillGet, KillTabGet, store, terminals, history
<1>2. proc[p].at \in {"kill", "tab kill get"}
  BY DEF KillGet, KillTabGet, At
<1>3. CASE Exit(p)
  BY <1>1, <1>2, <1>3, TabsFacts, QuietlyExits
<1>4. ASSUME NEW place \in {"kill run", "tab kill"},
             proc' = [proc EXCEPT ![p].at = place, ![p].todo = group.tabs], group # NoTab,
             place = "kill run" => proc[p].at = "kill",
             place = "tab kill" => proc[p].at = "tab kill get" /\ groupHasTab(group, proc[p].tab)
      PROVE  TabsShaped' /\ SafeAlone'
  <2> DEFINE x == [proc[p] EXCEPT !.at = place, !.todo = group.tabs]
  <2>1. /\ x.plan = proc[p].plan /\ x.at = place /\ x.todo = group.tabs /\ x.tab = proc[p].tab
        /\ x.made = proc[p].made /\ x.failed = proc[p].failed /\ x.op = proc[p].op
    BY TabsFacts DEF TabsProc, TabsFields
  <2>2. PICK y : y = x
    OBVIOUS
  <2>3. proc' = [proc EXCEPT ![p] = y]
    BY <1>4, <2>2
  <2> HIDE DEF x
  <2>4. group.tabs \in Seq(TabId)
    BY <1>4, GroupRecord DEF TabsSafe, TabsShaped
  <2>5. Shaped(y) /\ y.made = {}
    BY <1>2, <1>4, <2>1, <2>2, <2>4, TabsFacts DEF Shaped, Ensuring, KillingTab, StartsInTab
  <2>6. Relies(y)
    BY <1>4, <2>1, <2>2 DEF Relies, Ensuring, StartsInTab, InGroup, groupHasTab
  <2>7. proc[p].made = {}
    BY <1>2, TabsFacts DEF Shaped, StartsInTab
  <2> QED BY <1>1, <1>2, <2>1, <2>2, <2>3, <2>5, <2>6, <2>7, TabsFacts, QuietlyMoves
<1>5. CASE KillGet(p) /\ ~Exit(p)
  BY <1>4, <1>5 DEF KillGet, At
<1>6. CASE KillTabGet(p) /\ ~Exit(p)
  BY <1>4, <1>6 DEF KillTabGet, At
<1> QED BY <1>3, <1>5, <1>6

\* The terminal of a tab that is being closed ends; the group is as it was.
LEMMA ClosesTerminal ==
    ASSUME TabsSafe, NEW p \in Process, NEW x, proc' = [proc EXCEPT ![p] = x], Shaped(x),
           proc[p].at \in {"kill run", "tab kill"}, NEW t, alive' = alive \ {t}, lost' = lost \ {t},
           UNCHANGED <<group, panicked, clash, layout, commands>>, trouble' \in 0 .. MaxTrouble,
           x.op = proc[p].op, ~clash => Relies(x)'
    PROVE  TabsShaped' /\ SafeAlone'
<1>1. closing(proc[p].op) /\ proc[p].made = {}
  BY TabsFacts DEF Shaped, KillingTab, StartsInTab, closing
<1>2. \A u : InGroup(u)' <=> InGroup(u)
  BY DEF InGroup
<1>3. ~clash => \A u \in alive' : \/ u \in x.made \/ InGroup(u)' \/ u \in lost'
                                  \/ \E q \in Process : q # p /\ u \in proc[q].made
  BY <1>1, <1>2 DEF TabsSafe, SafeAlone, Known
<1>4. ~clash => ~panicked'
  BY DEF TabsSafe, SafeAlone
<1>5. SafeAlone' /\ \A q \in Process : Shaped(proc'[q])
  BY <1>1, <1>3, <1>4, ProcessMoves
<1> QED BY <1>5 DEF TabsSafe, TabsShaped

LEMMA KillRuntimeIsSafe ==
    ASSUME TabsSafe, NEW p \in Process, KillRuntime(p)
    PROVE  TabsShaped' /\ SafeAlone'
<1>1. /\ UNCHANGED <<group, panicked, clash, layout, commands>> /\ proc[p].at = "kill run"
      /\ proc[p].todo \in Seq(TabId) /\ proc[p].todo # <<>>
  <2>1. proc[p].todo \in Seq(TabId)
    BY TabsFacts DEF Shaped
  <2> QED BY <2>1 DEF KillRuntime, At, store
<1> DEFINE h == Head(proc[p].todo)
           rest == Tail(proc[p].todo)
<1>2. /\ h \in TabId /\ rest \in Seq(TabId)
      /\ \A t : Contains(proc[p].todo, t) <=> t = h \/ Contains(rest, t)
  BY ONLY <1>1, HeadAndTail
<1>3. CASE /\ End(h) /\ proc' = [proc EXCEPT ![p].todo = Tail(@)] /\ UNCHANGED trouble
  <2> DEFINE x == [proc[p] EXCEPT !.todo = rest]
  <2>1. proc' = [proc EXCEPT ![p] = x] /\ alive' = alive \ {h} /\ lost' = lost \ {h}
    BY <1>3 DEF End
  <2>2. PICK y : y = x
    OBVIOUS
  <2> HIDE DEF h, rest
  <2>3. /\ x.plan = proc[p].plan /\ x.at = "kill run" /\ x.todo = rest /\ x.tab = proc[p].tab
        /\ x.made = proc[p].made /\ x.failed = proc[p].failed /\ x.op = proc[p].op
    BY <1>1, TabsFacts DEF TabsProc, TabsFields
  <2> HIDE DEF x
  <2>4. Shaped(y)
    BY <1>1, <1>2, <2>2, <2>3, TabsFacts DEF Shaped, Ensuring, KillingTab, StartsInTab
  <2>5. \A u : InGroup(u)' <=> InGroup(u)
    BY <1>1 DEF InGroup
  <2>6. ~clash => group # NoTab /\ (proc[p].failed
                     \/ \A t \in alive' : InGroup(t)' => Contains(rest, t))
    BY <1>1, <1>2, <2>1, <2>5, TabsFacts DEF Relies
  <2>7. ~clash => Relies(y)'
    BY <1>1, <2>2, <2>3, <2>6 DEF Relies, Ensuring, StartsInTab, InGroup
  <2> QED BY <1>1, <1>3, <2>1, <2>2, <2>3, <2>4, <2>7, TabsFacts, ClosesTerminal
<1>4. CASE /\ TroubleComes /\ proc' = [proc EXCEPT ![p].todo = Tail(@), ![p].failed = TRUE]
           /\ UNCHANGED <<terminals, lost, late>>
  <2> DEFINE x == [proc[p] EXCEPT !.todo = rest, !.failed = TRUE]
  <2>1. proc' = [proc EXCEPT ![p] = x] /\ UNCHANGED <<alive, lost>>
    BY <1>4 DEF terminals
  <2>2. PICK y : y = x
    OBVIOUS
  <2> HIDE DEF h, rest
  <2>3. /\ x.plan = proc[p].plan /\ x.at = "kill run" /\ x.todo = rest /\ x.tab = proc[p].tab
        /\ x.made = proc[p].made /\ x.failed = TRUE /\ x.op = proc[p].op
    BY <1>1, TabsFacts DEF TabsProc, TabsFields
  <2> HIDE DEF x
  <2>4. Shaped(y)
    BY <1>1, <1>2, <2>2, <2>3, TabsFacts DEF Shaped, Ensuring, KillingTab, StartsInTab
  <2>5. ~clash => Relies(y)
    BY <1>1, <2>2, <2>3, TabsFacts DEF Relies, Ensuring, StartsInTab
  <2> QED BY <1>1, <1>4, <2>1, <2>2, <2>3, <2>4, <2>5, TabsFacts, QuietlyMoves
<1> QED BY <1>3, <1>4 DEF KillRuntime

LEMMA KillTabRuntimeIsSafe ==
    ASSUME TabsSafe, NEW p \in Process, KillTabRuntime(p)
    PROVE  TabsShaped' /\ SafeAlone'
<1>1. UNCHANGED <<group, panicked, clash, layout, commands>> /\ proc[p].at = "tab kill"
  BY DEF KillTabRuntime, At, store
<1>2. CASE TroubleComes /\ Exit(p) /\ UNCHANGED <<terminals, lost, late>>
  BY <1>1, <1>2, TabsFacts, QuietlyExits DEF terminals
<1>3. CASE End(proc[p].tab) /\ Goto(p, "tab kill update") /\ UNCHANGED <<lock, trouble>>
  <2> DEFINE x == [proc[p] EXCEPT !.at = "tab kill update"]
  <2>1. /\ x.plan = proc[p].plan /\ x.at = "tab kill update" /\ x.todo = proc[p].todo
        /\ x.tab = proc[p].tab /\ x.made = proc[p].made /\ x.failed = proc[p].failed
        /\ x.op = proc[p].op
    BY TabsFacts, Placed
  <2>2. PICK y : y = x
    OBVIOUS
  <2>3. /\ proc' = [proc EXCEPT ![p] = y] /\ alive' = alive \ {proc[p].tab}
        /\ lost' = lost \ {proc[p].tab}
    BY <1>3, <2>2 DEF Goto, End
  <2> HIDE DEF x
  <2>4. Shaped(y)
    BY <1>1, <2>1, <2>2, TabsFacts DEF Shaped, Ensuring, KillingTab, StartsInTab
  <2>5. ~clash => Relies(y)'
    BY <1>1, <2>1, <2>2, <2>3, TabsFacts DEF Relies, Ensuring, StartsInTab
  <2> QED BY <1>1, <1>3, <2>1, <2>2, <2>3, <2>4, <2>5, TabsFacts, ClosesTerminal
<1> QED BY <1>2, <1>3 DEF KillTabRuntime

\* The last step of a command that closes: what still runs is in the group.
LEMMA ClosesGroup ==
    ASSUME TabsSafe, NEW p \in Process, Exit(p), proc[p].at \in {"kill run", "tab kill update"},
           UNCHANGED <<alive, lost, clash, layout, commands, trouble>>,
           group' # NoTab => /\ group' \in Group /\ IsInjective(group'.tabs)
                             /\ groupHasTab(group', group'.active),
           panicked' \in BOOLEAN, ~clash => ~panicked',
           ~clash => \A t \in alive : InGroup(t) => InGroup(t)'
    PROVE  TabsShaped' /\ SafeAlone'
<1>1. closing(proc[p].op) /\ proc[p].made = {}
  BY TabsFacts DEF Shaped, KillingTab, StartsInTab, closing
<1>2. proc' = [proc EXCEPT ![p] = Idle]
  BY DEF Exit
<1>3. ~clash => \A u \in alive' : \/ u \in Idle.made \/ InGroup(u)' \/ u \in lost'
                                  \/ \E q \in Process : q # p /\ u \in proc[q].made
  BY <1>1 DEF TabsSafe, SafeAlone, Known
<1>4. ~clash => Relies(Idle)'
  BY IdleIsSafe DEF Relies, Idle, Ensuring, StartsInTab
<1>5. SafeAlone' /\ \A q \in Process : Shaped(proc'[q])
  BY <1>1, <1>2, <1>3, <1>4, IdleIsSafe, ProcessMoves
<1> QED BY <1>5 DEF TabsSafe, TabsShaped

LEMMA KillDeleteIsSafe ==
    ASSUME TabsSafe, NEW p \in Process, KillDelete(p)
    PROVE  TabsShaped' /\ SafeAlone'
<1>1. /\ proc[p].at = "kill run" /\ proc[p].todo = <<>> /\ Exit(p)
      /\ group' = IF proc[p].failed THEN group ELSE NoTab
      /\ UNCHANGED <<alive, lost, clash, layout, commands, trouble, panicked>>
  BY DEF KillDelete, At, terminals, history
<1>2. \A t : ~Contains(proc[p].todo, t)
  <2>1. \A t : ~Contains(<<>>, t)
    BY DEF Contains
  <2> QED BY <1>1, <2>1
<1>3. proc[p].failed \in BOOLEAN
  BY TabsFacts DEF Shaped
<1>4. ~clash => \A t \in alive : InGroup(t) => InGroup(t)'
  BY <1>1, <1>2, <1>3, TabsFacts DEF Relies, InGroup
<1>5. group' # NoTab => group' = group
  BY <1>1
<1>6. group' # NoTab => /\ group' \in Group /\ IsInjective(group'.tabs)
                        /\ groupHasTab(group', group'.active)
  BY <1>5 DEF TabsSafe, TabsShaped
<1>7. panicked' \in BOOLEAN /\ (~clash => ~panicked')
  BY <1>1 DEF TabsSafe, TabsShaped, SafeAlone
<1> QED BY <1>1, <1>4, <1>6, <1>7, ClosesGroup

\* When the command is alone, the group it rewrites is the one it has read.
LEMMA KillTabUpdateIsSafe ==
    ASSUME TabsSafe, NEW p \in Process, KillTabUpdate(p)
    PROVE  TabsShaped' /\ SafeAlone'
<1> DEFINE t == proc[p].tab
           outOfRange == group.tabs = <<t>> /\ group.active = t
<1>1. /\ proc[p].at = "tab kill update" /\ Exit(p) /\ t \in TabId
      /\ UNCHANGED <<alive, lost, clash, layout, commands, trouble>>
  BY TabsFacts DEF KillTabUpdate, At, terminals, OnTab, UnderLock
<1>2. ~clash => /\ group # NoTab /\ proc[p].todo = group.tabs /\ groupHasTab(group, t)
                /\ t \notin alive
  BY <1>1, TabsFacts DEF Relies
<1>3. panicked \in BOOLEAN /\ (~clash => ~panicked)
  BY DEF TabsSafe, TabsShaped, SafeAlone
<1>4. group # NoTab => /\ group \in Group /\ IsInjective(group.tabs)
                       /\ groupHasTab(group, group.active)
  BY DEF TabsSafe, TabsShaped
<1>5. CASE Len(proc[p].todo) = 1 /\ group' = NoTab /\ UNCHANGED panicked
  <2>1. ~clash => \A u \in alive : ~InGroup(u)
    <3> SUFFICES ASSUME ~clash, NEW u \in alive, InGroup(u) PROVE FALSE
      OBVIOUS
    <3>1. Len(group.tabs) = 1 /\ Contains(group.tabs, t) /\ Contains(group.tabs, u)
      BY <1>2, <1>5 DEF groupHasTab, InGroup
    <3>2. \A i \in 1 .. 1 : i = 1
      OBVIOUS
    <3>3. u = t
      BY <3>1, <3>2 DEF Contains
    <3> QED BY <1>2, <3>3
  <2> QED BY <1>1, <1>3, <1>5, <2>1, ClosesGroup
<1>6. CASE UNCHANGED <<group, panicked>>
  BY <1>1, <1>3, <1>4, <1>6, ClosesGroup DEF InGroup
<1>7. CASE /\ Len(proc[p].todo) # 1 /\ group # NoTab /\ groupHasTab(group, t)
           /\ panicked' = (panicked \/ outOfRange)
           /\ group' = IF outOfRange THEN group ELSE withoutTab(group, t)
  <2>1. clash \/ ~outOfRange
    <3> SUFFICES ASSUME ~clash, outOfRange PROVE FALSE
      OBVIOUS
    <3>1. proc[p].todo = <<t>>
      BY <1>2
    <3> QED BY <1>7, <3>1
  <2>2. panicked' \in BOOLEAN
    BY <1>7, Zenon
  <2>3. ~clash => ~panicked'
    BY <1>3, <1>7, <2>1
  <2>4. CASE outOfRange
    BY <1>1, <1>4, <1>7, <2>1, <2>2, <2>4, ClosesGroup
  <2>5. CASE ~outOfRange
    <3>1. group' = withoutTab(group, t)
      BY <1>7, <2>5
    <3>2. /\ group' \in Group /\ IsInjective(group'.tabs) /\ groupHasTab(group', group'.active)
          /\ \A u : groupHasTab(group, u) => u = t \/ groupHasTab(group', u)
      <4> DEFINE n == withoutTab(group, t)
      <4>1. /\ group \in Group /\ IsInjective(group.tabs) /\ groupHasTab(group, group.active)
            /\ t \in TabId /\ groupHasTab(group, t) /\ ~(group.tabs = <<t>> /\ group.active = t)
        BY <1>1, <1>4, <1>7, <2>5
      <4> HIDE DEF t
      <4>2. /\ n \in Group /\ IsInjective(n.tabs) /\ groupHasTab(n, n.active)
            /\ \A u : groupHasTab(group, u) => u = t \/ groupHasTab(n, u)
        BY ONLY <4>1, TabTakenOut
      <4>3. group' = n
        BY <3>1
      <4> HIDE DEF n
      <4>4. PICK m : m = n
        OBVIOUS
      <4>5. /\ m \in Group /\ IsInjective(m.tabs) /\ groupHasTab(m, m.active)
            /\ \A u : groupHasTab(group, u) => u = t \/ groupHasTab(m, u)
        BY <4>2, <4>4
      <4> QED BY <4>3, <4>4, <4>5
    <3>3. group' # NoTab
      BY <3>2, TabsNamesAssumption
    <3>4. ~clash => \A u \in alive : InGroup(u) => InGroup(u)'
      BY <1>2, <3>2, <3>3 DEF InGroup
    <3> QED BY <1>1, <2>2, <2>3, <3>2, <3>4, ClosesGroup
  <2> QED BY <2>4, <2>5
<1> QED BY <1>5, <1>6, <1>7 DEF KillTabUpdate

LEMMA BelowBound == \A m, c \in Nat : c < m => c + 1 \in 0 .. m
OBVIOUS

LEMMA NothingListed == <<>> \in Seq(TabId) /\ \A u : ~Contains(<<>>, u)
BY DEF Contains

\* A command begins.  Beside one that closes, or as one that closes beside others,
\* it is a clash.
LEMMA BeginIsSafe ==
    ASSUME TabsSafe, NEW p \in Process, NEW op, NEW t, NEW place, Begin(p, op, t, place),
           place \notin {"idle", "tab list", "tab run", "tab update", "send", "send mark", "kill run",
                         "tab kill get", "tab kill", "tab kill update"} \cup Ensuring \cup StartsInTab,
           place = "tab get" => t \in Extra,
           place = "kill" => op = "kill", place = "kill-tab" => op = "kill-tab"
    PROVE  TabsShaped' /\ SafeAlone'
<1> DEFINE x == [Idle EXCEPT !.op = op, !.tab = t, !.at = place]
<1>1. /\ x.op = op /\ x.tab = t /\ x.at = place /\ x.plan = <<>> /\ x.todo = <<>> /\ x.made = {}
      /\ x.failed = FALSE
  BY DEF Idle
<1>2. /\ proc[p].at = "idle" /\ proc' = [proc EXCEPT ![p] = x] /\ commands' = commands + 1
      /\ commands < MaxCommands /\ UNCHANGED <<layout, group, alive, lost, panicked, trouble>>
      /\ clash' = (clash \/ \E q \in Process :
                      proc[q].at # "idle" /\ (closing(op) \/ closing(proc[q].op)))
  BY DEF Begin, At, store, terminals, history
<1> HIDE DEF x
<1>3. commands' \in 0 .. MaxCommands
  <2>1. commands \in 0 .. MaxCommands /\ MaxCommands \in Nat
    BY TabsAssumption DEF TabsSafe, TabsShaped
  <2>2. commands \in Nat /\ commands < MaxCommands /\ commands' = commands + 1
    BY ONLY <1>2, <2>1
  <2> QED BY ONLY <2>1, <2>2, BelowBound
<1>4. PICK y : y = x
  OBVIOUS
<1>5. Shaped(y) /\ Relies(y)
  <2>1. Relies(y)
    BY <1>1, <1>4, NothingListed DEF Relies
  <2>2. <<>> \in Seq(TabId) /\ {} \in SUBSET TabId
    BY ONLY NothingListed
  <2>3. place \notin Ensuring \cup StartsInTab /\ (place \in KillingTab => place = "kill-tab")
    BY DEF KillingTab
  <2> HIDE DEF KillingTab, Ensuring, StartsInTab
  <2>4. Shaped(y)
    BY <1>1, <1>4, <2>2, <2>3 DEF Shaped
  <2> QED BY <2>1, <2>4
<1>6. \A q \in Process : proc'[q] = IF q = p THEN y ELSE proc[q]
  BY <1>2, <1>4 DEF TabsSafe, TabsInvariant, TerminalsTyped
<1>7. \A q \in Process : Shaped(proc'[q])
  BY <1>5, <1>6 DEF TabsSafe, TabsShaped
<1>8. clash' \in BOOLEAN
  BY <1>2, Zenon
<1>9. TabsShaped'
  BY <1>2, <1>3, <1>7, <1>8 DEF TabsSafe, TabsShaped
<1>10. SUFFICES ASSUME ~clash'
                PROVE  ClosersAlone' /\ (\A q \in Process : Relies(proc[q]))' /\ ~panicked' /\ Known'
  BY <1>9 DEF SafeAlone
<1>11. /\ ~clash
       /\ \A q \in Process : proc[q].at # "idle" => ~closing(op) /\ ~closing(proc[q].op)
  BY <1>2, <1>10
<1>12. ClosersAlone /\ (\A q \in Process : Relies(proc[q])) /\ ~panicked /\ Known
  BY <1>11 DEF TabsSafe, SafeAlone
<1>13. ClosersAlone'
  <2> SUFFICES ASSUME NEW q \in Process, NEW r \in Process, q # r,
                      closing(proc'[q].op), proc'[q].at # "idle"
               PROVE  proc'[r].at = "idle"
    BY DEF ClosersAlone
  <2>1. y.op = op
    BY <1>1, <1>4
  <2> QED BY <1>6, <1>11, <1>12, <2>1 DEF ClosersAlone
<1>14. ASSUME NEW q \in Process PROVE Relies(proc[q])'
  <2>1. PICK r : r = proc'[q]
    OBVIOUS
  <2>2. Relies(r)
    BY <1>5, <1>6, <1>12, <2>1
  <2> QED BY <1>2, <2>1, <2>2 DEF Relies, InGroup
<1>15. Known'
  <2> SUFFICES ASSUME NEW u \in alive, ~InGroup(u), u \notin lost
               PROVE  \E q \in Process : u \in proc'[q].made
    BY <1>2 DEF Known, InGroup
  <2>1. PICK q \in Process : u \in proc[q].made
    BY <1>12 DEF Known
  <2>2. proc[p].made = {}
    BY <1>2, TabsFacts DEF Shaped, StartsInTab
  <2>3. q # p
    BY <2>1, <2>2
  <2> QED BY <1>6, <2>1, <2>3
<1> QED BY <1>2, <1>12, <1>13, <1>14, <1>15

LEMMA BeginsAreSafe ==
    ASSUME TabsSafe, NEW p \in Process,
           BeginGroupCommand(p) \/ BeginTabCommand(p) \/ BeginTerminalCommand(p)
    PROVE  TabsShaped' /\ SafeAlone'
<1>1. ASSUME NEW op \in {"ensure", "kill"}, Begin(p, op, NoTab, op)
      PROVE  TabsShaped' /\ SafeAlone'
  <2>1. op \notin {"idle", "tab list", "tab run", "tab update", "send", "send mark", "kill run",
                   "tab kill get", "tab kill", "tab kill update"} \cup Ensuring \cup StartsInTab
        /\ op # "tab get" /\ op # "kill-tab"
    BY DEF Ensuring, StartsInTab
  <2> QED BY <1>1, <2>1, BeginIsSafe
<1>2. ASSUME NEW t \in Extra, NEW op \in {"ensure-tab", "start"}, Begin(p, op, t, "tab get")
      PROVE  TabsShaped' /\ SafeAlone'
  <2>1. "tab get" \notin {"idle", "tab list", "tab run", "tab update", "send", "send mark", "kill run",
                   "tab kill get", "tab kill", "tab kill update"} \cup Ensuring \cup StartsInTab
    BY DEF Ensuring, StartsInTab
  <2> QED BY <1>2, <2>1, BeginIsSafe
<1>3. ASSUME NEW t \in TabId, NEW op \in {"start-existing", "send-once", "kill-tab"},
             Begin(p, op, t, op)
      PROVE  TabsShaped' /\ SafeAlone'
  <2>1. op \notin {"idle", "tab list", "tab run", "tab update", "send", "send mark", "kill run",
                   "tab kill get", "tab kill", "tab kill update"} \cup Ensuring \cup StartsInTab
        /\ op # "tab get" /\ op # "kill"
    BY DEF Ensuring, StartsInTab
  <2> QED BY <1>3, <2>1, BeginIsSafe
<1> QED BY <1>1, <1>2, <1>3 DEF BeginGroupCommand, BeginTabCommand, BeginTerminalCommand

LEMMA TabCommandIsSafe ==
    ASSUME TabsSafe, NEW p \in Process, TabCommand(p)
    PROVE  TabsShaped' /\ SafeAlone'
<1>1. CASE EnsureGet(p) \/ EnsureList(p) \/ EnsureRuntime(p) \/ EnsureUpsert(p)
  BY <1>1, EnsureGetIsSafe, EnsureListIsSafe, EnsureRuntimeIsSafe, EnsureUpsertIsSafe
<1>2. CASE EnsureTabGet(p) \/ EnsureTabList(p) \/ EnsureTabRuntime(p) \/ EnsureTabUpdate(p)
  BY <1>2, EnsureTabIsSafe, EnsureTabUpdateIsSafe
<1>3. CASE \/ withTerminalLock(p, "start lock", "start check")
           \/ withTerminalLock(p, "send-once", "send prepare")
           \/ withTerminalLock(p, "kill-tab", "tab kill get")
  BY <1>3, LocksAreSafe
<1>4. CASE \/ StartExistingCommand(p) \/ StartCheck(p) \/ StartShellCommand(p)
           \/ StartAccepted(p) \/ StartDeadline(p)
  BY <1>4, StartsAreSafe
<1>5. CASE SendOncePrepare(p) \/ Send(p) \/ SendOnceMark(p)
  BY <1>5, SendOncePrepareIsSafe, SendIsSafe, SendOnceMarkIsSafe
<1>6. CASE \/ KillGet(p) \/ KillRuntime(p) \/ KillDelete(p)
           \/ KillTabGet(p) \/ KillTabRuntime(p) \/ KillTabUpdate(p)
  BY <1>6, KillGetsAreSafe, KillRuntimeIsSafe, KillDeleteIsSafe, KillTabRuntimeIsSafe,
     KillTabUpdateIsSafe
<1> QED BY <1>1, <1>2, <1>3, <1>4, <1>5, <1>6 DEF TabCommand

\* Terminals that end, and what neither creates terminals nor touches the tabs of
\* the group.
LEMMA OthersAreSafe ==
    ASSUME TabsSafe, UNCHANGED <<proc, clash, panicked, commands>>, layout' \in Layouts,
           trouble' \in 0 .. MaxTrouble, NEW S, alive' = alive \ S, lost' = lost \ S,
           \/ UNCHANGED group
           \/ \E t \in TabId : /\ group # NoTab /\ groupHasTab(group, t)
                               /\ S = {} /\ group' = [group EXCEPT !.active = t]

    PROVE  TabsShaped' /\ SafeAlone'
<1>1. /\ group' # NoTab <=> group # NoTab
      /\ group # NoTab => /\ group'.tabs = group.tabs /\ group'.letter = group.letter
                          /\ group' \in Group /\ groupHasTab(group', group'.active)
  <2>1. CASE UNCHANGED group
    BY <2>1 DEF TabsSafe, TabsShaped
  <2>2. CASE group' # group
    <3>1. PICK t \in TabId : /\ group # NoTab /\ groupHasTab(group, t)
                             /\ group' = [group EXCEPT !.active = t]
      BY <2>2
    <3>2. group \in Group
      BY <3>1 DEF TabsSafe, TabsShaped
    <3>3. group' = [tabs |-> group.tabs, active |-> t, letter |-> group.letter]
          /\ group.tabs \in Seq(TabId) /\ group.letter \in Delivery \cup {NoTab}
      BY <3>1, <3>2, GroupRecord
    <3>4. group' \in Group
      BY <3>3 DEF Group
    <3> QED BY <3>1, <3>3, <3>4, TabsNamesAssumption DEF groupHasTab
  <2> QED BY <2>1, <2>2
<1>2. \A t : InGroup(t)' <=> InGroup(t)
  BY <1>1 DEF InGroup, groupHasTab
<1>3. TabsShaped'
  BY <1>1 DEF TabsSafe, TabsShaped
<1>4. SUFFICES ASSUME ~clash
               PROVE  ClosersAlone' /\ (\A q \in Process : Relies(proc[q]))' /\ ~panicked' /\ Known'
  BY <1>3 DEF SafeAlone
<1>5. ClosersAlone /\ (\A q \in Process : Relies(proc[q])) /\ ~panicked /\ Known
  BY <1>4 DEF TabsSafe, SafeAlone
<1>6. ASSUME NEW q \in Process PROVE Relies(proc[q])'
  <2>1. PICK r : r = proc[q]
    OBVIOUS
  <2>2. Relies(r) /\ proc'[q] = r
    BY <1>5, <2>1
  <2> QED BY <1>1, <1>2, <2>2 DEF Relies, groupHasTab
<1>7. Known'
  BY <1>2, <1>5 DEF Known
<1>8. ClosersAlone'
  BY <1>5 DEF ClosersAlone
<1> QED BY <1>5, <1>6, <1>7, <1>8

LEMMA TabsStepIsSafe == TabsSafe /\ [TabsNext]_tabsVars => TabsShaped' /\ SafeAlone'
<1> SUFFICES ASSUME TabsSafe, [TabsNext]_tabsVars PROVE TabsShaped' /\ SafeAlone'
  OBVIOUS
<1>1. /\ layout \in Layouts /\ trouble \in 0 .. MaxTrouble /\ commands \in 0 .. MaxCommands
      /\ TroubleComes => trouble' \in 0 .. MaxTrouble
  BY TabsAssumption DEF TabsSafe, TabsShaped, TroubleComes
<1>2. ASSUME NEW p \in Process,
             BeginGroupCommand(p) \/ BeginTabCommand(p) \/ BeginTerminalCommand(p)
      PROVE  TabsShaped' /\ SafeAlone'
  BY <1>2, BeginsAreSafe
<1>3. ASSUME NEW p \in Process, TabCommand(p) PROVE TabsShaped' /\ SafeAlone'
  BY <1>3, TabCommandIsSafe
<1>4. ASSUME NEW p \in Process, ProcessKilled(p) PROVE TabsShaped' /\ SafeAlone'
  BY <1>1, <1>4, FailIsSafe DEF ProcessKilled, At, store, terminals
<1>5. ASSUME NEW t \in TabId, Activate(t) PROVE TabsShaped' /\ SafeAlone'
  <2>1. alive' = alive \ {} /\ lost' = lost \ {}
    BY <1>5 DEF Activate, terminals, history
  <2> QED BY <1>1, <1>5, <2>1, OthersAreSafe DEF Activate, history
<1>6. ASSUME NEW t \in TabId, ShellReads(t) \/ ProgramEnds(t) \/ UserRuns(t)
      PROVE  TabsShaped' /\ SafeAlone'
  <2>1. /\ alive' = alive \ {} /\ lost' = lost \ {} /\ trouble' \in 0 .. MaxTrouble
        /\ UNCHANGED <<layout, group, proc, clash, panicked, commands>>
    BY <1>1, <1>6 DEF ShellReads, ProgramEnds, UserRuns, store, history
  <2> QED BY <1>1, <2>1, OthersAreSafe
<1>7. ASSUME NEW t \in TabId, TerminalEnds(t) PROVE TabsShaped' /\ SafeAlone'
  <2>1. /\ alive' = alive \ {t} /\ lost' = lost \ {t}
        /\ UNCHANGED <<layout, group, proc, clash, panicked, commands, trouble>>
    BY <1>7 DEF TerminalEnds, End, store
  <2> QED BY <1>1, <2>1, OthersAreSafe
<1>8. CASE LayoutChanges
  <2>1. /\ alive' = alive \ {} /\ lost' = lost \ {} /\ trouble' \in 0 .. MaxTrouble
        /\ layout' \in Layouts /\ UNCHANGED <<group, proc, clash, panicked, commands>>
    BY <1>1, <1>8 DEF LayoutChanges, terminals, history
  <2> QED BY <2>1, OthersAreSafe
<1>9. CASE UNCHANGED tabsVars
  <2>1. /\ alive' = alive \ {} /\ lost' = lost \ {}
        /\ UNCHANGED <<layout, group, proc, clash, panicked, commands, trouble>>
    BY <1>9 DEF tabsVars
  <2> QED BY <1>1, <2>1, OthersAreSafe
<1> QED BY <1>2, <1>3, <1>4, <1>5, <1>6, <1>7, <1>8, <1>9 DEF TabsNext

LEMMA TabsSafeInit == TabsInit => TabsShaped /\ SafeAlone
<1> SUFFICES ASSUME TabsInit PROVE TabsShaped /\ SafeAlone
  OBVIOUS
<1>1. \A p \in Process : proc[p] = Idle
  BY DEF TabsInit
<1>2. \A p \in Process : Shaped(proc[p]) /\ Relies(proc[p])
  BY <1>1, IdleIsSafe
<1>3. 0 \in 0 .. MaxCommands /\ 0 \in 0 .. MaxTrouble
  BY TabsAssumption
<1>4. TabsShaped
  BY <1>2, <1>3 DEF TabsInit, TabsShaped
<1>5. ClosersAlone
  BY <1>1 DEF ClosersAlone, Idle
<1>6. ~panicked /\ Known
  BY DEF TabsInit, Known
<1> QED BY <1>2, <1>4, <1>5, <1>6 DEF SafeAlone

\* The invariant of the groups and their terminals (Manager.Ensure, EnsureTab,
\* SendOnce, Kill, KillTab): what is well formed whatever runs beside what, and what
\* a command that closes alone can rely on.
THEOREM TabsStaySafe == TabsSpec => []TabsSafe
<1>1. TabsInvariant /\ TabsShaped /\ SafeAlone /\ [TabsNext]_tabsVars => (TabsShaped /\ SafeAlone)'
  BY TabsStepIsSafe DEF TabsSafe
<1>2. TabsSafe <=> TabsInvariant /\ TabsShaped /\ SafeAlone
  BY DEF TabsSafe
<1> QED BY <1>1, <1>2, TabsSafeInit, TabsInvariantHolds, PTL DEF TabsSpec

\* However commands, deaths and failures interleave: while no Kill or KillTab runs
\* beside another command, nothing panics and no terminal is forgotten.
THEOREM ClosingAlone == TabsSpec => []ClosingAloneIsSafe
<1>1. TabsSafe => ClosingAloneIsSafe
  BY DEF TabsSafe, SafeAlone, Known, InGroup, ClosingAloneIsSafe
<1> QED BY <1>1, TabsStaySafe, PTL

\* Every variable has its type, no group has a tab twice and the active tab of a
\* group is one of its tabs, whatever runs beside what (reconcileGroup, KillTab).
THEOREM TabsTypeCorrect == TabsSpec => []TabsTypeOK
<1>1. TabsSafe => TabsTypeOK
  BY DEF TabsSafe, TabsInvariant, TabsShaped, TerminalsTyped, TabsTypeOK, Group
<1> QED BY <1>1, TabsStaySafe, PTL

-----------------------------------------------------------------------------
Pieces == OwnWork \cup ForeignWork

\* The pieces that a stash holds.
HeldIn(s) == UNION {s[i] : i \in DOMAIN s}

AdoptFields == {"at", "move", "create", "ref", "index", "held"}
AdoptPlaces == {"begin", "free", "stash", "name", "detach", "add again", "pop",
                 "pop entry", "ended"}

\* The shape of the variables that hold work, and of the command.
WorkTyped ==
    /\ primaryWork \in SUBSET Pieces /\ treeWork \in SUBSET Pieces
    /\ otherWork \in SUBSET Pieces /\ stashed \in Seq(SUBSET Pieces)
    /\ adopt = [k \in AdoptFields |-> adopt[k]] /\ adopt.at \in AdoptPlaces
    /\ adopt.ref \in SUBSET Pieces /\ adopt.held \in SUBSET Pieces

\* What the command has seen of the work it moves, as long as nobody else touched
\* it: the work in the primary, then the entry on top of the stash, then the
\* entry it named, and where it found that.
WorkFollowed ==
    /\ adopt.at # "ended" => treeWork = {}
    /\ adopt.at \in {"begin", "free", "stash", "name"} => adopt.ref = NoStash
    /\ adopt.at = "stash" => raced \/ (primaryWork = adopt.held /\ primaryWork # {})
    /\ adopt.at = "name" => raced \/ (stashed # <<>> /\ Head(stashed) = adopt.held)
    /\ raced \/ adopt.ref \subseteq adopt.held
    /\ adopt.at = "pop entry" =>
         raced \/ (adopt.index \in DOMAIN stashed => stashed[adopt.index] = adopt.ref)
    /\ raced \/ treeWork \subseteq adopt.held

\* What the command knows of the work that is moved.
AdoptInvariant == WorkTyped /\ WorkFollowed

\* An entry pushed to a stash is held by it with the rest.
LEMMA PushHolds ==
    ASSUME NEW S, NEW s \in Seq(S), NEW x \in S
    PROVE  /\ <<x>> \o s \in Seq(S) /\ <<x>> \o s # <<>> /\ Head(<<x>> \o s) = x
           /\ HeldIn(<<x>> \o s) = x \cup HeldIn(s)
<1> DEFINE t == <<x>> \o s
<1>1. t \in Seq(S) /\ Len(t) = Len(s) + 1 /\ t # <<>> /\ Head(t) = x
  OBVIOUS
<1>2. t[1] = x /\ \A i \in 1 .. Len(s) : t[i + 1] = s[i]
  OBVIOUS
<1>3. DOMAIN s = 1 .. Len(s) /\ Len(s) \in Nat
  OBVIOUS
<1>4. DOMAIN t = 1 .. Len(s) + 1
  BY <1>1
<1> HIDE DEF t
<1>5. HeldIn(t) \subseteq x \cup HeldIn(s)
  <2> SUFFICES ASSUME NEW i \in 1 .. Len(s) + 1, NEW e \in t[i]
               PROVE  e \in x \cup HeldIn(s)
    BY <1>4 DEF HeldIn
  <2>1. CASE i = 1
    BY <2>1, <1>2
  <2>2. CASE i # 1
    <3>1. i - 1 \in 1 .. Len(s) /\ t[(i - 1) + 1] = s[i - 1] /\ (i - 1) + 1 = i
      BY <2>2, <1>2, <1>3
    <3> QED BY <3>1, <1>3 DEF HeldIn
  <2> QED BY <2>1, <2>2
<1>6. x \cup HeldIn(s) \subseteq HeldIn(t)
  <2>1. x \subseteq HeldIn(t)
    BY <1>2, <1>3, <1>4 DEF HeldIn
  <2>2. ASSUME NEW i \in DOMAIN s, NEW e \in s[i] PROVE e \in HeldIn(t)
    <3>1. i + 1 \in DOMAIN t /\ t[i + 1] = s[i]
      BY <1>2, <1>3, <1>4
    <3> QED BY <3>1, <2>2 DEF HeldIn
  <2> QED BY <2>1, <2>2 DEF HeldIn
<1>7. t \in Seq(S) /\ t # <<>> /\ Head(t) = x /\ HeldIn(t) = x \cup HeldIn(s)
  BY <1>1, <1>5, <1>6
<1> QED BY <1>7 DEF t

\* What is popped is what the stash no longer holds.
LEMMA PopHolds ==
    ASSUME NEW S, NEW s \in Seq(S), NEW k \in DOMAIN s
    PROVE  /\ RemoveAt(s, k) \in Seq(S)
           /\ HeldIn(RemoveAt(s, k)) \cup s[k] = HeldIn(s)
<1> DEFINE n == Len(s)
           t == RemoveAt(s, k)
<1>1. n \in Nat /\ DOMAIN s = 1 .. n /\ k \in 1 .. n
  OBVIOUS
<1>2. SubSeq(s, 1, k - 1) \in Seq(S) /\ Len(SubSeq(s, 1, k - 1)) = k - 1
  BY <1>1
<1>3. SubSeq(s, k + 1, n) \in Seq(S) /\ Len(SubSeq(s, k + 1, n)) = n - k
  BY <1>1
<1>4. t \in Seq(S) /\ DOMAIN t = 1 .. n - 1
  BY <1>1, <1>2, <1>3 DEF RemoveAt
<1>5. \A i \in 1 .. n - 1 : t[i] = IF i < k THEN s[i] ELSE s[i + 1]
  <2> TAKE i \in 1 .. n - 1
  <2>1. CASE i < k
    BY <2>1, <1>1, <1>2, <1>3 DEF RemoveAt
  <2>2. CASE ~(i < k)
    <3>1. t[i] = SubSeq(s, k + 1, n)[i - (k - 1)]
      BY <2>2, <1>1, <1>2, <1>3 DEF RemoveAt
    <3>2. SubSeq(s, k + 1, n)[i - (k - 1)] = s[i + 1]
      BY <2>2, <1>1
    <3> QED BY <3>1, <3>2, <2>2
  <2> QED BY <2>1, <2>2
<1> HIDE DEF n, t
<1>6. HeldIn(t) \cup s[k] \subseteq HeldIn(s)
  <2>1. s[k] \subseteq HeldIn(s)
    BY DEF HeldIn
  <2>2. ASSUME NEW i \in 1 .. n - 1, NEW e \in t[i] PROVE e \in HeldIn(s)
    BY <2>2, <1>1, <1>5 DEF HeldIn
  <2> QED BY <2>1, <2>2, <1>4 DEF HeldIn
<1>7. HeldIn(s) \subseteq HeldIn(t) \cup s[k]
  <2> SUFFICES ASSUME NEW i \in 1 .. n, NEW e \in s[i], e \notin s[k]
               PROVE  e \in HeldIn(t)
    BY <1>1 DEF HeldIn
  <2>1. CASE i < k
    <3>1. i \in 1 .. n - 1 /\ t[i] = s[i]
      BY <2>1, <1>1, <1>5
    <3> QED BY <3>1, <1>4 DEF HeldIn
  <2>2. CASE i > k
    <3>1. i - 1 \in 1 .. n - 1 /\ ~(i - 1 < k) /\ (i - 1) + 1 = i
      BY <2>2, <1>1
    <3>2. t[i - 1] = s[i]
      BY <3>1, <1>5
    <3> QED BY <3>1, <3>2, <1>4 DEF HeldIn
  <2>3. CASE i = k
    BY <2>3
  <2> QED BY <2>1, <2>2, <2>3, <1>1
<1>8. t \in Seq(S) /\ HeldIn(t) \cup s[k] = HeldIn(s)
  BY <1>4, <1>6, <1>7
<1> QED BY <1>8 DEF t

\* The top of a stash that holds something, popped.
LEMMA TopHolds ==
    ASSUME NEW S, NEW s \in Seq(S), s # <<>>
    PROVE  Tail(s) \in Seq(S) /\ Head(s) \in S /\ HeldIn(Tail(s)) \cup Head(s) = HeldIn(s)
<1>1. Len(s) \in Nat /\ Len(s) > 0 /\ 1 \in DOMAIN s /\ Head(s) = s[1] /\ s[1] \in S
  OBVIOUS
<1>2. Tail(s) = RemoveAt(s, 1)
  <2>1. SubSeq(s, 1, 1 - 1) = <<>>
    BY <1>1
  <2>2. Tail(s) = SubSeq(s, 2, Len(s)) /\ SubSeq(s, 2, Len(s)) \in Seq(S)
    BY <1>1
  <2>3. RemoveAt(s, 1) = <<>> \o SubSeq(s, 2, Len(s))
    BY <2>1, <1>1 DEF RemoveAt
  <2> QED BY <2>2, <2>3
<1>3. RemoveAt(s, 1) \in Seq(S) /\ HeldIn(RemoveAt(s, 1)) \cup s[1] = HeldIn(s)
  BY ONLY <1>1, s \in Seq(S), PopHolds
<1> QED BY <1>1, <1>2, <1>3

\* The command starts with nothing stashed.
LEMMA AdoptInvariantAtInit == AdoptInit => AdoptInvariant
<1> SUFFICES ASSUME AdoptInit PROVE AdoptInvariant
  OBVIOUS
<1>1. /\ adopt = [k \in AdoptFields |-> adopt[k]]
      /\ adopt.at = "begin" /\ adopt.ref = {} /\ adopt.held = {}
  BY DEF AdoptInit, AdoptFields, NoStash
<1>2. primaryWork \in SUBSET Pieces /\ otherWork \in SUBSET Pieces /\ treeWork = {}
  BY DEF AdoptInit, Pieces
<1>3. stashed \in Seq(SUBSET Pieces)
  BY DEF AdoptInit
<1>4. WorkTyped
  BY <1>1, <1>2, <1>3 DEF WorkTyped, AdoptPlaces
<1>5. WorkFollowed
  BY <1>1, <1>2 DEF WorkFollowed, NoStash
<1> QED BY <1>4, <1>5 DEF AdoptInvariant

\* No step of the command, and none of a user, spoils what the command knows.
LEMMA AdoptInvariantStep == AdoptInvariant /\ [AdoptNext]_adoptVars => AdoptInvariant'
<1> SUFFICES ASSUME AdoptInvariant, [AdoptNext]_adoptVars PROVE AdoptInvariant'
  OBVIOUS
<1>t. WorkTyped /\ WorkFollowed
  BY DEF AdoptInvariant
<1>s. /\ <<primaryWork>> \o stashed \in Seq(SUBSET Pieces) /\ <<primaryWork>> \o stashed # <<>>
      /\ Head(<<primaryWork>> \o stashed) = primaryWork
  BY <1>t, PushHolds DEF WorkTyped
<1>o. <<otherWork>> \o stashed \in Seq(SUBSET Pieces)
  BY <1>t, PushHolds DEF WorkTyped
<1>p. stashed # <<>> => Tail(stashed) \in Seq(SUBSET Pieces) /\ Head(stashed) \in SUBSET Pieces
  BY <1>t, TopHolds DEF WorkTyped
<1>r. \A k \in DOMAIN stashed : RemoveAt(stashed, k) \in Seq(SUBSET Pieces)
  BY <1>t, PopHolds DEF WorkTyped
<1> USE DEF AdoptAt, AdoptGoes, AdoptEnds, GitFails, NoStash, workPlaces
<1>1. CASE adoptBranch
  <2>1. WorkTyped'
    BY <1>1, <1>t DEF WorkTyped, AdoptPlaces, AdoptFields, adoptBranch
  <2>2. WorkFollowed'
    BY <1>1, <1>t DEF WorkFollowed, WorkTyped, AdoptFields, adoptBranch
  <2> QED BY <2>1, <2>2 DEF AdoptInvariant
<1>2. CASE freePrimaryBranch
  <2>1. WorkTyped'
    BY <1>2, <1>t DEF WorkTyped, AdoptPlaces, AdoptFields, freePrimaryBranch
  <2>2. WorkFollowed'
    BY <1>2, <1>t DEF WorkFollowed, WorkTyped, AdoptFields, freePrimaryBranch
  <2> QED BY <2>1, <2>2 DEF AdoptInvariant
<1>3. CASE StashPush
  <2>1. WorkTyped'
    BY <1>3, <1>t, <1>s DEF WorkTyped, AdoptPlaces, AdoptFields, StashPush
  <2>2. WorkFollowed'
    BY <1>3, <1>t, <1>s DEF WorkFollowed, WorkTyped, AdoptFields, StashPush
  <2> QED BY <2>1, <2>2 DEF AdoptInvariant
<1>4. CASE NameStash
  <2>1. WorkTyped'
    BY <1>4, <1>t, <1>p DEF WorkTyped, AdoptPlaces, AdoptFields, NameStash
  <2>2. WorkFollowed'
    BY <1>4, <1>t, <1>p DEF WorkFollowed, WorkTyped, AdoptFields, NameStash
  <2> QED BY <2>1, <2>2 DEF AdoptInvariant
<1>5. CASE DetachPrimary
  <2>1. WorkTyped'
    BY <1>5, <1>t DEF WorkTyped, AdoptPlaces, AdoptFields, DetachPrimary
  <2>2. WorkFollowed'
    BY <1>5, <1>t DEF WorkFollowed, WorkTyped, AdoptFields, DetachPrimary
  <2> QED BY <2>1, <2>2 DEF AdoptInvariant
<1>6. CASE addWorktree
  <2>1. WorkTyped'
    BY <1>6, <1>t DEF WorkTyped, AdoptPlaces, AdoptFields, addWorktree
  <2>2. WorkFollowed'
    BY <1>6, <1>t DEF WorkFollowed, WorkTyped, AdoptFields, addWorktree
  <2> QED BY <2>1, <2>2 DEF AdoptInvariant
<1>7. CASE popStash
  <2>0. /\ adopt' = [adopt EXCEPT !.at = "ended"]
        /\ UNCHANGED <<primaryWork, otherWork>>
        /\ \/ \E k \in DOMAIN stashed : /\ stashed' = RemoveAt(stashed, k)
                                       /\ treeWork' = treeWork \cup stashed[k]
           \/ UNCHANGED <<stashed, treeWork>>
    BY <1>7 DEF popStash
  <2>a. adopt'.at = "ended" /\ adopt' = [k \in AdoptFields |-> adopt'[k]]
        /\ adopt'.ref = adopt.ref /\ adopt'.held = adopt.held
    BY <2>0, <1>t DEF WorkTyped, AdoptFields
  <2>b. stashed' \in Seq(SUBSET Pieces)
    BY <2>0, <1>t, <1>r DEF WorkTyped
  <2>c. treeWork' \in SUBSET Pieces
    <3>1. \A k \in DOMAIN stashed : stashed[k] \in SUBSET Pieces
      BY <1>t DEF WorkTyped
    <3> QED BY <2>0, <3>1, <1>t DEF WorkTyped
  <2>1. WorkTyped'
    BY <2>0, <2>a, <2>b, <2>c, <1>t DEF WorkTyped, AdoptPlaces
  <2>2. WorkFollowed'
    BY <1>7, <1>t, <1>r DEF WorkFollowed, WorkTyped, AdoptFields, popStash
  <2> QED BY <2>1, <2>2 DEF AdoptInvariant
<1>8. CASE UserStashes
  <2>1. WorkTyped'
    BY <1>8, <1>t, <1>s, <1>o DEF WorkTyped, AdoptPlaces, AdoptFields, UserStashes, Meanwhile
  <2>2. WorkFollowed'
    BY <1>8, <1>t, <1>s, <1>o DEF WorkFollowed, WorkTyped, AdoptFields, UserStashes, Meanwhile
  <2> QED BY <2>1, <2>2 DEF AdoptInvariant
<1>9. CASE UserPops
  <2>1. WorkTyped'
    BY <1>9, <1>t, <1>p DEF WorkTyped, AdoptPlaces, AdoptFields, UserPops, Meanwhile
  <2>2. WorkFollowed'
    BY <1>9, <1>t, <1>p DEF WorkFollowed, WorkTyped, AdoptFields, UserPops, Meanwhile
  <2> QED BY <2>1, <2>2 DEF AdoptInvariant
<1>10. CASE UserSwitches
  <2>1. WorkTyped'
    BY <1>10, <1>t DEF WorkTyped, AdoptPlaces, AdoptFields, UserSwitches
  <2>2. WorkFollowed'
    BY <1>10, <1>t DEF WorkFollowed, WorkTyped, AdoptFields, UserSwitches
  <2> QED BY <2>1, <2>2 DEF AdoptInvariant
<1>11. CASE UNCHANGED adoptVars
  <2>1. WorkTyped'
    BY <1>11, <1>t DEF WorkTyped, AdoptPlaces, AdoptFields, adoptVars
  <2>2. WorkFollowed'
    BY <1>11, <1>t DEF WorkFollowed, WorkTyped, AdoptFields, adoptVars
  <2> QED BY <2>1, <2>2 DEF AdoptInvariant
<1>12. CASE FindStash
  <2>1. WorkTyped'
    BY <1>12, <1>t DEF WorkTyped, AdoptPlaces, AdoptFields, FindStash
  <2>2. WorkFollowed'
    BY <1>12, <1>t DEF WorkFollowed, WorkTyped, AdoptFields, FindStash
  <2> QED BY <2>1, <2>2 DEF AdoptInvariant
<1> QED
  BY <1>1, <1>2, <1>3, <1>4, <1>5, <1>6, <1>7, <1>8, <1>9, <1>10, <1>11, <1>12 DEF AdoptNext

\* What the command knows is always so.
THEOREM AdoptInvariantHolds == AdoptSpec => []AdoptInvariant
<1> QED BY AdoptInvariantAtInit, AdoptInvariantStep, PTL DEF AdoptSpec

\* What a step does to the work in the repository.
NoWorkLost ==
    /\ primaryWork' \cup treeWork' \cup otherWork' \cup HeldIn(stashed')
          = primaryWork \cup treeWork \cup otherWork \cup HeldIn(stashed)
    /\ treeWork \subseteq treeWork'
    /\ raced \/ treeWork' \subseteq adopt.held

\* Every step moves work from one place of the repository to another, at most, and
\* only what the primary held goes to the new worktree.
LEMMA WorkIsMoved == AdoptInvariant /\ [AdoptNext]_adoptVars => NoWorkLost
<1> SUFFICES ASSUME AdoptInvariant, [AdoptNext]_adoptVars PROVE NoWorkLost
  OBVIOUS
<1>t. WorkTyped /\ WorkFollowed
  BY DEF AdoptInvariant
<1>s. HeldIn(<<primaryWork>> \o stashed) = primaryWork \cup HeldIn(stashed)
  BY <1>t, PushHolds DEF WorkTyped
<1>o. HeldIn(<<otherWork>> \o stashed) = otherWork \cup HeldIn(stashed)
  BY <1>t, PushHolds DEF WorkTyped
<1>p. stashed # <<>> => HeldIn(Tail(stashed)) \cup Head(stashed) = HeldIn(stashed)
  BY <1>t, TopHolds DEF WorkTyped
<1>r. \A k \in DOMAIN stashed : HeldIn(RemoveAt(stashed, k)) \cup stashed[k] = HeldIn(stashed)
  BY <1>t, PopHolds DEF WorkTyped
<1>a. CASE adoptBranch \/ freePrimaryBranch \/ NameStash \/ DetachPrimary \/ addWorktree
           \/ FindStash \/ UserSwitches \/ UNCHANGED adoptVars
  <2>1. UNCHANGED workPlaces
    BY <1>a DEF adoptBranch, freePrimaryBranch, NameStash, DetachPrimary, addWorktree,
       FindStash, UserSwitches, adoptVars, workPlaces
  <2> QED BY <2>1, <1>t DEF workPlaces, NoWorkLost, WorkFollowed
<1>b. CASE StashPush
  BY <1>b, <1>t, <1>s DEF StashPush, NoWorkLost, WorkFollowed, WorkTyped
<1>c. CASE popStash
  BY <1>c, <1>t, <1>r DEF popStash, AdoptAt, NoWorkLost, WorkFollowed, WorkTyped
<1>d. CASE UserStashes
  BY <1>d, <1>t, <1>s, <1>o DEF UserStashes, Meanwhile, NoWorkLost, WorkFollowed, WorkTyped
<1>e. CASE UserPops
  BY <1>e, <1>t, <1>p DEF UserPops, Meanwhile, NoWorkLost, WorkFollowed, WorkTyped
<1> QED BY <1>a, <1>b, <1>c, <1>d, <1>e DEF AdoptNext

\* slis adopt --move loses no uncommitted work: neither the command, nor a user
\* who stashes and pops in between, nor git failing.  And what it brings to the
\* new worktree is what the primary held, unless somebody else raced it.
THEOREM NoWorkIsLost == AdoptSpec => AdoptLosesNoWork
<1>1. AdoptInvariant /\ [AdoptNext]_adoptVars
        => [/\ primaryWork' \cup treeWork' \cup otherWork'
                    \cup UNION {stashed'[i] : i \in DOMAIN stashed'}
                  = primaryWork \cup treeWork \cup otherWork \cup InStash
            /\ treeWork \subseteq treeWork'
            /\ raced \/ treeWork' \subseteq adopt.held]_adoptVars
  BY WorkIsMoved DEF NoWorkLost, HeldIn, InStash
<1> QED BY <1>1, AdoptInvariantHolds, PTL DEF AdoptSpec, AdoptLosesNoWork
-----------------------------------------------------------------------------
\* How the command ends is known once it has ended, and not before.
LEMMA AdoptTypeStep == AdoptTypeOK /\ AdoptInvariant /\ [AdoptNext]_adoptVars => AdoptTypeOK'
<1> SUFFICES ASSUME AdoptTypeOK, AdoptInvariant, [AdoptNext]_adoptVars PROVE AdoptTypeOK'
  OBVIOUS
<1>t. adopt = [k \in AdoptFields |-> adopt[k]] /\ "at" \in AdoptFields
  BY DEF AdoptInvariant, WorkTyped, AdoptFields
<1>b. GitFails => repoSteps' \in 0 .. MaxRepoSteps
  BY AdoptAssumption DEF GitFails, AdoptTypeOK
<1>g. \A place : AdoptGoes(place) => adopt'.at = place
  BY <1>t DEF AdoptGoes
<1>e. \A how : AdoptEnds(how) => adopt'.at = "ended" /\ adopted' = how
  BY <1>t DEF AdoptEnds
<1>1. CASE adoptBranch
  BY <1>1, <1>b, <1>g, <1>e DEF adoptBranch, AdoptTypeOK, AdoptAt
<1>2. CASE freePrimaryBranch
  <2>1. ASSUME NEW place \in {"detach", "stash"},
               adopt' = [adopt EXCEPT !.at = place, !.held = primaryWork]
        PROVE  adopt'.at = place
    BY <2>1, <1>t
  <2>2. /\ \/ adopt'.at # "ended" /\ UNCHANGED <<adopted, repoSteps>>
           \/ adopt'.at = "ended" /\ adopted' = "failed" /\ UNCHANGED repoSteps
           \/ adopt'.at = "ended" /\ adopted' = "failed" /\ GitFails
        /\ UNCHANGED <<branch, holder, raced>> /\ adopt.at = "free"
    BY <2>1, <1>2, <1>e DEF freePrimaryBranch, AdoptAt
  <2> QED BY <2>2, <1>b DEF AdoptTypeOK, AdoptAt
<1>3. CASE StashPush
  BY <1>3, <1>b, <1>g, <1>e DEF StashPush, AdoptTypeOK, AdoptAt
<1>4. CASE NameStash
  <2>1. ASSUME NEW ref, adopt' = [adopt EXCEPT !.at = "detach", !.ref = ref]
        PROVE  adopt'.at = "detach"
    BY <2>1, <1>t
  <2> QED BY <2>1, <1>4, <1>b, <1>g DEF NameStash, AdoptTypeOK, AdoptAt
<1>5. CASE DetachPrimary
  <2>1. /\ \/ adopt'.at = "add again" /\ UNCHANGED <<adopted, repoSteps>>
           \/ adopt'.at = "ended" /\ adopted' = "failed" /\ GitFails
        /\ UNCHANGED <<branch, raced>> /\ adopt.at = "detach"
    BY <1>5, <1>g, <1>e DEF DetachPrimary, AdoptAt
  <2>2. holder' \in {holder, "nobody"}
    BY <1>5 DEF DetachPrimary
  <2> QED BY <2>1, <2>2, <1>b DEF AdoptTypeOK, AdoptAt
<1>6. CASE addWorktree
  <2>1. /\ \/ adopt'.at = "ended" /\ adopted' = "yes" /\ UNCHANGED repoSteps
           \/ adopt'.at = "pop" /\ UNCHANGED <<adopted, repoSteps>>
           \/ adopt'.at = "ended" /\ adopted' = "failed" /\ UNCHANGED repoSteps
           \/ adopt'.at = "ended" /\ adopted' = "failed" /\ GitFails
        /\ UNCHANGED <<branch, raced>> /\ adopt.at = "add again"
    BY <1>6, <1>g, <1>e DEF addWorktree, AdoptAt
  <2>2. holder' \in {holder, "worktree"}
    BY <1>6 DEF addWorktree
  <2> QED BY <2>1, <2>2, <1>b DEF AdoptTypeOK, AdoptAt
<1>7. CASE popStash
  <2>1. /\ adopt'.at = "ended" /\ adopted' = "yes" /\ (UNCHANGED repoSteps \/ GitFails)
        /\ UNCHANGED <<branch, holder, raced>> /\ adopt.at = "pop entry"
    BY <1>7, <1>e DEF popStash, AdoptAt
  <2> QED BY <2>1, <1>b DEF AdoptTypeOK, AdoptAt
<1>8. CASE UserStashes \/ UserPops
  BY <1>8, <1>b DEF UserStashes, UserPops, Meanwhile, AdoptTypeOK, AdoptAt
<1>9. CASE UserSwitches
  BY <1>9, <1>b DEF UserSwitches, AdoptTypeOK, AdoptAt
<1>10. CASE UNCHANGED adoptVars
  BY <1>10 DEF adoptVars, AdoptTypeOK, AdoptAt
<1>11. CASE FindStash
  <2>1. ASSUME NEW n, adopt' = [adopt EXCEPT !.at = "pop entry", !.index = n]
        PROVE  adopt'.at = "pop entry"
    BY <2>1, <1>t
  <2>2. /\ \/ adopt'.at = "pop entry" /\ UNCHANGED <<adopted, repoSteps>>
           \/ adopt'.at = "ended" /\ adopted' = "yes" /\ (UNCHANGED repoSteps \/ GitFails)
        /\ UNCHANGED <<branch, holder, raced>> /\ adopt.at = "pop"
    BY <2>1, <1>11, <1>e DEF FindStash, AdoptAt
  <2> QED BY <2>2, <1>b DEF AdoptTypeOK, AdoptAt
<1> QED BY <1>1, <1>2, <1>3, <1>4, <1>5, <1>6, <1>7, <1>8, <1>9, <1>10, <1>11 DEF AdoptNext

\* Every variable has its type, and the command has answered exactly when it is
\* over (adoptBranch and its fallbacks).
THEOREM AdoptTypeCorrect == AdoptSpec => []AdoptTypeOK
<1>1. AdoptInit => AdoptTypeOK
  <2> SUFFICES ASSUME AdoptInit PROVE AdoptTypeOK
    OBVIOUS
  <2>1. adopt.at = "begin"
    BY DEF AdoptInit
  <2>2. holder \in {"primary", "worktree", "other", "nobody"}
    BY DEF AdoptInit
  <2>3. repoSteps \in 0 .. MaxRepoSteps
    BY AdoptAssumption DEF AdoptInit
  <2>4. branch \in {"local", "remote", "absent"} /\ adopted = "no" /\ raced = FALSE
    BY DEF AdoptInit
  <2> QED BY <2>1, <2>2, <2>3, <2>4 DEF AdoptTypeOK, AdoptAt
<1> QED BY <1>1, AdoptTypeStep, AdoptInvariantHolds, PTL DEF AdoptSpec

=============================================================================
