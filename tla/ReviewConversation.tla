-------------------------- MODULE ReviewConversation --------------------------
(***************************************************************************)
(* One persistent review conversation of slis (internal/reviewrun, the     *)
(* review commands of internal/cli and the parts of internal/session they  *)
(* call).                                                                  *)
(*                                                                         *)
(* Commands (`review agent`, `review message`) each post one message of    *)
(* the user to the conversation's file and start a reviewer in the         *)
(* conversation's terminal tab unless one is at work.  The reviewer answers*)
(* what is pending, one turn after the other: it asks the agent, stages    *)
(* the turn in a file of its own, appends its reply, pastes the findings   *)
(* into the tab of a working agent under a delivery record, and records    *)
(* the turn in the run's file.                                             *)
(*                                                                         *)
(* A step is one write of a file, one message to the terminal runtime, or  *)
(* one read whose answer is used later.  Between any two steps other       *)
(* commands run, and a process, a terminal or a tab may go.                *)
(***************************************************************************)
EXTENDS Naturals, FiniteSets

CONSTANTS
    Msg,         \* the messages of the user, one command each
    First,       \* the message of the opening `review agent` command
    Tab,         \* tabs a working agent may run in
    MaxFindings, \* bound: findings of one turn
    MaxTrouble,  \* bound: processes, terminals, agents and tabs that go
    None         \* no message, turn, tab or delivery

ASSUME ReviewAssumption ==
    /\ First \in Msg
    /\ MaxFindings \in Nat
    /\ MaxTrouble \in Nat
    /\ None \notin Msg \cup Tab

Status == {"queued", "running", "clean", "findings", "failed"}
Turn == [request : Msg, count : 0..MaxFindings, delivered : BOOLEAN]
Delivery == [tab : Tab, status : {"prepared", "sent"}]

ASSUME ReviewNoneAssumption == None \notin Turn /\ None \notin Delivery

VARIABLES
    status, findingCount, lastRequest, \* the run's file
    clock,      \* the time
    stamp,      \* the time in each message's ID, 0 before it has one
    posted,     \* the user's messages in the conversation's file
    replies,    \* how often the file holds a reply to each request
    turn        \* the staged turn's file
VARIABLES
    listed,     \* the sessions file lists the review tab
    tabs,       \* ... and these tabs of agents
    deliveries, \* ... and a delivery record per request, or None
    terminal,   \* the review tab's terminal is up
    typed,      \* reviewer command lines typed into it and not yet read
    accepted,   \* its state file says that the last command typed has started
    agents      \* the tabs a working agent runs in
VARIABLES
    pc,         \* where the reviewer is: "off" when the shell is at its prompt
    mine,       \* its copy of the turn it works on
    prompt,     \* the messages in the prompt it gives the agent
    target,     \* the agent tab it delivers to
    mpc         \* where the command of each message is
VARIABLES
    trouble,    \* what went so far
    prompted,   \* messages in the prompt of a turn that was staged
    late,       \* messages posted after one of a later stamp was read
    pasted,     \* requests whose findings were written to a terminal
    heard       \* how often the agent now in a tab was given a request's findings

runFile == <<status, findingCount, lastRequest>>
messages == <<clock, stamp, posted>>
session == <<listed, tabs, deliveries>>
runtime == <<terminal, typed, accepted, agents>>
reviewer == <<pc, mine, prompt, target>>
ghosts == <<prompted, late, pasted, heard>>
vars == <<status, findingCount, lastRequest, clock, stamp, posted, replies, turn,
          listed, tabs, deliveries, terminal, typed, accepted, agents,
          pc, mine, prompt, target, mpc, trouble, prompted, late, pasted, heard>>

\* Messages are read in the order of their time stamps.
UpTo(last, m) == last # None /\ stamp[m] <= stamp[last]
PendingReviewMessages == {m \in posted : ~UpTo(lastRequest, m)}
IsLatest(m, S) == m \in S /\ \A n \in S : stamp[n] <= stamp[m]

ReviewerGone == pc' = "off" /\ mine' = None /\ prompt' = {} /\ target' = None

\* The conversation's terminal has a foreground command; its lock is held by
\* the command that waits for the line it typed, a delivery's by the reviewer.
Busy == pc # "off"
ReviewTabLocked == \E m \in Msg : mpc[m] = "await"
TabLocked(t) == pc \in {"send", "sent"} /\ target = t

Trouble == trouble < MaxTrouble /\ trouble' = trouble + 1

-----------------------------------------------------------------------------
(* The commands: `review agent` posts First, `review message` the others.  *)

Goes(m, from, to) == mpc[m] = from /\ mpc' = [mpc EXCEPT ![m] = to]

\* AppendMessage: the ID and CreatedAt are taken, then the file is written, and
\* nothing keeps the commands from writing in another order.
Stamp(m) ==
    /\ Goes(m, "off", "stamped")
    /\ clock' = clock + 1
    /\ stamp' = [stamp EXCEPT ![m] = clock']
    /\ UNCHANGED <<runFile, posted, replies, turn, session, runtime, reviewer,
                   trouble, ghosts>>

Post(m) ==
    /\ Goes(m, "stamped", IF m = First THEN "resolve" ELSE "recheck")
    /\ posted' = posted \cup {m}
    /\ late' = IF \E n \in prompt \cup prompted : stamp[m] < stamp[n]
               THEN late \cup {m} ELSE late
    /\ UNCHANGED <<runFile, clock, stamp, replies, turn, session, runtime, reviewer,
                   trouble, prompted, pasted, heard>>

commandUnchanged ==
    UNCHANGED <<messages, replies, turn, tabs, deliveries, agents, reviewer, trouble,
                ghosts>>

\* The run is read again; only one that says running is asked if it is.
Recheck(m) ==
    /\ Goes(m, "recheck", IF status = "running" THEN "ask" ELSE "requeue")
    /\ UNCHANGED <<runFile, listed, terminal, typed, accepted>> /\ commandUnchanged

\* Manager.Busy fails when the tab is not listed or its terminal is gone.
Ask(m) ==
    /\ \/ listed /\ terminal /\ Goes(m, "ask", IF Busy THEN "queued" ELSE "requeue")
       \/ ~(listed /\ terminal) /\ Goes(m, "ask", "error")
    /\ UNCHANGED <<runFile, listed, terminal, typed, accepted>> /\ commandUnchanged

SetQueued(m) ==
    /\ Goes(m, "requeue", "resolve")
    /\ status' = "queued"
    /\ UNCHANGED <<findingCount, lastRequest, listed, terminal, typed, accepted>>
    /\ commandUnchanged

\* The slice and the agent are found, Ensure and EnsureTab list the tab and
\* create its terminal; or one of these fails.
EnsureReviewTab(m) ==
    /\ Goes(m, "resolve", "start")
    /\ listed' = TRUE /\ terminal' = TRUE
    /\ UNCHANGED <<runFile, typed, accepted>> /\ commandUnchanged

ResolveFails(m) ==
    /\ Goes(m, "resolve", "giveup")
    /\ UNCHANGED <<runFile, listed, terminal, typed, accepted>> /\ commandUnchanged

\* startCommand: a busy terminal takes no second command line.  The opening
\* command takes that for a failure.
FindTerminalBusy(m) ==
    /\ ~ReviewTabLocked /\ listed /\ terminal /\ Busy
    /\ Goes(m, "start", IF m = First THEN "giveup" ELSE "queued")
    /\ UNCHANGED <<runFile, listed, terminal, typed, accepted>> /\ commandUnchanged

StartReviewer(m) ==
    /\ ~ReviewTabLocked /\ listed /\ terminal /\ ~Busy
    /\ Goes(m, "start", "await")
    /\ typed' = typed + 1
    /\ accepted' = FALSE
    /\ UNCHANGED <<runFile, listed, terminal>> /\ commandUnchanged

\* The terminal went, or did not take the line.
StartFails(m) ==
    /\ ~ReviewTabLocked
    /\ Goes(m, "start", "giveup")
    /\ UNCHANGED <<runFile, listed, terminal, typed, accepted>> /\ commandUnchanged

SeeAccepted(m) ==
    /\ accepted
    /\ Goes(m, "await", "sent")
    /\ UNCHANGED <<runFile, listed, terminal, typed, accepted>> /\ commandUnchanged

\* Three seconds pass: the line typed may still be read later.
AwaitTimesOut(m) ==
    /\ Goes(m, "await", "giveup")
    /\ UNCHANGED <<runFile, listed, terminal, typed, accepted>> /\ commandUnchanged

\* persistReviewFailure of a command, whatever the reviewer is doing.
GiveUp(m) ==
    /\ Goes(m, "giveup", "failed")
    /\ status' = "failed"
    /\ UNCHANGED <<findingCount, lastRequest, listed, terminal, typed, accepted>>
    /\ commandUnchanged

Ended == {"off", "queued", "sent", "failed", "error", "killed"}

KillCommand(m) ==
    /\ mpc[m] \notin Ended
    /\ Goes(m, mpc[m], "killed")
    /\ Trouble
    /\ UNCHANGED <<runFile, messages, replies, turn, session, runtime, reviewer, ghosts>>

Command(m) ==
    \/ Post(m) \/ Recheck(m) \/ Ask(m) \/ SetQueued(m) \/ EnsureReviewTab(m)
    \/ ResolveFails(m) \/ FindTerminalBusy(m) \/ StartReviewer(m) \/ StartFails(m)
    \/ SeeAccepted(m) \/ AwaitTimesOut(m) \/ GiveUp(m)

-----------------------------------------------------------------------------
(* The reviewer: `review agent --foreground`, run by the tab's shell.      *)

reviewerUnchanged == UNCHANGED <<messages, listed, terminal, typed, accepted, mpc, trouble>>
Step(from, to) == pc = from /\ pc' = to

ShellStartsReviewer ==
    /\ terminal /\ typed > 0
    /\ Step("off", "get")
    /\ typed' = typed - 1
    /\ accepted' = TRUE
    /\ UNCHANGED <<runFile, messages, replies, turn, session, terminal, agents,
                   mine, prompt, target, mpc, trouble, ghosts>>

ShellTakesBack ==
    /\ pc = "done" /\ ReviewerGone
    /\ UNCHANGED <<runFile, replies, turn, session, agents, ghosts>>
    /\ reviewerUnchanged

\* Faulty Recorded: LastRequest is not looked at.
NeverRecorded(t) == FALSE
\* The staged turn is the one RecordTurn recorded last.
Recorded(t) == t.request = lastRequest

\* Get and GetPendingTurn: a recorded turn is cleared, a staged one is taken
\* up again, and without one the pending messages make a turn, the last of
\* them its request.  Without any the reviewer is done.
Read ==
    /\ \/ /\ turn # None /\ Recorded(turn)
          /\ Step("get", "clear")
          /\ mine' = turn /\ UNCHANGED prompt
       \/ /\ turn # None /\ ~Recorded(turn)
          /\ Step("get", "resume")
          /\ mine' = turn /\ UNCHANGED prompt
       \/ /\ turn = None
          /\ Step("get", "run")
          /\ \E m \in Msg :
                /\ IsLatest(m, PendingReviewMessages)
                /\ mine' = [request |-> m, count |-> 0, delivered |-> FALSE]
          /\ prompt' = posted
       \/ /\ turn = None /\ PendingReviewMessages = {}
          /\ Step("get", "done")
          /\ UNCHANGED <<mine, prompt>>
    /\ UNCHANGED <<runFile, replies, turn, session, agents, target, ghosts>>
    /\ reviewerUnchanged

SetRunning ==
    /\ Step("run", "agent") \/ Step("resume", "reply")
    /\ status' = "running"
    /\ UNCHANGED <<findingCount, lastRequest, replies, turn, session, agents,
                   mine, prompt, target, ghosts>>
    /\ reviewerUnchanged

AgentAnswers ==
    /\ Step("agent", "stage")
    /\ \E n \in 0..MaxFindings : mine' = [mine EXCEPT !.count = n]
    /\ UNCHANGED <<runFile, replies, turn, session, agents, prompt, target, ghosts>>
    /\ reviewerUnchanged

\* The agent's error, deadline or unusable answer; or a reply not written.
TurnFails ==
    /\ Step("agent", "fail") \/ Step("reply", "fail")
    /\ UNCHANGED <<runFile, replies, turn, session, agents, mine, prompt, target, ghosts>>
    /\ reviewerUnchanged

\* A file of another request is an error of the three operations on it.
NoOtherTurn == turn # None => turn.request = mine.request

StageTurn ==
    /\ Step("stage", "reply")
    /\ NoOtherTurn
    /\ turn' = IF turn = None THEN mine ELSE turn
    /\ prompted' = prompted \cup prompt
    /\ UNCHANGED <<runFile, replies, session, agents, mine, prompt, target, late, pasted,
                   heard>>
    /\ reviewerUnchanged

\* Faulty AppendReviewerMessage: the file is not searched for the reply.
AppendAgain ==
    /\ pc = "reply"
    /\ pc' = IF mine.delivered THEN "record" ELSE "deliver"
    /\ replies' = [replies EXCEPT ![mine.request] = @ + 1]
    /\ UNCHANGED <<runFile, turn, session, agents, mine, prompt, target, ghosts>>
    /\ reviewerUnchanged
\* A reply of the request in the file already is not appended again.
AppendReviewerMessage ==
    /\ pc = "reply"
    /\ pc' = IF mine.delivered THEN "record" ELSE "deliver"
    /\ replies' = [replies EXCEPT ![mine.request] = IF @ = 0 THEN 1 ELSE @]
    /\ UNCHANGED <<runFile, turn, session, agents, mine, prompt, target, ghosts>>
    /\ reviewerUnchanged

\* A turn without findings has nothing to deliver.  Others go to a tab where
\* an agent works or, when there is none, to a new tab with a new agent.
ChooseFeedbackTab ==
    /\ \/ /\ Step("deliver", "mark")
          /\ mine.count = 0
          /\ UNCHANGED <<target, tabs, agents>>
       \/ /\ Step("deliver", "prepare")
          /\ mine.count > 0
          /\ \E t \in Tab :
                /\ target' = t
                /\ IF agents # {} THEN t \in agents ELSE t \notin tabs
                /\ tabs' = tabs \cup {t}
                /\ agents' = agents \cup {t}
    /\ UNCHANGED <<runFile, replies, turn, listed, deliveries, mine, prompt, ghosts>>
    /\ reviewerUnchanged

\* The comments are not stored, or no agent is there, starts or can be asked;
\* the tab of one that did not start stays.
DeliveryFails ==
    /\ Step("deliver", "fail")
    /\ mine.count > 0
    /\ \/ UNCHANGED tabs
       \/ agents = {} /\ \E t \in Tab : tabs' = tabs \cup {t}
    /\ UNCHANGED <<runFile, replies, turn, listed, deliveries, agents, mine, prompt,
                   target, ghosts>>
    /\ reviewerUnchanged

\* Faulty PrepareDelivery: a delivery of unknown result is made again.
PrepareAgain ==
    /\ LET d == deliveries[mine.request] IN
       \/ /\ Step("prepare", "send")
          /\ d # None => d.status = "prepared"
          /\ deliveries' = [deliveries EXCEPT ![mine.request] =
                               [tab |-> target, status |-> "prepared"]]
       \/ /\ pc = "prepare" /\ d # None
          /\ d.status = "sent" /\ pc' = "mark"
          /\ UNCHANGED deliveries
    /\ UNCHANGED <<runFile, replies, turn, listed, tabs, agents, mine, prompt, target, ghosts>>
    /\ reviewerUnchanged
\* SendOnce, under the lock of the tab: the delivery is recorded before it is
\* made, and one found recorded is not made again.
PrepareDelivery ==
    /\ LET d == deliveries[mine.request] IN
       \/ /\ Step("prepare", "send")
          /\ d = None
          /\ deliveries' = [deliveries EXCEPT ![mine.request] =
                               [tab |-> target, status |-> "prepared"]]
       \/ /\ pc = "prepare" /\ d # None
          /\ pc' = IF d.status = "sent" THEN "mark" ELSE "fail"
          /\ UNCHANGED deliveries
    /\ UNCHANGED <<runFile, replies, turn, listed, tabs, agents, mine, prompt, target, ghosts>>
    /\ reviewerUnchanged

Paste ==
    /\ pasted' = pasted \cup {mine.request}
    /\ heard' = [heard EXCEPT ![mine.request][target] =
                    IF target \in agents THEN @ + 1 ELSE @]

\* The runtime's error says nothing about whether it wrote to the terminal.
Send ==
    /\ \/ Step("send", "sent") /\ target \in tabs /\ Paste
       \/ Step("send", "fail") /\ target \in tabs /\ Paste
       \/ Step("send", "fail") /\ UNCHANGED <<pasted, heard>>
    /\ UNCHANGED <<runFile, replies, turn, session, agents, mine, prompt, target, prompted,
                   late>>
    /\ reviewerUnchanged

\* Faulty RecordSent: a record without its tab, which closing cannot find.
RecordSentNowhere ==
    /\ Step("sent", "mark")
    /\ deliveries' = [deliveries EXCEPT ![mine.request] = [tab |-> None, status |-> "sent"]]
    /\ UNCHANGED <<runFile, replies, turn, listed, tabs, agents, mine, prompt, target, ghosts>>
    /\ reviewerUnchanged
RecordSent ==
    /\ Step("sent", "mark")
    /\ deliveries' = [deliveries EXCEPT ![mine.request].status = "sent"]
    /\ UNCHANGED <<runFile, replies, turn, listed, tabs, agents, mine, prompt, target, ghosts>>
    /\ reviewerUnchanged

MarkTurnDelivered ==
    /\ Step("mark", "record")
    /\ turn # None /\ NoOtherTurn
    /\ turn' = [turn EXCEPT !.delivered = TRUE]
    /\ UNCHANGED <<runFile, replies, session, agents, mine, prompt, target, ghosts>>
    /\ reviewerUnchanged

\* Faulty RecordTurn: the conversation's last message is taken for the request.
RecordLatest ==
    /\ Step("record", "clear")
    /\ findingCount' = findingCount + mine.count
    /\ \E m \in posted : IsLatest(m, posted) /\ lastRequest' = m
    /\ status' = IF findingCount' = 0 THEN "clean" ELSE "findings"
    /\ UNCHANGED <<replies, turn, session, agents, mine, prompt, target, ghosts>>
    /\ reviewerUnchanged
RecordTurn ==
    /\ Step("record", "clear")
    /\ findingCount' = findingCount + mine.count
    /\ lastRequest' = mine.request
    /\ status' = IF findingCount' = 0 THEN "clean" ELSE "findings"
    /\ UNCHANGED <<replies, turn, session, agents, mine, prompt, target, ghosts>>
    /\ reviewerUnchanged

\* Faulty ClearPendingTurn: the reviewer ends after one turn.
ClearAndEnd ==
    /\ Step("clear", "done")
    /\ NoOtherTurn
    /\ turn' = None
    /\ UNCHANGED <<runFile, replies, session, agents, mine, prompt, target, ghosts>>
    /\ reviewerUnchanged
ClearPendingTurn ==
    /\ Step("clear", "get")
    /\ NoOtherTurn
    /\ turn' = None
    /\ UNCHANGED <<runFile, replies, session, agents, mine, prompt, target, ghosts>>
    /\ reviewerUnchanged

\* Faulty SetFailed: the staged turn is given up with the failure.
FailAndClear ==
    /\ Step("fail", "done")
    /\ status' = "failed"
    /\ turn' = None
    /\ UNCHANGED <<findingCount, lastRequest, replies, session, agents,
                   mine, prompt, target, ghosts>>
    /\ reviewerUnchanged
\* The error is appended as a message of the system, then SetFailed.
SetFailed ==
    /\ Step("fail", "done")
    /\ status' = "failed"
    /\ UNCHANGED <<findingCount, lastRequest, replies, turn, session, agents,
                   mine, prompt, target, ghosts>>
    /\ reviewerUnchanged

Reviewer ==
    \/ ShellStartsReviewer \/ ShellTakesBack \/ Read \/ SetRunning \/ AgentAnswers
    \/ TurnFails \/ StageTurn \/ AppendReviewerMessage \/ ChooseFeedbackTab
    \/ DeliveryFails \/ PrepareDelivery \/ Send \/ RecordSent \/ MarkTurnDelivered
    \/ RecordTurn \/ ClearPendingTurn \/ SetFailed

-----------------------------------------------------------------------------
(* What may go.                                                            *)

troubleUnchanged == UNCHANGED <<runFile, messages, replies, turn, prompted, late, pasted>>

\* The reviewer is killed, or fails before it can say so in the run's file.
ReviewerDies ==
    /\ pc # "off" /\ ReviewerGone
    /\ Trouble /\ troubleUnchanged
    /\ UNCHANGED <<session, runtime, mpc, heard>>

\* The review tab's terminal goes, and the reviewer in it.
TerminalDies ==
    /\ terminal /\ terminal' = FALSE
    /\ typed' = 0 /\ ReviewerGone
    /\ Trouble /\ troubleUnchanged
    /\ UNCHANGED <<session, accepted, agents, mpc, heard>>

\* KillTab of the review tab: its terminal and state file go, then its listing.
CloseReviewTab ==
    /\ ~ReviewTabLocked /\ listed /\ terminal
    /\ listed' = FALSE /\ terminal' = FALSE /\ accepted' = FALSE
    /\ typed' = 0 /\ ReviewerGone
    /\ Trouble /\ troubleUnchanged
    /\ UNCHANGED <<tabs, deliveries, agents, mpc, heard>>

AgentGone(t) == heard' = [m \in Msg |-> [heard[m] EXCEPT ![t] = 0]]

\* An agent ends; its tab, and the records of what it was given, stay.
AgentEnds(t) ==
    /\ t \in agents /\ agents' = agents \ {t}
    /\ AgentGone(t)
    /\ Trouble /\ troubleUnchanged
    /\ UNCHANGED <<session, terminal, typed, accepted, reviewer, mpc>>

\* KillTab of an agent's tab drops the records of the deliveries to it.
CloseAgentTab(t) ==
    /\ t \in tabs /\ ~TabLocked(t)
    /\ tabs' = tabs \ {t} /\ agents' = agents \ {t}
    /\ deliveries' = [m \in Msg |->
          IF deliveries[m] # None /\ deliveries[m].tab = t THEN None ELSE deliveries[m]]
    /\ AgentGone(t)
    /\ Trouble /\ troubleUnchanged
    /\ UNCHANGED <<listed, terminal, typed, accepted, reviewer, mpc>>

\* Manager.Ensure, of any other command, brings back the terminal of a tab.
SessionEnsured ==
    /\ listed /\ ~terminal /\ terminal' = TRUE
    /\ UNCHANGED <<runFile, messages, replies, turn, session, typed, accepted, agents,
                   reviewer, mpc, trouble, ghosts>>

\* The user starts an agent, in a tab of its own or in one that has none.
AgentStarts(t) ==
    /\ t \notin agents
    /\ tabs' = tabs \cup {t} /\ agents' = agents \cup {t}
    /\ UNCHANGED <<runFile, messages, replies, turn, listed, deliveries, terminal,
                   typed, accepted, reviewer, mpc, trouble, ghosts>>

-----------------------------------------------------------------------------
\* `review agent` has created the run and is about to post its message.
Init ==
    /\ status = "queued" /\ findingCount = 0 /\ lastRequest = None
    /\ clock = 0 /\ stamp = [m \in Msg |-> 0] /\ posted = {}
    /\ replies = [m \in Msg |-> 0] /\ turn = None
    /\ listed = FALSE /\ tabs = {} /\ deliveries = [m \in Msg |-> None]
    /\ terminal = FALSE /\ typed = 0 /\ accepted = FALSE /\ agents = {}
    /\ pc = "off" /\ mine = None /\ prompt = {} /\ target = None
    /\ mpc = [m \in Msg |-> "off"]
    /\ trouble = 0 /\ prompted = {} /\ late = {} /\ pasted = {}
    /\ heard = [m \in Msg |-> [t \in Tab |-> 0]]

Next ==
    \/ Reviewer
    \/ \E m \in Msg : Stamp(m) \/ Command(m) \/ KillCommand(m)
    \/ \E t \in Tab : AgentEnds(t) \/ CloseAgentTab(t) \/ AgentStarts(t)
    \/ ReviewerDies \/ TerminalDies \/ CloseReviewTab \/ SessionEnsured

Spec == Init /\ [][Next]_vars

\* The reviewer's process runs; nobody has to type, close or start anything.
FairSpec == Spec /\ WF_vars(Reviewer)

-----------------------------------------------------------------------------
(* Properties.                                                             *)

CommandSteps == {"off", "stamped", "recheck", "ask", "requeue", "resolve", "start",
             "await", "giveup", "queued", "sent", "failed", "error", "killed"}
ReviewerSteps == {"off", "get", "run", "resume", "agent", "stage", "reply", "deliver",
              "prepare", "send", "sent", "mark", "record", "clear", "fail", "done"}

\* The type of every file, record and program counter.
TypeOK ==
    /\ status \in Status /\ findingCount \in Nat /\ lastRequest \in Msg \cup {None}
    /\ clock \in Nat /\ stamp \in [Msg -> Nat] /\ posted \subseteq Msg
    /\ replies \in [Msg -> Nat] /\ turn \in Turn \cup {None}
    /\ listed \in BOOLEAN /\ tabs \subseteq Tab
    /\ deliveries \in [Msg -> Delivery \cup {None}]
    /\ terminal \in BOOLEAN /\ typed \in Nat /\ accepted \in BOOLEAN
    /\ agents \subseteq Tab
    /\ pc \in ReviewerSteps /\ mine \in Turn \cup {None}
    /\ prompt \subseteq Msg /\ target \in Tab \cup {None}
    /\ mpc \in [Msg -> CommandSteps]
    /\ trouble \in 0..MaxTrouble
    /\ prompted \subseteq Msg /\ late \subseteq Msg /\ pasted \subseteq Msg
    /\ heard \in [Msg -> [Tab -> Nat]]

\* At most one living agent is given the findings of a turn, and once,
\* whatever crashes, retries and tabs come between (SendOnce under its lock,
\* the delivery record, and the mark in the staged turn).
AtMostOnce ==
    \A m \in Msg : \A t, u \in Tab :
        heard[m][t] > 0 /\ heard[m][u] > 0 => t = u /\ heard[m][t] = 1

\* What the run's last request covers was in the prompt of some turn, or came
\* into the file (store.go appendMessage) after a message of a later stamp had
\* been read: nothing else is passed over, by follow-ups, crashes or retries.
NothingPassedOver ==
    \A m \in posted : UpTo(lastRequest, m) => m \in prompted \cup late

\* docs/AGENT.md: a message received during a running turn is queued and handled
\* by that run.  Here: what is not pending was in the prompt of some turn.
EveryMessageIsRead ==
    \A m \in posted : UpTo(lastRequest, m) => m \in prompted

\* Every recorded turn has one reply in the conversation, and no request has
\* two: a turn taken up again after a crash does not answer again.
OneReplyPerTurn ==
    /\ \A m \in Msg : replies[m] <= 1
    /\ lastRequest # None => replies[lastRequest] = 1

Quiet == pc = "off" /\ typed = 0 /\ \A m \in Msg : mpc[m] \in Ended

\* When nobody is at work and nothing was killed or closed, no message is
\* pending in a run that reads clean or findings.
QuietMeansAnswered ==
    Quiet /\ trouble = 0 /\ status \in {"clean", "findings"} =>
        PendingReviewMessages = {}

\* A staged turn, once paid for, is kept until it is recorded: it only becomes
\* delivered, and it goes when the run's file names it.
StagedTurnKept ==
    [][turn # None /\ turn' # turn =>
         \/ turn' = [turn EXCEPT !.delivered = TRUE]
         \/ turn' = None /\ lastRequest = turn.request]_vars

\* What is pending in the file when the reviewer reads it is answered by that
\* reviewer, or the run fails, however many messages follow; unless something
\* is killed or closed meanwhile.
ReadIsAnswered ==
    \A m \in Msg : \A n \in 0..MaxTrouble :
        pc = "get" /\ m \in posted /\ trouble = n
            ~> trouble > n \/ status = "failed" \/ UpTo(lastRequest, m)

\* docs/AGENT.md: `review message` appends a user turn and respawns the same
\* review tab.
FollowUpRespawns == \A m \in Msg : mpc[m] # "error"

\* docs/AGENT.md: a message received during a running turn is queued and handled
\* by that run before it exits.  Here: one the command reported as queued, when
\* nobody is at work, nothing was killed and the run did not fail.
QueuedIsHandled ==
    Quiet /\ trouble = 0 /\ status # "failed" =>
        \A m \in Msg : mpc[m] = "queued" => m \notin PendingReviewMessages

\* The ledger of the conversation: a message is answered when the run's last
\* request is not before it, a fact no file states; a late one never is.
Ledger == INSTANCE ReviewLedger WITH
    Agent <- Tab,
    asked <- posted,
    answered <- {m \in posted \ late : UpTo(lastRequest, m)},
    counted <- findingCount,
    given <- pasted

\* The conversation keeps the promises of the ledger: a message is answered by
\* at most one turn, whose findings are counted once, after they were handed
\* over, and never heard twice.
KeepsLedger == Ledger!Spec
=============================================================================
