------------------------------ MODULE SessionTabs ------------------------------
(***************************************************************************)
(* The terminal tabs of one slice (internal/session, internal/zmxctl and   *)
(* the `session` commands of internal/cli).                                *)
(*                                                                         *)
(* Each command is a process of its own.  All of them share the slice's    *)
(* group in groups.json, read and rewritten under the file lock of the     *)
(* store, one lock file per terminal, and the terminals of the runtime     *)
(* (zmx), which knows nothing of the group.  A step is one access to the   *)
(* store, one call of the runtime or the taking of a terminal's lock;      *)
(* between two of them other commands run, terminals end and processes are *)
(* killed.                                                                 *)
(***************************************************************************)
EXTENDS Naturals, Sequences, SequencesExt

CONSTANTS
    Process,     \* commands that may run at a time
    Member,      \* the slice's members by repository: [repo, dir], dir the
                 \* directory that holds the member's worktree
    RootTab,     \* the ID of the tab of the slice's root
    Extra,       \* IDs of the tabs that users and agents add
    Layouts,     \* the layouts the workspace's configuration goes through
    MaxCommands, \* bound: commands started
    MaxTrouble,  \* bound: killed processes, runtime errors, changed layouts,
                 \* programs of users
    NoTab         \* no group, tab, process or delivery

ASSUME TabsAssumption ==
    /\ Member # <<>> /\ Member \in Seq({Member[i] : i \in DOMAIN Member})
    /\ Layouts \subseteq {"root", "repos", "both"}
    /\ MaxCommands \in Nat /\ MaxTrouble \in Nat
    /\ NoTab \notin Process /\ NoTab \notin {"slis", "user"}

-----------------------------------------------------------------------------
\* Which tabs a slice should have.

sharedRootCWD == \A i \in DOMAIN Member : Member[i].dir = Member[1].dir

PlanGroupTabs(layout) ==
    LET root == IF layout # "repos" /\ sharedRootCWD THEN <<RootTab>> ELSE <<>>
        repos == [i \in DOMAIN Member |-> Member[i].repo]
    IN  IF layout = "root" /\ root # <<>> THEN root ELSE root \o repos

Planned == {RootTab} \cup {Member[i].repo : i \in DOMAIN Member}
TabId == Planned \cup Extra
dynamicTabKind(t) == t \in Extra

\* A tab is its ID, its terminal's name is a function of the ID.  The one
\* delivery that is modelled is NoTab, or its tab and status.
Delivery == [tab : TabId \cup {NoTab}, status : {"prepared", "sent"}]
Group == [tabs : Seq(TabId), active : TabId \cup {NoTab}, letter : Delivery \cup {NoTab}]
EmptyGroup == [tabs |-> <<>>, active |-> NoTab, letter |-> NoTab]

\* A slice has a repository once, and the root's tab has a name of its own.
ASSUME TabsNamesAssumption ==
    /\ \A i, j \in DOMAIN Member : Member[i].repo = Member[j].repo => i = j
    /\ \A i \in DOMAIN Member : Member[i].repo # RootTab
    /\ NoTab \notin Group /\ NoTab \notin Delivery

groupHasTab(g, t) == Contains(g.tabs, t)

\* The elements of a sequence that are in a set, in their order.
Only(s, T) ==
    LET upTo[i \in 0 .. Len(s)] ==
            IF i = 0 THEN <<>>
            ELSE IF s[i] \in T THEN Append(upTo[i - 1], s[i]) ELSE upTo[i - 1]
    IN  upTo[Len(s)]

reconcileGroup(desired, previous) ==
    LET kept == Only(previous.tabs, {t \in TabId : dynamicTabKind(t) /\ ~Contains(desired, t)})
        tabs == desired \o kept
    IN  [tabs |-> tabs, letter |-> previous.letter,
         active |-> IF Contains(tabs, previous.active) THEN previous.active
                    ELSE IF tabs # <<>> THEN tabs[1] ELSE NoTab]

-----------------------------------------------------------------------------
VARIABLES
    layout,   \* the layout the workspace asks for
    group,    \* the slice's group in groups.json, or NoTab
    alive,    \* tabs whose terminal runs
    typed,    \* per terminal: slis command lines typed and not yet read
    running,  \* per terminal: NoTab, a "slis" command or a program of the "user"
    mark,     \* per terminal: its command state file
    lock,     \* per terminal: the process that holds its lock
    proc      \* per process: the command it runs and where that is
VARIABLES
    commands, trouble, \* counters of what the bounds limit
    clash,    \* a command that closes ran beside another command
    panicked, \* a process indexed an empty list or wrote to a nil map
    lost,     \* terminals a killed or failed creator or a new layout left behind
    late      \* per terminal: typed commands whose starter went before they ran

store == <<layout, group>>
terminals == <<alive, typed, running, mark>>
history == <<panicked, lost, late>>
tabsVars == <<layout, group, alive, typed, running, mark, lock, proc,
              commands, trouble, clash, panicked, lost, late>>

Idle == [op |-> NoTab, at |-> "idle", tab |-> NoTab, plan |-> <<>>, todo |-> <<>>,
         made |-> {}, failed |-> FALSE]

TabsInit ==
    /\ layout \in Layouts
    /\ group = NoTab /\ alive = {}
    /\ typed = [t \in TabId |-> 0]
    /\ running = [t \in TabId |-> NoTab]
    /\ mark = [t \in TabId |-> "none"]
    /\ lock = [t \in TabId |-> NoTab]
    /\ proc = [p \in Process |-> Idle]
    /\ commands = 0 /\ trouble = 0 /\ clash = FALSE /\ panicked = FALSE
    /\ lost = {}
    /\ late = [t \in TabId |-> 0]

At(p, place) == proc[p].at = place
Goto(p, place) == proc' = [proc EXCEPT ![p].at = place]

\* The process ends, and its exit gives back the lock it holds.
Exit(p) ==
    /\ proc' = [proc EXCEPT ![p] = Idle]
    /\ lock' = [t \in TabId |-> IF lock[t] = p THEN NoTab ELSE lock[t]]

\* It ends in an error: what it created and nobody recorded stays behind.
Fail(p) ==
    /\ Exit(p)
    /\ lost' = lost \cup {t \in proc[p].made \cap alive :
                            IF group = NoTab THEN TRUE ELSE ~groupHasTab(group, t)}

TroubleComes == trouble < MaxTrouble /\ trouble' = trouble + 1

closing(op) == op \in {"kill", "kill-tab"}

Begin(p, op, t, place) ==
    /\ At(p, "idle") /\ commands < MaxCommands
    /\ commands' = commands + 1
    /\ proc' = [proc EXCEPT ![p] = [Idle EXCEPT !.op = op, !.tab = t, !.at = place]]
    /\ clash' = (clash \/ \E q \in Process :
                    ~At(q, "idle") /\ (closing(op) \/ closing(proc[q].op)))
    /\ UNCHANGED <<store, terminals, lock, trouble, history>>

BeginGroupCommand(p) == \E op \in {"ensure", "kill"} : Begin(p, op, NoTab, op)
BeginTabCommand(p) == \E t \in Extra, op \in {"ensure-tab", "start"} : Begin(p, op, t, "tab get")
BeginTerminalCommand(p) ==
    \E t \in TabId, op \in {"start-existing", "send-once", "kill-tab"} : Begin(p, op, t, op)

\* A terminal comes up, or is there already; a terminal ends.
Create(t) == alive' = alive \cup {t}
End(t) ==
    /\ alive' = alive \ {t}
    /\ typed' = [typed EXCEPT ![t] = 0]
    /\ running' = [running EXCEPT ![t] = NoTab]
    /\ lost' = lost \ {t}
    /\ late' = [late EXCEPT ![t] = 0]

-----------------------------------------------------------------------------
\* Manager.Ensure: the planned tabs and the dynamic ones of the group.

EnsureGet(p) ==
    /\ At(p, "ensure")
    /\ LET desired == PlanGroupTabs(layout)
           previous == IF group = NoTab THEN EmptyGroup ELSE group
       IN  proc' = [proc EXCEPT ![p].plan = desired, ![p].at = "ensure list",
                                ![p].todo = reconcileGroup(desired, previous).tabs]
    /\ UNCHANGED <<store, terminals, lock, commands, trouble, clash, history>>

EnsureList(p) ==
    /\ At(p, "ensure list")
    /\ proc' = [proc EXCEPT ![p].todo = Only(@, TabId \ alive),
                            ![p].at = "ensure run"]
    /\ UNCHANGED <<store, terminals, lock, commands, trouble, clash, history>>

EnsureRuntime(p) ==
    /\ At(p, "ensure run") /\ proc[p].todo # <<>>
    /\ \/ /\ Create(Head(proc[p].todo))
          /\ proc' = [proc EXCEPT ![p].todo = Tail(@), ![p].made = @ \cup {Head(proc[p].todo)}]
          /\ UNCHANGED <<lock, trouble, history>>
       \/ TroubleComes /\ Fail(p) /\ UNCHANGED <<alive, panicked, late>>
    /\ UNCHANGED <<store, typed, running, mark, commands, clash>>

\* The group is reconciled again with what it is now; planned tabs of an older
\* layout leave it, and their terminals stay.
EnsureUpsert(p) ==
    /\ At(p, "ensure run") /\ proc[p].todo = <<>>
    /\ LET current == IF group = NoTab THEN EmptyGroup ELSE group
           new == reconcileGroup(proc[p].plan, current)
       IN  /\ group' = new
           /\ lost' = lost \cup {t \in alive : groupHasTab(current, t) /\ ~groupHasTab(new, t)}
    /\ Exit(p)
    /\ UNCHANGED <<layout, terminals, commands, trouble, clash, panicked, late>>

-----------------------------------------------------------------------------
\* Manager.EnsureTab, alone and as the first part of Manager.StartCommand.

EnsureTabGet(p) ==
    /\ At(p, "tab get")
    /\ IF group = NoTab THEN Exit(p) ELSE Goto(p, "tab list") /\ UNCHANGED lock
    /\ UNCHANGED <<store, terminals, commands, trouble, clash, history>>

EnsureTabList(p) ==
    /\ At(p, "tab list")
    /\ Goto(p, IF proc[p].tab \in alive THEN "tab update" ELSE "tab run")
    /\ UNCHANGED <<store, terminals, lock, commands, trouble, clash, history>>

EnsureTabRuntime(p) ==
    /\ At(p, "tab run")
    /\ \/ /\ Create(proc[p].tab)
          /\ proc' = [proc EXCEPT ![p].at = "tab update", ![p].made = {proc[p].tab}]
          /\ UNCHANGED <<lock, trouble>>
       \/ TroubleComes /\ Exit(p) /\ UNCHANGED alive
    /\ UNCHANGED <<store, typed, running, mark, commands, clash, history>>

EnsureTabUpdate(p) ==
    /\ At(p, "tab update")
    /\ \/ group = NoTab /\ Fail(p) /\ UNCHANGED group
       \/ /\ group # NoTab
          /\ group' = [group EXCEPT !.tabs =
                          IF Contains(@, proc[p].tab) THEN @ ELSE Append(@, proc[p].tab)]
          /\ IF proc[p].op = "start" THEN Goto(p, "start lock") /\ UNCHANGED lock ELSE Exit(p)
          /\ UNCHANGED lost
    /\ UNCHANGED <<layout, terminals, commands, trouble, clash, panicked, late>>

-----------------------------------------------------------------------------
\* Manager.startCommand: one command line typed into a terminal at its prompt.

\* Faulty withTerminalLock: a lock that is held is taken all the same.
withoutTerminalLock(p, before, inside) ==
    /\ At(p, before)
    /\ lock' = [lock EXCEPT ![proc[p].tab] = p]
    /\ Goto(p, inside)
    /\ UNCHANGED <<store, terminals, commands, trouble, clash, history>>

withTerminalLock(p, before, inside) ==
    /\ At(p, before)
    /\ lock[proc[p].tab] = NoTab
    /\ lock' = [lock EXCEPT ![proc[p].tab] = p]
    /\ Goto(p, inside)
    /\ UNCHANGED <<store, terminals, commands, trouble, clash, history>>

StartExistingCommand(p) ==
    /\ At(p, "start-existing")
    /\ IF group # NoTab /\ groupHasTab(group, proc[p].tab)
       THEN Goto(p, "start lock") /\ UNCHANGED lock ELSE Exit(p)
    /\ UNCHANGED <<store, terminals, commands, trouble, clash, history>>

\* The tab is in the group, its terminal is up and at its prompt, and no slis
\* command runs in it by its state file.
ShellCommandRunning(t) == mark[t] = "started" /\ running[t] = "slis"
Ready(t) ==
    /\ group # NoTab /\ groupHasTab(group, t)
    /\ t \in alive /\ running[t] = NoTab
    /\ ~ShellCommandRunning(t)

StartCheck(p) ==
    /\ At(p, "start check")
    /\ IF Ready(proc[p].tab) THEN Goto(p, "start type") /\ UNCHANGED lock ELSE Exit(p)
    /\ UNCHANGED <<store, terminals, commands, trouble, clash, history>>

\* The state file is removed and the line is typed; a program that took the
\* terminal meanwhile gets the line as its input.
StartShellCommand(p) ==
    /\ At(p, "start type")
    /\ LET t == proc[p].tab
       IN  /\ mark' = [mark EXCEPT ![t] = "none"]
           /\ IF t \in alive
              THEN /\ typed' = [typed EXCEPT ![t] = IF running[t] = NoTab THEN @ + 1 ELSE @]
                   /\ Goto(p, "start wait") /\ UNCHANGED lock
              ELSE Exit(p) /\ UNCHANGED typed
    /\ UNCHANGED <<store, alive, running, commands, trouble, clash, history>>

StartAccepted(p) ==
    /\ At(p, "start wait")
    /\ ShellCommandRunning(proc[p].tab) \/ mark[proc[p].tab] = "done"
    /\ Exit(p)
    /\ UNCHANGED <<store, terminals, commands, trouble, clash, history>>

\* The three seconds are over; the line stays typed.
StartDeadline(p) ==
    /\ At(p, "start wait")
    /\ late' = [late EXCEPT ![proc[p].tab] = @ + 1]
    /\ Exit(p)
    /\ UNCHANGED <<store, terminals, commands, trouble, clash, panicked, lost>>

-----------------------------------------------------------------------------
\* Manager.SendOnce, under the terminal's lock.

SendOncePrepare(p) ==
    /\ At(p, "send prepare")
    /\ IF group # NoTab /\ group.letter = NoTab
       THEN /\ group' = [group EXCEPT !.letter = [tab |-> proc[p].tab, status |-> "prepared"]]
            /\ Goto(p, "send") /\ UNCHANGED lock
       ELSE Exit(p) /\ UNCHANGED group
    /\ UNCHANGED <<layout, terminals, commands, trouble, clash, history>>

Send(p) ==
    /\ At(p, "send")
    /\ \/ /\ group # NoTab /\ groupHasTab(group, proc[p].tab) /\ proc[p].tab \in alive
          /\ Goto(p, "send mark") /\ UNCHANGED <<lock, trouble>>
       \/ /\ ~(group # NoTab /\ groupHasTab(group, proc[p].tab) /\ proc[p].tab \in alive)
          /\ Exit(p) /\ UNCHANGED trouble
       \/ TroubleComes /\ Exit(p)
    /\ UNCHANGED <<store, terminals, commands, clash, history>>

\* In a group that was deleted and made again the map of deliveries is nil.
SendOnceMark(p) ==
    /\ At(p, "send mark")
    /\ IF group # NoTab /\ group.letter # NoTab
       THEN group' = [group EXCEPT !.letter.status = "sent"] /\ UNCHANGED panicked
       ELSE panicked' = (panicked \/ group # NoTab) /\ UNCHANGED group
    /\ Exit(p)
    /\ UNCHANGED <<layout, terminals, commands, trouble, clash, lost, late>>

-----------------------------------------------------------------------------
Activate(t) ==
    /\ group # NoTab /\ groupHasTab(group, t)
    /\ group' = [group EXCEPT !.active = t]
    /\ UNCHANGED <<layout, terminals, lock, proc, commands, trouble, clash, history>>

\* Manager.Kill: every terminal of the group as it was read, then the group,
\* unless a terminal could not be killed.

KillGet(p) ==
    /\ At(p, "kill")
    /\ IF group = NoTab THEN Exit(p)
       ELSE /\ proc' = [proc EXCEPT ![p].at = "kill run", ![p].todo = group.tabs]
            /\ UNCHANGED lock
    /\ UNCHANGED <<store, terminals, commands, trouble, clash, history>>

KillRuntime(p) ==
    /\ At(p, "kill run") /\ proc[p].todo # <<>>
    /\ LET t == Head(proc[p].todo)
       IN  \/ /\ End(t) /\ mark' = [mark EXCEPT ![t] = "none"]
              /\ proc' = [proc EXCEPT ![p].todo = Tail(@)]
              /\ UNCHANGED trouble
           \/ /\ TroubleComes
              /\ proc' = [proc EXCEPT ![p].todo = Tail(@), ![p].failed = TRUE]
              /\ UNCHANGED <<terminals, lost, late>>
    /\ UNCHANGED <<store, lock, commands, clash, panicked>>

\* Faulty KillDelete: the group goes also when a terminal could not be killed.
KillDeleteAlways(p) ==
    /\ At(p, "kill run") /\ proc[p].todo = <<>>
    /\ group' = NoTab
    /\ Exit(p)
    /\ UNCHANGED <<layout, terminals, commands, trouble, clash, history>>

KillDelete(p) ==
    /\ At(p, "kill run") /\ proc[p].todo = <<>>
    /\ group' = IF proc[p].failed THEN group ELSE NoTab
    /\ Exit(p)
    /\ UNCHANGED <<layout, terminals, commands, trouble, clash, history>>

\* Manager.KillTab, under the terminal's lock.

KillTabGet(p) ==
    /\ At(p, "tab kill get")
    /\ IF group # NoTab /\ groupHasTab(group, proc[p].tab)
       THEN /\ proc' = [proc EXCEPT ![p].at = "tab kill", ![p].todo = group.tabs]
            /\ UNCHANGED lock
       ELSE Exit(p)
    /\ UNCHANGED <<store, terminals, commands, trouble, clash, history>>

KillTabRuntime(p) ==
    /\ At(p, "tab kill")
    /\ \/ /\ End(proc[p].tab) /\ mark' = [mark EXCEPT ![proc[p].tab] = "none"]
          /\ Goto(p, "tab kill update") /\ UNCHANGED <<lock, trouble>>
       \/ TroubleComes /\ Exit(p) /\ UNCHANGED <<terminals, lost, late>>
    /\ UNCHANGED <<store, commands, clash, panicked>>

\* The last tab by the group that was read takes the group with it; else the
\* tab leaves the group as it is now, its deliveries with it, and its left
\* neighbour becomes active.  With no neighbour left that is an index out of
\* range, and nothing is written.
withoutTab(g, t) ==
    LET i == SelectInSeq(g.tabs, LAMBDA u : u = t)
        tabs == RemoveAt(g.tabs, i)
    IN  [tabs |-> tabs,
         active |-> IF g.active # t THEN g.active ELSE tabs[IF i > 1 THEN i - 1 ELSE 1],
         letter |-> IF g.letter # NoTab /\ g.letter.tab = t THEN NoTab ELSE g.letter]

KillTabUpdate(p) ==
    /\ At(p, "tab kill update")
    /\ LET t == proc[p].tab
           outOfRange == group.tabs = <<t>> /\ group.active = t
       IN  IF Len(proc[p].todo) = 1
           THEN group' = NoTab /\ UNCHANGED panicked
           ELSE IF group = NoTab THEN UNCHANGED <<group, panicked>>
           ELSE IF ~groupHasTab(group, t) THEN UNCHANGED <<group, panicked>>
           ELSE /\ panicked' = (panicked \/ outOfRange)
                /\ group' = IF outOfRange THEN group ELSE withoutTab(group, t)
    /\ Exit(p)
    /\ UNCHANGED <<layout, terminals, commands, trouble, clash, lost, late>>

-----------------------------------------------------------------------------
\* What happens in the terminals, and to processes and configuration.

ShellReads(t) ==
    /\ typed[t] > 0 /\ running[t] = NoTab
    /\ typed' = [typed EXCEPT ![t] = @ - 1]
    /\ running' = [running EXCEPT ![t] = "slis"]
    /\ mark' = [mark EXCEPT ![t] = "started"]
    /\ UNCHANGED <<store, alive, lock, proc, commands, trouble, clash, history>>

\* A command that is interrupted leaves no "done" in its state file.
ProgramEnds(t) ==
    /\ running[t] # NoTab
    /\ running' = [running EXCEPT ![t] = NoTab]
    /\ \E m \in {"done", mark[t]} : mark' = [mark EXCEPT ![t] = IF running[t] = "slis" THEN m ELSE @]
    /\ late' = [late EXCEPT ![t] = IF typed[t] = 0 THEN 0 ELSE @]
    /\ UNCHANGED <<store, alive, typed, lock, proc, commands, trouble, clash, panicked, lost>>

UserRuns(t) ==
    /\ t \in alive /\ running[t] = NoTab /\ typed[t] = 0 /\ TroubleComes
    /\ running' = [running EXCEPT ![t] = "user"]
    /\ UNCHANGED <<store, alive, typed, mark, lock, proc, commands, clash, history>>

TerminalEnds(t) ==
    /\ t \in alive
    /\ End(t)
    /\ UNCHANGED <<store, mark, lock, proc, commands, trouble, clash, panicked>>

ProcessKilled(p) ==
    /\ ~At(p, "idle")
    /\ TroubleComes
    /\ late' = IF At(p, "start wait") THEN [late EXCEPT ![proc[p].tab] = @ + 1] ELSE late
    /\ Fail(p)
    /\ UNCHANGED <<store, terminals, commands, clash, panicked>>

LayoutChanges ==
    /\ TroubleComes
    /\ layout' \in Layouts \ {layout}
    /\ UNCHANGED <<group, terminals, lock, proc, commands, clash, history>>

-----------------------------------------------------------------------------
TabCommand(p) ==
    \/ EnsureGet(p) \/ EnsureList(p) \/ EnsureRuntime(p) \/ EnsureUpsert(p)
    \/ EnsureTabGet(p) \/ EnsureTabList(p) \/ EnsureTabRuntime(p) \/ EnsureTabUpdate(p)
    \/ StartExistingCommand(p) \/ withTerminalLock(p, "start lock", "start check")
    \/ StartCheck(p) \/ StartShellCommand(p) \/ StartAccepted(p) \/ StartDeadline(p)
    \/ withTerminalLock(p, "send-once", "send prepare")
    \/ SendOncePrepare(p) \/ Send(p) \/ SendOnceMark(p)
    \/ KillGet(p) \/ KillRuntime(p) \/ KillDelete(p)
    \/ withTerminalLock(p, "kill-tab", "tab kill get")
    \/ KillTabGet(p) \/ KillTabRuntime(p) \/ KillTabUpdate(p)

TabsNext ==
    \/ \E p \in Process : \/ BeginGroupCommand(p) \/ BeginTabCommand(p) \/ BeginTerminalCommand(p)
                          \/ TabCommand(p) \/ ProcessKilled(p)
    \/ \E t \in TabId : \/ Activate(t) \/ ShellReads(t) \/ ProgramEnds(t)
                        \/ UserRuns(t) \/ TerminalEnds(t)
    \/ LayoutChanges

TabsSpec == TabsInit /\ [][TabsNext]_tabsVars

-----------------------------------------------------------------------------
\* Every variable has its type; the group has no tab twice, and its active tab is
\* one of them.
TabsTypeOK ==
    /\ layout \in Layouts
    /\ group \in {NoTab} \cup [tabs : Seq(TabId), active : TabId \cup {NoTab}, letter : Delivery \cup {NoTab}]
    /\ alive \subseteq TabId
    /\ typed \in [TabId -> Nat] /\ late \in [TabId -> Nat]
    /\ running \in [TabId -> {NoTab, "slis", "user"}]
    /\ mark \in [TabId -> {"none", "started", "done"}]
    /\ lock \in [TabId -> Process \cup {NoTab}]
    /\ DOMAIN proc = Process
    /\ commands \in 0 .. MaxCommands /\ trouble \in 0 .. MaxTrouble
    /\ clash \in BOOLEAN /\ panicked \in BOOLEAN
    /\ lost \subseteq TabId
    /\ group # NoTab => IsInjective(group.tabs) /\ groupHasTab(group, group.active)

\* As long as no command that closes tabs runs beside another one, nothing
\* panics and no terminal is forgotten: one that runs is in the slice's group, or
\* the command that created it is about to record it, or its creator died or
\* failed, or a layout dropped its tab.  Commands that add tabs never lose each
\* other's, and a kill that fails keeps the group.
ClosingAloneIsSafe ==
    ~clash =>
        /\ ~panicked
        /\ \A t \in alive :
              \/ group # NoTab /\ groupHasTab(group, t)
              \/ \E p \in Process : t \in proc[p].made
              \/ t \in lost

\* Two slis command lines are in one terminal, typed or running, only when the
\* command that typed the first one gave up or was killed before it ran.
OneCommandPerTerminal ==
    \A t \in TabId : typed[t] + (IF running[t] = "slis" THEN 1 ELSE 0) <= 1 + late[t]
=============================================================================
