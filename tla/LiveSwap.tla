-------------------------------- MODULE LiveSwap --------------------------------
(***************************************************************************)
(* How the interface swaps slices (tui-js/src: app.tsx, live/mirror.ts,    *)
(* rpc/mutate.ts, overlays/useOverlays.tsx): it runs activate, deactivate  *)
(* and recover-activation as processes, holds a live-sync process while a  *)
(* slice is live, and resets the slice when it quits.                      *)
(*                                                                         *)
(* What the commands do to the primaries is SwapEngine's; here they only   *)
(* say whose slice is live.  The interface is one thread: its callbacks    *)
(* run one at a time, between them the user's keys and the processes.      *)
(***************************************************************************)
EXTENDS Naturals, Sequences, FiniteSets

CONSTANTS
    LiveSlice,      \* the slices
    SwapJob,        \* swaps and resets that the user starts
    MaxConfirms,    \* bound: confirmed swaps
    MaxMirrors,     \* bound: live-sync processes
    MaxLiveTrouble  \* bound: ticks, quits, failures of live-sync, rollbacks that fail, other news

ASSUME LiveAssumption ==
    /\ {"none", "idle", "asked", "unknown"} \cap LiveSlice = {}
    /\ {"recover", "quit"} \cap SwapJob = {}
    /\ MaxConfirms \in Nat /\ MaxMirrors \in Nat /\ MaxLiveTrouble \in Nat
    /\ MaxMirrors > MaxConfirms

VARIABLES
    journalOf,  \* the slice of the journal, "none" without one
    lsShown,    \* the live slice of the listing that is shown, "unknown" at first
    lsCall,     \* the listing under way: "idle", "asked", or the live slice it has read
    dialog,     \* the overlay: [kind, slice, active, replacing]
    job,        \* what awaits processes: [kind, at, plan, handoff, wasActive, awaits]
    mirror,     \* per live-sync process: "none", "new", "mirrors", how it ended, or "heard"
    held,       \* the one LiveMirrorManager holds, 0 for none (process)
    stopping,   \* the one whose stop it reports nothing of (stoppingProcess)
    told,       \* those whose standard input was closed
    gone,       \* the interface has exited
    confirms, liveTrouble

VARIABLES
    crossed,    \* the user swapped before the check of the start was answered, or
                \* something else was shown in place of a swap under way
    astray      \* the user was told of a failure, or the question of the start was taken
                \* off the screen unanswered, and no swap succeeded since

shows == <<lsShown, lsCall>>
manager == <<mirror, held, stopping, told>>
liveBounds == <<confirms, liveTrouble>>
liveVars == <<journalOf, shows, dialog, job, manager, gone, liveBounds, crossed, astray>>

Jobs == SwapJob \cup {"recover", "quit"}
Mirrors == 1 .. MaxMirrors

NoDialog == [kind |-> "none", slice |-> "none", active |-> FALSE, replacing |-> "none"]
Dialog(kind) == [NoDialog EXCEPT !.kind = kind]
NoJob == [kind |-> "none", at |-> "idle", plan |-> <<>>, handoff |-> FALSE, wasActive |-> FALSE,
          awaits |-> 0]
Deactivate == [op |-> "deactivate", slice |-> "none"]

Runs(m) == mirror[m] \in {"new", "mirrors"}
Commands == {j \in Jobs : job[j].at \in {"checked", "written"}}

LiveInit ==
    /\ journalOf \in LiveSlice \cup {"none"}
    /\ lsShown = "unknown" /\ lsCall = "asked"
    /\ dialog = NoDialog
    /\ job = [j \in Jobs |-> NoJob]
    /\ mirror = [m \in Mirrors |-> "none"] /\ held = 0 /\ stopping = 0 /\ told = {}
    /\ gone = FALSE
    /\ confirms = 0 /\ liveTrouble = 0
    /\ crossed = FALSE /\ astray = FALSE

LiveTrouble == liveTrouble < MaxLiveTrouble /\ liveTrouble' = liveTrouble + 1

\* A listing that is under way is joined.
refresh == lsCall' = IF lsCall = "idle" THEN "asked" ELSE lsCall

\* Another overlay takes the place of the one that is shown.
Shows(kind) ==
    /\ dialog' = Dialog(kind)
    /\ crossed' = (crossed \/ dialog.kind = "working")

-----------------------------------------------------------------------------
\* LiveMirrorManager.start: one process at a time.
start ==
    LET new == {m \in Mirrors : mirror[m] = "none"}
    IN  IF held # 0 \/ new = {} THEN UNCHANGED <<mirror, held>>
        ELSE LET m == CHOOSE n \in new : \A k \in new : n <= k
             IN  held' = m /\ mirror' = [mirror EXCEPT ![m] = "new"]

\* Faulty stop: the end of the process is not awaited.
stopUnawaited(j, begun) ==
    /\ held' = 0
    /\ job' = [job EXCEPT ![j] = [begun EXCEPT !.at = "stopped"]]
    /\ stopping' = held /\ told' = told \cup ({held} \ {0})

\* LiveMirrorManager.stop: the process is told, and awaited before the job goes on.
stop(j, begun) ==
    /\ held' = 0
    /\ IF held = 0
       THEN /\ job' = [job EXCEPT ![j] = [begun EXCEPT !.at = "stopped"]]
            /\ UNCHANGED <<stopping, told>>
       ELSE /\ job' = [job EXCEPT ![j] = [begun EXCEPT !.at = "stopping", !.awaits = held]]
            /\ stopping' = held /\ told' = told \cup {held}

MirrorStopped(j) ==
    /\ job[j].at = "stopping" /\ ~Runs(job[j].awaits) /\ ~gone
    /\ job' = [job EXCEPT ![j].at = "stopped", ![j].awaits = 0]
    /\ stopping' = IF stopping = job[j].awaits THEN 0 ELSE stopping
    /\ UNCHANGED <<journalOf, shows, dialog, mirror, held, told, gone, liveBounds, crossed,
                   astray>>

\* live-sync: without a journal it ends at its first round.
MirrorBegins(m) ==
    /\ mirror[m] = "new"
    /\ mirror' = [mirror EXCEPT ![m] = IF journalOf = "none" THEN "clean" ELSE "mirrors"]
    /\ UNCHANGED <<journalOf, shows, dialog, job, held, stopping, told, gone, liveBounds, crossed,
                   astray>>

\* It ends when its input does, with an error, or with the journal archived.
MirrorEnds(m) ==
    /\ Runs(m)
    /\ \/ /\ m \in told
          /\ mirror' = [mirror EXCEPT ![m] = "clean"]
          /\ UNCHANGED <<journalOf, liveTrouble>>
       \/ /\ LiveTrouble
          /\ mirror' = [mirror EXCEPT ![m] = "error"]
          /\ UNCHANGED journalOf
       \/ /\ LiveTrouble /\ journalOf # "none"
          /\ mirror' = [mirror EXCEPT ![m] = "drift"]
          /\ journalOf' = "none"
    /\ UNCHANGED <<shows, dialog, job, held, stopping, told, gone, confirms, crossed, astray>>

\* The manager hears of an end, before or after the stop that awaits it.
MirrorEndHeard(m) ==
    /\ mirror[m] \in {"clean", "error", "drift"} /\ ~gone
    /\ mirror' = [mirror EXCEPT ![m] = "heard"]
    /\ held' = IF held = m THEN 0 ELSE held
    /\ stopping' = IF stopping = m THEN 0 ELSE stopping
    /\ CASE stopping = m \/ mirror[m] = "clean" -> UNCHANGED <<shows, dialog, crossed, astray>>
         [] stopping # m /\ mirror[m] = "drift" ->
                refresh /\ astray' = TRUE /\ UNCHANGED <<lsShown, dialog, crossed>>
         [] stopping # m /\ mirror[m] = "error" ->
                Shows("result") /\ astray' = TRUE /\ UNCHANGED shows
    /\ UNCHANGED <<journalOf, job, told, gone, liveBounds>>

-----------------------------------------------------------------------------
\* The user: openSwap takes what is shown, the dialog is confirmed or closed.
openSwap(s) ==
    /\ dialog.kind = "none" /\ lsShown # "unknown" /\ ~gone
    /\ dialog' = [kind |-> "swap", slice |-> s, active |-> lsShown = s,
                  replacing |-> IF lsShown = s THEN "none" ELSE lsShown]
    /\ UNCHANGED <<journalOf, shows, job, manager, gone, liveBounds, crossed, astray>>

CloseDialog ==
    /\ dialog.kind \in {"swap", "result"} /\ ~gone
    /\ dialog' = NoDialog
    /\ UNCHANGED <<journalOf, shows, job, manager, gone, liveBounds, crossed, astray>>

swapPlan(d) ==
    LET Activate == [op |-> "activate", slice |-> d.slice]
    IN  IF d.active THEN <<Deactivate>>
        ELSE IF d.replacing # "none" THEN <<Deactivate, Activate>> ELSE <<Activate>>

runSwapWithLiveMirror(j) ==
    /\ dialog.kind = "swap" /\ job[j].at = "idle" /\ confirms < MaxConfirms /\ ~gone
    /\ confirms' = confirms + 1
    /\ dialog' = Dialog("working")
    /\ crossed' = (crossed \/ job["recover"].at # "idle")
    /\ stop(j, [NoJob EXCEPT !.kind = "swap", !.plan = swapPlan(dialog),
                             !.wasActive = dialog.active, !.handoff = Len(swapPlan(dialog)) = 2])
    /\ UNCHANGED <<journalOf, shows, mirror, gone, liveTrouble, astray>>

\* The question of the start: reset the slice, or go on mirroring it.
ResetLive(j) ==
    /\ dialog.kind = "recovery" /\ job[j].at = "idle" /\ confirms < MaxConfirms /\ ~gone
    /\ confirms' = confirms + 1
    /\ dialog' = Dialog("working")
    /\ stop(j, [NoJob EXCEPT !.kind = "reset", !.plan = <<Deactivate>>])
    /\ UNCHANGED <<journalOf, shows, mirror, gone, liveTrouble, crossed, astray>>

Reactivate ==
    /\ dialog.kind = "recovery" /\ ~gone
    /\ dialog' = NoDialog
    /\ start
    /\ UNCHANGED <<journalOf, shows, job, stopping, told, gone, liveBounds, crossed, astray>>

quit ==
    /\ LiveTrouble /\ job["quit"].kind = "none" /\ ~gone
    /\ stop("quit", [NoJob EXCEPT !.kind = "quit", !.plan = <<Deactivate>>])
    /\ UNCHANGED <<journalOf, shows, dialog, mirror, gone, confirms, crossed, astray>>

\* What becomes of other commands of the user, of reviews, comments, terminals and
\* slices that are created, is shown over whatever is, the question of the start too;
\* or what is shown is closed when they have ended well.
OtherNews ==
    /\ LiveTrouble /\ ~gone
    /\ \E kind \in {"result", "none"} : Shows(kind)
    /\ \E failed \in BOOLEAN : astray' = (astray \/ failed \/ dialog.kind = "recovery")
    /\ UNCHANGED <<journalOf, shows, job, manager, gone, confirms>>

-----------------------------------------------------------------------------
\* Faulty: what came of a swap in is taken for what came of any swap.
activeAfterSuccess(swap, ok) == IF swap.handoff THEN Len(swap.plan) = 2 \/ ok ELSE ok

\* SwapResult.activeAfter.
activeAfter(swap, ok) ==
    IF swap.handoff THEN Len(swap.plan) = 2 \/ ok
    ELSE IF ok THEN ~swap.wasActive ELSE swap.wasActive

\* What follows the end of a command: the other half of a handoff, or live-sync
\* again, the news and a listing.
SwapSettles(j, ok) ==
    IF ok /\ Len(job[j].plan) = 2
    THEN /\ job' = [job EXCEPT ![j].plan = Tail(@), ![j].at = "stopped"]
         /\ UNCHANGED <<shows, dialog, mirror, held, astray>>
    ELSE /\ job' = [job EXCEPT ![j] = NoJob]
         /\ IF job[j].kind = "swap" /\ activeAfter(job[j], ok)
            THEN start ELSE UNCHANGED <<mirror, held>>
         /\ dialog' = IF ok THEN NoDialog ELSE Dialog("result")
         /\ astray' = ~ok
         /\ refresh /\ UNCHANGED lsShown

RecoverSettles(how) ==
    /\ job' = [job EXCEPT !["recover"].at = "idle", !["recover"].plan = <<>>]
    /\ CASE how = "failed" -> Shows("result") /\ astray' = TRUE /\ UNCHANGED shows
         [] how = "drift" -> refresh /\ astray' = TRUE /\ UNCHANGED <<lsShown, dialog, crossed>>
         [] how = "ok" /\ job["recover"].plan[1].slice = "none" ->
                UNCHANGED <<shows, dialog, crossed, astray>>
         [] how = "ok" /\ job["recover"].plan[1].slice # "none" ->
                Shows("recovery") /\ UNCHANGED <<shows, astray>>

\* The end of a command is heard.
Settles(j, how) ==
    CASE j \in SwapJob -> SwapSettles(j, how # "failed") /\ UNCHANGED <<told, gone, crossed>>
      [] j = "recover" -> RecoverSettles(how) /\ UNCHANGED <<mirror, held, told, gone>>
      [] j = "quit" -> /\ job' = [job EXCEPT ![j].at = "idle"] /\ gone' = TRUE /\ told' = Mirrors
                       /\ dialog' = NoDialog /\ lsCall' = "idle"
                       /\ UNCHANGED <<lsShown, mirror, held, astray, crossed>>

\* When the interface has exited, nobody hears of it.
Ends(j, how) ==
    IF gone THEN /\ job' = [job EXCEPT ![j].at = "idle"]
                 /\ UNCHANGED <<shows, dialog, mirror, held, told, gone, astray, crossed>>
    ELSE Settles(j, how)

\* A job whose stop is done runs its next command, which looks at the journal
\* first; a quit only when a slice is shown as live, else it exits.
CommandStarts(j) ==
    LET op == job[j].plan[1].op
    IN  /\ job[j].at = "stopped" /\ ~gone
        /\ IF j = "quit" /\ lsShown \in {"none", "unknown"} THEN Settles(j, "ok")
           ELSE IF op = "activate" /\ journalOf # "none" THEN Settles(j, "failed")
           ELSE IF op # "activate" /\ journalOf = "none" THEN Settles(j, "ok")
           ELSE /\ job' = [job EXCEPT ![j].at = "checked"]
                /\ UNCHANGED <<shows, dialog, mirror, held, told, gone, astray, crossed>>
        /\ UNCHANGED <<journalOf, stopping, liveBounds>>

ActivateWrites(j) ==
    /\ job[j].at = "checked" /\ job[j].plan[1].op = "activate"
    /\ job' = [job EXCEPT ![j].at = "written"]
    /\ journalOf' = job[j].plan[1].slice
    /\ UNCHANGED <<shows, dialog, manager, gone, liveBounds, crossed, astray>>

\* Done; or failed and rolled back, or not rolled back, or killed for its time.
ActivateEnds(j) ==
    /\ job[j].at \in {"checked", "written"} /\ job[j].plan[1].op = "activate"
    /\ \/ /\ job[j].at = "written" /\ Ends(j, "ok")
          /\ journalOf' = job[j].plan[1].slice
          /\ UNCHANGED liveTrouble
       \/ /\ Ends(j, "failed")
          /\ journalOf' = "none"
          /\ UNCHANGED liveTrouble
       \/ /\ Ends(j, "failed") /\ LiveTrouble
          /\ UNCHANGED journalOf
    /\ UNCHANGED <<stopping, confirms>>

\* Restored; refused or killed; or, drifted, archived and left as it is, which ends
\* a deactivate well too.
OtherEnds(j) ==
    /\ job[j].at = "checked" /\ job[j].plan[1].op # "activate"
    /\ \/ /\ Ends(j, "ok")
          /\ journalOf' = IF job[j].plan[1].op = "deactivate" THEN "none" ELSE journalOf
       \/ /\ Ends(j, "drift")
          /\ journalOf' = "none"
       \/ /\ Ends(j, "failed")
          /\ UNCHANGED journalOf
    /\ UNCHANGED <<stopping, liveBounds>>

-----------------------------------------------------------------------------
\* Listings: on a tick, read, and shown; the first one starts the check.
Tick ==
    /\ LiveTrouble /\ ~gone
    /\ refresh
    /\ UNCHANGED <<journalOf, lsShown, dialog, job, manager, gone, confirms, crossed, astray>>

LsReads ==
    /\ lsCall = "asked" /\ ~gone
    /\ lsCall' = journalOf
    /\ UNCHANGED <<journalOf, lsShown, dialog, job, manager, gone, liveBounds, crossed,
                   astray>>

LsAnswers ==
    /\ lsCall \notin {"idle", "asked"} /\ ~gone
    /\ lsShown' = lsCall /\ lsCall' = "idle"
    /\ job' = IF job["recover"].kind = "none"
              THEN [job EXCEPT !["recover"] =
                       [NoJob EXCEPT !.kind = "recover", !.at = "stopped",
                                     !.plan = <<[op |-> "recover-activation", slice |-> lsCall]>>]]
              ELSE job
    /\ UNCHANGED <<journalOf, dialog, manager, gone, liveBounds, crossed, astray>>

LiveNext ==
    \/ \E s \in LiveSlice : openSwap(s)
    \/ \E j \in SwapJob : runSwapWithLiveMirror(j) \/ ResetLive(j)
    \/ \E j \in Jobs : MirrorStopped(j) \/ CommandStarts(j)
                       \/ ActivateWrites(j) \/ ActivateEnds(j) \/ OtherEnds(j)
    \/ \E m \in Mirrors : MirrorBegins(m) \/ MirrorEnds(m) \/ MirrorEndHeard(m)
    \/ CloseDialog \/ Reactivate \/ quit \/ OtherNews \/ Tick \/ LsReads \/ LsAnswers

LiveSpec == LiveInit /\ [][LiveNext]_liveVars

-----------------------------------------------------------------------------
\* Every variable of the interface's swaps has its type.
LiveTypeOK ==
    /\ {journalOf, lsShown, lsCall} \subseteq LiveSlice \cup {"none", "unknown", "idle", "asked"}
    /\ dialog.kind \in {"none", "swap", "working", "result", "recovery"}
    /\ \A j \in Jobs :
          /\ job[j].at \in {"idle", "stopping", "stopped", "checked", "written"}
          /\ job[j].awaits \in 0 .. MaxMirrors /\ Len(job[j].plan) \in 0 .. 2
    /\ mirror \in [Mirrors -> {"none", "new", "mirrors", "clean", "error", "drift", "heard"}]
    /\ held \in 0 .. MaxMirrors /\ stopping \in 0 .. MaxMirrors /\ told \subseteq Mirrors
    /\ gone \in BOOLEAN /\ crossed \in BOOLEAN /\ astray \in BOOLEAN

\* Two of the processes that move primaries - swap commands, the check of the start,
\* live-sync - are at work at once only when the user swapped before that check
\* was answered, when something was shown over a swap under way, or at a quit.
SwapsRunAlone ==
    Cardinality(Commands) + Cardinality({m \in Mirrors : Runs(m)}) > 1 =>
        crossed \/ job["quit"].kind = "quit"

\* At rest live-sync is up exactly when a slice is live, unless since the last swap
\* that succeeded the user was told of a failure, or something was shown in place of
\* the question whether to go on mirroring, which is asked once and not again.
MirrorUpWhileLive ==
    LET resting == /\ \A j \in Jobs : job[j].at = "idle"
                   /\ \A m \in Mirrors : mirror[m] \notin {"clean", "error", "drift"}
                   /\ job["recover"].kind # "none" /\ dialog.kind # "recovery"
                   /\ job["quit"].kind = "none"
    IN  resting /\ ~(crossed \/ astray) =>
            (journalOf # "none" <=> \E m \in Mirrors : m = held /\ Runs(m))
=============================================================================
