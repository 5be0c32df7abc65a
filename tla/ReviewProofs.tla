----------------------------- MODULE ReviewProofs -----------------------------
(***************************************************************************)
(* The review conversation, for every set of messages, tabs and bounds:    *)
(* deliveries and waiting messages, with no assumption on what posts when; *)
(* then the order of messages, and the ledger, when commands post in the   *)
(* order they stamp.                                                       *)
(***************************************************************************)
EXTENDS ReviewInv, TLAPS

-----------------------------------------------------------------------------
(* Deliveries.                                                             *)

LEMMA DeliveryInit == Init => DeliveryInvariant
<1> SUFFICES ASSUME Init PROVE DeliveryInvariant
  OBVIOUS
<1>1. TypeOK
  <2>1. trouble \in 0..MaxTrouble
    BY ReviewAssumption DEF Init
  <2>2. /\ stamp \in [Msg -> Nat] /\ replies \in [Msg -> Nat]
        /\ deliveries \in [Msg -> Delivery \cup {None}]
        /\ mpc \in [Msg -> CommandSteps] /\ heard \in [Msg -> [Tab -> Nat]]
    BY DEF Init, CommandSteps
  <2>3. status \in Status /\ pc \in ReviewerSteps
    BY DEF Init, Status, ReviewerSteps
  <2> QED BY <2>1, <2>2, <2>3 DEF Init, TypeOK
<1>2. CopyOfTurn /\ ReplyFirst /\ HandedOver
  BY DEF Init, CopyOfTurn, ReplyFirst, HandedOver, Composing, Delivering, Staged, Answering
<1>3. HeardIsRecorded
  BY DEF Init, HeardIsRecorded
<1> QED BY <1>1, <1>2, <1>3 DEF DeliveryInvariant

\* The commands of the user touch nothing of the reviewer's.
LEMMA CommandDelivers ==
    ASSUME DeliveryInvariant, NEW m \in Msg, Stamp(m) \/ Command(m) \/ KillCommand(m)
    PROVE  DeliveryInvariant'
<1>1. UNCHANGED <<findingCount, lastRequest, replies, turn, tabs, deliveries, agents,
                  pc, mine, prompt, target, prompted, pasted, heard>>
  BY DEF Stamp, Command, KillCommand, Post, Recheck, Ask, SetQueued, EnsureReviewTab,
     ResolveFails, FindTerminalBusy, StartReviewer, StartFails, SeeAccepted, AwaitTimesOut,
     GiveUp, commandUnchanged, runFile, session, runtime, reviewer, ghosts
<1>2. TypeOK'
  <2>1. clock' \in Nat /\ stamp' \in [Msg -> Nat] /\ posted' \subseteq Msg
    BY DEF DeliveryInvariant, TypeOK, Stamp, Command, KillCommand, Post, Recheck, Ask,
       SetQueued, EnsureReviewTab, ResolveFails, FindTerminalBusy, StartReviewer,
       StartFails, SeeAccepted, AwaitTimesOut, GiveUp, commandUnchanged, messages
  <2>2. status' \in Status /\ trouble' \in 0..MaxTrouble
    BY ReviewAssumption DEF DeliveryInvariant, TypeOK, Stamp, Command, KillCommand, Post,
       Recheck, Ask, SetQueued, EnsureReviewTab, ResolveFails, FindTerminalBusy,
       StartReviewer, StartFails, SeeAccepted, AwaitTimesOut, GiveUp, commandUnchanged,
       runFile, Status, Trouble
  <2>3. /\ listed' = listed \/ listed' = TRUE
        /\ terminal' = terminal \/ terminal' = TRUE
        /\ accepted' = accepted \/ accepted' = FALSE
        /\ typed' = typed \/ typed' = typed + 1
    BY DEF Stamp, Command, KillCommand, Post, Recheck, Ask, SetQueued, EnsureReviewTab,
     ResolveFails, FindTerminalBusy, StartReviewer, StartFails, SeeAccepted, AwaitTimesOut,
     GiveUp, session, runtime
  <2>4. mpc' \in [Msg -> CommandSteps]
    BY DEF DeliveryInvariant, TypeOK, Stamp, Command, KillCommand, Post, Recheck, Ask,
       SetQueued, EnsureReviewTab, ResolveFails, FindTerminalBusy, StartReviewer,
       StartFails, SeeAccepted, AwaitTimesOut, GiveUp, Goes, CommandSteps
  <2>5. listed' \in BOOLEAN /\ terminal' \in BOOLEAN /\ accepted' \in BOOLEAN
    BY <2>3, Zenon DEF DeliveryInvariant, TypeOK
  <2>6. typed' \in Nat
    BY <2>3 DEF DeliveryInvariant, TypeOK
  <2>7. late' \subseteq Msg
    BY DEF DeliveryInvariant, TypeOK, Stamp, Command, KillCommand, Post, Recheck, Ask,
       SetQueued, EnsureReviewTab, ResolveFails, FindTerminalBusy, StartReviewer,
       StartFails, SeeAccepted, AwaitTimesOut, GiveUp, commandUnchanged, ghosts
  <2> QED BY <1>1, <2>1, <2>2, <2>4, <2>5, <2>6, <2>7, Zenon DEF DeliveryInvariant, TypeOK
<1>3. (CopyOfTurn /\ ReplyFirst /\ HandedOver /\ HeardIsRecorded)'
  BY <1>1 DEF DeliveryInvariant, CopyOfTurn, ReplyFirst, HandedOver, HeardIsRecorded
<1> QED BY <1>2, <1>3 DEF DeliveryInvariant

\* What a step of the reviewer can change, and what of it has to be typed.
ReviewerTyped ==
    /\ status \in Status /\ findingCount \in Nat /\ lastRequest \in Msg \cup {None}
    /\ replies \in [Msg -> Nat] /\ turn \in Turn \cup {None}
    /\ tabs \subseteq Tab /\ deliveries \in [Msg -> Delivery \cup {None}]
    /\ agents \subseteq Tab
    /\ pc \in ReviewerSteps /\ mine \in Turn \cup {None}
    /\ prompt \subseteq Msg /\ target \in Tab \cup {None}
    /\ prompted \subseteq Msg /\ late \subseteq Msg /\ pasted \subseteq Msg
    /\ heard \in [Msg -> [Tab -> Nat]]

LEMMA ReviewerTypes ==
    ASSUME TypeOK, reviewerUnchanged, ReviewerTyped'
    PROVE  TypeOK'
BY Zenon DEF TypeOK, reviewerUnchanged, messages, ReviewerTyped

LEMMA ShellTakesBackDelivers == DeliveryInvariant /\ ShellTakesBack => DeliveryInvariant'
<1> SUFFICES ASSUME DeliveryInvariant, ShellTakesBack PROVE DeliveryInvariant'
  OBVIOUS
<1>1. ReviewerTyped'
  BY DEF ShellTakesBack, DeliveryInvariant, TypeOK, ReviewerTyped, Step, runFile, session,
     ghosts, ReviewerSteps, Status, ReviewerGone
<1>2. TypeOK'
  BY <1>1, ReviewerTypes DEF ShellTakesBack, DeliveryInvariant
<1>3. (CopyOfTurn /\ ReplyFirst)'
  BY DEF ShellTakesBack, DeliveryInvariant, TypeOK, CopyOfTurn, ReplyFirst, Step, runFile,
     Composing, Delivering, Staged, Answering, ReviewerGone
<1>4. (HandedOver /\ HeardIsRecorded)'
  BY DEF ShellTakesBack, DeliveryInvariant, TypeOK, CopyOfTurn, HandedOver, HeardIsRecorded,
     Step, session, ghosts, Composing, Delivering, Staged, Answering, ReviewerGone
<1> QED BY <1>2, <1>3, <1>4 DEF DeliveryInvariant

LEMMA ReadDelivers == DeliveryInvariant /\ Read => DeliveryInvariant'
<1> SUFFICES ASSUME DeliveryInvariant, Read PROVE DeliveryInvariant'
  OBVIOUS
<1>1. UNCHANGED <<status, findingCount, lastRequest, replies, turn, tabs, deliveries,
                  agents, target, prompted, late, pasted, heard>>
  BY DEF Read, runFile, session, ghosts
<1>2. \/ /\ turn # None /\ mine' = turn /\ prompt' = prompt
         /\ pc' \in {"resume", "clear"}
         /\ pc' = "clear" => turn.request = lastRequest
      \/ /\ turn = None /\ prompt' = posted /\ pc' = "run"
         /\ \E m \in Msg : mine' = [request |-> m, count |-> 0, delivered |-> FALSE]
      \/ pc' = "done" /\ mine' = mine /\ prompt' = prompt
  BY DEF Read, Step, Recorded
<1>3. mine' \in Turn \cup {None} /\ (pc' = "run" => mine' \in Turn /\ mine'.delivered = FALSE)
  <2>1. 0 \in 0..MaxFindings
    BY ReviewAssumption
  <2>2. \A m \in Msg : [request |-> m, count |-> 0, delivered |-> FALSE] \in Turn
    BY <2>1 DEF Turn
  <2> QED BY <1>2, <2>2 DEF DeliveryInvariant, TypeOK
<1>4. TypeOK'
  <2>1. ReviewerTyped'
    BY <1>1, <1>2, <1>3 DEF DeliveryInvariant, TypeOK, ReviewerTyped, ReviewerSteps
  <2> QED BY <2>1, ReviewerTypes DEF Read, DeliveryInvariant
<1>5. (CopyOfTurn /\ ReplyFirst)'
  BY <1>1, <1>2, <1>3, ReviewNoneAssumption DEF DeliveryInvariant, CopyOfTurn, ReplyFirst,
     Composing, Delivering, Staged, Answering
<1>6. (HandedOver /\ HeardIsRecorded)'
  <2>1. HeardIsRecorded'
    BY <1>1, <1>2 DEF DeliveryInvariant, HeardIsRecorded
  <2>2. (pc \in Composing => ~mine.delivered)'
    BY <1>2, <1>3 DEF Composing
  <2>3. HandedOver'
    BY <1>1, <1>2, <2>2 DEF DeliveryInvariant, HandedOver
  <2> QED BY <2>1, <2>3
<1> QED BY <1>4, <1>5, <1>6 DEF DeliveryInvariant

LEMMA SetRunningDelivers == DeliveryInvariant /\ SetRunning => DeliveryInvariant'
<1> SUFFICES ASSUME DeliveryInvariant, SetRunning PROVE DeliveryInvariant'
  OBVIOUS
<1>1. ReviewerTyped'
  BY DEF SetRunning, DeliveryInvariant, TypeOK, ReviewerTyped, Step, runFile, session, ghosts,
     ReviewerSteps, Status
<1>2. TypeOK'
  BY <1>1, ReviewerTypes DEF SetRunning, DeliveryInvariant
<1>3. (CopyOfTurn /\ ReplyFirst)'
  BY DEF SetRunning, DeliveryInvariant, TypeOK, CopyOfTurn, ReplyFirst, Step, runFile,
     Composing, Delivering, Staged, Answering
<1>4. (HandedOver /\ HeardIsRecorded)'
  BY DEF SetRunning, DeliveryInvariant, TypeOK, CopyOfTurn, HandedOver, HeardIsRecorded,
     Step, session, ghosts, Composing, Delivering, Staged, Answering
<1> QED BY <1>2, <1>3, <1>4 DEF DeliveryInvariant

LEMMA AgentAnswersDelivers == DeliveryInvariant /\ AgentAnswers => DeliveryInvariant'
<1> SUFFICES ASSUME DeliveryInvariant, AgentAnswers PROVE DeliveryInvariant'
  OBVIOUS
<1>0. mine \in Turn
  BY DEF AgentAnswers, DeliveryInvariant, TypeOK, CopyOfTurn, Step, Answering, Delivering,
     Composing
<1>1. ReviewerTyped'
  BY <1>0 DEF AgentAnswers, DeliveryInvariant, TypeOK, ReviewerTyped, Step, runFile,
     session, ghosts, ReviewerSteps, Status, Turn
<1>2. TypeOK'
  BY <1>1, ReviewerTypes DEF AgentAnswers, DeliveryInvariant
<1>3. (CopyOfTurn /\ ReplyFirst)'
  BY <1>0, ReviewNoneAssumption DEF AgentAnswers, DeliveryInvariant, TypeOK, CopyOfTurn,
     ReplyFirst, Step, runFile, Composing, Delivering, Staged, Answering, Turn
<1>4. (HandedOver /\ HeardIsRecorded)'
  BY <1>0 DEF AgentAnswers, DeliveryInvariant, TypeOK, CopyOfTurn, HandedOver,
     HeardIsRecorded, Step, session, ghosts, Composing, Delivering, Staged, Answering, Turn
<1> QED BY <1>2, <1>3, <1>4 DEF DeliveryInvariant

LEMMA TurnFailsDelivers == DeliveryInvariant /\ TurnFails => DeliveryInvariant'
<1> SUFFICES ASSUME DeliveryInvariant, TurnFails PROVE DeliveryInvariant'
  OBVIOUS
<1>1. ReviewerTyped'
  BY DEF TurnFails, DeliveryInvariant, TypeOK, ReviewerTyped, Step, runFile, session, ghosts,
     ReviewerSteps, Status
<1>2. TypeOK'
  BY <1>1, ReviewerTypes DEF TurnFails, DeliveryInvariant
<1>3. (CopyOfTurn /\ ReplyFirst)'
  BY DEF TurnFails, DeliveryInvariant, TypeOK, CopyOfTurn, ReplyFirst, Step, runFile,
     Composing, Delivering, Staged, Answering
<1>4. (HandedOver /\ HeardIsRecorded)'
  BY DEF TurnFails, DeliveryInvariant, TypeOK, CopyOfTurn, HandedOver, HeardIsRecorded,
     Step, session, ghosts, Composing, Delivering, Staged, Answering
<1> QED BY <1>2, <1>3, <1>4 DEF DeliveryInvariant

LEMMA StageTurnDelivers == DeliveryInvariant /\ StageTurn => DeliveryInvariant'
<1> SUFFICES ASSUME DeliveryInvariant, StageTurn PROVE DeliveryInvariant'
  OBVIOUS
<1>0. mine \in Turn
  BY DEF StageTurn, NoOtherTurn, DeliveryInvariant, TypeOK, CopyOfTurn, Step, Answering,
     Delivering, Composing
<1>1. ReviewerTyped'
  BY DEF StageTurn, NoOtherTurn, DeliveryInvariant, TypeOK, ReviewerTyped, Step, runFile,
     session, ghosts, ReviewerSteps, Status
<1>2. TypeOK'
  BY <1>1, ReviewerTypes DEF StageTurn, DeliveryInvariant
<1>3. (CopyOfTurn /\ ReplyFirst)'
  BY DEF StageTurn, NoOtherTurn, DeliveryInvariant, TypeOK, CopyOfTurn, ReplyFirst, Step,
     runFile, Composing, Delivering, Staged, Answering
<1>4. (HandedOver /\ HeardIsRecorded)'
  BY <1>0 DEF StageTurn, NoOtherTurn, DeliveryInvariant, TypeOK, CopyOfTurn, HandedOver,
     HeardIsRecorded, Step, session, ghosts, Composing, Delivering, Staged, Answering, Turn
<1> QED BY <1>2, <1>3, <1>4 DEF DeliveryInvariant

LEMMA AppendReviewerMessageDelivers ==
    DeliveryInvariant /\ AppendReviewerMessage => DeliveryInvariant'
<1> SUFFICES ASSUME DeliveryInvariant, AppendReviewerMessage PROVE DeliveryInvariant'
  OBVIOUS
<1>1. /\ UNCHANGED <<status, findingCount, lastRequest, turn, tabs, deliveries, agents,
                     mine, prompt, target, prompted, late, pasted, heard>>
      /\ pc = "reply" /\ pc' \in {"record", "deliver"}
      /\ pc' = "record" => mine.delivered
  BY DEF AppendReviewerMessage, runFile, session, ghosts
<1>2. mine \in Turn /\ mine.request \in Msg
  BY <1>1 DEF DeliveryInvariant, TypeOK, CopyOfTurn, Answering, Turn
<1>3. /\ replies' \in [Msg -> Nat] /\ replies'[mine.request] = 1
      /\ \A m \in Msg : replies'[m] = replies[m] \/ replies'[m] = 1
  <2>1. replies \in [Msg -> Nat] /\ replies[mine.request] \in Nat /\ replies[mine.request] <= 1
    BY <1>2 DEF DeliveryInvariant, TypeOK, ReplyFirst
  <2> QED BY <1>2, <2>1 DEF AppendReviewerMessage
<1>4. TypeOK'
  <2>1. ReviewerTyped'
    BY <1>1, <1>3 DEF DeliveryInvariant, TypeOK, ReviewerTyped, ReviewerSteps
  <2> QED BY <2>1, ReviewerTypes DEF AppendReviewerMessage, DeliveryInvariant
<1>5. CopyOfTurn'
  BY <1>1 DEF DeliveryInvariant, CopyOfTurn, Composing, Delivering, Staged, Answering
<1>6. ReplyFirst'
  <2>1. \A m \in Msg : replies'[m] <= 1
    BY <1>3 DEF DeliveryInvariant, ReplyFirst
  <2>2. (lastRequest # None => replies[lastRequest] = 1)'
    BY <1>1, <1>3 DEF DeliveryInvariant, ReplyFirst, TypeOK
  <2> QED BY <1>1, <1>3, <2>1, <2>2 DEF ReplyFirst
<1>7. (HandedOver /\ HeardIsRecorded)'
  <2>1. pc' = "record" /\ mine.count > 0 => mine.request \in pasted
    BY <1>1 DEF DeliveryInvariant, CopyOfTurn, HandedOver, Staged
  <2>2. HandedOver'
    BY <1>1, <2>1 DEF DeliveryInvariant, HandedOver, Composing
  <2>3. HeardIsRecorded'
    BY <1>1 DEF DeliveryInvariant, HeardIsRecorded
  <2> QED BY <2>2, <2>3
<1> QED BY <1>4, <1>5, <1>6, <1>7 DEF DeliveryInvariant

LEMMA ChooseFeedbackTabDelivers == DeliveryInvariant /\ ChooseFeedbackTab => DeliveryInvariant'
<1> SUFFICES ASSUME DeliveryInvariant, ChooseFeedbackTab PROVE DeliveryInvariant'
  OBVIOUS
<1>1. ReviewerTyped'
  BY DEF ChooseFeedbackTab, DeliveryInvariant, TypeOK, ReviewerTyped, Step, runFile,
     session, ghosts, ReviewerSteps, Status
<1>2. TypeOK'
  BY <1>1, ReviewerTypes DEF ChooseFeedbackTab, DeliveryInvariant
<1>3. (CopyOfTurn /\ ReplyFirst)'
  BY DEF ChooseFeedbackTab, DeliveryInvariant, TypeOK, CopyOfTurn, ReplyFirst, Step,
     runFile, Composing, Delivering, Staged, Answering
<1>4. (HandedOver /\ HeardIsRecorded)'
  BY DEF ChooseFeedbackTab, DeliveryInvariant, TypeOK, CopyOfTurn, HandedOver,
     HeardIsRecorded, Step, session, ghosts, Composing, Delivering, Staged, Answering
<1> QED BY <1>2, <1>3, <1>4 DEF DeliveryInvariant

LEMMA DeliveryFailsDelivers == DeliveryInvariant /\ DeliveryFails => DeliveryInvariant'
<1> SUFFICES ASSUME DeliveryInvariant, DeliveryFails PROVE DeliveryInvariant'
  OBVIOUS
<1>1. ReviewerTyped'
  BY DEF DeliveryFails, DeliveryInvariant, TypeOK, ReviewerTyped, Step, runFile, session,
     ghosts, ReviewerSteps, Status
<1>2. TypeOK'
  BY <1>1, ReviewerTypes DEF DeliveryFails, DeliveryInvariant
<1>3. (CopyOfTurn /\ ReplyFirst)'
  BY DEF DeliveryFails, DeliveryInvariant, TypeOK, CopyOfTurn, ReplyFirst, Step, runFile,
     Composing, Delivering, Staged, Answering
<1>4. (HandedOver /\ HeardIsRecorded)'
  BY DEF DeliveryFails, DeliveryInvariant, TypeOK, CopyOfTurn, HandedOver, HeardIsRecorded,
     Step, session, ghosts, Composing, Delivering, Staged, Answering
<1> QED BY <1>2, <1>3, <1>4 DEF DeliveryInvariant

LEMMA PrepareDeliveryDelivers == DeliveryInvariant /\ PrepareDelivery => DeliveryInvariant'
<1> SUFFICES ASSUME DeliveryInvariant, PrepareDelivery PROVE DeliveryInvariant'
  OBVIOUS
<1>1. /\ UNCHANGED <<status, findingCount, lastRequest, replies, turn, tabs, agents,
                     mine, prompt, target, prompted, late, pasted, heard>>
      /\ pc = "prepare" /\ pc' \in {"send", "mark", "fail"}
  BY DEF PrepareDelivery, Step, runFile, ghosts
<1>2. mine \in Turn /\ mine.request \in Msg /\ target \in Tab
  BY <1>1 DEF DeliveryInvariant, TypeOK, CopyOfTurn, HeardIsRecorded, Answering, Delivering,
     Turn
<1> DEFINE d == [tab |-> target, status |-> "prepared"]
<1>3. d \in Delivery /\ d # None /\ d.tab = target /\ d.status # "sent"
  BY <1>2, ReviewNoneAssumption DEF Delivery
<1>4. \/ /\ pc' = "send" /\ deliveries[mine.request] = None
         /\ deliveries' = [deliveries EXCEPT ![mine.request] = d]
      \/ pc' = "fail" /\ deliveries' = deliveries
      \/ /\ pc' = "mark" /\ deliveries' = deliveries
         /\ deliveries[mine.request] # None /\ deliveries[mine.request].status = "sent"
  BY DEF PrepareDelivery, Step
<1>5. deliveries' \in [Msg -> Delivery \cup {None}]
  BY <1>2, <1>3, <1>4 DEF DeliveryInvariant, TypeOK
<1>6. TypeOK'
  <2>1. ReviewerTyped'
    BY <1>1, <1>5 DEF DeliveryInvariant, TypeOK, ReviewerTyped, ReviewerSteps
  <2> QED BY <2>1, ReviewerTypes DEF PrepareDelivery, DeliveryInvariant
<1>7. (CopyOfTurn /\ ReplyFirst)'
  BY <1>1 DEF DeliveryInvariant, CopyOfTurn, ReplyFirst, Composing, Delivering, Staged,
     Answering
<1>8. CASE pc' = "send"
  <2>1. /\ deliveries'[mine.request] = d
        /\ \A m \in Msg : m # mine.request => deliveries'[m] = deliveries[m]
        /\ deliveries[mine.request] = None
    BY <1>2, <1>4, <1>8 DEF DeliveryInvariant, TypeOK
  <2>2. \A t \in Tab : heard[mine.request][t] = 0
    <3> SUFFICES ASSUME NEW t \in Tab PROVE heard[mine.request][t] = 0
      OBVIOUS
    <3>1. ~(heard[mine.request][t] > 0)
      BY <1>2, <2>1 DEF DeliveryInvariant, HeardIsRecorded
    <3>2. heard[mine.request][t] \in Nat
      BY <1>2 DEF DeliveryInvariant, TypeOK
    <3> QED BY <3>1, <3>2
  <2>3. HandedOver'
    BY <1>1, <1>3, <1>8, <2>1 DEF DeliveryInvariant, HandedOver, Composing
  <2>4. (\A m \in Msg : \A t \in Tab :
            heard[m][t] > 0 => /\ heard[m][t] = 1
                               /\ deliveries[m] # None /\ deliveries[m].tab = t)'
    BY <1>1, <1>2, <2>1, <2>2 DEF DeliveryInvariant, HeardIsRecorded
  <2>5. HeardIsRecorded'
    BY <1>1, <1>2, <1>3, <1>8, <2>1, <2>2, <2>4 DEF HeardIsRecorded
  <2> QED BY <1>6, <1>7, <2>3, <2>5 DEF DeliveryInvariant
<1>9. CASE pc' # "send"
  <2>1. HandedOver'
    BY <1>1, <1>2, <1>4, <1>9 DEF DeliveryInvariant, HandedOver, Composing
  <2>2. HeardIsRecorded'
    BY <1>1, <1>4, <1>9 DEF DeliveryInvariant, HeardIsRecorded
  <2> QED BY <1>6, <1>7, <2>1, <2>2 DEF DeliveryInvariant
<1> QED BY <1>8, <1>9

LEMMA SendDelivers == DeliveryInvariant /\ Send => DeliveryInvariant'
<1> SUFFICES ASSUME DeliveryInvariant, Send PROVE DeliveryInvariant'
  OBVIOUS
<1>0. mine \in Turn
  BY DEF Send, DeliveryInvariant, TypeOK, CopyOfTurn, Step, Answering, Delivering, Composing
<1>1. ReviewerTyped'
  <2>1. mine.request \in Msg
    BY <1>0 DEF Turn
  <2>2. heard' \in [Msg -> [Tab -> Nat]] /\ pasted' \subseteq Msg
    BY <2>1 DEF Send, Paste, DeliveryInvariant, TypeOK
  <2>3. pc' \in ReviewerSteps
    BY DEF Send, Step, ReviewerSteps
  <2> QED BY <2>2, <2>3, Zenon
      DEF Send, DeliveryInvariant, TypeOK, ReviewerTyped, runFile, session
<1>2. TypeOK'
  BY <1>1, ReviewerTypes DEF Send, DeliveryInvariant
<1>3. (CopyOfTurn /\ ReplyFirst)'
  BY DEF Send, DeliveryInvariant, TypeOK, CopyOfTurn, ReplyFirst, Step, runFile, Composing,
     Delivering, Staged, Answering
<1>4. (HandedOver /\ HeardIsRecorded)'
  BY <1>0 DEF Send, DeliveryInvariant, TypeOK, CopyOfTurn, HandedOver, HeardIsRecorded,
     Step, session, ghosts, Composing, Delivering, Staged, Answering, Turn, Paste
<1> QED BY <1>2, <1>3, <1>4 DEF DeliveryInvariant

LEMMA RecordSentDelivers == DeliveryInvariant /\ RecordSent => DeliveryInvariant'
<1> SUFFICES ASSUME DeliveryInvariant, RecordSent PROVE DeliveryInvariant'
  OBVIOUS
<1>0. mine \in Turn
  BY DEF RecordSent, DeliveryInvariant, TypeOK, CopyOfTurn, Step, Answering, Delivering,
     Composing
<1>1. ReviewerTyped'
  BY <1>0, ReviewNoneAssumption DEF RecordSent, DeliveryInvariant, TypeOK, ReviewerTyped,
     Step, runFile, session, ghosts, ReviewerSteps, Status, Turn, Delivery, HeardIsRecorded
<1>2. TypeOK'
  BY <1>1, ReviewerTypes DEF RecordSent, DeliveryInvariant
<1>3. (CopyOfTurn /\ ReplyFirst)'
  BY DEF RecordSent, DeliveryInvariant, TypeOK, CopyOfTurn, ReplyFirst, Step, runFile,
     Composing, Delivering, Staged, Answering
<1>4. (HandedOver /\ HeardIsRecorded)'
  BY <1>0, ReviewNoneAssumption DEF RecordSent, DeliveryInvariant, TypeOK, CopyOfTurn,
     HandedOver, HeardIsRecorded, Step, session, ghosts, Composing, Delivering, Staged,
     Answering, Turn, Delivery
<1> QED BY <1>2, <1>3, <1>4 DEF DeliveryInvariant

LEMMA MarkTurnDeliveredDelivers == DeliveryInvariant /\ MarkTurnDelivered => DeliveryInvariant'
<1> SUFFICES ASSUME DeliveryInvariant, MarkTurnDelivered PROVE DeliveryInvariant'
  OBVIOUS
<1>0. mine \in Turn
  BY DEF MarkTurnDelivered, NoOtherTurn, DeliveryInvariant, TypeOK, CopyOfTurn, Step,
     Answering, Delivering, Composing
<1>1. ReviewerTyped'
  BY <1>0 DEF MarkTurnDelivered, NoOtherTurn, DeliveryInvariant, TypeOK, ReviewerTyped,
     Step, runFile, session, ghosts, ReviewerSteps, Status, Turn
<1>2. TypeOK'
  BY <1>1, ReviewerTypes DEF MarkTurnDelivered, DeliveryInvariant
<1>3. (CopyOfTurn /\ ReplyFirst)'
  BY <1>0, ReviewNoneAssumption DEF MarkTurnDelivered, NoOtherTurn, DeliveryInvariant,
     TypeOK, CopyOfTurn, ReplyFirst, Step, runFile, Composing, Delivering, Staged,
     Answering, Turn
<1>4. (HandedOver /\ HeardIsRecorded)'
  BY <1>0 DEF MarkTurnDelivered, NoOtherTurn, DeliveryInvariant, TypeOK, CopyOfTurn,
     HandedOver, HeardIsRecorded, Step, session, ghosts, Composing, Delivering, Staged,
     Answering, Turn
<1> QED BY <1>2, <1>3, <1>4 DEF DeliveryInvariant

LEMMA RecordTurnDelivers == DeliveryInvariant /\ RecordTurn => DeliveryInvariant'
<1> SUFFICES ASSUME DeliveryInvariant, RecordTurn PROVE DeliveryInvariant'
  OBVIOUS
<1>0. mine \in Turn
  BY DEF RecordTurn, DeliveryInvariant, TypeOK, CopyOfTurn, Step, Answering, Delivering,
     Composing
<1>1. ReviewerTyped'
  <2>1. /\ UNCHANGED <<replies, turn, tabs, deliveries, agents, mine, prompt, target,
                       prompted, late, pasted, heard>>
        /\ pc' = "clear" /\ lastRequest' = mine.request
        /\ findingCount' = findingCount + mine.count /\ status' \in {"clean", "findings"}
    BY DEF RecordTurn, Step, session, ghosts
  <2>2. findingCount' \in Nat /\ lastRequest' \in Msg
    BY <1>0, <2>1, ReviewAssumption DEF DeliveryInvariant, TypeOK, Turn
  <2> QED BY <2>1, <2>2 DEF DeliveryInvariant, TypeOK, ReviewerTyped, ReviewerSteps, Status
<1>2. TypeOK'
  BY <1>1, ReviewerTypes DEF RecordTurn, DeliveryInvariant
<1>3. (CopyOfTurn /\ ReplyFirst)'
  BY DEF RecordTurn, DeliveryInvariant, TypeOK, CopyOfTurn, ReplyFirst, Step, runFile,
     Composing, Delivering, Staged, Answering
<1>4. (HandedOver /\ HeardIsRecorded)'
  BY DEF RecordTurn, DeliveryInvariant, TypeOK, CopyOfTurn, HandedOver, HeardIsRecorded,
     Step, session, ghosts, Composing, Delivering, Staged, Answering
<1> QED BY <1>2, <1>3, <1>4 DEF DeliveryInvariant

LEMMA ClearPendingTurnDelivers == DeliveryInvariant /\ ClearPendingTurn => DeliveryInvariant'
<1> SUFFICES ASSUME DeliveryInvariant, ClearPendingTurn PROVE DeliveryInvariant'
  OBVIOUS
<1>1. ReviewerTyped'
  BY DEF ClearPendingTurn, NoOtherTurn, DeliveryInvariant, TypeOK, ReviewerTyped, Step,
     runFile, session, ghosts, ReviewerSteps, Status
<1>2. TypeOK'
  BY <1>1, ReviewerTypes DEF ClearPendingTurn, DeliveryInvariant
<1>3. (CopyOfTurn /\ ReplyFirst)'
  BY DEF ClearPendingTurn, NoOtherTurn, DeliveryInvariant, TypeOK, CopyOfTurn, ReplyFirst,
     Step, runFile, Composing, Delivering, Staged, Answering
<1>4. (HandedOver /\ HeardIsRecorded)'
  BY DEF ClearPendingTurn, NoOtherTurn, DeliveryInvariant, TypeOK, CopyOfTurn, HandedOver,
     HeardIsRecorded, Step, session, ghosts, Composing, Delivering, Staged, Answering
<1> QED BY <1>2, <1>3, <1>4 DEF DeliveryInvariant

LEMMA SetFailedDelivers == DeliveryInvariant /\ SetFailed => DeliveryInvariant'
<1> SUFFICES ASSUME DeliveryInvariant, SetFailed PROVE DeliveryInvariant'
  OBVIOUS
<1>1. ReviewerTyped'
  BY DEF SetFailed, DeliveryInvariant, TypeOK, ReviewerTyped, Step, runFile, session, ghosts,
     ReviewerSteps, Status
<1>2. TypeOK'
  BY <1>1, ReviewerTypes DEF SetFailed, DeliveryInvariant
<1>3. (CopyOfTurn /\ ReplyFirst)'
  BY DEF SetFailed, DeliveryInvariant, TypeOK, CopyOfTurn, ReplyFirst, Step, runFile,
     Composing, Delivering, Staged, Answering
<1>4. (HandedOver /\ HeardIsRecorded)'
  BY DEF SetFailed, DeliveryInvariant, TypeOK, CopyOfTurn, HandedOver, HeardIsRecorded,
     Step, session, ghosts, Composing, Delivering, Staged, Answering
<1> QED BY <1>2, <1>3, <1>4 DEF DeliveryInvariant

\* The tab's shell starts a reviewer, or a reviewer, terminal or tab goes.
LEMMA ReviewTabDelivers ==
    DeliveryInvariant /\ (ShellStartsReviewer \/ ReviewerDies \/ TerminalDies
                          \/ CloseReviewTab \/ SessionEnsured) => DeliveryInvariant'
<1> SUFFICES ASSUME DeliveryInvariant, ShellStartsReviewer \/ ReviewerDies \/ TerminalDies
                                       \/ CloseReviewTab \/ SessionEnsured
             PROVE  DeliveryInvariant'
  OBVIOUS
<1>1. UNCHANGED <<status, findingCount, lastRequest, clock, stamp, posted, replies, turn,
                  tabs, deliveries, agents, mpc, prompted, late, pasted, heard>>
  BY DEF ShellStartsReviewer, ReviewerDies, TerminalDies, CloseReviewTab, SessionEnsured,
     runFile, messages, session, runtime, ghosts, troubleUnchanged
<1>2. \/ pc' \in {"get", "off"} /\ mine' = None /\ prompt' = {} /\ target' = None
      \/ pc' = "get" /\ mine' = mine /\ prompt' = prompt /\ target' = target
      \/ pc' = pc /\ mine' = mine /\ prompt' = prompt /\ target' = target
  BY DEF ShellStartsReviewer, ReviewerDies, TerminalDies, CloseReviewTab, SessionEnsured,
     Step, ReviewerGone, reviewer
<1>3. /\ listed' = listed \/ listed' = FALSE
      /\ terminal' = terminal \/ terminal' = FALSE \/ terminal' = TRUE
      /\ accepted' = accepted \/ accepted' = TRUE \/ accepted' = FALSE
      /\ typed' = typed \/ typed' = 0 \/ (typed > 0 /\ typed' = typed - 1)
      /\ trouble' = trouble \/ (trouble < MaxTrouble /\ trouble' = trouble + 1)
  BY DEF ShellStartsReviewer, ReviewerDies, TerminalDies, CloseReviewTab, SessionEnsured,
     session, runtime, Trouble
<1>4. TypeOK'
  <2>1. listed' \in BOOLEAN /\ terminal' \in BOOLEAN /\ accepted' \in BOOLEAN
    BY <1>3, Zenon DEF DeliveryInvariant, TypeOK
  <2>2. typed' \in Nat /\ trouble' \in 0..MaxTrouble
    BY <1>3, ReviewAssumption DEF DeliveryInvariant, TypeOK
  <2>3. /\ pc' \in ReviewerSteps /\ mine' \in Turn \cup {None}
        /\ prompt' \subseteq Msg /\ target' \in Tab \cup {None}
    BY <1>2 DEF DeliveryInvariant, TypeOK, ReviewerSteps
  <2> QED BY <1>1, <2>1, <2>2, <2>3, Zenon DEF DeliveryInvariant, TypeOK
<1>5. (CopyOfTurn /\ ReplyFirst)'
  BY <1>1, <1>2 DEF DeliveryInvariant, CopyOfTurn, ReplyFirst, Composing, Delivering, Staged,
     Answering
<1>6. HandedOver'
  BY <1>1, <1>2 DEF DeliveryInvariant, HandedOver, Composing
<1>7. HeardIsRecorded'
  BY <1>1, <1>2 DEF DeliveryInvariant, HeardIsRecorded
<1> QED BY <1>4, <1>5, <1>6, <1>7 DEF DeliveryInvariant

\* An agent that goes has heard nothing: whoever is next in its tab is new.
LEMMA AgentGoneHears ==
    ASSUME TypeOK, NEW t \in Tab, AgentGone(t)
    PROVE  /\ heard' \in [Msg -> [Tab -> Nat]]
           /\ \A m \in Msg : \A u \in Tab :
                 heard'[m][u] = IF u = t THEN 0 ELSE heard[m][u]
BY DEF TypeOK, AgentGone

LEMMA AgentEndsDelivers ==
    ASSUME DeliveryInvariant, NEW t \in Tab, AgentEnds(t)
    PROVE  DeliveryInvariant'
<1>1. /\ UNCHANGED <<runFile, messages, replies, turn, session, terminal, typed, accepted,
                     reviewer, mpc, prompted, late, pasted>>
      /\ agents' \subseteq agents
      /\ trouble' \in 0..MaxTrouble
  BY ReviewAssumption DEF AgentEnds, troubleUnchanged, Trouble, DeliveryInvariant, TypeOK
<1>2. /\ heard' \in [Msg -> [Tab -> Nat]]
      /\ \A m \in Msg : \A u \in Tab : heard'[m][u] = IF u = t THEN 0 ELSE heard[m][u]
  BY AgentGoneHears DEF AgentEnds, DeliveryInvariant
<1>3. TypeOK'
  BY <1>1, <1>2, Zenon DEF DeliveryInvariant, TypeOK, runFile, messages, session, reviewer
<1>4. (CopyOfTurn /\ ReplyFirst /\ HandedOver)'
  BY <1>1 DEF DeliveryInvariant, CopyOfTurn, ReplyFirst, HandedOver, runFile, session, reviewer
<1>5. mine' = mine /\ (pc = "send" => mine.request \in Msg)
  BY <1>1 DEF DeliveryInvariant, TypeOK, CopyOfTurn, Answering, Delivering, Turn, reviewer
<1>6. HeardIsRecorded'
  BY <1>1, <1>2, <1>5 DEF DeliveryInvariant, HeardIsRecorded, session, reviewer
<1> QED BY <1>3, <1>4, <1>6 DEF DeliveryInvariant

LEMMA CloseAgentTabDelivers ==
    ASSUME DeliveryInvariant, NEW t \in Tab, CloseAgentTab(t)
    PROVE  DeliveryInvariant'
<1>1. /\ UNCHANGED <<runFile, messages, replies, turn, listed, terminal, typed, accepted,
                     reviewer, mpc, prompted, late, pasted>>
      /\ tabs' \subseteq tabs /\ agents' \subseteq agents
      /\ trouble' \in 0..MaxTrouble
      /\ ~(pc \in {"send", "sent"} /\ target = t)
  BY ReviewAssumption
  DEF CloseAgentTab, troubleUnchanged, Trouble, TabLocked, DeliveryInvariant, TypeOK
<1>2. /\ heard' \in [Msg -> [Tab -> Nat]]
      /\ \A m \in Msg : \A u \in Tab : heard'[m][u] = IF u = t THEN 0 ELSE heard[m][u]
  BY AgentGoneHears DEF CloseAgentTab, DeliveryInvariant
<1>3. /\ deliveries' \in [Msg -> Delivery \cup {None}]
      /\ \A m \in Msg : \/ deliveries'[m] = deliveries[m]
                        \/ deliveries[m].tab = t /\ deliveries'[m] = None
      /\ \A m \in Msg : deliveries[m] # None /\ deliveries[m].tab # t =>
                           deliveries'[m] = deliveries[m]
  BY DEF CloseAgentTab, DeliveryInvariant, TypeOK
<1>4. TypeOK'
  BY <1>1, <1>2, <1>3, Zenon DEF DeliveryInvariant, TypeOK, runFile, messages, reviewer
<1>5. (CopyOfTurn /\ ReplyFirst)'
  BY <1>1 DEF DeliveryInvariant, CopyOfTurn, ReplyFirst, runFile, reviewer
<1>6. HandedOver'
  BY <1>1, <1>3 DEF DeliveryInvariant, HandedOver, reviewer
<1>7. mine' = mine /\ pc' = pc /\ target' = target
      /\ (pc \in {"send", "sent"} => mine.request \in Msg)
  BY <1>1 DEF DeliveryInvariant, TypeOK, CopyOfTurn, Answering, Delivering, Turn, reviewer
<1>8. HeardIsRecorded'
  BY <1>1, <1>2, <1>3, <1>7 DEF DeliveryInvariant, HeardIsRecorded
<1> QED BY <1>4, <1>5, <1>6, <1>8 DEF DeliveryInvariant

LEMMA AgentStartsDelivers ==
    ASSUME DeliveryInvariant, NEW t \in Tab, AgentStarts(t)
    PROVE  DeliveryInvariant'
<1>1. /\ UNCHANGED <<runFile, messages, replies, turn, listed, deliveries, terminal, typed,
                     accepted, reviewer, mpc, trouble, ghosts>>
      /\ tabs' \subseteq Tab /\ agents' \subseteq Tab
  BY DEF AgentStarts, DeliveryInvariant, TypeOK
<1>2. TypeOK'
  BY <1>1, Zenon DEF DeliveryInvariant, TypeOK, runFile, messages, reviewer, ghosts
<1>3. (CopyOfTurn /\ ReplyFirst /\ HandedOver /\ HeardIsRecorded)'
  BY <1>1 DEF DeliveryInvariant, CopyOfTurn, ReplyFirst, HandedOver, HeardIsRecorded, runFile,
     reviewer, ghosts
<1> QED BY <1>2, <1>3 DEF DeliveryInvariant

LEMMA ReviewerDelivers == DeliveryInvariant /\ Reviewer => DeliveryInvariant'
BY ReviewTabDelivers, ShellTakesBackDelivers, ReadDelivers, SetRunningDelivers,
   AgentAnswersDelivers, TurnFailsDelivers, StageTurnDelivers, AppendReviewerMessageDelivers,
   ChooseFeedbackTabDelivers, DeliveryFailsDelivers, PrepareDeliveryDelivers, SendDelivers,
   RecordSentDelivers, MarkTurnDeliveredDelivers, RecordTurnDelivers,
   ClearPendingTurnDelivers, SetFailedDelivers, Zenon
DEF Reviewer

LEMMA DeliveryStep == DeliveryInvariant /\ [Next]_vars => DeliveryInvariant'
<1> SUFFICES ASSUME DeliveryInvariant, [Next]_vars PROVE DeliveryInvariant'
  OBVIOUS
<1>1. CASE UNCHANGED vars
  <2>1. TypeOK'
    BY <1>1, Zenon DEF DeliveryInvariant, TypeOK, vars
  <2>2. (CopyOfTurn /\ ReplyFirst /\ HandedOver /\ HeardIsRecorded)'
    BY <1>1 DEF DeliveryInvariant, CopyOfTurn, ReplyFirst, HandedOver, HeardIsRecorded, vars
  <2> QED BY <2>1, <2>2 DEF DeliveryInvariant
<1>2. CASE Reviewer
  BY <1>2, ReviewerDelivers
<1>3. CASE \E m \in Msg : Stamp(m) \/ Command(m) \/ KillCommand(m)
  BY <1>3, CommandDelivers
<1>4. CASE \E t \in Tab : AgentEnds(t) \/ CloseAgentTab(t) \/ AgentStarts(t)
  BY <1>4, AgentEndsDelivers, CloseAgentTabDelivers, AgentStartsDelivers
<1>5. CASE ReviewerDies \/ TerminalDies \/ CloseReviewTab \/ SessionEnsured
  BY <1>5, ReviewTabDelivers
<1> QED BY <1>1, <1>2, <1>3, <1>4, <1>5, Zenon DEF Next

\* The delivery half of the inductive invariant holds in every state, whatever
\* dies, is closed or is typed again, and in whatever order messages are stamped.
THEOREM DeliveryInvariantHolds == Spec => []DeliveryInvariant
BY DeliveryInit, DeliveryStep, PTL DEF Spec

\* Every file, record and program counter keeps its type.
THEOREM TypeCorrect == Spec => []TypeOK
<1>1. DeliveryInvariant => TypeOK
  BY DEF DeliveryInvariant
<1> QED BY <1>1, DeliveryInvariantHolds, PTL

\* No two agents at work, and none twice, were given the findings of a turn:
\* the record SendOnce leaves names the one tab whose agent can have heard.
THEOREM DeliveredAtMostOnce == Spec => []AtMostOnce
<1>1. DeliveryInvariant => AtMostOnce
  BY DEF DeliveryInvariant, HeardIsRecorded, AtMostOnce
<1> QED BY <1>1, DeliveryInvariantHolds, PTL

\* AppendReviewerMessage writes one reply per request, before the turn is
\* recorded, however often a turn is taken up again.
THEOREM RepliesOnce == Spec => []OneReplyPerTurn
<1>1. DeliveryInvariant => OneReplyPerTurn
  BY DEF DeliveryInvariant, ReplyFirst, OneReplyPerTurn
<1> QED BY <1>1, DeliveryInvariantHolds, PTL

\* No step but MarkTurnDelivered and, once the run's file names the request,
\* ClearPendingTurn touches a staged turn.
THEOREM TurnKept == Spec => StagedTurnKept
<1> DEFINE Kept == turn # None /\ turn' # turn =>
                     \/ turn' = [turn EXCEPT !.delivered = TRUE]
                     \/ turn' = None /\ lastRequest = turn.request
<1>1. DeliveryInvariant /\ [Next]_vars => Kept
  <2> SUFFICES ASSUME DeliveryInvariant, [Next]_vars, turn # None, turn' # turn
               PROVE  Kept
    OBVIOUS
  <2>1. MarkTurnDelivered \/ ClearPendingTurn \/ StageTurn
    <3>1. CASE Reviewer
      BY <3>1 DEF Reviewer, ShellStartsReviewer, ShellTakesBack, Read, SetRunning, AgentAnswers,
         TurnFails, AppendReviewerMessage, ChooseFeedbackTab, DeliveryFails, PrepareDelivery,
         Send, RecordSent, RecordTurn, SetFailed
    <3>2. CASE \E m \in Msg : Stamp(m) \/ Command(m) \/ KillCommand(m)
      BY <3>2 DEF Stamp, Command, KillCommand, Post, Recheck, Ask, SetQueued, EnsureReviewTab,
         ResolveFails, FindTerminalBusy, StartReviewer, StartFails, SeeAccepted,
         AwaitTimesOut, GiveUp, commandUnchanged
    <3>3. CASE \E t \in Tab : AgentEnds(t) \/ CloseAgentTab(t) \/ AgentStarts(t)
      BY <3>3 DEF AgentEnds, CloseAgentTab, AgentStarts, troubleUnchanged
    <3>4. CASE ReviewerDies \/ TerminalDies \/ CloseReviewTab \/ SessionEnsured
      BY <3>4 DEF ReviewerDies, TerminalDies, CloseReviewTab, SessionEnsured, troubleUnchanged
    <3>5. CASE UNCHANGED vars
      BY <3>5 DEF vars
    <3> QED BY <3>1, <3>2, <3>3, <3>4, <3>5, Zenon DEF Next
  <2>2. CASE MarkTurnDelivered
    BY <2>2 DEF MarkTurnDelivered
  <2>3. CASE ClearPendingTurn
    BY <2>3 DEF ClearPendingTurn, NoOtherTurn, Step, DeliveryInvariant, CopyOfTurn
  <2>4. CASE StageTurn
    BY <2>4 DEF StageTurn
  <2> QED BY <2>1, <2>2, <2>3, <2>4
<1>2. [Next]_vars /\ DeliveryInvariant => [Kept]_vars
  BY <1>1
<1> QED BY <1>2, DeliveryInvariantHolds, PTL DEF Spec, StagedTurnKept

-----------------------------------------------------------------------------
(* Nobody waits for an answer that nobody will give.                       *)

\* A step after which the same messages wait and the request of the staged
\* turn and of the reviewer's copy, if there is one, was a request before.
LEMMA RequestsKept ==
    ASSUME RequestsArePosted, UNCHANGED <<lastRequest, posted, mpc>>,
           turn' # None => \/ turn # None /\ turn'.request = turn.request
                           \/ mine # None /\ turn'.request = mine.request,
           mine' # None => \/ mine # None /\ mine'.request = mine.request
                           \/ turn # None /\ mine'.request = turn.request
    PROVE  RequestsArePosted'
BY DEF RequestsArePosted, LastIsPosted

LEMMA StampQuiets ==
    ASSUME DeliveryInvariant, QuietInvariant, NEW m \in Msg, Stamp(m)
    PROVE  QuietInvariant'
<1>1. /\ UNCHANGED <<status, lastRequest, posted, turn, typed, pc, mine, trouble>>
      /\ m \notin posted /\ posted \subseteq Msg
      /\ \A n \in Msg \ {m} : stamp'[n] = stamp[n] /\ mpc'[n] = mpc[n]
      /\ lastRequest # None => lastRequest \in posted
  BY DEF Stamp, Goes, DeliveryInvariant, TypeOK, QuietInvariant, RequestsArePosted,
     LastIsPosted, runFile, runtime, reviewer
<1>2. mpc'[m] = "stamped"
  BY DEF Stamp, Goes, DeliveryInvariant, TypeOK
<1>3. RequestsArePosted'
  BY <1>1 DEF QuietInvariant, RequestsArePosted, LastIsPosted
<1>4. PendingReviewMessages' = PendingReviewMessages
  <2>1. \A n \in posted : UpTo(lastRequest, n)' <=> UpTo(lastRequest, n)
    BY <1>1 DEF UpTo
  <2> QED BY <1>1, <2>1 DEF PendingReviewMessages
<1>5. \A n \in PendingReviewMessages : mpc'[n] = mpc[n]
  BY <1>1 DEF PendingReviewMessages
<1>6. AnswerOwed'
  BY <1>1, <1>4, <1>5 DEF QuietInvariant, AnswerOwed
<1> QED BY <1>3, <1>6 DEF QuietInvariant

LEMMA PostQuiets ==
    ASSUME DeliveryInvariant, QuietInvariant, NEW m \in Msg, Post(m)
    PROVE  QuietInvariant'
<1>1. /\ UNCHANGED <<status, lastRequest, stamp, turn, typed, pc, mine, trouble>>
      /\ posted' = posted \cup {m} /\ posted \subseteq Msg /\ m \notin posted
      /\ \A n \in Msg \ {m} : mpc'[n] = mpc[n]
      /\ mpc'[m] = IF m = First THEN "resolve" ELSE "recheck"
  BY DEF Post, Goes, DeliveryInvariant, TypeOK, QuietInvariant, RequestsArePosted, runFile,
     runtime, reviewer
<1>2. RequestsArePosted'
  BY <1>1 DEF QuietInvariant, RequestsArePosted, LastIsPosted
<1>3. \A n \in PendingReviewMessages' :
      n = m \/ (n \in PendingReviewMessages /\ mpc'[n] = mpc[n])
  BY <1>1 DEF PendingReviewMessages, UpTo
<1>4. AnswerOwed'
  BY <1>1, <1>3 DEF QuietInvariant, AnswerOwed
<1> QED BY <1>2, <1>4 DEF QuietInvariant

\* Whichever way a command goes on, its message has somebody to wait for.
LEMMA CommandQuiets ==
    ASSUME DeliveryInvariant, QuietInvariant, NEW m \in Msg, Command(m) \/ KillCommand(m),
           ~Post(m)
    PROVE  QuietInvariant'
<1>1. /\ UNCHANGED <<lastRequest, clock, stamp, posted, turn, pc, mine>>
      /\ mpc[m] \notin {"off", "stamped"} \/ mpc'[m] = "killed"
      /\ mpc'[m] \notin {"off", "stamped"}
      /\ \A n \in Msg \ {m} : mpc'[n] = mpc[n]
  BY DEF Command, KillCommand, Recheck, Ask, SetQueued, EnsureReviewTab, ResolveFails,
     FindTerminalBusy, StartReviewer, StartFails, SeeAccepted, AwaitTimesOut, GiveUp, Goes,
     DeliveryInvariant, TypeOK, commandUnchanged, runFile, messages, reviewer
<1>2. RequestsArePosted'
  BY <1>1 DEF QuietInvariant, RequestsArePosted, LastIsPosted
<1>3. PendingReviewMessages' = PendingReviewMessages
  BY <1>1 DEF PendingReviewMessages, UpTo
<1>4. PendingReviewMessages \subseteq Msg /\ trouble \in Nat
  BY DEF PendingReviewMessages, DeliveryInvariant, TypeOK
<1>5. CASE KillCommand(m)
  <2>1. trouble' # 0
    BY <1>4, <1>5 DEF KillCommand, Trouble
  <2> QED BY <1>2, <2>1 DEF QuietInvariant, AnswerOwed
<1>6. CASE SetQueued(m) \/ GiveUp(m)
  <2>1. status' \notin {"clean", "findings"}
    BY <1>6 DEF SetQueued, GiveUp
  <2> QED BY <1>2, <2>1 DEF QuietInvariant, AnswerOwed
<1>7. CASE ~KillCommand(m) /\ ~SetQueued(m) /\ ~GiveUp(m)
  <2>1. UNCHANGED <<status, trouble>> /\ (typed' = typed \/ typed' > 0)
    BY <1>7 DEF Command, Recheck, Ask, EnsureReviewTab, ResolveFails, FindTerminalBusy,
       StartReviewer, StartFails, SeeAccepted, AwaitTimesOut, commandUnchanged, runFile,
       DeliveryInvariant, TypeOK
  <2>2. ASSUME trouble = 0, status \in {"clean", "findings"}, m \in PendingReviewMessages
        PROVE  \/ pc \notin {"off", "done"}
               \/ typed' > 0
               \/ mpc'[m] \in {"recheck", "requeue"}
               \/ m = First /\ mpc'[m] \in {"resolve", "start", "giveup"}
    <3>1. \/ pc \notin {"off", "done"}
          \/ typed > 0
          \/ mpc[m] \in {"recheck", "requeue"}
          \/ m = First /\ mpc[m] \in {"resolve", "start", "giveup"}
      BY <2>2 DEF QuietInvariant, AnswerOwed
    <3>2. CASE Recheck(m)
      BY <2>2, <3>2 DEF Recheck, Goes, DeliveryInvariant, TypeOK
    <3>3. CASE ~Recheck(m) /\ mpc[m] \in {"resolve", "start"}
      BY <1>7, <2>1, <3>1, <3>3 DEF Command, Ask, EnsureReviewTab, ResolveFails,
         FindTerminalBusy, StartReviewer, StartFails, SeeAccepted, AwaitTimesOut, Goes,
         DeliveryInvariant, TypeOK
    <3>4. CASE ~Recheck(m) /\ mpc[m] \notin {"resolve", "start"}
      <4>1. mpc[m] \notin {"recheck", "requeue", "giveup"}
        BY <1>7, <3>4 DEF Command, Ask, EnsureReviewTab, ResolveFails,
           FindTerminalBusy, StartReviewer, StartFails, SeeAccepted, AwaitTimesOut, Goes
      <4> QED BY <2>1, <3>1, <3>4, <4>1
    <3> QED BY <1>7, <3>2, <3>3, <3>4
  <2>3. AnswerOwed'
    BY <1>1, <1>3, <1>4, <2>1, <2>2 DEF QuietInvariant, AnswerOwed
  <2> QED BY <1>2, <2>3 DEF QuietInvariant
<1> QED BY <1>5, <1>6, <1>7

\* The reviewer leaves when it has read that nothing waits, or when it says
\* that the run failed.
LEMMA ReviewerQuiets == DeliveryInvariant /\ QuietInvariant /\ Reviewer => QuietInvariant'
<1> SUFFICES ASSUME DeliveryInvariant, QuietInvariant, Reviewer PROVE QuietInvariant'
  OBVIOUS
<1> DEFINE Same == UNCHANGED <<posted, stamp, mpc, trouble>>
<1>1. Same
  BY DEF Reviewer, ShellStartsReviewer, ShellTakesBack, Read, SetRunning, AgentAnswers,
     TurnFails, StageTurn, AppendReviewerMessage, ChooseFeedbackTab, DeliveryFails,
     PrepareDelivery, Send, RecordSent, MarkTurnDelivered, RecordTurn, ClearPendingTurn,
     SetFailed, reviewerUnchanged, messages
<1>2. CASE Read
  <2>1. UNCHANGED <<status, lastRequest, turn, typed>> /\ pc' # "off"
    BY <1>2 DEF Read, Step, runFile, reviewerUnchanged
  <2>2. mine' # None => mine' = mine \/ mine' = turn \/ mine'.request \in posted
    BY <1>2 DEF Read, IsLatest, PendingReviewMessages
  <2>3. RequestsArePosted'
    BY <1>1, <2>1, <2>2 DEF QuietInvariant, RequestsArePosted, LastIsPosted
  <2>4. PendingReviewMessages' = PendingReviewMessages
    BY <1>1, <2>1 DEF PendingReviewMessages, UpTo
  <2>5. pc' = "done" => PendingReviewMessages = {}
    BY <1>2 DEF Read, Step
  <2>6. AnswerOwed'
    BY <2>1, <2>4, <2>5 DEF AnswerOwed
  <2> QED BY <2>3, <2>6 DEF QuietInvariant
<1>3. CASE RecordTurn
  <2>1. /\ UNCHANGED <<turn, mine>> /\ lastRequest' = mine.request /\ pc' = "clear"
        /\ mine # None
    BY <1>3 DEF RecordTurn, Step, DeliveryInvariant, CopyOfTurn, Answering, Delivering
  <2>2. RequestsArePosted'
    BY <1>1, <2>1 DEF QuietInvariant, RequestsArePosted, LastIsPosted
  <2> QED BY <2>1, <2>2 DEF QuietInvariant, AnswerOwed
<1>4. CASE ~Read /\ ~RecordTurn
  <2>1. lastRequest' = lastRequest
    BY <1>4 DEF Reviewer, ShellStartsReviewer, ShellTakesBack, SetRunning, AgentAnswers,
       TurnFails, StageTurn, AppendReviewerMessage, ChooseFeedbackTab, DeliveryFails,
       PrepareDelivery, Send, RecordSent, MarkTurnDelivered, ClearPendingTurn, SetFailed,
       runFile
  <2>2. mine' = mine \/ mine' = None \/ AgentAnswers
    BY <1>4 DEF Reviewer, ShellStartsReviewer, ShellTakesBack, SetRunning, TurnFails,
       StageTurn, AppendReviewerMessage, ChooseFeedbackTab, DeliveryFails, PrepareDelivery, Send,
       RecordSent, MarkTurnDelivered, ClearPendingTurn, SetFailed, ReviewerGone
  <2>3. ASSUME AgentAnswers, mine' # None PROVE mine # None /\ mine'.request = mine.request
    <3>1. AgentAnswers => mine \in Turn
      BY DEF AgentAnswers, Step, DeliveryInvariant, TypeOK, CopyOfTurn, Answering, Composing
    <3> QED BY <2>3, <3>1, ReviewNoneAssumption DEF AgentAnswers, Turn
  <2>4. turn' = turn \/ turn' = None \/ turn' = mine \/ turn' = [turn EXCEPT !.delivered = TRUE]
    BY <1>4 DEF Reviewer, ShellStartsReviewer, ShellTakesBack, SetRunning, AgentAnswers,
       TurnFails, StageTurn, AppendReviewerMessage, ChooseFeedbackTab, DeliveryFails,
       PrepareDelivery, Send, RecordSent, MarkTurnDelivered, ClearPendingTurn, SetFailed
  <2>5. turn' # None => \/ turn # None /\ turn'.request = turn.request
                        \/ mine # None /\ turn'.request = mine.request
    <3>1. CASE turn' = [turn EXCEPT !.delivered = TRUE] /\ turn # None
      BY <3>1 DEF DeliveryInvariant, TypeOK, Turn
    <3>2. CASE turn = None
      BY <1>4, <3>2 DEF Reviewer, ShellStartsReviewer, ShellTakesBack, SetRunning, AgentAnswers,
       TurnFails, StageTurn, AppendReviewerMessage, ChooseFeedbackTab, DeliveryFails,
       PrepareDelivery, Send, RecordSent, MarkTurnDelivered, ClearPendingTurn, SetFailed
    <3> QED BY <2>4, <3>1, <3>2
  <2>6. RequestsArePosted'
    BY <1>1, <2>1, <2>2, <2>3, <2>5, RequestsKept DEF QuietInvariant
  <2>7. PendingReviewMessages' = PendingReviewMessages
    BY <1>1, <2>1 DEF PendingReviewMessages, UpTo
  <2>8. \/ status' \notin {"clean", "findings"}
        \/ status' = status /\ pc' \notin {"off", "done"}
        \/ status' = status /\ pc = "done" /\ typed' = typed
    BY <1>4 DEF Reviewer, ShellStartsReviewer, ShellTakesBack, SetRunning, AgentAnswers,
       TurnFails, StageTurn, AppendReviewerMessage, ChooseFeedbackTab, DeliveryFails,
       PrepareDelivery, Send, RecordSent, MarkTurnDelivered, ClearPendingTurn, SetFailed,
       Step, runFile, reviewerUnchanged
  <2>9. AnswerOwed'
    <3>1. CASE status' = status /\ pc = "done" /\ typed' = typed
      BY <1>1, <2>7, <3>1 DEF QuietInvariant, AnswerOwed
    <3> QED BY <2>8, <3>1 DEF AnswerOwed
  <2> QED BY <2>6, <2>9 DEF QuietInvariant
<1> QED BY <1>2, <1>3, <1>4

\* What goes counts as trouble; what comes back answers no one.
LEMMA RestQuiets ==
    ASSUME DeliveryInvariant, QuietInvariant,
           \/ ReviewerDies \/ TerminalDies \/ CloseReviewTab \/ SessionEnsured
           \/ \E t \in Tab : AgentEnds(t) \/ CloseAgentTab(t) \/ AgentStarts(t)
    PROVE  QuietInvariant'
<1>1. /\ UNCHANGED <<status, lastRequest, stamp, posted, mpc, turn>>
      /\ mine' = mine \/ mine' = None
  BY DEF ReviewerDies, TerminalDies, CloseReviewTab, SessionEnsured, AgentEnds, CloseAgentTab,
     AgentStarts, ReviewerGone, troubleUnchanged, runFile, messages, reviewer
<1>2. trouble' # 0 \/ UNCHANGED <<pc, typed, trouble>>
  <2>1. trouble \in Nat
    BY DEF DeliveryInvariant, TypeOK
  <2> QED BY <2>1 DEF ReviewerDies, TerminalDies, CloseReviewTab, SessionEnsured, AgentEnds,
     CloseAgentTab, AgentStarts, Trouble, reviewer
<1>3. RequestsArePosted'
  BY <1>1 DEF QuietInvariant, RequestsArePosted, LastIsPosted
<1>4. PendingReviewMessages' = PendingReviewMessages
  BY <1>1 DEF PendingReviewMessages, UpTo
<1>5. AnswerOwed'
  BY <1>1, <1>2, <1>4 DEF QuietInvariant, AnswerOwed
<1> QED BY <1>3, <1>5 DEF QuietInvariant

LEMMA QuietInit == Init => QuietInvariant
<1>1. Init => /\ status = "queued" /\ lastRequest = None /\ posted = {}
              /\ turn = None /\ mine = None
  BY DEF Init
<1> QED BY <1>1 DEF QuietInvariant, RequestsArePosted, LastIsPosted, AnswerOwed

LEMMA QuietStep == DeliveryInvariant /\ QuietInvariant /\ [Next]_vars => QuietInvariant'
<1> SUFFICES ASSUME DeliveryInvariant, QuietInvariant, [Next]_vars PROVE QuietInvariant'
  OBVIOUS
<1>1. CASE UNCHANGED vars
  BY <1>1 DEF vars, QuietInvariant, RequestsArePosted, LastIsPosted, AnswerOwed,
     PendingReviewMessages, UpTo
<1>2. CASE \E m \in Msg : Stamp(m) \/ Command(m) \/ KillCommand(m)
  BY <1>2, StampQuiets, PostQuiets, CommandQuiets
<1> QED BY <1>1, <1>2, ReviewerQuiets, RestQuiets, Zenon DEF Next

\* The reviewer reads once more before it leaves, a message posted behind its
\* back has its own command still to ask for one, and a command that gives up
\* says so in the run's file: when everybody has gone, a run that reads clean
\* or findings has answered every message, if nothing was killed or closed.
THEOREM QuietRunHasAnswered == Spec => []QuietMeansAnswered
<1>1. DeliveryInvariant /\ QuietInvariant => QuietMeansAnswered
  <2> SUFFICES ASSUME DeliveryInvariant, QuietInvariant, Quiet, trouble = 0,
                      status \in {"clean", "findings"}, NEW m \in PendingReviewMessages
               PROVE  FALSE
    BY DEF QuietMeansAnswered
  <2>1. m \in Msg
    BY DEF DeliveryInvariant, TypeOK, PendingReviewMessages
  <2> QED BY <2>1 DEF QuietInvariant, AnswerOwed, Quiet, Ended
<1> QED BY <1>1, QuietInit, QuietStep, DeliveryInvariantHolds, PTL DEF Spec

-----------------------------------------------------------------------------
(* The order of messages, and the ledger.                                  *)

\* The requests of turns and of the run's file are posted messages.
LEMMA RequestsPosted ==
    ASSUME ReviewInvariant
    PROVE  /\ lastRequest # None => lastRequest \in posted
           /\ pc \in Answering => mine.request \in posted
           /\ turn # None => turn.request \in posted
           /\ posted \subseteq Msg
<1>1. posted \subseteq Msg /\ turn \in Turn \cup {None}
  BY DEF ReviewInvariant, DeliveryInvariant, TypeOK
<1>2. lastRequest # None => lastRequest \in posted
  BY DEF ReviewInvariant, OrderInvariant, LastIsPosted
<1>3. pc \in Answering => mine.request \in posted
  BY DEF ReviewInvariant, OrderInvariant, StillPending, PendingReviewMessages
<1>4. turn # None => turn.request \in posted
  <2> SUFFICES ASSUME turn # None PROVE turn.request \in posted
    OBVIOUS
  <2>1. turn.request \in Msg
    BY <1>1 DEF Turn
  <2>2. turn.request = lastRequest \/ turn.request \in PendingReviewMessages
    BY DEF ReviewInvariant, OrderInvariant, StillPending
  <2> QED BY <1>2, <2>1, <2>2, ReviewAssumption DEF PendingReviewMessages
<1> QED BY <1>1, <1>2, <1>3, <1>4

LEMMA OrderInit == Init => OrderInvariant
<1> SUFFICES ASSUME Init PROVE OrderInvariant
  OBVIOUS
<1>1. StampsDiffer
  BY DEF Init, StampsDiffer
<1>2. LastIsPosted /\ StillPending /\ NothingPassedOver /\ PromptComplete
  BY DEF Init, LastIsPosted, StillPending, NothingPassedOver, PromptComplete, Composing,
     Answering, Delivering
<1>3. RequestsRead /\ LateAreOvertaken
  BY DEF Init, RequestsRead, LateAreOvertaken, Composing, Answering, Delivering
<1> QED BY <1>1, <1>2, <1>3 DEF OrderInvariant

\* A message is stamped before it is in the file: nothing posted is compared.
LEMMA StampOrders ==
    ASSUME ReviewInvariant, NEW m \in Msg, Stamp(m)
    PROVE  OrderInvariant'
<1>1. /\ UNCHANGED <<lastRequest, posted, turn, pc, mine, prompt, prompted, late>>
      /\ mpc[m] = "off" /\ mpc'[m] = "stamped"
      /\ m \notin posted /\ clock \in Nat /\ stamp \in [Msg -> Nat]
  BY DEF Stamp, Goes, ReviewInvariant, DeliveryInvariant, OrderInvariant, TypeOK, StampsDiffer,
     runFile, reviewer, ghosts
<1>2. /\ clock' = clock + 1 /\ stamp'[m] = clock + 1
      /\ \A n \in Msg \ {m} : stamp'[n] = stamp[n] /\ mpc'[n] = mpc[n]
  BY <1>1 DEF Stamp, Goes, ReviewInvariant, DeliveryInvariant, TypeOK
<1>3. \A n \in posted : n \in Msg \ {m} /\ stamp'[n] = stamp[n]
  BY <1>1, <1>2, RequestsPosted
<1>4. StampsDiffer'
  BY <1>1, <1>2, <1>3 DEF ReviewInvariant, OrderInvariant, StampsDiffer
<1>5. LastIsPosted'
  BY <1>1 DEF ReviewInvariant, OrderInvariant, LastIsPosted
<1>6. \A k \in posted \cup {None}, n \in posted : UpTo(k, n)' <=> UpTo(k, n)
  BY <1>3 DEF UpTo
<1>7. PendingReviewMessages' = PendingReviewMessages
  BY <1>1, <1>6, RequestsPosted DEF PendingReviewMessages
<1>8. StillPending'
  BY <1>1, <1>7 DEF ReviewInvariant, OrderInvariant, StillPending
<1>9. NothingPassedOver'
  BY <1>1, <1>6, RequestsPosted DEF ReviewInvariant, OrderInvariant, NothingPassedOver
<1>10. PromptComplete'
  BY <1>1, <1>6, RequestsPosted
  DEF ReviewInvariant, OrderInvariant, PromptComplete, Answering
<1>11. RequestsRead'
  BY <1>1 DEF ReviewInvariant, OrderInvariant, RequestsRead
<1>12. LateAreOvertaken'
  BY <1>1, <1>3 DEF ReviewInvariant, OrderInvariant, LateAreOvertaken
<1> QED BY <1>4, <1>5, <1>8, <1>9, <1>10, <1>11, <1>12 DEF OrderInvariant

\* A message posted after the request of a turn was read either has a later
\* stamp, and is pending, or is late.
LEMMA PostIsPendingOrLate ==
    ASSUME ReviewInvariant, NEW m \in Msg, Post(m),
           NEW k \in prompt \cup prompted, UpTo(k, m)
    PROVE  m \in late'
<1>1. k \in posted /\ k # m /\ m \notin posted
  BY DEF Post, Goes, ReviewInvariant, OrderInvariant, StampsDiffer, RequestsRead
<1>2. stamp[m] # stamp[k] /\ stamp[m] \in Nat /\ stamp[k] \in Nat
  BY <1>1, RequestsPosted
  DEF Post, Goes, ReviewInvariant, DeliveryInvariant, OrderInvariant, TypeOK, StampsDiffer
<1>3. stamp[m] < stamp[k]
  BY <1>2 DEF UpTo
<1> QED BY <1>3 DEF Post

LEMMA PostOrders ==
    ASSUME ReviewInvariant, NEW m \in Msg, Post(m)
    PROVE  OrderInvariant'
<1>1. /\ UNCHANGED <<lastRequest, clock, stamp, turn, pc, mine, prompt, prompted>>
      /\ posted' = posted \cup {m} /\ m \notin posted
      /\ late \subseteq late' /\ late' \subseteq late \cup {m}
      /\ mpc[m] = "stamped" /\ stamp[m] > 0
      /\ \A n \in Msg \ {m} : mpc'[n] = mpc[n]
      /\ mpc'[m] \in {"resolve", "recheck"}
  BY DEF Post, Goes, ReviewInvariant, DeliveryInvariant, OrderInvariant, TypeOK, StampsDiffer,
     runFile, reviewer
<1>2. \A k \in prompt \cup prompted : UpTo(k, m) => m \in late'
  BY PostIsPendingOrLate
<1>4. StampsDiffer'
  BY <1>1 DEF ReviewInvariant, OrderInvariant, StampsDiffer
<1>5. LastIsPosted'
  BY <1>1 DEF ReviewInvariant, OrderInvariant, LastIsPosted
<1>7. StillPending'
  BY <1>1 DEF ReviewInvariant, OrderInvariant, StillPending, PendingReviewMessages, UpTo
<1>8. NothingPassedOver'
  <2> SUFFICES ASSUME NEW n \in posted', UpTo(lastRequest, n)
               PROVE  n \in prompted \cup late'
    BY <1>1 DEF NothingPassedOver, UpTo
  <2>1. CASE n = m
    <3>1. lastRequest \in prompted
      BY DEF UpTo, ReviewInvariant, OrderInvariant, RequestsRead
    <3> QED BY <1>2, <2>1, <3>1
  <2>2. CASE n # m
    BY <1>1, <2>2 DEF ReviewInvariant, OrderInvariant, NothingPassedOver
  <2> QED BY <2>1, <2>2
<1>9. PromptComplete'
  <2>1. ASSUME pc \in Composing, NEW n \in posted', UpTo(mine.request, n)
        PROVE  n \in prompt \cup late'
    <3>1. mine.request \in prompt
      BY <2>1 DEF ReviewInvariant, OrderInvariant, RequestsRead
    <3>2. CASE n = m
      BY <1>2, <2>1, <3>1, <3>2
    <3>3. CASE n # m
      BY <1>1, <2>1, <3>3 DEF ReviewInvariant, OrderInvariant, PromptComplete
    <3> QED BY <3>2, <3>3
  <2>2. ASSUME turn # None, NEW n \in posted', UpTo(turn.request, n)
        PROVE  n \in prompted \cup late'
    <3>1. turn.request \in prompted
      BY <2>2 DEF ReviewInvariant, OrderInvariant, RequestsRead
    <3>2. CASE n = m
      BY <1>2, <2>2, <3>1, <3>2
    <3>3. CASE n # m
      BY <1>1, <2>2, <3>3 DEF ReviewInvariant, OrderInvariant, PromptComplete
    <3> QED BY <3>2, <3>3
  <2> QED BY <1>1, <2>1, <2>2 DEF PromptComplete, UpTo
<1>10. RequestsRead'
  BY <1>1 DEF ReviewInvariant, OrderInvariant, RequestsRead
<1>11. LateAreOvertaken'
  <2>1. m \in late' => \E n \in posted : stamp[m] < stamp[n]
    BY <1>1 DEF Post, ReviewInvariant, OrderInvariant, RequestsRead, LateAreOvertaken
  <2>2. /\ late' \subseteq posted'
        /\ \A k \in late' : \E n \in posted' : stamp[k] < stamp[n]
    BY <1>1, <2>1 DEF ReviewInvariant, OrderInvariant, LateAreOvertaken
  <2>3. /\ lastRequest # None => lastRequest # m
        /\ turn # None => turn.request # m
        /\ pc \in Answering => mine.request # m
    BY <1>1, RequestsPosted
  <2> QED BY <1>1, <2>2, <2>3 DEF ReviewInvariant, OrderInvariant, LateAreOvertaken
<1> QED BY <1>4, <1>5, <1>7, <1>8, <1>9, <1>10, <1>11 DEF OrderInvariant

\* Any other step of a command, or its end.
LEMMA CommandOrders ==
    ASSUME ReviewInvariant, NEW m \in Msg, Command(m) \/ KillCommand(m), ~Post(m)
    PROVE  OrderInvariant'
<1>1. UNCHANGED <<lastRequest, clock, stamp, posted, turn, pc, mine, prompt, prompted, late>>
  BY DEF Command, KillCommand, Recheck, Ask, SetQueued, EnsureReviewTab, ResolveFails,
     FindTerminalBusy, StartReviewer, StartFails, SeeAccepted, AwaitTimesOut, GiveUp,
     commandUnchanged, runFile, messages, reviewer, ghosts
<1>2. \A n \in Msg : mpc'[n] \in {"off", "stamped"} => mpc'[n] = mpc[n]
  BY DEF Command, KillCommand, Recheck, Ask, SetQueued, EnsureReviewTab, ResolveFails,
     FindTerminalBusy, StartReviewer, StartFails, SeeAccepted, AwaitTimesOut, GiveUp, Goes,
     ReviewInvariant, DeliveryInvariant, TypeOK
<1>3. StampsDiffer'
  BY <1>1, <1>2, Zenon DEF ReviewInvariant, OrderInvariant, StampsDiffer
<1>4. (LastIsPosted /\ StillPending /\ NothingPassedOver /\ PromptComplete)'
  BY <1>1 DEF ReviewInvariant, OrderInvariant, LastIsPosted, StillPending, NothingPassedOver,
     PromptComplete, PendingReviewMessages, UpTo
<1>5. (RequestsRead /\ LateAreOvertaken)'
  BY <1>1 DEF ReviewInvariant, OrderInvariant, RequestsRead, LateAreOvertaken
<1> QED BY <1>3, <1>4, <1>5 DEF OrderInvariant

\* A step after which nothing is being answered that was not before, and the
\* files of messages, turn and run are as they were.
LEMMA FilesKeepOrder ==
    ASSUME ReviewInvariant,
           UNCHANGED <<lastRequest, clock, stamp, posted, mpc, turn, prompted, late>>,
           prompt' = prompt \/ prompt' = {},
           \/ pc' \notin Answering
           \/ /\ pc \in Answering /\ mine'.request = mine.request
              /\ pc' \in Composing => pc \in Composing /\ prompt' = prompt
    PROVE  OrderInvariant'
<1>1. (StampsDiffer /\ LastIsPosted /\ NothingPassedOver)'
  BY DEF ReviewInvariant, OrderInvariant, StampsDiffer, LastIsPosted, NothingPassedOver, UpTo
<1>2. StillPending'
  BY DEF ReviewInvariant, OrderInvariant, StillPending, PendingReviewMessages, UpTo
<1>3. PromptComplete'
  BY DEF ReviewInvariant, OrderInvariant, PromptComplete, UpTo, Answering
<1>4. (RequestsRead /\ LateAreOvertaken)'
  BY DEF ReviewInvariant, OrderInvariant, RequestsRead, LateAreOvertaken, Answering
<1> QED BY <1>1, <1>2, <1>3, <1>4 DEF OrderInvariant

LEMMA ReadOrders == ReviewInvariant /\ Read => OrderInvariant'
<1> SUFFICES ASSUME ReviewInvariant, Read PROVE OrderInvariant'
  OBVIOUS
<1>1. UNCHANGED <<lastRequest, clock, stamp, posted, mpc, turn, prompted, late>>
  BY DEF Read, runFile, messages, ghosts, reviewerUnchanged
<1>2. CASE pc' \in {"clear", "done"}
  <2>1. prompt' = prompt
    BY <1>2 DEF Read, Step
  <2> QED BY <1>1, <1>2, <2>1, FilesKeepOrder DEF Answering, Composing, Delivering
<1>3. (StampsDiffer /\ LastIsPosted /\ NothingPassedOver)'
  BY <1>1 DEF ReviewInvariant, OrderInvariant, StampsDiffer, LastIsPosted, NothingPassedOver,
     UpTo
<1>4. PendingReviewMessages' = PendingReviewMessages
  BY <1>1 DEF PendingReviewMessages, UpTo
<1>5. CASE pc' = "resume"
  <2>1. turn # None /\ turn.request # lastRequest /\ mine' = turn /\ prompt' = prompt
    BY <1>5 DEF Read, Step, Recorded
  <2>2. StillPending'
    BY <1>1, <1>4, <2>1 DEF ReviewInvariant, OrderInvariant, StillPending
  <2>3. PromptComplete'
    BY <1>1, <1>5 DEF ReviewInvariant, OrderInvariant, PromptComplete, Composing, UpTo
  <2>4. (RequestsRead /\ LateAreOvertaken)'
    BY <1>1, <1>5, <2>1
    DEF ReviewInvariant, OrderInvariant, RequestsRead, LateAreOvertaken, Composing
  <2> QED BY <1>3, <2>2, <2>3, <2>4 DEF OrderInvariant
<1>6. CASE pc' = "run"
  <2>1. /\ turn = None /\ prompt' = posted
        /\ \E m \in Msg :
              /\ m \in PendingReviewMessages
              /\ \A n \in PendingReviewMessages : stamp[n] <= stamp[m]
              /\ mine' = [request |-> m, count |-> 0, delivered |-> FALSE]
    BY <1>6 DEF Read, Step, IsLatest
  <2>2. /\ mine'.request \in PendingReviewMessages
        /\ \A n \in PendingReviewMessages : stamp[n] <= stamp[mine'.request]
    BY <2>1
  <2>3. StillPending' /\ PromptComplete'
    BY <1>1, <1>4, <2>1, <2>2 DEF StillPending, PromptComplete
  <2>4. RequestsRead'
    BY <1>1, <2>1, <2>2
    DEF ReviewInvariant, OrderInvariant, RequestsRead, PendingReviewMessages
  <2>5. mine'.request \notin late
    <3> DEFINE k == mine'.request
    <3> SUFFICES ASSUME k \in late PROVE FALSE
      OBVIOUS
    <3>1. PICK n \in posted : stamp[k] < stamp[n]
      BY DEF ReviewInvariant, OrderInvariant, LateAreOvertaken
    <3>2. k \in posted /\ ~UpTo(lastRequest, k)
      BY <2>2 DEF PendingReviewMessages
    <3>3. /\ stamp[k] \in Nat /\ stamp[n] \in Nat
          /\ lastRequest # None => stamp[lastRequest] \in Nat
      BY <3>1, <3>2, RequestsPosted DEF ReviewInvariant, DeliveryInvariant, TypeOK
    <3>4. n \in PendingReviewMessages
      BY <3>1, <3>2, <3>3 DEF PendingReviewMessages, UpTo
    <3>5. stamp[n] <= stamp[k]
      BY <2>2, <3>4
    <3> QED BY <3>1, <3>3, <3>5
  <2>6. LateAreOvertaken'
    BY <1>1, <2>5 DEF ReviewInvariant, OrderInvariant, LateAreOvertaken
  <2> QED BY <1>3, <2>3, <2>4, <2>6 DEF OrderInvariant
<1> QED BY <1>2, <1>5, <1>6 DEF Read, Step

LEMMA StageTurnOrders == ReviewInvariant /\ StageTurn => OrderInvariant'
<1> SUFFICES ASSUME ReviewInvariant, StageTurn PROVE OrderInvariant'
  OBVIOUS
<1>0. turn = None
  BY DEF StageTurn, Step, ReviewInvariant, DeliveryInvariant, CopyOfTurn, Composing
<1>1. /\ UNCHANGED <<lastRequest, clock, stamp, posted, mpc, mine, prompt, late>>
      /\ pc = "stage" /\ pc' = "reply" /\ turn' = mine
      /\ prompted' = prompted \cup prompt
  BY <1>0 DEF StageTurn, Step, runFile, messages, reviewerUnchanged
<1>2. (StampsDiffer /\ LastIsPosted /\ NothingPassedOver)'
  BY <1>1 DEF ReviewInvariant, OrderInvariant, StampsDiffer, LastIsPosted, NothingPassedOver,
     UpTo
<1>3. StillPending'
  BY <1>1 DEF ReviewInvariant, OrderInvariant, StillPending, PendingReviewMessages, UpTo,
     Answering, Composing
<1>4. PromptComplete'
  BY <1>1 DEF ReviewInvariant, OrderInvariant, PromptComplete, UpTo, Composing
<1>5. (RequestsRead /\ LateAreOvertaken)'
  BY <1>1
  DEF ReviewInvariant, OrderInvariant, RequestsRead, LateAreOvertaken, Answering, Composing
<1> QED BY <1>2, <1>3, <1>4, <1>5 DEF OrderInvariant

LEMMA MarkTurnDeliveredOrders == ReviewInvariant /\ MarkTurnDelivered => OrderInvariant'
<1> SUFFICES ASSUME ReviewInvariant, MarkTurnDelivered PROVE OrderInvariant'
  OBVIOUS
<1>1. /\ UNCHANGED <<lastRequest, clock, stamp, posted, mpc, mine, prompt, prompted, late>>
      /\ pc = "mark" /\ pc' = "record" /\ turn # None /\ turn' # None
      /\ turn'.request = turn.request
  BY ReviewNoneAssumption
  DEF MarkTurnDelivered, NoOtherTurn, Step, runFile, messages, ghosts, reviewerUnchanged,
      ReviewInvariant, DeliveryInvariant, TypeOK, Turn
<1>2. (StampsDiffer /\ LastIsPosted /\ NothingPassedOver)'
  BY <1>1 DEF ReviewInvariant, OrderInvariant, StampsDiffer, LastIsPosted, NothingPassedOver,
     UpTo
<1>3. StillPending'
  BY <1>1 DEF ReviewInvariant, OrderInvariant, StillPending, PendingReviewMessages, UpTo,
     Answering, Delivering
<1>4. PromptComplete'
  BY <1>1 DEF ReviewInvariant, OrderInvariant, PromptComplete, UpTo, Composing
<1>5. (RequestsRead /\ LateAreOvertaken)'
  BY <1>1
  DEF ReviewInvariant, OrderInvariant, RequestsRead, LateAreOvertaken, Answering, Composing,
      Delivering
<1> QED BY <1>2, <1>3, <1>4, <1>5 DEF OrderInvariant

\* The run's last request moves to one that was pending, and whatever is up to
\* it was in the prompt of the turn recorded.
LEMMA RecordTurnOrders == ReviewInvariant /\ RecordTurn => OrderInvariant'
<1> SUFFICES ASSUME ReviewInvariant, RecordTurn PROVE OrderInvariant'
  OBVIOUS
<1>1. /\ UNCHANGED <<clock, stamp, posted, mpc, mine, prompt, prompted, late, turn>>
      /\ pc = "record" /\ pc' = "clear" /\ lastRequest' = mine.request
      /\ turn # None /\ turn.request = mine.request
  BY DEF RecordTurn, Step, messages, ghosts, reviewerUnchanged,
     ReviewInvariant, DeliveryInvariant, CopyOfTurn, Staged, Delivering
<1>2. mine.request \in posted
  BY <1>1, RequestsPosted DEF Answering, Delivering
<1>3. StampsDiffer' /\ LastIsPosted'
  BY <1>1, <1>2 DEF ReviewInvariant, OrderInvariant, StampsDiffer, LastIsPosted
<1>4. StillPending'
  BY <1>1 DEF StillPending, Answering, Composing, Delivering
<1>5. NothingPassedOver'
  BY <1>1 DEF ReviewInvariant, OrderInvariant, PromptComplete, NothingPassedOver, UpTo
<1>6. PromptComplete'
  BY <1>1 DEF ReviewInvariant, OrderInvariant, PromptComplete, UpTo, Composing
<1>7. (RequestsRead /\ LateAreOvertaken)'
  BY <1>1
  DEF ReviewInvariant, OrderInvariant, RequestsRead, LateAreOvertaken, Answering, Composing,
      Delivering
<1> QED BY <1>3, <1>4, <1>5, <1>6, <1>7 DEF OrderInvariant

LEMMA ClearPendingTurnOrders == ReviewInvariant /\ ClearPendingTurn => OrderInvariant'
<1> SUFFICES ASSUME ReviewInvariant, ClearPendingTurn PROVE OrderInvariant'
  OBVIOUS
<1>1. /\ UNCHANGED <<lastRequest, clock, stamp, posted, mpc, prompt, prompted, late>>
      /\ pc' = "get" /\ turn' = None
  BY DEF ClearPendingTurn, NoOtherTurn, Step, runFile, messages, ghosts, reviewerUnchanged
<1>2. (StampsDiffer /\ LastIsPosted /\ NothingPassedOver)'
  BY <1>1 DEF ReviewInvariant, OrderInvariant, StampsDiffer, LastIsPosted, NothingPassedOver,
     UpTo
<1>3. (StillPending /\ PromptComplete)'
  BY <1>1 DEF StillPending, PromptComplete, Answering, Composing, Delivering
<1>4. (RequestsRead /\ LateAreOvertaken)'
  BY <1>1
  DEF ReviewInvariant, OrderInvariant, RequestsRead, LateAreOvertaken, Answering, Composing,
      Delivering
<1> QED BY <1>2, <1>3, <1>4 DEF OrderInvariant

\* The rest of the reviewer's steps move it along with the same turn.
LEMMA ReviewerOrders == ReviewInvariant /\ Reviewer => OrderInvariant'
<1> SUFFICES ASSUME ReviewInvariant, Reviewer PROVE OrderInvariant'
  OBVIOUS
<1>1. CASE Read \/ StageTurn \/ MarkTurnDelivered \/ RecordTurn \/ ClearPendingTurn
  BY <1>1, ReadOrders, StageTurnOrders, MarkTurnDeliveredOrders, RecordTurnOrders,
     ClearPendingTurnOrders
<1>2. CASE ShellStartsReviewer \/ ShellTakesBack \/ TurnFails \/ DeliveryFails \/ SetFailed
  <2>1. /\ UNCHANGED <<lastRequest, clock, stamp, posted, mpc, turn, prompted, late>>
        /\ pc' \notin Answering /\ (prompt' = prompt \/ prompt' = {})
    BY <1>2 DEF ShellStartsReviewer, ShellTakesBack, TurnFails, DeliveryFails, SetFailed, Step,
       ReviewerGone, runFile, messages, ghosts, reviewerUnchanged, Answering, Composing,
       Delivering
  <2> QED BY <2>1, FilesKeepOrder
<1>3. CASE AgentAnswers
  <2>1. /\ UNCHANGED <<lastRequest, clock, stamp, posted, mpc, turn, prompted, late, prompt>>
        /\ pc = "agent" /\ pc' = "stage" /\ \E n \in 0..MaxFindings : mine' = [mine EXCEPT !.count = n]
    BY <1>3 DEF AgentAnswers, Step, runFile, messages, ghosts, reviewerUnchanged
  <2>2. mine \in Turn
    BY <2>1 DEF ReviewInvariant, DeliveryInvariant, TypeOK, CopyOfTurn, Answering, Composing
  <2>3. mine'.request = mine.request
    BY <2>1, <2>2 DEF Turn
  <2> QED BY <2>1, <2>3, FilesKeepOrder DEF Answering, Composing
<1>4. CASE \/ SetRunning \/ AppendReviewerMessage \/ ChooseFeedbackTab \/ PrepareDelivery
           \/ Send \/ RecordSent
  <2>1. UNCHANGED <<lastRequest, clock, stamp, posted, mpc, turn, prompted, late, mine, prompt>>
    BY <1>4 DEF SetRunning, AppendReviewerMessage, ChooseFeedbackTab, PrepareDelivery, Send,
       RecordSent, runFile, messages, ghosts, reviewerUnchanged
  <2>2. /\ pc \in Answering
        /\ pc' \in Composing => pc \in Composing
    BY <1>4 DEF SetRunning, AppendReviewerMessage, ChooseFeedbackTab, PrepareDelivery, Send,
       RecordSent, Step, Answering, Composing, Delivering
  <2> QED BY <2>1, <2>2, FilesKeepOrder
<1> QED BY <1>1, <1>2, <1>3, <1>4 DEF Reviewer

LEMMA RestOrders ==
    ASSUME ReviewInvariant,
           \/ ReviewerDies \/ TerminalDies \/ CloseReviewTab \/ SessionEnsured
           \/ \E t \in Tab : AgentEnds(t) \/ CloseAgentTab(t) \/ AgentStarts(t)
           \/ UNCHANGED vars
    PROVE  OrderInvariant'
<1>1. UNCHANGED <<lastRequest, clock, stamp, posted, mpc, turn, prompted, late>>
  BY DEF ReviewerDies, TerminalDies, CloseReviewTab, SessionEnsured, AgentEnds, CloseAgentTab,
     AgentStarts, troubleUnchanged, runFile, messages, ghosts, vars
<1>2. (pc' = "off" /\ prompt' = {}) \/ UNCHANGED <<pc, mine, prompt>>
  BY DEF ReviewerDies, TerminalDies, CloseReviewTab, SessionEnsured, AgentEnds, CloseAgentTab,
     AgentStarts, ReviewerGone, reviewer, vars
<1> QED BY <1>1, <1>2, FilesKeepOrder DEF Answering, Composing, Delivering

LEMMA ReviewStep == ReviewInvariant /\ [Next]_vars => ReviewInvariant'
<1> SUFFICES ASSUME ReviewInvariant, [Next]_vars PROVE ReviewInvariant'
  OBVIOUS
<1>1. DeliveryInvariant'
  BY DeliveryStep DEF ReviewInvariant
<1>0. QuietInvariant'
  BY QuietStep DEF ReviewInvariant
<1>2. CASE \E m \in Msg : Stamp(m) \/ Command(m) \/ KillCommand(m)
  BY <1>0, <1>1, <1>2, StampOrders, PostOrders, CommandOrders DEF ReviewInvariant
<1>3. CASE Reviewer
  BY <1>0, <1>1, <1>3, ReviewerOrders DEF ReviewInvariant
<1>4. CASE \/ ReviewerDies \/ TerminalDies \/ CloseReviewTab \/ SessionEnsured
           \/ \E t \in Tab : AgentEnds(t) \/ CloseAgentTab(t) \/ AgentStarts(t)
           \/ UNCHANGED vars
  BY <1>0, <1>1, <1>4, RestOrders DEF ReviewInvariant
<1> QED BY <1>2, <1>3, <1>4, Zenon DEF Next

\* The whole inductive invariant, in whatever order commands stamp and post.
THEOREM ReviewInvariantHolds == Spec => []ReviewInvariant
<1>1. Init => ReviewInvariant
  BY DeliveryInit, OrderInit, QuietInit DEF ReviewInvariant
<1> QED BY <1>1, ReviewStep, PTL DEF Spec

\* What RecordTurn's last request covers was in the prompt of a staged turn, or
\* came into the file after a message of a later stamp had been read.
THEOREM NoMessagePassedOver == Spec => []NothingPassedOver
<1>1. ReviewInvariant => NothingPassedOver
  BY DEF ReviewInvariant, OrderInvariant
<1> QED BY <1>1, ReviewInvariantHolds, PTL

-----------------------------------------------------------------------------
(* The conversation implements its ledger.                                 *)

\* The messages the ledger calls answered.
AnsweredMessages == {m \in posted \ late : UpTo(lastRequest, m)}

LEMMA LedgerStutters ==
    UNCHANGED <<posted, late, lastRequest, stamp, findingCount, pasted, heard>>
        => UNCHANGED Ledger!ledger
BY DEF Ledger!ledger, UpTo

\* Steps that neither post, paste nor record, and leave the agents alone.
LEMMA LedgerNotConcerned ==
    ASSUME \/ \E m \in Msg : KillCommand(m) \/ (Command(m) /\ ~Post(m))
           \/ Reviewer /\ ~Send /\ ~RecordTurn
           \/ ReviewerDies \/ TerminalDies \/ CloseReviewTab \/ SessionEnsured
           \/ \E t \in Tab : AgentStarts(t)
           \/ UNCHANGED vars
    PROVE  UNCHANGED Ledger!ledger
<1>1. CASE \E m \in Msg : KillCommand(m) \/ (Command(m) /\ ~Post(m))
  BY <1>1, LedgerStutters
  DEF KillCommand, Command, Recheck, Ask, SetQueued, EnsureReviewTab, ResolveFails,
      FindTerminalBusy, StartReviewer, StartFails, SeeAccepted, AwaitTimesOut, GiveUp,
      commandUnchanged, runFile, messages, ghosts
<1>2. CASE Reviewer /\ ~Send /\ ~RecordTurn
  BY <1>2, LedgerStutters
  DEF Reviewer, ShellStartsReviewer, ShellTakesBack, Read, SetRunning, AgentAnswers, TurnFails,
      StageTurn, NoOtherTurn, AppendReviewerMessage, ChooseFeedbackTab, DeliveryFails, PrepareDelivery,
      RecordSent, MarkTurnDelivered, ClearPendingTurn, SetFailed, reviewerUnchanged, runFile,
      messages, ghosts
<1>3. CASE \/ ReviewerDies \/ TerminalDies \/ CloseReviewTab \/ SessionEnsured
           \/ \E t \in Tab : AgentStarts(t)
           \/ UNCHANGED vars
  BY <1>3, LedgerStutters
  DEF ReviewerDies, TerminalDies, CloseReviewTab, SessionEnsured, AgentStarts,
      troubleUnchanged, runFile, messages, ghosts, vars
<1> QED BY <1>1, <1>2, <1>3

LEMMA StampIsNoEntry ==
    ASSUME ReviewInvariant, NEW m \in Msg, Stamp(m)
    PROVE  UNCHANGED Ledger!ledger
<1>1. /\ UNCHANGED <<posted, late, lastRequest, findingCount, pasted, heard>>
      /\ m \notin posted
      /\ \A n \in Msg \ {m} : stamp'[n] = stamp[n]
  BY DEF Stamp, Goes, ReviewInvariant, DeliveryInvariant, OrderInvariant, TypeOK, StampsDiffer,
     runFile, ghosts
<1>2. AnsweredMessages' = AnsweredMessages
  BY <1>1, RequestsPosted DEF AnsweredMessages, UpTo
<1> QED BY <1>1, <1>2 DEF Ledger!ledger, AnsweredMessages

\* A message posted is not answered yet, or late, and then never.
LEMMA PostAsks ==
    ASSUME ReviewInvariant, NEW m \in Msg, Post(m)
    PROVE  Ledger!AskMessage(m)
<1>1. /\ UNCHANGED <<lastRequest, stamp, findingCount, pasted, heard>>
      /\ posted' = posted \cup {m} /\ m \notin posted
      /\ late \subseteq late' /\ late' \subseteq late \cup {m}
  BY DEF Post, Goes, ReviewInvariant, DeliveryInvariant, OrderInvariant, TypeOK, StampsDiffer,
     runFile
<1>2. UpTo(lastRequest, m) => lastRequest \in prompted
  BY DEF UpTo, ReviewInvariant, OrderInvariant, RequestsRead
<1>3. UpTo(lastRequest, m) => m \in late'
  BY <1>2, PostIsPendingOrLate
<1>4. AnsweredMessages' = AnsweredMessages
  BY <1>1, <1>3 DEF AnsweredMessages, UpTo
<1> QED BY <1>1, <1>4 DEF Ledger!AskMessage, AnsweredMessages

\* What is pasted belongs to a turn not yet recorded, and no agent that still
\* works was given it.
LEMMA SendGives ==
    ASSUME ReviewInvariant, Send
    PROVE  \/ UNCHANGED Ledger!ledger
           \/ \E m \in Msg, t \in Tab : Ledger!Give(m, t)
<1>1. /\ UNCHANGED <<posted, late, lastRequest, stamp, findingCount>>
      /\ pc = "send" /\ (Paste \/ UNCHANGED <<pasted, heard>>)
  BY DEF Send, Step, runFile, messages, reviewerUnchanged
<1>2. CASE UNCHANGED <<pasted, heard>>
  BY <1>1, <1>2, LedgerStutters
<1>3. CASE Paste
  <2>1. /\ mine.request \in posted /\ mine.request \in Msg
        /\ mine.request \notin AnsweredMessages /\ target \in Tab
    BY <1>1, RequestsPosted
    DEF ReviewInvariant, OrderInvariant, DeliveryInvariant, StillPending, HeardIsRecorded,
        PendingReviewMessages, AnsweredMessages, Answering, Delivering
  <2>2. \A t \in Tab : heard[mine.request][t] = 0
    BY <1>1 DEF ReviewInvariant, DeliveryInvariant, HeardIsRecorded
  <2>3. \/ heard' = heard
        \/ heard' = [heard EXCEPT ![mine.request][target] = 1]
    <3>1. heard \in [Msg -> [Tab -> Nat]]
      BY DEF ReviewInvariant, DeliveryInvariant, TypeOK
    <3>2. CASE target \in agents
      <4>1. heard[mine.request][target] + 1 = 1
        BY <2>1, <2>2
      <4> QED BY <1>3, <2>1, <3>1, <3>2, <4>1 DEF Paste
    <3>3. CASE target \notin agents
      <4>1. heard' = [heard EXCEPT ![mine.request][target] = heard[mine.request][target]]
        BY <1>3, <3>3 DEF Paste
      <4>2. heard' = heard
        BY <2>1, <3>1, <4>1
      <4> QED BY <4>2
    <3> QED BY <3>2, <3>3
  <2>4. AnsweredMessages' = AnsweredMessages
    BY <1>1 DEF AnsweredMessages, UpTo
  <2>5. Ledger!Give(mine.request, target)
    BY <1>1, <1>3, <2>1, <2>2, <2>3, <2>4 DEF Ledger!Give, Paste, AnsweredMessages
  <2> QED BY <2>1, <2>5
<1> QED BY <1>1, <1>2, <1>3

LEMMA AgentLeaves ==
    ASSUME NEW t \in Tab, AgentEnds(t) \/ CloseAgentTab(t)
    PROVE  Ledger!Leave(t)
<1>1. UNCHANGED <<posted, late, lastRequest, stamp, findingCount, pasted>> /\ AgentGone(t)
  BY DEF AgentEnds, CloseAgentTab, troubleUnchanged, runFile, messages
<1> QED BY <1>1 DEF Ledger!Leave, AgentGone, UpTo

\* RecordTurn answers every message up to the request that was not answered.
LEMMA RecordTurnAnswers ==
    ASSUME ReviewInvariant, RecordTurn
    PROVE  \E S \in SUBSET posted, m \in posted, n \in 0..MaxFindings : Ledger!Answer(S, m, n)
<1> DEFINE S == {m \in posted \ late : UpTo(mine.request, m)} \ AnsweredMessages
<1>1. /\ UNCHANGED <<posted, late, stamp, pasted, heard>>
      /\ pc = "record" /\ lastRequest' = mine.request
      /\ findingCount' = findingCount + mine.count
  BY DEF RecordTurn, Step, messages, ghosts, reviewerUnchanged
<1>2. /\ mine \in Turn /\ mine.request \in posted /\ mine.request # None
      /\ mine.count \in 0..MaxFindings
  BY <1>1, RequestsPosted, ReviewAssumption
  DEF ReviewInvariant, DeliveryInvariant, TypeOK, CopyOfTurn, Answering, Delivering, Turn
<1>3. mine.request \in S
  <2>1. mine.request \notin AnsweredMessages
    BY <1>1 DEF ReviewInvariant, OrderInvariant, StillPending, PendingReviewMessages,
       AnsweredMessages, Answering, Delivering
  <2>2. UpTo(mine.request, mine.request)
    BY <1>2, RequestsPosted DEF UpTo, ReviewInvariant, DeliveryInvariant, TypeOK
  <2>3. mine.request \notin late
    BY <1>1 DEF ReviewInvariant, OrderInvariant, LateAreOvertaken, Answering, Delivering
  <2> QED BY <1>2, <2>1, <2>2, <2>3
<1>4. AnsweredMessages \subseteq {m \in posted \ late : UpTo(mine.request, m)}
  <2> SUFFICES ASSUME NEW m \in AnsweredMessages PROVE UpTo(mine.request, m)
    BY DEF AnsweredMessages
  <2>1. m \in posted /\ lastRequest # None /\ stamp[m] <= stamp[lastRequest]
    BY DEF AnsweredMessages, UpTo
  <2>2. ~(stamp[mine.request] <= stamp[lastRequest])
    BY <1>3, <2>1 DEF AnsweredMessages, UpTo
  <2>3. stamp[m] \in Nat /\ stamp[lastRequest] \in Nat /\ stamp[mine.request] \in Nat
    BY <1>2, <2>1, RequestsPosted DEF ReviewInvariant, DeliveryInvariant, TypeOK
  <2> QED BY <1>2, <2>1, <2>2, <2>3 DEF UpTo
<1>5. AnsweredMessages' = AnsweredMessages \cup S
  BY <1>1, <1>4 DEF AnsweredMessages, UpTo
<1>6. mine.count > 0 => mine.request \in pasted
  BY <1>1 DEF ReviewInvariant, DeliveryInvariant, HandedOver
<1>7. S \subseteq posted \ AnsweredMessages
  OBVIOUS
<1>8. Ledger!Answer(S, mine.request, mine.count)
  BY <1>1, <1>3, <1>5, <1>6, <1>7 DEF Ledger!Answer, AnsweredMessages
<1>9. S \in SUBSET posted
  OBVIOUS
<1> QED BY <1>2, <1>8, <1>9

LEMMA LedgerStep ==
    ReviewInvariant /\ [Next]_vars => [Ledger!Next]_(Ledger!ledger)
<1> SUFFICES ASSUME ReviewInvariant, [Next]_vars
             PROVE  Ledger!Next \/ UNCHANGED Ledger!ledger
  OBVIOUS
<1>1. CASE \E m \in Msg : Stamp(m) \/ Command(m) \/ KillCommand(m)
  <2>1. PICK m \in Msg : Stamp(m) \/ Command(m) \/ KillCommand(m)
    BY <1>1
  <2>2. CASE Stamp(m)
    BY <2>2, StampIsNoEntry
  <2>3. CASE Post(m)
    BY <2>3, PostAsks DEF Ledger!Next
  <2>4. CASE KillCommand(m) \/ (Command(m) /\ ~Post(m))
    BY <2>4, LedgerNotConcerned
  <2> QED BY <2>1, <2>2, <2>3, <2>4
<1>2. CASE Send
  BY <1>2, SendGives DEF Ledger!Next
<1>3. CASE RecordTurn
  BY <1>3, RecordTurnAnswers DEF Ledger!Next
<1>4. CASE \E t \in Tab : AgentEnds(t) \/ CloseAgentTab(t)
  BY <1>4, AgentLeaves DEF Ledger!Next
<1>5. CASE \/ Reviewer /\ ~Send /\ ~RecordTurn
           \/ ReviewerDies \/ TerminalDies \/ CloseReviewTab \/ SessionEnsured
           \/ \E t \in Tab : AgentStarts(t)
           \/ UNCHANGED vars
  BY <1>5, LedgerNotConcerned
<1> QED BY <1>1, <1>2, <1>3, <1>4, <1>5, Zenon DEF Next

\* The conversation, with its files, processes and terminals, implements the
\* ledger: a message is answered once, findings counted once and after they
\* were handed over, and heard once.
THEOREM ConversationKeepsLedger == Spec => KeepsLedger
<1>1. Init => Ledger!Init
  BY DEF Init, Ledger!Init
<1> QED BY <1>1, LedgerStep, ReviewInvariantHolds, PTL DEF Spec, KeepsLedger, Ledger!Spec
=============================================================================
