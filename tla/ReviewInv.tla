------------------------------- MODULE ReviewInv -------------------------------
(***************************************************************************)
(* The inductive invariant of the review conversation: what the reviewer's *)
(* place in its loop says about the staged turn, the run's file, the       *)
(* delivery records and the agents that heard, and who answers a message   *)
(* that waits.                                                             *)
(***************************************************************************)
EXTENDS ReviewConversation

Composing == {"run", "agent", "stage"}
Delivering == {"deliver", "prepare", "send", "sent", "mark", "record"}
Staged == {"resume", "reply", "clear"} \cup Delivering
Answering == Composing \cup {"resume", "reply"} \cup Delivering

\* Stamps are taken once, before the message is posted, and differ.
StampsDiffer ==
    /\ \A m \in Msg : stamp[m] <= clock
    /\ \A m \in Msg : mpc[m] = "off" => stamp[m] = 0 /\ m \notin posted
    /\ \A m \in Msg : mpc[m] = "stamped" => stamp[m] > 0 /\ m \notin posted
    /\ \A m \in posted : stamp[m] > 0
    /\ \A m, n \in Msg : stamp[m] > 0 /\ stamp[m] = stamp[n] => m = n

LastIsPosted == lastRequest # None => lastRequest \in posted

\* The reviewer's copy is the staged turn, once it is staged.
CopyOfTurn ==
    /\ pc \in Answering \cup {"clear"} => mine # None
    /\ pc \in Composing => turn = None
    /\ pc \in Staged =>
         turn # None /\ turn.request = mine.request /\ turn.count = mine.count
    /\ pc = "clear" => lastRequest = mine.request

\* What is being answered, or is staged and not recorded, is not yet answered.
StillPending ==
    /\ pc \in Answering => mine.request \in PendingReviewMessages
    /\ turn # None => \/ turn.request = lastRequest
                      \/ turn.request \in PendingReviewMessages

\* A request was read with the messages of its turn.
RequestsRead ==
    /\ prompt \subseteq posted /\ prompted \subseteq posted
    /\ lastRequest # None => lastRequest \in prompted
    /\ turn # None => turn.request \in prompted
    /\ pc \in Composing => mine.request \in prompt

\* A late message has one of a later stamp before it in the file, so it is not
\* the last of those pending: no turn takes it for its request.
LateAreOvertaken ==
    /\ late \subseteq posted
    /\ \A m \in late : \E n \in posted : stamp[m] < stamp[n]
    /\ lastRequest # None => lastRequest \notin late
    /\ turn # None => turn.request \notin late
    /\ pc \in Answering => mine.request \notin late

\* A reply is in the file before the delivery starts.
ReplyFirst ==
    /\ \A m \in Msg : replies[m] <= 1
    /\ pc \in Delivering => replies[mine.request] = 1
    /\ lastRequest # None => replies[lastRequest] = 1

\* Whoever reads up to a request was given everything before it that was not
\* late.
PromptComplete ==
    /\ pc \in Composing =>
         \A m \in posted : UpTo(mine.request, m) => m \in prompt \cup late
    /\ turn # None =>
         \A m \in posted : UpTo(turn.request, m) => m \in prompted \cup late

\* Findings are handed over before the record or the turn says so.
HandedOver ==
    /\ \A m \in Msg : deliveries[m] # None /\ deliveries[m].status = "sent" => m \in pasted
    /\ pc = "sent" => mine.request \in pasted
    /\ pc \in {"mark", "record"} /\ mine.count > 0 => mine.request \in pasted
    /\ turn # None /\ turn.delivered /\ turn.count > 0 => turn.request \in pasted
    /\ pc \in Composing => ~mine.delivered
    /\ pc \in {"resume", "reply"} => mine.delivered = turn.delivered

\* An agent that heard a turn is in the tab of the turn's delivery record.
HeardIsRecorded ==
    /\ \A m \in Msg : \A t \in Tab :
          heard[m][t] > 0 => /\ heard[m][t] = 1
                             /\ deliveries[m] # None /\ deliveries[m].tab = t
    /\ pc = "send" => \A t \in Tab : heard[mine.request][t] = 0
    /\ pc \in {"prepare", "send", "sent"} => target \in Tab
    /\ pc \in {"send", "sent"} =>
          deliveries[mine.request] # None /\ deliveries[mine.request].tab = target

DeliveryInvariant ==
    TypeOK /\ CopyOfTurn /\ ReplyFirst /\ HandedOver /\ HeardIsRecorded

OrderInvariant ==
    /\ StampsDiffer /\ LastIsPosted /\ StillPending /\ RequestsRead /\ LateAreOvertaken
    /\ NothingPassedOver /\ PromptComplete

\* Every request in a file or in the reviewer's hands is a posted message.
RequestsArePosted ==
    /\ \A m \in Msg : mpc[m] \in {"off", "stamped"} => m \notin posted
    /\ LastIsPosted
    /\ turn # None => turn.request \in posted
    /\ mine # None => mine.request \in posted

\* A message that waits, while the run reads clean or findings, waits for
\* somebody: a reviewer that will read again, a line typed for one, or its own
\* command, which asks for one or says that the run failed.
AnswerOwed ==
    trouble = 0 /\ status \in {"clean", "findings"} =>
        \A m \in PendingReviewMessages :
            \/ pc \notin {"off", "done"}
            \/ typed > 0
            \/ mpc[m] \in {"recheck", "requeue"}
            \/ m = First /\ mpc[m] \in {"resolve", "start", "giveup"}

QuietInvariant == RequestsArePosted /\ AnswerOwed

ReviewInvariant == DeliveryInvariant /\ OrderInvariant /\ QuietInvariant
=============================================================================
