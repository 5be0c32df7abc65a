------------------------------ MODULE ReviewLedger ------------------------------
(***************************************************************************)
(* What a review conversation of slis promises its user, with no process,  *)
(* file or terminal in it.  Messages are asked, and answered in turns; a   *)
(* turn answers everything asked up to it, once.  Its findings are counted *)
(* when it is answered and, if it has any, were given out before; at no    *)
(* time have two agents that still work, or one twice, been given them.    *)
(***************************************************************************)
EXTENDS Naturals

CONSTANTS
    Msg,         \* the messages of the user
    Agent,       \* the places a working agent may be in
    MaxFindings  \* bound: findings of one turn

VARIABLES
    asked,     \* the messages of the conversation
    answered,  \* those some turn answered
    counted,   \* the findings of all the turns answered
    given,     \* turns, by their last message, whose findings were given out
    heard      \* how often the agent in a place was given the findings of a turn
ledger == <<asked, answered, counted, given, heard>>

Init ==
    /\ asked = {} /\ answered = {} /\ counted = 0 /\ given = {}
    /\ heard = [m \in Msg |-> [a \in Agent |-> 0]]

AskMessage(m) ==
    /\ m \notin asked
    /\ asked' = asked \cup {m}
    /\ UNCHANGED <<answered, counted, given, heard>>

\* The turn of m hands its findings to the agent in a, or misses it.
Give(m, a) ==
    /\ m \in asked \ answered
    /\ given' = given \cup {m}
    /\ \/ UNCHANGED heard
       \/ /\ \A b \in Agent : heard[m][b] = 0
          /\ heard' = [heard EXCEPT ![m][a] = 1]
    /\ UNCHANGED <<asked, answered, counted>>

Leave(a) ==
    /\ heard' = [m \in Msg |-> [heard[m] EXCEPT ![a] = 0]]
    /\ UNCHANGED <<asked, answered, counted, given>>

\* One turn answers the messages of S, m the last of them, with n findings.
Answer(S, m, n) ==
    /\ S \subseteq asked \ answered /\ m \in S
    /\ n > 0 => m \in given
    /\ answered' = answered \cup S
    /\ counted' = counted + n
    /\ UNCHANGED <<asked, given, heard>>

Next ==
    \/ \E m \in Msg : AskMessage(m)
    \/ \E m \in Msg, a \in Agent : Give(m, a)
    \/ \E a \in Agent : Leave(a)
    \/ \E S \in SUBSET asked, m \in asked, n \in 0..MaxFindings : Answer(S, m, n)

Spec == Init /\ [][Next]_ledger
=============================================================================
