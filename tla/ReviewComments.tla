----------------------------- MODULE ReviewComments ----------------------------
(***************************************************************************)
(* The pending review comments of the slices (internal/review) and the     *)
(* commands over them (slis review add, list, rm, clear, send and the      *)
(* findings of a review agent), each a process of its own.  The store is   *)
(* one file; the mutex around each operation is the process's own.         *)
(*                                                                         *)
(* Every save of every process goes through the same temporary file, so    *)
(* the model has inodes: a writer that opened the file keeps writing where *)
(* it began, whatever the file has been renamed to.                        *)
(***************************************************************************)
EXTENDS Naturals, FiniteSets

CONSTANTS
    Comment,            \* comments, each with the ID it has or will get
    CommentSlice,       \* the slice of each comment
    Author,             \* processes
    NoComment,          \* no comment, slice or file
    MaxReviewCommands,  \* bound: commands
    MaxReviewTrouble    \* bound: kills and failures

\* The store's and the temporary file, and one that each process may hold open.
Inode == 1 .. Cardinality(Author) + 2

ASSUME CommentAssumption ==
    /\ IsFiniteSet(Author) /\ DOMAIN CommentSlice = Comment /\ NoComment \notin Inode
    /\ MaxReviewCommands \in Nat /\ MaxReviewTrouble \in Nat

ReviewSlice == {CommentSlice[x] : x \in Comment}
Whole(comments) == [torn |-> FALSE, comments |-> comments]

VARIABLES
    inode,      \* what each inode holds; an empty file is read as no comments
    stored,     \* the inode of the store's file, NoComment if there is none
    temp,       \* the inode of the temporary file
    author,     \* per process: its command
    reviewCommands, reviewTrouble
VARIABLES
    added,      \* comments whose add was reported
    discarded,  \* comments a user removed or cleared, or that arrived during a clear or a send
    sent,       \* how often each comment went to an agent since it was added
    mayRepeat,  \* comments that went out and were to stay, or with two sends at once
    overlapped  \* two processes were saving at once

reviewFiles == <<inode, stored, temp>>
reviewGhosts == <<added, discarded, sent, mayRepeat, overlapped>>
commentVars == <<reviewFiles, author, reviewCommands, reviewTrouble, reviewGhosts>>

NoAuthor == [op |-> NoComment, at |-> "idle", of |-> NoComment, keep |-> FALSE,
             listed |-> {}, write |-> {}, fd |-> NoComment]

CommentsInit ==
    /\ inode = [i \in Inode |-> Whole({})]
    /\ stored = NoComment /\ temp = NoComment
    /\ author = [c \in Author |-> NoAuthor]
    /\ reviewCommands = 0 /\ reviewTrouble = 0
    /\ added = {} /\ discarded = {} /\ mayRepeat = {}
    /\ sent = [x \in Comment |-> 0] /\ overlapped = FALSE

AuthorAt(c, place) == author[c].at = place
AuthorDoes(c, ops) == author[c].op \in ops
Turn(c, record) == author' = [author EXCEPT ![c] = record]
Done(c) == Turn(c, NoAuthor)
Trouble == reviewTrouble < MaxReviewTrouble /\ reviewTrouble' = reviewTrouble + 1

-----------------------------------------------------------------------------
loadFails == stored # NoComment /\ inode[stored].torn
load == IF stored = NoComment THEN {} ELSE inode[stored].comments
OfSlice(comments, s) == {x \in comments : CommentSlice[x] = s}

\* A command begins; add and the findings of an agent have no list to read.
BeginReviewCommand(c, op, of, keep) ==
    /\ AuthorAt(c, "idle") /\ reviewCommands < MaxReviewCommands
    /\ reviewCommands' = reviewCommands + 1
    /\ Turn(c, [NoAuthor EXCEPT !.op = op, !.of = of, !.keep = keep,
                                !.at = IF op = "add" THEN "load" ELSE "list"])
    /\ UNCHANGED <<reviewFiles, reviewTrouble, reviewGhosts>>

BeginReview(c) ==
    \/ \E x \in Comment, op \in {"add", "rm"} : BeginReviewCommand(c, op, x, FALSE)
    \/ \E s \in ReviewSlice : \/ BeginReviewCommand(c, "clear", s, FALSE)
                              \/ \E keep \in BOOLEAN : BeginReviewCommand(c, "send", s, keep)

\* rm checks that its comment is pending, send that it has something to send.
ListComments(c) ==
    /\ AuthorAt(c, "list")
    /\ LET s == IF AuthorDoes(c, {"rm"}) THEN CommentSlice[author[c].of] ELSE author[c].of
           listed == OfSlice(load, s)
       IN  /\ IF \/ loadFails
                 \/ AuthorDoes(c, {"rm"}) /\ author[c].of \notin listed
                 \/ AuthorDoes(c, {"send"}) /\ listed = {}
              THEN Done(c)
              ELSE Turn(c, [author[c] EXCEPT !.listed = listed,
                               !.at = IF AuthorDoes(c, {"send"}) THEN "send" ELSE "load"])
           /\ mayRepeat' = IF ~AuthorDoes(c, {"send"}) THEN mayRepeat
                           ELSE mayRepeat \cup {x \in listed : \E d \in Author \ {c} :
                                                  AuthorDoes(d, {"send"}) /\ x \in author[d].listed}
    /\ UNCHANGED <<reviewFiles, reviewCommands, reviewTrouble, added, discarded, sent, overlapped>>

-----------------------------------------------------------------------------
\* Faulty SendComments: the comments are cleared when they are to be kept.
SendKeepsUnlessKept(c) ==
    /\ AuthorAt(c, "send")
    /\ sent' = [x \in Comment |-> IF x \in author[c].listed THEN sent[x] + 1 ELSE sent[x]]
    /\ IF author[c].keep THEN Turn(c, [author[c] EXCEPT !.at = "load"]) ELSE Done(c)
    /\ UNCHANGED <<reviewFiles, reviewCommands, reviewTrouble, added, discarded, mayRepeat, overlapped>>

\* send: the listed comments go to the agent as one prompt.  Without a session,
\* without an agent or at a question of the agent's they stay pending, and so they
\* do when the runtime reports an error, whether the prompt got through or not.
SendComments(c) ==
    /\ AuthorAt(c, "send")
    /\ \/ /\ Done(c) /\ UNCHANGED <<reviewTrouble, sent, mayRepeat>>
       \/ /\ sent' = [x \in Comment |-> IF x \in author[c].listed THEN sent[x] + 1 ELSE sent[x]]
          /\ \/ /\ author[c].keep /\ Done(c) /\ UNCHANGED reviewTrouble
                /\ mayRepeat' = mayRepeat \cup author[c].listed
             \/ /\ ~author[c].keep /\ Turn(c, [author[c] EXCEPT !.at = "load"])
                /\ UNCHANGED <<reviewTrouble, mayRepeat>>
             \/ /\ Trouble /\ Done(c)
                /\ mayRepeat' = mayRepeat \cup author[c].listed
    /\ UNCHANGED <<reviewFiles, reviewCommands, added, discarded, overlapped>>

Saving(c) == author[c].at \in {"open", "write", "rename"}

\* An operation that ends without a save; what a send delivered stays pending.
GiveUp(c) ==
    /\ Done(c) /\ UNCHANGED overlapped
    /\ mayRepeat' = IF AuthorDoes(c, {"send"}) THEN mayRepeat \cup author[c].listed ELSE mayRepeat

Rewrite(c, comments) ==
    /\ Turn(c, [author[c] EXCEPT !.at = "open", !.write = comments])
    /\ overlapped' = (overlapped \/ \E d \in Author \ {c} : Saving(d))
    /\ UNCHANGED <<added, mayRepeat>>

\* A comment that is there already is reported as it is.
AddComment(c) ==
    /\ AuthorDoes(c, {"add"}) /\ AuthorAt(c, "load")
    /\ \/ loadFails /\ GiveUp(c) /\ UNCHANGED added
       \/ /\ ~loadFails /\ author[c].of \in load
          /\ Done(c) /\ added' = added \cup {author[c].of}
          /\ UNCHANGED <<mayRepeat, overlapped>>
       \/ /\ ~loadFails /\ author[c].of \notin load
          /\ Rewrite(c, load \cup {author[c].of})
    /\ UNCHANGED <<reviewFiles, reviewCommands, reviewTrouble, discarded, sent>>

RemoveComment(c) ==
    /\ AuthorDoes(c, {"rm"}) /\ AuthorAt(c, "load")
    /\ IF loadFails \/ author[c].of \notin load THEN GiveUp(c) /\ UNCHANGED added
       ELSE Rewrite(c, load \ {author[c].of})
    /\ UNCHANGED <<reviewFiles, reviewCommands, reviewTrouble, discarded, sent>>

\* Whatever the slice has by now, and not only what was listed.
ClearComments(c) ==
    /\ AuthorDoes(c, {"clear", "send"}) /\ AuthorAt(c, "load")
    /\ IF loadFails THEN GiveUp(c) /\ UNCHANGED added
       ELSE Rewrite(c, load \ OfSlice(load, author[c].of))
    /\ UNCHANGED <<reviewFiles, reviewCommands, reviewTrouble, discarded, sent>>

-----------------------------------------------------------------------------
\* save: the temporary file is opened and truncated, written and renamed.

HeldOpen == {author[c].fd : c \in Author} \cup {stored, temp}
FreeInode == CHOOSE i \in Inode : i \notin HeldOpen

\* Faulty SaveOpens: the store itself is opened.
SaveOpensTheStore(c) ==
    /\ AuthorAt(c, "open")
    /\ LET i == IF stored = NoComment THEN FreeInode ELSE stored
       IN  /\ temp' = i
           /\ inode' = [inode EXCEPT ![i] = Whole({})]
           /\ Turn(c, [author[c] EXCEPT !.at = "write", !.fd = i])
    /\ UNCHANGED <<stored, reviewCommands, reviewTrouble, reviewGhosts>>

SaveOpens(c) ==
    /\ AuthorAt(c, "open")
    /\ LET i == IF temp = NoComment THEN FreeInode ELSE temp
       IN  /\ temp' = i
           /\ inode' = [inode EXCEPT ![i] = Whole({})]
           /\ Turn(c, [author[c] EXCEPT !.at = "write", !.fd = i])
    /\ UNCHANGED <<stored, reviewCommands, reviewTrouble, reviewGhosts>>

\* Over what another process has written since, the longer text keeps its end.
SaveWrites(c) ==
    /\ AuthorAt(c, "write")
    /\ LET was == inode[author[c].fd]
           written == Whole(author[c].write)
       IN  \/ /\ \E now \in {written} \cup (IF was \in {Whole({}), written} THEN {}
                                            ELSE {[torn |-> TRUE, comments |-> {}]}) :
                    inode' = [inode EXCEPT ![author[c].fd] = now]
              /\ Turn(c, [author[c] EXCEPT !.at = "rename", !.fd = NoComment])
              /\ UNCHANGED <<reviewTrouble, mayRepeat, overlapped>>
           \/ \* the disk is full
              /\ Trouble /\ GiveUp(c)
              /\ inode' = [inode EXCEPT ![author[c].fd] = [torn |-> TRUE, comments |-> {}]]
    /\ UNCHANGED <<stored, temp, reviewCommands, added, discarded, sent>>

\* What the operation has done when the store bears its content.  The finding of
\* an agent that is added again while a send of it is under way counts as that one.
Saved(c) ==
    CASE AuthorDoes(c, {"add"}) ->
            /\ added' = added \cup {author[c].of} /\ discarded' = discarded \ {author[c].of}
            /\ LET again == \E d \in Author : AuthorDoes(d, {"send"}) /\ author[c].of \in author[d].listed
               IN  /\ sent' = IF again THEN sent ELSE [sent EXCEPT ![author[c].of] = 0]
                   /\ mayRepeat' = IF again THEN mayRepeat \cup {author[c].of}
                                   ELSE mayRepeat \ {author[c].of}
      [] AuthorDoes(c, {"rm"}) ->
            /\ discarded' = discarded \cup {author[c].of} /\ UNCHANGED <<added, sent, mayRepeat>>
      [] OTHER ->
            /\ discarded' = discarded \cup
                  (IF AuthorDoes(c, {"clear"}) THEN OfSlice(Comment, author[c].of)
                   ELSE OfSlice(Comment, author[c].of) \ author[c].listed)
            /\ UNCHANGED <<added, sent, mayRepeat>>

\* Another process has renamed the file: an error, although the store may have
\* this process's content.
SaveRenames(c) ==
    /\ AuthorAt(c, "rename")
    /\ \/ /\ temp # NoComment
          /\ stored' = temp /\ temp' = NoComment /\ Saved(c) /\ Done(c)
          /\ UNCHANGED overlapped
       \/ /\ temp = NoComment /\ GiveUp(c)
          /\ UNCHANGED <<stored, temp, added, discarded, sent>>
    /\ UNCHANGED <<inode, reviewCommands, reviewTrouble>>

\* The user interrupts a command, or its terminal is closed.
ReviewKilled(c) ==
    /\ ~AuthorAt(c, "idle") /\ Trouble
    /\ IF AuthorAt(c, "send") THEN Done(c) /\ UNCHANGED <<mayRepeat, overlapped>> ELSE GiveUp(c)
    /\ UNCHANGED <<reviewFiles, reviewCommands, added, discarded, sent>>

CommentsNext ==
    \E c \in Author :
        \/ BeginReview(c) \/ ListComments(c) \/ SendComments(c)
        \/ AddComment(c) \/ RemoveComment(c) \/ ClearComments(c)
        \/ SaveOpens(c) \/ SaveWrites(c) \/ SaveRenames(c)
        \/ ReviewKilled(c)

CommentsSpec == CommentsInit /\ [][CommentsNext]_commentVars

-----------------------------------------------------------------------------
\* Every variable of the comments has its type.
CommentsTypeOK ==
    /\ inode \in [Inode -> [torn : BOOLEAN, comments : SUBSET Comment]]
    /\ stored \in Inode \cup {NoComment} /\ temp \in Inode \cup {NoComment}
    /\ \A c \in Author : author[c].at \in {"idle", "list", "send", "load", "open", "write", "rename"}
    /\ reviewCommands \in 0 .. MaxReviewCommands /\ reviewTrouble \in 0 .. MaxReviewTrouble

\* A comment whose add was reported is pending until it was sent, a user dropped
\* it, or a send or a clear of its slice dropped what it had not listed, and the
\* store can be read, whenever a process is killed and even when the disk is full;
\* comments are lost otherwise only when two processes save at once.
CommentsAreKept ==
    \/ overlapped
    \/ /\ ~loadFails
       /\ \A x \in added : x \in load \/ sent[x] > 0 \/ x \in discarded

\* A comment goes to an agent twice only when its send kept it, failed, was killed
\* before it had cleared the comments, or ran beside another send; or after two
\* processes saved at once.
SentOnce == \A x \in Comment : sent[x] > 1 => x \in mayRepeat \/ overlapped
=============================================================================
