------------------------------ MODULE PullRequests -----------------------------
(***************************************************************************)
(* The pull requests of the branches of a stack (internal/forge): a call   *)
(* looks its branches up in a pool of workers, each lookup goes through    *)
(* the cache of the process, and behind it gh is asked for the branch's    *)
(* pull request, for a historical one when there is no open one, and for   *)
(* the inline comments.                                                    *)
(*                                                                         *)
(* A branch name outlives its pull request: a merged one still answers to  *)
(* the name when new work has begun under it.  A local commit is new work, *)
(* and so is a dirty checkout.                                             *)
(***************************************************************************)
EXTENDS Naturals, Sequences, FiniteSets

CONSTANTS
    Branch,         \* branches with a lookup
    Worker,         \* the workers of a call (maxConcurrentLookups)
    Calls,          \* the lists of branches that callers ask for
    MaxCalls,       \* bound: calls
    PrTTL,          \* ticks a lookup is served from memory (prCacheTTL)
    MaxPrTime,      \* bound: ticks of the clock
    MaxPrTrouble    \* bound: commands that fail, cancelled calls

ASSUME PrAssumption ==
    /\ Calls \subseteq Seq(Branch)
    /\ MaxCalls \in Nat /\ PrTTL \in Nat \ {0} /\ MaxPrTime \in Nat /\ MaxPrTrouble \in Nat

VARIABLES
    pr,        \* per branch on GitHub: "none", "open" or "merged"
    newWork,   \* branches whose tip left the head of the merged pull request
    dirty,     \* the checkout has uncommitted work
    prTime,    \* the time
    freshAt,   \* per branch: the last tick at which it had no new work
    cache,     \* per branch: the entry of the cache
    call,      \* the call that runs: its branches, or <<>>
    prGone,    \* the call's context has ended
    jobs,      \* branches no worker has taken
    worker,    \* per worker: where its lookup is
    found,     \* the results of the call so far
    returned,  \* what the last call returned: [branches, prs, err]
    calls, prTrouble

prVars == <<pr, newWork, dirty, prTime, freshAt, cache, call, prGone, jobs, worker,
            found, returned, calls, prTrouble>>
github == <<pr, newWork, dirty, prTime, freshAt>>
pool == <<call, prGone, jobs, found, returned, calls>>

NoLookup == [at |-> "idle", branch |-> "none", now |-> 0, got |-> "none", unsure |-> FALSE]
EmptyEntry == [valid |-> FALSE, storedAt |-> 0, pr |-> "none", unsure |-> FALSE, busy |-> FALSE]
Nothing == [branches |-> <<>>, prs |-> {}, err |-> FALSE, gone |-> FALSE]

PrInit ==
    /\ pr = [b \in Branch |-> "none"]
    /\ newWork = {} /\ dirty = FALSE
    /\ prTime = 0 /\ freshAt = [b \in Branch |-> 0]
    /\ cache = [b \in Branch |-> EmptyEntry]
    /\ call = <<>> /\ prGone = FALSE /\ jobs = <<>>
    /\ worker = [w \in Worker |-> NoLookup]
    /\ found = {} /\ returned = Nothing
    /\ calls = 0 /\ prTrouble = 0

GhFails == prTrouble < MaxPrTrouble /\ prTrouble' = prTrouble + 1
WorkerAt(w, place) == worker[w].at = place
MoveWorker(w, place) == worker' = [worker EXCEPT ![w].at = place]

\* The worker puts its result and is free for the next branch.
Deliver(w, result, err) ==
    /\ found' = found \cup {[branch |-> worker[w].branch, pr |-> result, err |-> err,
                             now |-> worker[w].now, unsure |-> worker[w].unsure]}
    /\ worker' = [worker EXCEPT ![w] = NoLookup]
    /\ UNCHANGED <<call, prGone, jobs, returned, calls>>

-----------------------------------------------------------------------------
PRsForBranches(branches) ==
    /\ call = <<>> /\ calls < MaxCalls
    /\ calls' = calls + 1
    /\ call' = branches /\ jobs' = branches
    /\ prGone' = FALSE /\ found' = {} /\ returned' = Nothing
    /\ UNCHANGED <<github, cache, worker, prTrouble>>

TakeJob(w) ==
    /\ WorkerAt(w, "idle") /\ jobs # <<>>
    /\ jobs' = Tail(jobs)
    /\ worker' = [worker EXCEPT ![w] = [NoLookup EXCEPT !.at = "lookup", !.branch = Head(jobs)]]
    /\ UNCHANGED <<github, cache, call, prGone, found, returned, calls, prTrouble>>

\* The entry's lock, then the entry or a lookup that keeps the lock.
lookup(w) ==
    /\ WorkerAt(w, "lookup")
    /\ LET b == worker[w].branch
       IN  /\ ~cache[b].busy
           /\ IF cache[b].valid /\ prTime < cache[b].storedAt + PrTTL
              THEN /\ found' = found \cup {[branch |-> b, pr |-> cache[b].pr, err |-> FALSE,
                                            now |-> prTime, unsure |-> cache[b].unsure]}
                   /\ worker' = [worker EXCEPT ![w] = NoLookup]
                   /\ UNCHANGED cache
              ELSE /\ worker' = [worker EXCEPT ![w].at = "view", ![w].now = prTime]
                   /\ cache' = [cache EXCEPT ![b].busy = TRUE]
                   /\ UNCHANGED found
    /\ UNCHANGED <<github, call, prGone, jobs, returned, calls, prTrouble>>

Unlock(w) == [cache EXCEPT ![worker[w].branch].busy = FALSE]

\* gh pr view: the branch's pull request, none, or an error.
ViewPR(w) ==
    /\ WorkerAt(w, "view")
    /\ LET b == worker[w].branch
       IN  \/ /\ ~prGone /\ pr[b] # "none"
              /\ worker' = [worker EXCEPT ![w].at = "stale", ![w].got = pr[b]]
              /\ UNCHANGED <<cache, pool, prTrouble>>
           \/ /\ ~prGone /\ pr[b] # "open"
              /\ MoveWorker(w, "list") /\ UNCHANGED <<cache, pool, prTrouble>>
           \/ prGone /\ Deliver(w, "none", TRUE) /\ cache' = Unlock(w) /\ UNCHANGED prTrouble
           \/ GhFails /\ Deliver(w, "none", TRUE) /\ cache' = Unlock(w)
    /\ UNCHANGED github

\* Not bound to the caller's context.
historicalPRForBranch(w) ==
    /\ WorkerAt(w, "list")
    /\ \/ /\ worker' = [worker EXCEPT ![w].got = pr[worker[w].branch],
                           ![w].at = IF pr[worker[w].branch] = "none" THEN "store" ELSE "stale"]
          /\ UNCHANGED <<cache, pool, prTrouble>>
       \/ GhFails /\ Deliver(w, "none", TRUE) /\ cache' = Unlock(w)
    /\ UNCHANGED github

\* Faulty historicalPRIsStale: the tip of the branch is not asked for.
staleWhenDirty(w) ==
    /\ worker[w].at \in {"stale", "tip"}
    /\ worker' = [worker EXCEPT ![w].at = IF worker[w].got # "open" /\ dirty THEN "store" ELSE "inline",
                               ![w].got = IF @ # "open" /\ dirty THEN "none" ELSE @]
    /\ UNCHANGED <<github, cache, pool, prTrouble>>

\* A merged pull request belongs to the branch only while the checkout is clean
\* and the branch at its head.  These are two commands of git, and one that
\* fails decides for the pull request; so does an answer of GitHub's that names
\* no head (HeadSHA), for the second.
historicalPRIsStale(w) ==
    /\ worker[w].at \in {"stale", "tip"}
    /\ LET open == worker[w].got = "open"
           next == IF open \/ WorkerAt(w, "tip") THEN "inline" ELSE "tip"
           stale == ~open /\ (IF WorkerAt(w, "tip") THEN worker[w].branch \in newWork ELSE dirty)
       IN  \/ /\ worker' = [worker EXCEPT ![w].at = IF stale THEN "store" ELSE next,
                                          ![w].got = IF stale THEN "none" ELSE @]
              /\ UNCHANGED prTrouble
           \/ /\ ~open /\ ((WorkerAt(w, "tip") /\ UNCHANGED prTrouble) \/ GhFails)
              /\ worker' = [worker EXCEPT ![w].at = next, ![w].unsure = TRUE]
    /\ UNCHANGED <<github, cache, pool>>

\* A failure here hands back the pull request together with an error.
inlineComments(w) ==
    /\ WorkerAt(w, "inline")
    /\ \/ MoveWorker(w, "store") /\ UNCHANGED <<cache, pool, prTrouble>>
       \/ GhFails /\ Deliver(w, worker[w].got, TRUE) /\ cache' = Unlock(w)
    /\ UNCHANGED github

StorePR(w) ==
    /\ WorkerAt(w, "store")
    /\ cache' = IF prGone THEN Unlock(w)
                ELSE [cache EXCEPT ![worker[w].branch] =
                        [valid |-> TRUE, storedAt |-> worker[w].now, pr |-> worker[w].got,
                         unsure |-> worker[w].unsure, busy |-> FALSE]]
    /\ Deliver(w, worker[w].got, FALSE)
    /\ UNCHANGED <<github, prTrouble>>

\* Every worker has ended: the pull requests by branch, and the first error.
PRsReturn ==
    /\ call # <<>> /\ jobs = <<>> /\ \A w \in Worker : WorkerAt(w, "idle")
    /\ returned' = [branches |-> call, prs |-> {f \in found : f.pr # "none"},
                    err |-> \E f \in found : f.err, gone |-> prGone]
    /\ call' = <<>> /\ found' = {}
    /\ UNCHANGED <<github, cache, worker, prGone, jobs, calls, prTrouble>>

-----------------------------------------------------------------------------
CallGone ==
    /\ call # <<>> /\ ~prGone
    /\ prTrouble < MaxPrTrouble /\ prTrouble' = prTrouble + 1
    /\ prGone' = TRUE
    /\ UNCHANGED <<github, cache, call, jobs, worker, found, returned, calls>>

Fresh(b, new, soiled) == b \notin new /\ ~soiled

Opens(b) ==
    /\ pr[b] = "none" /\ pr' = [pr EXCEPT ![b] = "open"]
    /\ UNCHANGED <<newWork, dirty, prTime, freshAt, cache, pool, worker, prTrouble>>

Merges(b) ==
    /\ pr[b] = "open" /\ pr' = [pr EXCEPT ![b] = "merged"]
    /\ UNCHANGED <<newWork, dirty, prTime, freshAt, cache, pool, worker, prTrouble>>

NewWork(b) ==
    /\ b \notin newWork
    /\ \/ ~dirty /\ dirty' = TRUE /\ UNCHANGED newWork
       \/ newWork' = newWork \cup {b} /\ dirty' = FALSE
    /\ freshAt' = [c \in Branch |-> IF Fresh(c, newWork', dirty') THEN prTime ELSE freshAt[c]]
    /\ UNCHANGED <<pr, prTime, cache, pool, worker, prTrouble>>

PrClockTicks ==
    /\ prTime < MaxPrTime
    /\ prTime' = prTime + 1
    /\ freshAt' = [b \in Branch |-> IF Fresh(b, newWork, dirty) THEN prTime + 1 ELSE freshAt[b]]
    /\ UNCHANGED <<pr, newWork, dirty, cache, pool, worker, prTrouble>>

PrNext ==
    \/ \E branches \in Calls : PRsForBranches(branches)
    \/ \E w \in Worker :
          \/ TakeJob(w) \/ lookup(w) \/ ViewPR(w) \/ historicalPRForBranch(w)
          \/ historicalPRIsStale(w) \/ inlineComments(w) \/ StorePR(w)
    \/ PRsReturn \/ CallGone \/ PrClockTicks
    \/ \E b \in Branch : Opens(b) \/ Merges(b) \/ NewWork(b)

PrSpec == PrInit /\ [][PrNext]_prVars

-----------------------------------------------------------------------------
\* Every variable has its type, and an entry's lock has one holder.
PrTypeOK ==
    /\ pr \in [Branch -> {"none", "open", "merged"}]
    /\ newWork \subseteq Branch /\ dirty \in BOOLEAN /\ prGone \in BOOLEAN
    /\ prTime \in 0 .. MaxPrTime /\ calls \in 0 .. MaxCalls /\ prTrouble \in 0 .. MaxPrTrouble
    /\ \A b \in Branch :
          cache[b].busy <=> \E w \in Worker : worker[w].branch = b
                               /\ worker[w].at \in {"view", "list", "stale", "tip", "inline", "store"}

\* A merged pull request is attached to a branch only if, within the age of the
\* cache, the branch still was at its head in a clean checkout: never to the
\* work that was begun under the same name before that, unless git failed to say.
MergedIsNotAttachedToNewWork ==
    \A r \in returned.prs :
        r.pr = "merged" /\ ~r.unsure => freshAt[r.branch] + PrTTL > r.now
=============================================================================
