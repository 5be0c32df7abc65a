-------------------------------- MODULE MCParts --------------------------------
(***************************************************************************)
(* Small instances of the parts that share no state.  In a behaviour one   *)
(* of them, chosen at first, runs; the others stand still where they       *)
(* begin.  So the states are those of each part, one part after the other. *)
(***************************************************************************)
EXTENDS SessionTabs, LiveSwap, RpcServer, RpcClient, StackCache, PullRequests, SliceLifecycle,
        AdoptBranch, GraphiteStacks, ReviewComments, ServerEvents, TLC

CONSTANTS rootTab, ra, p1, p2

VARIABLE part

Parts == {"tabs", "live", "rpc", "client", "stack cache", "pull requests", "lifecycle", "adopt",
          "stacks", "comments", "events"}

\* The slice's one member; its root tab and its repository's have one directory.
MCMember == <<[repo |-> ra, dir |-> "d"]>>

\* The worktrees are changed, and changed back.
MCFingerprintAt == [v \in 0 .. MaxTrees |-> IF v = 1 THEN "edited" ELSE "as at first"]

\* One branch twice: others share nothing with it but the workers.
MCCalls == {<<"b1", "b1">>}

\* Per slice a managed directory in the first repository, one of the user's there
\* and one in the second; two branches whose names are those of slice t.
Dir(r, t, d) == [repo |-> r, tree |-> t, dir |-> d]
MCPlace == {Dir("r1", "s", "t"), Dir("r1", "t", "t"), Dir("r1", None, "o"), Dir("r2", "s", "t")}
MCNameOf == [b \in {"bs", "bt", "jt"} |-> IF b = "bs" THEN "s" ELSE "t"]
MCStarts == {[p \in MCPlace |-> CASE p = Dir("r1", "s", "t") -> "bs"
                                  [] p = Dir("r1", None, "o") -> "bt" [] OTHER -> None]}
MCJoins == {<<"t", "s">>}
MCGathered == {[repo |-> "r1", folded |-> {"bs"}, tip |-> "bt"]}

\* Two slices whose status has one file.
MCBadge == {"a/b", "a-b"}
MCFileName == [s \in MCBadge |-> "a-b"]

MCCommentSlice == [x \in {"x1", "x2"} |-> IF x = "x1" THEN "s" ELSE "t"]

\* Of the two processes of a part - commands, callers, workers, hooks - none is
\* special, and a part that stands still knows neither.
Interchangeable == Permutations({p1, p2})

PartsInit ==
    /\ part \in Parts
    /\ TabsInit /\ LiveInit /\ RpcInit /\ ClientInit /\ StackInit /\ PrInit
    /\ LifecycleInit /\ AdoptInit /\ StacksInit /\ CommentsInit /\ EventsInit
    /\ layout = "both"
    /\ part # "live" => journalOf = "none"
    /\ part # "lifecycle" => registry = NoFile
    /\ part # "adopt" => branch = "absent" /\ primaryWork = {} /\ adopt.move /\ adopt.create

PartsNext ==
    /\ UNCHANGED part
    /\ \/ part = "tabs" /\ TabsNext
       \/ part # "tabs" /\ UNCHANGED tabsVars
    /\ \/ part = "live" /\ LiveNext
       \/ part # "live" /\ UNCHANGED liveVars
    /\ \/ part = "rpc" /\ RpcNext
       \/ part # "rpc" /\ UNCHANGED rpcVars
    /\ \/ part = "client" /\ ClientNext
       \/ part # "client" /\ UNCHANGED rpcClientVars
    /\ \/ part = "stack cache" /\ StackNext
       \/ part # "stack cache" /\ UNCHANGED stackVars
    /\ \/ part = "pull requests" /\ PrNext
       \/ part # "pull requests" /\ UNCHANGED prVars
    /\ \/ part = "lifecycle" /\ LifecycleNext
       \/ part # "lifecycle" /\ UNCHANGED lifecycleVars
    /\ \/ part = "adopt" /\ AdoptNext
       \/ part # "adopt" /\ UNCHANGED adoptVars
    /\ \/ part = "stacks" /\ StacksNext
       \/ part # "stacks" /\ UNCHANGED stacksVars
    /\ \/ part = "comments" /\ CommentsNext
       \/ part # "comments" /\ UNCHANGED commentVars
    /\ \/ part = "events" /\ EventsNext
       \/ part # "events" /\ UNCHANGED eventVars

PartsSpec == PartsInit /\ [][PartsNext]_<<part, tabsVars, liveVars, rpcVars, rpcClientVars, stackVars,
                                          prVars, lifecycleVars, adoptVars, stacksVars, commentVars,
                                          eventVars>>

\* Every part's variables have their types.
PartsTypeOK ==
    /\ TabsTypeOK /\ LiveTypeOK /\ RpcTypeOK /\ ClientTypeOK /\ StackTypeOK /\ PrTypeOK
    /\ LifecycleTypeOK /\ AdoptTypeOK /\ CommentsTypeOK /\ EventsTypeOK
=============================================================================
