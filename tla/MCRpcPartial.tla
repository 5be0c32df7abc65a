------------------------------ MODULE MCRpcPartial ------------------------------
(***************************************************************************)
(* A small instance of the RPC server, for diffs alone.                    *)
(***************************************************************************)
EXTENDS RpcServer

\* Every change of the worktrees shows in their fingerprint.
MCFingerprintAt == [v \in 0 .. MaxTrees |-> v]
=============================================================================
