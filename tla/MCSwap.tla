-------------------------------- MODULE MCSwap --------------------------------
\* The repositories of the runs: r1, whose member has a worktree and is
\* mirrored, and r2, whose member has none.  Exchanging them is no symmetry.
EXTENDS SwapInv

CONSTANTS r1, r2, w1, s1

MCRepo == {r1, r2}
MCMirroredOne == {r1}
\* Each tip continues the one before it, or each is a rewrite of the others.
MCLinear == [t \in 0..MaxTip |-> 0..t]
MCRewritten == [t \in 0..MaxTip |-> {t}]
=============================================================================
