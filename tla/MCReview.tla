------------------------------- MODULE MCReview -------------------------------
\* Messages m1 (the opening one) and m2, and two tabs of agents.
EXTENDS ReviewInv

CONSTANTS m1, m2, t1, t2
=============================================================================
