---------------------------- MODULE MCSwapMailbox ----------------------------
EXTENDS SwapMailbox, TLC

CONSTANTS c1, c2, seed, b1, b2, v0, v1, v2

MCVersionOf == [b \in Build |-> IF b = seed THEN v0 ELSE IF b = b1 THEN v1 ELSE v2]

=============================================================================
