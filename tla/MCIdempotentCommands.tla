------------------------- MODULE MCIdempotentCommands -------------------------
EXTENDS IdempotentCommands, TLC

CONSTANTS q1, q2, q3, b1, b2
=============================================================================
