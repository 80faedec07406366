----------------------------- MODULE MCBatching -----------------------------
EXTENDS Batching

CONSTANTS a, b, x

MCCallers == {a, b, x}
MCPoison == {x}
=============================================================================
