--------------------------- MODULE MCModelLimiter ---------------------------
EXTENDS ModelLimiter
\* Stalls and deaths; commands that fail; answers that are lost, with deaths
\* and callers that give up.
Worlds == {{"stall", "crash"}, {"net"}, {"retry", "crash", "cancel"}}
=============================================================================
