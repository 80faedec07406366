-------------------------- MODULE MCOutboundCalls ---------------------------
(* Three callers on two loops, one of which may end.                          *)
EXTENDS OutboundCalls, TLC

CONSTANTS c1, c2, c3, l1, l2

MCCallers == {c1, c2, c3}
MCLoops == {l1, l2}
MCLoopOf == (c1 :> l1) @@ (c2 :> l1) @@ (c3 :> l2)

=============================================================================
