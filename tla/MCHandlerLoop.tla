---------------------------- MODULE MCHandlerLoop ----------------------------
(* HandlerLoop for TLC: requests for the same room and identity.            *)
EXTENDS HandlerLoop

CONSTANTS k1, r1, r2

MCKeyOf == [r \in Requests |-> k1]
=============================================================================
