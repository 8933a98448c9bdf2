--------------------------- MODULE MCTokenRequests ---------------------------
(* TokenRequests for TLC: our homeserver and another one.                   *)
EXTENDS TokenRequests

CONSTANTS q1, ours, other
=============================================================================
