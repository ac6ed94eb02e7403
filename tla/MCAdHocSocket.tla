---------------------------- MODULE MCAdHocSocket ---------------------------
(* Instances of AdHocSocket.tla: calls that are independent, and calls made *)
(* by the handler of another, down to the third level.                      *)
EXTENDS AdHocSocket

CONSTANTS a, b, n, m

Flat == [c \in Calls |-> NoCall]
Nesting == [c \in Calls |-> CASE c = n -> a [] c = m -> n [] OTHER -> NoCall]
=============================================================================
