------------------------------ MODULE MCSession ------------------------------
(* Session with two bytes of room in each place of a direction; the client  *)
(* sends three bytes, so that a read can be shorter than the one before it  *)
(* and a write can find room for a part of its bytes only.                  *)
EXTENDS Session

MCMaxBytes == [d \in Directions |-> IF d = "out" THEN 3 ELSE 2]
=============================================================================
