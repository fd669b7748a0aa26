----------------------------- MODULE MCControl -----------------------------
(* Control with a pipeline and a session of it in the first process, and a  *)
(* client that polls beside one that is silent, leaves or sends something   *)
(* else.                                                                    *)
EXTENDS Control

CONSTANTS p1, p2, c1, c2, s1, na

MCHome == [s \in Sessions |-> p1]
MCNameOf == [s \in Sessions |-> na]
MCRequests == [c \in Clients |-> IF c = c1 THEN {"stats"} ELSE {"other", "garbage"}]
MCMaxChunks == [s \in Sessions |-> [d \in Directions |-> IF d = "out" THEN 1 ELSE 0]]
=============================================================================
