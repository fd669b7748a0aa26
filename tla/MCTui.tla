------------------------------- MODULE MCTui -------------------------------
(* Tui with two pipelines whose order changes between two answers, an answer *)
(* without one of them, and an empty one.                                   *)
EXTENDS Tui

MCRow(n, v) == [name |-> n, active |-> v, total |-> 1, bytes_in |-> v, bytes_out |-> 1,
                errors |-> 1 - v]
MCBoth == {<<MCRow(1, 0), MCRow(2, 1)>>, <<MCRow(1, 1), MCRow(2, 0)>>}
\* A pipeline that has moved one byte, and moves no more.
MCIdle == {<<MCRow(1, 0)>>}
MCResponses == MCBoth \union {<<MCRow(2, 1)>>, <<>>}
=============================================================================
