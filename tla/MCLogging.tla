------------------------------ MODULE MCLogging ------------------------------
(* Logging with three sessions: wa logs only outbound chunks with the       *)
(* letter "s", and masks it; wb logs every chunk as it is; wc is muted.      *)
(* One idle buffer is kept, so that the pool is empty, reused and full.    *)
EXTENDS Logging

CONSTANTS wa, wb, wc, b1, b2, b3

MCWriters == {wa, wb, wc}
MCLetters == {"s", "x"}
MCChunks == {[direction |-> "out", bytes |-> <<"s", "x">>],
             [direction |-> "in", bytes |-> <<"x">>]}
MCBuffers == {b1, b2, b3}
MCOutput == [w \in MCWriters |->
    [enabled |-> w # wc,
     min_bytes |-> 0,
     directions |-> IF w = wa THEN {"out"} ELSE {"in", "out"},
     contains |-> IF w = wa THEN {"s"} ELSE {},
     redact |-> IF w = wa THEN {"s"} ELSE {}]]
MCMaxChunks == [w \in MCWriters |-> IF w = wb THEN 2 ELSE 1]
=============================================================================
