------------------------------ MODULE ByteRelay ------------------------------
(***************************************************************************)
(* What a byte relay promises each of its two peers, as an abstract        *)
(* specification that Session implements: what comes out of a direction    *)
(* is a prefix of what went in, it only ever grows at its end, and it may  *)
(* stop growing at any point, for ever.  It does not promise that          *)
(* everything that went in comes out.                                      *)
(***************************************************************************)
EXTENDS Integers, Sequences

CONSTANTS Directions, Bytes

VARIABLES
    input,   \* per direction: the bytes its source has sent
    output   \* per direction: the bytes its destination has received

vars == <<input, output>>

Init ==
    /\ input = [d \in Directions |-> <<>>]
    /\ output = [d \in Directions |-> <<>>]

Send(d, b) ==
    /\ input' = [input EXCEPT ![d] = Append(@, b)]
    /\ UNCHANGED output

\* The next byte is the one at the position that the output has reached.
Receive(d) ==
    /\ Len(output[d]) < Len(input[d])
    /\ output' = [output EXCEPT ![d] = Append(@, input[d][Len(@) + 1])]
    /\ UNCHANGED input

Next == \E d \in Directions : Receive(d) \/ \E b \in Bytes : Send(d, b)

Spec == Init /\ [][Next]_vars
=============================================================================
