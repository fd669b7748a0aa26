------------------------------- MODULE Session -------------------------------
(***************************************************************************)
(* One session of the proxy: handle_session once both of its TCP streams   *)
(* are connected.  It is what the phase "relaying" of module Proxy stands  *)
(* for.                                                                    *)
(*                                                                         *)
(* Direction "out" carries bytes from the client to the target, "in" from  *)
(* the target to the client.  A byte is its position in its direction's    *)
(* stream, so that a lost, repeated or misplaced byte shows, and 0 is what *)
(* a buffer is initialised with.  Each direction is a pipe of four places: *)
(*                                                                         *)
(*   source --> rx (the proxy socket's receive queue)                      *)
(*          --> buf (the loop's buffer: fill bytes read, pos written)      *)
(*          --> tx (send queue, and on its way to the other peer) --> got  *)
(*                                                                         *)
(* A direction reads when pos = fill and is inside write_all otherwise.    *)
(***************************************************************************)
EXTENDS Integers, SequencesExt

CONSTANTS
    BufLen,    \* size of a direction's buffer, 4096 in the code
    Window,    \* how many bytes rx and tx each hold before they are full
    MaxBytes   \* bound: how many bytes the source of each direction sends

Directions == {"out", "in"}

ASSUME SizeAssumption ==
    /\ BufLen \in Nat \ {0}
    /\ Window \in Nat \ {0}
    /\ MaxBytes \in [Directions -> Nat]

Peers == {"client", "target"}
Source(d) == IF d = "out" THEN "client" ELSE "target"
Dest(d) == IF d = "out" THEN "target" ELSE "client"

VARIABLES
    peer,     \* each peer: "open", "shut" (has sent its FIN), "closed" (and
              \* does not read either), "reset" (the connection is reset)
    readers,  \* the peers that go on reading; the others may stop for ever
    sent,     \* per direction: how many bytes its source has sent
    rx, buf, fill, pos, tx, got,   \* the places of the pipe
    counted,  \* per direction: what it added to bytes_out or bytes_in
    logged,   \* per direction: the bytes passed to log_chunk, in order
    session,  \* "open", or how it ended: "ok", "err", "cut" (by main's return)
    ender     \* the direction whose loop ended first

pipe == <<sent, rx, buf, fill, pos, tx, got, counted, logged>>
vars == <<peer, readers, pipe, session, ender>>

Stream(n) == [i \in 1..n |-> i]
Pending(d) == SubSeq(buf[d], pos[d] + 1, fill[d])
Smaller(m, n) == IF m < n THEN m ELSE n
Byte == 1..(MaxBytes["out"] + MaxBytes["in"])

TypeOK ==
    /\ peer \in [Peers -> {"open", "shut", "closed", "reset"}]
    /\ readers \subseteq Peers
    /\ sent \in [Directions -> Nat]
    /\ buf \in [Directions -> [1..BufLen -> Byte \union {0}]]
    /\ fill \in [Directions -> 0..BufLen]
    /\ pos \in [Directions -> 0..BufLen]
    /\ rx \in [Directions -> Seq(Byte)]
    /\ tx \in [Directions -> Seq(Byte)]
    /\ got \in [Directions -> Seq(Byte)]
    /\ logged \in [Directions -> Seq(Byte)]
    /\ \A d \in Directions :
          pos[d] <= fill[d] /\ Len(rx[d]) <= Window /\ Len(tx[d]) <= Window
    /\ counted \in [Directions -> Nat]
    /\ session \in {"open", "ok", "err", "cut"}
    /\ ender \in Directions \union {"none"}

Init ==
    /\ peer = [p \in Peers |-> "open"]
    /\ readers \in SUBSET Peers
    /\ sent = [d \in Directions |-> 0]
    /\ rx = [d \in Directions |-> <<>>]
    /\ buf = [d \in Directions |-> [i \in 1..BufLen |-> 0]]
    /\ fill = [d \in Directions |-> 0]
    /\ pos = [d \in Directions |-> 0]
    /\ tx = [d \in Directions |-> <<>>]
    /\ got = [d \in Directions |-> <<>>]
    /\ counted = [d \in Directions |-> 0]
    /\ logged = [d \in Directions |-> <<>>]
    /\ session = "open"
    /\ ender = "none"

----------------------------------------------------------------------------
(* The peers and the network.                                              *)

PeerSends(d) ==
    /\ session = "open"
    /\ peer[Source(d)] = "open"
    /\ sent[d] < MaxBytes[d]
    /\ Len(rx[d]) < Window
    /\ sent' = [sent EXCEPT ![d] = @ + 1]
    /\ rx' = [rx EXCEPT ![d] = Append(@, sent[d] + 1)]
    /\ UNCHANGED <<peer, readers, buf, fill, pos, tx, got, counted, logged, session, ender>>

\* What the proxy wrote before it closed its sockets can still be received.
PeerReceives(d) ==
    /\ peer[Dest(d)] \in {"open", "shut"}
    /\ tx[d] # <<>>
    /\ got' = [got EXCEPT ![d] = Append(@, Head(tx[d]))]
    /\ tx' = [tx EXCEPT ![d] = Tail(@)]
    /\ UNCHANGED <<peer, readers, sent, rx, buf, fill, pos, counted, logged, session, ender>>

PeerShuts(p) ==
    /\ peer[p] = "open"
    /\ peer' = [peer EXCEPT ![p] = "shut"]
    /\ UNCHANGED <<readers, pipe, session, ender>>

PeerCloses(p) ==
    /\ peer[p] \in {"open", "shut"}
    /\ peer' = [peer EXCEPT ![p] = "closed"]
    /\ UNCHANGED <<readers, pipe, session, ender>>

Reset(p) ==
    /\ peer' = [peer EXCEPT ![p] = "reset"]
    /\ tx' = [d \in Directions |-> IF Dest(d) = p THEN <<>> ELSE tx[d]]
    /\ UNCHANGED <<readers, sent, rx, buf, fill, pos, got, counted, logged, session, ender>>

PeerAborts(p) == peer[p] \in {"open", "shut"} /\ Reset(p)

\* The host of a peer that has closed answers data with a reset.
HostRejects(p) ==
    /\ peer[p] = "closed"
    /\ \E d \in Directions : Dest(d) = p /\ tx[d] # <<>>
    /\ Reset(p)

----------------------------------------------------------------------------
(* The two loops of handle_session.                                        *)

\* Mutant: one loop serves both directions, and completes a write first.
AtReadAlone(d) == session = "open" /\ \A e \in Directions : pos[e] = fill[e]

\* A loop is at its read() when it has written all that it read before.
AtRead(d) == session = "open" /\ pos[d] = fill[d]
AtWrite(d) == session = "open" /\ pos[d] < fill[d]

BytesRead(d) == Smaller(BufLen, Len(rx[d]))

\* read() fills the buffer from its start, and leaves what an earlier, longer
\* read put behind.
Refilled(d) ==
    [i \in 1..BufLen |-> IF i <= BytesRead(d) THEN rx[d][i] ELSE buf[d][i]]

\* Mutant: log_chunk is given the whole buffer.
WholeBuffer(d) == Refilled(d)

Chunk(d) == SubSeq(Refilled(d), 1, BytesRead(d))

\* Mutant: the next write_all() goes on where the previous one ended.
KeepPosition(d) == pos[d]

WriteStart(d) == 0

\* There is no .await between the read, the counter and the log.
ReadChunk(d) ==
    /\ AtRead(d)
    /\ rx[d] # <<>>
    /\ buf' = [buf EXCEPT ![d] = Refilled(d)]
    /\ fill' = [fill EXCEPT ![d] = BytesRead(d)]
    /\ pos' = [pos EXCEPT ![d] = WriteStart(d)]
    /\ rx' = [rx EXCEPT ![d] = SubSeq(@, BytesRead(d) + 1, Len(@))]
    /\ counted' = [counted EXCEPT ![d] = @ + BytesRead(d)]
    /\ logged' = [logged EXCEPT ![d] = @ \o Chunk(d)]
    /\ UNCHANGED <<peer, readers, sent, tx, got, session, ender>>

\* One write() of write_all() takes as many of the remaining bytes as there
\* is room for; with no room the direction waits here.
BytesWritten(d) == Smaller(fill[d] - pos[d], Window - Len(tx[d]))

\* Mutant: the buffer is written from its start by every write().
FromStart(d) == SubSeq(buf[d], 1, BytesWritten(d))

Slice(d) == SubSeq(buf[d], pos[d] + 1, pos[d] + BytesWritten(d))

\* Mutant: write() in the place of write_all(): what does not fit is dropped.
WriteOnce(d) == fill[d]

WritePosition(d) == pos[d] + BytesWritten(d)

WriteSome(d) ==
    /\ AtWrite(d)
    /\ peer[Dest(d)] # "reset"
    /\ Len(tx[d]) < Window
    /\ tx' = [tx EXCEPT ![d] = @ \o Slice(d)]
    /\ pos' = [pos EXCEPT ![d] = WritePosition(d)]
    /\ UNCHANGED <<peer, readers, sent, rx, buf, fill, got, counted, logged, session, ender>>

\* handle_session returns and drops both streams.  What was received and not
\* read is gone; a socket closed with unread data is reset, and then what is
\* on its way to that peer may be lost as well, from some point on.
Drop ==
    /\ rx' = [d \in Directions |-> <<>>]
    /\ \E kept \in [Directions -> 0..Window] :
          /\ \A d, e \in Directions :
                Dest(d) = Source(e) =>
                   IF rx[e] = <<>> THEN kept[d] = Len(tx[d]) ELSE kept[d] <= Len(tx[d])
          /\ tx' = [d \in Directions |-> SubSeq(tx[d], 1, kept[d])]
    /\ UNCHANGED <<peer, readers, sent, buf, fill, pos, got, counted, logged>>

\* Mutant: try_join! in the place of select!: the session waits for both.
EndsJoined(d, result) ==
    IF result = "ok" /\ ender \in {"none", d}
    THEN ender' = d /\ UNCHANGED <<peer, readers, pipe, session>>
    ELSE session' = result /\ ender' = d /\ Drop

Ends(d, result) ==
    /\ session' = result
    /\ ender' = d
    /\ Drop

\* Mutant: the end of file is seen while a write is still in progress.
ReadEofDuringWrite(d) ==
    /\ session = "open"
    /\ rx[d] = <<>>
    /\ peer[Source(d)] \in {"shut", "closed"}
    /\ Ends(d, "ok")

ReadEof(d) ==
    /\ AtRead(d)
    /\ rx[d] = <<>>
    /\ peer[Source(d)] \in {"shut", "closed"}
    /\ Ends(d, "ok")

ReadFails(d) ==
    /\ AtRead(d)
    /\ peer[Source(d)] = "reset"
    /\ Ends(d, "err")

WriteFails(d) ==
    /\ AtWrite(d)
    /\ peer[Dest(d)] = "reset"
    /\ Ends(d, "err")

\* main has returned: the runtime drops the session where it waits.
Cut ==
    /\ session = "open"
    /\ session' = "cut"
    /\ Drop
    /\ UNCHANGED ender

----------------------------------------------------------------------------
Relay(d) ==
    ReadChunk(d) \/ WriteSome(d) \/ ReadEof(d) \/ ReadFails(d) \/ WriteFails(d)

\* Everything else has stopped, or may stop, after the session is over.
Over == session # "open" /\ UNCHANGED vars

Next ==
    \/ \E d \in Directions : PeerSends(d) \/ PeerReceives(d) \/ Relay(d)
    \/ \E p \in Peers : PeerShuts(p) \/ PeerCloses(p) \/ PeerAborts(p) \/ HostRejects(p)
    \/ Cut
    \/ Over

\* select! polls both loops whenever either can run, and the kernel answers;
\* of the peers only those in readers are assumed to go on reading.
Fairness ==
    /\ \A d \in Directions :
          /\ WF_vars(Relay(d))
          /\ WF_vars(Dest(d) \in readers /\ PeerReceives(d))
    /\ \A p \in Peers : WF_vars(HostRejects(p))

Spec == Init /\ [][Next]_vars
FairSpec == Spec /\ Fairness

----------------------------------------------------------------------------
(* Safety.                                                                 *)

\* While the session is open no byte is lost, repeated or reordered between
\* a source and a destination that has not reset its connection: what was
\* received, what is on its way, what waits in the buffer and what is not yet
\* read make up exactly what was sent (lib.rs 202-247).
NothingLostWhileOpen ==
    \A d \in Directions :
        session = "open" /\ peer[Dest(d)] # "reset" =>
            got[d] \o tx[d] \o Pending(d) \o rx[d] = Stream(sent[d])

\* Nothing reaches a peer that has not been counted and logged before, byte
\* for byte, and the counter is the length of the log (lib.rs 210-220).
DeliveredIsLogged ==
    \A d \in Directions :
        /\ IsPrefix(got[d] \o tx[d], logged[d])
        /\ IsPrefix(logged[d], Stream(sent[d]))
        /\ counted[d] = Len(logged[d])

\* When a session ends because one peer has finished sending, everything
\* that peer sent has been logged and handed to the other peer's socket.
EofMeansForwarded ==
    \A d \in Directions :
        session = "ok" /\ ender = d =>
            logged[d] = Stream(sent[d]) /\ Pending(d) = <<>>

\* Each direction is a relay: its destination sees a growing prefix of what
\* its source sent, through resets, early ends and cuts too.
Relayed == INSTANCE ByteRelay WITH
    Bytes <- Byte,
    input <- [d \in Directions |-> Stream(sent[d])],
    output <- got

IsByteRelay == Relayed!Spec

----------------------------------------------------------------------------
(* Liveness, under Fairness.                                               *)

\* A session does not outlive a peer that is gone or has finished sending,
\* if the other peer goes on reading (lib.rs 249-256).
EndsWithPeer ==
    \A d \in Directions :
        (peer[Source(d)] # "open" /\ Dest(d) \in readers) ~> session # "open"

\* A direction whose destination reads makes progress although the other
\* direction is blocked on a destination that does not read (lib.rs 257-260).
DirectionsIndependent ==
    \A d \in Directions :
        (rx[d] # <<>> /\ Dest(d) \in readers) ~> rx[d] = <<>>

----------------------------------------------------------------------------
(* What the documentation says, checked by runs that expect a violation.   *)

\* README 7-9 and 17: every byte is forwarded.  A session that ends without
\* an error leaves nothing behind that a peer had sent and nobody received.
ForwardsEveryByte ==
    session = "ok" => \A d \in Directions : logged[d] = Stream(sent[d])
=============================================================================
