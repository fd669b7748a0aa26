---------------------------- MODULE SessionProofs ----------------------------
(***************************************************************************)
(* Proofs about Session: type correctness, that no byte is lost, repeated  *)
(* or reordered while a session is open, that what is delivered was        *)
(* counted and logged, and that each direction implements ByteRelay.       *)
(*                                                                         *)
(* The invariant states of every place of the pipe which part of the       *)
(* stream it holds: got is its beginning, tx goes on where got ends, the   *)
(* unwritten part of buf ends where logged ends, and rx goes on from there.*)
(***************************************************************************)
EXTENDS Session, SequenceTheorems, TLAPS

\* s holds the bytes of the stream that follow position n, in order.
Follows(s, n) == \A i \in 1..Len(s) : s[i] = n + i

Unwritten(d) == fill[d] - pos[d]

\* The parts of the invariant that outlive the session, as a relation between
\* a direction's got, tx, logged, counted, Unwritten, sent and MaxBytes.
DeliveryOf(g, x, l, c, u, n, max) ==
    /\ Follows(g, 0)
    /\ Follows(x, Len(g))
    /\ Follows(l, 0)
    /\ c = Len(l)
    /\ Len(g) + Len(x) + u <= Len(l)
    /\ Len(l) <= n
    /\ n <= max

Delivery(d) ==
    DeliveryOf(got[d], tx[d], logged[d], counted[d], Unwritten(d), sent[d], MaxBytes[d])

\* The parts that hold while it is open: of rx, logged and sent, of what buf
\* holds between pos and fill, and, if the destination has not reset its
\* connection, that no less than everything logged is there (DeliveryOf says
\* that it is no more).
UnreadOf(r, l, n) == Follows(r, Len(l)) /\ Len(l) + Len(r) = n
BufferOf(b, f, p, l) == \A i \in p + 1..f : b[i] = Len(l) - f + i
WholeOf(g, x, l, u) == Len(g) + Len(x) + u >= Len(l)

Forwarding(d) ==
    session = "open" =>
        /\ UnreadOf(rx[d], logged[d], sent[d])
        /\ BufferOf(buf[d], fill[d], pos[d], logged[d])
        /\ peer[Dest(d)] # "reset" => WholeOf(got[d], tx[d], logged[d], Unwritten(d))

\* What is left of them when the session has ended at an end of file.
AtEof(d) ==
    session = "ok" /\ ender = d => Len(logged[d]) = sent[d] /\ pos[d] = fill[d]

PipeInv(d) == Delivery(d) /\ Forwarding(d) /\ AtEof(d)
Inv == TypeOK /\ \A d \in Directions : PipeInv(d)

----------------------------------------------------------------------------
(* Sequences.                                                              *)

\* An element of a sequence.
LEMMA SeqElement ==
    ASSUME NEW S, NEW s \in Seq(S), NEW i \in 1..Len(s)
    PROVE  s[i] \in S
  OBVIOUS

\* What an append does to Follows.
LEMMA FollowsAppend ==
    ASSUME NEW S, NEW s \in Seq(S), NEW n \in Nat, Follows(s, n),
           NEW b \in S, b = n + Len(s) + 1
    PROVE  /\ Append(s, b) \in Seq(S)
           /\ Len(Append(s, b)) = Len(s) + 1
           /\ Follows(Append(s, b), n)
  BY DEF Follows

\* What taking the first element away does to it.
LEMMA FollowsTail ==
    ASSUME NEW S, NEW s \in Seq(S), NEW n \in Nat, Follows(s, n), s # <<>>
    PROVE  /\ Tail(s) \in Seq(S)
           /\ Len(Tail(s)) = Len(s) - 1
           /\ Head(s) = n + 1 /\ Head(s) \in S
           /\ Follows(Tail(s), n + 1)
  BY DEF Follows

\* What a concatenation does to it.
LEMMA FollowsConcat ==
    ASSUME NEW S, NEW s \in Seq(S), NEW t \in Seq(S), NEW n \in Nat,
           Follows(s, n), Follows(t, n + Len(s))
    PROVE  /\ s \o t \in Seq(S)
           /\ Len(s \o t) = Len(s) + Len(t)
           /\ Follows(s \o t, n)
  BY DEF Follows

\* What a cut does to it.
LEMMA FollowsSubSeq ==
    ASSUME NEW S, NEW s \in Seq(S), NEW n \in Nat, Follows(s, n),
           NEW j \in 1..Len(s) + 1, NEW k \in 0..Len(s), j <= k + 1
    PROVE  /\ SubSeq(s, j, k) \in Seq(S)
           /\ Len(SubSeq(s, j, k)) = k - j + 1
           /\ Follows(SubSeq(s, j, k), n + j - 1)
  BY DEF Follows

\* A sequence that follows position 0 is the stream of its length.
LEMMA FollowsIsStream ==
    ASSUME NEW S, NEW s \in Seq(S), Follows(s, 0)
    PROVE  s = Stream(Len(s))
  BY DEF Follows, Stream

\* Two pieces that start at the same position agree where both are.
LEMMA FollowsPrefix ==
    ASSUME NEW S, NEW s \in Seq(S), NEW t \in Seq(S), Follows(s, 0), Follows(t, 0),
           Len(s) <= Len(t)
    PROVE  IsPrefix(s, t)
<1>1. Len(s) \in Nat /\ Len(t) \in Nat
  OBVIOUS
<1>2. /\ SubSeq(s, 1, Len(s)) \in Seq(S) /\ Len(SubSeq(s, 1, Len(s))) = Len(s)
      /\ SubSeq(t, 1, Len(s)) \in Seq(S) /\ Len(SubSeq(t, 1, Len(s))) = Len(s)
  BY <1>1
<1>3. ASSUME NEW i \in 1..Len(s) PROVE SubSeq(s, 1, Len(s))[i] = SubSeq(t, 1, Len(s))[i]
  BY <1>1 DEF Follows
<1>4. SubSeq(s, 1, Len(s)) = SubSeq(t, 1, Len(s))
  BY <1>2, <1>3
<1> QED
  BY <1>4 DEF IsPrefix

----------------------------------------------------------------------------
(* The three relations, when one of their places changes.                  *)

\* Sending leaves what is delivered as it is.
LEMMA DeliverySent ==
    ASSUME NEW S, NEW g \in Seq(S), NEW x \in Seq(S), NEW l \in Seq(S), NEW c,
           NEW u \in Nat, NEW n \in Nat, NEW max \in Nat,
           DeliveryOf(g, x, l, c, u, n, max), n < max
    PROVE  DeliveryOf(g, x, l, c, u, n + 1, max)
<1>1. Len(l) <= n + 1
  <2>1. Len(l) \in Nat /\ Len(l) <= n
    BY DEF DeliveryOf
  <2> QED
    BY <2>1
<1> QED
  BY <1>1 DEF DeliveryOf

\* Receiving moves a byte from the network to the peer.
LEMMA DeliveryReceived ==
    ASSUME NEW S, NEW g \in Seq(S), NEW x \in Seq(S), NEW l \in Seq(S), NEW c,
           NEW u \in Nat, NEW n, NEW max, NEW h \in Seq(S), NEW y \in Seq(S),
           DeliveryOf(g, x, l, c, u, n, max),
           Len(h) = Len(g) + 1, Len(y) = Len(x) - 1,
           Follows(h, 0), Follows(y, Len(h))
    PROVE  /\ DeliveryOf(h, y, l, c, u, n, max)
           /\ WholeOf(g, x, l, u) => WholeOf(h, y, l, u)
<1>1. Len(g) \in Nat /\ Len(x) \in Nat /\ Len(l) \in Nat
  OBVIOUS
<1>2. Len(h) + Len(y) + u = Len(g) + Len(x) + u
  BY <1>1
<1> QED
  BY <1>2 DEF DeliveryOf, WholeOf

\* A reset drops what is on its way.
LEMMA DeliveryCut ==
    ASSUME NEW S, NEW g \in Seq(S), NEW x \in Seq(S), NEW l \in Seq(S), NEW c,
           NEW u \in Nat, NEW n, NEW max, NEW k \in 0..Len(x),
           DeliveryOf(g, x, l, c, u, n, max)
    PROVE  DeliveryOf(g, SubSeq(x, 1, k), l, c, u, n, max)
<1>1. Len(g) \in Nat /\ Len(x) \in Nat /\ Len(l) \in Nat /\ Follows(x, Len(g))
  BY DEF DeliveryOf
<1>2. /\ Len(SubSeq(x, 1, k)) = k
      /\ Follows(SubSeq(x, 1, k), Len(g))
  BY <1>1 DEF Follows
<1>3. Len(g) + Len(SubSeq(x, 1, k)) + u <= Len(l)
  <2>1. Len(g) + Len(x) + u <= Len(l) /\ k <= Len(x) /\ k \in Nat
    BY <1>1 DEF DeliveryOf
  <2> QED
    BY <1>1, <1>2, <2>1
<1> QED
  BY <1>2, <1>3 DEF DeliveryOf

\* A write moves k bytes from the buffer to tx.
LEMMA DeliveryWritten ==
    ASSUME NEW S, NEW g \in Seq(S), NEW x \in Seq(S), NEW l \in Seq(S), NEW c,
           NEW u \in Nat, NEW n, NEW max, NEW k \in Nat, k <= u, NEW y \in Seq(S),
           DeliveryOf(g, x, l, c, u, n, max),
           Len(y) = Len(x) + k, Follows(y, Len(g))
    PROVE  /\ DeliveryOf(g, y, l, c, u - k, n, max)
           /\ WholeOf(g, x, l, u) => WholeOf(g, y, l, u - k)
<1>1. Len(g) \in Nat /\ Len(x) \in Nat /\ Len(l) \in Nat
  OBVIOUS
<1>2. Len(g) + Len(y) + (u - k) = Len(g) + Len(x) + u
  BY <1>1
<1> QED
  BY <1>2 DEF DeliveryOf, WholeOf

----------------------------------------------------------------------------
(* Constants and types.                                                    *)

\* Bytes are positions in a stream.
LEMMA ByteFacts ==
    /\ \A d \in Directions : MaxBytes[d] \in Nat /\ 1..MaxBytes[d] \subseteq Byte
    /\ Byte \subseteq Nat
  BY SizeAssumption DEF Byte, Directions

\* Each direction leads from one peer to the other.
LEMMA DirectionFacts ==
    \A d \in Directions : Source(d) \in Peers /\ Dest(d) \in Peers /\ Source(d) # Dest(d)
  BY DEF Directions, Peers, Source, Dest

\* What TypeOK says of one direction.
Typed(d) ==
    /\ sent[d] \in Nat /\ counted[d] \in Nat
    /\ buf[d] \in [1..BufLen -> Byte \union {0}]
    /\ fill[d] \in 0..BufLen /\ pos[d] \in 0..BufLen /\ pos[d] <= fill[d]
    /\ rx[d] \in Seq(Byte) /\ Len(rx[d]) <= Window
    /\ tx[d] \in Seq(Byte) /\ Len(tx[d]) <= Window
    /\ got[d] \in Seq(Byte) /\ logged[d] \in Seq(Byte)

\* ... and the lengths that follow, which the arithmetic of the proofs needs.
Lengths(d) ==
    /\ Len(rx[d]) \in Nat /\ Len(rx[d]) >= 0
    /\ Len(tx[d]) \in Nat /\ Len(tx[d]) >= 0
    /\ Len(got[d]) \in Nat /\ Len(got[d]) >= 0
    /\ Len(logged[d]) \in Nat /\ Len(logged[d]) >= 0
    /\ Unwritten(d) \in Nat

\* The pipes have their types.
LEMMA TypedDirections ==
    ASSUME TypeOK
    PROVE  \A d \in Directions : Typed(d) /\ Lengths(d)
<1> SUFFICES ASSUME NEW d \in Directions PROVE Typed(d) /\ Lengths(d)
  OBVIOUS
<1>1. Typed(d)
  BY DEF TypeOK, Typed
<1>2. /\ Len(rx[d]) \in Nat /\ Len(rx[d]) >= 0
      /\ Len(tx[d]) \in Nat /\ Len(tx[d]) >= 0
      /\ Len(got[d]) \in Nat /\ Len(got[d]) >= 0
      /\ Len(logged[d]) \in Nat /\ Len(logged[d]) >= 0
  BY <1>1 DEF Typed, Lengths
<1>3. Unwritten(d) \in Nat
  BY <1>1, SizeAssumption DEF Typed, Unwritten
<1> QED
  BY <1>1, <1>2, <1>3 DEF Lengths

----------------------------------------------------------------------------
(* The initial states.                                                     *)

\* The invariant holds in the first states.
LEMMA InitInv == Init => Inv
<1> SUFFICES ASSUME Init PROVE Inv
  OBVIOUS
<1>1. TypeOK
  BY SizeAssumption DEF Init, TypeOK, Directions
<1>2. ASSUME NEW d \in Directions PROVE PipeInv(d)
  <2>1. /\ sent[d] = 0 /\ counted[d] = 0 /\ fill[d] = 0 /\ pos[d] = 0
        /\ rx[d] = <<>> /\ tx[d] = <<>> /\ got[d] = <<>> /\ logged[d] = <<>>
        /\ session = "open"
    BY DEF Init
  <2>2. MaxBytes[d] >= 0
    BY ByteFacts
  <2> QED
    BY <2>1, <2>2
    DEF PipeInv, Delivery, DeliveryOf, Forwarding, UnreadOf, BufferOf, WholeOf, AtEof,
        Follows, Unwritten
<1> QED
  BY <1>1, <1>2 DEF Inv

----------------------------------------------------------------------------
(* The peers and the network.                                              *)

\* A step that changes nothing but a peer, which it does not un-reset.
LEMMA PeerInv ==
    ASSUME Inv, NEW p \in Peers, NEW to \in {"shut", "closed"},
           peer[p] \in {"open", "shut"}, peer' = [peer EXCEPT ![p] = to],
           UNCHANGED <<readers, pipe, session, ender>>
    PROVE  Inv'
<1> USE DEF Inv
<1>1. TypeOK'
  BY DEF TypeOK, pipe
<1>2. ASSUME NEW d \in Directions PROVE PipeInv(d)'
  <2>1. PipeInv(d)
    OBVIOUS
  <2>2. peer'[Dest(d)] # "reset" => peer[Dest(d)] # "reset"
    BY DirectionFacts DEF TypeOK
  <2> QED
    BY <2>1, <2>2 DEF PipeInv, Delivery, Forwarding, AtEof, Unwritten, pipe
<1> QED
  BY <1>1, <1>2

\* A peer that sends keeps it.
LEMMA PeerSendsInv ==
    ASSUME Inv, NEW d \in Directions, PeerSends(d)
    PROVE  Inv'
<1> USE DEF Inv
<1>0. /\ rx \in [Directions -> Seq(Byte)] /\ tx \in [Directions -> Seq(Byte)]
      /\ got \in [Directions -> Seq(Byte)] /\ logged \in [Directions -> Seq(Byte)]
      /\ sent \in [Directions -> Nat] /\ counted \in [Directions -> Nat]
  BY DEF TypeOK
<1>1. /\ Typed(d) /\ Lengths(d) /\ PipeInv(d) /\ session = "open"
      /\ Follows(rx[d], Len(logged[d]))
      /\ sent[d] + 1 = Len(logged[d]) + Len(rx[d]) + 1
  BY TypedDirections DEF PeerSends, PipeInv, Forwarding, UnreadOf
<1>2. sent[d] + 1 \in Byte /\ sent[d] + 1 <= MaxBytes[d]
  <2>1. sent[d] < MaxBytes[d] /\ sent[d] \in Nat
    BY <1>1 DEF PeerSends, Typed
  <2>2. MaxBytes[d] \in Nat /\ 1..MaxBytes[d] \subseteq Byte
    BY ByteFacts
  <2>3. sent[d] + 1 \in 1..MaxBytes[d]
    BY <2>1, <2>2
  <2> QED
    BY <2>2, <2>3
<1> DEFINE r == Append(rx[d], sent[d] + 1)
<1>3. /\ r \in Seq(Byte) /\ Len(r) = Len(rx[d]) + 1
      /\ Follows(r, Len(logged[d]))
  <2>1. /\ rx[d] \in Seq(Byte) /\ Len(logged[d]) \in Nat
        /\ sent[d] + 1 = Len(logged[d]) + Len(rx[d]) + 1
    BY <1>1 DEF Typed, Lengths
  <2> QED
    BY <1>1, <1>2, <2>1, FollowsAppend
<1> HIDE DEF r
<1>r. rx' = [rx EXCEPT ![d] = r] /\ sent' = [sent EXCEPT ![d] = sent[d] + 1]
  BY DEF PeerSends, r
<1>4. TypeOK'
  <2>1. sent' \in [Directions -> Nat]
    BY <1>r DEF PeerSends, TypeOK
  <2>2. \A e \in Directions : rx'[e] \in Seq(Byte) /\ Len(rx'[e]) <= Window
    BY <1>3, <1>r, SizeAssumption DEF PeerSends, TypeOK
  <2> QED
    BY <2>1, <2>2, <1>r DEF PeerSends, TypeOK
<1>5. ASSUME NEW e \in Directions PROVE PipeInv(e)'
  <2>1. PipeInv(e) /\ Typed(e) /\ Lengths(e)
    BY TypedDirections
  <2>2. CASE e = d
    <3>1. rx'[d] = r /\ sent'[d] = sent[d] + 1
      BY <1>r DEF TypeOK
    <3>2. /\ buf'[d] = buf[d] /\ fill'[d] = fill[d] /\ pos'[d] = pos[d] /\ tx'[d] = tx[d]
          /\ got'[d] = got[d] /\ counted'[d] = counted[d] /\ logged'[d] = logged[d]
          /\ peer'[Dest(d)] = peer[Dest(d)] /\ session' = session
          /\ Unwritten(d)' = Unwritten(d)
      BY DEF PeerSends, Unwritten
    <3>3. DeliveryOf(got[d], tx[d], logged[d], counted[d], Unwritten(d), sent[d] + 1,
                     MaxBytes[d])
      <4>1. /\ DeliveryOf(got[d], tx[d], logged[d], counted[d], Unwritten(d), sent[d],
                          MaxBytes[d])
            /\ got[d] \in Seq(Byte) /\ tx[d] \in Seq(Byte) /\ logged[d] \in Seq(Byte)
            /\ Unwritten(d) \in Nat /\ sent[d] \in Nat /\ MaxBytes[d] \in Nat
            /\ sent[d] < MaxBytes[d]
        BY <1>1, ByteFacts DEF PeerSends, Typed, Lengths, PipeInv, Delivery
      <4> QED
        BY <4>1, DeliverySent
    <3>4. UnreadOf(r, logged[d], sent[d] + 1)
      <4>1. /\ Len(logged[d]) \in Nat /\ Len(rx[d]) \in Nat /\ Len(r) = Len(rx[d]) + 1
            /\ sent[d] + 1 = Len(logged[d]) + Len(rx[d]) + 1
        BY <1>1, <1>3 DEF Lengths
      <4> QED
        BY <4>1, <1>0, <1>3 DEF UnreadOf
    <3>5. Delivery(d)' /\ Forwarding(d)'
      BY <1>1, <3>1, <3>2, <3>3, <3>4 DEF PipeInv, Delivery, Forwarding
    <3>6. AtEof(d)'
      BY <1>1, <3>2 DEF AtEof
    <3> QED
      BY <2>2, <3>5, <3>6 DEF PipeInv
  <2>3. CASE e # d
    <3>1. rx'[e] = rx[e] /\ sent'[e] = sent[e]
      BY <2>3 DEF PeerSends, TypeOK
    <3> QED
      BY <2>1, <3>1
      DEF PeerSends, PipeInv, Delivery, Forwarding, AtEof, Unwritten
  <2> QED
    BY <2>2, <2>3
<1> QED
  BY <1>4, <1>5

\* So does a peer that reads.
LEMMA PeerReceivesInv ==
    ASSUME Inv, NEW d \in Directions, PeerReceives(d)
    PROVE  Inv'
<1> USE DEF Inv
<1>1. Typed(d) /\ Lengths(d) /\ PipeInv(d) /\ tx[d] # <<>>
  BY TypedDirections DEF PeerReceives
<1> DEFINE g == Append(got[d], Head(tx[d]))
           x == Tail(tx[d])
<1>2. /\ x \in Seq(Byte) /\ Len(x) = Len(tx[d]) - 1
      /\ Head(tx[d]) = Len(got[d]) + 1 /\ Head(tx[d]) \in Byte
      /\ Follows(x, Len(got[d]) + 1)
  BY <1>1, FollowsTail DEF Typed, Lengths, PipeInv, Delivery, DeliveryOf
<1>3. g \in Seq(Byte) /\ Len(g) = Len(got[d]) + 1 /\ Follows(g, 0)
  <2>1. /\ got[d] \in Seq(Byte) /\ Follows(got[d], 0) /\ 0 \in Nat
        /\ Head(tx[d]) = 0 + Len(got[d]) + 1
    BY <1>1, <1>2 DEF Typed, Lengths, PipeInv, Delivery, DeliveryOf
  <2> QED
    BY <1>2, <2>1, FollowsAppend
<1> HIDE DEF g, x
<1>4. got' = [got EXCEPT ![d] = g] /\ tx' = [tx EXCEPT ![d] = x]
  BY DEF PeerReceives, g, x
<1>5. TypeOK'
  <2>1. got' \in [Directions -> Seq(Byte)] /\ tx' \in [Directions -> Seq(Byte)]
    BY <1>2, <1>3, <1>4 DEF TypeOK
  <2>2. \A e \in Directions : Len(tx'[e]) <= Window
    BY <1>1, <1>2, <1>4, SizeAssumption DEF TypeOK, Typed, Lengths
  <2>3. UNCHANGED <<peer, readers, sent, rx, buf, fill, pos, counted, logged, session, ender>>
    BY DEF PeerReceives
  <2> QED
    BY <2>1, <2>2, <2>3 DEF TypeOK
<1>6. ASSUME NEW e \in Directions PROVE PipeInv(e)'
  <2>1. PipeInv(e) /\ Typed(e) /\ Lengths(e)
    BY TypedDirections
  <2>2. CASE e = d
    <3>1. got'[d] = g /\ tx'[d] = x
      BY <1>4 DEF TypeOK
    <3>2. /\ buf'[d] = buf[d] /\ fill'[d] = fill[d] /\ pos'[d] = pos[d] /\ rx'[d] = rx[d]
          /\ sent'[d] = sent[d] /\ counted'[d] = counted[d] /\ logged'[d] = logged[d]
          /\ peer'[Dest(d)] = peer[Dest(d)] /\ session' = session /\ ender' = ender
          /\ Unwritten(d)' = Unwritten(d)
      BY DEF PeerReceives, Unwritten
    <3>3. /\ DeliveryOf(g, x, logged[d], counted[d], Unwritten(d), sent[d], MaxBytes[d])
          /\ WholeOf(got[d], tx[d], logged[d], Unwritten(d)) =>
                WholeOf(g, x, logged[d], Unwritten(d))
      <4>1. /\ DeliveryOf(got[d], tx[d], logged[d], counted[d], Unwritten(d), sent[d],
                          MaxBytes[d])
            /\ got[d] \in Seq(Byte) /\ tx[d] \in Seq(Byte) /\ logged[d] \in Seq(Byte)
            /\ Unwritten(d) \in Nat
        BY <1>1 DEF Typed, Lengths, PipeInv, Delivery
      <4> QED
        BY <1>2, <1>3, <4>1, DeliveryReceived
    <3>4. Delivery(d)' /\ Forwarding(d)'
      BY <1>1, <3>1, <3>2, <3>3 DEF PipeInv, Delivery, Forwarding
    <3>5. AtEof(d)'
      BY <1>1, <3>2 DEF PipeInv, AtEof
    <3> QED
      BY <2>2, <3>4, <3>5 DEF PipeInv
  <2>3. CASE e # d
    <3>1. got'[e] = got[e] /\ tx'[e] = tx[e]
      BY <1>4, <2>3 DEF TypeOK
    <3> QED
      BY <2>1, <3>1
      DEF PeerReceives, PipeInv, Delivery, Forwarding, AtEof, Unwritten
  <2> QED
    BY <2>2, <2>3
<1> QED
  BY <1>5, <1>6

\* So does a reset.
LEMMA ResetInv ==
    ASSUME Inv, NEW p \in Peers, Reset(p)
    PROVE  Inv'
<1> USE DEF Inv
<1>1. TypeOK'
  BY SizeAssumption DEF Reset, TypeOK
<1>2. ASSUME NEW d \in Directions PROVE PipeInv(d)'
  <2>1. PipeInv(d) /\ Typed(d) /\ Lengths(d)
    BY TypedDirections
  <2>2. CASE Dest(d) = p
    <3>1. tx'[d] = <<>> /\ peer'[Dest(d)] = "reset"
      BY <2>2 DEF Reset, TypeOK
    <3>2. /\ buf'[d] = buf[d] /\ fill'[d] = fill[d] /\ pos'[d] = pos[d] /\ rx'[d] = rx[d]
          /\ sent'[d] = sent[d] /\ counted'[d] = counted[d] /\ logged'[d] = logged[d]
          /\ got'[d] = got[d] /\ session' = session /\ ender' = ender
          /\ Unwritten(d)' = Unwritten(d) /\ Len(tx'[d]) = 0
      BY <3>1 DEF Reset, Unwritten
    <3>3. DeliveryOf(got[d], <<>>, logged[d], counted[d], Unwritten(d), sent[d], MaxBytes[d])
      <4>1. /\ DeliveryOf(got[d], tx[d], logged[d], counted[d], Unwritten(d), sent[d],
                          MaxBytes[d])
            /\ got[d] \in Seq(Byte) /\ tx[d] \in Seq(Byte) /\ logged[d] \in Seq(Byte)
            /\ Unwritten(d) \in Nat /\ 0 \in 0..Len(tx[d])
        BY <2>1 DEF Typed, Lengths, PipeInv, Delivery
      <4>2. SubSeq(tx[d], 1, 0) = <<>>
        BY <4>1
      <4> QED
        BY <4>1, <4>2, DeliveryCut
    <3>4. Delivery(d)' /\ Forwarding(d)'
      BY <2>1, <3>1, <3>2, <3>3 DEF PipeInv, Delivery, Forwarding
    <3>5. AtEof(d)'
      BY <2>1, <3>2 DEF PipeInv, AtEof
    <3> QED
      BY <3>4, <3>5 DEF PipeInv
  <2>3. CASE Dest(d) # p
    <3>1. tx'[d] = tx[d] /\ peer'[Dest(d)] = peer[Dest(d)]
      BY <2>3, DirectionFacts DEF Reset, TypeOK
    <3> QED
      BY <2>1, <3>1
      DEF Reset, PipeInv, Delivery, Forwarding, AtEof, Unwritten
  <2> QED
    BY <2>2, <2>3
<1> QED
  BY <1>1, <1>2


----------------------------------------------------------------------------
(* The loops.                                                              *)

\* What a read hands to the log, and what it leaves in the receive queue.
LEMMA ChunkFacts ==
    ASSUME Inv, NEW d \in Directions, session = "open", rx[d] # <<>>
    PROVE  /\ BytesRead(d) \in 1..BufLen /\ BytesRead(d) <= Len(rx[d])
           /\ Refilled(d) \in [1..BufLen -> Byte \union {0}]
           /\ Chunk(d) \in Seq(Byte) /\ Len(Chunk(d)) = BytesRead(d)
           /\ Follows(Chunk(d), Len(logged[d]))
           /\ \A i \in 1..BytesRead(d) : Refilled(d)[i] = Len(logged[d]) + i
<1> DEFINE k == BytesRead(d)
           r == rx[d]
           b == Refilled(d)
<1>1. /\ r \in Seq(Byte) /\ r # <<>> /\ Len(r) \in Nat /\ Len(logged[d]) \in Nat
      /\ buf[d] \in [1..BufLen -> Byte \union {0}]
      /\ Follows(r, Len(logged[d]))
  <2>1. Typed(d) /\ Lengths(d) /\ PipeInv(d)
    BY TypedDirections DEF Inv
  <2>2. r # <<>> /\ UnreadOf(r, logged[d], sent[d])
    BY <2>1 DEF PipeInv, Forwarding
  <2> QED
    BY <2>1, <2>2 DEF UnreadOf, Typed, Lengths
<1>2. k \in 1..BufLen /\ k <= Len(r)
  <2>1. Len(r) \in Nat \ {0}
    BY <1>1
  <2> QED
    BY <2>1, SizeAssumption DEF BytesRead, Smaller
<1>3. \A i \in 1..k : i \in 1..Len(r) /\ i \in 1..BufLen
  BY <1>1, <1>2, SizeAssumption
<1>4. \A i \in 1..BufLen : b[i] = IF i <= k THEN r[i] ELSE buf[d][i]
  BY DEF Refilled
<1>5. \A i \in 1..k : b[i] = r[i]
  BY <1>3, <1>4, <1>2, SizeAssumption
<1>6. \A i \in 1..k : r[i] \in Byte /\ r[i] = Len(logged[d]) + i
  BY <1>1, <1>3 DEF Follows
<1>7. b \in [1..BufLen -> Byte \union {0}]
  <2>1. \A i \in 1..BufLen :
           (IF i <= k THEN r[i] ELSE buf[d][i]) \in Byte \union {0}
    BY <1>1, <1>2, <1>6, SizeAssumption
  <2> QED
    BY <2>1 DEF Refilled
<1>8. Chunk(d) \in Seq(Byte) /\ Len(Chunk(d)) = k /\ \A i \in 1..k : Chunk(d)[i] = b[i]
  <2>1. Chunk(d) = [i \in 1..k |-> b[i]]
    BY <1>2 DEF Chunk
  <2>2. k \in Nat /\ \A i \in 1..k : b[i] \in Byte
    BY <1>2, <1>5, <1>6
  <2> HIDE DEF k, b
  <2>3. [i \in 1..k |-> b[i]] \in Seq(Byte) /\ Len([i \in 1..k |-> b[i]]) = k
    BY <2>2
  <2> QED
    BY <2>1, <2>3
<1>9. Follows(Chunk(d), Len(logged[d]))
  BY <1>5, <1>6, <1>8 DEF Follows
<1> QED
  BY <1>2, <1>5, <1>6, <1>7, <1>8, <1>9

\* So does a read, with what it counts and logs.
LEMMA ReadChunkInv ==
    ASSUME Inv, NEW d \in Directions, ReadChunk(d)
    PROVE  Inv'
<1> USE DEF Inv
<1>0. /\ rx \in [Directions -> Seq(Byte)] /\ tx \in [Directions -> Seq(Byte)]
      /\ got \in [Directions -> Seq(Byte)] /\ logged \in [Directions -> Seq(Byte)]
      /\ sent \in [Directions -> Nat] /\ counted \in [Directions -> Nat]
  BY DEF TypeOK
<1> DEFINE k == BytesRead(d)
           b == Refilled(d)
           r == SubSeq(rx[d], k + 1, Len(rx[d]))
           l == logged[d] \o Chunk(d)
<1>1. /\ Typed(d) /\ Lengths(d) /\ PipeInv(d) /\ session = "open" /\ rx[d] # <<>>
      /\ pos[d] = fill[d] /\ Unwritten(d) = 0
  <2>1. /\ Typed(d) /\ Lengths(d) /\ PipeInv(d) /\ session = "open" /\ rx[d] # <<>>
        /\ pos[d] = fill[d] /\ fill[d] \in Nat
    BY TypedDirections, SizeAssumption DEF ReadChunk, AtRead, Typed
  <2> QED
    BY <2>1 DEF Unwritten
<1>2. /\ k \in 1..BufLen /\ k \in Nat /\ k >= 1 /\ k <= Len(rx[d])
      /\ b \in [1..BufLen -> Byte \union {0}]
      /\ Chunk(d) \in Seq(Byte) /\ Len(Chunk(d)) = k /\ Follows(Chunk(d), Len(logged[d]))
      /\ \A i \in 1..k : b[i] = Len(logged[d]) + i
  <2>1. /\ k \in 1..BufLen /\ k <= Len(rx[d])
        /\ b \in [1..BufLen -> Byte \union {0}]
        /\ Chunk(d) \in Seq(Byte) /\ Len(Chunk(d)) = k /\ Follows(Chunk(d), Len(logged[d]))
        /\ \A i \in 1..k : b[i] = Len(logged[d]) + i
    BY <1>1, ChunkFacts
  <2> HIDE DEF k, b
  <2> QED
    BY <2>1, SizeAssumption
<1>3. l \in Seq(Byte) /\ Len(l) = Len(logged[d]) + k /\ Follows(l, 0)
  <2>1. /\ logged[d] \in Seq(Byte) /\ Follows(logged[d], 0)
        /\ 0 + Len(logged[d]) = Len(logged[d]) /\ 0 \in Nat
    BY <1>1 DEF Typed, Lengths, PipeInv, Delivery, DeliveryOf
  <2> QED
    BY <1>2, <2>1, FollowsConcat
<1>4. r \in Seq(Byte) /\ Len(r) = Len(rx[d]) - k /\ Follows(r, Len(l))
  <2>1. /\ rx[d] \in Seq(Byte) /\ Len(rx[d]) \in Nat /\ Len(logged[d]) \in Nat
        /\ Follows(rx[d], Len(logged[d]))
    BY <1>1 DEF Typed, Lengths, PipeInv, Forwarding, UnreadOf
  <2>2. /\ k + 1 \in 1..Len(rx[d]) + 1 /\ Len(rx[d]) \in 0..Len(rx[d])
        /\ k + 1 <= Len(rx[d]) + 1
    BY <1>2, <2>1
  <2>3. /\ Len(rx[d]) - (k + 1) + 1 = Len(rx[d]) - k
        /\ Len(logged[d]) + (k + 1) - 1 = Len(l)
    BY <1>2, <1>3, <2>1
  <2> QED
    BY <2>1, <2>2, <2>3, FollowsSubSeq
<1> HIDE DEF k, b, r, l
<1>5. /\ buf' = [buf EXCEPT ![d] = b] /\ fill' = [fill EXCEPT ![d] = k]
      /\ pos' = [pos EXCEPT ![d] = 0] /\ rx' = [rx EXCEPT ![d] = r]
      /\ counted' = [counted EXCEPT ![d] = counted[d] + k]
      /\ logged' = [logged EXCEPT ![d] = l]
      /\ UNCHANGED <<peer, readers, sent, tx, got, session, ender>>
  BY DEF ReadChunk, WriteStart, k, b, r, l
<1>6. TypeOK'
  <2>1. /\ buf' \in [Directions -> [1..BufLen -> Byte \union {0}]]
        /\ fill' \in [Directions -> 0..BufLen] /\ pos' \in [Directions -> 0..BufLen]
        /\ rx' \in [Directions -> Seq(Byte)] /\ logged' \in [Directions -> Seq(Byte)]
        /\ counted' \in [Directions -> Nat]
    <3>1. /\ buf \in [Directions -> [1..BufLen -> Byte \union {0}]]
          /\ fill \in [Directions -> 0..BufLen] /\ pos \in [Directions -> 0..BufLen]
          /\ rx \in [Directions -> Seq(Byte)] /\ logged \in [Directions -> Seq(Byte)]
          /\ counted \in [Directions -> Nat]
      BY DEF TypeOK
    <3>2. k \in 0..BufLen /\ 0 \in 0..BufLen
      BY <1>2, SizeAssumption
    <3>3. counted[d] + k \in Nat
      BY <1>2, <3>1
    <3> QED
      BY <1>2, <1>3, <1>4, <1>5, <3>1, <3>2, <3>3
  <2>2. \A e \in Directions :
           pos'[e] <= fill'[e] /\ Len(rx'[e]) <= Window /\ Len(tx'[e]) <= Window
    <3> SUFFICES ASSUME NEW e \in Directions
        PROVE pos'[e] <= fill'[e] /\ Len(rx'[e]) <= Window /\ Len(tx'[e]) <= Window
      OBVIOUS
    <3>1. Typed(e)
      BY TypedDirections
    <3>2. CASE e = d
      <4>1. pos'[e] = 0 /\ fill'[e] = k /\ rx'[e] = r /\ tx'[e] = tx[e]
        BY <1>5, <3>2 DEF TypeOK
      <4>2. Len(r) <= Window
        BY <1>1, <1>2, <1>4, SizeAssumption DEF Typed, Lengths
      <4> QED
        BY <1>2, <3>1, <4>1, <4>2 DEF Typed
    <3>3. CASE e # d
      <4>1. pos'[e] = pos[e] /\ fill'[e] = fill[e] /\ rx'[e] = rx[e] /\ tx'[e] = tx[e]
        BY <1>5, <3>3 DEF TypeOK
      <4> QED
        BY <3>1, <4>1 DEF Typed
    <3> QED
      BY <3>2, <3>3
  <2> QED
    BY <1>5, <2>1, <2>2 DEF TypeOK
<1>7. ASSUME NEW e \in Directions PROVE PipeInv(e)'
  <2>1. PipeInv(e) /\ Typed(e) /\ Lengths(e)
    BY TypedDirections
  <2>2. CASE e = d
    <3>1. /\ buf'[d] = b /\ fill'[d] = k /\ pos'[d] = 0 /\ rx'[d] = r
          /\ counted'[d] = counted[d] + k /\ logged'[d] = l
      BY <1>5 DEF TypeOK
    <3>2. /\ sent'[d] = sent[d] /\ tx'[d] = tx[d] /\ got'[d] = got[d]
          /\ peer'[Dest(d)] = peer[Dest(d)] /\ session' = session
      BY <1>5
    <3>3. Unwritten(d)' = k
      BY <1>2, <3>1 DEF Unwritten
    <3>4. /\ Len(l) = Len(logged[d]) + k /\ Len(r) = Len(rx[d]) - k
          /\ k \in Nat /\ k >= 1
          /\ Len(got[d]) \in Nat /\ Len(tx[d]) \in Nat /\ Len(logged[d]) \in Nat
          /\ Len(rx[d]) \in Nat /\ Len(got[d]) + Len(tx[d]) + 0 <= Len(logged[d])
          /\ counted[d] = Len(logged[d]) /\ Len(logged[d]) + Len(rx[d]) = sent[d]
          /\ k <= Len(rx[d])
      BY <1>1, <1>2, <1>3, <1>4
      DEF Lengths, PipeInv, Delivery, DeliveryOf, Forwarding, UnreadOf
    <3>5. /\ counted[d] + k = Len(l)
          /\ Len(got[d]) + Len(tx[d]) + k <= Len(l)
          /\ Len(l) <= sent[d]
          /\ Len(l) + Len(r) = sent[d]
          /\ Len(got[d]) + Len(tx[d]) + 0 >= Len(logged[d]) =>
                Len(got[d]) + Len(tx[d]) + k >= Len(l)
      <4>1. counted[d] + k = Len(l)
        BY <3>4, <1>0
      <4>2. Len(got[d]) + Len(tx[d]) + k <= Len(l)
        BY <3>4, <1>0
      <4>3. Len(l) <= sent[d]
        BY <3>4, <1>0
      <4>4. Len(l) + Len(r) = sent[d]
        BY <3>4, <1>0
      <4>5. Len(got[d]) + Len(tx[d]) + 0 >= Len(logged[d]) =>
               Len(got[d]) + Len(tx[d]) + k >= Len(l)
        BY <3>4, <1>0
      <4> QED
        BY <4>1, <4>2, <4>3, <4>4, <4>5
    <3>6. DeliveryOf(got[d], tx[d], l, counted[d] + k, k, sent[d], MaxBytes[d])
      BY <1>1, <1>3, <3>5 DEF PipeInv, Delivery, DeliveryOf
    <3>7. UnreadOf(r, l, sent[d])
      BY <1>4, <3>5 DEF UnreadOf
    <3>8. BufferOf(b, k, 0, l)
      <4>1. \A i \in 0 + 1..k : i \in 1..k /\ Len(l) - k + i = Len(logged[d]) + i
        BY <3>4
      <4> QED
        BY <1>2, <4>1 DEF BufferOf
    <3>9. peer[Dest(d)] # "reset" => WholeOf(got[d], tx[d], l, k)
      <4> SUFFICES ASSUME peer[Dest(d)] # "reset" PROVE WholeOf(got[d], tx[d], l, k)
        OBVIOUS
      <4>1. Len(got[d]) + Len(tx[d]) + 0 >= Len(logged[d])
        BY <1>1 DEF PipeInv, Forwarding, WholeOf
      <4> QED
        BY <3>5, <4>1 DEF WholeOf
    <3>10. Delivery(d)'
      BY <3>1, <3>2, <3>3, <3>6 DEF Delivery
    <3>11. Forwarding(d)'
      BY <3>1, <3>2, <3>3, <3>7, <3>8, <3>9 DEF Forwarding
    <3> QED
      BY <1>1, <2>2, <3>2, <3>10, <3>11 DEF PipeInv, AtEof
  <2>3. CASE e # d
    <3>1. /\ buf'[e] = buf[e] /\ fill'[e] = fill[e] /\ pos'[e] = pos[e] /\ rx'[e] = rx[e]
          /\ counted'[e] = counted[e] /\ logged'[e] = logged[e]
          /\ sent'[e] = sent[e] /\ tx'[e] = tx[e] /\ got'[e] = got[e]
          /\ peer'[Dest(e)] = peer[Dest(e)] /\ session' = session /\ ender' = ender
      BY <1>5, <2>3 DEF TypeOK
    <3> QED
      BY <2>1, <3>1 DEF PipeInv, Delivery, Forwarding, AtEof, Unwritten
  <2> QED
    BY <2>2, <2>3
<1> QED
  BY <1>6, <1>7

\* The next k bytes of the unwritten part of the buffer.
LEMMA PartFacts ==
    ASSUME Inv, NEW d \in Directions, session = "open", peer[Dest(d)] # "reset",
           NEW k \in Nat, k <= fill[d] - pos[d]
    PROVE  /\ SubSeq(buf[d], pos[d] + 1, pos[d] + k) \in Seq(Byte)
           /\ Len(SubSeq(buf[d], pos[d] + 1, pos[d] + k)) = k
           /\ Follows(SubSeq(buf[d], pos[d] + 1, pos[d] + k), Len(got[d]) + Len(tx[d]))
<1> DEFINE p == pos[d]
           f == fill[d]
           part == SubSeq(buf[d], p + 1, p + k)
<1>1. /\ Typed(d) /\ Lengths(d) /\ PipeInv(d)
      /\ p \in Nat /\ f \in Nat /\ f <= BufLen /\ p <= f
  BY TypedDirections, SizeAssumption DEF Inv, Typed
<1> HIDE DEF p, f, part
<1>2. k <= f - p
  BY DEF f, p
<1> DEFINE at == Len(got[d]) + Len(tx[d])
<1>3. \A i \in 1..k : buf[d][p + i] = at + i
  <2> DEFINE last == Len(logged[d])
  <2>1. at \in Nat /\ last \in Nat /\ at + (f - p) = last
    <3>1. /\ Len(got[d]) \in Nat /\ Len(tx[d]) \in Nat /\ Len(logged[d]) \in Nat
          /\ at + (f - p) <= Len(logged[d]) /\ at + (f - p) >= Len(logged[d])
      BY <1>1
      DEF p, f, Lengths, PipeInv, Delivery, DeliveryOf, Forwarding, WholeOf,
          Unwritten
    <3>2. got \in [Directions -> Seq(Byte)] /\ tx \in [Directions -> Seq(Byte)]
          /\ logged \in [Directions -> Seq(Byte)]
      BY DEF Inv, TypeOK
    <3>3. at \in Nat /\ last \in Nat
      BY <3>1, <3>2
    <3>4. at + (f - p) <= last /\ at + (f - p) >= last
      BY <3>1
    <3> HIDE DEF at, last
    <3> QED
      BY <1>1, <3>3, <3>4 DEF Lengths
  <2>2. \A j \in p + 1..f : buf[d][j] = last - f + j
    BY <1>1 DEF p, f, PipeInv, Forwarding, BufferOf
  <2> HIDE DEF at, last
  <2> SUFFICES ASSUME NEW i \in 1..k PROVE buf[d][p + i] = at + i
    OBVIOUS
  <2>3. p + i \in p + 1..f /\ last - f + (p + i) = at + i
    BY <1>1, <1>2, <2>1
  <2> QED
    BY <2>2, <2>3
<1>4. \A i \in 1..k : buf[d][p + i] \in Byte
  <2>1. \A i \in 1..k : buf[d][p + i] \in Byte \union {0} /\ buf[d][p + i] # 0
    <3> SUFFICES ASSUME NEW i \in 1..k
        PROVE buf[d][p + i] \in Byte \union {0} /\ buf[d][p + i] # 0
      OBVIOUS
    <3>1. p + i \in 1..BufLen
      BY <1>1, <1>2, SizeAssumption
    <3>2. buf[d] \in [1..BufLen -> Byte \union {0}]
      BY <1>1 DEF Typed
    <3>3. at \in Nat
      <4>1. /\ Len(got[d]) \in Nat /\ Len(tx[d]) \in Nat
            /\ Len(got[d]) >= 0 /\ Len(tx[d]) >= 0
            /\ got \in [Directions -> Seq(Byte)] /\ tx \in [Directions -> Seq(Byte)]
        BY <1>1 DEF Lengths, Inv, TypeOK
      <4> QED
        BY <4>1
    <3> HIDE DEF at
    <3>4. at + i # 0
      BY <3>3
    <3> QED
      BY <1>3, <3>1, <3>2, <3>4
  <2> QED
    BY <2>1
<1>5. /\ part \in Seq(Byte) /\ Len(part) = k
      /\ \A i \in 1..k : part[i] = buf[d][p + i]
  <2>1. part = SubSeq(buf[d], p + 1, p + k)
    BY DEF part
  <2>2. p \in Nat /\ k \in Nat
    BY <1>1, <1>2
  <2> DEFINE b == buf[d]
  <2>3. \A i \in 1..k : b[p + i] \in Byte
    BY <1>4
  <2> HIDE DEF b
  <2>4. /\ SubSeq(b, p + 1, p + k) \in Seq(Byte) /\ Len(SubSeq(b, p + 1, p + k)) = k
        /\ \A i \in 1..k : SubSeq(b, p + 1, p + k)[i] = b[p + i]
    <3>1. \A j \in p + 1..p + k : b[j] \in Byte
      <4> SUFFICES ASSUME NEW j \in p + 1..p + k PROVE b[j] \in Byte
        OBVIOUS
      <4>1. j - p \in 1..k /\ p + (j - p) = j
        BY <2>2
      <4> QED
        BY <2>3, <4>1
    <3>2. SubSeq(b, p + 1, p + k) \in Seq(Byte) /\ Len(SubSeq(b, p + 1, p + k)) = k
      BY <2>2, <3>1
    <3>3. \A i \in 1..k : SubSeq(b, p + 1, p + k)[i] = b[p + i]
      BY <2>2
    <3> QED
      BY <3>2, <3>3
  <2> QED
    BY <2>1, <2>4 DEF b
<1>6. Follows(part, at)
  BY <1>2, <1>3, <1>5 DEF Follows
<1> QED
  BY <1>5, <1>6 DEF part, p

\* What one write() takes of it.
LEMMA SliceFacts ==
    ASSUME Inv, NEW d \in Directions, AtWrite(d), peer[Dest(d)] # "reset",
           Len(tx[d]) < Window
    PROVE  /\ BytesWritten(d) \in Nat
           /\ BytesWritten(d) <= fill[d] - pos[d]
           /\ Len(tx[d]) + BytesWritten(d) <= Window
           /\ Slice(d) \in Seq(Byte) /\ Len(Slice(d)) = BytesWritten(d)
           /\ Follows(Slice(d), Len(got[d]) + Len(tx[d]))
<1> DEFINE k == BytesWritten(d)
           u == fill[d] - pos[d]
           room == Window - Len(tx[d])
<1>1. /\ u \in Nat /\ room \in Nat /\ Window - room = Len(tx[d])
  <2>1. /\ Len(tx[d]) \in Nat /\ Len(tx[d]) < Window /\ Window \in Nat
        /\ tx \in [Directions -> Seq(Byte)]
    BY TypedDirections, SizeAssumption DEF Lengths, Inv, TypeOK
  <2>2. fill[d] \in Nat /\ pos[d] \in Nat /\ pos[d] <= fill[d]
    BY TypedDirections, SizeAssumption DEF Inv, Typed
  <2> QED
    BY <2>1, <2>2
<1>2. k = Smaller(u, room)
  BY DEF BytesWritten
<1> HIDE DEF k, u, room
<1>3. k \in Nat /\ k <= u /\ k <= room
  BY <1>1, <1>2 DEF Smaller
<1>4. Len(tx[d]) + k <= Window
  BY <1>1, <1>3, SizeAssumption
<1>5. Slice(d) = SubSeq(buf[d], pos[d] + 1, pos[d] + k) /\ session = "open"
  BY DEF Slice, k, AtWrite
<1>6. k <= fill[d] - pos[d]
  BY <1>3 DEF u
<1> QED
  BY <1>3, <1>4, <1>5, <1>6, PartFacts DEF k

\* So does a write.
LEMMA WriteSomeInv ==
    ASSUME Inv, NEW d \in Directions, WriteSome(d)
    PROVE  Inv'
<1> USE DEF Inv
<1> DEFINE k == BytesWritten(d)
           x == tx[d] \o Slice(d)
           u == Unwritten(d)
<1>1. Typed(d) /\ Lengths(d) /\ PipeInv(d) /\ session = "open"
  BY TypedDirections DEF WriteSome, AtWrite
<1>2. /\ k \in Nat /\ k <= fill[d] - pos[d] /\ Len(tx[d]) + k <= Window
      /\ Slice(d) \in Seq(Byte) /\ Len(Slice(d)) = k
      /\ Follows(Slice(d), Len(got[d]) + Len(tx[d]))
  BY SliceFacts DEF WriteSome
<1>3. /\ x \in Seq(Byte) /\ Len(x) = Len(tx[d]) + k /\ Follows(x, Len(got[d]))
  <2>1. tx[d] \in Seq(Byte) /\ Follows(tx[d], Len(got[d])) /\ Len(got[d]) \in Nat
    BY <1>1 DEF Typed, Lengths, PipeInv, Delivery, DeliveryOf
  <2> QED
    BY <1>2, <2>1, FollowsConcat
<1> HIDE DEF k, x, u
<1>4. tx' = [tx EXCEPT ![d] = x] /\ pos' = [pos EXCEPT ![d] = pos[d] + k]
  BY DEF WriteSome, WritePosition, k, x
<1>5. UNCHANGED <<peer, readers, sent, rx, buf, fill, got, counted, logged, session, ender>>
  BY DEF WriteSome
<1>6. pos[d] + k \in 0..BufLen /\ pos[d] + k <= fill[d]
  <2>1. pos[d] \in Nat /\ fill[d] \in Nat /\ fill[d] <= BufLen /\ BufLen \in Nat
    BY <1>1, SizeAssumption DEF Typed
  <2> QED
    BY <1>2, <2>1
<1>7. TypeOK'
  <2>1. tx' \in [Directions -> Seq(Byte)] /\ pos' \in [Directions -> 0..BufLen]
    <3>1. tx \in [Directions -> Seq(Byte)] /\ pos \in [Directions -> 0..BufLen]
      BY DEF TypeOK
    <3> QED
      BY <1>3, <1>4, <1>6, <3>1
  <2>2. \A e \in Directions :
           pos'[e] <= fill'[e] /\ Len(rx'[e]) <= Window /\ Len(tx'[e]) <= Window
    <3> SUFFICES ASSUME NEW e \in Directions
        PROVE pos'[e] <= fill'[e] /\ Len(rx'[e]) <= Window /\ Len(tx'[e]) <= Window
      OBVIOUS
    <3>1. Typed(e) /\ rx'[e] = rx[e] /\ fill'[e] = fill[e]
      BY <1>5, TypedDirections
    <3>2. CASE e = d
      <4>1. pos'[e] = pos[d] + k /\ tx'[e] = x
        BY <1>4, <3>2 DEF TypeOK
      <4>2. Len(x) <= Window
        BY <1>2, <1>3
      <4> QED
        BY <1>6, <3>1, <3>2, <4>1, <4>2 DEF Typed
    <3>3. CASE e # d
      <4>1. pos'[e] = pos[e] /\ tx'[e] = tx[e]
        BY <1>4, <3>3 DEF TypeOK
      <4> QED
        BY <3>1, <4>1 DEF Typed
    <3> QED
      BY <3>2, <3>3
  <2> QED
    BY <1>5, <2>1, <2>2 DEF TypeOK
<1>8. ASSUME NEW e \in Directions PROVE PipeInv(e)'
  <2>1. PipeInv(e) /\ Typed(e) /\ Lengths(e)
    BY TypedDirections
  <2>2. CASE e = d
    <3>1. /\ tx'[d] = x /\ pos'[d] = pos[d] + k /\ fill'[d] = fill[d]
          /\ buf'[d] = buf[d] /\ rx'[d] = rx[d] /\ counted'[d] = counted[d]
          /\ logged'[d] = logged[d] /\ sent'[d] = sent[d] /\ got'[d] = got[d]
          /\ peer'[Dest(d)] = peer[Dest(d)] /\ session' = session
      BY <1>4, <1>5 DEF TypeOK
    <3>2. Unwritten(d)' = u - k /\ u \in Nat /\ k <= u
      <4>1. fill[d] \in Nat /\ pos[d] \in Nat /\ pos[d] <= fill[d]
        BY <1>1, SizeAssumption DEF Typed
      <4> QED
        BY <1>2, <3>1, <4>1 DEF Unwritten, u
    <3>3. /\ DeliveryOf(got[d], x, logged[d], counted[d], u - k, sent[d], MaxBytes[d])
          /\ WholeOf(got[d], tx[d], logged[d], u) => WholeOf(got[d], x, logged[d], u - k)
      <4>1. /\ DeliveryOf(got[d], tx[d], logged[d], counted[d], u, sent[d], MaxBytes[d])
            /\ got[d] \in Seq(Byte) /\ tx[d] \in Seq(Byte) /\ logged[d] \in Seq(Byte)
        BY <1>1 DEF Typed, PipeInv, Delivery, u
      <4> QED
        BY <1>2, <1>3, <3>2, <4>1, DeliveryWritten
    <3>4. BufferOf(buf[d], fill[d], pos[d] + k, logged[d])
      <4>1. pos[d] \in Nat /\ fill[d] \in Nat
        BY <1>1, SizeAssumption DEF Typed
      <4>2. \A i \in pos[d] + k + 1..fill[d] : i \in pos[d] + 1..fill[d]
        BY <1>2, <4>1
      <4>3. BufferOf(buf[d], fill[d], pos[d], logged[d])
        BY <1>1 DEF PipeInv, Forwarding
      <4> QED
        BY <4>2, <4>3 DEF BufferOf
    <3>5. Delivery(d)'
      BY <3>1, <3>2, <3>3 DEF Delivery
    <3>6. Forwarding(d)'
      BY <1>1, <3>1, <3>2, <3>3, <3>4 DEF PipeInv, Forwarding, u
    <3> QED
      BY <1>1, <2>2, <3>1, <3>5, <3>6 DEF PipeInv, AtEof
  <2>3. CASE e # d
    <3>1. /\ buf'[e] = buf[e] /\ fill'[e] = fill[e] /\ pos'[e] = pos[e] /\ rx'[e] = rx[e]
          /\ counted'[e] = counted[e] /\ logged'[e] = logged[e]
          /\ sent'[e] = sent[e] /\ tx'[e] = tx[e] /\ got'[e] = got[e]
          /\ peer'[Dest(e)] = peer[Dest(e)] /\ session' = session /\ ender' = ender
      BY <1>4, <1>5, <2>3 DEF TypeOK
    <3> QED
      BY <2>1, <3>1 DEF PipeInv, Delivery, Forwarding, AtEof, Unwritten
  <2> QED
    BY <2>2, <2>3
<1> QED
  BY <1>7, <1>8

\* handle_session returns or is dropped: what it leaves behind is a part of
\* what it had, and if it ended at an end of file, all of that was logged.
LEMMA DropInv ==
    ASSUME Inv, Drop, session' \in {"ok", "err", "cut"},
           ender' \in Directions \union {"none"},
           UNCHANGED <<peer, readers>>,
           \A d \in Directions : session' = "ok" /\ ender' = d =>
               session = "open" /\ rx[d] = <<>> /\ pos[d] = fill[d]
    PROVE  Inv'
<1> USE DEF Inv
<1>1. PICK kept \in [Directions -> 0..Window] :
         /\ \A d, e \in Directions :
               Dest(d) = Source(e) =>
                  IF rx[e] = <<>> THEN kept[d] = Len(tx[d]) ELSE kept[d] <= Len(tx[d])
         /\ tx' = [d \in Directions |-> SubSeq(tx[d], 1, kept[d])]
  BY DEF Drop
<1>2. /\ rx' = [d \in Directions |-> <<>>]
      /\ UNCHANGED <<sent, buf, fill, pos, got, counted, logged>>
  BY DEF Drop
<1>3. \A d \in Directions :
         /\ kept[d] \in 0..Len(tx[d]) /\ tx'[d] = SubSeq(tx[d], 1, kept[d])
         /\ tx'[d] \in Seq(Byte) /\ Len(tx'[d]) <= Window
  <2> SUFFICES ASSUME NEW d \in Directions
      PROVE /\ kept[d] \in 0..Len(tx[d]) /\ tx'[d] = SubSeq(tx[d], 1, kept[d])
            /\ tx'[d] \in Seq(Byte) /\ Len(tx'[d]) <= Window
    OBVIOUS
  <2>1. tx \in [Directions -> Seq(Byte)] /\ tx[d] \in Seq(Byte) /\ Len(tx[d]) <= Window
    BY DEF TypeOK
  <2>2. \E e \in Directions : Dest(d) = Source(e)
    BY DEF Directions, Dest, Source
  <2>3. kept[d] = Len(tx[d]) \/ kept[d] <= Len(tx[d])
    BY <1>1, <2>2
  <2>4. kept[d] \in Nat /\ kept[d] <= Len(tx[d])
    BY <2>1, <2>3, SizeAssumption
  <2>5. tx'[d] = SubSeq(tx[d], 1, kept[d])
    BY <1>1
  <2>6. SubSeq(tx[d], 1, kept[d]) \in Seq(Byte) /\ Len(SubSeq(tx[d], 1, kept[d])) = kept[d]
    BY <2>1, <2>4
  <2> QED
    BY <2>1, <2>4, <2>5, <2>6, SizeAssumption
<1>4. TypeOK'
  <2>1. tx' \in [Directions -> Seq(Byte)] /\ rx' \in [Directions -> Seq(Byte)]
    BY <1>1, <1>2, <1>3
  <2>2. \A e \in Directions :
           pos'[e] <= fill'[e] /\ Len(rx'[e]) <= Window /\ Len(tx'[e]) <= Window
    <3> SUFFICES ASSUME NEW e \in Directions
        PROVE pos'[e] <= fill'[e] /\ Len(rx'[e]) <= Window /\ Len(tx'[e]) <= Window
      OBVIOUS
    <3>1. rx'[e] = <<>> /\ pos'[e] = pos[e] /\ fill'[e] = fill[e]
      BY <1>2
    <3>2. Typed(e)
      BY TypedDirections
    <3> QED
      BY <1>3, <3>1, <3>2, SizeAssumption DEF Typed
  <2> QED
    BY <1>2, <2>1, <2>2 DEF TypeOK
<1>5. ASSUME NEW d \in Directions PROVE PipeInv(d)'
  <2>1. PipeInv(d) /\ Typed(d) /\ Lengths(d)
    BY TypedDirections
  <2>2. Unwritten(d)' = Unwritten(d)
    BY <1>2 DEF Unwritten
  <2>3. DeliveryOf(got[d], SubSeq(tx[d], 1, kept[d]), logged[d], counted[d], Unwritten(d),
                   sent[d], MaxBytes[d])
    <3>1. /\ DeliveryOf(got[d], tx[d], logged[d], counted[d], Unwritten(d), sent[d],
                        MaxBytes[d])
          /\ got[d] \in Seq(Byte) /\ tx[d] \in Seq(Byte) /\ logged[d] \in Seq(Byte)
          /\ Unwritten(d) \in Nat /\ kept[d] \in 0..Len(tx[d])
      BY <1>3, <2>1 DEF Typed, Lengths, PipeInv, Delivery
    <3> QED
      BY <3>1, DeliveryCut
  <2>4. Delivery(d)'
    BY <1>2, <1>3, <2>2, <2>3 DEF Delivery
  <2>5. AtEof(d)'
    <3> SUFFICES ASSUME session' = "ok", ender' = d
        PROVE Len(logged[d]) = sent[d] /\ pos[d] = fill[d]
      BY <1>2 DEF AtEof
    <3>1. session = "open" /\ rx[d] = <<>> /\ pos[d] = fill[d]
      OBVIOUS
    <3>2. Len(logged[d]) + Len(rx[d]) = sent[d] /\ Len(logged[d]) \in Nat
      BY <2>1, <3>1 DEF PipeInv, Forwarding, UnreadOf, Lengths
    <3>3. Len(rx[d]) = 0
      BY <3>1
    <3>4. sent[d] \in Nat /\ logged \in [Directions -> Seq(Byte)]
      BY DEF TypeOK
    <3> QED
      BY <3>1, <3>2, <3>3, <3>4
  <2> QED
    BY <2>4, <2>5 DEF PipeInv, Forwarding
<1> QED
  BY <1>4, <1>5

----------------------------------------------------------------------------
(* Every step.                                                             *)

\* Every step keeps it.
LEMMA NextInv ==
    ASSUME Inv, [Next]_vars
    PROVE  Inv'
<1>1. ASSUME NEW d \in Directions, PeerSends(d) PROVE Inv'
  BY <1>1, PeerSendsInv
<1>2. ASSUME NEW d \in Directions, PeerReceives(d) PROVE Inv'
  BY <1>2, PeerReceivesInv
<1>3. ASSUME NEW d \in Directions, ReadChunk(d) PROVE Inv'
  BY <1>3, ReadChunkInv
<1>4. ASSUME NEW d \in Directions, WriteSome(d) PROVE Inv'
  BY <1>4, WriteSomeInv
<1>5. ASSUME NEW d \in Directions, ReadEof(d) PROVE Inv'
  BY <1>5, DropInv DEF ReadEof, AtRead, Ends, Drop
<1>6. ASSUME NEW d \in Directions, ReadFails(d) PROVE Inv'
  BY <1>6, DropInv DEF ReadFails, Ends, Drop
<1>7. ASSUME NEW d \in Directions, WriteFails(d) PROVE Inv'
  BY <1>7, DropInv DEF WriteFails, Ends, Drop
<1>8. ASSUME NEW p \in Peers, PeerShuts(p) PROVE Inv'
  BY <1>8, PeerInv DEF PeerShuts
<1>9. ASSUME NEW p \in Peers, PeerCloses(p) PROVE Inv'
  BY <1>9, PeerInv DEF PeerCloses
<1>10. ASSUME NEW p \in Peers, PeerAborts(p) PROVE Inv'
  BY <1>10, ResetInv DEF PeerAborts
<1>11. ASSUME NEW p \in Peers, HostRejects(p) PROVE Inv'
  BY <1>11, ResetInv DEF HostRejects
<1>12. ASSUME Cut PROVE Inv'
  <2>1. ender' \in Directions \union {"none"}
    BY <1>12 DEF Cut, Inv, TypeOK
  <2> QED
    BY <1>12, <2>1, DropInv DEF Cut, Drop
<1>13. ASSUME UNCHANGED vars PROVE Inv'
  BY <1>13
  DEF vars, pipe, Inv, TypeOK, PipeInv, Delivery, Forwarding, AtEof, Unwritten
<1> QED
  BY <1>1, <1>2, <1>3, <1>4, <1>5, <1>6, <1>7, <1>8, <1>9, <1>10, <1>11, <1>12, <1>13
  DEF Next, Relay, Over

\* The inductive invariant holds in every reachable state.
THEOREM InvHolds == Spec => []Inv
<1>1. Init => Inv
  BY InitInv
<1>2. Inv /\ [Next]_vars => Inv'
  BY NextInv
<1> QED
  BY <1>1, <1>2, PTL DEF Spec

----------------------------------------------------------------------------
(* The properties.                                                         *)

\* Whatever the sizes of the buffers and however much is sent, the variables
\* keep their types and no queue exceeds its window (lib.rs 195-260).
THEOREM TypeCorrect == Spec => []TypeOK
<1>1. Inv => TypeOK
  BY DEF Inv
<1> QED
  BY <1>1, InvHolds, PTL

\* It says that the places, put together, are what was sent,
LEMMA InvNothingLost == Inv => NothingLostWhileOpen
<1> SUFFICES ASSUME Inv, NEW d \in Directions, session = "open", peer[Dest(d)] # "reset"
    PROVE got[d] \o tx[d] \o Pending(d) \o rx[d] = Stream(sent[d])
  BY DEF NothingLostWhileOpen
<1> DEFINE g == got[d]
           x == tx[d]
           b == Pending(d)
           r == rx[d]
           l == logged[d]
           u == Unwritten(d)
<1>1. Typed(d) /\ Lengths(d) /\ PipeInv(d)
  BY TypedDirections DEF Inv
<1>2. /\ g \in Seq(Byte) /\ x \in Seq(Byte) /\ r \in Seq(Byte) /\ l \in Seq(Byte)
      /\ Len(g) \in Nat /\ Len(x) \in Nat /\ Len(r) \in Nat /\ Len(l) \in Nat /\ u \in Nat
      /\ sent[d] \in Nat
  BY <1>1 DEF Typed, Lengths
<1>3. DeliveryOf(g, x, l, counted[d], u, sent[d], MaxBytes[d])
  BY <1>1 DEF PipeInv, Delivery
<1>4. UnreadOf(r, l, sent[d]) /\ WholeOf(g, x, l, u)
  BY <1>1 DEF PipeInv, Forwarding
<1>5. b \in Seq(Byte) /\ Len(b) = u /\ Follows(b, Len(g) + Len(x))
  <2>1. pos[d] \in Nat /\ fill[d] \in Nat /\ u = fill[d] - pos[d] /\ pos[d] + u = fill[d]
    BY <1>1, SizeAssumption DEF Typed, Unwritten
  <2> QED
    <3>1. b = SubSeq(buf[d], pos[d] + 1, pos[d] + u)
      BY <2>1 DEF Pending
    <3>2. u <= fill[d] - pos[d]
      BY <2>1
    <3> HIDE DEF b, u
    <3> QED
      BY <1>2, <3>1, <3>2, PartFacts
<1> HIDE DEF g, x, b, r, l, u
<1>6. g \o x \in Seq(Byte) /\ Len(g \o x) = Len(g) + Len(x) /\ Follows(g \o x, 0)
  <2>1. Follows(g, 0) /\ Follows(x, 0 + Len(g)) /\ 0 \in Nat
    BY <1>2, <1>3 DEF DeliveryOf
  <2> QED
    BY <1>2, <2>1, FollowsConcat
<1>7. /\ g \o x \o b \in Seq(Byte) /\ Len(g \o x \o b) = Len(g) + Len(x) + u
      /\ Follows(g \o x \o b, 0)
  <2>1. Follows(b, 0 + Len(g \o x)) /\ 0 \in Nat
    BY <1>2, <1>5, <1>6
  <2>2. /\ (g \o x) \o b \in Seq(Byte) /\ Len((g \o x) \o b) = Len(g \o x) + Len(b)
        /\ Follows((g \o x) \o b, 0)
    BY <1>5, <1>6, <2>1, FollowsConcat
  <2> QED
    BY <1>5, <1>6, <2>2
<1>8. Len(g \o x \o b) = Len(l)
  <2>1. Len(g) + Len(x) + u <= Len(l) /\ Len(g) + Len(x) + u >= Len(l)
    BY <1>3, <1>4 DEF DeliveryOf, WholeOf
  <2>2. Len(g) + Len(x) + u = Len(l)
    BY <1>2, <2>1
  <2> QED
    BY <1>7, <2>2
<1>9. /\ g \o x \o b \o r \in Seq(Byte) /\ Len(g \o x \o b \o r) = sent[d]
      /\ Follows(g \o x \o b \o r, 0)
  <2>1. Follows(r, 0 + Len(g \o x \o b)) /\ 0 \in Nat /\ Len(l) + Len(r) = sent[d]
    BY <1>2, <1>4, <1>8 DEF UnreadOf
  <2>2. /\ (g \o x \o b) \o r \in Seq(Byte)
        /\ Len((g \o x \o b) \o r) = Len(g \o x \o b) + Len(r)
        /\ Follows((g \o x \o b) \o r, 0)
    BY <1>2, <1>7, <2>1, FollowsConcat
  <2> QED
    BY <1>8, <2>1, <2>2
<1>10. g \o x \o b \o r = Stream(sent[d])
  BY <1>9, FollowsIsStream
<1> QED
  BY <1>10 DEF g, x, b, r

\* While a session is open no byte of either direction is lost, repeated or
\* reordered, for every size of the buffers and every way the reads and the
\* writes are split (lib.rs 202-247).
THEOREM NothingLost == Spec => []NothingLostWhileOpen
  BY InvHolds, InvNothingLost, PTL

\* that what is delivered was logged,
LEMMA InvDelivered == Inv => DeliveredIsLogged
<1> SUFFICES ASSUME Inv, NEW d \in Directions
    PROVE /\ IsPrefix(got[d] \o tx[d], logged[d])
          /\ IsPrefix(logged[d], Stream(sent[d]))
          /\ counted[d] = Len(logged[d])
  BY DEF DeliveredIsLogged
<1> DEFINE g == got[d]
           x == tx[d]
           l == logged[d]
           n == sent[d]
           u == Unwritten(d)
<1>1. /\ g \in Seq(Byte) /\ x \in Seq(Byte) /\ l \in Seq(Byte)
      /\ Len(g) \in Nat /\ Len(x) \in Nat /\ Len(l) \in Nat /\ u \in Nat /\ n \in Nat
  BY TypedDirections DEF Inv, Typed, Lengths
<1>2. DeliveryOf(g, x, l, counted[d], u, n, MaxBytes[d])
  BY DEF Inv, PipeInv, Delivery
<1> HIDE DEF g, x, l, n, u
<1>3. g \o x \in Seq(Byte) /\ Len(g \o x) = Len(g) + Len(x) /\ Follows(g \o x, 0)
  <2>1. Follows(g, 0) /\ Follows(x, 0 + Len(g)) /\ 0 \in Nat
    BY <1>1, <1>2 DEF DeliveryOf
  <2> QED
    BY <1>1, <2>1, FollowsConcat
<1>4. Follows(l, 0) /\ counted[d] = Len(l) /\ Len(l) <= n
  BY <1>2 DEF DeliveryOf
<1>5. Len(g \o x) <= Len(l)
  <2>1. Len(g) + Len(x) + u <= Len(l)
    BY <1>2 DEF DeliveryOf
  <2> QED
    BY <1>1, <1>3, <2>1
<1>6. IsPrefix(g \o x, l)
  BY <1>1, <1>3, <1>4, <1>5, FollowsPrefix
<1>7. Stream(n) \in Seq(Nat) /\ Len(Stream(n)) = n /\ Follows(Stream(n), 0)
  BY <1>1 DEF Stream, Follows
<1>8. IsPrefix(l, Stream(n))
  <2>1. l \in Seq(Nat)
    <3>1. \A i \in 1..Len(l) : l[i] \in Nat
      BY <1>4 DEF Follows
    <3>2. l = [i \in 1..Len(l) |-> l[i]]
      BY <1>1
    <3>3. [i \in 1..Len(l) |-> l[i]] \in Seq(Nat)
      BY <1>1, <3>1
    <3> QED
      BY <3>2, <3>3
  <2> QED
    BY <1>4, <1>7, <2>1, FollowsPrefix
<1> QED
  BY <1>4, <1>6, <1>8 DEF g, x, l, n

\* Nothing is delivered that was not counted and logged before it, and the
\* log of a direction is a prefix of what was sent, through resets, early ends
\* and cuts too (lib.rs 210-220).
THEOREM Delivered == Spec => []DeliveredIsLogged
  BY InvHolds, InvDelivered, PTL

\* and that an end of file leaves nothing behind.
LEMMA InvEof == Inv => EofMeansForwarded
<1> SUFFICES ASSUME Inv, NEW d \in Directions, session = "ok", ender = d
    PROVE logged[d] = Stream(sent[d]) /\ Pending(d) = <<>>
  BY DEF EofMeansForwarded
<1>1. /\ logged[d] \in Seq(Byte)
      /\ pos[d] \in Nat /\ pos[d] = fill[d]
      /\ Follows(logged[d], 0) /\ Len(logged[d]) = sent[d]
  <2>1. Typed(d) /\ PipeInv(d)
    BY TypedDirections DEF Inv
  <2>2. logged[d] \in Seq(Byte) /\ pos[d] \in Nat
    BY <2>1, SizeAssumption DEF Typed
  <2>3. Len(logged[d]) = sent[d] /\ pos[d] = fill[d]
    BY <2>1 DEF PipeInv, AtEof
  <2>4. Follows(logged[d], 0)
    BY <2>1 DEF PipeInv, Delivery, DeliveryOf
  <2> QED
    BY <2>2, <2>3, <2>4
<1>2. logged[d] = Stream(Len(logged[d]))
  BY <1>1, FollowsIsStream
<1>3. SubSeq(buf[d], pos[d] + 1, pos[d]) = <<>>
  BY <1>1, SubSeqEmpty
<1> QED
  BY <1>1, <1>2, <1>3 DEF Pending

\* A session that ended because a peer had finished sending has logged and
\* handed over everything that peer sent (lib.rs 205-207, 249-256).
THEOREM EofForwarded == Spec => []EofMeansForwarded
  BY InvHolds, InvEof, PTL

----------------------------------------------------------------------------
(* Refinement.                                                             *)

\* The refinement: the first states.
LEMMA RelayInit == Init => Relayed!Init
  BY DEF Init, Relayed!Init, Stream

\* A stream with one more byte.
LEMMA StreamGrows ==
    ASSUME NEW n \in Nat
    PROVE  Stream(n + 1) = Append(Stream(n), n + 1)
<1>1. Stream(n) \in Seq(Nat) /\ Len(Stream(n)) = n /\ \A i \in 1..n : Stream(n)[i] = i
  BY DEF Stream
<1>2. /\ Stream(n + 1) \in Seq(Nat) /\ Len(Stream(n + 1)) = n + 1
      /\ \A i \in 1..n + 1 : Stream(n + 1)[i] = i
  BY DEF Stream
<1>3. /\ Append(Stream(n), n + 1) \in Seq(Nat) /\ Len(Append(Stream(n), n + 1)) = n + 1
      /\ \A i \in 1..n + 1 : Append(Stream(n), n + 1)[i] = i
  BY <1>1
<1> QED
  BY <1>2, <1>3

\* A peer sends one more byte.
LEMMA SendsIsSend ==
    ASSUME Inv, NEW d \in Directions, PeerSends(d)
    PROVE  Relayed!Send(d, sent[d] + 1) /\ sent[d] + 1 \in Byte
<1>1. sent \in [Directions -> Nat] /\ sent[d] < MaxBytes[d]
  BY DEF Inv, TypeOK, PeerSends
<1>2. sent[d] + 1 \in Byte
  <2>1. MaxBytes[d] \in Nat /\ 1..MaxBytes[d] \subseteq Byte
    BY ByteFacts
  <2>2. sent[d] + 1 \in 1..MaxBytes[d]
    BY <1>1, <2>1
  <2> QED
    BY <2>1, <2>2
<1>3. \A e \in Directions :
         Stream(sent'[e]) = IF e = d THEN Append(Stream(sent[e]), sent[d] + 1)
                            ELSE Stream(sent[e])
  BY <1>1, StreamGrows DEF PeerSends
<1>4. [e \in Directions |-> Stream(sent'[e])] =
         [[e \in Directions |-> Stream(sent[e])] EXCEPT ![d] = Append(@, sent[d] + 1)]
  BY <1>3
<1>5. got' = got
  BY DEF PeerSends
<1> QED
  BY <1>2, <1>4, <1>5 DEF Relayed!Send

\* A peer receives the byte that is next in the stream.
LEMMA ReceivesIsReceive ==
    ASSUME Inv, NEW d \in Directions, PeerReceives(d)
    PROVE  Relayed!Receive(d)
<1>1. /\ got \in [Directions -> Seq(Byte)] /\ tx \in [Directions -> Seq(Byte)]
      /\ sent \in [Directions -> Nat] /\ tx[d] # <<>>
      /\ got[d] \in Seq(Byte) /\ tx[d] \in Seq(Byte) /\ sent[d] \in Nat
      /\ Len(got[d]) \in Nat /\ Len(tx[d]) \in Nat /\ Len(logged[d]) \in Nat
      /\ Unwritten(d) \in Nat
  BY TypedDirections DEF Inv, TypeOK, PeerReceives, Lengths
<1>2. /\ Follows(tx[d], Len(got[d])) /\ Len(logged[d]) <= sent[d]
      /\ Len(got[d]) + Len(tx[d]) + Unwritten(d) <= Len(logged[d])
  BY DEF Inv, PipeInv, Delivery, DeliveryOf
<1>3. Head(tx[d]) = Len(got[d]) + 1
  BY <1>1, <1>2, FollowsTail
<1>4. Len(got[d]) + 1 <= sent[d]
  <2>1. logged \in [Directions -> Seq(Byte)] /\ Len(tx[d]) >= 1
    BY <1>1 DEF Inv, TypeOK
  <2> QED
    BY <1>1, <1>2, <2>1
<1>5. /\ Len(Stream(sent[d])) = sent[d]
      /\ Stream(sent[d])[Len(got[d]) + 1] = Len(got[d]) + 1
  <2> DEFINE n == sent[d]
             i == Len(got[d]) + 1
  <2>1. n \in Nat /\ i \in 1..n
    BY <1>1, <1>4
  <2> HIDE DEF n, i
  <2>2. Len(Stream(n)) = n /\ Stream(n)[i] = i
    BY <2>1 DEF Stream
  <2> QED
    BY <2>2 DEF n, i
<1>6. got' = [got EXCEPT ![d] = Append(@, Stream(sent[d])[Len(@) + 1])]
  BY <1>1, <1>3, <1>5 DEF PeerReceives
<1>7. Len(got[d]) < Len(Stream(sent[d])) /\ sent' = sent
  BY <1>1, <1>4, <1>5 DEF PeerReceives
<1> QED
  BY <1>6, <1>7 DEF Relayed!Receive

\* The refinement: every step.
LEMMA NextIsRelay ==
    ASSUME Inv, [Next]_vars
    PROVE  [Relayed!Next]_(Relayed!vars)
<1> DEFINE Goal == [Relayed!Next]_(Relayed!vars)
<1>1. ASSUME NEW d \in Directions, PeerSends(d) PROVE Goal
  BY <1>1, SendsIsSend DEF Relayed!Next
<1>2. ASSUME NEW d \in Directions, PeerReceives(d) PROVE Goal
  BY <1>2, ReceivesIsReceive DEF Relayed!Next
<1>3. ASSUME UNCHANGED <<sent, got>> PROVE Goal
  BY <1>3 DEF Relayed!vars
<1>4. ASSUME NEW d \in Directions, Relay(d) PROVE UNCHANGED <<sent, got>>
  BY <1>4 DEF Relay, ReadChunk, WriteSome, ReadEof, ReadFails, WriteFails, Ends, Drop
<1>5. ASSUME NEW p \in Peers,
             PeerShuts(p) \/ PeerCloses(p) \/ PeerAborts(p) \/ HostRejects(p)
      PROVE  UNCHANGED <<sent, got>>
  BY <1>5 DEF PeerShuts, PeerCloses, PeerAborts, HostRejects, Reset, pipe
<1>6. ASSUME Cut \/ Over \/ UNCHANGED vars PROVE UNCHANGED <<sent, got>>
  BY <1>6 DEF Cut, Over, Drop, vars, pipe
<1> HIDE DEF Goal
<1>7. Goal
  BY <1>1, <1>2, <1>3, <1>4, <1>5, <1>6 DEF Next
<1> QED
  BY <1>7 DEF Goal

\* A session implements a byte relay in each direction: whatever happens to
\* it, each peer sees a growing prefix of what the other one sent.
THEOREM IsRelay == Spec => IsByteRelay
<1>1. Init => Relayed!Init
  BY RelayInit
<1>2. Inv /\ [Next]_vars => [Relayed!Next]_(Relayed!vars)
  BY NextIsRelay
<1> QED
  BY <1>1, <1>2, InvHolds, PTL DEF Spec, IsByteRelay, Relayed!Spec
=============================================================================
