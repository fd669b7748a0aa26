---------------------------- MODULE PacketsProofs ----------------------------
(***************************************************************************)
(* Proofs about Packets, for every stream, every list of patterns of any   *)
(* length, every buffer and every preview: the type of the state, that no  *)
(* secret is left in a packet that is printed, and that the colours are    *)
(* around whole patterns and nowhere else.                                 *)
(*                                                                         *)
(* Both scans are computed from the end of the packet to its beginning, so *)
(* that what is shown of them is shown downwards, from the places behind.  *)
(* Texts with colour codes are described by where the bytes of the packet  *)
(* are in them.                                                            *)
(***************************************************************************)
EXTENDS Packets, Lemmas

----------------------------------------------------------------------------
(* The inductive invariant.                                                *)

\* No secret has a star in it, with which another one may have been masked.
StarFree == \A p \in ToSet(Secrets) : Star \notin ToSet(p)

InSecret(k) ==
    \E p \in ToSet(Secrets) : \E i \in DOMAIN chunk :
        Begins(chunk, i, p) /\ k \in i .. i + Len(p) - 1

\* What the patterns up to the one before turn have done to the packet.
RedactInv ==
    /\ at = "filter" => packet = chunk
    /\ at \in {"redact", "capture"} /\ StarFree =>
          /\ \A j \in 1 .. turn - 1 : ~contains_bytes(packet, Secrets[j])
          /\ \A k \in DOMAIN packet : packet[k] # chunk[k] => packet[k] = Star /\ InSecret(k)
    /\ at = "capture" => turn = Len(Secrets) + 1

NoCodes(text) == ToSet(text) \intersect Codes = {}

PrintInv ==
    /\ at = "capture" => printed = render(packet, profile.color)
    /\ ~profile.color => NoCodes(printed.text)
    /\ profile.format \notin {"raw", "compact"} => NoCodes(printed.text)
    /\ NoCodes(captured.text)

PacketsInv == TypeOK /\ RedactInv /\ PrintInv

----------------------------------------------------------------------------
(* Characters and patterns.                                                *)

\* Letters, control characters and codes are different characters.
LEMMA Alphabet ==
    /\ Letters \subseteq Bytes /\ Controls \subseteq Bytes /\ NotUtf8 \in Bytes
    /\ Escape \in Controls /\ Red \in Codes /\ Plain \in Codes /\ Star \in Letters
    /\ Red # Plain
    /\ Codes \intersect Bytes = {} /\ Controls \intersect Letters = {} /\ NotUtf8 \notin Letters
    /\ {Replacement, Dot, Ellipsis} \intersect (Letters \union Codes) = {}
    /\ \A c \in Bytes : c # NotUtf8 => c \in Text
    /\ Codes \subseteq Text /\ {Replacement, Dot, Ellipsis} \subseteq Text
    /\ \A c \in Codes : c = Red \/ c = Plain
BY DEF Bytes, Letters, Controls, Codes, Text, Escape, NotUtf8, Star, Red, Plain,
       Replacement, Dot, Ellipsis

\* What Redactor::new and resolve_output keep of a list of patterns.
Nonempty == Seq(Letters) \ {<<>>}

\* What is kept of a list of patterns is a list of patterns with letters.
LEMMA PatternsType ==
    ASSUME NEW list \in Seq(Seq(Letters))
    PROVE  Patterns(list) \in Seq(Nonempty)
<1> DEFINE E == Seq(Letters)
           set == E \ {<<>>}
<1>1. E \intersect set = Nonempty
    BY DEF Nonempty
<1>2. list \in Seq(E)
    OBVIOUS
<1> HIDE DEF E, set
<1>3. Kept(list, set) \in Seq(E \intersect set)
    BY <1>2, KeptChosen
<1> QED
    BY <1>1, <1>3 DEF Patterns, E, set

\* A pattern begins where each of its letters is in its place.
LEMMA BeginsAt ==
    ASSUME NEW E, NEW bytes \in Seq(E), NEW i \in Nat \ {0}, NEW p \in Nonempty
    PROVE  /\ Len(p) \in Nat \ {0}
           /\ Begins(bytes, i, p) <=>
                 /\ i + Len(p) - 1 =< Len(bytes)
                 /\ \A k \in 1 .. Len(p) : bytes[i + k - 1] = p[k]
<1> DEFINE m == Len(p)
           s == SubSeq(bytes, i, i + m - 1)
<1>1. m \in Nat \ {0} /\ p = [k \in 1 .. m |-> p[k]]
    BY DEF Nonempty
<1>2. ASSUME i + m - 1 =< Len(bytes)
      PROVE  s = [k \in 1 .. m |-> bytes[i + k - 1]]
    BY <1>1, <1>2
<1> HIDE DEF s, m
<1>3. ASSUME i + m - 1 =< Len(bytes), s = p
      PROVE  \A k \in 1 .. m : bytes[i + k - 1] = p[k]
    BY <1>1, <1>2, <1>3
<1>4. ASSUME i + m - 1 =< Len(bytes), \A k \in 1 .. m : bytes[i + k - 1] = p[k]
      PROVE  s = p
    BY <1>1, <1>2, <1>4
<1>5. Begins(bytes, i, p) <=> i + m - 1 =< Len(bytes) /\ s = p
    BY DEF Begins, s, m
<1> QED
    BY <1>1, <1>3, <1>4, <1>5 DEF m

----------------------------------------------------------------------------
(* The redactor's scan.                                                    *)

\* The function that Hits evaluates.
Scans(from, bytes, p) ==
    from = [i \in DOMAIN bytes \union {Len(bytes) + 1} |->
               IF i + Len(p) - 1 > Len(bytes) THEN {}
               ELSE IF Begins(bytes, i, p) THEN {i} \union from[i + Len(p)] ELSE from[i + 1]]

\* That function exists: the value at a place depends on those behind it.
LEMMA HitsComputed ==
    ASSUME NEW bytes \in Seq(Bytes), NEW p \in Nonempty
    PROVE  \E from : Scans(from, bytes, p) /\ Hits(bytes, p) = from[1]
<1> DEFINE n == Len(bytes)
           m == Len(p)
           D == 1 .. n + 1
           V == SUBSET D
           at0 == {}
           next(f, i) == IF i + m - 1 > n THEN {}
                         ELSE IF Begins(bytes, i, p) THEN {i} \union f[i + m] ELSE f[i + 1]
           F == [x \in [D -> V] \X D |-> next(x[1], x[2])]
<1>1. n \in Nat /\ m \in Nat \ {0} /\ DOMAIN bytes \union {n + 1} = D
    BY DEF Nonempty
<1>2. ASSUME NEW f \in [D -> V], NEW i \in D
      PROVE  next(f, i) \in V
    <2>1. CASE i + m - 1 > n
        BY <2>1
    <2>2. CASE i + m - 1 =< n
        <3>1. i + m \in D /\ i + 1 \in D
            BY <1>1, <2>2
        <3> QED
            BY <2>2, <3>1
    <2> QED
        BY <1>1, <2>1, <2>2
<1>3. ASSUME NEW f \in [D -> V], NEW g \in [D -> V], NEW i \in D,
             \A j \in D : i < j => f[j] = g[j]
      PROVE  next(f, i) = next(g, i)
    <2>1. CASE i + m - 1 > n
        BY <2>1
    <2>2. CASE i + m - 1 =< n
        <3>1. i + m \in D /\ i + 1 \in D /\ i < i + m /\ i < i + 1
            BY <1>1, <2>2
        <3>2. f[i + m] = g[i + m] /\ f[i + 1] = g[i + 1]
            BY <1>3, <3>1
        <3> QED
            BY <2>2, <3>2
    <2> QED
        BY <1>1, <2>1, <2>2
<1> HIDE DEF next
<1>4. F \in [[D -> V] \X D -> V] /\ \A f \in [D -> V] : \A i \in D : F[<<f, i>>] = next(f, i)
    BY <1>2
<1>5. at0 \in V
    OBVIOUS
<1>6. \A f, g \in [D -> V] : \A i \in D :
         (\A j \in D : i < j => f[j] = g[j]) => F[<<f, i>>] = F[<<g, i>>]
    BY <1>3, <1>4
<1>7. \E f \in [D -> V] : Descends(f, F, D)
    <2>1. D = 1 .. n + 1
        OBVIOUS
    <2> HIDE DEF F, V, D, at0, n
    <2> QED
        BY <1>1, <1>4, <1>5, <1>6, <2>1, DescentExists
<1>8. PICK f \in [D -> V] : \A i \in D : f[i] = next(f, i)
    BY <1>4, <1>7 DEF Descends
<1>9. Scans(f, bytes, p)
    <2>1. f = [i \in D |-> next(f, i)]
        <3>1. f = [i \in D |-> f[i]]
            OBVIOUS
        <3> HIDE DEF D, V
        <3> QED
            BY <1>8, <3>1
    <2> QED
        BY <1>1, <2>1 DEF Scans, next
<1> DEFINE k == CHOOSE from : Scans(from, bytes, p)
<1>10. Scans(k, bytes, p)
    BY <1>9
<1>11. Hits(bytes, p) = k[1]
    BY DEF Hits, Scans
<1> QED
    BY <1>10, <1>11

\* A hit is a place where the pattern begins, and each such place is inside a
\* match that begins at a hit.
LEMMA HitsFound ==
    ASSUME NEW bytes \in Seq(Bytes), NEW p \in Nonempty
    PROVE  /\ \A h \in Hits(bytes, p) : h \in DOMAIN bytes /\ Begins(bytes, h, p)
           /\ \A i \in DOMAIN bytes : Begins(bytes, i, p) =>
                 \E h \in Hits(bytes, p) : i \in h .. h + Len(p) - 1
<1> DEFINE n == Len(bytes)
           m == Len(p)
           D == 1 .. n + 1
<1>1. /\ n \in Nat /\ m \in Nat \ {0} /\ DOMAIN bytes = 1 .. n
      /\ DOMAIN bytes \union {n + 1} = D
    BY DEF Nonempty
<1>2. PICK from : Scans(from, bytes, p) /\ Hits(bytes, p) = from[1]
    BY HitsComputed
<1>3. \A i \in D : from[i] = IF i + m - 1 > n THEN {}
                             ELSE IF Begins(bytes, i, p) THEN {i} \union from[i + m] ELSE from[i + 1]
    BY <1>1, <1>2 DEF Scans
<1> DEFINE Sound(i) == \A h \in from[i] : h \in i .. n /\ Begins(bytes, h, p)
           Full(i) == \A j \in i .. n : Begins(bytes, j, p) => \E h \in from[i] : j \in h .. h + m - 1
           S == {i \in D : Sound(i) /\ Full(i)}
<1>4. \A j \in Nat : Begins(bytes, j, p) => j + m - 1 =< n
    BY DEF Begins
<1> HIDE DEF n, m
<1>5. ASSUME NEW i \in D, \A j \in D : i < j => j \in S
      PROVE  i \in S
    <2>1. CASE i + m - 1 > n
        <3>1. from[i] = {}
            BY <1>3, <2>1
        <3>2. \A j \in i .. n : ~Begins(bytes, j, p)
            BY <1>1, <1>4, <2>1
        <3> QED
            BY <3>1, <3>2
    <2>2. CASE i + m - 1 =< n /\ Begins(bytes, i, p)
        <3>1. i + m \in D /\ i < i + m
            BY <1>1, <2>2
        <3>2. from[i] = {i} \union from[i + m]
            <4>1. ~(i + m - 1 > n)
                BY <1>1, <2>2
            <4> QED
                BY <1>3, <2>2, <4>1
        <3>3. Sound(i + m) /\ Full(i + m)
            BY <1>5, <3>1
        <3>4. Sound(i)
            <4>1. \A h \in from[i + m] : h \in i .. n /\ Begins(bytes, h, p)
                BY <1>1, <3>3
            <4>2. i \in i .. n
                BY <1>1, <2>2
            <4> QED
                BY <2>2, <3>2, <4>1, <4>2
        <3>5. ASSUME NEW j \in i .. n, Begins(bytes, j, p)
              PROVE  \E h \in from[i] : j \in h .. h + m - 1
            <4>1. CASE j < i + m
                <5>1. j \in i .. i + m - 1
                    BY <1>1, <4>1
                <5> QED
                    BY <3>2, <5>1
            <4>2. CASE j >= i + m
                <5>1. j \in i + m .. n
                    BY <1>1, <4>2
                <5>2. PICK h \in from[i + m] : j \in h .. h + m - 1
                    BY <3>3, <3>5, <5>1
                <5> QED
                    BY <3>2, <5>2
            <4> QED
                BY <1>1, <4>1, <4>2
        <3> QED
            BY <3>4, <3>5
    <2>3. CASE i + m - 1 =< n /\ ~Begins(bytes, i, p)
        <3>1. i + 1 \in D /\ i < i + 1
            BY <1>1, <2>3
        <3>2. from[i] = from[i + 1]
            <4>1. ~(i + m - 1 > n)
                BY <1>1, <2>3
            <4> QED
                BY <1>3, <2>3, <4>1
        <3>3. Sound(i + 1) /\ Full(i + 1)
            BY <1>5, <3>1
        <3>4. Sound(i)
            BY <1>1, <3>2, <3>3
        <3>5. ASSUME NEW j \in i .. n, Begins(bytes, j, p)
              PROVE  \E h \in from[i] : j \in h .. h + m - 1
            <4>1. j \in i + 1 .. n
                BY <1>1, <2>3, <3>5
            <4> QED
                BY <3>2, <3>3, <3>5, <4>1
        <3> QED
            BY <3>4, <3>5
    <2> QED
        BY <1>1, <2>1, <2>2, <2>3
<1> HIDE DEF S
<1>6. 1 \in S
    <2>1. D \subseteq S
        BY <1>1, <1>5, Downward
    <2> QED
        BY <1>1, <2>1
<1> QED
    BY <1>1, <1>2, <1>6 DEF S, m

\* A mask is a star in each place of a match that begins at a hit.
LEMMA MaskedFacts ==
    ASSUME NEW bytes \in Seq(Bytes), NEW p \in Nonempty
    PROVE  /\ Masked(bytes, p) \in Seq(Bytes)
           /\ Len(Masked(bytes, p)) = Len(bytes)
           /\ \A k \in 1 .. Len(bytes) :
                 Masked(bytes, p)[k] # bytes[k] =>
                    /\ Masked(bytes, p)[k] = Star
                    /\ \E i \in 1 .. Len(bytes) : Begins(bytes, i, p) /\ k \in i .. i + Len(p) - 1
<1> DEFINE x == Masked(bytes, p)
           n == Len(bytes)
<1>1. /\ \A k \in 1 .. n : x[k] = IF \E i \in Hits(bytes, p) : k \in i .. i + Len(p) - 1
                                  THEN Star ELSE bytes[k]
      /\ DOMAIN x = 1 .. n /\ n \in Nat
      /\ x = [k \in 1 .. n |-> x[k]]
    BY DEF Masked
<1>2. \A k \in 1 .. n : x[k] \in Bytes
    BY <1>1, Alphabet
<1> HIDE DEF x
<1>3. x \in Seq(Bytes) /\ Len(x) = n
    BY <1>1, <1>2
<1>4. \A h \in Hits(bytes, p) : h \in 1 .. n /\ Begins(bytes, h, p)
    BY HitsFound
<1> QED
    BY <1>1, <1>3, <1>4 DEF x
\* A pattern that begins in a text whose changed places hold none of its
\* letters was there before.
LEMMA BeginsBefore ==
    ASSUME NEW E, NEW x \in Seq(E), NEW G, NEW y \in Seq(G), Len(y) = Len(x),
           NEW p \in Nonempty,
           \A k \in 1 .. Len(x) : y[k] = x[k] \/ y[k] \notin ToSet(p),
           NEW i \in Nat \ {0}, Begins(y, i, p)
    PROVE  i \in DOMAIN x /\ Begins(x, i, p)
<1>1. /\ Len(p) \in Nat \ {0} /\ i + Len(p) - 1 =< Len(x)
      /\ \A k \in 1 .. Len(p) : y[i + k - 1] = p[k]
    BY BeginsAt
<1>2. ASSUME NEW k \in 1 .. Len(p)
      PROVE  x[i + k - 1] = p[k]
    <2>1. p[k] \in ToSet(p)
        BY DEF ToSet, Nonempty
    <2>2. i + k - 1 \in 1 .. Len(x)
        BY <1>1
    <2> QED
        BY <1>1, <2>1, <2>2
<1>3. Begins(x, i, p)
    BY <1>1, <1>2, BeginsAt
<1> QED
    BY <1>1, <1>3

\* After its turn a pattern without a star is nowhere in the packet.
LEMMA MaskedHides ==
    ASSUME NEW bytes \in Seq(Bytes), NEW p \in Nonempty, Star \notin ToSet(p)
    PROVE  ~contains_bytes(Masked(bytes, p), p)
<1> DEFINE x == Masked(bytes, p)
<1>1. /\ x \in Seq(Bytes) /\ Len(x) = Len(bytes)
      /\ \A k \in 1 .. Len(bytes) : x[k] # bytes[k] => x[k] = Star
    BY MaskedFacts
<1>2. \A k \in DOMAIN bytes : (\E i \in Hits(bytes, p) : k \in i .. i + Len(p) - 1) => x[k] = Star
    BY DEF Masked
<1> HIDE DEF x
<1>3. p # <<>>
    BY DEF Nonempty
<1> SUFFICES ASSUME NEW i \in DOMAIN x, Begins(x, i, p) PROVE FALSE
    BY <1>3 DEF contains_bytes, x
<1>4. i \in Nat \ {0} /\ i \in DOMAIN bytes
    BY <1>1
<1>5. Begins(bytes, i, p)
    BY <1>1, <1>4, BeginsBefore
<1>6. \E h \in Hits(bytes, p) : i \in h .. h + Len(p) - 1
    BY <1>4, <1>5, HitsFound
<1>7. x[i] = Star
    BY <1>2, <1>4, <1>6
<1>8. Len(p) \in Nat \ {0} /\ x[i + 1 - 1] = p[1]
    BY <1>1, <1>4, BeginsAt
<1>9. p[1] \in ToSet(p)
    BY <1>8 DEF ToSet, Nonempty
<1> QED
    BY <1>4, <1>7, <1>8, <1>9
----------------------------------------------------------------------------
(* The highlighter's scan.                                                 *)

Raw == Bytes \union Codes

\* The patterns, by their places in the list, that begin at i.
Starting(bytes, patterns, i) == {k \in DOMAIN patterns : Begins(bytes, i, patterns[k])}
Chosen(bytes, patterns, i) == patterns[Min(Starting(bytes, patterns, i))]

\* The function that Highlighted evaluates.
Colours(from, bytes, patterns) ==
    from = [i \in DOMAIN bytes \union {Len(bytes) + 1} |->
               IF i > Len(bytes) THEN <<>>
               ELSE IF Starting(bytes, patterns, i) = {} THEN <<bytes[i]>> \o from[i + 1]
               ELSE Mark(Chosen(bytes, patterns, i))
                        \o from[i + Len(Chosen(bytes, patterns, i))]]

\* What is marked is one of the patterns, and begins there.
LEMMA ChosenBegins ==
    ASSUME NEW bytes \in Seq(Bytes), NEW patterns \in Seq(Nonempty), NEW i \in DOMAIN bytes,
           Starting(bytes, patterns, i) # {}
    PROVE  /\ Chosen(bytes, patterns, i) \in Nonempty
           /\ Chosen(bytes, patterns, i) \in ToSet(patterns)
           /\ Begins(bytes, i, Chosen(bytes, patterns, i))
           /\ Len(Chosen(bytes, patterns, i)) \in Nat \ {0}
           /\ i + Len(Chosen(bytes, patterns, i)) \in 1 .. Len(bytes) + 1
<1> DEFINE hits == Starting(bytes, patterns, i)
           p == patterns[Min(hits)]
<1>1. hits \subseteq Nat /\ hits # {} /\ \A k \in hits : k \in DOMAIN patterns /\ Begins(bytes, i, patterns[k])
    BY DEF Starting
<1> HIDE DEF hits
<1>2. Min(hits) \in hits
    BY <1>1, MinIsMember
<1>3. p \in Nonempty /\ p \in ToSet(patterns) /\ Begins(bytes, i, p)
    <2> DEFINE k == Min(hits)
    <2>1. k \in DOMAIN patterns /\ Begins(bytes, i, patterns[k])
        BY <1>1, <1>2
    <2> HIDE DEF k
    <2>2. patterns[k] \in Nonempty /\ patterns[k] \in ToSet(patterns)
        BY <2>1 DEF ToSet
    <2> QED
        BY <2>1, <2>2 DEF k
<1> HIDE DEF p
<1>4. Len(p) \in Nat \ {0} /\ i + Len(p) - 1 =< Len(bytes)
    BY <1>3, BeginsAt
<1>5. i \in 1 .. Len(bytes) /\ Len(bytes) \in Nat
    OBVIOUS
<1>6. i + Len(p) \in 1 .. Len(bytes) + 1
    BY <1>4, <1>5
<1> QED
    BY <1>3, <1>4, <1>6 DEF Chosen, p, hits

\* A mark, place by place.
LEMMA MarkIs ==
    ASSUME NEW q \in Nonempty
    PROVE  /\ Mark(q) \in Seq(Raw) /\ Len(q) \in Nat \ {0} /\ Len(Mark(q)) = Len(q) + 4
           /\ Mark(q)[1] = Escape /\ Mark(q)[2] = Red
           /\ \A k \in 1 .. Len(q) : Mark(q)[k + 2] = q[k]
           /\ Mark(q)[Len(q) + 3] = Escape /\ Mark(q)[Len(q) + 4] = Plain
<1>1. /\ q \in Seq(Raw) /\ Escape \in Raw /\ Red \in Raw /\ Plain \in Raw
      /\ Len(q) \in Nat \ {0}
    BY Alphabet DEF Nonempty, Raw
<1> QED
    BY <1>1 DEF Mark

\* That function exists.
LEMMA HighlightedComputed ==
    ASSUME NEW bytes \in Seq(Bytes), NEW patterns \in Seq(Nonempty)
    PROVE  \E from : Colours(from, bytes, patterns) /\ Highlighted(bytes, patterns) = from[1]
<1> DEFINE n == Len(bytes)
           D == 1 .. n + 1
           V == Seq(Raw)
           empty == <<>>
           c(i) == Chosen(bytes, patterns, i)
           hits(i) == Starting(bytes, patterns, i)
           next(f, i) == IF i > n THEN <<>>
                         ELSE IF hits(i) = {} THEN <<bytes[i]>> \o f[i + 1]
                         ELSE Mark(c(i)) \o f[i + Len(c(i))]
           F == [x \in [D -> V] \X D |-> next(x[1], x[2])]
<1>1. n \in Nat /\ DOMAIN bytes \union {n + 1} = D /\ DOMAIN bytes = 1 .. n
    OBVIOUS
<1>2. ASSUME NEW i \in D, hits(i) # {}, i =< n
      PROVE  Mark(c(i)) \in V /\ i + Len(c(i)) \in D /\ i < i + Len(c(i))
    <2>1. i \in DOMAIN bytes
        BY <1>1, <1>2
    <2>2. c(i) \in Nonempty /\ Len(c(i)) \in Nat \ {0} /\ i + Len(c(i)) \in D
        BY <1>2, <2>1, ChosenBegins
    <2>3. Mark(c(i)) \in V
        BY <2>2, MarkIs
    <2> HIDE DEF c
    <2> QED
        BY <2>2, <2>3
<1> HIDE DEF c, hits
<1>3. ASSUME NEW f \in [D -> V], NEW i \in D
      PROVE  next(f, i) \in V
    <2>1. CASE i > n
        BY <2>1
    <2>2. CASE i =< n /\ hits(i) = {}
        <3>1. ~(i > n) /\ i + 1 \in D /\ i \in 1 .. n
            BY <1>1, <2>2
        <3>2. <<bytes[i]>> \in V
            BY <1>1, <3>1 DEF Raw
        <3> QED
            BY <2>2, <3>1, <3>2
    <2>3. CASE i =< n /\ hits(i) # {}
        <3>1. Mark(c(i)) \in V /\ i + Len(c(i)) \in D /\ ~(i > n)
            BY <1>1, <1>2, <2>3
        <3> QED
            BY <2>3, <3>1
    <2> QED
        BY <1>1, <2>1, <2>2, <2>3
<1>4. ASSUME NEW f \in [D -> V], NEW g \in [D -> V], NEW i \in D,
             \A j \in D : i < j => f[j] = g[j]
      PROVE  next(f, i) = next(g, i)
    <2>1. CASE i > n
        BY <2>1
    <2>2. CASE i =< n /\ hits(i) = {}
        <3>1. ~(i > n) /\ i + 1 \in D /\ i < i + 1
            BY <1>1, <2>2
        <3>2. f[i + 1] = g[i + 1]
            BY <1>4, <3>1
        <3> QED
            BY <2>2, <3>1, <3>2
    <2>3. CASE i =< n /\ hits(i) # {}
        <3>1. i + Len(c(i)) \in D /\ i < i + Len(c(i)) /\ ~(i > n)
            BY <1>1, <1>2, <2>3
        <3>2. f[i + Len(c(i))] = g[i + Len(c(i))]
            BY <1>4, <3>1
        <3> QED
            BY <2>3, <3>1, <3>2
    <2> QED
        BY <1>1, <2>1, <2>2, <2>3
<1> HIDE DEF next
<1>5. F \in [[D -> V] \X D -> V] /\ \A f \in [D -> V] : \A i \in D : F[<<f, i>>] = next(f, i)
    BY <1>3
<1>6. empty \in V
    OBVIOUS
<1>7. \A f, g \in [D -> V] : \A i \in D :
         (\A j \in D : i < j => f[j] = g[j]) => F[<<f, i>>] = F[<<g, i>>]
    BY <1>4, <1>5
<1>8. \E f \in [D -> V] : Descends(f, F, D)
    <2>1. D = 1 .. n + 1
        OBVIOUS
    <2> HIDE DEF F, V, D, empty, n
    <2> QED
        BY <1>1, <1>5, <1>6, <1>7, <2>1, DescentExists
<1>9. PICK f \in [D -> V] : \A i \in D : f[i] = next(f, i)
    BY <1>5, <1>8 DEF Descends
<1>10. Colours(f, bytes, patterns)
    <2>1. f = [i \in D |-> next(f, i)]
        <3>1. f = [i \in D |-> f[i]]
            OBVIOUS
        <3> HIDE DEF D, V
        <3> QED
            BY <1>9, <3>1
    <2> QED
        BY <1>1, <2>1 DEF Colours, next, c, hits
<1> DEFINE k == CHOOSE from : Colours(from, bytes, patterns)
<1>11. Colours(k, bytes, patterns)
    BY <1>10
<1>12. Highlighted(bytes, patterns) = k[1]
    BY DEF Highlighted, Colours, Chosen, Starting
<1> QED
    BY <1>11, <1>12
----------------------------------------------------------------------------
(* What the scan makes of the bytes from a place on.                       *)

\* A mark of the pattern q, with the code red at j.
Around(text, j, q) ==
    /\ j > 1 /\ j + Len(q) + 2 =< Len(text)
    /\ text[j - 1] = Escape /\ text[j + Len(q) + 1] = Escape /\ text[j + Len(q) + 2] = Plain
    /\ \A k \in 1 .. Len(q) : text[j + k] = q[k]

Within(text, i) ==
    \E j \in DOMAIN text : j < i /\ text[j] = Red /\ \A k \in j .. i : text[k] # Plain

\* In the text, byte k of the packet is at f[k], for the bytes from i on.
Coloured(text, f, i, bytes, patterns) ==
    /\ text \in Seq(Raw)
    /\ f \in [i .. Len(bytes) -> DOMAIN text]
    /\ \A k, l \in i .. Len(bytes) : k < l => f[k] < f[l]
    /\ \A k \in i .. Len(bytes) : text[f[k]] = bytes[k]
    /\ Places(text) = {f[k] : k \in i .. Len(bytes)}
    /\ text # <<>> => text[1] \notin Codes
    /\ \A j \in DOMAIN text : text[j] \in Codes => j > 1 /\ text[j - 1] = Escape
    /\ \A j \in DOMAIN text : text[j] = Red => \E q \in ToSet(patterns) : Around(text, j, q)
    /\ \A k \in i .. Len(bytes) :
          Within(text, f[k]) \/ \A q \in ToSet(patterns) : ~Begins(bytes, k, q)

\* Which places are not of a code.
LEMMA PlacesAre ==
    ASSUME NEW E, NEW text \in Seq(E), NEW x
    PROVE  x \in Places(text) <=>
              /\ x \in 1 .. Len(text) /\ text[x] \notin Codes
              /\ x + 1 =< Len(text) => text[x + 1] \notin Codes
<1>1. DOMAIN text = 1 .. Len(text) /\ Len(text) \in Nat
    OBVIOUS
<1> DEFINE coded == {k \in DOMAIN text : text[k] \in Codes}
<1>2. Places(text) = DOMAIN text \ (coded \union {k - 1 : k \in coded})
    BY DEF Places
<1>3. ASSUME x \in 1 .. Len(text)
      PROVE  x \in {k - 1 : k \in coded} <=> x + 1 =< Len(text) /\ text[x + 1] \in Codes
    <2>1. ASSUME NEW k \in coded, x = k - 1
          PROVE  x + 1 =< Len(text) /\ text[x + 1] \in Codes
        <3>1. k = x + 1
            BY <1>1, <2>1
        <3> QED
            BY <1>1, <2>1, <3>1
    <2>2. ASSUME x + 1 =< Len(text), text[x + 1] \in Codes
          PROVE  \E k \in coded : x = k - 1
        <3>1. x + 1 \in coded /\ x = (x + 1) - 1
            BY <1>1, <1>3, <2>2
        <3> QED
            BY <3>1
    <2> QED
        BY <2>1, <2>2
<1> QED
    BY <1>1, <1>2, <1>3

\* A text behind another one.
Behind(u, s, t) ==
    /\ u \in Seq(Raw) /\ Len(s) \in Nat /\ Len(t) \in Nat /\ Len(u) = Len(s) + Len(t)
    /\ \A k \in 1 .. Len(s) : u[k] = s[k]
    /\ \A k \in 1 .. Len(t) : u[Len(s) + k] = t[k]

\* A concatenation.
LEMMA JoinedIsBehind ==
    ASSUME NEW s \in Seq(Raw), NEW t \in Seq(Raw)
    PROVE  Behind(s \o t, s, t)
BY DEF Behind

\* The places of two texts, one behind the other.
LEMMA PlacesJoined ==
    ASSUME NEW s \in Seq(Raw), NEW t \in Seq(Raw), t # <<>> => t[1] \notin Codes,
           NEW u, Behind(u, s, t)
    PROVE  Places(u) = Places(s) \union {Len(s) + x : x \in Places(t)}
<1> DEFINE d == Len(s)
<1>1. /\ u \in Seq(Raw) /\ d \in Nat /\ Len(t) \in Nat /\ Len(u) = d + Len(t)
      /\ \A k \in 1 .. d : u[k] = s[k]
      /\ \A k \in 1 .. Len(t) : u[d + k] = t[k]
    BY DEF Behind
<1> DEFINE In(v, x) == /\ x \in 1 .. Len(v) /\ v[x] \notin Codes
                       /\ x + 1 =< Len(v) => v[x + 1] \notin Codes
<1>2. /\ \A x : x \in Places(u) <=> In(u, x)
      /\ \A x : x \in Places(s) <=> In(s, x)
      /\ \A x : x \in Places(t) <=> In(t, x)
    <2> HIDE DEF In
    <2> QED
        BY <1>1, PlacesAre DEF In
<1> HIDE DEF d
<1>3. ASSUME NEW x \in 1 .. d
      PROVE  In(u, x) <=> In(s, x)
    <2>1. u[x] = s[x] /\ x \in 1 .. Len(u) /\ x \in 1 .. Len(s)
        BY <1>1 DEF d
    <2>2. CASE x < d
        <3>1. x + 1 \in 1 .. d
            BY <1>1, <2>2
        <3>2. u[x + 1] = s[x + 1] /\ x + 1 =< Len(u) /\ x + 1 =< Len(s)
            BY <1>1, <3>1 DEF d
        <3> QED
            BY <2>1, <3>2
    <2>3. CASE x = d
        <3>1. ~(x + 1 =< Len(s))
            BY <1>1, <2>3 DEF d
        <3>2. ASSUME x + 1 =< Len(u) PROVE u[x + 1] \notin Codes
            <4>1. 1 \in 1 .. Len(t) /\ t # <<>>
                BY <1>1, <2>3, <3>2
            <4> QED
                BY <1>1, <2>3, <4>1
        <3> QED
            BY <2>1, <3>1, <3>2
    <2> QED
        BY <1>1, <2>2, <2>3
<1>4. ASSUME NEW x \in 1 .. Len(t)
      PROVE  In(u, d + x) <=> In(t, x)
    <2>1. u[d + x] = t[x] /\ d + x \in 1 .. Len(u)
        BY <1>1
    <2>2. d + x + 1 =< Len(u) <=> x + 1 =< Len(t)
        BY <1>1
    <2>3. ASSUME x + 1 =< Len(t)
          PROVE  u[d + x + 1] = t[x + 1]
        <3>1. x + 1 \in 1 .. Len(t) /\ d + (x + 1) = d + x + 1
            BY <1>1, <2>3
        <3>2. u[d + (x + 1)] = t[x + 1]
            BY <1>1, <3>1
        <3> QED
            BY <3>1, <3>2
    <2> QED
        BY <2>1, <2>2, <2>3
<1>5. ASSUME NEW x \in Places(u)
      PROVE  x \in Places(s) \union {d + y : y \in Places(t)}
    <2>1. In(u, x) /\ x \in 1 .. Len(u)
        BY <1>2
    <2> HIDE DEF In
    <2>2. CASE x =< d
        <3>1. x \in 1 .. d
            BY <1>1, <2>1, <2>2
        <3> QED
            BY <1>2, <1>3, <2>1, <3>1
    <2>3. CASE x > d
        <3> DEFINE y == x - d
        <3>1. y \in 1 .. Len(t) /\ x = d + y
            BY <1>1, <2>1, <2>3
        <3> HIDE DEF y
        <3>2. y \in Places(t)
            BY <1>2, <1>4, <2>1, <3>1
        <3> QED
            BY <3>1, <3>2
    <2> QED
        BY <1>1, <2>1, <2>2, <2>3
<1>6. ASSUME NEW x \in Places(s)
      PROVE  x \in Places(u)
    <2>1. In(s, x) /\ x \in 1 .. d
        BY <1>2 DEF d
    <2> HIDE DEF In
    <2> QED
        BY <1>2, <1>3, <2>1
<1>7. ASSUME NEW y \in Places(t)
      PROVE  d + y \in Places(u)
    <2>1. In(t, y) /\ y \in 1 .. Len(t)
        BY <1>2
    <2> HIDE DEF In
    <2> QED
        BY <1>2, <1>4, <2>1
<1> QED
    BY <1>5, <1>6, <1>7 DEF d

\* What is around or within stays so behind another text.
LEMMA AroundBehind ==
    ASSUME NEW s, NEW t, NEW u, Behind(u, s, t), NEW j \in 1 .. Len(t), NEW q,
           Len(q) \in Nat, Around(t, j, q)
    PROVE  Around(u, Len(s) + j, q)
<1> DEFINE d == Len(s)
           m == Len(q)
<1>1. /\ d \in Nat /\ Len(t) \in Nat /\ Len(u) = d + Len(t) /\ m \in Nat
      /\ \A k \in 1 .. Len(t) : u[d + k] = t[k]
    BY DEF Behind
<1>2. /\ j > 1 /\ j + m + 2 =< Len(t)
      /\ t[j - 1] = Escape /\ t[j + m + 1] = Escape /\ t[j + m + 2] = Plain
      /\ \A k \in 1 .. m : t[j + k] = q[k]
    BY DEF Around
<1> HIDE DEF d, m
<1>3. d + j > 1 /\ d + j + m + 2 =< Len(u)
    BY <1>1, <1>2
<1>4. u[d + (j - 1)] = Escape /\ u[d + (j + m + 1)] = Escape /\ u[d + (j + m + 2)] = Plain
    <2>1. j - 1 \in 1 .. Len(t) /\ j + m + 1 \in 1 .. Len(t) /\ j + m + 2 \in 1 .. Len(t)
        BY <1>1, <1>2
    <2> QED
        BY <1>1, <1>2, <2>1
<1>5. ASSUME NEW k \in 1 .. m
      PROVE  u[d + j + k] = q[k]
    <2>1. j + k \in 1 .. Len(t) /\ d + (j + k) = d + j + k
        BY <1>1, <1>2
    <2>2. u[d + (j + k)] = t[j + k]
        BY <1>1, <2>1
    <2> QED
        BY <1>2, <2>1, <2>2
<1>6. /\ d + (j - 1) = d + j - 1 /\ d + (j + m + 1) = d + j + m + 1
      /\ d + (j + m + 2) = d + j + m + 2
    BY <1>1
<1> QED
    BY <1>3, <1>4, <1>5, <1>6 DEF Around, d, m

\* What is inside a mark stays so behind another text.
LEMMA WithinBehind ==
    ASSUME NEW s, NEW t \in Seq(Raw), NEW u, Behind(u, s, t), NEW x \in 1 .. Len(t), Within(t, x)
    PROVE  Within(u, Len(s) + x)
<1> DEFINE d == Len(s)
<1>1. /\ d \in Nat /\ Len(t) \in Nat /\ Len(u) = d + Len(t) /\ u \in Seq(Raw)
      /\ \A k \in 1 .. Len(t) : u[d + k] = t[k]
    BY DEF Behind
<1>2. PICK j \in 1 .. Len(t) : j < x /\ t[j] = Red /\ \A k \in j .. x : t[k] # Plain
    BY <1>1 DEF Within
<1> HIDE DEF d
<1>3. d + j \in DOMAIN u /\ d + j < d + x /\ u[d + j] = Red
    BY <1>1, <1>2
<1>4. ASSUME NEW k \in d + j .. d + x
      PROVE  u[k] # Plain
    <2> DEFINE l == k - d
    <2>1. l \in j .. x /\ l \in 1 .. Len(t) /\ k = d + l
        BY <1>1, <1>2
    <2> HIDE DEF l
    <2> QED
        BY <1>1, <1>2, <2>1
<1> QED
    BY <1>3, <1>4 DEF Within, d
\* A byte at which no pattern begins, before what is behind it.
LEMMA ColouredByte ==
    ASSUME NEW bytes \in Seq(Bytes), NEW patterns \in Seq(Nonempty), NEW i \in DOMAIN bytes,
           \A q \in ToSet(patterns) : ~Begins(bytes, i, q),
           NEW t, NEW f, Coloured(t, f, i + 1, bytes, patterns)
    PROVE  \E g : Coloured(<<bytes[i]>> \o t, g, i, bytes, patterns)
<1> DEFINE n == Len(bytes)
           s == <<bytes[i]>>
           u == s \o t
           g == [k \in i .. n |-> IF k = i THEN 1 ELSE f[k] + 1]
<1>1. n \in Nat /\ i \in 1 .. n /\ bytes[i] \in Bytes
    OBVIOUS
<1>2. /\ t \in Seq(Raw) /\ f \in [i + 1 .. n -> DOMAIN t]
      /\ \A k, l \in i + 1 .. n : k < l => f[k] < f[l]
      /\ \A k \in i + 1 .. n : t[f[k]] = bytes[k]
      /\ Places(t) = {f[k] : k \in i + 1 .. n}
      /\ t # <<>> => t[1] \notin Codes
      /\ \A j \in DOMAIN t : t[j] \in Codes => j > 1 /\ t[j - 1] = Escape
      /\ \A j \in DOMAIN t : t[j] = Red => \E q \in ToSet(patterns) : Around(t, j, q)
      /\ \A k \in i + 1 .. n :
            Within(t, f[k]) \/ \A q \in ToSet(patterns) : ~Begins(bytes, k, q)
    BY DEF Coloured
<1>3. s \in Seq(Raw) /\ Len(s) = 1 /\ s[1] = bytes[i]
    BY <1>1 DEF Raw
<1> HIDE DEF n, s
<1>4. Behind(u, s, t)
    BY <1>2, <1>3, JoinedIsBehind
<1> HIDE DEF u
<1>5. /\ u \in Seq(Raw) /\ Len(t) \in Nat /\ Len(u) = Len(t) + 1 /\ u[1] = bytes[i]
      /\ \A k \in 1 .. Len(t) : u[1 + k] = t[k]
    BY <1>3, <1>4 DEF Behind
<1>6. \A k \in i + 1 .. n : f[k] \in 1 .. Len(t) /\ k \in i .. n /\ g[k] = 1 + f[k]
    <2> SUFFICES ASSUME NEW k \in i + 1 .. n
                 PROVE  f[k] \in 1 .. Len(t) /\ k \in i .. n /\ g[k] = 1 + f[k]
        OBVIOUS
    <2>1. k \in i .. n /\ k # i
        BY <1>1
    <2>2. g[k] = f[k] + 1
        BY <2>1
    <2>3. f[k] \in 1 .. Len(t)
        BY <1>2
    <2> QED
        BY <1>5, <2>1, <2>2, <2>3
<1>7. g[i] = 1 /\ i \in i .. n /\ \A k \in i .. n : k = i \/ k \in i + 1 .. n
    BY <1>1
<1>8. g \in [i .. n -> DOMAIN u]
    <2>1. ASSUME NEW k \in i .. n
          PROVE  g[k] \in DOMAIN u
        <3>1. DOMAIN u = 1 .. Len(t) + 1
            BY <1>5
        <3>2. CASE k = i
            BY <1>5, <1>7, <3>1, <3>2
        <3>3. CASE k \in i + 1 .. n
            <4>1. g[k] = 1 + f[k] /\ f[k] \in 1 .. Len(t)
                BY <1>6, <3>3
            <4> HIDE DEF g
            <4> QED
                BY <1>5, <3>1, <4>1
        <3> QED
            BY <1>7, <3>2, <3>3
    <2>2. g = [k \in i .. n |-> g[k]]
        OBVIOUS
    <2> HIDE DEF g
    <2> QED
        BY <2>1, <2>2
<1> HIDE DEF g
<1>9. ASSUME NEW k \in i .. n, NEW l \in i .. n, k < l
      PROVE  g[k] < g[l]
    <2>1. l \in i + 1 .. n
        BY <1>1, <1>9
    <2>2. CASE k = i
        BY <1>6, <1>7, <2>1, <2>2
    <2>3. CASE k \in i + 1 .. n
        BY <1>2, <1>6, <1>9, <2>1, <2>3
    <2> QED
        BY <1>7, <2>2, <2>3
<1>10. \A k \in i .. n : u[g[k]] = bytes[k]
    BY <1>2, <1>5, <1>6, <1>7
<1>11. Places(u) = {g[k] : k \in i .. n}
    <2>1. Places(u) = Places(s) \union {1 + x : x \in Places(t)}
        <3>1. Places(u) = Places(s) \union {Len(s) + x : x \in Places(t)}
            BY <1>2, <1>3, <1>4, PlacesJoined
        <3> QED
            BY <1>3, <3>1
    <2>2. Places(s) = {1}
        <3>1. \A x : x \in Places(s) <=> /\ x \in 1 .. 1 /\ s[x] \notin Codes
                                         /\ x + 1 =< 1 => s[x + 1] \notin Codes
            BY <1>3, PlacesAre
        <3>2. s[1] \notin Codes
            BY <1>1, <1>3, Alphabet
        <3> QED
            BY <3>1, <3>2
    <2>3. {1 + x : x \in Places(t)} = {g[k] : k \in i + 1 .. n}
        <3>1. Places(t) = {f[k] : k \in i + 1 .. n}
            BY <1>2
        <3>2. \A k \in i + 1 .. n : g[k] = 1 + f[k]
            BY <1>6
        <3> QED
            BY <3>1, <3>2
    <2>4. {g[k] : k \in i .. n} = {g[i]} \union {g[k] : k \in i + 1 .. n}
        BY <1>6, <1>7
    <2> QED
        BY <1>7, <2>1, <2>2, <2>3, <2>4
<1>12. u[1] \notin Codes /\ Red # bytes[i]
    BY <1>1, <1>5, Alphabet
<1>13. ASSUME NEW j \in DOMAIN u, u[j] = Red
       PROVE  \E q \in ToSet(patterns) : Around(u, j, q)
    <2> DEFINE l == j - 1
    <2>1. j # 1
        BY <1>5, <1>12, <1>13
    <2>2. l \in 1 .. Len(t) /\ j = 1 + l
        BY <1>5, <2>1
    <2> HIDE DEF l
    <2>3. t[l] = Red /\ l \in DOMAIN t
        BY <1>2, <1>5, <1>13, <2>2
    <2>4. PICK q \in ToSet(patterns) : Around(t, l, q)
        BY <1>2, <2>3
    <2>5. Len(q) \in Nat
        BY DEF ToSet, Nonempty
    <2>6. Around(u, Len(s) + l, q)
        BY <1>4, <2>2, <2>4, <2>5, AroundBehind
    <2> QED
        BY <1>3, <2>2, <2>6
<1>14. ASSUME NEW k \in i .. n
       PROVE  Within(u, g[k]) \/ \A q \in ToSet(patterns) : ~Begins(bytes, k, q)
    <2>1. CASE k = i
        BY <2>1
    <2>2. CASE k \in i + 1 .. n /\ Within(t, f[k])
        <3>1. f[k] \in 1 .. Len(t)
            BY <1>6, <2>2
        <3>2. Within(u, Len(s) + f[k])
            BY <1>2, <1>4, <2>2, <3>1, WithinBehind
        <3> QED
            BY <1>3, <1>6, <2>2, <3>2
    <2>3. CASE k \in i + 1 .. n /\ ~Within(t, f[k])
        BY <1>2, <2>3
    <2> QED
        BY <1>7, <2>1, <2>2, <2>3
<1>15. ASSUME NEW j \in DOMAIN u, u[j] \in Codes
       PROVE  j > 1 /\ u[j - 1] = Escape
    <2> DEFINE l == j - 1
    <2>1. j # 1
        BY <1>12, <1>15
    <2>2. l \in 1 .. Len(t) /\ j = 1 + l
        BY <1>5, <2>1
    <2> HIDE DEF l
    <2>3. t[l] \in Codes /\ l \in DOMAIN t
        BY <1>2, <1>5, <1>15, <2>2
    <2>4. l > 1 /\ t[l - 1] = Escape
        BY <1>2, <2>3
    <2>5. l - 1 \in 1 .. Len(t) /\ j - 1 = 1 + (l - 1) /\ j > 1
        BY <2>2, <2>4
    <2> QED
        BY <1>5, <2>4, <2>5
<1>16. Coloured(u, g, i, bytes, patterns)
    BY <1>5, <1>8, <1>9, <1>10, <1>11, <1>12, <1>13, <1>14, <1>15 DEF Coloured, n
<1> QED
    BY <1>16 DEF u, s
\* Of a mark only the pattern is not part of a code.
LEMMA PlacesOfMark ==
    ASSUME NEW q \in Nonempty
    PROVE  Places(Mark(q)) = 3 .. Len(q) + 2
<1> DEFINE s == Mark(q)
           m == Len(q)
<1>1. /\ s \in Seq(Raw) /\ m \in Nat \ {0} /\ Len(s) = m + 4
      /\ s[1] = Escape /\ s[2] = Red /\ \A k \in 1 .. m : s[k + 2] = q[k]
      /\ s[m + 3] = Escape /\ s[m + 4] = Plain
    BY MarkIs
<1>2. /\ \A k \in 1 .. m : q[k] \notin Codes
      /\ Escape \notin Codes /\ Red \in Codes /\ Plain \in Codes
    BY Alphabet DEF Nonempty
<1> HIDE DEF s, m
<1>3. \A x : x \in Places(s) <=> /\ x \in 1 .. m + 4 /\ s[x] \notin Codes
                                 /\ x + 1 =< m + 4 => s[x + 1] \notin Codes
    BY <1>1, PlacesAre
<1>4. \A x \in 3 .. m + 2 : s[x] \notin Codes
    <2> SUFFICES ASSUME NEW x \in 3 .. m + 2 PROVE s[x] \notin Codes
        OBVIOUS
    <2>1. x - 2 \in 1 .. m /\ x = (x - 2) + 2
        BY <1>1
    <2> QED
        BY <1>1, <1>2, <2>1
<1>5. s[m + 3] \notin Codes
    BY <1>1, <1>2
<1>6. ASSUME NEW x \in 3 .. m + 2
      PROVE  x \in Places(s)
    <2>1. x \in 1 .. m + 4 /\ (x + 1 \in 3 .. m + 2 \/ x + 1 = m + 3)
        BY <1>1
    <2>2. s[x] \notin Codes /\ s[x + 1] \notin Codes
        BY <1>4, <1>5, <2>1
    <2> QED
        BY <1>3, <2>1, <2>2
<1>7. ASSUME NEW x \in Places(s)
      PROVE  x \in 3 .. m + 2
    <2>1. x \in 1 .. m + 4
        BY <1>3
    <2>2. x # 1
        BY <1>1, <1>2, <1>3
    <2>3. x # 2
        BY <1>1, <1>2, <1>3
    <2>4. x # m + 3
        <3>1. (m + 3) + 1 = m + 4 /\ m + 4 =< m + 4
            BY <1>1
        <3> QED
            BY <1>1, <1>2, <1>3, <3>1
    <2>5. x # m + 4
        BY <1>1, <1>2, <1>3
    <2> QED
        BY <1>1, <2>1, <2>2, <2>3, <2>4, <2>5
<1> QED
    BY <1>6, <1>7 DEF s, m

\* A mark, before what is behind the pattern.
LEMMA ColouredMark ==
    ASSUME NEW bytes \in Seq(Bytes), NEW patterns \in Seq(Nonempty), NEW i \in DOMAIN bytes,
           NEW q \in ToSet(patterns), Begins(bytes, i, q),
           NEW t, NEW f, Coloured(t, f, i + Len(q), bytes, patterns)
    PROVE  \E g : Coloured(Mark(q) \o t, g, i, bytes, patterns)
<1> DEFINE n == Len(bytes)
           m == Len(q)
           e == i + m
           s == Mark(q)
           u == s \o t
           g == [k \in i .. n |-> IF k < e THEN k - i + 3 ELSE f[k] + m + 4]
<1>1. n \in Nat /\ i \in 1 .. n
    OBVIOUS
<1>2. /\ t \in Seq(Raw) /\ f \in [e .. n -> DOMAIN t]
      /\ \A k, l \in e .. n : k < l => f[k] < f[l]
      /\ \A k \in e .. n : t[f[k]] = bytes[k]
      /\ Places(t) = {f[k] : k \in e .. n}
      /\ t # <<>> => t[1] \notin Codes
      /\ \A j \in DOMAIN t : t[j] \in Codes => j > 1 /\ t[j - 1] = Escape
      /\ \A j \in DOMAIN t : t[j] = Red => \E p \in ToSet(patterns) : Around(t, j, p)
      /\ \A k \in e .. n :
            Within(t, f[k]) \/ \A p \in ToSet(patterns) : ~Begins(bytes, k, p)
    BY DEF Coloured
<1>3. q \in Nonempty
    BY DEF ToSet
<1>4. /\ s \in Seq(Raw) /\ m \in Nat \ {0} /\ Len(s) = m + 4
      /\ s[1] = Escape /\ s[2] = Red /\ \A k \in 1 .. m : s[k + 2] = q[k]
      /\ s[m + 3] = Escape /\ s[m + 4] = Plain
    BY <1>3, MarkIs
<1>4a. m \in Nat /\ m >= 1 /\ i \in Nat /\ n \in Nat
    BY <1>1, <1>4
<1>5. e - 1 =< n /\ \A k \in 1 .. m : bytes[i + k - 1] = q[k]
    <2>1. i \in Nat \ {0}
        BY <1>1
    <2> QED
        BY <1>3, <2>1, BeginsAt
<1>6. /\ \A k \in 1 .. m : q[k] \notin Codes
      /\ Escape \notin Codes /\ Red \in Codes /\ Plain \in Codes /\ Red # Plain
      /\ Red # Escape /\ Plain # Escape
    BY <1>3, Alphabet DEF Nonempty
<1> HIDE DEF n, s, m
<1>7. Behind(u, s, t)
    BY <1>2, <1>4, JoinedIsBehind
<1> HIDE DEF u
<1>8. /\ u \in Seq(Raw) /\ Len(t) \in Nat /\ Len(u) = m + 4 + Len(t)
      /\ \A k \in 1 .. m + 4 : u[k] = s[k]
      /\ \A k \in 1 .. Len(t) : u[m + 4 + k] = t[k]
    BY <1>4, <1>7 DEF Behind
<1>9. /\ u[1] = Escape /\ u[2] = Red /\ \A k \in 1 .. m : u[k + 2] = q[k]
      /\ u[m + 3] = Escape /\ u[m + 4] = Plain
    <2>1. 1 \in 1 .. m + 4 /\ 2 \in 1 .. m + 4 /\ m + 3 \in 1 .. m + 4 /\ m + 4 \in 1 .. m + 4
        BY <1>4
    <2>2. \A k \in 1 .. m : k + 2 \in 1 .. m + 4
        BY <1>4
    <2> QED
        BY <1>4, <1>8, <2>1, <2>2
<1>10. e \in Nat /\ i < e /\ \A k \in i .. n : k \in i .. e - 1 \/ k \in e .. n
    BY <1>1, <1>4
<1>11. \A k \in i .. e - 1 : k \in i .. n /\ g[k] = k - i + 3 /\ g[k] \in 3 .. m + 2
    <2> SUFFICES ASSUME NEW k \in i .. e - 1
                 PROVE  k \in i .. n /\ g[k] = k - i + 3 /\ g[k] \in 3 .. m + 2
        OBVIOUS
    <2>1. k \in i .. n /\ k < e
        BY <1>1, <1>5, <1>10
    <2>2. g[k] = k - i + 3
        BY <2>1
    <2>3. k - i + 3 \in 3 .. m + 2
        BY <1>1, <1>4
    <2> QED
        BY <2>1, <2>2, <2>3
<1>12. \A k \in e .. n : k \in i .. n /\ f[k] \in 1 .. Len(t) /\ g[k] = m + 4 + f[k]
    <2> SUFFICES ASSUME NEW k \in e .. n
                 PROVE  k \in i .. n /\ f[k] \in 1 .. Len(t) /\ g[k] = m + 4 + f[k]
        OBVIOUS
    <2>1. k \in i .. n /\ ~(k < e)
        BY <1>1, <1>10
    <2>2. g[k] = f[k] + m + 4
        BY <2>1
    <2>3. f[k] \in 1 .. Len(t)
        BY <1>2
    <2> QED
        BY <1>4, <1>8, <2>1, <2>2, <2>3
<1>13. g = [k \in i .. n |-> g[k]]
    OBVIOUS
<1> HIDE DEF g, e
<1>14. g \in [i .. n -> DOMAIN u]
    <2>1. DOMAIN u = 1 .. m + 4 + Len(t)
        BY <1>8
    <2>2. ASSUME NEW k \in i .. n
          PROVE  g[k] \in DOMAIN u
        <3>1. CASE k \in i .. e - 1
            BY <1>4a, <1>8, <1>11, <2>1, <3>1
        <3>2. CASE k \in e .. n
            <4>1. f[k] \in 1 .. Len(t) /\ g[k] = m + 4 + f[k]
                BY <1>12, <3>2
            <4> QED
                BY <1>4a, <1>8, <2>1, <4>1
        <3> QED
            BY <1>10, <3>1, <3>2
    <2> QED
        BY <1>13, <2>2
<1>15. ASSUME NEW k \in i .. n, NEW l \in i .. n, k < l
       PROVE  g[k] < g[l]
    <2>1. CASE l \in i .. e - 1
        <3>1. k \in i .. e - 1
            BY <1>10, <1>15, <2>1
        <3> QED
            BY <1>1, <1>11, <1>15, <2>1, <3>1
    <2>2. CASE l \in e .. n /\ k \in i .. e - 1
        <3>1. g[k] \in 3 .. m + 2
            BY <1>11, <2>2
        <3>2. g[l] = m + 4 + f[l] /\ f[l] \in 1 .. Len(t)
            BY <1>12, <2>2
        <3> QED
            BY <1>4a, <3>1, <3>2
    <2>3. CASE l \in e .. n /\ k \in e .. n
        <3>1. f[k] < f[l]
            BY <1>2, <1>15, <2>3
        <3>2. /\ g[k] = m + 4 + f[k] /\ f[k] \in 1 .. Len(t)
              /\ g[l] = m + 4 + f[l] /\ f[l] \in 1 .. Len(t)
            BY <1>12, <2>3
        <3> QED
            BY <1>4a, <3>1, <3>2
    <2> QED
        BY <1>10, <2>1, <2>2, <2>3
<1>16. ASSUME NEW k \in i .. n
       PROVE  u[g[k]] = bytes[k]
    <2>1. CASE k \in i .. e - 1
        <3> DEFINE l == k - i + 1
        <3>1. l \in 1 .. m /\ i + l - 1 = k /\ k - i + 3 = l + 2
            <4>1. m \in Nat /\ i \in Nat
                BY <1>4a
            <4>2. k \in Nat /\ i =< k /\ k =< i + m - 1
                BY <2>1, <4>1 DEF e
            <4>3. l \in Nat /\ 1 =< l /\ l =< m
                BY <4>1, <4>2
            <4>4. i + l - 1 = k /\ k - i + 3 = l + 2
                BY <4>1, <4>2
            <4> QED
                BY <4>1, <4>3, <4>4
        <3>2. g[k] = k - i + 3
            BY <1>11, <2>1
        <3>3. g[k] = l + 2
            BY <3>1, <3>2
        <3> HIDE DEF l
        <3> QED
            BY <1>5, <1>9, <3>1, <3>3
    <2>2. CASE k \in e .. n
        BY <1>2, <1>8, <1>12, <2>2
    <2> QED
        BY <1>10, <2>1, <2>2
<1>17. Places(u) = {g[k] : k \in i .. n}
    <2>1. Places(u) = 3 .. m + 2 \union {m + 4 + x : x \in Places(t)}
        <3>1. Places(u) = Places(s) \union {Len(s) + x : x \in Places(t)}
            BY <1>2, <1>4, <1>7, PlacesJoined
        <3>2. Places(s) = 3 .. m + 2
            BY <1>3, PlacesOfMark DEF s, m
        <3> QED
            BY <1>4, <3>1, <3>2
    <2>2. {m + 4 + x : x \in Places(t)} = {g[k] : k \in e .. n}
        <3>1. Places(t) = {f[k] : k \in e .. n}
            BY <1>2
        <3>2. \A k \in e .. n : g[k] = m + 4 + f[k]
            BY <1>12
        <3> QED
            BY <3>1, <3>2
    <2>3. 3 .. m + 2 = {g[k] : k \in i .. e - 1}
        <3>1. ASSUME NEW x \in 3 .. m + 2
              PROVE  \E k \in i .. e - 1 : x = g[k]
            <4> DEFINE k == x + i - 3
            <4>1. x \in Nat /\ 3 =< x /\ x =< m + 2
                BY <1>4a
            <4>2. k \in Nat /\ i =< k /\ k =< i + m - 1 /\ k - i + 3 = x
                BY <1>4a, <4>1
            <4> HIDE DEF k
            <4>3. k \in i .. e - 1
                BY <1>4a, <4>2 DEF e
            <4> QED
                BY <1>11, <4>2, <4>3
        <3> QED
            BY <1>11, <3>1
    <2>4. {g[k] : k \in i .. n} = {g[k] : k \in i .. e - 1} \union {g[k] : k \in e .. n}
        BY <1>10, <1>11, <1>12
    <2> QED
        BY <2>1, <2>2, <2>3, <2>4
<1>18. u # <<>> => u[1] \notin Codes
    BY <1>6, <1>9
<1>19. Around(u, 2, q)
    <2>1. /\ Len(q) = m /\ 2 > 1 /\ 2 + m + 2 =< Len(u)
          /\ 2 - 1 = 1 /\ 2 + m + 1 = m + 3 /\ 2 + m + 2 = m + 4
          /\ \A k \in 1 .. m : 2 + k = k + 2
        BY <1>4, <1>8 DEF m
    <2> QED
        BY <1>9, <2>1 DEF Around
<1>20. ASSUME NEW j \in DOMAIN u, u[j] = Red
       PROVE  \E p \in ToSet(patterns) : Around(u, j, p)
    <2>1. CASE j =< m + 4
        <3>1. j # 1 /\ j # m + 3 /\ j # m + 4
            BY <1>6, <1>9, <1>20
        <3>2. j \notin 3 .. m + 2
            <4> SUFFICES ASSUME j \in 3 .. m + 2 PROVE FALSE
                OBVIOUS
            <4>1. j - 2 \in 1 .. m /\ j = (j - 2) + 2
                BY <1>4a
            <4> QED
                BY <1>6, <1>9, <1>20, <4>1
        <3>3. j = 2
            BY <1>4, <1>8, <2>1, <3>1, <3>2
        <3> QED
            BY <1>19, <3>3
    <2>2. CASE j > m + 4
        <3> DEFINE l == j - (m + 4)
        <3>1. l \in 1 .. Len(t) /\ j = m + 4 + l
            BY <1>4a, <1>8, <2>2
        <3> HIDE DEF l
        <3>2. t[l] = Red /\ l \in DOMAIN t
            BY <1>2, <1>8, <1>20, <3>1
        <3>3. PICK p \in ToSet(patterns) : Around(t, l, p)
            BY <1>2, <3>2
        <3>4. Len(p) \in Nat
            BY DEF ToSet, Nonempty
        <3>5. Around(u, Len(s) + l, p)
            BY <1>7, <3>1, <3>3, <3>4, AroundBehind
        <3> QED
            BY <1>4, <3>1, <3>5
    <2> QED
        BY <1>4, <1>8, <2>1, <2>2
<1>21. ASSUME NEW k \in i .. n
       PROVE  Within(u, g[k]) \/ \A p \in ToSet(patterns) : ~Begins(bytes, k, p)
    <2>1. CASE k \in i .. e - 1
        <3>1. g[k] \in 3 .. m + 2
            BY <1>11, <2>1
        <3>2. ASSUME NEW l \in 2 .. g[k]
              PROVE  u[l] # Plain
            <4>1. CASE l = 2
                BY <1>6, <1>9, <4>1
            <4>2. CASE l # 2
                <5>1. l - 2 \in 1 .. m /\ l = (l - 2) + 2
                    BY <1>4a, <3>1, <4>2
                <5> QED
                    BY <1>6, <1>9, <5>1
            <4> QED
                BY <4>1, <4>2
        <3>3. 2 \in DOMAIN u /\ 2 < g[k]
            BY <1>4, <1>8, <3>1
        <3> QED
            BY <1>9, <3>2, <3>3 DEF Within
    <2>2. CASE k \in e .. n /\ Within(t, f[k])
        <3>1. f[k] \in 1 .. Len(t)
            BY <1>12, <2>2
        <3>2. Within(u, Len(s) + f[k])
            BY <1>2, <1>7, <2>2, <3>1, WithinBehind
        <3> QED
            BY <1>4, <1>12, <2>2, <3>2
    <2>3. CASE k \in e .. n /\ ~Within(t, f[k])
        BY <1>2, <2>3
    <2> QED
        BY <1>10, <2>1, <2>2, <2>3
<1>22. ASSUME NEW j \in DOMAIN u, u[j] \in Codes
       PROVE  j > 1 /\ u[j - 1] = Escape
    <2>1. CASE j =< m + 4
        <3>1. j # 1 /\ j # m + 3
            BY <1>6, <1>9, <1>22
        <3>2. j \notin 3 .. m + 2
            <4> SUFFICES ASSUME j \in 3 .. m + 2 PROVE FALSE
                OBVIOUS
            <4>1. j - 2 \in 1 .. m /\ j = (j - 2) + 2
                BY <1>4a
            <4> QED
                BY <1>6, <1>9, <1>22, <4>1
        <3>3. j = 2 \/ j = m + 4
            BY <1>4, <1>8, <2>1, <3>1, <3>2
        <3>4. 2 - 1 = 1 /\ (m + 4) - 1 = m + 3
            BY <1>4a
        <3> QED
            BY <1>4, <1>9, <3>3, <3>4
    <2>2. CASE j > m + 4
        <3> DEFINE l == j - (m + 4)
        <3>1. l \in 1 .. Len(t) /\ j = m + 4 + l
            BY <1>4a, <1>8, <2>2
        <3> HIDE DEF l
        <3>2. t[l] \in Codes /\ l \in DOMAIN t
            BY <1>2, <1>8, <1>22, <3>1
        <3>3. l > 1 /\ t[l - 1] = Escape
            BY <1>2, <3>2
        <3>4. l - 1 \in 1 .. Len(t)
            BY <1>8, <3>1, <3>3
        <3>5. j - 1 = m + 4 + (l - 1) /\ j > 1
            BY <1>4, <1>8, <3>1
        <3> QED
            BY <1>8, <3>3, <3>4, <3>5
    <2> QED
        BY <1>4, <1>8, <2>1, <2>2
<1>23. Coloured(u, g, i, bytes, patterns)
    BY <1>8, <1>14, <1>15, <1>16, <1>17, <1>18, <1>20, <1>21, <1>22 DEF Coloured, n
<1> QED
    BY <1>23 DEF u, s

\* What is highlighted has every byte of the packet, and whole marks.
LEMMA HighlightedIs ==
    ASSUME NEW bytes \in Seq(Bytes), NEW patterns \in Seq(Nonempty)
    PROVE  \E f : Coloured(Highlighted(bytes, patterns), f, 1, bytes, patterns)
<1> DEFINE n == Len(bytes)
           D == 1 .. n + 1
<1>1. n \in Nat /\ DOMAIN bytes = 1 .. n /\ DOMAIN bytes \union {n + 1} = D
    OBVIOUS
<1>2. PICK from : Colours(from, bytes, patterns) /\ Highlighted(bytes, patterns) = from[1]
    BY HighlightedComputed
<1> DEFINE c(i) == Chosen(bytes, patterns, i)
           hits(i) == Starting(bytes, patterns, i)
<1>3. \A i \in D : from[i] = IF i > n THEN <<>>
                             ELSE IF hits(i) = {} THEN <<bytes[i]>> \o from[i + 1]
                             ELSE Mark(c(i)) \o from[i + Len(c(i))]
    BY <1>1, <1>2 DEF Colours
<1> DEFINE Is(i) == \E f : Coloured(from[i], f, i, bytes, patterns)
           S == {i \in D : Is(i)}
<1> HIDE DEF n, hits, c
<1>4. ASSUME NEW i \in D, \A j \in D : i < j => j \in S
      PROVE  i \in S
    <2>1. CASE i > n
        <3>1. from[i] = <<>> /\ i .. n = {}
            <4>1. from[i] = <<>>
                BY <1>3, <2>1
            <4>2. i .. n = {}
                BY <1>1, <2>1
            <4> QED
                BY <4>1, <4>2
        <3>2. Places(<<>>) = {}
            BY DEF Places
        <3> DEFINE f == [k \in i .. n |-> k]
        <3>3. /\ f \in [i .. n -> DOMAIN <<>>] /\ <<>> \in Seq(Raw)
              /\ {f[k] : k \in i .. n} = {}
            BY <3>1
        <3> HIDE DEF f
        <3>4. Coloured(<<>>, f, i, bytes, patterns)
            BY <3>1, <3>2, <3>3 DEF Coloured, n
        <3> QED
            BY <3>1, <3>4
    <2>2. CASE i =< n /\ hits(i) = {}
        <3>1. i + 1 \in D /\ i < i + 1 /\ i \in DOMAIN bytes /\ ~(i > n)
            BY <1>1, <2>2
        <3>2. from[i] = <<bytes[i]>> \o from[i + 1]
            BY <1>3, <2>2, <3>1
        <3>3. PICK f : Coloured(from[i + 1], f, i + 1, bytes, patterns)
            BY <1>4, <3>1
        <3>4. \A q \in ToSet(patterns) : ~Begins(bytes, i, q)
            BY <2>2 DEF hits, Starting, ToSet
        <3> DEFINE t == from[i + 1]
        <3>5. Coloured(t, f, i + 1, bytes, patterns)
            BY <3>3
        <3> HIDE DEF t
        <3>6. \E g : Coloured(<<bytes[i]>> \o t, g, i, bytes, patterns)
            BY <3>1, <3>4, <3>5, ColouredByte
        <3> QED
            BY <3>2, <3>6 DEF t
    <2>3. CASE i =< n /\ hits(i) # {}
        <3> DEFINE q == c(i)
        <3>1. i \in DOMAIN bytes /\ ~(i > n)
            BY <1>1, <2>3
        <3>2. /\ q \in ToSet(patterns) /\ Begins(bytes, i, q)
              /\ Len(q) \in Nat \ {0} /\ i + Len(q) \in D
            BY <2>3, <3>1, ChosenBegins DEF c, hits, n
        <3>3. from[i] = Mark(q) \o from[i + Len(q)]
            BY <1>3, <2>3, <3>1
        <3> HIDE DEF q
        <3>4. i < i + Len(q)
            BY <3>2
        <3>5. PICK f : Coloured(from[i + Len(q)], f, i + Len(q), bytes, patterns)
            BY <1>4, <3>2, <3>4
        <3> DEFINE t == from[i + Len(q)]
        <3>6. Coloured(t, f, i + Len(q), bytes, patterns)
            BY <3>5
        <3> HIDE DEF t
        <3>7. \E g : Coloured(Mark(q) \o t, g, i, bytes, patterns)
            BY <3>1, <3>2, <3>6, ColouredMark
        <3> QED
            BY <3>3, <3>7 DEF t
    <2> QED
        BY <1>1, <2>1, <2>2, <2>3
<1> HIDE DEF S
<1>5. 1 \in S
    <2>1. D \subseteq S
        BY <1>1, <1>4, Downward
    <2> QED
        BY <1>1, <2>1
<1> QED
    BY <1>2, <1>5 DEF S
----------------------------------------------------------------------------
(* Texts without their codes.                                              *)

\* The places that Uncoloured keeps, in their order.
LEMMA UncolouredPlaces ==
    ASSUME NEW E, NEW text \in Seq(E)
    PROVE  \E m \in Nat : \E g \in [1 .. m -> Nat] :
              /\ Enumerates(g, Places(text))
              /\ Uncoloured(text) = [k \in 1 .. m |-> text[g[k]]]
<1> DEFINE n == Len(text)
           s == [k \in 1 .. n |-> k]
           g == Kept(s, Places(text))
           m == Len(g)
<1>1. n \in Nat /\ DOMAIN text = 1 .. n
    OBVIOUS
<1>2. g \in Seq(Nat) /\ Enumerates(g, Places(text) \intersect 1 .. n)
    <2> DEFINE set == Places(text)
    <2>1. s = [k \in 1 .. n |-> k]
        OBVIOUS
    <2> HIDE DEF set, s, n
    <2> QED
        BY <1>1, <2>1, KeptPlaces
<1>3. Places(text) \intersect 1 .. n = Places(text)
    BY <1>1 DEF Places
<1>4. Uncoloured(text) = [k \in DOMAIN g |-> text[g[k]]]
    BY <1>1 DEF Uncoloured
<1> HIDE DEF g
<1>5. m \in Nat /\ g \in [1 .. m -> Nat] /\ DOMAIN g = 1 .. m
    BY <1>2
<1> QED
    BY <1>2, <1>3, <1>4, <1>5

\* Whatever enumerates the places reads the same text.
LEMMA UncolouredIs ==
    ASSUME NEW E, NEW text \in Seq(E), NEW m \in Nat, NEW f \in [1 .. m -> Nat],
           Enumerates(f, Places(text))
    PROVE  Uncoloured(text) = [k \in 1 .. m |-> text[f[k]]]
<1> DEFINE P == Places(text)
<1>1. PICK n \in Nat : \E g \in [1 .. n -> Nat] :
         Enumerates(g, P) /\ Uncoloured(text) = [k \in 1 .. n |-> text[g[k]]]
    BY UncolouredPlaces
<1>2. PICK g \in [1 .. n -> Nat] :
         Enumerates(g, P) /\ Uncoloured(text) = [k \in 1 .. n |-> text[g[k]]]
    BY <1>1
<1>3. P \subseteq Nat
    BY DEF Places
<1>4. Enumerates(f, P)
    OBVIOUS
<1> HIDE DEF P
<1>5. f = g
    BY <1>2, <1>3, <1>4, EnumeratesOnce
<1>6. DOMAIN f = 1 .. m /\ DOMAIN g = 1 .. n
    OBVIOUS
<1>7. 1 .. m = 1 .. n
    BY <1>5, <1>6
<1> QED
    BY <1>2, <1>5, <1>7

\* A text without codes is as it is.
LEMMA UncolouredSame ==
    ASSUME NEW E, NEW text \in Seq(E), NoCodes(text)
    PROVE  /\ Places(text) = DOMAIN text
           /\ Uncoloured(text) = text
<1> DEFINE n == Len(text)
           f == [k \in 1 .. n |-> k]
<1>1. n \in Nat /\ DOMAIN text = 1 .. n /\ text = [k \in 1 .. n |-> text[k]]
    OBVIOUS
<1>2. \A x \in 1 .. n : text[x] \notin Codes
    BY <1>1 DEF NoCodes, ToSet
<1>3. Places(text) = 1 .. n
    <2>1. \A x : x \in Places(text) <=> /\ x \in 1 .. Len(text) /\ text[x] \notin Codes
                                        /\ x + 1 =< Len(text) => text[x + 1] \notin Codes
        BY PlacesAre
    <2>2. \A x \in 1 .. n : x + 1 =< n => x + 1 \in 1 .. n
        BY <1>1
    <2> QED
        BY <1>2, <2>1, <2>2
<1>4. f \in [1 .. n -> Nat] /\ Enumerates(f, 1 .. n) /\ \A k \in 1 .. n : f[k] = k
    BY <1>1 DEF Enumerates
<1> HIDE DEF n, f
<1>5. Uncoloured(text) = [k \in 1 .. n |-> text[f[k]]]
    <2>1. n \in Nat /\ f \in [1 .. n -> Nat] /\ Enumerates(f, Places(text))
        BY <1>1, <1>3, <1>4
    <2> QED
        BY <2>1, UncolouredIs
<1> QED
    BY <1>1, <1>3, <1>4, <1>5

Ascends(f, n) == \A k, l \in 1 .. n : k < l => f[k] < f[l]

\* Each value of h is one of f, and none of f is between two of them.
Adjoins(f, n, h, m) ==
    /\ \A k \in 1 .. m : \E y \in 1 .. n : f[y] = h[k]
    /\ \A k \in 1 .. m : k < m => \A y \in 1 .. n : ~(h[k] < f[y] /\ f[y] < h[k + 1])

\* Places that f reaches one by one and that are next to each other in its
\* image are reached from numbers next to each other.
LEMMA NextToEachOther ==
    ASSUME NEW n \in Nat, NEW f \in [1 .. n -> Nat], Ascends(f, n),
           NEW m \in Nat \ {0}, NEW h \in [1 .. m -> Nat], Ascends(h, m),
           Adjoins(f, n, h, m)
    PROVE  \E y \in 1 .. n : \A k \in 1 .. m : y + k - 1 \in 1 .. n /\ f[y + k - 1] = h[k]
<1> USE DEF Ascends, Adjoins
<1>1. PICK y \in 1 .. n : f[y] = h[1]
    OBVIOUS
<1> DEFINE P == {k \in Nat : k + 1 =< m => y + k \in 1 .. n /\ f[y + k] = h[k + 1]}
<1>2. 0 \in P
    BY <1>1
<1>3. ASSUME NEW k \in Nat, k \in P
      PROVE  k + 1 \in P
    <2> SUFFICES ASSUME (k + 1) + 1 =< m
                 PROVE  y + (k + 1) \in 1 .. n /\ f[y + (k + 1)] = h[(k + 1) + 1]
        OBVIOUS
    <2> DEFINE a == k + 1
               v == y + k
    <2>1. /\ a \in 1 .. m /\ a + 1 \in 1 .. m /\ a < m /\ a < a + 1
          /\ v \in 1 .. n /\ f[v] = h[a]
        BY <1>3
    <2>2. PICK z \in 1 .. n : f[z] = h[a + 1]
        BY <2>1
    <2>3. h[a] < h[a + 1] /\ h[a] \in Nat /\ h[a + 1] \in Nat
        BY <2>1
    <2> HIDE DEF a
    <2>4. v < z
        <3>1. z < v => f[z] < f[v]
            BY <2>1
        <3>2. z = v => f[z] = f[v]
            OBVIOUS
        <3>3. ~(f[z] < f[v]) /\ f[z] # f[v]
            BY <2>1, <2>2, <2>3
        <3>4. v \in Int /\ z \in Int
            BY <2>1
        <3> QED
            BY <3>1, <3>2, <3>3, <3>4
    <2> HIDE DEF v
    <2>5. z = v + 1
        <3> SUFFICES ASSUME z # v + 1 PROVE FALSE
            OBVIOUS
        <3>1. v + 1 \in 1 .. n /\ v < v + 1 /\ v + 1 < z
            BY <2>1, <2>4
        <3>2. f[v] < f[v + 1] /\ f[v + 1] < f[z]
            BY <2>1, <3>1
        <3> QED
            BY <2>1, <2>2, <3>1, <3>2
    <2>6. y + (k + 1) = v + 1
        BY DEF v
    <2> QED
        BY <2>2, <2>5, <2>6 DEF a
<1> HIDE DEF P
<1>4. Nat \subseteq P
    BY <1>2, <1>3, Induction
<1>5. ASSUME NEW k \in 1 .. m
      PROVE  y + k - 1 \in 1 .. n /\ f[y + k - 1] = h[k]
    <2> DEFINE l == k - 1
    <2>1. l \in Nat /\ l + 1 = k /\ y + l = y + k - 1 /\ l \in P
        BY <1>4
    <2>2. y + l \in 1 .. n /\ f[y + l] = h[l + 1]
        BY <2>1 DEF P
    <2> QED
        BY <2>1, <2>2
<1> QED
    BY <1>5
\* In a text before it is written, byte k of the packet is at f[k], and the
\* rest is codes, each with its escape character.
Carries(text, f, bytes) ==
    /\ text \in Seq(Raw)
    /\ f \in [1 .. Len(bytes) -> 1 .. Len(text)]
    /\ Enumerates(f, Places(text))
    /\ \A k \in 1 .. Len(bytes) : text[f[k]] = bytes[k]
    /\ \A j \in DOMAIN text : text[j] \in Codes => j > 1 /\ text[j - 1] = Escape

\* What a renderer writes of a text, up to c: what it changes was no letter
\* and is none now, and codes stay; behind c there is nothing, or an ellipsis.
Shows(shown, text, c) ==
    /\ c \in Nat /\ c =< Len(text) /\ shown \in Seq(Text)
    /\ Len(shown) = c \/ (Len(shown) = c + 1 /\ shown[c + 1] = Ellipsis)
    /\ \A x \in 1 .. c : /\ shown[x] \in Codes <=> text[x] \in Codes
                         /\ shown[x] \in Letters => shown[x] = text[x]

\* A pattern in what is shown, with the codes taken out, is in the packet.
LEMMA ShowsNothingNew ==
    ASSUME NEW bytes \in Seq(Bytes), NEW text, NEW f, Carries(text, f, bytes),
           NEW shown, NEW c, Shows(shown, text, c), NEW p \in Nonempty,
           contains_bytes(Uncoloured(shown), p)
    PROVE  contains_bytes(bytes, p)
<1> DEFINE n == Len(bytes)
           m == Len(p)
<1>1. /\ text \in Seq(Raw) /\ Len(text) \in Nat /\ n \in Nat
      /\ f \in [1 .. n -> 1 .. Len(text)] /\ f \in [1 .. n -> Nat]
      /\ \A k, l \in 1 .. n : k < l => f[k] < f[l]
      /\ \A x \in Places(text) : \E k \in 1 .. n : f[k] = x
      /\ \A k \in 1 .. n : f[k] \in Places(text)
      /\ \A k \in 1 .. n : text[f[k]] = bytes[k]
      /\ \A j \in 1 .. Len(text) : text[j] \in Codes => j > 1 /\ text[j - 1] = Escape
    BY DEF Carries, Enumerates
<1>2. /\ c \in Nat /\ c =< Len(text) /\ shown \in Seq(Text)
      /\ Len(shown) = c \/ (Len(shown) = c + 1 /\ shown[c + 1] = Ellipsis)
      /\ \A x \in 1 .. c : shown[x] \in Codes <=> text[x] \in Codes
      /\ \A x \in 1 .. c : shown[x] \in Letters => shown[x] = text[x]
    BY DEF Shows
<1>3. m \in Nat \ {0} /\ p # <<>> /\ \A k \in 1 .. m : p[k] \in Letters
    BY DEF Nonempty
<1>4. /\ \A x : x \in Places(shown) <=>
            /\ x \in 1 .. Len(shown) /\ shown[x] \notin Codes
            /\ x + 1 =< Len(shown) => shown[x + 1] \notin Codes
      /\ \A x : x \in Places(text) <=>
            /\ x \in 1 .. Len(text) /\ text[x] \notin Codes
            /\ x + 1 =< Len(text) => text[x + 1] \notin Codes
    BY <1>1, <1>2, PlacesAre
<1>5. Escape \notin Letters /\ Ellipsis \notin Letters /\ Ellipsis \notin Codes
    BY Alphabet
<1> HIDE DEF n, m
<1>6. ASSUME NEW x \in Places(shown), shown[x] \in Letters
      PROVE  x \in 1 .. c /\ x \in Places(text) /\ text[x] = shown[x]
    <2>1. x \in 1 .. c
        <3>1. x \in 1 .. Len(shown)
            BY <1>4
        <3>2. Len(shown) = c + 1 /\ shown[c + 1] = Ellipsis => x # c + 1
            BY <1>5, <1>6
        <3> QED
            BY <1>2, <3>1, <3>2
    <2>2. text[x] = shown[x] /\ text[x] \notin Codes /\ x \in 1 .. Len(text)
        BY <1>2, <1>4, <1>6, <2>1
    <2>3. ASSUME x + 1 =< Len(text) PROVE text[x + 1] \notin Codes
        <3>1. x + 1 \in 1 .. Len(text) /\ (x + 1) - 1 = x
            BY <2>1, <2>3
        <3>2. text[x] # Escape
            BY <1>5, <1>6, <2>2
        <3> QED
            BY <1>1, <3>1, <3>2
    <2> QED
        BY <1>4, <2>1, <2>2, <2>3
<1>7. ASSUME NEW y \in 1 .. n, NEW x \in 1 .. c, f[y] < x
      PROVE  f[y] \in Places(shown)
    <2> DEFINE z == f[y]
    <2>1. z \in Places(text) /\ z \in 1 .. c /\ z + 1 \in 1 .. c
        BY <1>1, <1>2, <1>7
    <2> HIDE DEF z
    <2>2. z + 1 =< Len(text)
        BY <1>1, <1>2, <2>1
    <2>3. text[z] \notin Codes /\ text[z + 1] \notin Codes
        BY <1>4, <2>1, <2>2
    <2>4. shown[z] \notin Codes /\ shown[z + 1] \notin Codes
        BY <1>2, <2>1, <2>3
    <2>5. z \in 1 .. Len(shown)
        BY <1>2, <2>1
    <2> QED
        BY <1>4, <2>4, <2>5 DEF z
<1> DEFINE P == Places(shown)
           U == Uncoloured(shown)
<1>8. PICK w \in Nat : \E g \in [1 .. w -> Nat] :
         Enumerates(g, P) /\ U = [k \in 1 .. w |-> shown[g[k]]]
    BY <1>2, UncolouredPlaces
<1>9. PICK g \in [1 .. w -> Nat] : Enumerates(g, P) /\ U = [k \in 1 .. w |-> shown[g[k]]]
    BY <1>8
<1>10. /\ \A k \in 1 .. w : g[k] \in P
       /\ \A k, l \in 1 .. w : k < l => g[k] < g[l]
       /\ \A x \in P : \E k \in 1 .. w : g[k] = x
    BY <1>9 DEF Enumerates
<1>11. U \in Seq(Text) /\ Len(U) = w /\ DOMAIN U = 1 .. w
    <2>1. \A k \in 1 .. w : shown[g[k]] \in Text
        BY <1>2, <1>4, <1>10
    <2> HIDE DEF U
    <2> QED
        BY <1>9, <2>1
<1>12. PICK x \in 1 .. w : Begins(U, x, p)
    <2> HIDE DEF U
    <2> QED
        BY <1>3, <1>11 DEF contains_bytes, U
<1> HIDE DEF U, P
<1>13. x + m - 1 =< w /\ \A k \in 1 .. m : U[x + k - 1] = p[k]
    <2>1. x \in Nat \ {0}
        OBVIOUS
    <2> QED
        BY <1>11, <1>12, <2>1, BeginsAt DEF m
<1> DEFINE h == [k \in 1 .. m |-> g[x + k - 1]]
<1>14. ASSUME NEW k \in 1 .. m
       PROVE  /\ x + k - 1 \in 1 .. w /\ h[k] = g[x + k - 1] /\ h[k] \in P
              /\ h[k] \in Nat /\ shown[h[k]] = p[k] /\ shown[h[k]] \in Letters
    <2>1. x + k - 1 \in 1 .. w
        BY <1>3, <1>13
    <2>2. h[k] = g[x + k - 1]
        OBVIOUS
    <2> HIDE DEF h
    <2>3. h[k] \in P /\ h[k] \in Nat /\ shown[h[k]] = p[k]
        BY <1>9, <1>10, <1>13, <2>1, <2>2
    <2> QED
        BY <1>3, <2>1, <2>2, <2>3
<1>15. h \in [1 .. m -> Nat]
    <2>1. h = [k \in 1 .. m |-> h[k]]
        OBVIOUS
    <2> HIDE DEF h
    <2> QED
        BY <1>14, <2>1
<1> HIDE DEF h
<1>16. ASSUME NEW k \in 1 .. m, NEW l \in 1 .. m, k < l
       PROVE  h[k] < h[l]
    <2>1. x + k - 1 < x + l - 1
        BY <1>16
    <2> QED
        BY <1>10, <1>14, <2>1
<1>17. ASSUME NEW k \in 1 .. m
       PROVE  \E y \in 1 .. n : f[y] = h[k]
    <2>1. h[k] \in Places(text)
        BY <1>6, <1>14 DEF P
    <2> QED
        BY <1>1, <2>1
<1>18. ASSUME NEW k \in 1 .. m, k < m, NEW y \in 1 .. n, h[k] < f[y], f[y] < h[k + 1]
       PROVE  FALSE
    <2>1. k + 1 \in 1 .. m
        BY <1>3, <1>18
    <2>2. h[k + 1] \in 1 .. c
        BY <1>6, <1>14, <2>1 DEF P
    <2>3. f[y] \in P
        BY <1>7, <1>18, <2>2 DEF P
    <2>4. PICK v \in 1 .. w : g[v] = f[y]
        BY <1>10, <2>3
    <2> DEFINE a == x + k - 1
    <2>5. /\ a \in 1 .. w /\ a + 1 \in 1 .. w /\ g[a] = h[k] /\ g[a + 1] = h[k + 1]
        <3>1. x + (k + 1) - 1 = a + 1
            OBVIOUS
        <3> QED
            BY <1>14, <2>1, <3>1
    <2> HIDE DEF a
    <2>6. g[a] < g[v] /\ g[v] < g[a + 1]
        BY <1>18, <2>4, <2>5
    <2>7. /\ v < a => g[v] < g[a]
          /\ a + 1 < v => g[a + 1] < g[v]
        BY <1>10, <2>4, <2>5
    <2>8. v = a \/ v = a + 1 \/ v < a \/ a + 1 < v
        BY <2>4, <2>5
    <2>9. g[a] \in Nat /\ g[v] \in Nat /\ g[a + 1] \in Nat
        BY <2>4, <2>5
    <2> QED
        BY <2>6, <2>7, <2>8, <2>9
<1>19. PICK y \in 1 .. n : \A k \in 1 .. m : y + k - 1 \in 1 .. n /\ f[y + k - 1] = h[k]
    <2>1. Adjoins(f, n, h, m)
        BY <1>17, <1>18 DEF Adjoins
    <2>2. n \in Nat /\ f \in [1 .. n -> Nat] /\ m \in Nat \ {0} /\ h \in [1 .. m -> Nat]
        BY <1>1, <1>3, <1>15
    <2>3. Ascends(f, n) /\ Ascends(h, m)
        BY <1>1, <1>16 DEF Ascends
    <2> QED
        BY <2>1, <2>2, <2>3, NextToEachOther
<1>20. ASSUME NEW k \in 1 .. m
       PROVE  bytes[y + k - 1] = p[k]
    <2>1. y + k - 1 \in 1 .. n /\ f[y + k - 1] = h[k]
        BY <1>19
    <2>2. text[h[k]] = bytes[y + k - 1]
        BY <1>1, <2>1
    <2>3. text[h[k]] = shown[h[k]] /\ shown[h[k]] = p[k]
        BY <1>6, <1>14 DEF P
    <2> QED
        BY <2>2, <2>3
<1>21. y + m - 1 =< n
    BY <1>3, <1>19
<1>22. y \in Nat \ {0} /\ y \in DOMAIN bytes
    BY <1>19 DEF n
<1>23. Begins(bytes, y, p)
    BY <1>20, <1>21, <1>22, BeginsAt DEF m, n
<1> QED
    BY <1>22, <1>23 DEF contains_bytes
----------------------------------------------------------------------------
(* The formats.                                                            *)

\* What is rendered of a packet before it is written.
Rendered(bytes, color) ==
    IF color /\ profile.format \in {"raw", "compact"}
    THEN Highlighted(bytes, Patterns(profile.highlight)) ELSE bytes

\* What a profile spells out has its type.
LEMMA ProfileType ==
    ASSUME TypeOK
    PROVE  /\ Patterns(profile.highlight) \in Seq(Nonempty)
           /\ Secrets \in Seq(Nonempty)
           /\ profile.format \in Formats /\ profile.color \in BOOLEAN
<1>1. /\ profile.highlight \in Seq(Seq(Letters)) /\ profile.redact \in Seq(Seq(Letters))
      /\ profile.format \in Formats /\ profile.color \in BOOLEAN
    BY PacketsAssumption DEF TypeOK
<1> QED
    BY <1>1, PatternsType DEF Secrets

\* A packet carries its bytes, one after the other.
LEMMA PacketCarriesItself ==
    ASSUME NEW bytes \in Seq(Bytes)
    PROVE  \E f : Carries(bytes, f, bytes)
<1> DEFINE n == Len(bytes)
           f == [k \in 1 .. n |-> k]
<1>1. n \in Nat /\ DOMAIN bytes = 1 .. n /\ bytes \in Seq(Raw) /\ bytes \in Seq(Bytes)
    BY DEF Raw
<1>2. \A k \in 1 .. n : bytes[k] \notin Codes
    BY <1>1, Alphabet
<1>3. NoCodes(bytes)
    BY <1>1, <1>2 DEF NoCodes, ToSet
<1>4. Places(bytes) = 1 .. n
    BY <1>1, <1>3, UncolouredSame
<1>5. /\ f \in [1 .. n -> 1 .. n] /\ Enumerates(f, 1 .. n) /\ \A k \in 1 .. n : f[k] = k
    BY <1>1 DEF Enumerates
<1> HIDE DEF f
<1>6. Carries(bytes, f, bytes)
    BY <1>1, <1>2, <1>4, <1>5 DEF Carries
<1> QED
    BY <1>6

\* So does what is highlighted.
LEMMA ColouredCarries ==
    ASSUME NEW bytes \in Seq(Bytes), NEW patterns, NEW text, NEW f,
           Coloured(text, f, 1, bytes, patterns)
    PROVE  Carries(text, f, bytes)
<1> DEFINE n == Len(bytes)
<1>1. /\ text \in Seq(Raw) /\ f \in [1 .. n -> DOMAIN text] /\ DOMAIN f = 1 .. n
      /\ \A k, l \in 1 .. n : k < l => f[k] < f[l]
      /\ \A k \in 1 .. n : text[f[k]] = bytes[k]
      /\ Places(text) = {f[k] : k \in 1 .. n}
      /\ \A j \in DOMAIN text : text[j] \in Codes => j > 1 /\ text[j - 1] = Escape
    BY DEF Coloured
<1>2. DOMAIN text = 1 .. Len(text)
    BY <1>1
<1>3. Enumerates(f, Places(text))
    BY <1>1 DEF Enumerates
<1> QED
    BY <1>1, <1>2, <1>3 DEF Carries

\* So does what is rendered, in every format.
LEMMA RenderedCarries ==
    ASSUME TypeOK, NEW bytes \in Seq(Bytes), NEW color \in BOOLEAN
    PROVE  /\ \E f : Carries(Rendered(bytes, color), f, bytes)
           /\ Rendered(bytes, color) \in Seq(Raw)
<1>1. CASE color /\ profile.format \in {"raw", "compact"}
    <2> DEFINE patterns == Patterns(profile.highlight)
               text == Highlighted(bytes, patterns)
    <2>1. patterns \in Seq(Nonempty)
        BY ProfileType
    <2>2. PICK f : Coloured(text, f, 1, bytes, patterns)
        <3> HIDE DEF patterns
        <3> QED
            BY <2>1, HighlightedIs
    <2> HIDE DEF text, patterns
    <2>3. Carries(text, f, bytes)
        BY <2>2, ColouredCarries
    <2>4. Rendered(bytes, color) = text
        BY <1>1 DEF Rendered, text, patterns
    <2> QED
        BY <2>3, <2>4 DEF Carries
<1>2. CASE ~(color /\ profile.format \in {"raw", "compact"})
    <2>1. Rendered(bytes, color) = bytes
        BY <1>2 DEF Rendered
    <2>2. bytes \in Seq(Raw)
        BY DEF Raw
    <2> QED
        BY <2>1, <2>2, PacketCarriesItself
<1> QED
    BY <1>1, <1>2

\* What replaces a character that cannot be shown is no letter and no code.
LEMMA LossyShows ==
    ASSUME NEW text \in Seq(Raw)
    PROVE  /\ Shows(from_utf8_lossy(text), text, Len(text))
           /\ from_utf8_lossy(text) \in Seq(Text)
           /\ Len(from_utf8_lossy(text)) = Len(text)
<1> DEFINE s == from_utf8_lossy(text)
           n == Len(text)
<1>1. /\ n \in Nat /\ Len(text) = n /\ DOMAIN text = 1 .. n
      /\ \A x \in 1 .. n : text[x] \in Raw
      /\ s = [x \in 1 .. n |-> s[x]]
      /\ \A x \in 1 .. n : s[x] = IF text[x] = NotUtf8 THEN Replacement ELSE text[x]
    BY DEF from_utf8_lossy
<1> HIDE DEF s
<1>2. \A x \in 1 .. n : /\ s[x] \in Text
                        /\ s[x] \in Codes <=> text[x] \in Codes
                        /\ s[x] \in Letters => s[x] = text[x]
    BY <1>1, Alphabet DEF Raw
<1>3. s \in Seq(Text) /\ Len(s) = n
    BY <1>1, <1>2
<1> HIDE DEF n
<1>4. Shows(s, text, n)
    BY <1>1, <1>2, <1>3 DEF Shows
<1> QED
    BY <1>3, <1>4 DEF n, s

\* The compact format cuts, and writes dots for control characters.
LEMMA CompactShows ==
    ASSUME NEW text \in Seq(Raw)
    PROVE  \E c : Shows(render_compact(text).text, text, c)
<1> DEFINE lossy == from_utf8_lossy(text)
           n == Len(text)
           line == [k \in 1 .. n |-> IF lossy[k] \in Controls THEN Dot ELSE lossy[k]]
           cut == SubSeq(line, 1, PreviewLen) \o <<Ellipsis>>
           shown == render_compact(text).text
<1>1. n \in Nat /\ DOMAIN text = 1 .. n /\ PreviewLen \in Nat
    BY PacketsAssumption
<1>2. /\ lossy \in Seq(Text) /\ Len(lossy) = n
      /\ \A x \in 1 .. n : lossy[x] \in Codes <=> text[x] \in Codes
      /\ \A x \in 1 .. n : lossy[x] \in Letters => lossy[x] = text[x]
    BY LossyShows DEF Shows
<1>3. shown = IF Len(line) > PreviewLen THEN cut ELSE line
    BY <1>1 DEF render_compact, Written
<1> HIDE DEF lossy
<1>4. \A x \in 1 .. n : /\ line[x] \in Text
                        /\ line[x] \in Codes <=> text[x] \in Codes
                        /\ line[x] \in Letters => line[x] = text[x]
    <2> SUFFICES ASSUME NEW x \in 1 .. n
                 PROVE  /\ line[x] \in Text
                        /\ line[x] \in Codes <=> text[x] \in Codes
                        /\ line[x] \in Letters => line[x] = text[x]
        OBVIOUS
    <2>1. line[x] = IF lossy[x] \in Controls THEN Dot ELSE lossy[x]
        OBVIOUS
    <2> HIDE DEF line
    <2>2. lossy[x] \in Text
        BY <1>2
    <2>3. CASE lossy[x] \in Controls
        <3>1. lossy[x] \notin Codes
            BY <2>3, Alphabet
        <3>2. Dot \in Text /\ Dot \notin Codes /\ Dot \notin Letters
            BY Alphabet
        <3> QED
            BY <1>2, <2>1, <2>3, <3>1, <3>2
    <2>4. CASE lossy[x] \notin Controls
        BY <1>2, <2>1, <2>2, <2>4
    <2> QED
        BY <2>3, <2>4
<1>5. line \in Seq(Text) /\ Len(line) = n
    <2>1. line = [x \in 1 .. n |-> line[x]]
        OBVIOUS
    <2> HIDE DEF line
    <2> QED
        BY <1>1, <1>4, <2>1
<1> HIDE DEF line
<1>6. CASE Len(line) > PreviewLen
    <2>1. /\ cut \in Seq(Text) /\ Len(cut) = PreviewLen + 1 /\ cut[PreviewLen + 1] = Ellipsis
          /\ \A x \in 1 .. PreviewLen : cut[x] = line[x] /\ x \in 1 .. n
        <3> DEFINE s == SubSeq(line, 1, PreviewLen)
        <3>1. /\ s \in Seq(Text) /\ Len(s) = PreviewLen
              /\ \A x \in 1 .. PreviewLen : s[x] = line[x] /\ x \in 1 .. n
            BY <1>1, <1>5, <1>6
        <3>2. Ellipsis \in Text
            BY Alphabet
        <3> HIDE DEF s
        <3>3. /\ s \o <<Ellipsis>> \in Seq(Text) /\ Len(s \o <<Ellipsis>>) = PreviewLen + 1
              /\ (s \o <<Ellipsis>>)[PreviewLen + 1] = Ellipsis
              /\ \A x \in 1 .. PreviewLen : (s \o <<Ellipsis>>)[x] = s[x]
            BY <1>1, <3>1, <3>2
        <3> QED
            BY <3>1, <3>3 DEF s
    <2> HIDE DEF cut
    <2>2. Shows(cut, text, PreviewLen)
        BY <1>1, <1>4, <1>5, <1>6, <2>1 DEF Shows
    <2> QED
        BY <1>3, <1>6, <2>2
<1>7. CASE ~(Len(line) > PreviewLen)
    <2> DEFINE k == n
    <2>1. /\ k \in Nat /\ Len(text) = k /\ Len(line) = k /\ line \in Seq(Text)
          /\ \A x \in 1 .. k : /\ line[x] \in Codes <=> text[x] \in Codes
                               /\ line[x] \in Letters => line[x] = text[x]
        BY <1>1, <1>4, <1>5
    <2> HIDE DEF k
    <2>2. Shows(line, text, k)
        <3>1. k =< Len(text) /\ (Len(line) = k \/ (Len(line) = k + 1 /\ line[k + 1] = Ellipsis))
            BY <2>1
        <3>2. k \in Nat /\ k =< Len(text) /\ line \in Seq(Text)
            BY <2>1, <3>1
        <3>3. \A x \in 1 .. k : /\ line[x] \in Codes <=> text[x] \in Codes
                                /\ line[x] \in Letters => line[x] = text[x]
            BY <2>1
        <3> HIDE DEF n
        <3> QED
            BY <3>1, <3>2, <3>3, Zenon DEF Shows
    <2> QED
        BY <1>3, <1>7, <2>2
<1> QED
    BY <1>6, <1>7

\* The column beside the digits writes dots.
LEMMA HexdumpShows ==
    ASSUME NEW bytes \in Seq(Bytes)
    PROVE  Shows(render_hexdump(bytes).text, bytes, Len(bytes))
<1> DEFINE s == render_hexdump(bytes).text
           n == Len(bytes)
<1>1. /\ n \in Nat /\ Len(bytes) = n /\ DOMAIN bytes = 1 .. n
      /\ \A x \in 1 .. n : bytes[x] \in Bytes
      /\ s = [x \in 1 .. n |-> s[x]]
      /\ \A x \in 1 .. n : s[x] = IF bytes[x] \in Controls \union {NotUtf8} THEN Dot ELSE bytes[x]
    BY DEF render_hexdump, Written
<1> HIDE DEF s
<1>2. \A x \in 1 .. n : /\ s[x] \in Text
                        /\ s[x] \in Codes <=> bytes[x] \in Codes
                        /\ s[x] \in Letters => s[x] = bytes[x]
    BY <1>1, Alphabet
<1>3. s \in Seq(Text) /\ Len(s) = n
    BY <1>1, <1>2
<1> HIDE DEF n
<1>4. Shows(s, bytes, n)
    BY <1>1, <1>2, <1>3 DEF Shows
<1> QED
    BY <1>4 DEF n, s

\* In every format, what is written shows what is rendered, and the digits, if
\* there are any, are the packet.
LEMMA RenderShows ==
    ASSUME TypeOK, NEW bytes \in Seq(Bytes), NEW color \in BOOLEAN
    PROVE  /\ \E c : Shows(render(bytes, color).text, Rendered(bytes, color), c)
           /\ render(bytes, color).digits \in {<<>>, bytes}
           /\ render(bytes, color) \in Renderings
           /\ profile.format = "raw" =>
                 render(bytes, color).text = from_utf8_lossy(Rendered(bytes, color))
<1> DEFINE r == render(bytes, color)
           text == Rendered(bytes, color)
<1>1. text \in Seq(Raw) /\ bytes \in Seq(Raw)
    BY RenderedCarries DEF Raw
<1>2. profile.format \in {"raw", "compact", "hexdump", "base64", "json"}
    BY ProfileType DEF Formats
<1>3. ASSUME \E c : Shows(r.text, text, c), r.digits \in {<<>>, bytes}, r = Written(r.text, r.digits)
      PROVE  r \in Renderings
    <2> HIDE DEF r, text
    <2>1. r.text \in Seq(Text)
        BY <1>3 DEF Shows
    <2>2. r.digits \in Seq(Bytes)
        <3>1. r.digits = <<>> \/ r.digits = bytes
            BY <1>3
        <3>2. <<>> \in Seq(Bytes) /\ bytes \in Seq(Bytes)
            OBVIOUS
        <3> HIDE DEF r
        <3> QED
            BY <3>1, <3>2
    <2> QED
        BY <1>3, <2>1, <2>2 DEF Renderings, Written
<1>4. CASE profile.format = "raw"
    <2>1. r = render_raw(text)
        BY <1>4 DEF render, Rendered
    <2>2. r.text = from_utf8_lossy(text) /\ r.digits = <<>> /\ r = Written(r.text, r.digits)
        BY <2>1 DEF render_raw, Written
    <2> HIDE DEF r, text
    <2>3. Shows(r.text, text, Len(text))
        BY <1>1, <2>2, LossyShows
    <2> QED
        BY <1>3, <2>2, <2>3 DEF r, text
<1>5. CASE profile.format = "compact"
    <2>1. r = render_compact(text)
        BY <1>5 DEF render, Rendered
    <2>2. r.digits = <<>> /\ r = Written(r.text, r.digits)
        BY <2>1 DEF render_compact, Written
    <2> HIDE DEF r, text
    <2>3. \E c : Shows(r.text, text, c)
        BY <1>1, <2>1, CompactShows
    <2> QED
        BY <1>3, <1>5, <2>2, <2>3 DEF r, text
<1>6. ASSUME profile.format \notin {"raw", "compact"}
      PROVE  text = bytes
    BY <1>6 DEF Rendered
<1>7. CASE profile.format = "hexdump"
    <2>1. r = render_hexdump(bytes)
        BY <1>7 DEF render
    <2>2. r.digits = bytes /\ r = Written(r.text, r.digits)
        BY <2>1 DEF render_hexdump, Written
    <2> HIDE DEF r, text
    <2>3. Shows(r.text, text, Len(bytes))
        BY <1>6, <1>7, <2>1, HexdumpShows
    <2> QED
        BY <1>3, <1>7, <2>2, <2>3 DEF r, text
<1>8. CASE profile.format = "base64"
    <2>1. r = render_base64(bytes)
        BY <1>8 DEF render
    <2>2. r.text = <<>> /\ r.digits = bytes /\ r = Written(r.text, r.digits)
        BY <2>1 DEF render_base64, Written
    <2> HIDE DEF r, text
    <2>3. Shows(<<>>, text, 0)
        <3>1. /\ Len(text) \in Nat /\ <<>> \in Seq(Text) /\ Len(<<>>) = 0 /\ 1 .. 0 = {}
              /\ 0 \in Nat /\ 0 =< Len(text)
            BY <1>1
        <3> QED
            BY <3>1 DEF Shows
    <2> QED
        BY <1>3, <1>8, <2>2, <2>3 DEF r, text
<1>9. CASE profile.format = "json"
    <2>1. r = render_json(bytes)
        BY <1>9 DEF render
    <2>2. r.text = from_utf8_lossy(bytes) /\ r.digits = bytes /\ r = Written(r.text, r.digits)
        BY <2>1 DEF render_json, Written
    <2> HIDE DEF r, text
    <2>3. Shows(r.text, text, Len(bytes))
        BY <1>1, <1>6, <1>9, <2>2, LossyShows
    <2> QED
        BY <1>3, <1>9, <2>2, <2>3 DEF r, text
<1> QED
    BY <1>2, <1>4, <1>5, <1>7, <1>8, <1>9

\* Of a packet that is not highlighted, no code is shown.
LEMMA ShowsNoCodes ==
    ASSUME NEW bytes \in Seq(Bytes), NEW shown, NEW c, Shows(shown, bytes, c)
    PROVE  NoCodes(shown)
<1>1. /\ c \in Nat /\ c =< Len(bytes) /\ shown \in Seq(Text)
      /\ Len(shown) = c \/ (Len(shown) = c + 1 /\ shown[c + 1] = Ellipsis)
      /\ \A x \in 1 .. c : shown[x] \in Codes <=> bytes[x] \in Codes
    BY DEF Shows
<1>2. ASSUME NEW x \in DOMAIN shown
      PROVE  shown[x] \notin Codes
    <2>1. CASE x \in 1 .. c
        <3>1. x \in 1 .. Len(bytes)
            BY <1>1, <2>1
        <3>2. bytes[x] \in Bytes
            BY <3>1
        <3> QED
            BY <1>1, <2>1, <3>2, Alphabet
    <2>2. CASE x \notin 1 .. c
        <3>1. x = c + 1 /\ shown[c + 1] = Ellipsis
            BY <1>1, <2>2
        <3> QED
            BY <3>1, Alphabet
    <2> QED
        BY <2>1, <2>2
<1> QED
    BY <1>2 DEF NoCodes, ToSet

----------------------------------------------------------------------------
(* The invariant is one.                                                   *)

\* The invariant holds in the first states.
LEMMA InitPackets ==
    ASSUME Init
    PROVE  PacketsInv
<1>1. /\ stream \in [direction : Directions, bytes : Seq(Bytes)]
      /\ <<>> \in Seq(Bytes) /\ Len(<<>>) = 0 /\ BufferLen \in Nat
    BY PacketsAssumption DEF Init
<1>2. Nothing \in Renderings
    BY DEF Nothing, Renderings
<1>3. turn \in 1 .. Len(Secrets) + 1
    <2>1. profile.redact \in Seq(Seq(Letters))
        BY PacketsAssumption DEF Init
    <2> QED
        BY <2>1, PatternsType DEF Init, Secrets
<1>4. TypeOK
    BY <1>1, <1>2, <1>3 DEF Init, TypeOK
<1>5. NoCodes(Nothing.text)
    BY DEF NoCodes, Nothing, ToSet
<1>6. PrintInv
    BY <1>5 DEF Init, PrintInv
<1>7. RedactInv
    BY DEF Init, RedactInv
<1> QED
    BY <1>4, <1>6, <1>7 DEF PacketsInv

\* What does not change with the profile and the chunk.
LEMMA SecretsStay ==
    ASSUME profile' = profile
    PROVE  /\ Secrets' = Secrets
           /\ StarFree' <=> StarFree
           /\ chunk' = chunk => \A k : InSecret(k)' <=> InSecret(k)
<1>1. Secrets' = Secrets
    BY DEF Secrets
<1>2. StarFree' <=> StarFree
    BY <1>1 DEF StarFree
<1>3. ASSUME chunk' = chunk, NEW k
      PROVE  InSecret(k)' <=> InSecret(k)
    BY <1>1, <1>3 DEF InSecret
<1> QED
    BY <1>1, <1>2, <1>3

\* A read begins with a packet that is the chunk.
LEMMA ReadKeeps ==
    ASSUME PacketsInv, Read
    PROVE  PacketsInv'
<1>1. PICK n \in 1 .. BufferLen :
         /\ n =< Len(stream.bytes)
         /\ chunk' = SubSeq(stream.bytes, 1, n)
         /\ stream' = [stream EXCEPT !.bytes = SubSeq(@, n + 1, Len(@))]
    BY DEF Read
<1>2. /\ stream.bytes \in Seq(Bytes) /\ stream.direction \in Directions /\ BufferLen \in Nat
      /\ stream \in [direction : Directions, bytes : Seq(Bytes)]
    BY PacketsAssumption DEF PacketsInv, TypeOK
<1>3. chunk' \in Seq(Bytes) /\ Len(chunk') = n /\ Len(chunk') =< BufferLen
    BY <1>1, <1>2
<1>4. SubSeq(stream.bytes, n + 1, Len(stream.bytes)) \in Seq(Bytes)
    BY <1>1, <1>2
<1>5. stream' \in [direction : Directions, bytes : Seq(Bytes)]
    BY <1>1, <1>2, <1>4
<1>6. Secrets' = Secrets
    BY SecretsStay DEF Read
<1>7. TypeOK'
    BY <1>3, <1>5, <1>6 DEF Read, PacketsInv, TypeOK
<1>8. RedactInv'
    BY DEF Read, RedactInv
<1>9. PrintInv'
    BY DEF Read, PacketsInv, PrintInv, NoCodes
<1> QED
    BY <1>7, <1>8, <1>9 DEF PacketsInv

\* A packet that is not selected is forgotten.
LEMMA DiscardKeeps ==
    ASSUME PacketsInv, Discard
    PROVE  PacketsInv'
<1>1. Secrets' = Secrets
    BY SecretsStay DEF Discard
<1>2. TypeOK'
    BY <1>1 DEF Discard, PacketsInv, TypeOK
<1>3. RedactInv'
    BY DEF Discard, RedactInv
<1>4. PrintInv'
    BY DEF Discard, PacketsInv, PrintInv, NoCodes
<1> QED
    BY <1>2, <1>3, <1>4 DEF PacketsInv

\* No pattern has had its turn on one that is.
LEMMA KeepKeeps ==
    ASSUME PacketsInv, Keep
    PROVE  PacketsInv'
<1>1. Secrets' = Secrets
    BY SecretsStay DEF Keep
<1>2. TypeOK'
    BY <1>1, ProfileType DEF Keep, PacketsInv, TypeOK
<1>3. RedactInv'
    BY DEF Keep, PacketsInv, RedactInv
<1>4. PrintInv'
    BY DEF Keep, PacketsInv, PrintInv, NoCodes
<1> QED
    BY <1>2, <1>3, <1>4 DEF PacketsInv

\* The pattern whose turn it is is nowhere when it has been masked; one whose
\* turn was before does not come back, and every mask is on part of a secret,
\* as what stars may have hidden of one had no star.
LEMMA RedactKeeps ==
    ASSUME PacketsInv, Redact
    PROVE  PacketsInv'
<1> DEFINE q == Secrets[turn]
           n == Len(packet)
<1>1. /\ Secrets' = Secrets /\ (StarFree' <=> StarFree)
      /\ \A k : InSecret(k)' <=> InSecret(k)
    BY SecretsStay DEF Redact
<1>2. /\ Secrets \in Seq(Nonempty) /\ turn \in 1 .. Len(Secrets)
      /\ \A j \in 1 .. turn : Secrets[j] \in Nonempty /\ Secrets[j] \in ToSet(Secrets)
    <2>1. Secrets \in Seq(Nonempty) /\ turn \in 1 .. Len(Secrets)
        BY ProfileType DEF Redact, PacketsInv, TypeOK
    <2> QED
        BY <2>1 DEF ToSet
<1>3. /\ packet \in Seq(Bytes) /\ n \in Nat /\ Len(chunk) = n /\ chunk \in Seq(Bytes)
      /\ packet' = Masked(packet, q) /\ q \in Nonempty /\ q \in ToSet(Secrets)
    BY <1>2 DEF Redact, PacketsInv, TypeOK
<1>4. /\ packet' \in Seq(Bytes) /\ Len(packet') = n
      /\ \A k \in 1 .. n :
            packet'[k] # packet[k] =>
               /\ packet'[k] = Star
               /\ \E i \in 1 .. n : Begins(packet, i, q) /\ k \in i .. i + Len(q) - 1
    <2> HIDE DEF q
    <2> QED
        BY <1>3, MaskedFacts
<1>5. TypeOK'
    BY <1>1, <1>2, <1>3, <1>4 DEF Redact, PacketsInv, TypeOK
<1> HIDE DEF q
<1>6. ASSUME StarFree
      PROVE  /\ \A j \in 1 .. turn : ~contains_bytes(packet', Secrets[j])
             /\ \A k \in 1 .. n : packet'[k] # chunk[k] => packet'[k] = Star /\ InSecret(k)
    <2>1. /\ \A j \in 1 .. turn - 1 : ~contains_bytes(packet, Secrets[j])
          /\ \A k \in 1 .. n : packet[k] # chunk[k] => packet[k] = Star /\ InSecret(k)
        BY <1>3, <1>6 DEF Redact, PacketsInv, RedactInv
    <2>2. ASSUME NEW j \in 1 .. turn
          PROVE  ~contains_bytes(packet', Secrets[j])
        <3> DEFINE p == Secrets[j]
        <3>1. p \in Nonempty /\ Star \notin ToSet(p)
            BY <1>2, <1>6 DEF StarFree
        <3>2. CASE j = turn
            <4>1. p = q
                BY <3>2 DEF q
            <4> HIDE DEF p
            <4>2. ~contains_bytes(packet', p)
                BY <1>3, <3>1, <4>1, MaskedHides
            <4> QED
                BY <4>2 DEF p
        <3>3. CASE j # turn
            <4>1. ~contains_bytes(packet, p)
                BY <1>2, <2>1, <3>3
            <4> HIDE DEF p
            <4>2. \A k \in 1 .. Len(packet) : packet'[k] = packet[k] \/ packet'[k] \notin ToSet(p)
                BY <1>4, <3>1
            <4>3. ASSUME NEW i \in DOMAIN packet', Begins(packet', i, p)
                  PROVE  FALSE
                <5>1. i \in Nat \ {0} /\ Len(packet') = Len(packet)
                    BY <1>4, <4>3
                <5>2. i \in DOMAIN packet /\ Begins(packet, i, p)
                    BY <1>3, <1>4, <3>1, <4>2, <4>3, <5>1, BeginsBefore
                <5> QED
                    BY <4>1, <5>2 DEF contains_bytes
            <4>4. p # <<>>
                BY <3>1 DEF Nonempty
            <4>5. ~contains_bytes(packet', p)
                BY <4>3, <4>4 DEF contains_bytes
            <4> QED
                BY <4>5 DEF p
        <3> QED
            BY <3>2, <3>3
    <2>3. ASSUME NEW k \in 1 .. n, packet'[k] # chunk[k]
          PROVE  packet'[k] = Star /\ InSecret(k)
        <3>1. CASE packet'[k] = packet[k]
            BY <2>1, <2>3, <3>1
        <3>2. CASE packet'[k] # packet[k]
            <4>1. PICK i \in 1 .. n : Begins(packet, i, q) /\ k \in i .. i + Len(q) - 1
                BY <1>4, <3>2
            <4>2. Star \notin ToSet(q)
                BY <1>3, <1>6 DEF StarFree
            <4>3. \A x \in 1 .. Len(chunk) : packet[x] = chunk[x] \/ packet[x] \notin ToSet(q)
                BY <1>3, <2>1, <4>2
            <4>4. i \in Nat \ {0} /\ Len(packet) = Len(chunk)
                BY <1>3
            <4>5. i \in DOMAIN chunk /\ Begins(chunk, i, q)
                BY <1>3, <4>1, <4>3, <4>4, BeginsBefore
            <4>6. InSecret(k)
                BY <1>3, <4>1, <4>5 DEF InSecret
            <4> QED
                BY <1>4, <3>2, <4>6
        <3> QED
            BY <3>1, <3>2
    <2> QED
        BY <2>2, <2>3
<1>7. RedactInv'
    <2>1. at' = "redact" /\ turn' = turn + 1 /\ chunk' = chunk /\ turn \in Nat
          /\ DOMAIN packet' = 1 .. n /\ turn' - 1 = turn
        BY <1>2, <1>4 DEF Redact
    <2> HIDE DEF n
    <2> QED
        BY <1>1, <1>6, <2>1 DEF RedactInv
<1>8. PrintInv'
    BY DEF Redact, PacketsInv, PrintInv, NoCodes
<1> QED
    BY <1>5, <1>7, <1>8 DEF PacketsInv

\* What is rendered without colours, or in a format that has none, shows none.
LEMMA RenderNoCodes ==
    ASSUME TypeOK, NEW bytes \in Seq(Bytes), NEW color \in BOOLEAN,
           ~color \/ profile.format \notin {"raw", "compact"}
    PROVE  NoCodes(render(bytes, color).text)
<1>1. Rendered(bytes, color) = bytes
    BY DEF Rendered
<1>2. PICK c : Shows(render(bytes, color).text, Rendered(bytes, color), c)
    BY RenderShows
<1>3. Shows(render(bytes, color).text, bytes, c)
    BY <1>1, <1>2
<1> QED
    BY <1>3, ShowsNoCodes

\* What is printed is the rendering of the packet that is left.
LEMMA PrintKeeps ==
    ASSUME PacketsInv, PrintPacket
    PROVE  PacketsInv'
<1> DEFINE r == render(packet, profile.color)
<1>1. /\ Secrets' = Secrets /\ (StarFree' <=> StarFree)
      /\ \A k : InSecret(k)' <=> InSecret(k)
    BY SecretsStay DEF PrintPacket
<1>2. TypeOK /\ packet \in Seq(Bytes) /\ profile.color \in BOOLEAN /\ Secrets \in Seq(Nonempty)
    BY ProfileType DEF PacketsInv, TypeOK
<1>3. r \in Renderings
    BY <1>2, RenderShows
<1>4. TypeOK'
    <2> HIDE DEF r
    <2>1. printed' \in Renderings
        BY <1>3 DEF PrintPacket, r
    <2> QED
        BY <1>1, <2>1 DEF PrintPacket, PacketsInv, TypeOK
<1>5. turn = Len(Secrets) + 1
    BY <1>2 DEF PrintPacket, PacketsInv, TypeOK
<1>6. RedactInv'
    <2>1. at = "redact" /\ at' = "capture" /\ turn' = turn /\ packet' = packet /\ chunk' = chunk
        BY DEF PrintPacket
    <2>2. StarFree => /\ \A j \in 1 .. turn - 1 : ~contains_bytes(packet, Secrets[j])
                      /\ \A k \in DOMAIN packet : packet[k] # chunk[k] => packet[k] = Star /\ InSecret(k)
        BY <2>1 DEF PacketsInv, RedactInv
    <2> QED
        BY <1>1, <1>5, <2>1, <2>2 DEF RedactInv
<1>7. PrintInv'
    <2>1. printed' = r /\ profile' = profile /\ packet' = packet /\ captured' = captured
        BY DEF PrintPacket
    <2>2. render(packet, profile.color)' = r
        BY <2>1 DEF render
    <2>3. ~profile.color => NoCodes(r.text)
        BY <1>2, RenderNoCodes
    <2>4. profile.format \notin {"raw", "compact"} => NoCodes(r.text)
        BY <1>2, RenderNoCodes
    <2>5. NoCodes(captured.text)
        BY DEF PacketsInv, PrintInv
    <2> HIDE DEF r
    <2> QED
        BY <2>1, <2>2, <2>3, <2>4, <2>5 DEF PrintInv, NoCodes
<1> QED
    BY <1>4, <1>6, <1>7 DEF PacketsInv

\* What is captured is a rendering without colours.
LEMMA CaptureKeeps ==
    ASSUME PacketsInv, Capture
    PROVE  PacketsInv'
<1>1. Secrets' = Secrets
    BY SecretsStay DEF Capture
<1>2. TypeOK /\ packet \in Seq(Bytes) /\ profile.color \in BOOLEAN
    BY ProfileType DEF PacketsInv, TypeOK
<1>3. WithoutColor \in Renderings /\ NoCodes(WithoutColor.text)
    <2>1. CASE profile.color
        <3>1. WithoutColor = render(packet, FALSE)
            BY <2>1 DEF WithoutColor
        <3>2. FALSE \in BOOLEAN
            OBVIOUS
        <3>3. render(packet, FALSE) \in Renderings
            BY <1>2, <3>2, RenderShows
        <3>4. NoCodes(render(packet, FALSE).text)
            BY <1>2, <3>2, RenderNoCodes
        <3> QED
            BY <3>1, <3>3, <3>4
    <2>2. CASE ~profile.color
        BY <2>2 DEF WithoutColor, PacketsInv, TypeOK, PrintInv
    <2> QED
        BY <2>1, <2>2
<1>4. TypeOK'
    BY <1>1, <1>3 DEF Capture, PacketsInv, TypeOK
<1>5. RedactInv'
    BY DEF Capture, RedactInv
<1>6. PrintInv'
    BY <1>3 DEF Capture, PacketsInv, PrintInv, NoCodes
<1> QED
    BY <1>4, <1>5, <1>6 DEF PacketsInv

\* In every state, the patterns whose turn was are gone from the packet and
\* only parts of secrets are masked, and what is printed is a rendering of
\* the packet, with codes only where the profile asks for colours
\* (redact.rs:33-49, lib.rs:273-310).
THEOREM PacketsInvHolds == Spec => []PacketsInv
<1>1. Init => PacketsInv
    BY InitPackets
<1>2. PacketsInv /\ [Next]_vars => PacketsInv'
    <2> SUFFICES ASSUME PacketsInv, [Next]_vars
                 PROVE  PacketsInv'
        OBVIOUS
    <2>1. CASE Read
        BY <2>1, ReadKeeps
    <2>2. CASE Discard
        BY <2>2, DiscardKeeps
    <2>3. CASE Keep
        BY <2>3, KeepKeeps
    <2>4. CASE Redact
        BY <2>4, RedactKeeps
    <2>5. CASE PrintPacket
        BY <2>5, PrintKeeps
    <2>6. CASE Capture
        BY <2>6, CaptureKeeps
    <2>7. CASE UNCHANGED vars
        <3>1. /\ Secrets' = Secrets /\ (StarFree' <=> StarFree)
              /\ \A k : InSecret(k)' <=> InSecret(k)
            BY <2>7, SecretsStay DEF vars
        <3>2. TypeOK'
            BY <2>7, <3>1 DEF vars, PacketsInv, TypeOK
        <3>3. RedactInv'
            BY <2>7, <3>1 DEF vars, PacketsInv, RedactInv
        <3>4. PrintInv'
            BY <2>7 DEF vars, PacketsInv, PrintInv, NoCodes, render
        <3> QED
            BY <3>2, <3>3, <3>4 DEF PacketsInv
    <2> QED
        BY <2>1, <2>2, <2>3, <2>4, <2>5, <2>6, <2>7 DEF Next
<1> QED
    BY <1>1, <1>2, PTL DEF Spec

\* Every state has its type: in particular the scans end, and a packet is
\* never longer than the buffer (redact.rs:33-49, lib.rs:202-214).
THEOREM TypeCorrect == Spec => []TypeOK
<1>1. PacketsInv => TypeOK
    BY DEF PacketsInv
<1> QED
    BY <1>1, PacketsInvHolds, PTL

----------------------------------------------------------------------------
(* What is left of the secrets.                                            *)

\* Of a packet that is printed, no secret is left, in the text or in the
\* digits, whatever patterns overlap it or stand before it in the list; only
\* parts of secrets are masked; and the colours do not bring a secret back
\* (redact.rs:33-49, format.rs:93-124).
THEOREM RedactsSecretsOnlyHolds == Spec => []RedactsSecretsOnly
<1>1. PacketsInv => RedactsSecretsOnly
    <2> SUFFICES ASSUME PacketsInv, at = "capture",
                        {p \in ToSet(Secrets) : Star \notin ToSet(p)} = ToSet(Secrets)
                 PROVE  /\ \A p \in ToSet(Secrets) :
                              /\ ~contains_bytes(Uncoloured(printed.text), p)
                              /\ ~contains_bytes(printed.digits, p)
                        /\ \A k \in DOMAIN packet :
                              packet[k] # chunk[k] => packet[k] = Star /\ InSecret(k)
        <3> DEFINE S == {p \in ToSet(Secrets) : Star \notin ToSet(p)}
        <3>1. CASE at = "capture" /\ S = ToSet(Secrets)
            BY <3>1 DEF RedactsSecretsOnly, InSecret
        <3>2. CASE ~(at = "capture" /\ S = ToSet(Secrets))
            BY <3>2 DEF RedactsSecretsOnly
        <3> QED
            BY <3>1, <3>2
    <2>1. StarFree
        BY DEF StarFree
    <2>2. /\ TypeOK /\ packet \in Seq(Bytes) /\ profile.color \in BOOLEAN
          /\ Secrets \in Seq(Nonempty)
        BY ProfileType DEF PacketsInv, TypeOK
    <2>3. /\ \A j \in 1 .. turn - 1 : ~contains_bytes(packet, Secrets[j])
          /\ \A k \in DOMAIN packet : packet[k] # chunk[k] => packet[k] = Star /\ InSecret(k)
          /\ turn = Len(Secrets) + 1
        BY <2>1 DEF PacketsInv, RedactInv
    <2>4. ASSUME NEW p \in ToSet(Secrets)
          PROVE  /\ ~contains_bytes(Uncoloured(printed.text), p)
                 /\ ~contains_bytes(printed.digits, p)
        <3>1. p \in Nonempty /\ ~contains_bytes(packet, p)
            <4>1. PICK j \in DOMAIN Secrets : p = Secrets[j]
                BY DEF ToSet
            <4> QED
                BY <2>2, <2>3, <4>1
        <3>2. printed = render(packet, profile.color)
            BY DEF PacketsInv, PrintInv
        <3>3. PICK c : Shows(printed.text, Rendered(packet, profile.color), c)
            BY <2>2, <3>2, RenderShows
        <3>4. PICK f : Carries(Rendered(packet, profile.color), f, packet)
            BY <2>2, RenderedCarries
        <3>5. ~contains_bytes(Uncoloured(printed.text), p)
            BY <2>2, <3>1, <3>3, <3>4, ShowsNothingNew
        <3>6. printed.digits \in {<<>>, packet}
            BY <2>2, <3>2, RenderShows
        <3>7. ~contains_bytes(<<>>, p)
            BY <3>1 DEF contains_bytes, Nonempty
        <3> QED
            BY <3>1, <3>5, <3>6, <3>7
    <2> QED
        BY <2>3, <2>4
<1> QED
    BY <1>1, PacketsInvHolds, PTL

----------------------------------------------------------------------------
(* Where the colours are.                                                  *)

\* Letters, control characters and codes are written as they are, and nothing
\* else is written as one.
LEMMA LossyIs ==
    ASSUME NEW T \in Seq(Raw), NEW text, text = from_utf8_lossy(T)
    PROVE  /\ text \in Seq(Text) /\ Len(text) = Len(T)
           /\ \A k \in 1 .. Len(T) : text[k] = IF T[k] = NotUtf8 THEN Replacement ELSE T[k]
           /\ \A k \in 1 .. Len(T) : \A e \in Letters \union Controls \union Codes :
                 text[k] = e <=> T[k] = e
           /\ Places(text) = Places(T)
<1>1. text \in Seq(Text) /\ Len(text) = Len(T)
    BY LossyShows
<1>2. \A k \in 1 .. Len(T) : text[k] = IF T[k] = NotUtf8 THEN Replacement ELSE T[k]
    BY DEF from_utf8_lossy
<1>3. \A e \in Letters \union Controls \union Codes : e # Replacement /\ e # NotUtf8
    BY DEF Letters, Controls, Codes, Star, Escape, Red, Plain, Replacement, NotUtf8
<1>4. \A k \in 1 .. Len(T) : \A e \in Letters \union Controls \union Codes :
         text[k] = e <=> T[k] = e
    BY <1>2, <1>3
<1>5. \A k \in 1 .. Len(T) : text[k] \in Codes <=> T[k] \in Codes
    BY <1>4
<1>6. ASSUME NEW x
      PROVE  x \in Places(text) <=> x \in Places(T)
    <2>1. x \in Places(text) <=>
              /\ x \in 1 .. Len(text) /\ text[x] \notin Codes
              /\ x + 1 =< Len(text) => text[x + 1] \notin Codes
        BY <1>1, PlacesAre
    <2>2. x \in Places(T) <=>
              /\ x \in 1 .. Len(T) /\ T[x] \notin Codes
              /\ x + 1 =< Len(T) => T[x + 1] \notin Codes
        BY PlacesAre
    <2>3. x \in 1 .. Len(T) /\ x + 1 =< Len(T) => x + 1 \in 1 .. Len(T)
        OBVIOUS
    <2> QED
        BY <1>1, <1>5, <2>1, <2>2, <2>3
<1>7. Places(text) = Places(T)
    BY <1>6
<1> QED
    BY <1>1, <1>2, <1>4, <1>7

\* The least element of a set of numbers, by what is not below it.
LEMMA MinIs ==
    ASSUME NEW S, S \subseteq Nat, NEW e \in S, \A y \in S : e =< y
    PROVE  Min(S) = e
<1>1. \A y \in S : e =< y
    OBVIOUS
<1>2. Min(S) \in S /\ \A y \in S : Min(S) =< y
    BY <1>1 DEF Min
<1>3. Min(S) =< e /\ e =< Min(S) /\ Min(S) \in Nat /\ e \in Nat
    BY <1>1, <1>2
<1> QED
    BY <1>3

\* A part of a sequence, place by place.
LEMMA SubSeqIs ==
    ASSUME NEW E, NEW text \in Seq(E), NEW a \in 1 .. Len(text), NEW b \in a .. Len(text)
    PROVE  SubSeq(text, a, b) = [k \in 1 .. b - a + 1 |-> text[a + k - 1]]
OBVIOUS

\* Where a mark of a pattern is around a code, that is what is marked there.
LEMMA MarkedThere ==
    ASSUME NEW text \in Seq(Text), NEW j \in DOMAIN text, text[j] = Red,
           NEW q \in Nonempty, Around(text, j, q)
    PROVE  SubSeq(text, j - 1, Min({x \in DOMAIN text : x > j /\ text[x] = Plain})) = Mark(q)
<1> DEFINE plains == {x \in DOMAIN text : x > j /\ text[x] = Plain}
           m == Len(q)
           e == j + m + 2
           s == SubSeq(text, j - 1, e)
<1>1. /\ m \in Nat \ {0} /\ j \in Nat /\ j > 1 /\ DOMAIN text = 1 .. Len(text) /\ Len(text) \in Nat
      /\ \A k \in 1 .. m : q[k] \in Letters
    <2>1. m \in Nat \ {0} /\ \A k \in 1 .. m : q[k] \in Letters
        BY MarkIs DEF Nonempty
    <2> QED
        BY <2>1 DEF Around
<1>2. /\ e =< Len(text) /\ text[j - 1] = Escape /\ text[j + m + 1] = Escape /\ text[e] = Plain
      /\ \A k \in 1 .. m : text[j + k] = q[k]
    BY DEF Around
<1>3. \A y \in plains : e =< y
    <2> SUFFICES ASSUME NEW y \in DOMAIN text, y > j, text[y] = Plain, ~(e =< y)
                 PROVE  FALSE
        OBVIOUS
    <2>1. y \in Nat /\ (y - j \in 1 .. m \/ y = j + m + 1) /\ j + (y - j) = y
        <3>1. y \in Nat /\ y < j + m + 2
            BY <1>1
        <3> HIDE DEF m
        <3> QED
            BY <1>1, <3>1
    <2>2. CASE y - j \in 1 .. m
        <3>1. text[y] \in Letters
            BY <1>1, <1>2, <2>1, <2>2
        <3> QED
            BY <3>1, Alphabet
    <2>3. CASE y = j + m + 1
        BY <1>2, <2>3, Alphabet
    <2> QED
        BY <2>1, <2>2, <2>3
<1>4. Min(plains) = e
    <2>1. e \in plains /\ plains \subseteq Nat
        BY <1>1, <1>2
    <2> HIDE DEF plains, e
    <2> QED
        BY <1>3, <2>1, MinIs
<1>5. /\ s = [k \in 1 .. m + 4 |-> s[k]]
      /\ \A k \in 1 .. m + 4 : s[k] = text[j - 2 + k]
    <2>1. j - 1 \in 1 .. Len(text) /\ e \in (j - 1) .. Len(text) /\ e - (j - 1) + 1 = m + 4
        BY <1>1, <1>2
    <2>2. s = [k \in 1 .. e - (j - 1) + 1 |-> text[(j - 1) + k - 1]]
        BY <2>1, SubSeqIs
    <2>3. \A k \in Nat : (j - 1) + k - 1 = j - 2 + k
        BY <1>1
    <2> HIDE DEF s, e, m
    <2>4. s = [k \in 1 .. m + 4 |-> text[(j - 1) + k - 1]]
        BY <2>1, <2>2
    <2>5. \A k \in 1 .. m + 4 : s[k] = text[(j - 1) + k - 1]
        BY <2>4
    <2>6. s = [k \in 1 .. m + 4 |-> s[k]]
        BY <2>4
    <2>7. \A k \in 1 .. m + 4 : k \in Nat
        BY <1>1
    <2> QED
        BY <2>3, <2>5, <2>6, <2>7
<1>6. /\ Mark(q) = [k \in 1 .. m + 4 |-> Mark(q)[k]]
      /\ Mark(q)[1] = Escape /\ Mark(q)[2] = Red
      /\ \A k \in 1 .. m : Mark(q)[k + 2] = q[k]
      /\ Mark(q)[m + 3] = Escape /\ Mark(q)[m + 4] = Plain
    <2>1. Mark(q) \in Seq(Raw) /\ Len(Mark(q)) = m + 4
        BY MarkIs
    <2> QED
        BY <2>1, MarkIs
<1> HIDE DEF s, m
<1>7. ASSUME NEW k \in 1 .. m + 4
      PROVE  s[k] = Mark(q)[k]
    <2>1. s[k] = text[j - 2 + k]
        BY <1>5
    <2>2. CASE k = 1
        <3>1. j - 2 + k = j - 1
            BY <1>1, <2>2
        <3> QED
            BY <1>2, <1>6, <2>1, <2>2, <3>1
    <2>3. CASE k = 2
        <3>1. j - 2 + k = j
            BY <1>1, <2>3
        <3> QED
            BY <1>6, <2>1, <2>3, <3>1
    <2>4. CASE k \in 3 .. m + 2
        <3>1. k - 2 \in 1 .. m /\ j - 2 + k = j + (k - 2) /\ (k - 2) + 2 = k
            BY <1>1, <2>4
        <3>2. text[j + (k - 2)] = q[k - 2] /\ Mark(q)[(k - 2) + 2] = q[k - 2]
            BY <1>2, <1>6, <3>1
        <3> QED
            BY <2>1, <3>1, <3>2
    <2>5. CASE k = m + 3
        <3>1. j - 2 + k = j + m + 1
            BY <1>1, <2>5
        <3> QED
            BY <1>2, <1>6, <2>1, <2>5, <3>1
    <2>6. CASE k = m + 4
        <3>1. j - 2 + k = e
            BY <1>1, <2>6
        <3> QED
            BY <1>2, <1>6, <2>1, <2>6, <3>1
    <2>7. k = 1 \/ k = 2 \/ k \in 3 .. m + 2 \/ k = m + 3 \/ k = m + 4
        BY <1>1
    <2> QED
        BY <2>2, <2>3, <2>4, <2>5, <2>6, <2>7
<1>8. s = Mark(q)
    BY <1>5, <1>6, <1>7
<1> QED
    BY <1>4, <1>8 DEF s

\* A mark is one after lossy decoding if it was one before.
LEMMA AroundLossy ==
    ASSUME NEW T \in Seq(Raw), NEW text, Len(text) = Len(T),
           \A k \in 1 .. Len(T) : \A e \in Letters \union Controls \union Codes :
              text[k] = e <=> T[k] = e,
           NEW j \in 1 .. Len(T), NEW q \in Nonempty, Around(T, j, q)
    PROVE  Around(text, j, q)
<1> DEFINE m == Len(q)
<1>1. m \in Nat \ {0} /\ \A k \in 1 .. m : q[k] \in Letters
    BY MarkIs DEF Nonempty
<1>2. /\ j > 1 /\ j + m + 2 =< Len(T) /\ j \in Nat /\ Len(T) \in Nat
      /\ T[j - 1] = Escape /\ T[j + m + 1] = Escape /\ T[j + m + 2] = Plain
      /\ \A k \in 1 .. m : T[j + k] = q[k]
    BY DEF Around
<1> HIDE DEF m
<1>3. /\ j - 1 \in 1 .. Len(T) /\ j + m + 1 \in 1 .. Len(T) /\ j + m + 2 \in 1 .. Len(T)
      /\ \A k \in 1 .. m : j + k \in 1 .. Len(T)
    BY <1>1, <1>2
<1>4. text[j - 1] = Escape /\ text[j + m + 1] = Escape /\ text[j + m + 2] = Plain
    BY <1>2, <1>3, Alphabet
<1>5. \A k \in 1 .. m : text[j + k] = q[k]
    BY <1>1, <1>2, <1>3
<1> QED
    BY <1>2, <1>4, <1>5 DEF Around, m

\* What is marked is whole patterns.
LEMMA MarkedPatterns ==
    ASSUME NEW text \in Seq(Text), NEW P, P \subseteq Nonempty,
           \A j \in DOMAIN text : text[j] = Red => \E q \in P : Around(text, j, q)
    PROVE  Marked(text) \subseteq {Mark(q) : q \in P}
<1> DEFINE end(k) == Min({x \in DOMAIN text : x > k /\ text[x] = Plain})
<1>1. ASSUME NEW j \in DOMAIN text, text[j] = Red
      PROVE  SubSeq(text, j - 1, end(j)) \in {Mark(q) : q \in P}
    <2>1. PICK q \in P : Around(text, j, q)
        BY <1>1
    <2>2. q \in Nonempty
        OBVIOUS
    <2>3. SubSeq(text, j - 1, end(j)) = Mark(q)
        BY <1>1, <2>1, <2>2, MarkedThere
    <2> QED
        BY <2>3
<1>2. Marked(text) = {SubSeq(text, k - 1, end(k)) : k \in {j \in DOMAIN text : text[j] = Red}}
    BY DEF Marked
<1> HIDE DEF end
<1> QED
    BY <1>1, <1>2

\* A pattern that begins in the text was one in the packet, as no code is
\* between two of its letters, and is inside a mark.
LEMMA NoneUnmarked ==
    ASSUME NEW bytes \in Seq(Bytes), NEW patterns \in Seq(Nonempty), NEW T, NEW f,
           Coloured(T, f, 1, bytes, patterns), NEW p \in ToSet(patterns),
           NEW i \in DOMAIN T, NEW text, text = from_utf8_lossy(T), Begins(text, i, p)
    PROVE  Within(text, i)
<1> DEFINE n == Len(bytes)
           m == Len(p)
           h == [k \in 1 .. m |-> i + k - 1]
<1>1. /\ n \in Nat /\ DOMAIN bytes = 1 .. n /\ T \in Seq(Raw) /\ Len(T) \in Nat /\ i \in 1 .. Len(T)
      /\ p \in Nonempty /\ m \in Nat \ {0} /\ \A k \in 1 .. m : p[k] \in Letters
    <2>1. T \in Seq(Raw)
        BY DEF Coloured
    <2>2. p \in Nonempty
        BY DEF ToSet
    <2>3. Len(p) \in Nat \ {0} /\ \A k \in 1 .. Len(p) : p[k] \in Letters
        BY <2>2, MarkIs DEF Nonempty
    <2> QED
        BY <2>1, <2>2, <2>3
<1>2. /\ text \in Seq(Text) /\ Len(text) = Len(T)
      /\ \A k \in 1 .. Len(T) : \A e \in Letters \union Controls \union Codes :
            text[k] = e <=> T[k] = e
    BY <1>1, LossyIs
<1>3. /\ f \in [1 .. n -> DOMAIN T]
      /\ \A k, l \in 1 .. n : k < l => f[k] < f[l]
      /\ \A k \in 1 .. n : T[f[k]] = bytes[k]
      /\ Places(T) = {f[k] : k \in 1 .. n}
      /\ \A j \in DOMAIN T : T[j] \in Codes => j > 1 /\ T[j - 1] = Escape
      /\ \A k \in 1 .. n : Within(T, f[k]) \/ \A q \in ToSet(patterns) : ~Begins(bytes, k, q)
    BY DEF Coloured
<1>4. /\ i + m - 1 =< Len(T)
      /\ \A k \in 1 .. m : text[i + k - 1] = p[k]
    <2>1. i \in Nat \ {0} /\ text \in Seq(Text) /\ p \in Nonempty
        BY <1>1, <1>2
    <2>2. /\ i + Len(p) - 1 =< Len(text)
          /\ \A k \in 1 .. Len(p) : text[i + k - 1] = p[k]
        BY <2>1, BeginsAt
    <2> QED
        BY <1>2, <2>2
<1> HIDE DEF m
<1>5. ASSUME NEW k \in 1 .. m
      PROVE  /\ i + k - 1 \in 1 .. Len(T) /\ T[i + k - 1] = p[k]
             /\ i + k - 1 \in Places(T)
    <2>1. i + k - 1 \in 1 .. Len(T)
        BY <1>1, <1>4
    <2>2. T[i + k - 1] = p[k] /\ p[k] \in Letters
        BY <1>1, <1>2, <1>4, <2>1
    <2>3. p[k] \notin Codes /\ p[k] # Escape
        BY <2>2, Alphabet
    <2>4. ASSUME (i + k - 1) + 1 =< Len(T)
          PROVE  T[(i + k - 1) + 1] \notin Codes
        <3>1. (i + k - 1) + 1 \in DOMAIN T /\ ((i + k - 1) + 1) - 1 = i + k - 1
            BY <1>1, <2>1, <2>4
        <3> QED
            BY <1>3, <2>2, <2>3, <3>1
    <2>5. i + k - 1 \in Places(T)
        BY <1>1, <2>1, <2>2, <2>3, <2>4, PlacesAre
    <2> QED
        BY <2>1, <2>2, <2>5
<1>6. h \in [1 .. m -> Nat] /\ Ascends(h, m) /\ \A k \in 1 .. m : h[k] = i + k - 1
    <2>1. \A k \in 1 .. m : i + k - 1 \in Nat
        BY <1>1
    <2>2. \A k, l \in 1 .. m : k < l => i + k - 1 < i + l - 1
        BY <1>1
    <2> QED
        BY <2>1, <2>2 DEF Ascends
<1> HIDE DEF h
<1>7. f \in [1 .. n -> Nat] /\ Ascends(f, n)
    <2>1. DOMAIN T \subseteq Nat
        BY <1>1
    <2>2. f \in [1 .. n -> Nat]
        BY <1>3, <2>1
    <2> QED
        BY <1>3, <2>2 DEF Ascends
<1>8. Adjoins(f, n, h, m)
    <2>1. \A k \in 1 .. m : \E y \in 1 .. n : f[y] = h[k]
        BY <1>3, <1>5, <1>6
    <2>2. ASSUME NEW k \in 1 .. m, k < m, NEW y \in 1 .. n
          PROVE  ~(h[k] < f[y] /\ f[y] < h[k + 1])
        <3>1. k + 1 \in 1 .. m /\ h[k] = i + k - 1 /\ h[k + 1] = i + k /\ f[y] \in Nat
            <4>1. k + 1 \in 1 .. m /\ f[y] \in Nat /\ i + (k + 1) - 1 = i + k
                BY <1>1, <1>7, <2>2
            <4> QED
                BY <1>6, <4>1
        <3> QED
            BY <1>1, <3>1
    <2> QED
        BY <2>1, <2>2 DEF Adjoins
<1>9. PICK y \in 1 .. n : \A k \in 1 .. m : y + k - 1 \in 1 .. n /\ f[y + k - 1] = h[k]
    BY <1>1, <1>6, <1>7, <1>8, NextToEachOther
<1>10. Begins(bytes, y, p)
    <2>1. ASSUME NEW k \in 1 .. m
          PROVE  bytes[y + k - 1] = p[k]
        <3>1. y + k - 1 \in 1 .. n /\ f[y + k - 1] = h[k]
            BY <1>9
        <3>2. T[f[y + k - 1]] = bytes[y + k - 1]
            BY <1>3, <3>1
        <3>3. T[h[k]] = p[k]
            BY <1>5, <1>6
        <3> QED
            BY <3>1, <3>2, <3>3
    <2>2. y + m - 1 =< n
        <3>1. m \in 1 .. m
            BY <1>1
        <3> QED
            BY <1>1, <1>9, <3>1
    <2>3. y \in Nat \ {0}
        BY <1>1
    <2> QED
        BY <1>1, <2>1, <2>2, <2>3, BeginsAt DEF m
<1>11. f[y] = i
    <2>1. 1 \in 1 .. m /\ y + 1 - 1 = y /\ i + 1 - 1 = i
        BY <1>1
    <2> QED
        BY <1>6, <1>9, <2>1
<1>12. Within(T, i)
    BY <1>3, <1>10, <1>11
<1>13. PICK j \in DOMAIN T : j < i /\ T[j] = Red /\ \A k \in j .. i : T[k] # Plain
    BY <1>12 DEF Within
<1>14. j \in DOMAIN text /\ text[j] = Red
    BY <1>1, <1>2, <1>13, Alphabet
<1>15. ASSUME NEW k \in j .. i
       PROVE  text[k] # Plain
    <2>1. k \in 1 .. Len(T)
        BY <1>1, <1>13
    <2> QED
        BY <1>2, <1>13, <2>1, Alphabet
<1> QED
    BY <1>13, <1>14, <1>15 DEF Within

\* The codes taken out, a text that is highlighted is the packet's.
LEMMA UncolouredPacket ==
    ASSUME NEW bytes \in Seq(Bytes), NEW T, NEW f, Carries(T, f, bytes)
    PROVE  Uncoloured(from_utf8_lossy(T)) = from_utf8_lossy(bytes)
<1> DEFINE text == from_utf8_lossy(T)
           n == Len(bytes)
<1>1. /\ T \in Seq(Raw) /\ f \in [1 .. n -> 1 .. Len(T)] /\ Enumerates(f, Places(T))
      /\ \A k \in 1 .. n : T[f[k]] = bytes[k]
    BY DEF Carries
<1>2. /\ text \in Seq(Text) /\ Places(text) = Places(T)
      /\ \A k \in 1 .. Len(T) : text[k] = IF T[k] = NotUtf8 THEN Replacement ELSE T[k]
    BY <1>1, LossyIs
<1> HIDE DEF text
<1>3. Uncoloured(text) = [k \in 1 .. n |-> text[f[k]]]
    <2>1. f \in [1 .. n -> Nat] /\ n \in Nat /\ Enumerates(f, Places(text))
        BY <1>1, <1>2
    <2> HIDE DEF n
    <2> QED
        BY <1>2, <2>1, UncolouredIs
<1>4. \A k \in 1 .. n : text[f[k]] = IF bytes[k] = NotUtf8 THEN Replacement ELSE bytes[k]
    BY <1>1, <1>2
<1>5. from_utf8_lossy(bytes) = [k \in 1 .. n |-> IF bytes[k] = NotUtf8 THEN Replacement ELSE bytes[k]]
    BY DEF from_utf8_lossy
<1> QED
    BY <1>3, <1>4, <1>5 DEF text

\* In a raw text with colours each mark is around one whole pattern, no
\* pattern is left between two marks, and the codes are all that is added; in
\* every other format but compact, and in the capture log, there is no code
\* at all (format.rs:93-124, lib.rs:290-310).
THEOREM HighlightMarksPatternsHolds == Spec => []HighlightMarksPatterns
<1>1. PacketsInv => HighlightMarksPatterns
    <2> SUFFICES ASSUME PacketsInv
                 PROVE  HighlightMarksPatterns
        OBVIOUS
    <2> DEFINE patterns == Patterns(profile.highlight)
               text == printed.text
               T == Highlighted(packet, patterns)
    <2>1. /\ TypeOK /\ packet \in Seq(Bytes) /\ profile.color \in BOOLEAN
          /\ patterns \in Seq(Nonempty)
        BY ProfileType DEF PacketsInv, TypeOK
    <2>2. profile.format \notin {"raw", "compact"} => ToSet(text) \intersect Codes = {}
        BY DEF PacketsInv, PrintInv, NoCodes
    <2>3. ToSet(captured.text) \intersect Codes = {}
        BY DEF PacketsInv, PrintInv, NoCodes
    <2>4. ASSUME at = "capture", profile.format = "raw", profile.color
          PROVE  /\ Marked(text) \subseteq {Mark(p) : p \in ToSet(patterns)}
                 /\ \A p \in ToSet(patterns) : \A i \in DOMAIN text :
                       Begins(text, i, p) => Within(text, i)
                 /\ Uncoloured(text) = from_utf8_lossy(packet)
        <3>1. text = from_utf8_lossy(T)
            <4>1. printed = render(packet, profile.color)
                BY <2>4 DEF PacketsInv, PrintInv
            <4>2. Rendered(packet, profile.color) = T
                BY <2>4 DEF Rendered
            <4> HIDE DEF T
            <4> QED
                BY <2>1, <2>4, <4>1, <4>2, RenderShows
        <3> HIDE DEF text, T
        <3>2. PICK f : Coloured(T, f, 1, packet, patterns)
            BY <2>1, HighlightedIs DEF T
        <3> HIDE DEF patterns
        <3>3. T \in Seq(Raw) /\ \A j \in DOMAIN T : T[j] = Red => \E q \in ToSet(patterns) : Around(T, j, q)
            BY <3>2 DEF Coloured
        <3>4. /\ text \in Seq(Text) /\ Len(text) = Len(T) /\ DOMAIN text = DOMAIN T
              /\ \A k \in 1 .. Len(T) : \A e \in Letters \union Controls \union Codes :
                    text[k] = e <=> T[k] = e
            <4>1. /\ text \in Seq(Text) /\ Len(text) = Len(T)
                  /\ \A k \in 1 .. Len(T) : \A e \in Letters \union Controls \union Codes :
                        text[k] = e <=> T[k] = e
                BY <3>1, <3>3, LossyIs
            <4>2. DOMAIN text = 1 .. Len(text) /\ DOMAIN T = 1 .. Len(T)
                BY <3>3, <4>1
            <4> QED
                BY <4>1, <4>2
        <3>5. ToSet(patterns) \subseteq Nonempty
            BY <2>1 DEF ToSet
        <3>6. ASSUME NEW j \in DOMAIN text, text[j] = Red
              PROVE  \E q \in ToSet(patterns) : Around(text, j, q)
            <4>1. j \in DOMAIN T /\ j \in 1 .. Len(T) /\ T[j] = Red
                BY <3>3, <3>4, <3>6, Alphabet
            <4>2. PICK q \in ToSet(patterns) : Around(T, j, q)
                BY <3>3, <4>1
            <4>3. q \in Nonempty
                BY <3>5
            <4>4. /\ T \in Seq(Raw) /\ Len(text) = Len(T)
                  /\ \A k \in 1 .. Len(T) : \A e \in Letters \union Controls \union Codes :
                        text[k] = e <=> T[k] = e
                  /\ j \in 1 .. Len(T) /\ q \in Nonempty /\ Around(T, j, q)
                BY <3>3, <3>4, <4>1, <4>2, <4>3
            <4>5. Around(text, j, q)
                BY <4>4, AroundLossy
            <4> QED
                BY <4>5
        <3>7. Marked(text) \subseteq {Mark(p) : p \in ToSet(patterns)}
            BY <3>4, <3>5, <3>6, MarkedPatterns
        <3>8. ASSUME NEW p \in ToSet(patterns), NEW i \in DOMAIN text, Begins(text, i, p)
              PROVE  Within(text, i)
            BY <2>1, <3>1, <3>2, <3>4, <3>8, NoneUnmarked
        <3>9. Uncoloured(text) = from_utf8_lossy(packet)
            BY <2>1, <3>1, <3>2, ColouredCarries, UncolouredPacket
        <3> QED
            BY <3>7, <3>8, <3>9
    <2> QED
        BY <2>2, <2>3, <2>4 DEF HighlightMarksPatterns, Within
<1> QED
    BY <1>1, PacketsInvHolds, PTL
=============================================================================
