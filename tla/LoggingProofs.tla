---------------------------- MODULE LoggingProofs ----------------------------
(***************************************************************************)
(* Proofs about Logging, for any number of sessions, chunks and buffers:   *)
(* the type of the state; that the pool hands every buffer to one packet   *)
(* at a time, and clean; that what is printed is what the profile selects; *)
(* that the capture log has what was printed; and that every torn line of  *)
(* it comes from a fault of its own.                                       *)
(*                                                                         *)
(* The sinks are compared through Kept, the selection from a sequence,     *)
(* which grows by what is selected when the sequence does (KeptAppend).    *)
(***************************************************************************)
EXTENDS Logging, Lemmas, SequenceTheorems

----------------------------------------------------------------------------
(* The inductive invariant.                                                *)

\* Who is at the file holds its mutex; only a process that could open the
\* file has writers there.
LockInv ==
    /\ \A w \in Writers : pc[w] \in {"line", "newline"} <=> lock = w
    /\ \A w \in Writers : pc[w] \in {"lock", "line", "newline"} => captures

Written == FlattenSeq(file)

\* The records of earlier processes are in the file, those of later ones not.
PastInv == \A i \in DOMAIN Written : Written[i].process =< process

\* The record that a writer is about to write is the last one it printed.
AboutToWrite(w) ==
    /\ Printed(w) # <<>>
    /\ Last(Printed(w)) = mem[held[w]]
    /\ IsSubsequence(Captured(w), Front(Printed(w)))

FileInv == captures => \A w \in Writers :
    IF pc[w] \in {"lock", "line"} THEN AboutToWrite(w)
    ELSE IsSubsequence(Captured(w), Printed(w))

LengthInv == captures => \A w \in Writers :
    Len(Printed(w)) =
        Len(Captured(w)) + lost[w] + (IF pc[w] \in {"lock", "line"} THEN 1 ELSE 0)

\* The line that is not ended yet will be a torn one.
Spoiled ==
    IF \E w \in Writers : pc[w] = "newline"
    THEN ~(Len(Last(file)) = 1 /\ Last(file)[1].whole)
    ELSE Last(file) # <<>>

TornInv == Cardinality(TornLines) + (IF Spoiled THEN 1 ELSE 0) =< faults

LogInv ==
    TypeOK /\ BuffersHaveOneOwner /\ LockInv /\ PrintsWhatIsDue
        /\ PastInv /\ FileInv /\ LengthInv /\ TornInv

----------------------------------------------------------------------------
(* The lines of the file, one after the other.                             *)

\* FlattenSeq, line by line.
Flattens(f, lines) ==
    f[0] = <<>> /\ \A i \in 1 .. Len(lines) : f[i] = f[i - 1] \o lines[i]

\* What FlattenSeq returns is computed line by line.
LEMMA FlattenIsComputed ==
    ASSUME NEW E, NEW lines \in Seq(Seq(E))
    PROVE  \E f \in [0 .. Len(lines) -> Seq(E)] :
              Flattens(f, lines) /\ FlattenSeq(lines) = f[Len(lines)]
<1> DEFINE step == [x \in Nat \X Seq(E) |->
                       IF x[1] \in DOMAIN lines THEN x[2] \o lines[x[1]] ELSE x[2]]
           V == Seq(E)
           base == <<>>
           n == Len(lines)
<1>1. step \in [Nat \X V -> V] /\ base \in V
    OBVIOUS
<1>2. \A i \in Nat, v \in V :
         step[<<i, v>>] = IF i \in DOMAIN lines THEN v \o lines[i] ELSE v
    OBVIOUS
<1>3. n \in Nat /\ DOMAIN lines = 1 .. n /\ \A i \in 1 .. n : lines[i] \in V
    OBVIOUS
<1> HIDE DEF step, V, base
<1>4. PICK f \in [0 .. n -> V] : Computes(f, base, step, n)
    <2> HIDE DEF n
    <2> QED
        BY <1>1, <1>3, Recursion
<1>5. ASSUME NEW i \in 1 .. n
      PROVE  f[i] = f[i - 1] \o lines[i]
    <2>1. i \in Nat /\ i - 1 \in 0 .. n /\ i \in DOMAIN lines
        BY <1>3
    <2>2. f[i - 1] \in V
        BY <2>1
    <2> QED
        BY <1>2, <1>4, <2>1, <2>2 DEF Computes
<1>6. Flattens(f, lines)
    BY <1>4, <1>5 DEF Flattens, Computes, base
<1>7. FlattenSeq(lines) = f[n]
    <2>1. CASE n = 0
        BY <1>3, <1>4, <2>1 DEF FlattenSeq, Computes, base
    <2>2. CASE n # 0
        <3> DEFINE Is(g) == g = [i \in 1 .. n |-> IF i = 1 THEN lines[i] ELSE g[i - 1] \o lines[i]]
                   k == CHOOSE g : Is(g)
        <3>1. FlattenSeq(lines) = k[n]
            BY <2>2 DEF FlattenSeq
        <3>2. f[1] = lines[1]
            <4>1. 1 \in 1 .. n /\ 1 - 1 = 0
                BY <1>3, <2>2
            <4>2. f[1] = f[0] \o lines[1] /\ f[0] = <<>> /\ lines[1] \in V
                BY <1>3, <1>4, <1>5, <4>1 DEF Computes, base
            <4> QED
                BY <4>2 DEF V
        <3> DEFINE h == [i \in 1 .. n |-> f[i]]
        <3>3. Is(h)
            <4>1. ASSUME NEW i \in 1 .. n
                  PROVE  h[i] = IF i = 1 THEN lines[i] ELSE h[i - 1] \o lines[i]
                <5>1. CASE i = 1
                    BY <3>2, <5>1
                <5>2. CASE i # 1
                    <6>1. i - 1 \in 1 .. n
                        BY <1>3, <5>2
                    <6> QED
                        BY <1>5, <5>2, <6>1
                <5> QED
                    BY <5>1, <5>2
            <4>2. h = [i \in 1 .. n |-> h[i]]
                OBVIOUS
            <4> HIDE DEF h
            <4> QED
                BY <4>1, <4>2
        <3>4. Is(k)
            BY <3>3
        <3>5. \A i \in 1 .. n : k[i] = IF i = 1 THEN lines[i] ELSE k[i - 1] \o lines[i]
            BY <3>4
        <3> HIDE DEF k, h, Is
        <3> DEFINE S == {j \in Nat : j + 1 =< n => k[j + 1] = f[j + 1]}
        <3>6. 0 \in S
            BY <1>3, <2>2, <3>2, <3>5
        <3>7. ASSUME NEW j \in Nat, j \in S
              PROVE  j + 1 \in S
            <4> SUFFICES ASSUME (j + 1) + 1 =< n PROVE k[(j + 1) + 1] = f[(j + 1) + 1]
                OBVIOUS
            <4> DEFINE m == (j + 1) + 1
            <4>1. /\ m \in 1 .. n /\ m # 1 /\ m - 1 = j + 1
                  /\ k[j + 1] = f[j + 1]
                BY <1>3, <3>7
            <4> HIDE DEF m
            <4>2. k[m] = k[m - 1] \o lines[m] /\ f[m] = f[m - 1] \o lines[m]
                BY <1>5, <3>5, <4>1
            <4>3. k[m] = f[m]
                BY <4>1, <4>2
            <4> QED
                BY <4>3 DEF m
        <3> HIDE DEF S
        <3>8. Nat \subseteq S
            BY <3>6, <3>7, Induction
        <3>9. n - 1 \in Nat /\ (n - 1) + 1 = n
            BY <1>3, <2>2
        <3>10. k[n] = f[n]
            <4>1. n - 1 \in S /\ n =< n
                BY <1>3, <3>8, <3>9
            <4> HIDE DEF n
            <4>2. k[(n - 1) + 1] = f[(n - 1) + 1]
                BY <1>3, <3>9, <4>1 DEF S
            <4> QED
                BY <3>9, <4>2
        <3> QED
            BY <3>1, <3>10
    <2> QED
        BY <2>1, <2>2
<1> QED
    BY <1>6, <1>7 DEF V

\* It is a sequence of what the lines hold.
LEMMA FlattenType ==
    ASSUME NEW E, NEW lines \in Seq(Seq(E))
    PROVE  FlattenSeq(lines) \in Seq(E)
<1>1. PICK f \in [0 .. Len(lines) -> Seq(E)] : FlattenSeq(lines) = f[Len(lines)]
    BY FlattenIsComputed
<1>2. Len(lines) \in 0 .. Len(lines)
    OBVIOUS
<1> QED
    BY <1>1, <1>2

\* A new line adds what is on it.
LEMMA FlattenAppend ==
    ASSUME NEW E, NEW lines \in Seq(Seq(E)), NEW line \in Seq(E)
    PROVE  FlattenSeq(Append(lines, line)) = FlattenSeq(lines) \o line
<1> DEFINE t == Append(lines, line)
           n == Len(lines)
<1>1. /\ t \in Seq(Seq(E)) /\ n \in Nat /\ Len(t) = n + 1
      /\ t[n + 1] = line /\ \A i \in 1 .. n : t[i] = lines[i]
    OBVIOUS
<1> HIDE DEF t
<1>2. PICK a \in [0 .. Len(lines) -> Seq(E)] :
         Flattens(a, lines) /\ FlattenSeq(lines) = a[Len(lines)]
    BY FlattenIsComputed
<1>3. PICK b \in [0 .. Len(t) -> Seq(E)] : Flattens(b, t) /\ FlattenSeq(t) = b[Len(t)]
    BY <1>1, FlattenIsComputed
<1> DEFINE S == {j \in Nat : j =< n => a[j] = b[j]}
<1>4. 0 \in S
    BY <1>2, <1>3 DEF Flattens
<1>5. ASSUME NEW j \in Nat, j \in S
      PROVE  j + 1 \in S
    <2> SUFFICES ASSUME j + 1 =< n PROVE a[j + 1] = b[j + 1]
        OBVIOUS
    <2>1. /\ j + 1 \in 1 .. n /\ j + 1 \in 1 .. n + 1 /\ (j + 1) - 1 = j /\ a[j] = b[j]
        BY <1>1, <1>5
    <2>2. a[j + 1] = a[j] \o lines[j + 1] /\ b[j + 1] = b[j] \o t[j + 1]
        BY <1>1, <1>2, <1>3, <2>1 DEF Flattens
    <2> QED
        BY <1>1, <2>1, <2>2
<1> HIDE DEF S
<1>6. Nat \subseteq S
    BY <1>4, <1>5, Induction
<1>7. a[n] = b[n]
    <2>1. n \in S /\ n =< n
        BY <1>1, <1>6
    <2> HIDE DEF n
    <2> QED
        BY <2>1 DEF S
<1>8. b[n + 1] = b[n] \o t[n + 1]
    <2>1. n + 1 \in 1 .. n + 1 /\ (n + 1) - 1 = n
        BY <1>1
    <2> QED
        BY <1>1, <1>3, <2>1 DEF Flattens
<1> QED
    BY <1>1, <1>2, <1>3, <1>7, <1>8 DEF t

----------------------------------------------------------------------------
(* Subsequences.                                                           *)

\* The empty sequence is a subsequence of every other.
LEMMA EmptyIsSubsequence ==
    ASSUME NEW E, NEW t \in Seq(E)
    PROVE  IsSubsequence(<<>>, t)
<1> DEFINE at == [i \in {} |-> 0]
<1>1. DOMAIN <<>> = {}
    OBVIOUS
<1>2. at \in [DOMAIN <<>> -> DOMAIN t]
    BY <1>1
<1> QED
    BY <1>1, <1>2 DEF IsSubsequence

\* A subsequence stays one when the longer sequence grows.
LEMMA SubsequenceOfLonger ==
    ASSUME NEW E, NEW s \in Seq(E), NEW t \in Seq(E), NEW e \in E, IsSubsequence(s, t)
    PROVE  IsSubsequence(s, Append(t, e))
<1>1. PICK at \in [DOMAIN s -> DOMAIN t] :
         \A i, j \in DOMAIN s : (i < j => at[i] < at[j]) /\ s[i] = t[at[i]]
    BY DEF IsSubsequence
<1> DEFINE u == Append(t, e)
<1>2. DOMAIN t \subseteq DOMAIN u /\ \A i \in DOMAIN t : u[i] = t[i]
    OBVIOUS
<1> HIDE DEF u
<1>3. at \in [DOMAIN s -> DOMAIN u]
    BY <1>2
<1>4. \A i, j \in DOMAIN s : (i < j => at[i] < at[j]) /\ s[i] = u[at[i]]
    BY <1>1, <1>2
<1>5. IsSubsequence(s, u)
    BY <1>3, <1>4 DEF IsSubsequence
<1> QED
    BY <1>5 DEF u

\* Both may grow by the same element.
LEMMA SubsequenceAppend ==
    ASSUME NEW E, NEW s \in Seq(E), NEW t \in Seq(E), NEW e \in E, IsSubsequence(s, t)
    PROVE  IsSubsequence(Append(s, e), Append(t, e))
<1>1. PICK at \in [DOMAIN s -> DOMAIN t] :
         \A i, j \in DOMAIN s : (i < j => at[i] < at[j]) /\ s[i] = t[at[i]]
    BY DEF IsSubsequence
<1> DEFINE u == Append(t, e)
           v == Append(s, e)
           m == Len(s) + 1
           n == Len(t) + 1
<1>2. /\ DOMAIN u = 1 .. n /\ DOMAIN t = 1 .. n - 1 /\ n \in Nat \ {0} /\ u[n] = e
      /\ \A i \in DOMAIN t : u[i] = t[i]
      /\ DOMAIN v = 1 .. m /\ DOMAIN s = 1 .. m - 1 /\ m \in Nat \ {0} /\ v[m] = e
      /\ \A i \in DOMAIN s : v[i] = s[i]
    OBVIOUS
<1> HIDE DEF u, v, m, n
<1> DEFINE to == [i \in 1 .. m |-> IF i = m THEN n ELSE at[i]]
<1>3. \A i \in 1 .. m : i # m => i \in DOMAIN s /\ at[i] \in 1 .. n - 1
    BY <1>2
<1>4. to \in [DOMAIN v -> DOMAIN u]
    <2>1. \A i \in 1 .. m : to[i] \in 1 .. n
        <3> SUFFICES ASSUME NEW i \in 1 .. m PROVE to[i] \in 1 .. n
            OBVIOUS
        <3>1. n \in 1 .. n
            BY <1>2
        <3>2. i # m => to[i] = at[i] /\ at[i] \in 1 .. n
            BY <1>2, <1>3
        <3> QED
            BY <3>1, <3>2
    <2> QED
        BY <1>2, <2>1
<1>5. ASSUME NEW i \in DOMAIN v, NEW j \in DOMAIN v
      PROVE  (i < j => to[i] < to[j]) /\ v[i] = u[to[i]]
    <2>1. CASE i = m
        BY <1>2, <2>1
    <2>2. CASE i # m
        <3>1. i \in DOMAIN s /\ to[i] = at[i] /\ at[i] \in DOMAIN t
            BY <1>2, <1>3, <2>2
        <3>2. v[i] = u[to[i]]
            BY <1>1, <1>2, <3>1
        <3>3. CASE j = m
            <4>1. to[j] = n
                BY <1>2, <3>3
            <4> QED
                BY <1>2, <3>1, <3>2, <4>1
        <3>4. CASE j # m
            <4>1. j \in DOMAIN s /\ to[j] = at[j]
                BY <1>2, <1>3, <3>4
            <4> QED
                BY <1>1, <3>1, <3>2, <4>1
        <3> QED
            BY <3>3, <3>4
    <2> QED
        BY <2>1, <2>2
<1> HIDE DEF to
<1>6. IsSubsequence(v, u)
    BY <1>4, <1>5 DEF IsSubsequence
<1> QED
    BY <1>6 DEF u, v

----------------------------------------------------------------------------
(* Records in the sinks.                                                   *)

\* The bytes of records have their type.
LEMMA BytesType ==
    ASSUME NEW s \in Seq(Records)
    PROVE  Bytes(s) \in Seq(Seq(Text)) /\ Len(Bytes(s)) = Len(s)
<1>1. \A i \in DOMAIN s : s[i].bytes \in Seq(Text)
    <2>1. \A i \in DOMAIN s : s[i] \in Records
        OBVIOUS
    <2> QED
        BY <2>1 DEF Records
<1>2. DOMAIN s = 1 .. Len(s) /\ Len(s) \in Nat
    OBVIOUS
<1> QED
    BY <1>1, <1>2 DEF Bytes

\* One more record adds its bytes.
LEMMA BytesAppend ==
    ASSUME NEW s \in Seq(Records), NEW r \in Records
    PROVE  Bytes(Append(s, r)) = Append(Bytes(s), r.bytes)
<1> DEFINE t == Append(s, r)
           n == Len(s)
           b == Bytes(s)
<1>1. /\ n \in Nat /\ DOMAIN s = 1 .. n /\ DOMAIN t = 1 .. n + 1
      /\ t[n + 1] = r /\ \A i \in 1 .. n : t[i] = s[i]
    OBVIOUS
<1>2. b \in Seq(Seq(Text)) /\ Len(b) = n
    BY BytesType
<1>3. \A i \in 1 .. n : b[i] = s[i].bytes
    BY <1>1 DEF Bytes
<1>4. Append(b, r.bytes) = [i \in 1 .. n + 1 |-> IF i = n + 1 THEN r.bytes ELSE b[i]]
    BY <1>2
<1>5. Bytes(t) = [i \in 1 .. n + 1 |-> t[i].bytes]
    BY <1>1 DEF Bytes
<1> HIDE DEF b, t, n
<1>6. \A i \in 1 .. n + 1 : t[i].bytes = IF i = n + 1 THEN r.bytes ELSE b[i]
    <2>1. \A i \in 1 .. n + 1 : i # n + 1 => i \in 1 .. n
        BY <1>1
    <2> QED
        BY <1>1, <1>3, <2>1
<1> QED
    BY <1>4, <1>5, <1>6 DEF b, t

\* No record, no bytes.
LEMMA BytesEmpty == Bytes(<<>>) = <<>>
BY DEF Bytes

\* A sequence that is not empty is its front and its last element.
LEMMA FrontLast ==
    ASSUME NEW E, NEW s \in Seq(E), s # <<>>
    PROVE  /\ Front(s) \in Seq(E) /\ Last(s) \in E
           /\ Len(Front(s)) = Len(s) - 1 /\ Len(s) \in Nat \ {0}
           /\ \A i \in 1 .. Len(s) - 1 : Front(s)[i] = s[i]
           /\ s = Append(Front(s), Last(s))
<1> DEFINE n == Len(s)
           f == SubSeq(s, 1, n - 1)
<1>1. n \in Nat \ {0} /\ \A i \in 1 .. n : s[i] \in E
    OBVIOUS
<1>2. f \in Seq(E) /\ Len(f) = n - 1 /\ \A i \in 1 .. n - 1 : f[i] = s[i]
    <2>1. 1 \in Int /\ n - 1 \in Int /\ \A i \in 1 .. n - 1 : s[i] \in E
        BY <1>1
    <2>2. /\ f \in Seq(E)
          /\ Len(f) = IF 1 =< n - 1 THEN (n - 1) - 1 + 1 ELSE 0
          /\ \A i \in 1 .. (n - 1) - 1 + 1 : f[i] = s[1 + i - 1]
        <3> HIDE DEF n
        <3> QED
            BY <2>1, SubSeqProperties
    <2> HIDE DEF f, n
    <2>3. ASSUME NEW i \in 1 .. n - 1
          PROVE  f[i] = s[i]
        <3>1. i \in 1 .. (n - 1) - 1 + 1 /\ 1 + i - 1 = i
            BY <1>1
        <3> QED
            BY <2>2, <3>1
    <2>4. Len(f) = n - 1
        BY <1>1, <2>2
    <2> QED
        BY <2>2, <2>3, <2>4
<1>3. Append(f, s[n]) \in Seq(E) /\ Len(Append(f, s[n])) = n
    BY <1>1, <1>2
<1>4. \A i \in 1 .. n : Append(f, s[n])[i] = s[i]
    BY <1>1, <1>2
<1>5. s = Append(f, s[n])
    <2> HIDE DEF f
    <2> QED
        BY <1>3, <1>4
<1> QED
    BY <1>1, <1>2, <1>5 DEF Front, Last

\* What is before the last element, when one is appended.
LEMMA FrontOfAppend ==
    ASSUME NEW E, NEW s \in Seq(E), NEW e \in E
    PROVE  /\ Front(Append(s, e)) = s /\ Last(Append(s, e)) = e
           /\ Append(s, e) # <<>>
BY DEF Front, Last

\* What a write does to the lines of the file.
LEMMA PutEffect ==
    ASSUME TypeOK, NEW r \in Records
    PROVE  /\ Put(r) \in Seq(Seq(Records)) \ {<<>>}
           /\ Len(Put(r)) = Len(file)
           /\ \A i \in 1 .. Len(file) - 1 : Put(r)[i] = file[i]
           /\ Last(Put(r)) = Append(Last(file), r)
           /\ FlattenSeq(Put(r)) = Append(FlattenSeq(file), r)
<1> DEFINE f == Front(file)
           l == Last(file)
           m == Append(l, r)
<1>1. /\ f \in Seq(Seq(Records)) /\ l \in Seq(Records)
      /\ Len(f) = Len(file) - 1 /\ Len(file) \in Nat \ {0}
      /\ \A i \in 1 .. Len(file) - 1 : f[i] = file[i]
      /\ file = Append(f, l)
    BY FrontLast DEF TypeOK
<1>2. m \in Seq(Records) /\ Put(r) = Append(f, m)
    BY <1>1 DEF Put
<1> HIDE DEF f, l
<1>3. FlattenSeq(file) = FlattenSeq(f) \o l
    BY <1>1, FlattenAppend
<1>4. FlattenSeq(Put(r)) = FlattenSeq(f) \o m
    <2> HIDE DEF m
    <2> QED
        BY <1>1, <1>2, FlattenAppend
<1>5. FlattenSeq(f) \in Seq(Records)
    BY <1>1, FlattenType
<1>6. FlattenSeq(f) \o m = Append(FlattenSeq(f) \o l, r)
    BY <1>1, <1>5
<1>7. FlattenSeq(Put(r)) = Append(FlattenSeq(file), r)
    BY <1>3, <1>4, <1>6
<1> DEFINE n == Len(f)
           p == Append(f, m)
<1> HIDE DEF m, p
<1>8. n \in Nat /\ Len(file) = n + 1
    BY <1>1
<1>9. /\ p \in Seq(Seq(Records)) /\ Len(p) = n + 1
      /\ \A i \in 1 .. n : p[i] = f[i]
      /\ p[n + 1] = m
    BY <1>1, <1>2, <1>8 DEF p
<1>10. Put(r) = p
    BY <1>2 DEF p
<1>11. p # <<>> /\ Last(p) = m
    BY <1>8, <1>9 DEF Last
<1>12. \A i \in 1 .. Len(file) - 1 : p[i] = file[i]
    BY <1>1, <1>8, <1>9
<1> QED
    BY <1>7, <1>8, <1>9, <1>10, <1>11, <1>12 DEF m, l

\* Ending a line writes no record.
LEMMA NewlineEffect ==
    ASSUME TypeOK
    PROVE  FlattenSeq(Append(file, <<>>)) = FlattenSeq(file)
<1>1. file \in Seq(Seq(Records)) /\ <<>> \in Seq(Records)
    BY DEF TypeOK
<1>2. FlattenSeq(Append(file, <<>>)) = FlattenSeq(file) \o <<>>
    BY <1>1, FlattenAppend
<1>3. FlattenSeq(file) \in Seq(Records)
    BY <1>1, FlattenType
<1> QED
    BY <1>2, <1>3

----------------------------------------------------------------------------
(* The buffer pool.                                                        *)

\* A record of what is in a packet is a record.
LEMMA RecordType ==
    ASSUME TypeOK, NEW w \in Writers, held[w] \in Buffers, NEW whole \in BOOLEAN
    PROVE  /\ Record(w, whole) \in Records
           /\ Record(w, whole).writer = w /\ Record(w, whole).process = process
           /\ Record(w, whole).bytes = mem[held[w]] /\ Record(w, whole).whole = whole
<1>1. mem[held[w]] \in Seq(Text) /\ process \in Nat
    BY DEF TypeOK
<1> QED
    BY <1>1 DEF Record, Records

\* What a writer holds while it has a packet.
LEMMA HeldType ==
    ASSUME TypeOK, BuffersHaveOneOwner, NEW w \in Writers, pc[w] \notin {"idle", "gone"}
    PROVE  held[w] \in Buffers /\ mem[held[w]] \in Seq(Text)
<1>1. held[w] # None
    BY DEF BuffersHaveOneOwner
<1> QED
    BY <1>1 DEF TypeOK

\* A writer without a packet leaves a buffer to be allocated.
LEMMA SomeBufferIsUnused ==
    ASSUME TypeOK, NEW w \in Writers, held[w] = None, free = <<>>
    PROVE  \E b \in Buffers : b \notin Allocated
<1> DEFINE T == Writers \ {w}
           A == {held[v] : v \in T}
           h == [v \in T |-> held[v]]
           S == A \intersect Buffers
<1>1. IsFiniteSet(Writers) /\ None \notin Buffers
    BY BufferAssumption
<1>2. /\ IsFiniteSet(T) /\ Cardinality(T) = Cardinality(Writers) - 1
      /\ Cardinality(Writers) \in Nat
    BY <1>1, FS_RemoveElement, FS_CardinalityType
<1>3. IsFiniteSet(A) /\ Cardinality(A) =< Cardinality(T)
    <2>1. h \in Surjection(T, A)
        <3>1. h \in [T -> A] /\ \A a \in A : \E v \in T : h[v] = a
            OBVIOUS
        <3> HIDE DEF h, A, T
        <3> QED
            BY <3>1 DEF Surjection
    <2> HIDE DEF h, A, T
    <2> QED
        BY <1>2, <2>1, FS_Surjection
<1>4. IsFiniteSet(S) /\ Cardinality(S) =< Cardinality(A)
    <2>1. S \in SUBSET A
        OBVIOUS
    <2> HIDE DEF S, A
    <2> QED
        BY <1>3, <2>1, FS_Subset
<1>5. Cardinality(S) < Cardinality(Writers)
    <2>1. Cardinality(A) \in Nat /\ Cardinality(S) \in Nat
        BY <1>3, <1>4, FS_CardinalityType
    <2> HIDE DEF S, A, T
    <2> QED
        BY <1>2, <1>3, <1>4, <2>1
<1>6. S # Buffers
    <2>1. S \in SUBSET Buffers
        OBVIOUS
    <2> HIDE DEF S
    <2> QED
        BY <1>4, <1>5, <2>1, BufferAssumption
<1>7. PICK b \in Buffers : b \notin A
    BY <1>6
<1>8. b # held[w]
    BY <1>1
<1>9. ToSet(free) = {}
    BY DEF ToSet
<1> QED
    BY <1>7, <1>8, <1>9 DEF Allocated

\* acquire() hands out a buffer that nobody holds and that leaves the pool.
LEMMA AcquiredIsFree ==
    ASSUME TypeOK, BuffersHaveOneOwner, NEW w \in Writers, pc[w] = "idle"
    PROVE  /\ Acquired \in Buffers
           /\ \A v \in Writers : held[v] # Acquired
           /\ mem[Acquired] = <<>>
           /\ Popped \in Seq(Buffers) /\ Len(Popped) =< MaxIdle
           /\ IsInjective(Popped)
           /\ ToSet(Popped) \subseteq ToSet(free)
           /\ Acquired \notin ToSet(Popped)
<1>1. held[w] = None /\ None \notin Buffers /\ MaxIdle \in Nat
    BY BufferAssumption, BoundAssumption DEF BuffersHaveOneOwner
<1>2. CASE free = <<>>
    <2>1. Acquired = CHOOSE b \in Buffers : b \notin Allocated
        BY <1>2 DEF Acquired
    <2>2. Acquired \in Buffers /\ Acquired \notin Allocated
        BY <1>1, <1>2, <2>1, SomeBufferIsUnused
    <2>3. \A v \in Writers : held[v] # Acquired
        BY <2>2 DEF Allocated
    <2>4. Popped = <<>> /\ ToSet(<<>>) = {} /\ Len(<<>>) = 0 /\ DOMAIN <<>> = {}
        BY <1>2 DEF Popped, ToSet
    <2>5. mem[Acquired] = <<>>
        BY <2>2, <2>3 DEF BuffersHaveOneOwner
    <2> QED
        BY <1>1, <2>2, <2>3, <2>4, <2>5 DEF IsInjective
<1>3. CASE free # <<>>
    <2> DEFINE n == Len(free)
    <2>1. Acquired = Last(free) /\ Popped = Front(free)
        BY <1>3 DEF Acquired, Popped
    <2>2. /\ Popped \in Seq(Buffers) /\ Acquired \in Buffers
          /\ Len(Popped) = n - 1 /\ n \in Nat \ {0} /\ n =< MaxIdle
          /\ \A i \in 1 .. n - 1 : Popped[i] = free[i]
        BY <1>3, <2>1, FrontLast DEF TypeOK
    <2>3. Acquired = free[n] /\ DOMAIN free = 1 .. n /\ DOMAIN Popped = 1 .. n - 1
        BY <2>1, <2>2 DEF Last, TypeOK
    <2> HIDE DEF n
    <2>4. n \in DOMAIN free /\ \A i \in DOMAIN Popped : i \in DOMAIN free /\ i # n
        BY <2>2, <2>3
    <2>5. \A a, b \in DOMAIN free : free[a] = free[b] => a = b
        BY DEF BuffersHaveOneOwner, IsInjective
    <2>6. Acquired \in ToSet(free)
        BY <2>3, <2>4 DEF ToSet
    <2>7. \A v \in Writers : held[v] # Acquired
        BY <1>1, <2>2, <2>6 DEF BuffersHaveOneOwner
    <2>8. mem[Acquired] = <<>>
        BY <2>2, <2>7 DEF BuffersHaveOneOwner
    <2>9. IsInjective(Popped)
        BY <2>2, <2>3, <2>4, <2>5 DEF IsInjective
    <2>10. ToSet(Popped) \subseteq ToSet(free) /\ Acquired \notin ToSet(Popped)
        BY <2>2, <2>3, <2>4, <2>5 DEF ToSet
    <2>11. Len(Popped) =< MaxIdle
        BY <1>1, <2>2
    <2> QED
        BY <2>2, <2>7, <2>8, <2>9, <2>10, <2>11
<1> QED
    BY <1>2, <1>3

\* release() parks a buffer at most once.
LEMMA ParkEffect ==
    ASSUME TypeOK, IsInjective(free), NEW b \in Buffers, b \notin ToSet(free)
    PROVE  /\ Park(b) \in Seq(Buffers) /\ Len(Park(b)) =< MaxIdle
           /\ IsInjective(Park(b))
           /\ ToSet(Park(b)) \subseteq ToSet(free) \union {b}
<1>1. CASE ~(Len(free) < MaxIdle)
    BY <1>1 DEF Park, TypeOK
<1>2. CASE Len(free) < MaxIdle
    <2> DEFINE n == Len(free)
               p == Append(free, b)
    <2>1. /\ Park(b) = p /\ p \in Seq(Buffers) /\ n \in Nat /\ Len(p) = n + 1
          /\ DOMAIN p = 1 .. n + 1 /\ DOMAIN free = 1 .. n
          /\ p[n + 1] = b /\ \A i \in 1 .. n : p[i] = free[i]
        BY <1>2 DEF Park, TypeOK
    <2>2. MaxIdle \in Nat
        BY BoundAssumption
    <2>3. Len(p) =< MaxIdle
        <3>1. n < MaxIdle
            BY <1>2
        <3> HIDE DEF p, n
        <3> QED
            BY <2>1, <2>2, <3>1
    <2> HIDE DEF p, n
    <2>4. \A i \in DOMAIN p : i # n + 1 => i \in DOMAIN free
        BY <2>1
    <2>5. \A i \in DOMAIN free : free[i] # b
        BY DEF ToSet
    <2>6. \A i, j \in DOMAIN free : free[i] = free[j] => i = j
        BY DEF IsInjective
    <2>7. IsInjective(p)
        BY <2>1, <2>4, <2>5, <2>6 DEF IsInjective
    <2>8. ToSet(p) \subseteq ToSet(free) \union {b}
        BY <2>1, <2>4 DEF ToSet
    <2> QED
        BY <2>1, <2>3, <2>7, <2>8
<1> QED
    BY <1>1, <1>2

----------------------------------------------------------------------------
(* Every step preserves the type of the state.                             *)

\* What is redacted is still a text.
LEMMA RedactedType ==
    ASSUME NEW spec, NEW bytes \in Seq(Text)
    PROVE  Redacted(spec, bytes) \in Seq(Text)
<1>1. \A i \in 1 .. Len(bytes) : bytes[i] \in Text
    OBVIOUS
<1>2. Mask \in Text /\ Len(bytes) \in Nat /\ DOMAIN bytes = 1 .. Len(bytes)
    BY DEF Text
<1> QED
    BY <1>1, <1>2 DEF Redacted

\* The packet of a chunk has the chunk's bytes and nothing else.
LEMMA PacketBytes ==
    ASSUME TypeOK, BuffersHaveOneOwner, NEW w \in Writers, pc[w] = "idle", NEW chunk \in Chunks
    PROVE  mem[Acquired] \o chunk.bytes = chunk.bytes /\ chunk.bytes \in Seq(Text)
<1>1. chunk.bytes \in Seq(Letters)
    BY DataAssumption
<1>2. Seq(Letters) \subseteq Seq(Text)
    <2>1. Letters \subseteq Text
        BY DEF Text
    <2> QED
        BY <2>1
<1>3. mem[Acquired] = <<>>
    BY AcquiredIsFree
<1> QED
    BY <1>1, <1>2, <1>3

\* What BuildPacket does to the buffer of its packet.
LEMMA BuildEffect ==
    ASSUME TypeOK, BuffersHaveOneOwner, NEW w \in Writers, NEW chunk \in Chunks,
           BuildPacket(w, chunk)
    PROVE  LET wanted == Matches(Output[w], chunk.direction, chunk.bytes)
               b == Acquired
           IN /\ pc[w] = "idle" /\ b \in Buffers
              /\ held' = [held EXCEPT ![w] = b]
              /\ mem' = [mem EXCEPT ![b] = IF wanted THEN Redacted(Output[w], chunk.bytes)
                                           ELSE chunk.bytes]
              /\ pc' = [pc EXCEPT ![w] = IF wanted THEN "print" ELSE "recycle"]
              /\ mem'[b] \in Seq(Text)
<1>1. pc[w] = "idle"
    BY DEF BuildPacket, Offer
<1>2. mem[Acquired] \o chunk.bytes = chunk.bytes /\ chunk.bytes \in Seq(Text) /\ Acquired \in Buffers
    BY <1>1, PacketBytes, AcquiredIsFree
<1>3. Redacted(Output[w], chunk.bytes) \in Seq(Text)
    BY <1>2, RedactedType
<1> DEFINE b == Acquired
<1>4. /\ held' = [held EXCEPT ![w] = b]
      /\ mem' = [mem EXCEPT ![b] = IF Wanted(Output[w], chunk.direction, mem[b] \o chunk.bytes)
                                   THEN Redacted(Output[w], mem[b] \o chunk.bytes)
                                   ELSE mem[b] \o chunk.bytes]
      /\ pc' = [pc EXCEPT ![w] = IF Wanted(Output[w], chunk.direction, mem[b] \o chunk.bytes)
                                 THEN "print" ELSE "recycle"]
    BY DEF BuildPacket
<1> HIDE DEF b
<1>5. mem[b] \o chunk.bytes = chunk.bytes /\ b \in Buffers
    BY <1>2 DEF b
<1>6. mem' = [mem EXCEPT ![b] = IF Matches(Output[w], chunk.direction, chunk.bytes)
                                THEN Redacted(Output[w], chunk.bytes) ELSE chunk.bytes]
    BY <1>4, <1>5 DEF Wanted
<1>7. mem'[b] \in Seq(Text)
    BY <1>2, <1>3, <1>5, <1>6 DEF TypeOK
<1>8. pc' = [pc EXCEPT ![w] = IF Matches(Output[w], chunk.direction, chunk.bytes)
                              THEN "print" ELSE "recycle"]
    BY <1>4, <1>5 DEF Wanted
<1> QED
    BY <1>1, <1>4, <1>5, <1>6, <1>7, <1>8 DEF b

\* The first states have their types.
LEMMA TypeInit == Init => TypeOK
<1> SUFFICES ASSUME Init PROVE TypeOK
    OBVIOUS
<1>1. <<>> \in Seq(Buffers) /\ Len(<<>>) =< MaxIdle
    BY BoundAssumption
<1>2. <<<<>>>> \in Seq(Seq(Records)) \ {<<>>}
    OBVIOUS
<1> QED
    BY <1>1, <1>2 DEF Init, TypeOK

\* Every step keeps them.
LEMMA TypeStep ==
    ASSUME TypeOK, BuffersHaveOneOwner, [Next]_vars
    PROVE  TypeOK'
<1> USE DEF TypeOK
<1>1. ASSUME NEW w \in Writers, NEW chunk \in Chunks, Skip(w, chunk)
      PROVE  TypeOK'
    BY <1>1 DEF Skip, Offer, pool, log
<1>2. ASSUME NEW w \in Writers, NEW chunk \in Chunks, BuildPacket(w, chunk)
      PROVE  TypeOK'
    <2> DEFINE b == Acquired
    <2>1. pc[w] = "idle" /\ UNCHANGED <<stdout, captures, lock, file, process, lost, faults>>
          /\ free' = Popped /\ offered' = [offered EXCEPT ![w] = Append(@, chunk)]
        BY <1>2 DEF BuildPacket, Offer, log
    <2>2. Popped \in Seq(Buffers) /\ Len(Popped) =< MaxIdle
        BY <2>1, AcquiredIsFree
    <2>3. /\ b \in Buffers /\ held' = [held EXCEPT ![w] = b] /\ mem'[b] \in Seq(Text)
          /\ \A c \in Buffers : c # b => mem'[c] = mem[c]
          /\ mem' = [c \in Buffers |-> mem'[c]]
        BY <1>2, BuildEffect
    <2>4. pc' = [pc EXCEPT ![w] = "print"] \/ pc' = [pc EXCEPT ![w] = "recycle"]
        BY <1>2, BuildEffect
    <2> HIDE DEF b
    <2>5. mem' \in [Buffers -> Seq(Text)]
        <3>1. \A c \in Buffers : mem'[c] \in Seq(Text)
            BY <2>3
        <3> QED
            BY <2>3, <3>1
    <2>6. free' \in Seq(Buffers) /\ Len(free') =< MaxIdle
        BY <2>1, <2>2
    <2>7. held' \in [Writers -> Buffers \union {None}]
        BY <2>3
    <2>8. offered' \in [Writers -> Seq(Chunks)]
        <3>1. Append(offered[w], chunk) \in Seq(Chunks)
            OBVIOUS
        <3> QED
            BY <2>1, <3>1
    <2>9. pc' \in [Writers -> {"idle", "print", "lock", "line", "newline", "recycle", "gone"}]
        BY <2>4
    <2>10. UNCHANGED <<stdout, captures, lock, file, process, lost, faults>>
        BY <2>1
    <2> QED
        BY <2>5, <2>6, <2>7, <2>8, <2>9, <2>10
<1>3. ASSUME NEW w \in Writers, PrintLine(w)
      PROVE  TypeOK'
    <2>1. held[w] \in Buffers
        BY <1>3, HeldType DEF PrintLine
    <2>2. Record(w, TRUE) \in Records
        BY <2>1, RecordType
    <2> DEFINE r == Record(w, TRUE)
    <2>3. stdout' = Append(stdout, r)
        BY <1>3 DEF PrintLine
    <2> HIDE DEF r
    <2>4. stdout' \in Seq(Records)
        <3>1. r \in Records /\ stdout \in Seq(Records)
            BY <2>2 DEF r
        <3> QED
            BY <2>3, <3>1
    <2> QED
        BY <1>3, <2>4 DEF PrintLine, pool, log, history
<1>4. ASSUME NEW w \in Writers, PrintPanics(w)
      PROVE  TypeOK'
    <2>1. <<>> \in Seq(Text)
        OBVIOUS
    <2>2. mem' \in [Buffers -> Seq(Text)]
        BY <1>4, <2>1 DEF PrintPanics
    <2> QED
        BY <1>4, <2>2 DEF PrintPanics, log, history
<1>5. ASSUME NEW w \in Writers, LockFile(w)
      PROVE  TypeOK'
    BY <1>5 DEF LockFile, pool, history
<1>6. ASSUME NEW w \in Writers, WriteRecord(w)
      PROVE  TypeOK'
    <2>1. held[w] \in Buffers
        BY <1>6, HeldType DEF WriteRecord
    <2>2. Put(Record(w, TRUE)) \in Seq(Seq(Records)) \ {<<>>}
        BY <2>1, RecordType, PutEffect
    <2>3. file' \in Seq(Seq(Records)) \ {<<>>}
        BY <1>6, <2>2 DEF WriteRecord
    <2> QED
        BY <1>6, <2>3 DEF WriteRecord, pool, history
<1>7. ASSUME NEW w \in Writers, WriteNewline(w)
      PROVE  TypeOK'
    <2>1. Append(file, <<>>) \in Seq(Seq(Records)) \ {<<>>}
        <3> DEFINE line == <<>>
                   Lines == Seq(Records)
        <3>1. line \in Lines /\ file \in Seq(Lines)
            OBVIOUS
        <3> HIDE DEF line, Lines
        <3>2. Append(file, line) # <<>>
            BY <3>1, FrontOfAppend
        <3>3. Append(file, line) \in Seq(Lines)
            BY <3>1
        <3> QED
            BY <3>2, <3>3 DEF line, Lines
    <2>2. file' \in Seq(Seq(Records)) \ {<<>>}
        BY <1>7, <2>1 DEF WriteNewline
    <2> QED
        BY <1>7, <2>2 DEF WriteNewline, Unlock, pool, history
<1>8. ASSUME NEW w \in Writers, WriteFails(w)
      PROVE  TypeOK'
    <2>1. held[w] \in Buffers
        BY <1>8, HeldType DEF WriteFails
    <2>2. Put(Record(w, FALSE)) \in Seq(Seq(Records)) \ {<<>>}
        BY <2>1, RecordType, PutEffect
    <2>3. file' \in Seq(Seq(Records)) \ {<<>>}
        BY <1>8, <2>2 DEF WriteFails
    <2>4. lost' \in [Writers -> Nat] /\ faults' \in Nat
        BY <1>8 DEF WriteFails
    <2> QED
        BY <1>8, <2>3, <2>4 DEF WriteFails, Unlock, pool
<1>9. ASSUME NEW w \in Writers, Recycle(w)
      PROVE  TypeOK'
    <2>1. held[w] \in Buffers /\ held[w] # None
        BY <1>9, HeldType, BufferAssumption DEF Recycle
    <2>2. held[w] \notin ToSet(free)
        BY <2>1 DEF BuffersHaveOneOwner
    <2>3. IsInjective(free)
        BY DEF BuffersHaveOneOwner
    <2>4. Park(held[w]) \in Seq(Buffers) /\ Len(Park(held[w])) =< MaxIdle
        BY <2>1, <2>2, <2>3, ParkEffect
    <2>5. free' \in Seq(Buffers) /\ Len(free') =< MaxIdle
        BY <1>9, <2>4 DEF Recycle
    <2>6. <<>> \in Seq(Text)
        OBVIOUS
    <2>7. mem' \in [Buffers -> Seq(Text)]
        BY <1>9, <2>6 DEF Recycle
    <2> QED
        BY <1>9, <2>5, <2>7 DEF Recycle, log, history
<1>10. ASSUME Restart
       PROVE  TypeOK'
    <2>1. <<>> \in Seq(Buffers) /\ Len(<<>>) =< MaxIdle
        BY BoundAssumption
    <2> QED
        BY <1>10, <2>1 DEF Restart
<1>11. ASSUME UNCHANGED vars
       PROVE  TypeOK'
    BY <1>11 DEF vars, pool, log, history
<1> QED
    BY <1>1, <1>2, <1>3, <1>4, <1>5, <1>6, <1>7, <1>8, <1>9, <1>10, <1>11
       DEF Next, Calls, Runs, Silent

----------------------------------------------------------------------------
(* Every buffer has one owner.                                             *)

\* A step that changes neither who holds what nor what is in the buffers.
LEMMA OwnersStay ==
    ASSUME BuffersHaveOneOwner, UNCHANGED pool,
           \A w \in Writers : pc'[w] \in {"idle", "gone"} <=> pc[w] \in {"idle", "gone"}
    PROVE  BuffersHaveOneOwner'
BY DEF BuffersHaveOneOwner, pool, IsInjective, ToSet

\* A step after which w has no packet, and its buffer is parked or nowhere.
LEMMA OwnerLeaves ==
    ASSUME TypeOK, BuffersHaveOneOwner, NEW w \in Writers, held[w] \in Buffers,
           held' = [held EXCEPT ![w] = None], mem' = [mem EXCEPT ![held[w]] = <<>>],
           IsInjective(free'), ToSet(free') \subseteq ToSet(free) \union {held[w]},
           NEW at \in {"idle", "gone"}, pc' = [pc EXCEPT ![w] = at]
    PROVE  BuffersHaveOneOwner'
<1>1. None \notin Buffers
    BY BufferAssumption
<1>2. \A v \in Writers : held'[v] = IF v = w THEN None ELSE held[v]
    BY DEF TypeOK
<1>3. ASSUME NEW v \in Writers
      PROVE  /\ held'[v] = None <=> pc'[v] \in {"idle", "gone"}
             /\ held'[v] # None =>
                   held'[v] \notin ToSet(free') \union {held'[u] : u \in Writers \ {v}}
    <2>1. CASE v = w
        BY <1>2, <2>1 DEF TypeOK
    <2>2. CASE v # w
        <3>1. held'[v] = held[v] /\ pc'[v] = pc[v]
            BY <1>2, <2>2 DEF TypeOK
        <3>2. held[v] = None <=> pc[v] \in {"idle", "gone"}
            BY DEF BuffersHaveOneOwner
        <3>3. ASSUME held[v] # None
              PROVE  held[v] \notin ToSet(free') /\ \A u \in Writers \ {v} : held'[u] # held[v]
            <4>1. /\ held[v] \notin ToSet(free)
                  /\ \A u \in Writers \ {v} : held[u] # held[v]
                BY <3>3 DEF BuffersHaveOneOwner
            <4> QED
                BY <1>1, <1>2, <2>2, <3>3, <4>1
        <3> QED
            BY <3>1, <3>2, <3>3
    <2> QED
        BY <2>1, <2>2
<1>4. ASSUME NEW b \in Buffers, b \notin {held'[v] : v \in Writers}
      PROVE  mem'[b] = <<>>
    <2>1. CASE b = held[w]
        BY <2>1 DEF TypeOK
    <2>2. CASE b # held[w]
        <3>1. \A v \in Writers : held[v] # b
            BY <1>2, <1>4, <2>2
        <3>2. mem[b] = <<>>
            BY <3>1 DEF BuffersHaveOneOwner
        <3> QED
            BY <2>2, <3>2 DEF TypeOK
    <2> QED
        BY <2>1, <2>2
<1> QED
    BY <1>3, <1>4 DEF BuffersHaveOneOwner

\* At first no buffer has an owner.
LEMMA OwnersInit == Init => BuffersHaveOneOwner
<1>1. IsInjective(<<>>)
    <2>1. DOMAIN <<>> = {}
        OBVIOUS
    <2> QED
        BY <2>1 DEF IsInjective
<1> QED
    BY <1>1 DEF Init, BuffersHaveOneOwner

\* Every step keeps it to one.
LEMMA OwnersStep ==
    ASSUME TypeOK, BuffersHaveOneOwner, [Next]_vars
    PROVE  BuffersHaveOneOwner'
<1>1. ASSUME NEW w \in Writers, NEW chunk \in Chunks, Skip(w, chunk)
      PROVE  BuffersHaveOneOwner'
    BY <1>1, OwnersStay DEF Skip
<1>2. ASSUME NEW w \in Writers, NEW chunk \in Chunks, BuildPacket(w, chunk)
      PROVE  BuffersHaveOneOwner'
    <2> DEFINE b == Acquired
    <2>1. pc[w] = "idle" /\ free' = Popped
        BY <1>2 DEF BuildPacket, Offer
    <2>2. /\ b \in Buffers /\ \A v \in Writers : held[v] # b
          /\ IsInjective(Popped) /\ ToSet(Popped) \subseteq ToSet(free) /\ b \notin ToSet(Popped)
        BY <2>1, AcquiredIsFree
    <2>3. /\ held' = [held EXCEPT ![w] = b]
          /\ \A c \in Buffers : c # b => mem'[c] = mem[c]
        BY <1>2, BuildEffect DEF TypeOK
    <2>4. \A v \in Writers :
             /\ pc'[v] \in {"idle", "gone"} <=> (v # w /\ pc[v] \in {"idle", "gone"})
             /\ held'[v] = IF v = w THEN b ELSE held[v]
        BY <1>2, <2>3, BuildEffect DEF TypeOK
    <2> HIDE DEF b
    <2>5. None \notin Buffers
        BY BufferAssumption
    <2>6. ASSUME NEW v \in Writers
          PROVE  /\ held'[v] = None <=> pc'[v] \in {"idle", "gone"}
                 /\ held'[v] # None =>
                       held'[v] \notin ToSet(free') \union {held'[u] : u \in Writers \ {v}}
        <3>1. CASE v = w
            BY <2>1, <2>2, <2>4, <2>5, <3>1
        <3>2. CASE v # w
            <4>1. held[v] = None <=> pc[v] \in {"idle", "gone"}
                BY DEF BuffersHaveOneOwner
            <4>2. ASSUME held[v] # None
                  PROVE  held[v] \notin ToSet(free') /\ \A u \in Writers \ {v} : held'[u] # held[v]
                <5>1. /\ held[v] \notin ToSet(free)
                      /\ \A u \in Writers \ {v} : held[u] # held[v]
                    BY <4>2 DEF BuffersHaveOneOwner
                <5> QED
                    BY <2>1, <2>2, <2>4, <5>1
            <4> QED
                BY <2>4, <3>2, <4>1, <4>2
        <3> QED
            BY <3>1, <3>2
    <2>7. ASSUME NEW c \in Buffers, c \notin {held'[v] : v \in Writers}
          PROVE  mem'[c] = <<>>
        <3>1. c # b /\ \A v \in Writers : v # w => held[v] # c
            BY <2>4, <2>7
        <3>2. held[w] = None
            BY <2>1 DEF BuffersHaveOneOwner
        <3>3. c \notin {held[v] : v \in Writers}
            BY <2>5, <3>1, <3>2
        <3> QED
            BY <2>3, <3>1, <3>3 DEF BuffersHaveOneOwner
    <2>8. IsInjective(free)'
        BY <2>1, <2>2 DEF IsInjective
    <2> QED
        BY <2>6, <2>7, <2>8 DEF BuffersHaveOneOwner, ToSet
<1>3. ASSUME NEW w \in Writers, PrintLine(w)
      PROVE  BuffersHaveOneOwner'
    BY <1>3, OwnersStay DEF PrintLine, TypeOK
<1>4. ASSUME NEW w \in Writers, PrintPanics(w)
      PROVE  BuffersHaveOneOwner'
    <2>1. held[w] \in Buffers
        BY <1>4, HeldType DEF PrintPanics
    <2>2. IsInjective(free') /\ ToSet(free') \subseteq ToSet(free) \union {held[w]}
        BY <1>4 DEF PrintPanics, BuffersHaveOneOwner
    <2>3. /\ held' = [held EXCEPT ![w] = None] /\ mem' = [mem EXCEPT ![held[w]] = <<>>]
          /\ pc' = [pc EXCEPT ![w] = "gone"]
        BY <1>4 DEF PrintPanics
    <2> QED
        BY <2>1, <2>2, <2>3, OwnerLeaves
<1>5. ASSUME NEW w \in Writers, LockFile(w)
      PROVE  BuffersHaveOneOwner'
    BY <1>5, OwnersStay DEF LockFile, TypeOK
<1>6. ASSUME NEW w \in Writers, WriteRecord(w)
      PROVE  BuffersHaveOneOwner'
    BY <1>6, OwnersStay DEF WriteRecord, TypeOK
<1>7. ASSUME NEW w \in Writers, WriteNewline(w)
      PROVE  BuffersHaveOneOwner'
    BY <1>7, OwnersStay DEF WriteNewline, Unlock, TypeOK
<1>8. ASSUME NEW w \in Writers, WriteFails(w)
      PROVE  BuffersHaveOneOwner'
    <2>1. \A v \in Writers : pc'[v] \in {"idle", "gone"} <=> pc[v] \in {"idle", "gone"}
        BY <1>8 DEF WriteFails, Unlock, TypeOK
    <2> QED
        BY <1>8, <2>1, OwnersStay DEF WriteFails
<1>9. ASSUME NEW w \in Writers, Recycle(w)
      PROVE  BuffersHaveOneOwner'
    <2>1. held[w] \in Buffers /\ held[w] # None
        BY <1>9, HeldType, BufferAssumption DEF Recycle
    <2>2. held[w] \notin ToSet(free) /\ IsInjective(free)
        BY <2>1 DEF BuffersHaveOneOwner
    <2>3. IsInjective(Park(held[w])) /\ ToSet(Park(held[w])) \subseteq ToSet(free) \union {held[w]}
        BY <2>1, <2>2, ParkEffect
    <2>4. IsInjective(free') /\ ToSet(free') \subseteq ToSet(free) \union {held[w]}
        BY <1>9, <2>3 DEF Recycle
    <2>5. /\ held' = [held EXCEPT ![w] = None] /\ mem' = [mem EXCEPT ![held[w]] = <<>>]
          /\ pc' = [pc EXCEPT ![w] = "idle"]
        BY <1>9 DEF Recycle
    <2> QED
        BY <2>1, <2>4, <2>5, OwnerLeaves
<1>10. ASSUME Restart
       PROVE  BuffersHaveOneOwner'
    <2>1. DOMAIN <<>> = {}
        OBVIOUS
    <2> QED
        BY <1>10, <2>1 DEF Restart, BuffersHaveOneOwner, IsInjective
<1>11. ASSUME UNCHANGED vars
       PROVE  BuffersHaveOneOwner'
    BY <1>11, OwnersStay DEF vars
<1> QED
    BY <1>1, <1>2, <1>3, <1>4, <1>5, <1>6, <1>7, <1>8, <1>9, <1>10, <1>11
       DEF Next, Calls, Runs, Silent

----------------------------------------------------------------------------
(* The mutex of the file.                                                  *)

\* At first nobody has the mutex.
LEMMA LockInit == Init => LockInv
BY BufferAssumption DEF Init, LockInv

\* Every step keeps LockInv.
LEMMA LockStep ==
    ASSUME TypeOK, LockInv, [Next]_vars
    PROVE  LockInv'
<1> USE DEF TypeOK, LockInv
<1>0. None \notin Writers
    BY BufferAssumption
<1>1. ASSUME NEW w \in Writers, NEW chunk \in Chunks, Skip(w, chunk)
      PROVE  LockInv'
    BY <1>1 DEF Skip, Offer, log
<1>2. ASSUME NEW w \in Writers, NEW chunk \in Chunks, BuildPacket(w, chunk)
      PROVE  LockInv'
    <2>1. /\ pc[w] = "idle" /\ UNCHANGED <<captures, lock>>
          /\ \E at \in {"print", "recycle"} : pc' = [pc EXCEPT ![w] = at]
        BY <1>2 DEF BuildPacket, Offer, log
    <2> QED
        BY <2>1
<1>3. ASSUME NEW w \in Writers, PrintLine(w)
      PROVE  LockInv'
    BY <1>3 DEF PrintLine, log
<1>4. ASSUME NEW w \in Writers, PrintPanics(w)
      PROVE  LockInv'
    BY <1>4 DEF PrintPanics, log
<1>5. ASSUME NEW w \in Writers, LockFile(w)
      PROVE  LockInv'
    BY <1>0, <1>5 DEF LockFile
<1>6. ASSUME NEW w \in Writers, WriteRecord(w)
      PROVE  LockInv'
    BY <1>6 DEF WriteRecord
<1>7. ASSUME NEW w \in Writers, WriteNewline(w)
      PROVE  LockInv'
    BY <1>0, <1>7 DEF WriteNewline, Unlock
<1>8. ASSUME NEW w \in Writers, WriteFails(w)
      PROVE  LockInv'
    BY <1>0, <1>8 DEF WriteFails, Unlock
<1>9. ASSUME NEW w \in Writers, Recycle(w)
      PROVE  LockInv'
    BY <1>9 DEF Recycle, log
<1>10. ASSUME Restart
       PROVE  LockInv'
    BY <1>0, <1>10 DEF Restart
<1>11. ASSUME UNCHANGED vars
       PROVE  LockInv'
    BY <1>11 DEF vars, log
<1> QED
    BY <1>1, <1>2, <1>3, <1>4, <1>5, <1>6, <1>7, <1>8, <1>9, <1>10, <1>11
       DEF Next, Calls, Runs, Silent

----------------------------------------------------------------------------
(* What is printed is what is due.                                         *)

\* What a session has printed has its type.
LEMMA PrintedType ==
    ASSUME TypeOK, NEW w \in Writers
    PROVE  Printed(w) \in Seq(Seq(Text))
<1>1. Kept(stdout, {r \in Records : r.writer = w}) \in Seq(Records)
    BY KeptType DEF TypeOK
<1> QED
    BY <1>1, BytesType DEF Printed

\* What println! adds to what has been printed of each session.
LEMMA PrintedAppend ==
    ASSUME TypeOK, NEW w \in Writers, held[w] \in Buffers,
           stdout' = Append(stdout, Record(w, TRUE)), NEW v \in Writers
    PROVE  Printed(v)' = IF v = w THEN Append(Printed(w), mem[held[w]]) ELSE Printed(v)
<1> DEFINE r == Record(w, TRUE)
           set == {x \in Records : x.writer = v}
<1>1. /\ r \in Records /\ r.bytes = mem[held[w]] /\ (r \in set <=> v = w)
      /\ stdout \in Seq(Records) /\ stdout' = Append(stdout, r)
    BY RecordType DEF TypeOK
<1> HIDE DEF r
<1>2. Printed(v) = Bytes(Kept(stdout, set)) /\ Printed(v)' = Bytes(Kept(stdout', set))
    BY DEF Printed
<1> HIDE DEF set
<1>3. Kept(stdout', set) = IF v = w THEN Append(Kept(stdout, set), r) ELSE Kept(stdout, set)
    <2>1. Kept(Append(stdout, r), set) =
             IF r \in set THEN Append(Kept(stdout, set), r) ELSE Kept(stdout, set)
        BY <1>1, KeptAppend
    <2> QED
        BY <1>1, <2>1
<1>4. Kept(stdout, set) \in Seq(Records)
    BY <1>1, KeptType
<1>5. Bytes(Append(Kept(stdout, set), r)) = Append(Bytes(Kept(stdout, set)), r.bytes)
    BY <1>1, <1>4, BytesAppend
<1> QED
    BY <1>1, <1>2, <1>3, <1>5

\* Only prints change it.
LEMMA PrintedStays ==
    ASSUME UNCHANGED stdout, NEW v \in Writers
    PROVE  Printed(v)' = Printed(v)
BY DEF Printed

\* It is empty at first.
LEMMA PrintedNothing ==
    ASSUME stdout = <<>>, NEW v \in Writers
    PROVE  Printed(v) = <<>>
BY KeptEmpty, BytesEmpty DEF Printed

\* Which chunks of w are to be printed.
Selected(w) ==
    {c \in Chunks : Output[w].enabled /\ Matches(Output[w], c.direction, c.bytes)}

\* What Due makes of the chunks that are to be printed.
AllRedacted(w, wanted) == [i \in DOMAIN wanted |-> Redacted(Output[w], wanted[i].bytes)]

\* What is due: the redaction of what is selected.
LEMMA DueIs ==
    ASSUME NEW w \in Writers
    PROVE  Due(w) = AllRedacted(w, Kept(offered[w], Selected(w)))
BY DEF Due, AllRedacted, Selected

\* Redaction works packet by packet.
LEMMA AllRedactedAppend ==
    ASSUME NEW w \in Writers, NEW s \in Seq(Chunks), NEW c \in Chunks
    PROVE  /\ AllRedacted(w, s) \in Seq(Seq(Text))
           /\ AllRedacted(w, Append(s, c)) =
                 Append(AllRedacted(w, s), Redacted(Output[w], c.bytes))
<1> DEFINE t == Append(s, c)
           n == Len(s)
           x == Redacted(Output[w], c.bytes)
           a == AllRedacted(w, s)
<1>1. /\ n \in Nat /\ DOMAIN s = 1 .. n /\ DOMAIN t = 1 .. n + 1
      /\ t[n + 1] = c /\ \A i \in 1 .. n : t[i] = s[i] /\ s[i] \in Chunks
    OBVIOUS
<1>2. \A d \in Chunks : d.bytes \in Seq(Text)
    <2>1. Seq(Letters) \subseteq Seq(Text)
        <3>1. Letters \subseteq Text
            BY DEF Text
        <3> QED
            BY <3>1
    <2>2. \A d \in Chunks : d.bytes \in Seq(Letters)
        BY DataAssumption
    <2> QED
        BY <2>1, <2>2
<1>3. \A d \in Chunks : Redacted(Output[w], d.bytes) \in Seq(Text)
    BY <1>2, RedactedType
<1>4. a = [i \in 1 .. n |-> Redacted(Output[w], s[i].bytes)]
    BY <1>1 DEF AllRedacted
<1>5. AllRedacted(w, t) = [i \in 1 .. n + 1 |-> Redacted(Output[w], t[i].bytes)]
    BY <1>1 DEF AllRedacted
<1> HIDE DEF t, n, a
<1>6. \A i \in 1 .. n : Redacted(Output[w], s[i].bytes) \in Seq(Text)
    BY <1>1, <1>3
<1>7. a \in Seq(Seq(Text)) /\ Len(a) = n
    BY <1>1, <1>4, <1>6
<1>8. Append(a, x) = [i \in 1 .. n + 1 |-> IF i = n + 1 THEN x ELSE a[i]]
    BY <1>7
<1>9. \A i \in 1 .. n + 1 :
         Redacted(Output[w], t[i].bytes) = IF i = n + 1 THEN x ELSE a[i]
    <2>1. \A i \in 1 .. n + 1 : i # n + 1 => i \in 1 .. n
        BY <1>1
    <2> QED
        BY <1>1, <1>4, <2>1
<1> QED
    BY <1>5, <1>7, <1>8, <1>9 DEF a, t

\* What is due has its type.
LEMMA DueType ==
    ASSUME TypeOK, NEW w \in Writers
    PROVE  Due(w) \in Seq(Seq(Text))
<1>1. CASE Chunks = {}
    <2> DEFINE k == Kept(offered[w], Selected(w))
    <2>1. k \in Seq({})
        BY <1>1, KeptType DEF TypeOK
    <2> HIDE DEF k
    <2>2. DOMAIN k = {} /\ k = <<>>
        BY <2>1
    <2>3. AllRedacted(w, k) = <<>>
        BY <2>2 DEF AllRedacted
    <2>4. <<>> \in Seq(Seq(Text))
        OBVIOUS
    <2>5. Due(w) = AllRedacted(w, k)
        BY DueIs DEF k
    <2> QED
        BY <2>3, <2>4, <2>5
<1>2. CASE Chunks # {}
    <2>1. PICK c \in Chunks : TRUE
        BY <1>2
    <2>2. Kept(offered[w], Selected(w)) \in Seq(Chunks)
        BY KeptType DEF TypeOK
    <2> QED
        BY <2>1, <2>2, AllRedactedAppend, DueIs
<1> QED
    BY <1>1, <1>2

\* What a chunk adds to what is due of each session.
LEMMA DueAppend ==
    ASSUME TypeOK, NEW w \in Writers, NEW chunk \in Chunks,
           offered' = [offered EXCEPT ![w] = Append(@, chunk)], NEW v \in Writers
    PROVE  Due(v)' = IF v = w /\ Output[w].enabled
                              /\ Matches(Output[w], chunk.direction, chunk.bytes)
                     THEN Append(Due(w), Redacted(Output[w], chunk.bytes)) ELSE Due(v)
<1> DEFINE set == Selected(v)
<1>1. Due(v) = AllRedacted(v, Kept(offered[v], set))
    BY DueIs
<1>2. Due(v)' = AllRedacted(v, Kept(offered'[v], set))
    BY DEF Due, AllRedacted, Selected
<1>3. chunk \in set <=> Output[v].enabled /\ Matches(Output[v], chunk.direction, chunk.bytes)
    BY DEF Selected
<1> HIDE DEF set
<1>4. CASE v # w
    <2>1. offered'[v] = offered[v]
        BY <1>4 DEF TypeOK
    <2> QED
        BY <1>1, <1>2, <1>4, <2>1
<1>5. CASE v = w
    <2>1. offered'[w] = Append(offered[w], chunk) /\ offered[w] \in Seq(Chunks)
        BY DEF TypeOK
    <2>2. Kept(offered'[w], set) = IF chunk \in set THEN Append(Kept(offered[w], set), chunk)
                                   ELSE Kept(offered[w], set)
        <3>1. \A s \in Seq(Chunks) :
                 Kept(Append(s, chunk), set) =
                    IF chunk \in set THEN Append(Kept(s, set), chunk) ELSE Kept(s, set)
            BY KeptAppend
        <3> QED
            BY <2>1, <3>1
    <2>3. Kept(offered[w], set) \in Seq(Chunks)
        BY <2>1, KeptType
    <2>4. AllRedacted(w, Append(Kept(offered[w], set), chunk)) =
             Append(AllRedacted(w, Kept(offered[w], set)), Redacted(Output[w], chunk.bytes))
        BY <2>3, AllRedactedAppend
    <2> QED
        BY <1>1, <1>2, <1>3, <1>5, <2>2, <2>4
<1> QED
    BY <1>4, <1>5

\* Only offers change it.
LEMMA DueStays ==
    ASSUME UNCHANGED offered, NEW v \in Writers
    PROVE  Due(v)' = Due(v)
BY DEF Due

\* Nothing is due at first.
LEMMA DueNothing ==
    ASSUME NEW v \in Writers, offered[v] = <<>>
    PROVE  Due(v) = <<>>
<1>1. Kept(offered[v], Selected(v)) = <<>>
    BY KeptEmpty
<1>2. AllRedacted(v, <<>>) = <<>>
    <2>1. DOMAIN <<>> = {}
        OBVIOUS
    <2> QED
        BY <2>1 DEF AllRedacted
<1> QED
    BY <1>1, <1>2, DueIs

\* PrintsWhatIsDue of one session.
DuePrinted(v) ==
    Printed(v) \o InPrint(v) = IF pc[v] = "gone" THEN Front(Due(v)) ELSE Due(v)

\* A step that neither prints nor offers a chunk of v, nor touches its packet.
LEMMA DuePrintedStays ==
    ASSUME NEW v \in Writers, DuePrinted(v),
           Printed(v)' = Printed(v), Due(v)' = Due(v),
           pc'[v] = pc[v] \/ {pc[v], pc'[v]} \intersect {"print", "gone"} = {},
           pc[v] = "print" => mem'[held'[v]] = mem[held[v]]
    PROVE  DuePrinted(v)'
BY DEF DuePrinted, InPrint

\* A step of another session leaves v's packet as it is.
LEMMA PacketOfOther ==
    ASSUME TypeOK, BuffersHaveOneOwner, NEW w \in Writers, NEW v \in Writers, v # w,
           NEW b, b = held[w] \/ \A u \in Writers : held[u] # b,
           \A c \in Buffers : c # b => mem'[c] = mem[c], held'[v] = held[v],
           pc[v] \notin {"idle", "gone"}
    PROVE  mem'[held'[v]] = mem[held[v]]
<1>1. held[v] \in Buffers /\ held[v] # None
    BY HeldType, BufferAssumption
<1>2. held[v] # b
    BY <1>1 DEF BuffersHaveOneOwner
<1> QED
    BY <1>1, <1>2

\* At first, nothing is due and nothing is printed.
LEMMA DueInit == Init => PrintsWhatIsDue
<1> SUFFICES ASSUME Init, NEW w \in Writers PROVE DuePrinted(w)
    BY DEF PrintsWhatIsDue, DuePrinted
<1>1. Printed(w) = <<>> /\ Due(w) = <<>>
    BY PrintedNothing, DueNothing DEF Init
<1>2. InPrint(w) = <<>> /\ pc[w] = "idle"
    BY DEF Init, InPrint
<1> QED
    BY <1>1, <1>2 DEF DuePrinted

\* Every step keeps PrintsWhatIsDue.
LEMMA DueStep ==
    ASSUME TypeOK, BuffersHaveOneOwner, PrintsWhatIsDue, [Next]_vars
    PROVE  PrintsWhatIsDue'
<1> SUFFICES ASSUME NEW v \in Writers PROVE DuePrinted(v)'
    BY DEF PrintsWhatIsDue, DuePrinted
<1>0. DuePrinted(v)
    BY DEF PrintsWhatIsDue, DuePrinted
<1>1. ASSUME NEW w \in Writers, NEW chunk \in Chunks, Skip(w, chunk)
      PROVE  DuePrinted(v)'
    <2>1. Due(v)' = Due(v)
        BY <1>1, DueAppend DEF Skip, Offer
    <2>2. Printed(v)' = Printed(v)
        BY <1>1, PrintedStays DEF Skip, Offer
    <2> QED
        BY <1>0, <1>1, <2>1, <2>2, DuePrintedStays DEF Skip, pool
<1>2. ASSUME NEW w \in Writers, NEW chunk \in Chunks, BuildPacket(w, chunk)
      PROVE  DuePrinted(v)'
    <2> DEFINE b == Acquired
               wanted == Matches(Output[w], chunk.direction, chunk.bytes)
               x == Redacted(Output[w], chunk.bytes)
    <2>1. /\ pc[w] = "idle" /\ UNCHANGED stdout /\ Output[w].enabled
          /\ offered' = [offered EXCEPT ![w] = Append(@, chunk)]
        BY <1>2 DEF BuildPacket, Offer
    <2>2. b \in Buffers /\ \A u \in Writers : held[u] # b
        BY <2>1, AcquiredIsFree
    <2>3. /\ held' = [held EXCEPT ![w] = b]
          /\ mem' = [mem EXCEPT ![b] = IF wanted THEN x ELSE chunk.bytes]
          /\ pc' = [pc EXCEPT ![w] = IF wanted THEN "print" ELSE "recycle"]
        BY <1>2, BuildEffect
    <2>4. Printed(v)' = Printed(v)
        BY <2>1, PrintedStays
    <2>5. Due(v)' = IF v = w /\ wanted THEN Append(Due(w), x) ELSE Due(v)
        BY <2>1, DueAppend
    <2> HIDE DEF b, x, wanted
    <2>6. CASE v # w
        <3>1. Due(v)' = Due(v) /\ pc'[v] = pc[v] /\ held'[v] = held[v]
            BY <2>3, <2>5, <2>6 DEF TypeOK
        <3>2. \A c \in Buffers : c # b => mem'[c] = mem[c]
            BY <2>3 DEF TypeOK
        <3>3. pc[v] = "print" => mem'[held'[v]] = mem[held[v]]
            BY <2>2, <2>6, <3>1, <3>2, PacketOfOther
        <3> QED
            BY <1>0, <2>4, <3>1, <3>3, DuePrintedStays
    <2>7. CASE v = w /\ ~wanted
        <3>1. pc'[v] = "recycle" /\ pc[v] = "idle" /\ Due(v)' = Due(v)
            BY <2>1, <2>3, <2>5, <2>7 DEF TypeOK
        <3> QED
            BY <1>0, <2>4, <3>1, DuePrintedStays
    <2>8. CASE v = w /\ wanted
        <3>1. pc'[v] = "print" /\ held'[v] = b /\ mem'[b] = x
            BY <2>2, <2>3, <2>8 DEF TypeOK
        <3>2. InPrint(v)' = <<x>> /\ InPrint(v) = <<>> /\ pc[v] # "gone"
            BY <2>1, <2>8, <3>1 DEF InPrint
        <3>3. Printed(v) \in Seq(Seq(Text)) /\ x \in Seq(Text)
            <4>1. chunk.bytes \in Seq(Text)
                BY <2>1, PacketBytes
            <4> QED
                BY <4>1, PrintedType, RedactedType DEF x
        <3>4. Printed(v) = Due(v)
            BY <1>0, <3>2, <3>3 DEF DuePrinted
        <3>5. Printed(v) \o <<x>> = Append(Printed(v), x)
            BY <3>3
        <3>6. Due(v)' = Append(Due(v), x) /\ pc'[v] # "gone"
            BY <2>5, <2>8, <3>1
        <3> QED
            BY <2>4, <3>2, <3>4, <3>5, <3>6 DEF DuePrinted
    <2> QED
        BY <2>6, <2>7, <2>8
<1>3. ASSUME NEW w \in Writers, PrintLine(w)
      PROVE  DuePrinted(v)'
    <2>1. held[w] \in Buffers /\ mem[held[w]] \in Seq(Text)
        BY <1>3, HeldType DEF PrintLine
    <2>2. stdout' = Append(stdout, Record(w, TRUE))
        BY <1>3 DEF PrintLine
    <2>3. Printed(v)' = IF v = w THEN Append(Printed(w), mem[held[w]]) ELSE Printed(v)
        BY <2>1, <2>2, PrintedAppend
    <2>4. Due(v)' = Due(v)
        BY <1>3, DueStays DEF PrintLine, history
    <2>5. CASE v # w
        <3>1. pc'[v] = pc[v] /\ mem'[held'[v]] = mem[held[v]]
            BY <1>3, <2>5 DEF PrintLine, pool, TypeOK
        <3> QED
            BY <1>0, <2>3, <2>4, <2>5, <3>1, DuePrintedStays
    <2>6. CASE v = w
        <3>1. pc[w] = "print" /\ pc'[w] \in {"lock", "recycle"}
            BY <1>3 DEF PrintLine, TypeOK
        <3>2. InPrint(w) = <<mem[held[w]]>> /\ InPrint(w)' = <<>>
            BY <3>1 DEF InPrint
        <3>3. Printed(w) \in Seq(Seq(Text))
            BY PrintedType
        <3>4. Printed(w) \o <<mem[held[w]]>> = Append(Printed(w), mem[held[w]])
            BY <2>1, <3>3
        <3>5. Append(Printed(w), mem[held[w]]) \o <<>> = Append(Printed(w), mem[held[w]])
            BY <2>1, <3>3
        <3>6. Append(Printed(w), mem[held[w]]) = Due(w)
            BY <1>0, <2>6, <3>1, <3>2, <3>4 DEF DuePrinted
        <3> QED
            BY <2>3, <2>4, <2>6, <3>1, <3>2, <3>5, <3>6 DEF DuePrinted
    <2> QED
        BY <2>5, <2>6
<1>4. ASSUME NEW w \in Writers, PrintPanics(w)
      PROVE  DuePrinted(v)'
    <2>1. held[w] \in Buffers /\ mem[held[w]] \in Seq(Text)
        BY <1>4, HeldType DEF PrintPanics
    <2>2. Printed(v)' = Printed(v) /\ Due(v)' = Due(v)
        BY <1>4, PrintedStays, DueStays DEF PrintPanics, history
    <2>3. CASE v # w
        <3>1. /\ pc'[v] = pc[v] /\ held'[v] = held[v]
              /\ \A c \in Buffers : c # held[w] => mem'[c] = mem[c]
            BY <1>4, <2>3 DEF PrintPanics, TypeOK
        <3>2. pc[v] = "print" => mem'[held'[v]] = mem[held[v]]
            BY <2>3, <3>1, PacketOfOther
        <3> QED
            BY <1>0, <2>2, <3>1, <3>2, DuePrintedStays
    <2>4. CASE v = w
        <3>1. pc[w] = "print" /\ pc'[w] = "gone"
            BY <1>4 DEF PrintPanics, TypeOK
        <3>2. InPrint(w) = <<mem[held[w]]>> /\ InPrint(w)' = <<>>
            BY <3>1 DEF InPrint
        <3>3. Printed(w) \in Seq(Seq(Text))
            BY PrintedType
        <3>4. Printed(w) \o <<mem[held[w]]>> = Append(Printed(w), mem[held[w]])
            BY <2>1, <3>3
        <3>5. Due(w) = Append(Printed(w), mem[held[w]])
            BY <1>0, <2>4, <3>1, <3>2, <3>4 DEF DuePrinted
        <3>6. Front(Due(w)) = Printed(w)
            BY <2>1, <3>3, <3>5, FrontOfAppend
        <3>7. Printed(w) \o <<>> = Printed(w)
            BY <3>3
        <3>8. Printed(w)' \o InPrint(w)' = Front(Due(w)')
            BY <2>2, <2>4, <3>2, <3>6, <3>7
        <3> QED
            BY <2>4, <3>1, <3>8 DEF DuePrinted
    <2> QED
        BY <2>3, <2>4
<1>5. ASSUME NEW w \in Writers, LockFile(w)
      PROVE  DuePrinted(v)'
    BY <1>0, <1>5, PrintedStays, DueStays, DuePrintedStays DEF LockFile, pool, history, TypeOK
<1>6. ASSUME NEW w \in Writers, WriteRecord(w)
      PROVE  DuePrinted(v)'
    BY <1>0, <1>6, PrintedStays, DueStays, DuePrintedStays DEF WriteRecord, pool, history, TypeOK
<1>7. ASSUME NEW w \in Writers, WriteNewline(w)
      PROVE  DuePrinted(v)'
    BY <1>0, <1>7, PrintedStays, DueStays, DuePrintedStays
       DEF WriteNewline, Unlock, pool, history, TypeOK
<1>8. ASSUME NEW w \in Writers, WriteFails(w)
      PROVE  DuePrinted(v)'
    <2>1. pc'[v] = pc[v] \/ (pc[v] \in {"line", "newline"} /\ pc'[v] = "recycle")
        BY <1>8 DEF WriteFails, Unlock, TypeOK
    <2>2. Printed(v)' = Printed(v) /\ Due(v)' = Due(v) /\ mem'[held'[v]] = mem[held[v]]
        BY <1>8, PrintedStays, DueStays DEF WriteFails, pool
    <2> QED
        BY <1>0, <2>1, <2>2, DuePrintedStays
<1>9. ASSUME NEW w \in Writers, Recycle(w)
      PROVE  DuePrinted(v)'
    <2>1. Printed(v)' = Printed(v) /\ Due(v)' = Due(v)
        BY <1>9, PrintedStays, DueStays DEF Recycle, history
    <2>2. CASE v # w
        <3>1. /\ pc'[v] = pc[v] /\ held'[v] = held[v]
              /\ \A c \in Buffers : c # held[w] => mem'[c] = mem[c]
            BY <1>9, <2>2 DEF Recycle, TypeOK
        <3>2. pc[v] = "print" => mem'[held'[v]] = mem[held[v]]
            BY <2>2, <3>1, PacketOfOther
        <3> QED
            BY <1>0, <2>1, <3>1, <3>2, DuePrintedStays
    <2>3. CASE v = w
        <3>1. pc[v] = "recycle" /\ pc'[v] = "idle"
            BY <1>9, <2>3 DEF Recycle, TypeOK
        <3> QED
            BY <1>0, <2>1, <3>1, DuePrintedStays
    <2> QED
        BY <2>2, <2>3
<1>10. ASSUME Restart
       PROVE  DuePrinted(v)'
    <2>1. stdout' = <<>> /\ offered'[v] = <<>> /\ pc'[v] = "idle"
        BY <1>10 DEF Restart
    <2>2. Printed(v)' = <<>>
        BY <2>1, KeptEmpty, BytesEmpty DEF Printed
    <2>3. Due(v)' = <<>>
        <3>1. Kept(<<>>, Selected(v)) = <<>>
            BY KeptEmpty
        <3>2. Due(v)' = AllRedacted(v, Kept(offered'[v], Selected(v)))
            BY DEF Due, AllRedacted, Selected
        <3>3. DOMAIN <<>> = {}
            OBVIOUS
        <3>4. AllRedacted(v, <<>>) = <<>>
            BY <3>3 DEF AllRedacted
        <3> QED
            BY <2>1, <3>1, <3>2, <3>4
    <2>4. InPrint(v)' = <<>>
        BY <2>1 DEF InPrint
    <2>5. <<>> \o <<>> = <<>>
        OBVIOUS
    <2> QED
        BY <2>1, <2>2, <2>3, <2>4, <2>5 DEF DuePrinted
<1>11. ASSUME UNCHANGED vars
       PROVE  DuePrinted(v)'
    BY <1>0, <1>11, PrintedStays, DueStays, DuePrintedStays DEF vars, pool, history
<1> QED
    BY <1>1, <1>2, <1>3, <1>4, <1>5, <1>6, <1>7, <1>8, <1>9, <1>10, <1>11
       DEF Next, Calls, Runs, Silent

----------------------------------------------------------------------------
(* The capture log has what was printed.                                   *)

\* The records of the file have their type.
LEMMA WrittenType ==
    ASSUME TypeOK
    PROVE  Written \in Seq(Records)
BY FlattenType DEF Written, TypeOK

\* The records in the file that Captured(v) has.
Own(v) == {r \in Records : r.writer = v /\ r.process = process /\ r.whole}

\* What is captured of a session: the bytes of its records.
LEMMA CapturedIs ==
    ASSUME NEW v \in Writers
    PROVE  /\ Captured(v) = Bytes(Kept(Written, Own(v)))
           /\ process' = process => Captured(v)' = Bytes(Kept(Written', Own(v)))
BY DEF Captured, Own, Written

\* They have their type.
LEMMA CapturedType ==
    ASSUME TypeOK, NEW v \in Writers
    PROVE  Captured(v) \in Seq(Seq(Text))
<1>1. Kept(Written, Own(v)) \in Seq(Records)
    BY WrittenType, KeptType
<1> QED
    BY <1>1, BytesType, CapturedIs

\* Writing a record, or a part of one, to the file.
LEMMA WrittenPut ==
    ASSUME TypeOK, NEW w \in Writers, held[w] \in Buffers, NEW whole \in BOOLEAN,
           file' = Put(Record(w, whole))
    PROVE  Written' = Append(Written, Record(w, whole))
<1>1. Record(w, whole) \in Records
    BY RecordType
<1>2. FlattenSeq(Put(Record(w, whole))) = Append(FlattenSeq(file), Record(w, whole))
    BY <1>1, PutEffect
<1> QED
    BY <1>2 DEF Written

\* A write adds to its own session.
LEMMA CapturedPut ==
    ASSUME TypeOK, NEW w \in Writers, held[w] \in Buffers, NEW whole \in BOOLEAN,
           file' = Put(Record(w, whole)), process' = process, NEW v \in Writers
    PROVE  Captured(v)' = IF v = w /\ whole THEN Append(Captured(w), mem[held[w]])
                          ELSE Captured(v)
<1> DEFINE r == Record(w, whole)
           set == Own(v)
           s == Written
<1>1. /\ r \in Records /\ r.bytes = mem[held[w]] /\ (r \in set <=> v = w /\ whole)
      /\ s \in Seq(Records)
    BY RecordType, WrittenType DEF Own
<1>2. Captured(v) = Bytes(Kept(s, set)) /\ Captured(v)' = Bytes(Kept(s', set))
    BY CapturedIs
<1>3. s' = Append(s, r)
    BY WrittenPut
<1> HIDE DEF r, set, s
<1>4. Kept(Append(s, r), set) = IF r \in set THEN Append(Kept(s, set), r) ELSE Kept(s, set)
    BY <1>1, KeptAppend
<1>5. Kept(s, set) \in Seq(Records)
    BY <1>1, KeptType
<1>6. Bytes(Append(Kept(s, set), r)) = Append(Bytes(Kept(s, set)), r.bytes)
    BY <1>1, <1>5, BytesAppend
<1> QED
    BY <1>1, <1>2, <1>3, <1>4, <1>6

\* Only writes change it.
LEMMA CapturedStays ==
    ASSUME Written' = Written, process' = process, NEW v \in Writers
    PROVE  Captured(v)' = Captured(v)
BY CapturedIs

\* Only a new process makes records older; no step writes one of the future.
LEMMA PastInit == Init => PastInv
<1> SUFFICES ASSUME Init PROVE PastInv
    OBVIOUS
<1>1. TypeOK
    BY TypeInit
<1> DEFINE E == Seq(Records)
<1>2. file = Append(<<>>, <<>>) /\ <<>> \in Seq(E) /\ <<>> \in E
    BY DEF Init
<1>3. FlattenSeq(Append(<<>>, <<>>)) = FlattenSeq(<<>>) \o <<>>
    BY <1>2, FlattenAppend
<1>4. FlattenSeq(<<>>) = <<>>
    BY DEF FlattenSeq
<1>5. Written = <<>> /\ DOMAIN <<>> = {}
    BY <1>2, <1>3, <1>4 DEF Written
<1> QED
    BY <1>5 DEF PastInv

\* Every step keeps PastInv.
LEMMA PastStep ==
    ASSUME TypeOK, BuffersHaveOneOwner, PastInv, [Next]_vars
    PROVE  PastInv'
<1>1. ASSUME Written' = Written, process' >= process, process' \in Nat
      PROVE  PastInv'
    <2>1. \A i \in DOMAIN Written : Written[i].process \in Nat
        <3>1. \A i \in DOMAIN Written : Written[i] \in Records
            BY WrittenType
        <3> QED
            BY <3>1 DEF Records
    <2> QED
        BY <1>1, <2>1 DEF PastInv, TypeOK
<1>2. ASSUME file' = file, process' = process \/ process' = process + 1
      PROVE  PastInv'
    BY <1>1, <1>2 DEF Written, TypeOK
<1>3. ASSUME NEW w \in Writers, NEW whole \in BOOLEAN, file' = Put(Record(w, whole)),
             pc[w] \notin {"idle", "gone"}, process' = process
      PROVE  PastInv'
    <2> DEFINE r == Record(w, whole)
    <2>1. held[w] \in Buffers
        BY <1>3, HeldType
    <2>2. Written' = Append(Written, r) /\ r.process = process
        BY <1>3, <2>1, WrittenPut, RecordType
    <2>3. Written \in Seq(Records) /\ process \in Nat
        BY WrittenType DEF TypeOK
    <2> HIDE DEF r
    <2> QED
        BY <1>3, <2>2, <2>3 DEF PastInv
<1>4. ASSUME NEW w \in Writers, WriteNewline(w)
      PROVE  PastInv'
    <2>1. Written' = Written
        BY <1>4, NewlineEffect DEF WriteNewline, Written
    <2> QED
        BY <1>1, <1>4, <2>1 DEF WriteNewline, history, TypeOK
<1>5. ASSUME NEW w \in Writers, WriteRecord(w)
      PROVE  PastInv'
    BY <1>3, <1>5 DEF WriteRecord, history
<1>6. ASSUME NEW w \in Writers, WriteFails(w)
      PROVE  PastInv'
    BY <1>2, <1>3, <1>6 DEF WriteFails
<1>7. ASSUME NEW w \in Writers, Calls(w)
      PROVE  PastInv'
    BY <1>2, <1>7 DEF Calls, Skip, BuildPacket, Offer, log
<1>8. ASSUME NEW w \in Writers, PrintLine(w) \/ PrintPanics(w) \/ LockFile(w) \/ Recycle(w)
      PROVE  PastInv'
    BY <1>2, <1>8 DEF PrintLine, PrintPanics, LockFile, Recycle, log, history
<1>9. ASSUME Restart
      PROVE  PastInv'
    BY <1>2, <1>9 DEF Restart
<1>10. ASSUME UNCHANGED vars
       PROVE  PastInv'
    BY <1>2, <1>10 DEF vars, log, history
<1> QED
    BY <1>4, <1>5, <1>6, <1>7, <1>8, <1>9, <1>10 DEF Next, Runs, Silent

\* FileInv and LengthInv of one session.
InStep(v) ==
    /\ IF pc[v] \in {"lock", "line"} THEN AboutToWrite(v)
       ELSE IsSubsequence(Captured(v), Printed(v))
    /\ Len(Printed(v)) =
          Len(Captured(v)) + lost[v] + (IF pc[v] \in {"lock", "line"} THEN 1 ELSE 0)

\* A step that adds nothing of v to the sinks.
LEMMA InStepStays ==
    ASSUME NEW v \in Writers, InStep(v),
           Printed(v)' = Printed(v), Captured(v)' = Captured(v), lost'[v] = lost[v],
           pc'[v] \in {"lock", "line"} <=> pc[v] \in {"lock", "line"},
           pc[v] \in {"lock", "line"} => mem'[held'[v]] = mem[held[v]]
    PROVE  InStep(v)'
BY DEF InStep, AboutToWrite

\* What the record that is about to be written says of the sinks.
LEMMA AboutToWriteIs ==
    ASSUME TypeOK, NEW v \in Writers, AboutToWrite(v)
    PROVE  /\ Front(Printed(v)) \in Seq(Seq(Text))
           /\ mem[held[v]] \in Seq(Text)
           /\ Printed(v) = Append(Front(Printed(v)), mem[held[v]])
           /\ IsSubsequence(Captured(v), Printed(v))
<1>1. Printed(v) \in Seq(Seq(Text)) /\ Captured(v) \in Seq(Seq(Text))
    BY PrintedType, CapturedType
<1>2. /\ Printed(v) # <<>> /\ Last(Printed(v)) = mem[held[v]]
      /\ IsSubsequence(Captured(v), Front(Printed(v)))
    BY DEF AboutToWrite
<1>3. /\ Front(Printed(v)) \in Seq(Seq(Text)) /\ Last(Printed(v)) \in Seq(Text)
      /\ Printed(v) = Append(Front(Printed(v)), Last(Printed(v)))
    BY <1>1, <1>2, FrontLast
<1>4. IsSubsequence(Captured(v), Append(Front(Printed(v)), Last(Printed(v))))
    BY <1>1, <1>2, <1>3, SubsequenceOfLonger
<1>5. IsSubsequence(Captured(v), Printed(v))
    BY <1>3, <1>4
<1> QED
    BY <1>2, <1>3, <1>5

\* At first, nothing is printed and nothing captured.
LEMMA InStepInit ==
    ASSUME Init, NEW v \in Writers
    PROVE  InStep(v)
<1>1. TypeOK
    BY TypeInit
<1>2. Printed(v) = <<>> /\ pc[v] = "idle" /\ lost[v] = 0
    BY PrintedNothing DEF Init
<1>3. Captured(v) = <<>>
    <2> DEFINE E == Seq(Records)
    <2>1. file = Append(<<>>, <<>>) /\ <<>> \in Seq(E) /\ <<>> \in E
        BY DEF Init
    <2>2. FlattenSeq(Append(<<>>, <<>>)) = FlattenSeq(<<>>) \o <<>>
        BY <2>1, FlattenAppend
    <2>3. FlattenSeq(<<>>) = <<>>
        BY DEF FlattenSeq
    <2>4. Written = <<>>
        BY <2>1, <2>2, <2>3 DEF Written
    <2> QED
        BY <2>4, CapturedIs, KeptEmpty, BytesEmpty
<1>4. IsSubsequence(<<>>, <<>>)
    <2>1. <<>> \in Seq({})
        OBVIOUS
    <2> QED
        BY <2>1, EmptyIsSubsequence
<1>5. Len(<<>>) = 0
    OBVIOUS
<1> QED
    BY <1>2, <1>3, <1>4, <1>5 DEF InStep

\* Every step keeps the file in step with standard output.
LEMMA CaptureStep ==
    ASSUME TypeOK, BuffersHaveOneOwner, PastInv, [Next]_vars,
           NEW v \in Writers, captures => InStep(v), captures'
    PROVE  InStep(v)'
<1>1. ASSUME NEW w \in Writers, NEW chunk \in Chunks, Skip(w, chunk)
      PROVE  InStep(v)'
    <2>1. UNCHANGED <<stdout, file, process, lost, captures, pc, held, mem>>
        BY <1>1 DEF Skip, Offer, log, pool
    <2>2. Printed(v)' = Printed(v) /\ Captured(v)' = Captured(v)
        BY <2>1, PrintedStays, CapturedStays DEF Written
    <2> QED
        BY <2>1, <2>2, InStepStays
<1>2. ASSUME NEW w \in Writers, NEW chunk \in Chunks, BuildPacket(w, chunk)
      PROVE  InStep(v)'
    <2> DEFINE b == Acquired
    <2>1. pc[w] = "idle" /\ UNCHANGED <<stdout, file, process, lost, captures>>
        BY <1>2 DEF BuildPacket, Offer, log
    <2>2. \A u \in Writers : held[u] # b
        BY <2>1, AcquiredIsFree
    <2>3. /\ held' = [held EXCEPT ![w] = b]
          /\ \A c \in Buffers : c # b => mem'[c] = mem[c]
          /\ \E at \in {"print", "recycle"} : pc' = [pc EXCEPT ![w] = at]
        BY <1>2, BuildEffect DEF TypeOK
    <2>4. Printed(v)' = Printed(v) /\ Captured(v)' = Captured(v)
        BY <2>1, PrintedStays, CapturedStays DEF Written
    <2> HIDE DEF b
    <2>5. pc'[v] \in {"lock", "line"} <=> pc[v] \in {"lock", "line"}
        BY <2>1, <2>3 DEF TypeOK
    <2>6. ASSUME pc[v] \in {"lock", "line"}
          PROVE  mem'[held'[v]] = mem[held[v]]
        <3>1. v # w /\ held'[v] = held[v]
            BY <2>1, <2>3, <2>6 DEF TypeOK
        <3> QED
            BY <2>2, <2>3, <2>6, <3>1, PacketOfOther
    <2> QED
        BY <2>1, <2>4, <2>5, <2>6, InStepStays
<1>3. ASSUME NEW w \in Writers, PrintLine(w)
      PROVE  InStep(v)'
    <2>1. held[w] \in Buffers /\ mem[held[w]] \in Seq(Text)
        BY <1>3, HeldType DEF PrintLine
    <2>2. /\ UNCHANGED <<file, process, lost, captures, held, mem>> /\ pc[w] = "print"
          /\ stdout' = Append(stdout, Record(w, TRUE)) /\ InStep(v)
          /\ pc' = [pc EXCEPT ![w] = "lock"]
        BY <1>3 DEF PrintLine, pool, log, history
    <2>3. Captured(v)' = Captured(v)
        BY <2>2, CapturedStays DEF Written
    <2>4. Printed(v)' = IF v = w THEN Append(Printed(w), mem[held[w]]) ELSE Printed(v)
        BY <2>1, <2>2, PrintedAppend
    <2>5. CASE v # w
        <3>1. pc'[v] = pc[v]
            BY <2>2, <2>5 DEF TypeOK
        <3> QED
            BY <2>2, <2>3, <2>4, <2>5, <3>1, InStepStays
    <2>6. CASE v = w
        <3> DEFINE p == Printed(w)
                   m == mem[held[w]]
        <3>1. p \in Seq(Seq(Text)) /\ Captured(w) \in Seq(Seq(Text))
            BY PrintedType, CapturedType
        <3>2. Printed(w)' = Append(p, m) /\ mem'[held'[w]] = m /\ pc'[w] = "lock"
            BY <2>2, <2>4, <2>6 DEF TypeOK
        <3>3. IsSubsequence(Captured(w), p) /\ Len(p) = Len(Captured(w)) + lost[w]
            BY <2>2, <2>6, <3>1 DEF InStep, TypeOK
        <3>4. Append(p, m) # <<>> /\ Last(Append(p, m)) = m /\ Front(Append(p, m)) = p
            BY <2>1, <3>1, FrontOfAppend
        <3>5. Len(Append(p, m)) = Len(p) + 1
            BY <2>1, <3>1
        <3> HIDE DEF p, m
        <3>6. AboutToWrite(w)'
            BY <2>3, <2>6, <3>2, <3>3, <3>4 DEF AboutToWrite
        <3>7. Len(Printed(w)') = Len(Captured(w)') + lost'[w] + 1
            BY <2>2, <2>3, <2>6, <3>2, <3>3, <3>5
        <3> QED
            BY <2>6, <3>2, <3>6, <3>7 DEF InStep
    <2> QED
        BY <2>5, <2>6
<1>4. ASSUME NEW w \in Writers, PrintPanics(w) \/ Recycle(w)
      PROVE  InStep(v)'
    <2>1. /\ UNCHANGED <<stdout, file, process, lost, captures>>
          /\ pc[w] \in {"print", "recycle"} /\ held' = [held EXCEPT ![w] = None]
          /\ mem' = [mem EXCEPT ![held[w]] = <<>>]
          /\ \E at \in {"gone", "idle"} : pc' = [pc EXCEPT ![w] = at]
        BY <1>4 DEF PrintPanics, Recycle, log, history
    <2>2. Printed(v)' = Printed(v) /\ Captured(v)' = Captured(v)
        BY <2>1, PrintedStays, CapturedStays DEF Written
    <2>3. pc'[v] \in {"lock", "line"} <=> pc[v] \in {"lock", "line"}
        BY <2>1 DEF TypeOK
    <2>4. ASSUME pc[v] \in {"lock", "line"}
          PROVE  mem'[held'[v]] = mem[held[v]]
        <3>1. /\ v # w /\ held'[v] = held[v]
              /\ \A c \in Buffers : c # held[w] => mem'[c] = mem[c]
            BY <2>1, <2>4 DEF TypeOK
        <3> QED
            BY <2>4, <3>1, PacketOfOther
    <2> QED
        BY <2>1, <2>2, <2>3, <2>4, InStepStays
<1>5. ASSUME NEW w \in Writers, LockFile(w)
      PROVE  InStep(v)'
    <2>1. /\ UNCHANGED <<stdout, file, process, lost, captures, held, mem>>
          /\ pc[w] = "lock" /\ pc' = [pc EXCEPT ![w] = "line"]
        BY <1>5 DEF LockFile, pool, history
    <2>2. Printed(v)' = Printed(v) /\ Captured(v)' = Captured(v)
        BY <2>1, PrintedStays, CapturedStays DEF Written
    <2>3. pc'[v] \in {"lock", "line"} <=> pc[v] \in {"lock", "line"}
        BY <2>1 DEF TypeOK
    <2> QED
        BY <2>1, <2>2, <2>3, InStepStays
<1>6. ASSUME NEW w \in Writers, WriteRecord(w)
      PROVE  InStep(v)'
    <2>1. /\ UNCHANGED <<stdout, process, lost, captures, held, mem>>
          /\ pc[w] = "line" /\ pc' = [pc EXCEPT ![w] = "newline"]
          /\ file' = Put(Record(w, TRUE)) /\ InStep(v)
        BY <1>6 DEF WriteRecord, pool, history
    <2>2. held[w] \in Buffers
        BY <2>1, HeldType
    <2>3. Captured(v)' = IF v = w THEN Append(Captured(w), mem[held[w]]) ELSE Captured(v)
        BY <2>1, <2>2, CapturedPut
    <2>4. Printed(v)' = Printed(v)
        BY <2>1, PrintedStays
    <2>5. CASE v # w
        <3>1. pc'[v] = pc[v]
            BY <2>1, <2>5 DEF TypeOK
        <3> QED
            BY <2>1, <2>3, <2>4, <2>5, <3>1, InStepStays
    <2>6. CASE v = w
        <3> DEFINE c == Captured(w)
                   f == Front(Printed(w))
                   m == mem[held[w]]
        <3>1. /\ AboutToWrite(w) /\ Len(Printed(w)) = Len(c) + lost[w] + 1
              /\ pc'[w] = "newline"
            BY <2>1, <2>6 DEF InStep, TypeOK
        <3>2. /\ f \in Seq(Seq(Text)) /\ m \in Seq(Text) /\ Printed(w) = Append(f, m)
              /\ c \in Seq(Seq(Text)) /\ lost[w] \in Nat
            BY <3>1, AboutToWriteIs, CapturedType DEF TypeOK
        <3>3. IsSubsequence(c, f)
            BY <3>1 DEF AboutToWrite
        <3> HIDE DEF c, f, m
        <3>4. IsSubsequence(Append(c, m), Append(f, m))
            BY <3>2, <3>3, SubsequenceAppend
        <3>5. Len(Append(c, m)) = Len(c) + 1 /\ Len(c) \in Nat
            BY <3>2
        <3>6. Captured(w)' = Append(c, m) /\ Printed(w)' = Append(f, m) /\ lost'[w] = lost[w]
            BY <2>1, <2>3, <2>4, <2>6, <3>2 DEF c, m
        <3>7. Len(Append(f, m)) = Len(Append(c, m)) + lost[w]
            BY <3>1, <3>2, <3>5
        <3>8. Len(Append(c, m)) + lost[w] + 0 = Len(Append(c, m)) + lost[w]
            BY <3>2, <3>5
        <3> QED
            BY <2>6, <3>1, <3>4, <3>6, <3>7, <3>8 DEF InStep
    <2> QED
        BY <2>5, <2>6
<1>7. ASSUME NEW w \in Writers, WriteNewline(w)
      PROVE  InStep(v)'
    <2>1. /\ UNCHANGED <<stdout, process, lost, captures, held, mem>>
          /\ pc[w] = "newline" /\ pc' = [pc EXCEPT ![w] = "recycle"]
          /\ file' = Append(file, <<>>)
        BY <1>7 DEF WriteNewline, Unlock, pool, history
    <2>2. Written' = Written
        BY <2>1, NewlineEffect DEF Written
    <2>3. Printed(v)' = Printed(v) /\ Captured(v)' = Captured(v)
        BY <2>1, <2>2, PrintedStays, CapturedStays
    <2>4. pc'[v] \in {"lock", "line"} <=> pc[v] \in {"lock", "line"}
        BY <2>1 DEF TypeOK
    <2> QED
        BY <2>1, <2>3, <2>4, InStepStays
<1>8. ASSUME NEW w \in Writers, WriteFails(w)
      PROVE  InStep(v)'
    <2>1. /\ UNCHANGED <<stdout, process, captures, held, mem>>
          /\ pc[w] \in {"line", "newline"} /\ pc' = [pc EXCEPT ![w] = "recycle"]
          /\ file' = file \/ file' = Put(Record(w, FALSE))
          /\ lost' = [lost EXCEPT ![w] = IF pc[w] = "line" THEN @ + 1 ELSE @]
          /\ InStep(v)
        BY <1>8 DEF WriteFails, Unlock, pool
    <2>2. held[w] \in Buffers
        BY <2>1, HeldType
    <2>3. Captured(v)' = Captured(v)
        <3>1. CASE file' = file
            BY <2>1, <3>1, CapturedStays DEF Written
        <3>2. CASE file' = Put(Record(w, FALSE))
            BY <2>1, <2>2, <3>2, CapturedPut
        <3> QED
            BY <2>1, <3>1, <3>2
    <2>4. Printed(v)' = Printed(v)
        BY <2>1, PrintedStays
    <2>5. CASE v # w
        <3>1. pc'[v] = pc[v] /\ lost'[v] = lost[v]
            BY <2>1, <2>5 DEF TypeOK
        <3> QED
            BY <2>1, <2>3, <2>4, <3>1, InStepStays
    <2>6. CASE v = w /\ pc[w] = "newline"
        <3>1. pc'[v] = "recycle" /\ lost'[v] = lost[v]
            BY <2>1, <2>6 DEF TypeOK
        <3> QED
            BY <2>1, <2>3, <2>4, <2>6, <3>1, InStepStays
    <2>7. CASE v = w /\ pc[w] = "line"
        <3>1. /\ AboutToWrite(w) /\ Len(Printed(w)) = Len(Captured(w)) + lost[w] + 1
              /\ pc'[w] = "recycle" /\ lost'[w] = lost[w] + 1 /\ lost[w] \in Nat
            BY <2>1, <2>7 DEF InStep, TypeOK
        <3>2. IsSubsequence(Captured(w), Printed(w))
            BY <3>1, AboutToWriteIs
        <3>3. Captured(w) \in Seq(Seq(Text))
            BY CapturedType
        <3>4. Len(Captured(w)) \in Nat
            BY <3>3
        <3>5. Len(Printed(w)') = Len(Captured(w)') + lost'[w] + 0
            BY <2>3, <2>4, <2>7, <3>1, <3>4
        <3> QED
            BY <2>3, <2>4, <2>7, <3>1, <3>2, <3>5 DEF InStep
    <2> QED
        BY <2>1, <2>5, <2>6, <2>7
<1>9. ASSUME Restart
      PROVE  InStep(v)'
    <2>1. /\ stdout' = <<>> /\ pc'[v] = "idle" /\ lost'[v] = 0 /\ file' = file
          /\ process' = process + 1
        BY <1>9 DEF Restart
    <2>2. Printed(v)' = <<>>
        BY <2>1, KeptEmpty, BytesEmpty DEF Printed
    <2>3. Captured(v)' = <<>>
        <3> DEFINE set == {r \in Records : r.writer = v /\ r.process = process + 1 /\ r.whole}
        <3>1. Captured(v)' = Bytes(Kept(Written, set))
            BY <2>1 DEF Captured, Written
        <3>2. \A i \in DOMAIN Written : Written[i] \notin set
            <4>1. \A i \in DOMAIN Written : Written[i] \in Records
                BY WrittenType
            <4>2. \A i \in DOMAIN Written : Written[i].process \in Nat
                BY <4>1 DEF Records
            <4>3. \A i \in DOMAIN Written : Written[i].process # process + 1
                BY <4>2 DEF PastInv, TypeOK
            <4> QED
                BY <4>3
        <3> HIDE DEF set
        <3>3. Kept(Written, set) = <<>>
            BY <3>2, WrittenType, KeptNothing
        <3> QED
            BY <3>1, <3>3, BytesEmpty
    <2>4. IsSubsequence(<<>>, <<>>)
        <3>1. <<>> \in Seq({})
            OBVIOUS
        <3> QED
            BY <3>1, EmptyIsSubsequence
    <2>5. Len(<<>>) = 0
        OBVIOUS
    <2> QED
        BY <2>1, <2>2, <2>3, <2>4, <2>5 DEF InStep
<1>10. ASSUME UNCHANGED vars
       PROVE  InStep(v)'
    <2>1. UNCHANGED <<stdout, file, process, lost, captures, pc, held, mem>>
        BY <1>10 DEF vars, log, pool, history
    <2>2. Printed(v)' = Printed(v) /\ Captured(v)' = Captured(v)
        BY <2>1, PrintedStays, CapturedStays DEF Written
    <2> QED
        BY <2>1, <2>2, InStepStays
<1> QED
    BY <1>1, <1>2, <1>3, <1>4, <1>5, <1>6, <1>7, <1>8, <1>9, <1>10
       DEF Next, Calls, Runs, Silent

----------------------------------------------------------------------------
(* Torn lines come from faults.                                            *)

\* The torn lines can be counted.
LEMMA TornLinesFinite ==
    ASSUME TypeOK
    PROVE  IsFiniteSet(TornLines) /\ Cardinality(TornLines) \in Nat
<1>1. Len(file) \in Nat
    BY DEF TypeOK
<1>2. IsFiniteSet(1 .. Len(file) - 1)
    BY <1>1, FS_Interval
<1>3. TornLines \in SUBSET (1 .. Len(file) - 1)
    BY DEF TornLines
<1> QED
    BY <1>2, <1>3, FS_Subset, FS_CardinalityType

\* A step that is no fault and spoils no line.
LEMMA TornStays ==
    ASSUME TypeOK, TornInv, TornLines' = TornLines, faults' = faults, Spoiled' => Spoiled
    PROVE  TornInv'
<1>1. Cardinality(TornLines) \in Nat /\ faults \in Nat
    BY TornLinesFinite DEF TypeOK
<1> QED
    BY <1>1 DEF TornInv

\* A fault spoils at most the line that is being written.
LEMMA TornFault ==
    ASSUME TypeOK, TornInv, TornLines' = TornLines, faults' = faults + 1
    PROVE  TornInv'
<1>1. Cardinality(TornLines) \in Nat /\ faults \in Nat
    BY TornLinesFinite DEF TypeOK
<1> QED
    BY <1>1 DEF TornInv

\* What is put on the last line tears no line that is ended.
LEMMA TornPut ==
    ASSUME TypeOK, NEW w \in Writers, held[w] \in Buffers, NEW whole \in BOOLEAN,
           file' = Put(Record(w, whole))
    PROVE  TornLines' = TornLines
<1>1. Record(w, whole) \in Records
    BY RecordType
<1>2. Len(file') = Len(file) /\ \A i \in 1 .. Len(file) - 1 : file'[i] = file[i]
    BY <1>1, PutEffect
<1> QED
    BY <1>2 DEF TornLines

\* At first no line is torn.
LEMMA TornInit == Init => TornInv
<1> SUFFICES ASSUME Init PROVE TornInv
    OBVIOUS
<1>1. /\ file = <<<<>>>> /\ Len(file) = 1 /\ Last(file) = <<>> /\ faults = 0
      /\ \A w \in Writers : pc[w] = "idle"
    BY DEF Init, Last
<1>2. TornLines = {}
    BY <1>1 DEF TornLines
<1>3. ~Spoiled
    BY <1>1 DEF Spoiled
<1> QED
    BY <1>1, <1>2, <1>3, FS_EmptySet DEF TornInv

\* Every step keeps the torn lines within the faults.
LEMMA TornStep ==
    ASSUME TypeOK, BuffersHaveOneOwner, LockInv, TornInv, [Next]_vars
    PROVE  TornInv'
<1>1. ASSUME UNCHANGED <<file, faults>>,
             \A w \in Writers : pc'[w] = "newline" <=> pc[w] = "newline"
      PROVE  TornInv'
    <2>1. TornLines' = TornLines /\ (Spoiled' => Spoiled)
        BY <1>1 DEF TornLines, Spoiled
    <2> QED
        BY <1>1, <2>1, TornStays
<1>2. ASSUME NEW w \in Writers, Calls(w)
      PROVE  TornInv'
    <2>1. PICK chunk \in Chunks : Skip(w, chunk) \/ BuildPacket(w, chunk)
        BY <1>2 DEF Calls
    <2>2. UNCHANGED <<file, faults>> /\ pc[w] = "idle"
        BY <2>1 DEF Skip, BuildPacket, Offer, log
    <2>3. pc' = pc \/ \E at \in {"print", "recycle"} : pc' = [pc EXCEPT ![w] = at]
        BY <2>1 DEF Skip, BuildPacket
    <2> QED
        BY <1>1, <2>2, <2>3 DEF TypeOK
<1>3. ASSUME NEW w \in Writers, PrintLine(w) \/ PrintPanics(w) \/ LockFile(w) \/ Recycle(w)
      PROVE  TornInv'
    <2>1. /\ UNCHANGED <<file, faults>> /\ pc[w] # "newline"
          /\ \E at \in {"lock", "line", "recycle", "gone", "idle"} : pc' = [pc EXCEPT ![w] = at]
        BY <1>3 DEF PrintLine, PrintPanics, LockFile, Recycle, log, history
    <2> QED
        BY <1>1, <2>1 DEF TypeOK
<1>4. ASSUME NEW w \in Writers, WriteRecord(w)
      PROVE  TornInv'
    <2> DEFINE r == Record(w, TRUE)
    <2>1. /\ pc[w] = "line" /\ pc'[w] = "newline" /\ file' = Put(r) /\ faults' = faults
        BY <1>4 DEF WriteRecord, history, TypeOK
    <2>2. held[w] \in Buffers
        BY <2>1, HeldType
    <2>3. r \in Records /\ r.whole = TRUE
        BY <2>2, RecordType
    <2>4. TornLines' = TornLines
        BY <2>1, <2>2, TornPut
    <2>5. Last(file') = Append(Last(file), r)
        BY <2>1, <2>3, PutEffect
    <2> HIDE DEF r
    <2>6. ~ \E u \in Writers : pc[u] = "newline"
        BY <2>1 DEF LockInv
    <2>7. Spoiled' => Spoiled
        <3> SUFFICES ASSUME ~Spoiled PROVE ~Spoiled'
            OBVIOUS
        <3>1. Last(file) = <<>>
            BY <2>6 DEF Spoiled
        <3>2. Len(Last(file')) = 1 /\ Last(file')[1] = r
            BY <2>3, <2>5, <3>1
        <3> QED
            BY <2>1, <2>3, <3>2 DEF Spoiled
    <2> QED
        BY <2>1, <2>4, <2>7, TornStays
<1>5. ASSUME NEW w \in Writers, WriteNewline(w)
      PROVE  TornInv'
    <2> DEFINE n == Len(file)
               line == <<>>
    <2>1. /\ pc[w] = "newline" /\ pc' = [pc EXCEPT ![w] = "recycle"]
          /\ file' = Append(file, line) /\ faults' = faults
        BY <1>5 DEF WriteNewline, Unlock, history
    <2>2. file \in Seq(Seq(Records)) /\ line \in Seq(Records) /\ n \in Nat \ {0}
        <3>1. file \in Seq(Seq(Records)) /\ line \in Seq(Records)
            BY DEF TypeOK
        <3>2. Len(file) \in Nat \ {0}
            BY FrontLast DEF TypeOK
        <3> QED
            BY <3>1, <3>2
    <2>3. Last(file) = file[n]
        BY DEF Last
    <2> HIDE DEF line
    <2>4. Last(file') = line
        BY <2>1, <2>2, FrontOfAppend
    <2>5. Len(file') = n + 1 /\ \A i \in 1 .. n : file'[i] = file[i]
        BY <2>1, <2>2
    <2> HIDE DEF n
    <2>6. \A u \in Writers : pc'[u] # "newline"
        BY <2>1 DEF LockInv, TypeOK
    <2>7. ~Spoiled'
        BY <2>4, <2>6 DEF Spoiled, line
    <2>8. Spoiled <=> Len(file[n]) # 1 \/ ~file[n][1].whole
        BY <2>1, <2>3 DEF Spoiled
    <2>9. TornLines' = {i \in 1 .. n : Len(file[i]) # 1 \/ ~file[i][1].whole}
        BY <2>2, <2>5 DEF TornLines
    <2>10. TornLines = {i \in 1 .. n - 1 : Len(file[i]) # 1 \/ ~file[i][1].whole}
        BY DEF TornLines, n
    <2>11. IsFiniteSet(TornLines) /\ Cardinality(TornLines) \in Nat /\ n \notin TornLines
        BY <2>2, <2>10, TornLinesFinite
    <2>12. CASE Spoiled
        <3>1. TornLines' = TornLines \union {n}
            BY <2>2, <2>8, <2>9, <2>10, <2>12
        <3>2. Cardinality(TornLines') = Cardinality(TornLines) + 1
            BY <2>11, <3>1, FS_AddElement
        <3> QED
            BY <2>1, <2>7, <2>11, <2>12, <3>2 DEF TornInv
    <2>13. CASE ~Spoiled
        <3>1. TornLines' = TornLines
            BY <2>2, <2>8, <2>9, <2>10, <2>13
        <3> QED
            BY <2>1, <2>7, <3>1, TornStays
    <2> QED
        BY <2>12, <2>13
<1>6. ASSUME NEW w \in Writers, WriteFails(w)
      PROVE  TornInv'
    <2>1. pc[w] \in {"line", "newline"} /\ faults' = faults + 1
          /\ (file' = file \/ file' = Put(Record(w, FALSE)))
        BY <1>6 DEF WriteFails
    <2>2. held[w] \in Buffers
        BY <2>1, HeldType
    <2>3. TornLines' = TornLines
        <3>1. CASE file' = file
            BY <3>1 DEF TornLines
        <3>2. CASE file' = Put(Record(w, FALSE))
            BY <2>2, <3>2, TornPut
        <3> QED
            BY <2>1, <3>1, <3>2
    <2> QED
        BY <2>1, <2>3, TornFault
<1>7. ASSUME Restart
      PROVE  TornInv'
    <2>1. faults' = faults + 1 /\ TornLines' = TornLines
        BY <1>7 DEF Restart, TornLines
    <2> QED
        BY <2>1, TornFault
<1>8. ASSUME UNCHANGED vars
      PROVE  TornInv'
    BY <1>1, <1>8 DEF vars, log, history
<1> QED
    BY <1>2, <1>3, <1>4, <1>5, <1>6, <1>7, <1>8 DEF Next, Runs, Silent

----------------------------------------------------------------------------
(* The theorems.                                                           *)

\* The invariant that the properties need, for any session, any chunk and
\* any buffer: log_chunk and Restart preserve it.
THEOREM LogInvHolds == Spec => []LogInv
<1>1. Init => LogInv
    <2> SUFFICES ASSUME Init PROVE LogInv
        OBVIOUS
    <2>1. FileInv /\ LengthInv
        <3>1. \A v \in Writers : InStep(v)
            BY InStepInit
        <3> QED
            BY <3>1 DEF InStep, FileInv, LengthInv
    <2> QED
        BY <2>1, TypeInit, OwnersInit, LockInit, DueInit, PastInit, TornInit DEF LogInv
<1>2. LogInv /\ [Next]_vars => LogInv'
    <2> SUFFICES ASSUME LogInv, [Next]_vars PROVE LogInv'
        OBVIOUS
    <2>1. /\ TypeOK /\ BuffersHaveOneOwner /\ LockInv /\ PrintsWhatIsDue
          /\ PastInv /\ FileInv /\ LengthInv /\ TornInv
        BY DEF LogInv
    <2>2. TypeOK' /\ BuffersHaveOneOwner' /\ LockInv' /\ PrintsWhatIsDue' /\ PastInv' /\ TornInv'
        BY <2>1, TypeStep, OwnersStep, LockStep, DueStep, PastStep, TornStep
    <2>3. \A v \in Writers : captures => InStep(v)
        BY <2>1 DEF FileInv, LengthInv, InStep
    <2>4. \A v \in Writers : captures' => InStep(v)'
        BY <2>1, <2>3, CaptureStep
    <2>5. FileInv' /\ LengthInv'
        BY <2>4 DEF InStep, FileInv, LengthInv
    <2> QED
        BY <2>2, <2>5 DEF LogInv
<1> QED
    BY <1>1, <1>2, PTL DEF Spec

\* The state has its type: the pool keeps at most max_idle buffers, and the
\* file never loses a line (buffer.rs, lib.rs log_chunk and CaptureLog).
THEOREM TypeCorrect == Spec => []TypeOK
<1>1. LogInv => TypeOK
    BY DEF LogInv
<1> QED
    BY <1>1, LogInvHolds, PTL

\* However sessions take and return buffers, none is in two packets and no
\* packet starts with the bytes of another one (buffer.rs).
THEOREM BuffersHaveOneOwnerHolds == Spec => []BuffersHaveOneOwner
<1>1. LogInv => BuffersHaveOneOwner
    BY DEF LogInv
<1> QED
    BY <1>1, LogInvHolds, PTL

\* Of every session exactly what its profile selects is printed, redacted
\* and in order (lib.rs log_chunk).
THEOREM PrintsWhatIsDueHolds == Spec => []PrintsWhatIsDue
<1>1. LogInv => PrintsWhatIsDue
    BY DEF LogInv
<1> QED
    BY <1>1, LogInvHolds, PTL

\* The capture log has of every session what was printed, in order, less
\* what failed writes lost and the record that is being written (CaptureLog).
THEOREM CapturesWhatIsPrintedHolds == Spec => []CapturesWhatIsPrinted
<1>1. LogInv => CapturesWhatIsPrinted
    <2> SUFFICES ASSUME LogInv, captures, NEW w \in Writers
                 PROVE  /\ IsSubsequence(Captured(w), Printed(w))
                        /\ Len(Printed(w)) = Len(Captured(w)) + lost[w]
                              + (IF pc[w] \in {"lock", "line"} THEN 1 ELSE 0)
        BY DEF CapturesWhatIsPrinted
    <2>1. TypeOK /\ FileInv /\ LengthInv
        BY DEF LogInv
    <2>2. pc[w] \in {"lock", "line"} => AboutToWrite(w)
        BY <2>1 DEF FileInv
    <2>3. pc[w] \notin {"lock", "line"} => IsSubsequence(Captured(w), Printed(w))
        BY <2>1 DEF FileInv
    <2>4. IsSubsequence(Captured(w), Printed(w))
        BY <2>1, <2>2, <2>3, AboutToWriteIs
    <2> QED
        BY <2>1, <2>4 DEF LengthInv
<1> QED
    BY <1>1, LogInvHolds, PTL

\* However sessions write to the file, every line that is not one whole
\* record is the work of a failed write or a kill of its own (CaptureLog).
THEOREM TornByFaultsOnlyHolds == Spec => []TornByFaultsOnly
<1>1. LogInv => TornByFaultsOnly
    <2> SUFFICES ASSUME TypeOK, TornInv PROVE TornByFaultsOnly
        BY DEF LogInv
    <2>1. Cardinality(TornLines) \in Nat /\ faults \in Nat
        BY TornLinesFinite DEF TypeOK
    <2> QED
        BY <2>1 DEF TornInv, TornByFaultsOnly
<1> QED
    BY <1>1, LogInvHolds, PTL
=============================================================================
