------------------------------ MODULE TuiProofs ------------------------------
(***************************************************************************)
(* Proofs about Tui, for any pipelines, answers and length of the history: *)
(* the type of the state; that the selection is always a row; that the     *)
(* histories are the newest samples; that the screen shows the latest      *)
(* answer, sorted and summed up; and that the popup of a paused dashboard  *)
(* shows what it was opened on.                                            *)
(***************************************************************************)
EXTENDS Tui, Lemmas, SequenceTheorems

----------------------------------------------------------------------------
(* The inductive invariant.                                                *)

\* The rows are those of the last answer, in the order of the header: keys
\* sort them again, but neither add nor lose one.
RowsInv == pipelines = Sorted(fetched, sort_field, sort_desc)

\* While the loop waits for a key, the screen shows App's state.
ScreenInv == at = "wait" => screen = Shown

\* App's error is that of the last poll.
ErrorInv == last_error = failing

\* Nothing moves the selection off the row of a popup while it is paused.
PopupInv == mode = "detail" /\ paused => Selected = chosen

TuiInv ==
    TypeOK /\ SelectionInRange /\ HistoryIsRecent /\ RowsInv /\ ScreenInv /\ ErrorInv /\ PopupInv

----------------------------------------------------------------------------
(* Rows, and their order.                                                  *)

\* What every list of rows is made of.
Distinct(rows) ==
    rows \in Seq(Rows) /\ \A i, j \in DOMAIN rows : rows[i].name = rows[j].name => i = j

\* The columns that rows are sorted by.
LEMMA FieldsAre == ToSet(SortFields) = {"name", "active", "total", "bytes_in", "bytes_out", "errors"}
<1>1. DOMAIN SortFields = 1 .. 6
    BY DEF SortFields
<1>2. /\ SortFields[1] = "name" /\ SortFields[2] = "active" /\ SortFields[3] = "total"
      /\ SortFields[4] = "bytes_in" /\ SortFields[5] = "bytes_out" /\ SortFields[6] = "errors"
    BY DEF SortFields
<1>3. 1 .. 6 = {1, 2, 3, 4, 5, 6}
    OBVIOUS
<1> QED
    BY <1>1, <1>2, <1>3 DEF ToSet

\* Every column of a row is a number.
LEMMA FieldType ==
    ASSUME NEW r \in Rows
    PROVE  /\ r.name \in Nat \ {None} /\ r.name \in Pipelines
           /\ \A f \in ToSet(SortFields) : r[f] \in Nat
           /\ \A c \in Counters : r[c] \in Nat
<1>1. r.name \in Pipelines /\ Pipelines \subseteq Nat \ {None}
    BY TuiAssumption DEF Rows
<1>2. /\ r["active"] \in Nat /\ r["total"] \in Nat /\ r["bytes_in"] \in Nat
      /\ r["bytes_out"] \in Nat /\ r["errors"] \in Nat /\ r["name"] \in Nat
    BY <1>1 DEF Rows
<1>3. \A f \in ToSet(SortFields) : r[f] \in Nat
    BY <1>2, FieldsAre
<1>4. \A c \in Counters : r[c] \in Nat
    BY <1>2 DEF Counters
<1> QED
    BY <1>1, <1>3, <1>4

\* The rows of a list, as a set.
LEMMA RowsOf ==
    ASSUME NEW rows, Distinct(rows)
    PROVE  /\ ToSet(rows) \subseteq Rows
           /\ IsFiniteSet(ToSet(rows)) /\ Cardinality(ToSet(rows)) = Len(rows)
           /\ Len(rows) \in Nat /\ DOMAIN rows = 1 .. Len(rows)
           /\ \A a, b \in ToSet(rows) : a.name = b.name => a = b
           /\ \A i, j \in DOMAIN rows : rows[i] = rows[j] => i = j
<1> DEFINE S == ToSet(rows)
           n == Len(rows)
<1>1. n \in Nat /\ DOMAIN rows = 1 .. n /\ \A i \in 1 .. n : rows[i] \in Rows
    BY DEF Distinct
<1>2. S = {rows[i] : i \in 1 .. n}
    BY <1>1 DEF ToSet
<1>3. \A i, j \in 1 .. n : rows[i].name = rows[j].name => i = j
    BY <1>1 DEF Distinct
<1> HIDE DEF S, n
<1>4. rows \in Injection(1 .. n, S) /\ rows \in Surjection(1 .. n, S)
    <2>1. rows \in [1 .. n -> S]
        <3>1. rows = [i \in 1 .. n |-> rows[i]]
            BY <1>1 DEF Distinct
        <3> QED
            BY <1>2, <3>1
    <2>2. IsInjective(rows)
        BY <1>1, <1>3 DEF IsInjective
    <2> QED
        BY <1>2, <2>1, <2>2 DEF Injection, Surjection
<1>5. IsFiniteSet(1 .. n) /\ Cardinality(1 .. n) = n
    BY <1>1, FS_Interval
<1>6. IsFiniteSet(S) /\ Cardinality(S) = n
    BY <1>4, <1>5, FS_Surjection
<1>7. S \subseteq Rows /\ \A a, b \in S : a.name = b.name => a = b
    BY <1>1, <1>2, <1>3
<1>8. \A i, j \in DOMAIN rows : rows[i] = rows[j] => i = j
    BY <1>1, <1>3
<1> QED
    BY <1>1, <1>6, <1>7, <1>8 DEF S, n

\* The order of the rows that a list has.
RowOrder(rows, field, desc) ==
    {p \in ToSet(rows) \X ToSet(rows) : Before(p[1], p[2], field, desc)}

\* It is one: names decide between equal values.
LEMMA RowOrderOrders ==
    ASSUME NEW rows, Distinct(rows), NEW field \in ToSet(SortFields), NEW desc \in BOOLEAN
    PROVE  Orders(RowOrder(rows, field, desc), ToSet(rows))
<1> DEFINE S == ToSet(rows)
           R == RowOrder(rows, field, desc)
<1>1. \A a, b \in S : <<a, b>> \in R <=> Before(a, b, field, desc)
    <2> SUFFICES ASSUME NEW a \in S, NEW b \in S
                 PROVE  <<a, b>> \in R <=> Before(a, b, field, desc)
        OBVIOUS
    <2> DEFINE p == <<a, b>>
    <2>1. p \in S \X S /\ p[1] = a /\ p[2] = b
        OBVIOUS
    <2> HIDE DEF p, S
    <2>2. p \in R <=> Before(a, b, field, desc)
        BY <2>1 DEF RowOrder, S
    <2> QED
        BY <2>2 DEF p
<1>2. \A a \in S : a[field] \in Nat /\ a.name \in Nat
    BY RowsOf, FieldType
<1>3. \A a, b \in S : a.name = b.name => a = b
    BY RowsOf
<1> HIDE DEF S, R
<1>4. \A a \in S : ~Before(a, a, field, desc)
    BY <1>2 DEF Before
<1>5. \A a, b, c \in S : Before(a, b, field, desc) /\ Before(b, c, field, desc)
                            => Before(a, c, field, desc)
    <2> SUFFICES ASSUME NEW a \in S, NEW b \in S, NEW c \in S,
                        Before(a, b, field, desc), Before(b, c, field, desc)
                 PROVE  Before(a, c, field, desc)
        OBVIOUS
    <2>1. /\ a[field] \in Nat /\ b[field] \in Nat /\ c[field] \in Nat
          /\ a.name \in Nat /\ b.name \in Nat /\ c.name \in Nat
        BY <1>2
    <2>2. CASE desc
        BY <2>1, <2>2 DEF Before
    <2>3. CASE ~desc
        BY <2>1, <2>3 DEF Before
    <2> QED
        BY <2>2, <2>3
<1>6. \A a, b \in S : a = b \/ Before(a, b, field, desc) \/ Before(b, a, field, desc)
    <2> SUFFICES ASSUME NEW a \in S, NEW b \in S, a # b
                 PROVE  Before(a, b, field, desc) \/ Before(b, a, field, desc)
        OBVIOUS
    <2>1. /\ a[field] \in Nat /\ b[field] \in Nat
          /\ a.name \in Nat /\ b.name \in Nat /\ a.name # b.name
        BY <1>2, <1>3
    <2>2. CASE desc
        BY <2>1, <2>2 DEF Before
    <2>3. CASE ~desc
        BY <2>1, <2>3 DEF Before
    <2> QED
        BY <2>2, <2>3
<1>7. Orders(R, S)
    BY <1>1, <1>4, <1>5, <1>6 DEF Orders
<1> QED
    BY <1>7 DEF R, S

\* What sort_pipelines is asked for.
InOrder(sorted, rows, field, desc) ==
    /\ sorted \in [DOMAIN rows -> ToSet(rows)]
    /\ ToSet(sorted) = ToSet(rows)
    /\ \A i, j \in DOMAIN sorted : i < j => Before(sorted[i], sorted[j], field, desc)

\* It gives the rows that it gets, each once, in the order asked for.
LEMMA SortedIs ==
    ASSUME NEW rows, Distinct(rows), NEW field \in ToSet(SortFields), NEW desc \in BOOLEAN
    PROVE  /\ InOrder(Sorted(rows, field, desc), rows, field, desc)
           /\ Distinct(Sorted(rows, field, desc))
           /\ Len(Sorted(rows, field, desc)) = Len(rows)
<1> DEFINE S == ToSet(rows)
           R == RowOrder(rows, field, desc)
           n == Len(rows)
<1>1. /\ S \subseteq Rows /\ IsFiniteSet(S) /\ Cardinality(S) = n
      /\ n \in Nat /\ DOMAIN rows = 1 .. n
    BY RowsOf
<1>2. Orders(R, S)
    BY RowOrderOrders
<1> HIDE DEF S, R, n
<1>3. PICK s \in [1 .. n -> S] : Arranges(s, R, S)
    BY <1>1, <1>2, SortedExists
<1>4. DOMAIN s = 1 .. n /\ ToSet(s) = S
    BY <1>3 DEF Arranges, ToSet
<1>5. \A i, j \in DOMAIN s : i < j => Before(s[i], s[j], field, desc)
    <2> SUFFICES ASSUME NEW i \in DOMAIN s, NEW j \in DOMAIN s, i < j
                 PROVE  Before(s[i], s[j], field, desc)
        OBVIOUS
    <2> DEFINE p == <<s[i], s[j]>>
    <2>1. p \in R /\ p[1] = s[i] /\ p[2] = s[j]
        BY <1>3 DEF Arranges
    <2> HIDE DEF p
    <2> QED
        BY <2>1 DEF R, RowOrder
<1>6. InOrder(s, rows, field, desc)
    BY <1>1, <1>4, <1>5 DEF InOrder, S
<1> DEFINE q == Sorted(rows, field, desc)
<1>7. q = CHOOSE sorted : InOrder(sorted, rows, field, desc)
    BY DEF Sorted, InOrder
<1> HIDE DEF q
<1>8. InOrder(q, rows, field, desc)
    BY <1>6, <1>7
<1>9. q \in [1 .. n -> S] /\ ToSet(q) = S
    BY <1>1, <1>8 DEF InOrder, S
<1>10. q \in Seq(Rows) /\ Len(q) = n /\ DOMAIN q = 1 .. n
    BY <1>1, <1>9
<1>11. ASSUME NEW i \in DOMAIN q, NEW j \in DOMAIN q, q[i].name = q[j].name
       PROVE  i = j
    <2>1. q[i] \in S /\ q[j] \in S
        BY <1>9, <1>10
    <2>2. q[i] = q[j]
        BY <1>11, <2>1, RowsOf DEF S
    <2>3. ~Before(q[i], q[i], field, desc)
        <3>1. q[i] \in Rows
            BY <1>1, <2>1
        <3>2. q[i].name \in Nat /\ q[i][field] \in Nat
            BY <3>1, FieldType
        <3> QED
            BY <3>2 DEF Before
    <2>4. ~(i < j) /\ ~(j < i)
        BY <1>8, <2>2, <2>3 DEF InOrder
    <2>5. i \in Nat /\ j \in Nat
        BY <1>10
    <2> QED
        BY <2>4, <2>5
<1>12. Distinct(q)
    BY <1>10, <1>11 DEF Distinct
<1> QED
    BY <1>8, <1>10, <1>12 DEF q, n

\* What is sorted does not matter, if the rows are the same.
LEMMA SortedAgain ==
    ASSUME NEW rows, Distinct(rows), NEW other, Distinct(other),
           Len(other) = Len(rows), ToSet(other) = ToSet(rows), NEW field, NEW desc
    PROVE  Sorted(other, field, desc) = Sorted(rows, field, desc)
<1> DEFINE Pick(D, S) == CHOOSE sorted \in [D -> S] :
                            /\ ToSet(sorted) = S
                            /\ \A i, j \in DOMAIN sorted :
                                  i < j => Before(sorted[i], sorted[j], field, desc)
<1>1. Sorted(rows, field, desc) = Pick(DOMAIN rows, ToSet(rows))
    BY DEF Sorted
<1>2. Sorted(other, field, desc) = Pick(DOMAIN other, ToSet(other))
    BY DEF Sorted
<1>3. DOMAIN other = DOMAIN rows
    BY RowsOf
<1> HIDE DEF Pick
<1> QED
    BY <1>1, <1>2, <1>3

----------------------------------------------------------------------------
(* The row TOTAL.                                                          *)

\* What a counter of the rows adds up to.
Column(rows, c) == [i \in DOMAIN rows |-> rows[i][c]]

\* A column has a number per row.
LEMMA ColumnType ==
    ASSUME NEW rows \in Seq(Rows), NEW c \in Counters
    PROVE  Column(rows, c) \in [DOMAIN rows -> Nat] /\ IsFiniteSet(DOMAIN rows)
<1>1. \A i \in DOMAIN rows : rows[i] \in Rows
    OBVIOUS
<1>2. \A i \in DOMAIN rows : rows[i][c] \in Nat
    BY <1>1, FieldType
<1>3. DOMAIN rows = 1 .. Len(rows) /\ Len(rows) \in Nat
    OBVIOUS
<1>4. IsFiniteSet(DOMAIN rows)
    BY <1>3, FS_Interval
<1> QED
    BY <1>2, <1>4 DEF Column

\* The totals are the sums of the columns.
LEMMA AggregateIs ==
    ASSUME NEW rows \in Seq(Rows), NEW c \in Counters
    PROVE  \E sum : Sums(sum, Column(rows, c), DOMAIN rows) /\ aggregate(rows)[c] = sum[DOMAIN rows]
<1> DEFINE D == DOMAIN rows
           f == Column(rows, c)
           Folds(g) == g = [s \in SUBSET D |->
                               IF s = {} THEN 0
                               ELSE LET x == CHOOSE x \in s : TRUE IN g[s \ {x}] + rows[x][c]]
           iter == CHOOSE g : Folds(g)
<1>1. aggregate(rows)[c] = iter[D]
    BY DEF aggregate, FoldSeq, FoldFunction, FoldFunctionOnSet, MapThenFoldSet
<1>2. \A i \in D : f[i] = rows[i][c]
    BY DEF Column
<1>3. \A s \in SUBSET D : s # {} => (CHOOSE x \in s : TRUE) \in D
    OBVIOUS
<1>4. ASSUME NEW g
      PROVE  Folds(g) <=> Sums(g, f, D)
    <2>1. \A s \in SUBSET D : s # {} => f[CHOOSE x \in s : TRUE] = rows[CHOOSE x \in s : TRUE][c]
        BY <1>2, <1>3
    <2> HIDE DEF D, f
    <2>2. [s \in SUBSET D |-> IF s = {} THEN 0
                              ELSE LET x == CHOOSE x \in s : TRUE IN g[s \ {x}] + rows[x][c]]
          = [s \in SUBSET D |-> IF s = {} THEN 0
                                ELSE LET x == CHOOSE x \in s : TRUE IN g[s \ {x}] + f[x]]
        BY <2>1
    <2> QED
        BY <2>2 DEF Sums
<1>5. IsFiniteSet(D) /\ f \in [D -> Nat]
    BY ColumnType
<1> HIDE DEF iter, D, f, Folds
<1>6. PICK g : Sums(g, f, D)
    BY <1>5, SumsExist
<1>7. Folds(g)
    BY <1>4, <1>6
<1>8. Folds(iter)
    BY <1>7 DEF iter
<1>9. Sums(iter, f, D)
    BY <1>4, <1>8
<1> QED
    BY <1>1, <1>9 DEF D, f

\* The totals have their types.
LEMMA AggregateType ==
    ASSUME NEW rows \in Seq(Rows)
    PROVE  aggregate(rows) \in [Counters -> Nat]
<1>1. ASSUME NEW c \in Counters
      PROVE  aggregate(rows)[c] \in Nat
    <2>1. PICK sum : /\ Sums(sum, Column(rows, c), DOMAIN rows)
                     /\ aggregate(rows)[c] = sum[DOMAIN rows]
        BY AggregateIs
    <2>2. \A s \in SUBSET DOMAIN rows : sum[s] \in Nat
        BY <2>1, ColumnType, SumsType
    <2> QED
        BY <2>1, <2>2
<1>2. aggregate(rows) = [c \in Counters |-> aggregate(rows)[c]]
    BY DEF aggregate
<1> QED
    BY <1>1, <1>2

\* The totals do not depend on the order of the rows.
LEMMA AggregateAgrees ==
    ASSUME NEW rows, Distinct(rows), NEW other, Distinct(other), ToSet(other) = ToSet(rows)
    PROVE  aggregate(other) = aggregate(rows)
<1> DEFINE D == DOMAIN rows
           E == DOMAIN other
           b == [i \in D |-> CHOOSE j \in E : other[j] = rows[i]]
<1>1. /\ \A i, j \in D : rows[i] = rows[j] => i = j
      /\ \A i, j \in E : other[i] = other[j] => i = j
    BY RowsOf
<1>2. /\ \A i \in D : \E j \in E : other[j] = rows[i]
      /\ \A j \in E : \E i \in D : rows[i] = other[j]
    BY DEF ToSet
<1>3. rows \in Seq(Rows) /\ other \in Seq(Rows)
    BY DEF Distinct
<1> HIDE DEF D, E
<1>4. b \in [D -> E] /\ \A i \in D : other[b[i]] = rows[i]
    BY <1>2
<1> HIDE DEF b
<1>5. \A i, j \in D : b[i] = b[j] => i = j
    BY <1>1, <1>4
<1>6. \A j \in E : \E i \in D : b[i] = j
    <2> SUFFICES ASSUME NEW j \in E PROVE \E i \in D : b[i] = j
        OBVIOUS
    <2>1. PICK i \in D : rows[i] = other[j]
        BY <1>2
    <2>2. b[i] \in E /\ other[b[i]] = other[j]
        BY <1>4, <2>1
    <2> QED
        BY <1>1, <2>2
<1>7. ASSUME NEW c \in Counters
      PROVE  aggregate(rows)[c] = aggregate(other)[c]
    <2> DEFINE f == Column(rows, c)
               e == Column(other, c)
    <2>1. IsFiniteSet(D) /\ f \in [D -> Nat] /\ IsFiniteSet(E) /\ e \in [E -> Nat]
        BY <1>3, ColumnType DEF D, E
    <2>2. \A i \in D : f[i] = e[b[i]]
        BY <1>4 DEF Column, D, E
    <2> HIDE DEF f, e
    <2>3. PICK sum : Sums(sum, f, D) /\ aggregate(rows)[c] = sum[D]
        BY <1>3, AggregateIs DEF f, D
    <2>4. PICK tot : Sums(tot, e, E) /\ aggregate(other)[c] = tot[E]
        BY <1>3, AggregateIs DEF e, E
    <2>5. sum[D] = tot[E]
        BY <1>4, <1>5, <1>6, <2>1, <2>2, <2>3, <2>4, SumsAgree
    <2> QED
        BY <2>3, <2>4, <2>5
<1>8. /\ aggregate(rows) = [c \in Counters |-> aggregate(rows)[c]]
      /\ aggregate(other) = [c \in Counters |-> aggregate(other)[c]]
    BY DEF aggregate
<1> QED
    BY <1>7, <1>8

----------------------------------------------------------------------------
(* Histories.                                                              *)

\* The newest samples.
Recent(all) ==
    IF Len(all) <= HistoryLen THEN all ELSE SubSeq(all, Len(all) - HistoryLen + 1, Len(all))

\* The newest samples are samples.
LEMMA RecentType ==
    ASSUME NEW all \in Seq(Nat)
    PROVE  /\ Recent(all) \in Seq(Nat) /\ Len(Recent(all)) =< HistoryLen
           /\ Len(Recent(all)) = (IF Len(all) =< HistoryLen THEN Len(all) ELSE HistoryLen)
           /\ \A i \in 1 .. Len(Recent(all)) :
                 Recent(all)[i] = all[Len(all) - Len(Recent(all)) + i]
<1> DEFINE n == Len(all)
           m == n - HistoryLen + 1
<1>1. n \in Nat /\ HistoryLen \in Nat \ {0} /\ \A i \in 1 .. n : all[i] \in Nat
    BY TuiAssumption
<1>2. CASE n =< HistoryLen
    <2>1. Recent(all) = all
        BY <1>2 DEF Recent
    <2> HIDE DEF n
    <2>2. \A i \in 1 .. n : n - n + i = i
        BY <1>1
    <2> QED
        BY <1>1, <1>2, <2>1, <2>2 DEF n
<1>3. CASE ~(n =< HistoryLen)
    <2> DEFINE s == SubSeq(all, m, n)
    <2>1. Recent(all) = s
        BY <1>3 DEF Recent
    <2>2. m \in Int /\ n \in Int /\ m >= 1 /\ n - m + 1 = HistoryLen /\ m =< n
        BY <1>1, <1>3
    <2>3. \A i \in m .. n : all[i] \in Nat
        BY <1>1, <2>2
    <2> HIDE DEF m, n
    <2>4. /\ s \in Seq(Nat)
          /\ Len(s) = IF m =< n THEN n - m + 1 ELSE 0
          /\ \A i \in 1 .. n - m + 1 : s[i] = all[m + i - 1]
        BY <2>2, <2>3, SubSeqProperties
    <2> HIDE DEF s
    <2>5. Len(s) = HistoryLen /\ \A i \in 1 .. HistoryLen : s[i] = all[m + i - 1]
        BY <2>2, <2>4
    <2>6. \A i \in 1 .. HistoryLen : m + i - 1 = n - HistoryLen + i
        BY <1>1 DEF m
    <2>7. ~(n =< HistoryLen)
        BY <1>3
    <2> QED
        BY <1>1, <2>1, <2>4, <2>5, <2>6, <2>7 DEF n
<1> QED
    BY <1>2, <1>3

\* One more sample, and the oldest one dropped.
LEMMA RecentAppend ==
    ASSUME NEW all \in Seq(Nat), NEW x \in Nat
    PROVE  Trimmed(Append(Recent(all), x)) = Recent(Append(all, x))
<1> DEFINE r == Recent(all)
           a == Append(r, x)
           t == Trimmed(a)
           new == Append(all, x)
           s == Recent(new)
           n == Len(all)
           k == Len(r)
<1>1. HistoryLen \in Nat \ {0} /\ n \in Nat
    BY TuiAssumption
<1>2. /\ r \in Seq(Nat) /\ k \in Nat /\ k =< HistoryLen
      /\ k = (IF n =< HistoryLen THEN n ELSE HistoryLen)
      /\ \A i \in 1 .. k : r[i] = all[n - k + i]
    BY RecentType
<1>3. /\ new \in Seq(Nat) /\ Len(new) = n + 1 /\ new[n + 1] = x
      /\ \A i \in 1 .. n : new[i] = all[i]
    OBVIOUS
<1>4. /\ s \in Seq(Nat) /\ Len(s) = (IF n + 1 =< HistoryLen THEN n + 1 ELSE HistoryLen)
      /\ \A i \in 1 .. Len(s) : s[i] = new[n + 1 - Len(s) + i]
    <2> HIDE DEF new, n
    <2>1. /\ s \in Seq(Nat)
          /\ Len(s) = (IF Len(new) =< HistoryLen THEN Len(new) ELSE HistoryLen)
          /\ \A i \in 1 .. Len(s) : s[i] = new[Len(new) - Len(s) + i]
        BY <1>3, RecentType
    <2> HIDE DEF s
    <2>2. Len(new) = n + 1
        BY <1>3
    <2> QED
        BY <1>1, <2>1, <2>2
<1> HIDE DEF r, new, s, n
<1>5. /\ a \in Seq(Nat) /\ Len(a) = k + 1 /\ a[k + 1] = x /\ \A i \in 1 .. k : a[i] = r[i]
    BY <1>2
<1> HIDE DEF a, k
<1>6. CASE k < HistoryLen
    <2>1. n = k /\ n + 1 =< HistoryLen /\ ~(Len(a) > HistoryLen)
        BY <1>1, <1>2, <1>5, <1>6
    <2>2. t = a
        BY <2>1 DEF Trimmed
    <2>3. Len(s) = k + 1
        BY <1>4, <2>1
    <2>4. ASSUME NEW i \in 1 .. k + 1
          PROVE  a[i] = s[i]
        <3>1. s[i] = new[i]
            <4>1. n + 1 - Len(s) + i = i
                BY <1>1, <2>1, <2>3
            <4> QED
                BY <1>4, <2>3, <4>1
        <3>2. CASE i = k + 1
            BY <1>3, <1>5, <2>1, <3>1, <3>2
        <3>3. CASE i # k + 1
            <4>1. i \in 1 .. k /\ n - k + i = i
                BY <1>1, <1>2, <2>1, <3>3
            <4> QED
                BY <1>2, <1>3, <1>5, <2>1, <3>1, <4>1
        <3> QED
            BY <3>2, <3>3
    <2>5. a = s
        BY <1>4, <1>5, <2>3, <2>4
    <2> QED
        BY <2>2, <2>5 DEF s, new, a, r
<1>7. CASE ~(k < HistoryLen)
    <2>1. k = HistoryLen /\ n >= HistoryLen /\ Len(a) > HistoryLen
        BY <1>1, <1>2, <1>5, <1>7
    <2>2. t = Tail(a)
        BY <2>1 DEF Trimmed
    <2>3. Len(s) = k
        BY <1>1, <1>4, <2>1
    <2>4. Tail(a) \in Seq(Nat) /\ Len(Tail(a)) = k /\ \A i \in 1 .. k : Tail(a)[i] = a[i + 1]
        BY <1>1, <1>2, <1>5, <2>1
    <2>5. ASSUME NEW i \in 1 .. k
          PROVE  a[i + 1] = s[i]
        <3>1. s[i] = new[n + 1 - k + i]
            BY <1>4, <2>3
        <3>2. CASE i = k
            <4>1. n + 1 - k + i = n + 1
                BY <1>1, <1>2, <3>2
            <4> QED
                BY <1>3, <1>5, <3>1, <3>2, <4>1
        <3>3. CASE i # k
            <4>1. /\ i + 1 \in 1 .. k /\ n - k + (i + 1) = n + 1 - k + i
                  /\ n + 1 - k + i \in 1 .. n
                BY <1>1, <1>2, <2>1, <3>3
            <4>2. a[i + 1] = all[n - k + (i + 1)]
                BY <1>2, <1>5, <4>1
            <4> QED
                BY <1>3, <3>1, <4>1, <4>2
        <3> QED
            BY <3>2, <3>3
    <2>6. Tail(a) = s
        <3> DEFINE u == Tail(a)
        <3>1. u \in Seq(Nat) /\ Len(u) = k /\ \A i \in 1 .. k : u[i] = s[i]
            BY <2>4, <2>5
        <3> HIDE DEF u
        <3>2. u = s
            BY <1>4, <2>3, <3>1
        <3> QED
            BY <3>2 DEF u
    <2> QED
        BY <2>2, <2>6 DEF s, new, a, r
<1> QED
    BY <1>6, <1>7

\* A history that got no sample stays as it is.
LEMMA RecentStays ==
    ASSUME NEW all \in Seq(Nat)
    PROVE  Trimmed(Recent(all)) = Recent(all)
<1>1. Len(Recent(all)) =< HistoryLen /\ Len(Recent(all)) \in Nat /\ HistoryLen \in Nat
    BY RecentType, TuiAssumption
<1> QED
    BY <1>1 DEF Trimmed

\* An answer gives the history and the record of all samples the same sample.
LEMMA SampledIs ==
    ASSUME NEW rows \in Seq(Rows), NEW n \in Pipelines
    PROVE  \/ \A h \in [Pipelines -> Seq(Nat)] : Sampled(h, rows)[n] = h[n]
           \/ \E x \in Nat : \A h \in [Pipelines -> Seq(Nat)] : Sampled(h, rows)[n] = Append(h[n], x)
<1> DEFINE k == CHOOSE i \in DOMAIN rows : rows[i].name = n
           x == rows[k].bytes_in + rows[k].bytes_out
<1>1. CASE \E i \in DOMAIN rows : rows[i].name = n
    <2>1. k \in DOMAIN rows
        BY <1>1
    <2> HIDE DEF k
    <2>2. rows[k] \in Rows
        BY <2>1
    <2>3. x \in Nat
        BY <2>2 DEF Rows
    <2>4. \A h \in [Pipelines -> Seq(Nat)] : Sampled(h, rows)[n] = Append(h[n], x)
        BY <1>1 DEF Sampled, k
    <2> HIDE DEF x
    <2> QED
        BY <2>3, <2>4
<1>2. CASE ~ \E i \in DOMAIN rows : rows[i].name = n
    BY <1>2 DEF Sampled
<1> QED
    BY <1>1, <1>2

----------------------------------------------------------------------------
(* Keys.                                                                   *)

\* With a popup open, a key quits, closes the popup or does nothing.
LEMMA PopupKeys ==
    ASSUME mode \in {"help", "detail"}, NEW key \in Keys
    PROVE  HandleKey(key) \in {"Quit", "Close", "None"}
BY DEF HandleKey

\* What a key that is no Close needs and leaves alone.
LEMMA NormalKeys ==
    ASSUME TypeOK, NEW action, Press(action), action \notin {"Quit", "Close", "None"}
    PROVE  mode = "normal"
<1>1. PICK key \in Keys : HandleKey(key) = action
    BY DEF Press
<1> QED
    BY <1>1, PopupKeys DEF TypeOK

----------------------------------------------------------------------------
(* What an answer and an order of the header make of App's rows.           *)

\* Answers list no pipeline twice.
LEMMA AnswersAreDistinct ==
    /\ \A rows \in Responses : Distinct(rows)
    /\ Distinct(<<>>)
<1>1. <<>> \in Seq(Rows) /\ DOMAIN <<>> = {}
    OBVIOUS
<1> QED
    BY <1>1, TuiAssumption DEF Distinct

\* The rows of App are distinct, and as many as the answer has.
LEMMA PipelinesAre ==
    ASSUME TypeOK, RowsInv
    PROVE  /\ Distinct(fetched) /\ Distinct(pipelines)
           /\ Len(pipelines) = Len(fetched) /\ ToSet(pipelines) = ToSet(fetched)
           /\ \A i, j \in DOMAIN pipelines :
                 i < j => Before(pipelines[i], pipelines[j], sort_field, sort_desc)
<1>1. Distinct(fetched) /\ sort_field \in ToSet(SortFields) /\ sort_desc \in BOOLEAN
    BY AnswersAreDistinct DEF TypeOK
<1>2. /\ InOrder(pipelines, fetched, sort_field, sort_desc)
      /\ Distinct(pipelines) /\ Len(pipelines) = Len(fetched)
    <2>1. pipelines = Sorted(fetched, sort_field, sort_desc)
        BY DEF RowsInv
    <2> QED
        BY <1>1, <2>1, SortedIs
<1> QED
    BY <1>1, <1>2 DEF InOrder

\* What is selected has its type.
LEMMA SelectedType ==
    ASSUME TypeOK
    PROVE  /\ Selected \in Pipelines \union {None}
           /\ selected_history \in Seq(Nat)
<1>1. pipelines \in Seq(Rows) /\ selected \in Nat
    BY DEF TypeOK
<1>2. selected < Len(pipelines) => pipelines[selected + 1] \in Rows
    BY <1>1
<1>3. Selected \in Pipelines \union {None}
    BY <1>2, FieldType DEF Selected
<1>4. Selected # None => history[Selected] \in Seq(Nat)
    BY <1>3 DEF TypeOK
<1>5. <<>> \in Seq(Nat)
    OBVIOUS
<1> QED
    BY <1>3, <1>4, <1>5 DEF selected_history

\* What is shown has its type.
LEMMA ShownType ==
    ASSUME TypeOK
    PROVE  Shown \in Screens
<1>1. pipelines \in Seq(Rows)
    BY DEF TypeOK
<1>2. aggregate(pipelines) \in [Counters -> Nat]
    BY <1>1, AggregateType
<1>3. Selected \in Pipelines \union {None} /\ selected_history \in Seq(Nat)
    BY SelectedType
<1>4. (IF mode = "detail" THEN selected_history ELSE <<>>) \in Seq(Nat)
    <2>1. <<>> \in Seq(Nat)
        OBVIOUS
    <2> QED
        BY <1>3, <2>1
<1>5. <<mode, IF mode = "detail" THEN Selected ELSE None>> \in
         {"normal", "help", "detail"} \X (Pipelines \union {None})
    BY <1>3 DEF TypeOK
<1>6. (IF last_error THEN "disconnected" ELSE IF paused THEN "paused" ELSE "live")
         \in {"disconnected", "paused", "live"}
    OBVIOUS
<1> QED
    BY <1>1, <1>2, <1>3, <1>4, <1>5, <1>6 DEF Shown, Screens

----------------------------------------------------------------------------
(* The type of the state.                                                  *)

\* The first states have their types.
LEMMA TypeInit == Init => TypeOK
<1> SUFFICES ASSUME Init PROVE TypeOK
    OBVIOUS
<1>1. <<>> \in Seq(Rows) /\ <<>> \in Seq(Nat)
    OBVIOUS
<1>2. aggregate(<<>>) \in [Counters -> Nat]
    BY <1>1, AggregateType
<1>3. <<"normal", None>> \in {"normal", "help", "detail"} \X (Pipelines \union {None})
    OBVIOUS
<1>4. screen \in Screens
    BY <1>1, <1>2, <1>3 DEF Init, Screens
<1>5. sort_field \in ToSet(SortFields)
    BY FieldsAre DEF Init
<1>6. [n \in Pipelines |-> <<>>] \in [Pipelines -> Seq(Nat)]
    BY <1>1
<1> QED
    BY <1>1, <1>4, <1>5, <1>6 DEF Init, TypeOK

\* After a column comes a column.
LEMMA NextSortFieldType ==
    ASSUME sort_field \in ToSet(SortFields)
    PROVE  NextSortField \in ToSet(SortFields)
<1> DEFINE i == CHOOSE i \in DOMAIN SortFields : SortFields[i] = sort_field
<1>1. DOMAIN SortFields = 1 .. 6 /\ Len(SortFields) = 6
    BY DEF SortFields
<1>2. \E k \in DOMAIN SortFields : SortFields[k] = sort_field
    BY DEF ToSet
<1>3. i \in 1 .. 6
    BY <1>1, <1>2
<1> HIDE DEF i
<1>4. (i % 6) + 1 \in 1 .. 6
    BY <1>3
<1>5. NextSortField = SortFields[(i % 6) + 1]
    BY <1>1 DEF NextSortField, i
<1> QED
    BY <1>1, <1>4, <1>5 DEF ToSet

\* Trimming keeps a history one of numbers.
LEMMA TrimmedType ==
    ASSUME NEW h \in Seq(Nat)
    PROVE  Trimmed(h) \in Seq(Nat)
<1>1. HistoryLen \in Nat \ {0}
    BY TuiAssumption
<1>2. Len(h) > HistoryLen => h # <<>>
    BY <1>1
<1> QED
    BY <1>2 DEF Trimmed

\* Histories have their type.
LEMMA SampledType ==
    ASSUME NEW rows \in Seq(Rows), NEW h \in [Pipelines -> Seq(Nat)]
    PROVE  /\ Sampled(h, rows) \in [Pipelines -> Seq(Nat)]
           /\ [n \in Pipelines |-> Trimmed(Sampled(h, rows)[n])] \in [Pipelines -> Seq(Nat)]
<1>1. ASSUME NEW n \in Pipelines
      PROVE  Sampled(h, rows)[n] \in Seq(Nat)
    <2>1. Sampled(h, rows)[n] = h[n] \/ \E x \in Nat : Sampled(h, rows)[n] = Append(h[n], x)
        BY SampledIs
    <2>2. h[n] \in Seq(Nat) /\ \A x \in Nat : Append(h[n], x) \in Seq(Nat)
        OBVIOUS
    <2> QED
        BY <2>1, <2>2
<1>2. Sampled(h, rows) = [n \in Pipelines |-> Sampled(h, rows)[n]]
    BY DEF Sampled
<1>3. \A n \in Pipelines : Trimmed(Sampled(h, rows)[n]) \in Seq(Nat)
    BY <1>1, TrimmedType
<1> QED
    BY <1>1, <1>2, <1>3

\* A selection that is clamped is in range.
LEMMA ClampedType ==
    ASSUME TypeOK, NEW rows \in Seq(Rows)
    PROVE  /\ Clamped(rows) \in Nat
           /\ Clamped(rows) < Len(rows) \/ (rows = <<>> /\ Clamped(rows) = 0)
<1>1. Len(rows) \in Nat /\ selected \in Nat /\ (rows = <<>> <=> Len(rows) = 0)
    BY DEF TypeOK
<1> QED
    BY <1>1 DEF Clamped

\* Every step keeps the types.
LEMMA TypeStep ==
    ASSUME TypeOK, RowsInv, [Next]_vars
    PROVE  TypeOK'
<1> USE DEF TypeOK, data, view, polls
<1>1. ASSUME SkipPoll \/ FetchFails \/ TerminalFails \/ NoKey
      PROVE  TypeOK'
    BY <1>1 DEF SkipPoll, FetchFails, TerminalFails, NoKey, Over
<1>2. ASSUME Draw
      PROVE  TypeOK'
    <2>1. screen' \in Screens
        BY <1>2, ShownType DEF Draw
    <2> QED
        BY <1>2, <2>1 DEF Draw
<1>3. ASSUME NEW rows \in Responses, Fetched(rows)
      PROVE  TypeOK'
    <2>1. Distinct(rows) /\ rows \in Seq(Rows)
        BY AnswersAreDistinct DEF Distinct
    <2>2. Sorted(rows, sort_field, sort_desc) \in Seq(Rows)
        BY <2>1, SortedIs DEF Distinct
    <2>3. pipelines' \in Seq(Rows)
        BY <1>3, <2>2 DEF Fetched
    <2>4. history' \in [Pipelines -> Seq(Nat)]
        BY <1>3, <2>1, SampledType DEF Fetched
    <2>5. samples' \in [Pipelines -> Seq(Nat)]
        BY <1>3, <2>1, SampledType DEF Fetched
    <2>6. selected' \in Nat
        BY <1>3, <2>1, ClampedType DEF Fetched
    <2>7. UNCHANGED <<view, screen, chosen>> /\ at' = "draw" /\ fetched' = rows
          /\ last_error' = FALSE /\ failing' = FALSE
        BY <1>3 DEF Fetched
    <2> QED
        BY <2>3, <2>4, <2>5, <2>6, <2>7
<1>4. ASSUME Quit \/ TogglePause \/ OpenHelp \/ Close \/ Ignore
      PROVE  TypeOK'
    BY <1>4 DEF Quit, TogglePause, OpenHelp, Close, Ignore, Press, SetMode, Over
<1>5. ASSUME MoveUp \/ MoveDown
      PROVE  TypeOK'
    BY <1>5 DEF MoveUp, MoveDown, Move, Above, Press
<1>6. ASSUME CycleSort \/ ReverseSort
      PROVE  TypeOK'
    <2>1. PICK field \in ToSet(SortFields), desc \in BOOLEAN :
             Sort(field, desc) /\ UNCHANGED <<history, last_error, screen, polls>>
        BY <1>6, NextSortFieldType DEF CycleSort, ReverseSort, Press
    <2>2. Distinct(pipelines)
        BY PipelinesAre
    <2>3. Sorted(pipelines, field, desc) \in Seq(Rows)
        BY <2>2, SortedIs DEF Distinct
    <2>4. pipelines' \in Seq(Rows)
        BY <2>1, <2>3 DEF Sort
    <2> QED
        BY <2>1, <2>4 DEF Sort
<1>7. ASSUME OpenDetail
      PROVE  TypeOK'
    <2>1. screen.highlighted \in Pipelines \union {None}
        BY DEF Screens
    <2> QED
        BY <1>7, <2>1 DEF OpenDetail, Press, SetMode
<1>8. ASSUME UNCHANGED vars
      PROVE  TypeOK'
    BY <1>8 DEF vars
<1> QED
    BY <1>1, <1>2, <1>3, <1>4, <1>5, <1>6, <1>7, <1>8 DEF Next

----------------------------------------------------------------------------
(* The other conjuncts of the invariant.                                   *)

\* Every step keeps the selection in range.
LEMMA SelectionStep ==
    ASSUME TypeOK, SelectionInRange, RowsInv, [Next]_vars
    PROVE  SelectionInRange'
<1> USE DEF SelectionInRange, data, view, polls
<1>1. ASSUME UNCHANGED <<pipelines, selected>>
      PROVE  SelectionInRange'
    BY <1>1
<1>2. ASSUME SkipPoll \/ FetchFails \/ Draw \/ TerminalFails \/ NoKey \/ Quit \/ TogglePause
             \/ OpenHelp \/ OpenDetail \/ Close \/ Ignore \/ UNCHANGED vars
      PROVE  SelectionInRange'
    BY <1>1, <1>2 DEF SkipPoll, FetchFails, Draw, TerminalFails, NoKey, Quit, TogglePause,
       OpenHelp, OpenDetail, Close, Ignore, SetMode, vars
<1>3. ASSUME NEW rows \in Responses, Fetched(rows)
      PROVE  SelectionInRange'
    <2> DEFINE s == Sorted(rows, sort_field, sort_desc)
    <2>1. Distinct(rows) /\ rows \in Seq(Rows)
        BY AnswersAreDistinct DEF Distinct
    <2>2. s \in Seq(Rows) /\ Len(s) = Len(rows)
        BY <2>1, SortedIs DEF Distinct, TypeOK
    <2>3. pipelines' = s /\ selected' = Clamped(rows)
        BY <1>3 DEF Fetched
    <2>4. Clamped(rows) < Len(rows) \/ (rows = <<>> /\ Clamped(rows) = 0)
        BY <2>1, ClampedType
    <2> HIDE DEF s
    <2>5. rows = <<>> => s = <<>>
        BY <2>1, <2>2
    <2> QED
        BY <2>2, <2>3, <2>4, <2>5
<1>4. ASSUME MoveUp \/ MoveDown
      PROVE  SelectionInRange'
    <2>1. selected \in Nat /\ Len(pipelines) \in Nat /\ pipelines' = pipelines
        BY <1>4 DEF MoveUp, MoveDown, Move, TypeOK
    <2> QED
        BY <1>4, <2>1 DEF MoveUp, MoveDown, Move, Above
<1>5. ASSUME CycleSort \/ ReverseSort
      PROVE  SelectionInRange'
    <2>1. PICK field \in ToSet(SortFields), desc \in BOOLEAN : Sort(field, desc)
        BY <1>5, NextSortFieldType DEF CycleSort, ReverseSort, TypeOK
    <2> DEFINE s == Sorted(pipelines, field, desc)
    <2>2. Distinct(pipelines) /\ pipelines \in Seq(Rows)
        BY PipelinesAre DEF Distinct
    <2>3. s \in Seq(Rows) /\ Len(s) = Len(pipelines)
        BY <2>2, SortedIs DEF Distinct
    <2>4. pipelines' = s /\ selected' = selected
        BY <2>1 DEF Sort
    <2> HIDE DEF s
    <2>5. pipelines = <<>> => s = <<>>
        BY <2>2, <2>3
    <2> QED
        BY <2>3, <2>4, <2>5
<1> QED
    BY <1>2, <1>3, <1>4, <1>5 DEF Next

\* Every action but Fetched leaves the samples alone.
LEMMA HistoryStep ==
    ASSUME TypeOK, HistoryIsRecent, [Next]_vars
    PROVE  HistoryIsRecent'
<1>1. ASSUME NEW rows \in Responses, Fetched(rows), NEW n \in Pipelines
      PROVE  history'[n] = Recent(samples'[n])
    <2>1. rows \in Seq(Rows)
        BY AnswersAreDistinct DEF Distinct
    <2>2. /\ history \in [Pipelines -> Seq(Nat)] /\ samples \in [Pipelines -> Seq(Nat)]
          /\ history[n] = Recent(samples[n]) /\ samples[n] \in Seq(Nat)
        BY DEF TypeOK, HistoryIsRecent, Recent
    <2>3. history'[n] = Trimmed(Sampled(history, rows)[n]) /\ samples'[n] = Sampled(samples, rows)[n]
        BY <1>1 DEF Fetched
    <2>4. CASE \A h \in [Pipelines -> Seq(Nat)] : Sampled(h, rows)[n] = h[n]
        <3>1. Trimmed(Recent(samples[n])) = Recent(samples[n])
            BY <2>2, RecentStays
        <3> QED
            BY <2>2, <2>3, <2>4, <3>1
    <2>5. CASE \E x \in Nat : \A h \in [Pipelines -> Seq(Nat)] : Sampled(h, rows)[n] = Append(h[n], x)
        <3>1. PICK x \in Nat : \A h \in [Pipelines -> Seq(Nat)] : Sampled(h, rows)[n] = Append(h[n], x)
            BY <2>5
        <3>2. Trimmed(Append(Recent(samples[n]), x)) = Recent(Append(samples[n], x))
            BY <2>2, RecentAppend
        <3>3. /\ Sampled(history, rows)[n] = Append(history[n], x)
              /\ Sampled(samples, rows)[n] = Append(samples[n], x)
            BY <2>2, <3>1
        <3> QED
            BY <2>2, <2>3, <3>2, <3>3
    <2> QED
        BY <2>1, <2>4, <2>5, SampledIs
<1>2. ASSUME UNCHANGED <<history, samples>>
      PROVE  HistoryIsRecent'
    BY <1>2 DEF HistoryIsRecent
<1>3. ASSUME NEW rows \in Responses, Fetched(rows)
      PROVE  HistoryIsRecent'
    <2>1. \A n \in Pipelines : history'[n] = Recent(samples'[n])
        BY <1>1, <1>3
    <2> QED
        BY <2>1 DEF HistoryIsRecent, Recent
<1> QED
    BY <1>2, <1>3 DEF Next, SkipPoll, FetchFails, Draw, TerminalFails, NoKey, Quit, TogglePause,
       OpenHelp, OpenDetail, Close, Ignore, MoveUp, MoveDown, CycleSort, ReverseSort,
       Press, vars, data, polls

\* Every step keeps RowsInv.
LEMMA RowsStep ==
    ASSUME TypeOK, RowsInv, [Next]_vars
    PROVE  RowsInv'
<1>1. ASSUME UNCHANGED <<pipelines, fetched, sort_field, sort_desc>>
      PROVE  RowsInv'
    BY <1>1 DEF RowsInv
<1>2. ASSUME NEW rows \in Responses, Fetched(rows)
      PROVE  RowsInv'
    BY <1>2 DEF Fetched, RowsInv, view
<1>3. ASSUME NEW field, NEW desc, Sort(field, desc), UNCHANGED fetched
      PROVE  RowsInv'
    <2>1. Sorted(pipelines, field, desc) = Sorted(fetched, field, desc)
        BY PipelinesAre, SortedAgain
    <2> QED
        BY <1>3, <2>1 DEF Sort, RowsInv
<1>4. ASSUME CycleSort \/ ReverseSort
      PROVE  RowsInv'
    BY <1>3, <1>4 DEF CycleSort, ReverseSort, Press, polls
<1> QED
    BY <1>1, <1>2, <1>4 DEF Next, SkipPoll, FetchFails, Draw, TerminalFails, NoKey, Quit, TogglePause,
       OpenHelp, OpenDetail, Close, Ignore, MoveUp, MoveDown, Move, SetMode,
       Press, vars, data, view, polls

\* Every step keeps ScreenInv.
LEMMA ScreenStep ==
    ASSUME ScreenInv, [Next]_vars
    PROVE  ScreenInv'
<1>1. ASSUME Draw
      PROVE  ScreenInv'
    <2>1. Shown' = Shown
        BY <1>1 DEF Draw, data, view, Shown, Selected, selected_history
    <2> QED
        BY <1>1, <2>1 DEF Draw, ScreenInv
<1>2. ASSUME at' # "wait"
      PROVE  ScreenInv'
    BY <1>2 DEF ScreenInv
<1>3. ASSUME UNCHANGED vars
      PROVE  ScreenInv'
    BY <1>3 DEF ScreenInv, vars, data, view, Shown, Selected, selected_history
<1> QED
    BY <1>1, <1>2, <1>3 DEF Next, SkipPoll, FetchFails, TerminalFails, NoKey, Fetched, Quit, TogglePause,
       OpenHelp, OpenDetail, Close, Ignore, MoveUp, MoveDown, Move, CycleSort, ReverseSort, Sort, SetMode

\* Every step keeps ErrorInv.
LEMMA ErrorStep ==
    ASSUME ErrorInv, [Next]_vars
    PROVE  ErrorInv'
<1>1. ASSUME UNCHANGED <<last_error, failing>>
      PROVE  ErrorInv'
    BY <1>1 DEF ErrorInv
<1>2. ASSUME FetchFails
      PROVE  ErrorInv'
    BY <1>2 DEF ErrorInv, FetchFails
<1>3. ASSUME NEW rows \in Responses, Fetched(rows)
      PROVE  ErrorInv'
    BY <1>3 DEF ErrorInv, Fetched
<1>4. ASSUME NEW action, Press(action)
      PROVE  ErrorInv'
    BY <1>1, <1>4 DEF Press, polls
<1>5. ASSUME SkipPoll \/ Draw \/ TerminalFails \/ NoKey \/ UNCHANGED vars
      PROVE  ErrorInv'
    BY <1>1, <1>5 DEF SkipPoll, Draw, TerminalFails, NoKey, vars, data, polls
<1> QED
    BY <1>2, <1>3, <1>4, <1>5 DEF Next, Quit, TogglePause, OpenHelp, OpenDetail, Close, Ignore,
       MoveUp, MoveDown, CycleSort, ReverseSort

\* Only a poll changes the rows under a popup, and there is none while paused.
LEMMA PopupStep ==
    ASSUME TypeOK, ScreenInv, PopupInv, [Next]_vars
    PROVE  PopupInv'
<1>1. ASSUME UNCHANGED <<pipelines, selected, mode, paused, chosen>>
      PROVE  PopupInv'
    BY <1>1 DEF PopupInv, Selected
<1>2. ASSUME SkipPoll \/ FetchFails \/ Draw \/ TerminalFails \/ NoKey \/ Quit \/ Ignore
             \/ UNCHANGED vars
      PROVE  PopupInv'
    BY <1>1, <1>2 DEF SkipPoll, FetchFails, Draw, TerminalFails, NoKey, Quit, Ignore, SetMode,
       vars, data, view
<1>3. ASSUME NEW rows \in Responses, Fetched(rows)
      PROVE  PopupInv'
    BY <1>3 DEF Fetched, Polls, PopupInv, view
<1>4. ASSUME MoveUp \/ MoveDown \/ CycleSort \/ ReverseSort \/ TogglePause
      PROVE  PopupInv'
    <2>1. mode = "normal"
        BY <1>4, NormalKeys DEF MoveUp, MoveDown, CycleSort, ReverseSort, TogglePause
    <2>2. mode' = mode
        BY <1>4 DEF MoveUp, MoveDown, Move, CycleSort, ReverseSort, Sort, TogglePause, view
    <2> QED
        BY <2>1, <2>2 DEF PopupInv
<1>5. ASSUME OpenHelp \/ Close
      PROVE  PopupInv'
    BY <1>5 DEF OpenHelp, Close, SetMode, PopupInv
<1>6. ASSUME OpenDetail
      PROVE  PopupInv'
    <2>1. CASE pipelines = <<>>
        BY <1>1, <1>6, <2>1 DEF OpenDetail, SetMode
    <2>2. CASE pipelines # <<>>
        <3>1. at = "wait" /\ chosen' = screen.highlighted /\ UNCHANGED <<pipelines, selected>>
            BY <1>6, <2>2 DEF OpenDetail, SetMode, Press
        <3>2. screen.highlighted = Selected
            BY <3>1 DEF ScreenInv, Shown
        <3>3. Selected' = Selected
            BY <3>1 DEF Selected
        <3> QED
            BY <3>1, <3>2, <3>3 DEF PopupInv
    <2> QED
        BY <2>1, <2>2
<1> QED
    BY <1>2, <1>3, <1>4, <1>5, <1>6 DEF Next

----------------------------------------------------------------------------
(* The theorems.                                                           *)

\* What the properties need; every key, poll and drawing preserves it.
THEOREM TuiInvHolds == Spec => []TuiInv
<1>1. Init => TuiInv
    <2> SUFFICES ASSUME Init PROVE TuiInv
        OBVIOUS
    <2>1. /\ pipelines = <<>> /\ fetched = <<>> /\ selected = 0 /\ samples = history
          /\ history = [n \in Pipelines |-> <<>>] /\ at = "poll" /\ mode = "normal"
          /\ last_error = FALSE /\ failing = FALSE /\ sort_desc = FALSE
        BY DEF Init
    <2>2. TypeOK
        BY TypeInit
    <2>3. SelectionInRange
        BY <2>1 DEF SelectionInRange
    <2>4. HistoryIsRecent
        BY <2>1, TuiAssumption DEF HistoryIsRecent
    <2>5. RowsInv
        <3> DEFINE s == Sorted(<<>>, sort_field, sort_desc)
        <3>1. Distinct(<<>>) /\ sort_field \in ToSet(SortFields) /\ sort_desc \in BOOLEAN
            BY <2>2, AnswersAreDistinct DEF TypeOK
        <3>2. s \in Seq(Rows) /\ Len(s) = Len(<<>>)
            BY <3>1, SortedIs DEF Distinct
        <3> HIDE DEF s
        <3>3. s = <<>>
            BY <3>2
        <3> QED
            BY <2>1, <3>3 DEF RowsInv, s
    <2> QED
        BY <2>1, <2>2, <2>3, <2>4, <2>5 DEF TuiInv, ScreenInv, ErrorInv, PopupInv
<1>2. TuiInv /\ [Next]_vars => TuiInv'
    BY TypeStep, SelectionStep, HistoryStep, RowsStep, ScreenStep, ErrorStep, PopupStep DEF TuiInv
<1> QED
    BY <1>1, <1>2, PTL DEF Spec

\* The state of App and of the screen has its type (app.rs, main.rs).
THEOREM TypeCorrect == Spec => []TypeOK
<1>1. TuiInv => TypeOK
    BY DEF TuiInv
<1> QED
    BY <1>1, TuiInvHolds, PTL

\* The selection is a row, or the first place of an empty table: no answer
\* and no key leaves it behind (app.rs update, move_up, move_down).
THEOREM SelectionInRangeHolds == Spec => []SelectionInRange
<1>1. TuiInv => SelectionInRange
    BY DEF TuiInv
<1> QED
    BY <1>1, TuiInvHolds, PTL

\* A history is its pipeline's newest samples, for any HISTORY_LEN (app.rs update).
THEOREM HistoryIsRecentHolds == Spec => []HistoryIsRecent
<1>1. TuiInv => HistoryIsRecent
    BY DEF TuiInv
<1> QED
    BY <1>1, TuiInvHolds, PTL

\* What the user looks at is the latest answer, in the order of the header,
\* with its sums, and marked as disconnected iff the poll after it failed
\* (main.rs run_interactive, app.rs sort_pipelines and aggregate).
THEOREM ScreenIsLatestHolds == Spec => []ScreenIsLatest
<1>1. TuiInv => ScreenIsLatest
    <2> SUFFICES ASSUME TuiInv, at = "wait"
                 PROVE  /\ ToSet(screen.rows) = ToSet(fetched)
                        /\ \A i, j \in DOMAIN screen.rows : i < j =>
                              Before(screen.rows[i], screen.rows[j], sort_field, sort_desc)
                        /\ screen.summary = aggregate(fetched)
                        /\ screen.title = "disconnected" <=> failing
        BY DEF ScreenIsLatest
    <2>1. TypeOK /\ RowsInv /\ last_error = failing /\ screen = Shown
        BY DEF TuiInv, ScreenInv, ErrorInv
    <2>2. /\ Distinct(fetched) /\ Distinct(pipelines) /\ ToSet(pipelines) = ToSet(fetched)
          /\ \A i, j \in DOMAIN pipelines :
                i < j => Before(pipelines[i], pipelines[j], sort_field, sort_desc)
        BY <2>1, PipelinesAre
    <2>3. aggregate(pipelines) = aggregate(fetched)
        BY <2>2, AggregateAgrees
    <2>4. screen.rows = pipelines /\ screen.summary = aggregate(pipelines)
        BY <2>1 DEF Shown
    <2>5. screen.title = "disconnected" <=> failing
        BY <2>1 DEF Shown, TypeOK
    <2> QED
        BY <2>2, <2>3, <2>4, <2>5
<1> QED
    BY <1>1, TuiInvHolds, PTL

\* The popup of a paused dashboard shows the pipeline on which it was opened
\* (main.rs run_interactive).
THEOREM PausedDetailShowsChosenHolds == Spec => []PausedDetailShowsChosen
<1>1. TuiInv => PausedDetailShowsChosen
    BY DEF TuiInv, ScreenInv, PopupInv, PausedDetailShowsChosen, Shown
<1> QED
    BY <1>1, TuiInvHolds, PTL
=============================================================================
