----------------------------- MODULE ProxyProofs -----------------------------
(***************************************************************************)
(* Proofs about Proxy, for any number of pipelines, clients and names.     *)
(*                                                                         *)
(* The counters and the type of the state are proved together: that a      *)
(* counter stays a natural number when a task decrements it follows only   *)
(* from the set of sessions it counts.  The second part is about the stop. *)
(***************************************************************************)
EXTENDS Proxy, Lemmas

----------------------------------------------------------------------------
(* How the number of clients with a phase in P changes when one client's   *)
(* phase changes.                                                          *)

\* Client s moves to phase "to" and no other client moves.
MovesTo(s, to) ==
    /\ phase'[s] = to
    /\ \A t \in Sessions : t # s => phase'[t] = phase[t]

\* An update of the phase of one client moves that client.
LEMMA ExceptMoves ==
    ASSUME TypeOK, NEW s \in Sessions, NEW to, phase' = [phase EXCEPT ![s] = to]
    PROVE  MovesTo(s, to)
  BY DEF TypeOK, MovesTo

\* The effect of such a move on the count of the phases P among the clients T.
LEMMA MoveCount ==
    ASSUME NEW s \in Sessions, NEW to, MovesTo(s, to),
           NEW T, T \subseteq Sessions, s \in T, NEW P
    PROVE  /\ Count(phase, T, P) \in Nat
           /\ Count(phase', T, P) \in Nat
           /\ (phase[s] \in P <=> to \in P) =>
                 Count(phase', T, P) = Count(phase, T, P)
           /\ (phase[s] \notin P /\ to \in P) =>
                 Count(phase', T, P) = Count(phase, T, P) + 1
           /\ (phase[s] \in P /\ to \notin P) =>
                 Count(phase', T, P) = Count(phase, T, P) - 1
<1>1. IsFiniteSet(T)
  BY FS_Subset, SessionsAssumption
<1>2. phase'[s] = to /\ \A t \in T : t # s => phase'[t] = phase[t]
  BY DEF MovesTo
<1>3. QED
  BY <1>1, <1>2, CountMove

\* The two counts that the invariants use.
LEMMA MoveTracked ==
    ASSUME NEW s \in Sessions, NEW to, MovesTo(s, to)
    PROVE  /\ Cardinality(TrackedSessions) \in Nat
           /\ Cardinality(TrackedSessions)' \in Nat
           /\ (phase[s] \in Tracked <=> to \in Tracked)
                 => Cardinality(TrackedSessions)' = Cardinality(TrackedSessions)
           /\ (phase[s] \notin Tracked /\ to \in Tracked)
                 => Cardinality(TrackedSessions)' = Cardinality(TrackedSessions) + 1
           /\ (phase[s] \in Tracked /\ to \notin Tracked)
                 => Cardinality(TrackedSessions)' = Cardinality(TrackedSessions) - 1
<1>1. /\ Cardinality(TrackedSessions) = Count(phase, Sessions, Tracked)
      /\ Cardinality(TrackedSessions)' = Count(phase', Sessions, Tracked)
  BY DEF TrackedSessions, Count
<1>2. QED
  BY <1>1, MoveCount

\* The counts of a name change only by moves of its own sessions.
LEMMA MoveSessionsOf ==
    ASSUME NEW s \in Sessions, NEW to, MovesTo(s, to), NEW n, NEW P
    PROVE  /\ Cardinality(SessionsOf(n, P)) \in Nat
           /\ Cardinality(SessionsOf(n, P)') \in Nat
           /\ (Name(s) # n \/ (phase[s] \in P <=> to \in P))
                 => Cardinality(SessionsOf(n, P)') = Cardinality(SessionsOf(n, P))
           /\ (Name(s) = n /\ phase[s] \notin P /\ to \in P)
                 => Cardinality(SessionsOf(n, P)') = Cardinality(SessionsOf(n, P)) + 1
           /\ (Name(s) = n /\ phase[s] \in P /\ to \notin P)
                 => Cardinality(SessionsOf(n, P)') = Cardinality(SessionsOf(n, P)) - 1
<1>1. PICK T : T = {t \in Sessions : Name(t) = n}
  OBVIOUS
<1>2. T \subseteq Sessions /\ (Name(s) = n <=> s \in T)
  BY <1>1
<1>3. IsFiniteSet(T)
  BY <1>2, FS_Subset, SessionsAssumption
<1>4. /\ Cardinality(SessionsOf(n, P)) = Count(phase, T, P)
      /\ Cardinality(SessionsOf(n, P)') = Count(phase', T, P)
  <2>1. /\ SessionsOf(n, P) = {t \in T : phase[t] \in P}
        /\ SessionsOf(n, P)' = {t \in T : phase'[t] \in P}
    BY <1>1 DEF SessionsOf, Name
  <2>2. QED
    BY <2>1 DEF Count
<1>5. CASE Name(s) = n
  BY <1>2, <1>4, <1>5, MoveCount
<1>6. CASE Name(s) # n
  <2>1. {t \in T : phase[t] \in P} = {t \in T : phase'[t] \in P}
    BY <1>2, <1>6 DEF MovesTo
  <2>2. Cardinality({t \in T : phase[t] \in P}) \in Nat
    <3>1. {t \in T : phase[t] \in P} \subseteq T
      OBVIOUS
    <3>2. QED
      BY <1>3, <3>1, FS_Subset, FS_CardinalityType
  <2>3. QED
    BY <1>4, <1>6, <2>1, <2>2 DEF Count
<1>7. QED
  BY <1>5, <1>6

----------------------------------------------------------------------------
(* The counters: CountInv is inductive.                                    *)

\* An error is known from the moment handle_session returns it, and is to be
\* counted in the next step of the task.
ErrorsAhead ==
    \A s \in Sessions :
        /\ phase[s] = "failed" => s \in failed
        /\ s \in failed => phase[s] \in {"failed"} \union Finished

CountInv == TypeOK /\ TrackerIsExact /\ Accounting /\ ErrorsAhead

\* By how much a client that goes from phase a to phase b changes the number
\* of clients in P.
Change(P, a, b) == IF a \notin P /\ b \in P THEN 1
                   ELSE IF a \in P /\ b \notin P THEN -1 ELSE 0

Counted == Open \union {"panicked"}

\* The clients whose error is counted.
Erred == [s \in Sessions |-> s \in failed /\ phase[s] \in Finished]

\* Their number, per name, changes only by a move of the client itself.
LEMMA MoveErred ==
    ASSUME NEW s \in Sessions, NEW to, MovesTo(s, to), failed' \ {s} = failed \ {s}, NEW n
    PROVE  LET E == SessionsOf(n, Finished) \intersect failed
           IN  /\ Cardinality(E) \in Nat
               /\ Cardinality(E') \in Nat
               /\ (Name(s) # n \/ (Erred[s] <=> Erred'[s]))
                     => Cardinality(E') = Cardinality(E)
               /\ (Name(s) = n /\ ~Erred[s] /\ Erred'[s])
                     => Cardinality(E') = Cardinality(E) + 1
<1> DEFINE E == SessionsOf(n, Finished) \intersect failed
<1>1. PICK T : T = {t \in Sessions : Name(t) = n}
  OBVIOUS
<1>2. T \subseteq Sessions /\ (Name(s) = n <=> s \in T)
  BY <1>1
<1>3. IsFiniteSet(T)
  BY <1>2, FS_Subset, SessionsAssumption
<1>4. /\ Cardinality(E) = Count(Erred, T, {TRUE})
      /\ Cardinality(E') = Count(Erred', T, {TRUE})
  <2>1. /\ E = {t \in T : Erred[t] \in {TRUE}}
        /\ E' = {t \in T : Erred'[t] \in {TRUE}}
    BY <1>1 DEF SessionsOf, Name, Erred
  <2>2. QED
    BY <2>1 DEF Count
<1>5. \A t \in T : t # s => Erred'[t] = Erred[t]
  BY <1>2 DEF MovesTo, Erred
<1>6. CASE Name(s) = n
  <2>1. PICK f, g, P : f = Erred /\ g = Erred' /\ P = {TRUE}
    OBVIOUS
  <2>2. s \in T /\ \A t \in T : t # s => g[t] = f[t]
    BY <1>2, <1>5, <1>6, <2>1
  <2>3. /\ Count(f, T, P) \in Nat
        /\ Count(g, T, P) \in Nat
        /\ (f[s] \in P <=> g[s] \in P) => Count(g, T, P) = Count(f, T, P)
        /\ (f[s] \notin P /\ g[s] \in P) => Count(g, T, P) = Count(f, T, P) + 1
    BY <1>3, <2>2, CountMove
  <2>4. (Erred[s] <=> f[s] \in P) /\ (Erred'[s] <=> g[s] \in P)
    BY <2>1 DEF Erred
  <2>5. Cardinality(E) = Count(f, T, P) /\ Cardinality(E') = Count(g, T, P)
    BY <1>4, <2>1
  <2>6. QED
    BY <1>6, <2>3, <2>4, <2>5
<1>7. CASE Name(s) # n
  <2>1. {t \in T : Erred'[t] \in {TRUE}} = {t \in T : Erred[t] \in {TRUE}}
    BY <1>2, <1>5, <1>7
  <2>2. Cardinality({t \in T : Erred[t] \in {TRUE}}) \in Nat
    <3>1. {t \in T : Erred[t] \in {TRUE}} \subseteq T
      OBVIOUS
    <3>2. QED
      BY <1>3, <3>1, FS_Subset, FS_CardinalityType
  <2>3. QED
    BY <1>4, <1>7, <2>1, <2>2 DEF Count
<1>8. QED
  BY <1>6, <1>7

\* Each counter changes as the phases it counts say when client s moves.
CountersFollow(s) ==
    /\ tracker'.live = tracker.live + Change(Tracked, phase[s], phase'[s])
    /\ \A n \in Names :
          LET By(P) == IF Name(s) = n THEN Change(P, phase[s], phase'[s]) ELSE 0
          IN  /\ total'[n] = total[n] + By(PastTotal)
              /\ active'[n] = active[n] + By(Counted)

\* errors_total changes when the error of client s is counted.
ErrorsFollow(s) ==
    /\ failed' \ {s} = failed \ {s}
    /\ phase'[s] = "failed" => s \in failed'
    /\ s \in failed' => phase'[s] \in {"failed"} \union Finished
    /\ Erred[s] => Erred'[s]
    /\ \A n \in Names :
          errors'[n] = errors[n] + (IF Name(s) = n /\ ~Erred[s] /\ Erred'[s] THEN 1 ELSE 0)

\* Then the counters stay exact.
LEMMA MoveKeepsCounts ==
    ASSUME CountInv, NEW s \in Sessions, MovesTo(s, phase'[s]), CountersFollow(s),
           ErrorsFollow(s)
    PROVE  /\ TrackerIsExact' /\ Accounting' /\ ErrorsAhead'
           /\ tracker'.live \in Nat
           /\ \A n \in Names : total'[n] \in Nat /\ active'[n] \in Nat
                                 /\ errors'[n] \in Nat
<1> USE DEF CountInv, TypeOK, Change, CountersFollow
<1>1. TrackerIsExact' /\ tracker'.live \in Nat
  BY MoveTracked DEF TrackerIsExact
<1>2. ASSUME NEW n \in Names
      PROVE  /\ total'[n] = Cardinality(SessionsOf(n, PastTotal)')
             /\ active'[n] = Cardinality(SessionsOf(n, Counted)')
             /\ errors'[n] = Cardinality((SessionsOf(n, Finished) \intersect failed)')
             /\ total'[n] \in Nat
             /\ active'[n] \in Nat
             /\ errors'[n] \in Nat
  <2>1. /\ total[n] = Cardinality(SessionsOf(n, PastTotal))
        /\ active[n] = Cardinality(SessionsOf(n, Counted))
        /\ errors[n] = Cardinality(SessionsOf(n, Finished) \intersect failed)
    BY DEF Accounting, Counted
  <2>2. total'[n] = Cardinality(SessionsOf(n, PastTotal)') /\ total'[n] \in Nat
    BY <2>1, MoveSessionsOf
  <2>3. active'[n] = Cardinality(SessionsOf(n, Counted)') /\ active'[n] \in Nat
    BY <2>1, MoveSessionsOf
  <2>4. /\ errors'[n] = Cardinality((SessionsOf(n, Finished) \intersect failed)')
        /\ errors'[n] \in Nat
    <3> DEFINE E == SessionsOf(n, Finished) \intersect failed
    <3>1. /\ Cardinality(E) \in Nat
          /\ Cardinality(E') \in Nat
          /\ (Name(s) # n \/ (Erred[s] <=> Erred'[s])) => Cardinality(E') = Cardinality(E)
          /\ (Name(s) = n /\ ~Erred[s] /\ Erred'[s]) => Cardinality(E') = Cardinality(E) + 1
      BY MoveErred DEF ErrorsFollow
    <3>2. errors[n] = Cardinality(E)
      BY <2>1
    <3>3. /\ Erred[s] => Erred'[s]
          /\ errors'[n] = errors[n] + (IF Name(s) = n /\ ~Erred[s] /\ Erred'[s] THEN 1 ELSE 0)
      BY DEF ErrorsFollow
    <3> HIDE DEF E
    <3>4. errors'[n] = Cardinality(E') /\ errors'[n] \in Nat
      BY <3>1, <3>2, <3>3
    <3>5. QED
      BY <3>4 DEF E
  <2>5. QED
    BY <2>2, <2>3, <2>4
<1>3. Accounting'
  BY <1>2 DEF Accounting, Counted
<1>4. ErrorsAhead'
  BY DEF ErrorsAhead, ErrorsFollow, MovesTo
<1>5. QED
  BY <1>1, <1>2, <1>3, <1>4

\* If no client enters or leaves the phases that are counted, the counts stay.
LEMMA SameCounts ==
    ASSUME CountInv, UNCHANGED <<counters, failed>>, tracker'.live = tracker.live,
           \A s \in Sessions :
              phase'[s] # phase[s] =>
                 {phase[s], phase'[s]} \intersect (Tracked \union {"done", "panicked"}) = {}
    PROVE  TrackerIsExact' /\ Accounting' /\ ErrorsAhead'
<1>1. TrackedSessions' = TrackedSessions
  BY DEF TrackedSessions, Tracked
<1>2. ASSUME NEW n \in Names,
             NEW P \in SUBSET (Tracked \union {"done", "panicked"})
      PROVE  SessionsOf(n, P)' = SessionsOf(n, P)
  BY DEF SessionsOf, Name
<1>3. TrackerIsExact'
  BY <1>1 DEF CountInv, TrackerIsExact
<1>4. Accounting'
  <2>1. ASSUME NEW n \in Names
        PROVE  /\ SessionsOf(n, PastTotal)' = SessionsOf(n, PastTotal)
               /\ SessionsOf(n, Open \union {"panicked"})'
                     = SessionsOf(n, Open \union {"panicked"})
               /\ SessionsOf(n, Finished)' = SessionsOf(n, Finished)
    BY <1>2 DEF PastTotal, Open, Tracked, Finished
  <2>2. QED
    BY <2>1 DEF CountInv, Accounting, counters
<1>5. ErrorsAhead'
  BY DEF CountInv, ErrorsAhead, Tracked, Finished
<1>6. QED
  BY <1>3, <1>4, <1>5

\* Nothing is counted at first.
LEMMA InitCounts == Init => CountInv
<1> SUFFICES ASSUME Init PROVE CountInv
  OBVIOUS
<1>1. TypeOK
  BY DEF Init, TypeOK, LoopStates, Phases
<1>2. TrackedSessions = {}
  BY DEF Init, TrackedSessions, Tracked
<1>3. ASSUME NEW n \in Names, NEW P, "idle" \notin P
      PROVE  Cardinality(SessionsOf(n, P)) = 0
  <2>1. SessionsOf(n, P) = {}
    BY <1>3 DEF Init, SessionsOf
  <2>2. QED
    BY <2>1, FS_EmptySet
<1>4. TrackerIsExact
  BY <1>2, FS_EmptySet DEF TrackerIsExact, Init
<1>5. Accounting
  <2>1. ASSUME NEW n \in Names
        PROVE  /\ Cardinality(SessionsOf(n, PastTotal)) = 0
               /\ Cardinality(SessionsOf(n, Open \union {"panicked"})) = 0
    BY <1>3 DEF PastTotal, Open, Tracked
  <2>2. ASSUME NEW n \in Names
        PROVE  Cardinality(SessionsOf(n, Finished) \intersect failed) = 0
    <3>1. SessionsOf(n, Finished) \intersect failed = {}
      BY DEF Init
    <3>2. QED
      BY <3>1, FS_EmptySet
  <2>3. QED
    BY <2>1, <2>2 DEF Accounting, Init
<1>6. ErrorsAhead
  BY DEF ErrorsAhead, Init
<1>7. QED
  BY <1>1, <1>4, <1>5, <1>6 DEF CountInv

\* Every step of a session task that has started keeps the counters exact.
LEMMA SessionCounts ==
    ASSUME CountInv, NEW s \in Sessions, Accept(s) \/ SessionRuns(s) \/ SessionWaits(s)
    PROVE  CountInv'
<1> USE DEF Tracked, PastTotal, Open, Counted, Finished, Change, Erred
<1>1. CASE Accept(s)
  <2>1. phase[s] = "backlog" /\ phase' = [phase EXCEPT ![s] = "spawned"]
    BY <1>1 DEF Accept
  <2>2. MovesTo(s, "spawned")
    BY <2>1, ExceptMoves DEF CountInv
  <2>3. CountersFollow(s)
    BY <1>1, <2>1 DEF CountInv, TypeOK, Accept, counters, CountersFollow
  <2>4. ErrorsFollow(s)
    BY <1>1, <2>1 DEF CountInv, TypeOK, ErrorsAhead, Accept, counters, ErrorsFollow
  <2>5. /\ TrackerIsExact' /\ Accounting' /\ ErrorsAhead' /\ tracker'.live \in Nat
        /\ \A n \in Names : total'[n] \in Nat /\ active'[n] \in Nat
                              /\ errors'[n] \in Nat
    BY <2>2, <2>3, <2>4, MoveKeepsCounts DEF MovesTo
  <2>6. TypeOK'
    BY <1>1, <2>1, <2>3, <2>5
    DEF CountInv, TypeOK, Accept, counters, Phases, CountersFollow
  <2>7. QED
    BY <2>5, <2>6 DEF CountInv
<1>2. CASE CountTotal(s)
  <2>1. phase[s] = "spawned" /\ phase' = [phase EXCEPT ![s] = "counted"]
    BY <1>2 DEF CountTotal, Moves
  <2>2. MovesTo(s, "counted")
    BY <2>1, ExceptMoves DEF CountInv
  <2>3. CountersFollow(s)
    BY <1>2, <2>1 DEF CountInv, TypeOK, CountTotal, Moves, counters, CountersFollow
  <2>4. ErrorsFollow(s)
    BY <1>2, <2>1 DEF CountInv, TypeOK, ErrorsAhead, CountTotal, Moves, counters, ErrorsFollow
  <2>5. /\ TrackerIsExact' /\ Accounting' /\ ErrorsAhead' /\ tracker'.live \in Nat
        /\ \A n \in Names : total'[n] \in Nat /\ active'[n] \in Nat
                              /\ errors'[n] \in Nat
    BY <2>2, <2>3, <2>4, MoveKeepsCounts DEF MovesTo
  <2>6. TypeOK'
    BY <1>2, <2>1, <2>3, <2>5
    DEF CountInv, TypeOK, CountTotal, Moves, counters, Phases, CountersFollow
  <2>7. QED
    BY <2>5, <2>6 DEF CountInv
<1>3. CASE CountActive(s)
  <2>1. phase[s] = "counted" /\ phase' = [phase EXCEPT ![s] = "resolving"]
    BY <1>3 DEF CountActive, Moves
  <2>2. MovesTo(s, "resolving")
    BY <2>1, ExceptMoves DEF CountInv
  <2>3. CountersFollow(s)
    BY <1>3, <2>1 DEF CountInv, TypeOK, CountActive, Moves, counters, CountersFollow
  <2>4. ErrorsFollow(s)
    BY <1>3, <2>1 DEF CountInv, TypeOK, ErrorsAhead, CountActive, Moves, counters, ErrorsFollow
  <2>5. /\ TrackerIsExact' /\ Accounting' /\ ErrorsAhead' /\ tracker'.live \in Nat
        /\ \A n \in Names : total'[n] \in Nat /\ active'[n] \in Nat
                              /\ errors'[n] \in Nat
    BY <2>2, <2>3, <2>4, MoveKeepsCounts DEF MovesTo
  <2>6. TypeOK'
    BY <1>3, <2>1, <2>3, <2>5
    DEF CountInv, TypeOK, CountActive, Moves, counters, Phases, CountersFollow
  <2>7. QED
    BY <2>5, <2>6 DEF CountInv
<1>4. CASE Resolve(s)
  <2>1. PICK to \in {"connecting", "failed"} :
            phase[s] = "resolving" /\ phase' = [phase EXCEPT ![s] = to]
    BY <1>4 DEF Resolve, Moves
  <2>2. MovesTo(s, to)
    BY <2>1, ExceptMoves DEF CountInv
  <2>3. CountersFollow(s)
    BY <1>4, <2>1 DEF CountInv, TypeOK, Resolve, Moves, counters, CountersFollow
  <2>4. ErrorsFollow(s)
    BY <1>4, <2>1 DEF CountInv, TypeOK, ErrorsAhead, Resolve, Moves, counters, ErrorsFollow
  <2>5. /\ TrackerIsExact' /\ Accounting' /\ ErrorsAhead' /\ tracker'.live \in Nat
        /\ \A n \in Names : total'[n] \in Nat /\ active'[n] \in Nat
                              /\ errors'[n] \in Nat
    BY <2>2, <2>3, <2>4, MoveKeepsCounts DEF MovesTo
  <2>6. TypeOK'
    BY <1>4, <2>1, <2>3, <2>5
    DEF CountInv, TypeOK, Resolve, Moves, counters, Phases, CountersFollow
  <2>7. QED
    BY <2>5, <2>6 DEF CountInv
<1>5. CASE ConnectTarget(s)
  <2>1. PICK to \in {"relaying", "failed"} :
            phase[s] = "connecting" /\ phase' = [phase EXCEPT ![s] = to]
    BY <1>5 DEF ConnectTarget, Moves
  <2>2. MovesTo(s, to)
    BY <2>1, ExceptMoves DEF CountInv
  <2>3. CountersFollow(s)
    BY <1>5, <2>1 DEF CountInv, TypeOK, ConnectTarget, Moves, counters, CountersFollow
  <2>4. ErrorsFollow(s)
    BY <1>5, <2>1
    DEF CountInv, TypeOK, ErrorsAhead, ConnectTarget, Moves, counters, ErrorsFollow
  <2>5. /\ TrackerIsExact' /\ Accounting' /\ ErrorsAhead' /\ tracker'.live \in Nat
        /\ \A n \in Names : total'[n] \in Nat /\ active'[n] \in Nat
                              /\ errors'[n] \in Nat
    BY <2>2, <2>3, <2>4, MoveKeepsCounts DEF MovesTo
  <2>6. TypeOK'
    BY <1>5, <2>1, <2>3, <2>5
    DEF CountInv, TypeOK, ConnectTarget, Moves, counters, Phases, CountersFollow
  <2>7. QED
    BY <2>5, <2>6 DEF CountInv
<1>6. CASE RelayEnds(s)
  <2>1. PICK to \in {"closing", "failed"} :
            phase[s] = "relaying" /\ phase' = [phase EXCEPT ![s] = to]
    BY <1>6 DEF RelayEnds, Moves
  <2>2. MovesTo(s, to)
    BY <2>1, ExceptMoves DEF CountInv
  <2>3. CountersFollow(s)
    BY <1>6, <2>1 DEF CountInv, TypeOK, RelayEnds, Moves, counters, CountersFollow
  <2>4. ErrorsFollow(s)
    BY <1>6, <2>1 DEF CountInv, TypeOK, ErrorsAhead, RelayEnds, Moves, counters, ErrorsFollow
  <2>5. /\ TrackerIsExact' /\ Accounting' /\ ErrorsAhead' /\ tracker'.live \in Nat
        /\ \A n \in Names : total'[n] \in Nat /\ active'[n] \in Nat
                              /\ errors'[n] \in Nat
    BY <2>2, <2>3, <2>4, MoveKeepsCounts DEF MovesTo
  <2>6. TypeOK'
    BY <1>6, <2>1, <2>3, <2>5
    DEF CountInv, TypeOK, RelayEnds, Moves, counters, Phases, CountersFollow
  <2>7. QED
    BY <2>5, <2>6 DEF CountInv
<1>7. CASE LogPanics(s)
  <2>1. phase[s] = "relaying" /\ phase' = [phase EXCEPT ![s] = "panicked"]
    BY <1>7 DEF LogPanics, Moves
  <2>2. MovesTo(s, "panicked")
    BY <2>1, ExceptMoves DEF CountInv
  <2>3. CountersFollow(s)
    BY <1>7, <2>1 DEF CountInv, TypeOK, LogPanics, Moves, counters, CountersFollow
  <2>4. ErrorsFollow(s)
    BY <1>7, <2>1 DEF CountInv, TypeOK, ErrorsAhead, LogPanics, Moves, counters, ErrorsFollow
  <2>5. /\ TrackerIsExact' /\ Accounting' /\ ErrorsAhead' /\ tracker'.live \in Nat
        /\ \A n \in Names : total'[n] \in Nat /\ active'[n] \in Nat
                              /\ errors'[n] \in Nat
    BY <2>2, <2>3, <2>4, MoveKeepsCounts DEF MovesTo
  <2>6. TypeOK'
    BY <1>7, <2>1, <2>3, <2>5
    DEF CountInv, TypeOK, LogPanics, Moves, counters, Phases, CountersFollow
  <2>7. QED
    BY <2>5, <2>6 DEF CountInv
<1>8. CASE CountError(s)
  <2>1. phase[s] = "failed" /\ phase' = [phase EXCEPT ![s] = "closing"]
    BY <1>8 DEF CountError, Moves
  <2>2. MovesTo(s, "closing")
    BY <2>1, ExceptMoves DEF CountInv
  <2>3. CountersFollow(s)
    BY <1>8, <2>1 DEF CountInv, TypeOK, CountError, Moves, counters, CountersFollow
  <2>4. ErrorsFollow(s)
    <3>1. /\ s \in failed /\ failed' = failed
          /\ phase[s] = "failed" /\ phase'[s] = "closing"
      BY <1>8, <2>1 DEF CountInv, TypeOK, ErrorsAhead, CountError, Moves
    <3>2. ~Erred[s] /\ Erred'[s]
      BY <3>1
    <3>3. \A n \in Names :
             errors'[n] = errors[n] + (IF Name(s) = n THEN 1 ELSE 0)
      BY <1>8 DEF CountInv, TypeOK, CountError
    <3>4. QED
      BY <3>1, <3>2, <3>3 DEF ErrorsFollow
  <2>5. /\ TrackerIsExact' /\ Accounting' /\ ErrorsAhead' /\ tracker'.live \in Nat
        /\ \A n \in Names : total'[n] \in Nat /\ active'[n] \in Nat
                              /\ errors'[n] \in Nat
    BY <2>2, <2>3, <2>4, MoveKeepsCounts DEF MovesTo
  <2>6. TypeOK'
    BY <1>8, <2>1, <2>3, <2>5
    DEF CountInv, TypeOK, CountError, Moves, counters, Phases, CountersFollow
  <2>7. QED
    BY <2>5, <2>6 DEF CountInv
<1>9. CASE CountClosed(s)
  <2>1. phase[s] = "closing" /\ phase' = [phase EXCEPT ![s] = "leaving"]
    BY <1>9 DEF CountClosed, Moves
  <2>2. MovesTo(s, "leaving")
    BY <2>1, ExceptMoves DEF CountInv
  <2>3. CountersFollow(s)
    BY <1>9, <2>1 DEF CountInv, TypeOK, CountClosed, Moves, counters, CountersFollow
  <2>4. ErrorsFollow(s)
    BY <1>9, <2>1 DEF CountInv, TypeOK, ErrorsAhead, CountClosed, Moves, counters, ErrorsFollow
  <2>5. /\ TrackerIsExact' /\ Accounting' /\ ErrorsAhead' /\ tracker'.live \in Nat
        /\ \A n \in Names : total'[n] \in Nat /\ active'[n] \in Nat
                              /\ errors'[n] \in Nat
    BY <2>2, <2>3, <2>4, MoveKeepsCounts DEF MovesTo
  <2>6. TypeOK'
    BY <1>9, <2>1, <2>3, <2>5
    DEF CountInv, TypeOK, CountClosed, Moves, counters, Phases, CountersFollow
  <2>7. QED
    BY <2>5, <2>6 DEF CountInv
<1>10. CASE TaskEnds(s)
  <2>1. phase[s] = "leaving" /\ phase' = [phase EXCEPT ![s] = "done"]
    BY <1>10 DEF TaskEnds, Moves
  <2>2. MovesTo(s, "done")
    BY <2>1, ExceptMoves DEF CountInv
  <2>3. CountersFollow(s)
    BY <1>10, <2>1 DEF CountInv, TypeOK, TaskEnds, Moves, counters, CountersFollow
  <2>4. ErrorsFollow(s)
    BY <1>10, <2>1 DEF CountInv, TypeOK, ErrorsAhead, TaskEnds, Moves, counters, ErrorsFollow
  <2>5. /\ TrackerIsExact' /\ Accounting' /\ ErrorsAhead' /\ tracker'.live \in Nat
        /\ \A n \in Names : total'[n] \in Nat /\ active'[n] \in Nat
                              /\ errors'[n] \in Nat
    BY <2>2, <2>3, <2>4, MoveKeepsCounts DEF MovesTo
  <2>6. TypeOK'
    BY <1>10, <2>1, <2>3, <2>5
    DEF CountInv, TypeOK, TaskEnds, Moves, counters, Phases, CountersFollow
  <2>7. QED
    BY <2>5, <2>6 DEF CountInv
<1>11. QED
  BY <1>1, <1>2, <1>3, <1>4, <1>5, <1>6, <1>7, <1>8, <1>9, <1>10
  DEF SessionRuns, SessionWaits

\* Every other step leaves the counters and what they count alone.
LEMMA OtherCounts ==
    ASSUME CountInv,
           \/ Signal \/ SignalTask \/ Main \/ UNCHANGED vars
           \/ \E p \in Pipelines : AcceptLoop(p)
           \/ \E s \in Sessions : ClientConnects(s)
    PROVE  CountInv'
<1>1. CASE Signal \/ SignalTask \/ Main \/ UNCHANGED vars
  <2>1. /\ UNCHANGED <<phase, failed, counters>> /\ tracker'.live = tracker.live
        /\ TypeOK'
    BY <1>1 DEF CountInv, TypeOK, Signal, SignalTask, InstallHandler, InstallFails,
                CancelToken, Main, JoinLoops, DrainClean, DrainTimeout, Exit, vars,
                counters, sessions
  <2>2. QED
    BY <2>1, SameCounts DEF CountInv
<1>2. ASSUME NEW p \in Pipelines, AcceptLoop(p)
      PROVE  CountInv'
  <2>1. /\ UNCHANGED <<counters, tracker, failed>>
        /\ \A s \in Sessions :
              phase'[s] = phase[s] \/ (phase[s] = "backlog" /\ phase'[s] = "reset")
    BY <1>2 DEF CountInv, TypeOK, AcceptLoop, Bind, AcceptFails, StopAccepting,
                DropListener, sessions
  <2>2. TypeOK'
    BY <1>2 DEF CountInv, TypeOK, AcceptLoop, Bind, AcceptFails, StopAccepting,
                DropListener, LoopStates, Phases, counters, sessions
  <2>3. TrackerIsExact' /\ Accounting' /\ ErrorsAhead'
    BY <2>1, SameCounts DEF Tracked, CountInv, TypeOK
  <2>4. QED
    BY <2>2, <2>3 DEF CountInv
<1>3. ASSUME NEW s \in Sessions, ClientConnects(s)
      PROVE  CountInv'
  <2>1. /\ UNCHANGED <<counters, tracker, failed>>
        /\ phase[s] = "idle"
        /\ phase' = [phase EXCEPT ![s] = "backlog"]
    BY <1>3 DEF ClientConnects
  <2>2. TypeOK'
    BY <1>3 DEF CountInv, TypeOK, ClientConnects, Phases, counters
  <2>3. TrackerIsExact' /\ Accounting' /\ ErrorsAhead'
    BY <2>1, SameCounts DEF Tracked, CountInv, TypeOK
  <2>4. QED
    BY <2>2, <2>3 DEF CountInv
<1>4. QED
  BY <1>1, <1>2, <1>3

\* Every step keeps the counts.
LEMMA NextCounts == CountInv /\ [Next]_vars => CountInv'
<1> SUFFICES ASSUME CountInv, [Next]_vars PROVE CountInv'
  OBVIOUS
<1>1. CASE \E s \in Sessions : Accept(s) \/ SessionRuns(s) \/ SessionWaits(s)
  BY <1>1, SessionCounts
<1>2. CASE \/ Signal \/ SignalTask \/ Main \/ UNCHANGED vars
           \/ \E p \in Pipelines : AcceptLoop(p)
           \/ \E s \in Sessions : ClientConnects(s)
  BY <1>2, OtherCounts
<1>3. QED
  BY <1>1, <1>2 DEF Next, Gone

\* CountInv, always.
LEMMA CountsHold == Spec => []CountInv
  BY InitCounts, NextCounts, PTL DEF Spec

\* The state of the process has its type: in particular no step takes the
\* unsigned connections_active, or the tracker's count, below zero.
THEOREM TypeCorrect == Spec => []TypeOK
  BY CountsHold, PTL DEF CountInv

\* The task tracker that main waits for counts exactly the session tasks
\* that have been spawned and have neither finished nor panicked.
THEOREM TrackerExact == Spec => []TrackerIsExact
  BY CountsHold, PTL DEF CountInv

\* Each counter is the number of sessions between its increment and its
\* decrement, however the updates of any number of tasks interleave, and
\* errors_total the number of those that handle_session failed for.
THEOREM AccountingHolds == Spec => []Accounting
  BY CountsHold, PTL DEF CountInv

\* Neither the open connections nor the errors outnumber the connections.
THEOREM CountersConsistentHolds == Spec => []CountersConsistent
<1>1. CountInv => CountersConsistent
  <2> SUFFICES ASSUME CountInv, NEW n \in Names
               PROVE  active[n] \in 0..total[n] /\ errors[n] \in 0..total[n]
    BY DEF CountersConsistent
  <2> DEFINE T == SessionsOf(n, PastTotal)
             A == SessionsOf(n, Open \union {"panicked"})
             F == SessionsOf(n, Finished) \intersect failed
  <2>1. A \subseteq T /\ F \subseteq T
    BY DEF SessionsOf, PastTotal, Open, Tracked, Finished
  <2>2. IsFiniteSet(T)
    <3>1. T \subseteq Sessions
      BY DEF SessionsOf
    <3>2. QED
      BY <3>1, FS_Subset, SessionsAssumption
  <2>3. Cardinality(A) <= Cardinality(T) /\ Cardinality(F) <= Cardinality(T)
    BY <2>1, <2>2, FS_Subset
  <2>4. Cardinality(F) \in Nat /\ Cardinality(T) \in Nat
    BY <2>1, <2>2, FS_Subset, FS_CardinalityType
  <2>5. /\ total[n] = Cardinality(T) /\ active[n] = Cardinality(A)
        /\ errors[n] = Cardinality(F)
        /\ active[n] \in Nat /\ errors[n] \in Nat
    BY DEF CountInv, TypeOK, Accounting
  <2>6. QED
    BY <2>3, <2>4, <2>5
<1>2. QED
  BY <1>1, CountsHold, PTL

----------------------------------------------------------------------------
(* How Proxy stops: what a clean verdict means, that nothing is spawned    *)
(* after the tracker is closed, and that Proxy implements DrainContract.   *)
(*                                                                         *)
(* The invariant DrainInv ties main's program counter to the accept loops: *)
(* the tracker is closed only when no loop can spawn any more, so that the *)
(* set of session tasks can only shrink from then on.                      *)

LoopsOver == tracker.closed => \A p \in Pipelines : loop[p] \in Returned
ClosedByMain ==
    /\ main \in {"draining", "exiting", "exited"} => tracker.closed
    /\ main = "joining" => ~tracker.closed
BacklogListens ==
    \A s \in Sessions : phase[s] = "backlog" => loop[PipelineOf[s]] = "listening"
VerdictByMain ==
    /\ main \in {"joining", "draining"} => verdict = "none"
    /\ main \in {"exiting", "exited"} => verdict # "none"
    /\ verdict # "none" => tracker.closed
CleanIsEmpty == verdict = "clean" => TrackedSessions = {}
DrainInv ==
    LoopsOver /\ ClosedByMain /\ BacklogListens /\ VerdictByMain /\ CleanIsEmpty

\* DrainInv holds in the first states.
LEMMA InitDrain == Init => DrainInv
  BY DEF Init, DrainInv, LoopsOver, ClosedByMain, BacklogListens, VerdictByMain,
         CleanIsEmpty

----------------------------------------------------------------------------
(* Session tasks: only Accept creates one, and it needs a listening loop.  *)

\* The step of a session that has been spawned changes its own phase only,
\* and never back to a phase before "spawned".
LEMMA SessionSteps ==
    ASSUME TypeOK, NEW s \in Sessions, SessionRuns(s) \/ SessionWaits(s)
    PROVE  /\ Alive
           /\ UNCHANGED <<sigtask, loop, main, verdict>>
           /\ tracker'.closed = tracker.closed
           /\ phase[s] \in Tracked
           /\ phase'[s] \in Tracked \union {"done", "panicked"}
           /\ \A t \in Sessions : t # s => phase'[t] = phase[t]
  BY DEF TypeOK, SessionRuns, SessionWaits, Moves, CountTotal, CountActive, Resolve,
         ConnectTarget, RelayEnds, LogPanics, CountError, CountClosed, TaskEnds,
         Tracked, counters

\* What an accept does.
LEMMA AcceptSteps ==
    ASSUME TypeOK, NEW s \in Sessions, Accept(s)
    PROVE  /\ Alive
           /\ UNCHANGED <<sigtask, loop, main, verdict>>
           /\ tracker'.closed = tracker.closed
           /\ loop[PipelineOf[s]] = "listening"
           /\ phase[s] = "backlog" /\ phase'[s] = "spawned"
           /\ \A t \in Sessions : t # s => phase'[t] = phase[t]
  BY DEF TypeOK, Accept, counters

\* What the end of a loop does.
LEMMA LoopSteps ==
    ASSUME TypeOK, NEW p \in Pipelines, AcceptLoop(p)
    PROVE  /\ Alive
           /\ UNCHANGED <<sigtask, counters, tracker, main, verdict>>
           /\ loop[p] \in {"spawned", "listening"}
           /\ \A q \in Pipelines : q # p => loop'[q] = loop[q]
           /\ loop'[p] \in {"listening"} \union Returned
           /\ loop[p] = "listening" => loop'[p] \in Returned
           /\ \A s \in Sessions :
                 \/ phase'[s] = phase[s]
                       /\ (loop[p] = "listening" /\ PipelineOf[s] = p
                             => phase[s] # "backlog")
                 \/ phase[s] = "backlog" /\ phase'[s] = "reset"
  BY DEF TypeOK, AcceptLoop, Bind, AcceptFails, StopAccepting, DropListener, Returned,
         sessions

\* What a client does that connects.
LEMMA ConnectSteps ==
    ASSUME TypeOK, NEW s \in Sessions, ClientConnects(s)
    PROVE  /\ Alive
           /\ UNCHANGED <<sigtask, loop, counters, tracker, main, verdict>>
           /\ loop[PipelineOf[s]] = "listening"
           /\ phase[s] = "idle" /\ phase'[s] = "backlog"
           /\ \A t \in Sessions : t # s => phase'[t] = phase[t]
  BY DEF TypeOK, ClientConnects

\* Behind a closed tracker no session is added.
LEMMA TrackedOnlyShrinks ==
    ASSUME CountInv, DrainInv, tracker.closed, [Next]_vars
    PROVE  TrackedSessions' \subseteq TrackedSessions
<1> USE DEF CountInv
<1>1. ASSUME NEW s \in Sessions, Accept(s)
      PROVE  FALSE
  <2>1. loop[PipelineOf[s]] = "listening" /\ PipelineOf[s] \in Pipelines
    BY <1>1, AcceptSteps, TopologyAssumption
  <2>2. QED
    BY <2>1 DEF DrainInv, LoopsOver, Returned
<1>2. ASSUME NEW s \in Sessions, SessionRuns(s) \/ SessionWaits(s)
      PROVE  TrackedSessions' \subseteq TrackedSessions
  BY <1>2, SessionSteps DEF TrackedSessions
<1>3. ASSUME NEW s \in Sessions, ClientConnects(s)
      PROVE  TrackedSessions' \subseteq TrackedSessions
  BY <1>3, ConnectSteps DEF TrackedSessions, Tracked
<1>4. ASSUME NEW p \in Pipelines, AcceptLoop(p)
      PROVE  TrackedSessions' \subseteq TrackedSessions
  <2>1. \A s \in Sessions : phase'[s] \in Tracked => phase[s] \in Tracked
    BY <1>4, LoopSteps DEF Tracked
  <2>2. QED
    BY <2>1 DEF TrackedSessions
<1>5. CASE Signal \/ SignalTask \/ Main \/ UNCHANGED vars
  BY <1>5
  DEF TrackedSessions, sessions, Signal, SignalTask, InstallHandler, InstallFails,
      CancelToken, Main, JoinLoops, DrainClean, DrainTimeout, Exit, vars
<1>6. QED
  BY <1>1, <1>2, <1>3, <1>4, <1>5 DEF Next, Gone

----------------------------------------------------------------------------
(* DrainInv is inductive relative to CountInv.                             *)

\* Every step keeps DrainInv.
LEMMA NextDrain == CountInv /\ DrainInv /\ [Next]_vars => DrainInv'
<1> SUFFICES ASSUME CountInv, DrainInv, [Next]_vars PROVE DrainInv'
  OBVIOUS
<1> USE DEF CountInv
<1>1. ASSUME NEW s \in Sessions, Accept(s)
      PROVE  DrainInv'
  <2>1. PipelineOf[s] \in Pipelines /\ ~tracker.closed
    BY <1>1, AcceptSteps, TopologyAssumption DEF DrainInv, LoopsOver, Returned
  <2>2. QED
    BY <1>1, <2>1, AcceptSteps
    DEF DrainInv, LoopsOver, ClosedByMain, BacklogListens, VerdictByMain, CleanIsEmpty, Alive
<1>2. ASSUME NEW s \in Sessions, SessionRuns(s) \/ SessionWaits(s)
      PROVE  DrainInv'
  <2>1. (LoopsOver /\ ClosedByMain /\ VerdictByMain)'
    BY <1>2, SessionSteps
    DEF DrainInv, LoopsOver, ClosedByMain, VerdictByMain, Alive
  <2>2. BacklogListens'
    BY <1>2, SessionSteps DEF DrainInv, BacklogListens, Tracked
  <2>3. CleanIsEmpty'
    BY <1>2, SessionSteps DEF DrainInv, CleanIsEmpty, TrackedSessions
  <2>4. QED
    BY <2>1, <2>2, <2>3 DEF DrainInv
<1>3. ASSUME NEW s \in Sessions, ClientConnects(s)
      PROVE  DrainInv'
  <2>1. (LoopsOver /\ ClosedByMain /\ VerdictByMain)'
    BY <1>3, ConnectSteps
    DEF DrainInv, LoopsOver, ClosedByMain, VerdictByMain, Alive
  <2>2. BacklogListens'
    BY <1>3, ConnectSteps DEF DrainInv, BacklogListens
  <2>3. CleanIsEmpty'
    BY <1>3, ConnectSteps DEF DrainInv, CleanIsEmpty, TrackedSessions, Tracked
  <2>4. QED
    BY <2>1, <2>2, <2>3 DEF DrainInv
<1>4. ASSUME NEW p \in Pipelines, AcceptLoop(p)
      PROVE  DrainInv'
  <2>1. ~tracker.closed /\ ~tracker'.closed
    BY <1>4, LoopSteps DEF DrainInv, LoopsOver, Returned
  <2>2. (LoopsOver /\ ClosedByMain /\ VerdictByMain)'
    BY <1>4, <2>1, LoopSteps
    DEF DrainInv, LoopsOver, ClosedByMain, VerdictByMain, Alive
  <2>3. BacklogListens'
    BY <1>4, LoopSteps, TopologyAssumption DEF DrainInv, BacklogListens
  <2>4. CleanIsEmpty'
    BY <1>4, <2>1, LoopSteps DEF DrainInv, CleanIsEmpty, VerdictByMain
  <2>5. QED
    BY <2>2, <2>3, <2>4 DEF DrainInv
<1>5. CASE DrainClean
  <2>1. TrackedSessions = {}
    <3>1. IsFiniteSet(TrackedSessions) /\ Cardinality(TrackedSessions) = 0
      <4>1. TrackedSessions \subseteq Sessions
        BY DEF TrackedSessions
      <4>2. QED
        BY <1>5, <4>1, FS_Subset, SessionsAssumption DEF DrainClean, TrackerIsExact
    <3>2. QED
      BY <3>1, FS_EmptySet
  <2>2. QED
    BY <1>5, <2>1
    DEF DrainClean, sessions, DrainInv, LoopsOver, ClosedByMain, BacklogListens, VerdictByMain,
        CleanIsEmpty, TrackedSessions
<1>6. CASE JoinLoops
  BY <1>6
  DEF JoinLoops, sessions, DrainInv, LoopsOver, ClosedByMain, BacklogListens, VerdictByMain,
      CleanIsEmpty, TrackedSessions, TypeOK
<1>7. CASE DrainTimeout \/ Exit
  BY <1>7
  DEF DrainTimeout, Exit, sessions, DrainInv, LoopsOver, ClosedByMain, BacklogListens,
      VerdictByMain, CleanIsEmpty, TrackedSessions
<1>8. CASE Signal \/ SignalTask \/ UNCHANGED vars
  BY <1>8
  DEF Signal, sessions, SignalTask, InstallHandler, InstallFails, CancelToken, vars,
      DrainInv, LoopsOver, ClosedByMain, BacklogListens, VerdictByMain, CleanIsEmpty,
      TrackedSessions, Alive
<1>9. QED
  BY <1>1, <1>2, <1>3, <1>4, <1>5, <1>6, <1>7, <1>8 DEF Next, Main, Gone

\* Both invariants, always.
LEMMA DrainHolds == Spec => [](CountInv /\ DrainInv)
<1>1. Init => CountInv /\ DrainInv
  BY InitCounts, InitDrain
<1>2. CountInv /\ DrainInv /\ [Next]_vars => CountInv' /\ DrainInv'
  BY NextCounts, NextDrain
<1>3. QED
  BY <1>1, <1>2, PTL DEF Spec

----------------------------------------------------------------------------
(* What follows for the properties of Proxy.                               *)

\* "All sessions drained cleanly" is true whenever main logs it.
THEOREM CleanMeansDrainedHolds == Spec => []CleanMeansDrained
<1>1. CountInv /\ DrainInv => CleanMeansDrained
  <2> SUFFICES ASSUME CountInv, DrainInv, verdict = "clean", NEW s \in Sessions
               PROVE  phase[s] \in {"idle", "reset", "done", "panicked"}
    BY DEF CleanMeansDrained
  <2>1. phase[s] \in Phases /\ phase[s] \notin Tracked
    BY DEF CountInv, TypeOK, DrainInv, CleanIsEmpty, TrackedSessions
  <2>2. phase[s] # "backlog"
    BY TopologyAssumption
    DEF DrainInv, VerdictByMain, LoopsOver, BacklogListens, Returned
  <2>3. QED
    BY <2>1, <2>2 DEF Phases
<1>2. QED
  BY <1>1, DrainHolds, PTL

\* Once main has closed the tracker, no session task is spawned any more.
THEOREM NoSessionAfterCloseHolds == Spec => NoSessionAfterClose
<1>1. CountInv /\ DrainInv /\ [Next]_vars
         => [tracker.closed => TrackedSessions' \subseteq TrackedSessions]_vars
  BY TrackedOnlyShrinks
<1>2. QED
  BY <1>1, DrainHolds, PTL DEF Spec, NoSessionAfterClose

----------------------------------------------------------------------------
(* Refinement: every step of Proxy is a step of DrainContract or a stutter. *)

\* A step that changes neither main nor the verdict, and no client's phase
\* except for client s's, is seen by the contract only through s.
LEMMA ContractSession ==
    ASSUME CountInv, NEW s \in Sessions, Alive, UNCHANGED <<main, verdict>>,
           \A t \in Sessions : t # s => phase'[t] = phase[t],
           phase[s] \in Tracked, phase'[s] \in Tracked \union {"done", "panicked"}
    PROVE  Contract!End(s) \/ UNCHANGED Contract!vars
<1>1. UNCHANGED <<Door, Verdict, Lost, Admitted>>
  BY DEF Door, Verdict, Lost, Admitted, Alive
<1>2. s \in Admitted \ Ended /\ Door # "over"
  BY DEF Admitted, Ended, Tracked, Door
<1>3. CASE phase'[s] \in Tracked
  <2>1. Ended' = Ended
    BY <1>3 DEF Ended, Tracked
  <2>2. QED
    BY <1>1, <2>1 DEF Contract!vars
<1>4. CASE phase'[s] \in {"done", "panicked"}
  <2>1. Ended' = Ended \union {s}
    BY <1>4 DEF Ended
  <2>2. QED
    BY <1>1, <1>2, <2>1 DEF Contract!End
<1>5. QED
  BY <1>3, <1>4

\* The steps that admit a session, as steps of the contract.
LEMMA ContractAccept ==
    ASSUME CountInv, DrainInv, NEW s \in Sessions, Accept(s)
    PROVE  Contract!Admit(s)
<1>1. PipelineOf[s] \in Pipelines /\ loop[PipelineOf[s]] = "listening"
  BY AcceptSteps, TopologyAssumption DEF CountInv
<1>2. main = "joining"
  BY <1>1, AcceptSteps
  DEF CountInv, TypeOK, DrainInv, LoopsOver, ClosedByMain, Returned, Alive
<1>3. Door = "open" /\ UNCHANGED <<Door, Verdict, Lost>>
  BY <1>2, AcceptSteps DEF CountInv, Door, Verdict, Lost, Alive
<1>4. s \notin Admitted /\ Admitted' = Admitted \union {s} /\ Ended' = Ended
  BY AcceptSteps DEF CountInv, Admitted, Ended, Tracked
<1>5. QED
  BY <1>3, <1>4 DEF Contract!Admit

\* Clients and accept loops do not touch what the contract sees.
LEMMA ContractOutside ==
    ASSUME CountInv, UNCHANGED <<main, verdict>>,
           \A t \in Sessions : phase'[t] # phase[t] =>
              {phase[t], phase'[t]} \subseteq {"idle", "backlog", "reset"}
    PROVE  UNCHANGED Contract!vars
<1>1. /\ Admitted' = Admitted /\ Ended' = Ended
      /\ TrackedSessions' = TrackedSessions
  BY DEF Admitted, Ended, TrackedSessions, Tracked
<1>2. QED
  BY <1>1 DEF Contract!vars, Door, Verdict, Lost, Alive

\* The steps of main, as steps of the contract.
LEMMA ContractMain ==
    ASSUME CountInv, DrainInv, Main \/ Signal \/ SignalTask \/ UNCHANGED vars
    PROVE  \/ Contract!ShutDoor \/ Contract!Judge \/ Contract!Finish
           \/ Contract!Kill \/ UNCHANGED Contract!vars
<1> USE DEF CountInv
<1>1. /\ phase' = phase /\ Admitted' = Admitted /\ Ended' = Ended
      /\ TrackedSessions' = TrackedSessions
  BY DEF Main, JoinLoops, DrainClean, DrainTimeout, Exit, Signal, SignalTask,
         InstallHandler, InstallFails, CancelToken, vars, sessions, Admitted, Ended,
         TrackedSessions
<1>2. Admitted \ Ended = TrackedSessions
  BY DEF Admitted, Ended, TrackedSessions, Tracked
<1>3. CASE JoinLoops
  BY <1>1, <1>3
  DEF JoinLoops, Contract!ShutDoor, Door, Verdict, Lost, Alive
<1>4. CASE DrainClean
  <2>1. TrackedSessions = {}
    BY <1>1, <1>4, NextDrain DEF DrainInv, CleanIsEmpty, DrainClean, Next, Main
  <2>2. Admitted = Ended
    BY <1>2, <2>1 DEF Admitted, Ended
  <2>3. QED
    BY <1>1, <1>4, <2>2
    DEF DrainClean, Contract!Judge, Door, Verdict, Lost, Alive, DrainInv, VerdictByMain
<1>5. CASE DrainTimeout
  BY <1>1, <1>5
  DEF DrainTimeout, Contract!Judge, Door, Verdict, Lost, Alive, DrainInv, VerdictByMain
<1>6. CASE Exit
  BY <1>1, <1>2, <1>6
  DEF Exit, Contract!Finish, Door, Verdict, Lost, Alive, DrainInv, VerdictByMain
<1>7. CASE Signal
  BY <1>1, <1>2, <1>7
  DEF Signal, Contract!Kill, Contract!vars, Door, Verdict, Lost, Alive
<1>8. CASE SignalTask \/ UNCHANGED vars
  BY <1>1, <1>8
  DEF SignalTask, InstallHandler, InstallFails, CancelToken, vars, Contract!vars,
      Door, Verdict, Lost, Alive
<1>9. QED
  BY <1>3, <1>4, <1>5, <1>6, <1>7, <1>8 DEF Main

\* Proxy implements the drain contract: no session is admitted once main
\* drains, a clean verdict loses nobody, and only sessions that had not
\* finished are lost otherwise.
THEOREM HonoursContractHolds == Spec => HonoursContract
<1>1. Init => Contract!Init
  BY DEF Init, Contract!Init, Door, Verdict, Lost, Admitted, Ended, Alive, Tracked
<1>2. CountInv /\ DrainInv /\ [Next]_vars => [Contract!Next]_Contract!vars
  <2> SUFFICES ASSUME CountInv, DrainInv, [Next]_vars
               PROVE  Contract!Next \/ UNCHANGED Contract!vars
    OBVIOUS
  <2>1. ASSUME NEW s \in Sessions, Accept(s)
        PROVE  Contract!Next
    BY <2>1, ContractAccept DEF Contract!Next
  <2>2. ASSUME NEW s \in Sessions, SessionRuns(s) \/ SessionWaits(s)
        PROVE  Contract!Next \/ UNCHANGED Contract!vars
    <3>1. Contract!End(s) \/ UNCHANGED Contract!vars
      BY <2>2, SessionSteps, ContractSession DEF CountInv
    <3>2. QED
      BY <3>1 DEF Contract!Next
  <2>3. ASSUME NEW s \in Sessions, ClientConnects(s)
        PROVE  UNCHANGED Contract!vars
    BY <2>3, ConnectSteps, ContractOutside DEF CountInv
  <2>4. ASSUME NEW p \in Pipelines, AcceptLoop(p)
        PROVE  UNCHANGED Contract!vars
    BY <2>4, LoopSteps, ContractOutside DEF CountInv
  <2>5. CASE Main \/ Signal \/ SignalTask \/ UNCHANGED vars
    BY <2>5, ContractMain DEF Contract!Next
  <2>6. QED
    BY <2>1, <2>2, <2>3, <2>4, <2>5 DEF Next, Gone
<1>3. QED
  BY <1>1, <1>2, DrainHolds, PTL DEF Spec, HonoursContract, Contract!Spec
=============================================================================
