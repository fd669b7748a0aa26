---------------------------- MODULE ControlProofs ----------------------------
(***************************************************************************)
(* Proofs about Control, for any number of processes, pipelines, sessions  *)
(* and clients: the type of the state, that a control task ends only by an *)
(* error, that an answer has a row for every pipeline, and that none is    *)
(* older than its request.                                                 *)
(*                                                                         *)
(* A counter is what its sessions have done, always (CountInv).  Sessions  *)
(* only go on while a reader waits (SinceInv), so what it loaded stays     *)
(* within the bounds of its answer whatever they do until it is written    *)
(* (LoadInv).                                                              *)
(***************************************************************************)
EXTENDS Control, Lemmas

----------------------------------------------------------------------------
(* The inductive invariant.                                                *)

\* What TypeOK leaves open of the functions that readers fill.
LoadedType ==
    /\ loaded = [r \in Readers |-> loaded[r]]
    /\ \A r \in Readers : loaded[r] = [x \in DOMAIN loaded[r] |-> loaded[r][x]]

\* One process runs at a time.  Its control task runs after its pipelines are
\* registered, finds no socket to bind to, and ends by an error.
ProcessInv ==
    /\ \A p, q \in Alive : p = q
    /\ \A p \in Processes : process[p] = "running" => registered[p] = Names
    /\ \A p \in Processes : control[p] # "off" => process[p] = "running"
    /\ \A p \in Processes : control[p] = "bind" => path = None
    /\ \A p \in Processes : control[p] = "ended" => faults > 0

Busy(r) == task[r] \notin {"idle", "done"}

\* A reader that is not done has a running server, and keeps nothing of what
\* it read for an earlier request.
TaskAt(r) ==
    /\ Busy(r) => ServerOf(r) \in Processes /\ process[ServerOf(r)] = "running"
    /\ ~Busy(r) => since[r] = Fresh
    /\ r \in Clients /\ said[r] # "stats" => since[r] = Fresh
    /\ task[r] \notin {"load", "answer"} => loaded[r] = NoneLoaded
    /\ Answered(r) => DOMAIN loaded[r] = Counters

TaskInv == \A r \in Readers : TaskAt(r)

\* What field f counts of a set of sessions.
Tally(set, where, f) ==
    CASE f = "connections_total"  -> Reached(set, where, Counted)
      [] f = "connections_active" -> Reached(set, where, Opened \ Off)
      [] f = "errors_total"       -> Reached(set, where, Failed)
      [] f = "bytes_in"           -> Chunks(set, where, "in")
      [] f = "bytes_out"          -> Chunks(set, where, "out")

SessionsAt(p, n) == {s \in Sessions : Home[s] = p /\ NameOf[s] = n}

CountInv == \A p \in Processes : process[p] # "gone" =>
    \A n \in Names, f \in ToSet(Fields) :
        count[p][<<n, f>>] = Tally(SessionsAt(p, n), Now, f)

\* The stages that a session may be in when it was at stage a.
Onwards(a) ==
    CASE a = "new"     -> Stages
      [] a = "counted" -> Counted
      [] a = "open"    -> Opened
      [] a = "failed"  -> Failed
      [] a = "closed"  -> {"closed"}
      [] a = "aborted" -> {"aborted"}

Precedes(old, new, set) == \A s \in set :
    /\ new.stage[s] \in Onwards(old.stage[s])
    /\ \A d \in Directions : old.moved[s][d] =< new.moved[s][d]

SessionsOf(r) == {s \in Sessions : Home[s] = ServerOf(r)}

SinceAt(r) == Precedes(since[r], Now, SessionsOf(r))

SinceInv == \A r \in Readers : SinceAt(r)

\* The bounds of a counter in an answer to a request that was sent at "old".
Low(set, old, new, f) ==
    IF f = "connections_active"
    THEN Cardinality({s \in set : old.stage[s] \in Opened \ Off /\ new.stage[s] \in Opened \ Off})
    ELSE Tally(set, old, f)

High(set, old, new, f) ==
    IF f = "connections_active"
    THEN Cardinality({s \in set : old.stage[s] \notin Off /\ new.stage[s] \in Opened})
    ELSE Tally(set, new, f)

LoadAt(r) == \A n \in Names, f \in ToSet(Fields) :
    <<n, f>> \in DOMAIN loaded[r] =>
        loaded[r][<<n, f>>] \in Low(Of(r, n), since[r], Now, f) .. High(Of(r, n), since[r], Now, f)

LoadInv == \A r \in Readers : LoadAt(r)

ControlInv ==
    TypeOK /\ LoadedType /\ ProcessInv /\ TaskInv /\ CountInv /\ SinceInv /\ LoadInv
----------------------------------------------------------------------------
(* Fields and stages.                                                      *)

\* The fields of a row, one by one.
LEMMA FieldsAre ==
    /\ ToSet(Fields) = {"bytes_in", "bytes_out", "connections_total", "connections_active",
                        "errors_total"}
    /\ Len(Fields) = 5
    /\ \A i \in 1 .. 5 : Fields[i] \in ToSet(Fields)
BY DEF Fields, ToSet

\* A client reads from the process that its connection leads to.
LEMMA ServerOfClient ==
    ASSUME NEW c \in Clients
    PROVE  c \in Readers /\ ServerOf(c) = peer[c]
BY DEF Readers, ServerOf

\* A ticker reads from its own process.
LEMMA ServerOfTicker ==
    ASSUME NEW p \in Reporting
    PROVE  p \in Readers /\ p \in Processes /\ p \notin Clients /\ ServerOf(p) = p
BY ControlAssumption DEF Readers, ServerOf

----------------------------------------------------------------------------
(* Type correctness.                                                       *)

LEMMA ProgressOf ==
    ASSUME NEW a, NEW b
    PROVE  [stage |-> a, moved |-> b] \in Progress <=>
              a \in [Sessions -> Stages] /\ b \in [Sessions -> [Directions -> Nat]]
BY DEF Progress

LEMMA FreshIsProgress == Fresh \in Progress
BY DEF Fresh, Progress, Stages

\* The first states have their types.
LEMMA InitType == Init => TypeOK /\ LoadedType
<1> SUFFICES ASSUME Init PROVE TypeOK /\ LoadedType
    OBVIOUS
<1>1. Now \in Progress
    BY FreshIsProgress DEF Init, Now, Fresh, Progress
<1>2. TypeOK
    BY <1>1, FreshIsProgress, ControlAssumption DEF Init, TypeOK, NoneLoaded, Readers
<1>3. LoadedType
    BY DEF Init, LoadedType, NoneLoaded
<1> QED
    BY <1>2, <1>3

LEMMA ProcessType ==
    ASSUME TypeOK, LoadedType, NEW p \in Processes,
           \/ Start(p) \/ StartTasks(p) \/ \E n \in Names : Register(p, n)
           \/ Unlink(p) \/ Bind(p) \/ SetPermissions(p)
           \/ \E c \in Clients : Accept(p, c)
    PROVE  TypeOK' /\ LoadedType'
<1> USE DEF TypeOK, LoadedType, registry, sessions, clients, snapshots, Now
<1>1. CASE Start(p)
    BY <1>1 DEF Start
<1>2. CASE StartTasks(p)
    BY <1>2 DEF StartTasks
<1>3. CASE \E n \in Names : Register(p, n)
    BY <1>3 DEF Register
<1>4. CASE Unlink(p)
    BY <1>4 DEF Unlink, Removed
<1>5. CASE Bind(p)
    BY <1>5 DEF Bind
<1>6. CASE SetPermissions(p)
    BY <1>6 DEF SetPermissions
<1>7. ASSUME NEW c \in Clients, Accept(p, c)
      PROVE  TypeOK' /\ LoadedType'
    <2>1. task' \in [Readers -> {"idle", "queued", "read", "lock", "load", "answer", "done"}]
        BY <1>7 DEF Accept, Readers
    <2> QED
        BY <1>7, <2>1 DEF Accept
<1> QED
    BY <1>1, <1>2, <1>3, <1>4, <1>5, <1>6, <1>7

LEMMA DisconnectType ==
    ASSUME TypeOK, NEW gone, Disconnect(gone)
    PROVE  reply' \in [Clients -> {None, "stats", "error", "closed"}]
BY DEF TypeOK, Disconnect

LEMMA StopType ==
    ASSUME TypeOK, LoadedType, NEW p \in Processes, Stop(p)
    PROVE  TypeOK' /\ LoadedType'
<1> DEFINE over == Orphaned(p) \union ({p} \intersect Reporting)
<1>1. /\ task' = [r \in Readers |-> IF r \in over THEN "done" ELSE task[r]]
      /\ loaded' = [r \in Readers |-> IF r \in over THEN NoneLoaded ELSE loaded[r]]
      /\ since' = [r \in Readers |-> IF r \in over THEN Fresh ELSE since[r]]
    BY DEF Stop
<1> HIDE DEF over
<1>2. /\ task' \in [Readers -> {"idle", "queued", "read", "lock", "load", "answer", "done"}]
      /\ since' \in [Readers -> Progress]
    BY <1>1, FreshIsProgress DEF TypeOK
<1>3. Now' \in Progress
    <2>1. /\ stage' = [s \in Sessions |-> IF Home[s] = p THEN "closed" ELSE stage[s]]
          /\ moved' = [s \in Sessions |-> IF Home[s] = p THEN Fresh.moved[s] ELSE moved[s]]
        BY DEF Stop
    <2>2. stage \in [Sessions -> Stages] /\ moved \in [Sessions -> [Directions -> Nat]]
        BY ProgressOf DEF TypeOK, Now
    <2>3. Fresh.moved \in [Sessions -> [Directions -> Nat]]
        BY DEF Fresh
    <2>4. /\ stage' \in [Sessions -> Stages]
          /\ moved' \in [Sessions -> [Directions -> Nat]]
        BY <2>1, <2>2, <2>3 DEF Stages
    <2> QED
        BY <2>4, ProgressOf DEF Now
<1>4. \A r \in Readers :
         /\ DOMAIN loaded'[r] \subseteq Counters /\ \A x \in DOMAIN loaded'[r] : loaded'[r][x] \in Nat
         /\ loaded'[r] = [x \in DOMAIN loaded'[r] |-> loaded'[r][x]]
    BY <1>1 DEF TypeOK, LoadedType, NoneLoaded
<1>5. LoadedType'
    BY <1>1, <1>4 DEF LoadedType
<1>6. reply' \in [Clients -> {None, "stats", "error", "closed"}]
    BY DisconnectType DEF Stop
<1>7. /\ process' \in [Processes -> {"down", "starting", "running", "gone"}]
      /\ count' \in [Processes -> [Counters -> Nat]]
      /\ lock' \in [Processes -> Readers \union {None}]
      /\ control' \in [Processes -> {"off", "unlink", "bind", "chmod", "accept", "ended"}]
    BY DEF Stop, TypeOK
<1>8. TypeOK'
    BY <1>2, <1>3, <1>4, <1>6, <1>7 DEF Stop, TypeOK
<1> QED
    BY <1>5, <1>8

LEMMA ServeFailsType ==
    ASSUME TypeOK, LoadedType, NEW p \in Processes, ServeFails(p)
    PROVE  TypeOK' /\ LoadedType'
<1> DEFINE queued == {c \in Clients : peer[c] = p /\ task[c] = "queued"}
<1>1. /\ task' = [r \in Readers |-> IF r \in queued THEN "done" ELSE task[r]]
      /\ since' = [r \in Readers |-> IF r \in queued THEN Fresh ELSE since[r]]
      /\ control' = [control EXCEPT ![p] = "ended"]
      /\ Disconnect(queued)
      /\ UNCHANGED <<process, registered, count, lock, path, stage, moved, peer, said, here, loaded>>
    BY DEF ServeFails, Drop, NotAccepted, registry, sessions
<1> HIDE DEF queued
<1>2. /\ task' \in [Readers -> {"idle", "queued", "read", "lock", "load", "answer", "done"}]
      /\ since' \in [Readers -> Progress]
      /\ control' \in [Processes -> {"off", "unlink", "bind", "chmod", "accept", "ended"}]
    BY <1>1, FreshIsProgress DEF TypeOK
<1>3. reply' \in [Clients -> {None, "stats", "error", "closed"}]
    BY <1>1, DisconnectType
<1>4. faults' \in 0 .. MaxFaults
    BY ControlAssumption DEF ServeFails, TypeOK
<1> QED
    BY <1>1, <1>2, <1>3, <1>4 DEF TypeOK, LoadedType, Now

\* The parts of TypeOK and LoadedType that are about snapshots.
SnapshotType ==
    /\ \A r \in Readers :
          DOMAIN loaded[r] \subseteq Counters /\ \A x \in DOMAIN loaded[r] : loaded[r][x] \in Nat
    /\ since \in [Readers -> Progress]
    /\ LoadedType

LEMMA ClearType ==
    ASSUME SnapshotType, NEW r \in Readers, Clear(r)
    PROVE  SnapshotType'
<1>1. /\ loaded' = [loaded EXCEPT ![r] = NoneLoaded]
      /\ since' \in [Readers -> Progress]
    BY FreshIsProgress DEF Clear, SnapshotType
<1>2. loaded' = [q \in Readers |-> IF q = r THEN NoneLoaded ELSE loaded[q]]
    BY <1>1 DEF SnapshotType, LoadedType
<1>3. /\ DOMAIN NoneLoaded = {}
      /\ NoneLoaded = [x \in DOMAIN NoneLoaded |-> NoneLoaded[x]]
    BY DEF NoneLoaded
<1>4. \A q \in Readers :
         /\ DOMAIN loaded'[q] \subseteq Counters /\ \A x \in DOMAIN loaded'[q] : loaded'[q][x] \in Nat
         /\ loaded'[q] = [x \in DOMAIN loaded'[q] |-> loaded'[q][x]]
    BY <1>2, <1>3 DEF SnapshotType, LoadedType
<1>5. LoadedType'
    BY <1>2, <1>4 DEF LoadedType
<1> QED
    BY <1>1, <1>4, <1>5 DEF SnapshotType

LEMMA ClientType ==
    ASSUME TypeOK, LoadedType, NEW c \in Clients,
           \/ Connect(c) \/ Leave(c) \/ Close(c) \/ ReadLine(c) \/ Answer(c)
           \/ \E line \in Requests[c] : Say(c, line)
    PROVE  TypeOK' /\ LoadedType'
<1> USE DEF TypeOK, LoadedType, registry, sessions, clients, snapshots, Now
<1> c \in Readers
    BY DEF Readers
<1>1. CASE Connect(c)
    BY <1>1 DEF Connect
<1>2. CASE Leave(c)
    BY <1>2 DEF Leave
<1>3. CASE Close(c)
    BY <1>3 DEF Close
<1>4. CASE ReadLine(c)
    <2>1. task' \in [Readers -> {"idle", "queued", "read", "lock", "load", "answer", "done"}]
        BY <1>4 DEF ReadLine
    <2>2. reply' \in [Clients -> {None, "stats", "error", "closed"}]
        BY <1>4, DisconnectType DEF ReadLine
    <2> QED
        BY <1>4, <2>1, <2>2 DEF ReadLine
<1>5. CASE Answer(c)
    <2>1. /\ task' \in [Readers -> {"idle", "queued", "read", "lock", "load", "answer", "done"}]
          /\ reply' \in [Clients -> {None, "stats", "error", "closed"}]
        BY <1>5 DEF Answer
    <2>2. Clear(c)
        BY <1>5 DEF Answer
    <2> QED
        BY <1>5, <2>1, <2>2, ClearType DEF Answer, SnapshotType
<1>6. ASSUME NEW line \in Requests[c], Say(c, line)
      PROVE  TypeOK' /\ LoadedType'
    <2>1. line \in {"stats", "other", "garbage"}
        BY <1>6, ControlAssumption
    <2>2. said' \in [Clients -> {"nothing", "stats", "other", "garbage"}]
        BY <1>6, <2>1 DEF Say
    <2>3. since' \in [Readers -> Progress]
        BY <1>6 DEF Say
    <2> QED
        BY <1>6, <2>2, <2>3 DEF Say
<1> QED
    BY <1>1, <1>2, <1>3, <1>4, <1>5, <1>6

LEMMA ReaderType ==
    ASSUME TypeOK, LoadedType, NEW r \in Readers,
           \/ Lock(r) \/ Unlock(r)
           \/ r \in Reporting /\ (Tick(r) \/ Report(r))
    PROVE  TypeOK' /\ LoadedType'
<1> USE DEF TypeOK, LoadedType, registry, sessions, clients, snapshots, Now
<1>1. CASE Lock(r)
    BY <1>1 DEF Lock
<1>2. CASE Unlock(r)
    BY <1>2 DEF Unlock
<1>3. CASE r \in Reporting /\ Tick(r)
    BY <1>3 DEF Tick
<1>4. CASE r \in Reporting /\ Report(r)
    <2>1. SnapshotType'
        BY <1>4, ClearType DEF Report, SnapshotType
    <2> QED
        BY <1>4, <2>1 DEF Report, SnapshotType
<1> QED
    BY <1>1, <1>2, <1>3, <1>4

\* What a load does.
LEMMA LoadEffect ==
    ASSUME TypeOK, LoadedType, NEW r \in Readers, NEW n \in Names, Load(r, n)
    PROVE  \E f \in ToSet(Fields) :
              /\ task[r] = "load"
              /\ <<n, f>> \in Counters
              /\ loaded' = [loaded EXCEPT ![r] =
                   [y \in DOMAIN @ \union {<<n, f>>} |->
                       IF y = <<n, f>> THEN count[ServerOf(r)][<<n, f>>] ELSE @[y]]]
              /\ \A q \in Readers : q # r => loaded'[q] = loaded[q]
              /\ DOMAIN loaded'[r] = DOMAIN loaded[r] \union {<<n, f>>}
              /\ loaded'[r][<<n, f>>] = count[ServerOf(r)][<<n, f>>]
              /\ \A y \in DOMAIN loaded[r] : y # <<n, f>> => loaded'[r][y] = loaded[r][y]
              /\ LoadedType'
<1> DEFINE row == {x \in DOMAIN loaded[r] : x[1] = n}
           f == Fields[Cardinality(row) + 1]
<1>1. IsFiniteSet(row)
    <2>1. row \subseteq {n} \X ToSet(Fields)
        BY DEF TypeOK, Counters
    <2>2. IsFiniteSet(ToSet(Fields))
        <3>1. ToSet(Fields) = {"bytes_in"} \union {"bytes_out"} \union {"connections_total"}
                                \union {"connections_active"} \union {"errors_total"}
            BY FieldsAre
        <3>2. IsFiniteSet({"bytes_in"} \union {"bytes_out"})
            BY FS_Singleton, FS_AddElement
        <3>3. IsFiniteSet({"bytes_in"} \union {"bytes_out"} \union {"connections_total"})
            BY <3>2, FS_AddElement
        <3>4. IsFiniteSet({"bytes_in"} \union {"bytes_out"} \union {"connections_total"}
                            \union {"connections_active"})
            BY <3>3, FS_AddElement
        <3> QED
            BY <3>1, <3>4, FS_AddElement
    <2>3. IsFiniteSet({n} \X ToSet(Fields))
        BY <2>2, FS_Singleton, FS_Product
    <2> QED
        BY <2>1, <2>3, FS_Subset
<1>2. f \in ToSet(Fields)
    <2>1. Cardinality(row) \in Nat
        BY <1>1, FS_CardinalityType
    <2>2. Cardinality(row) < Len(Fields)
        BY DEF Load
    <2>3. Cardinality(row) + 1 \in 1 .. 5
        BY <2>1, <2>2, FieldsAre
    <2> HIDE DEF row
    <2> QED
        BY <2>3, FieldsAre
<1>3. /\ task[r] = "load"
      /\ loaded' = [loaded EXCEPT ![r] =
              [y \in DOMAIN @ \union {<<n, f>>} |->
                  IF y = <<n, f>> THEN count[ServerOf(r)][<<n, f>>] ELSE @[y]]]
    BY DEF Load
<1> HIDE DEF f
<1>4. /\ \A q \in Readers : q # r => loaded'[q] = loaded[q]
      /\ loaded'[r] = [y \in DOMAIN loaded[r] \union {<<n, f>>} |->
                  IF y = <<n, f>> THEN count[ServerOf(r)][<<n, f>>] ELSE loaded[r][y]]
      /\ loaded' = [q \in Readers |-> loaded'[q]]
    BY <1>3 DEF LoadedType
<1>5. LoadedType'
    BY <1>4 DEF LoadedType
<1>6. <<n, f>> \in Counters
    BY <1>2 DEF Counters
<1> QED
    BY <1>2, <1>3, <1>4, <1>5, <1>6

----------------------------------------------------------------------------
(* What a set of sessions has counted.                                     *)

\* The chunks of a set of sessions, each with its number.
Numbered(set, where, d) == UNION {{s} \X (1 .. where.moved[s][d]) : s \in set}

\* The chunks of a set of sessions, numbered per session.
LEMMA NumberedMembers ==
    ASSUME NEW set, NEW where, NEW d, NEW s, NEW i
    PROVE  <<s, i>> \in Numbered(set, where, d) <=> s \in set /\ i \in 1 .. where.moved[s][d]
BY DEF Numbered

LEMMA NumberedArePairs ==
    ASSUME NEW set, NEW where, NEW d, NEW x \in Numbered(set, where, d)
    PROVE  \E s, i : s \in set /\ i \in 1 .. where.moved[s][d] /\ x = <<s, i>>
BY DEF Numbered

\* They are finite.
LEMMA NumberedFinite ==
    ASSUME NEW set, set \subseteq Sessions, NEW where \in Progress, NEW d \in Directions
    PROVE  IsFiniteSet(Numbered(set, where, d))
<1> DEFINE of == [s \in set |-> {s} \X (1 .. where.moved[s][d])]
<1>1. IsFiniteSet(set)
    BY FS_Subset, ControlAssumption
<1>2. IsFiniteSet({of[s] : s \in set})
    <2> HIDE DEF of
    <2> QED
        BY <1>1, FiniteImage
<1>3. \A s \in set : IsFiniteSet(of[s])
    <2> SUFFICES ASSUME NEW s \in set PROVE IsFiniteSet({s} \X (1 .. where.moved[s][d]))
        OBVIOUS
    <2>1. where.moved[s][d] \in Int
        BY DEF Progress
    <2>2. IsFiniteSet(1 .. where.moved[s][d])
        BY <2>1, FS_Interval
    <2>3. IsFiniteSet({s})
        BY FS_Singleton
    <2> QED
        BY <2>2, <2>3, FS_Product
<1>4. Numbered(set, where, d) = UNION {of[s] : s \in set}
    BY DEF Numbered
<1> HIDE DEF of
<1>5. \A T \in {of[s] : s \in set} : IsFiniteSet(T)
    BY <1>3
<1> QED
    BY <1>2, <1>4, <1>5, FS_UNION

\* Chunks is how many of those there are.
LEMMA ChunksType ==
    ASSUME NEW set, set \subseteq Sessions, NEW where \in Progress, NEW d \in Directions
    PROVE  /\ Chunks(set, where, d) = Cardinality(Numbered(set, where, d))
           /\ Chunks(set, where, d) \in Nat
<1>1. Chunks(set, where, d) = Cardinality(Numbered(set, where, d))
    BY DEF Chunks, Numbered
<1> QED
    BY <1>1, NumberedFinite, FS_CardinalityType

\* More chunks of every session are more chunks.
LEMMA ChunksGrow ==
    ASSUME NEW set, set \subseteq Sessions, NEW old \in Progress, NEW new \in Progress,
           NEW d \in Directions, \A s \in set : old.moved[s][d] =< new.moved[s][d]
    PROVE  Chunks(set, old, d) =< Chunks(set, new, d)
<1>1. Numbered(set, old, d) \subseteq Numbered(set, new, d)
    <2> SUFFICES ASSUME NEW x \in Numbered(set, old, d) PROVE x \in Numbered(set, new, d)
        OBVIOUS
    <2>1. PICK s, i : s \in set /\ i \in 1 .. old.moved[s][d] /\ x = <<s, i>>
        BY NumberedArePairs
    <2>2. old.moved[s][d] \in Nat /\ new.moved[s][d] \in Nat
        BY <2>1 DEF Progress
    <2>3. i \in 1 .. new.moved[s][d]
        BY <2>1, <2>2
    <2> QED
        BY <2>1, <2>3, NumberedMembers
<1> QED
    BY <1>1, ChunksType, NumberedFinite, FS_Subset

\* One chunk of one session is one chunk more.
LEMMA ChunksAdd ==
    ASSUME NEW set, set \subseteq Sessions, NEW old \in Progress, NEW new \in Progress,
           NEW d \in Directions, NEW t \in set,
           \A s \in set : new.moved[s][d] = IF s = t THEN old.moved[s][d] + 1 ELSE old.moved[s][d]
    PROVE  Chunks(set, new, d) = Chunks(set, old, d) + 1
<1> DEFINE last == <<t, new.moved[t][d]>>
<1>1. \A s \in set : old.moved[s][d] \in Nat /\ new.moved[s][d] \in Nat
    BY DEF Progress
<1>2. new.moved[t][d] = old.moved[t][d] + 1
    OBVIOUS
<1>3. last \notin Numbered(set, old, d)
    BY <1>1, <1>2, NumberedMembers
<1>4. Numbered(set, new, d) = Numbered(set, old, d) \union {last}
    <2>1. ASSUME NEW x \in Numbered(set, new, d)
          PROVE  x \in Numbered(set, old, d) \union {last}
        <3>1. PICK s, i : s \in set /\ i \in 1 .. new.moved[s][d] /\ x = <<s, i>>
            BY NumberedArePairs
        <3>2. CASE s = t /\ i = new.moved[t][d]
            BY <3>1, <3>2
        <3>3. CASE ~(s = t /\ i = new.moved[t][d])
            <4>1. i \in 1 .. old.moved[s][d]
                BY <1>1, <3>1, <3>3
            <4> QED
                BY <3>1, <4>1, NumberedMembers
        <3> QED
            BY <3>2, <3>3
    <2>2. ASSUME NEW x \in Numbered(set, old, d)
          PROVE  x \in Numbered(set, new, d)
        <3>1. PICK s, i : s \in set /\ i \in 1 .. old.moved[s][d] /\ x = <<s, i>>
            BY NumberedArePairs
        <3>2. i \in 1 .. new.moved[s][d]
            BY <1>1, <3>1
        <3> QED
            BY <3>1, <3>2, NumberedMembers
    <2>3. last \in Numbered(set, new, d)
        <3>1. new.moved[t][d] \in 1 .. new.moved[t][d]
            BY <1>1, <1>2
        <3> QED
            BY <3>1, NumberedMembers
    <2> QED
        BY <2>1, <2>2, <2>3
<1> HIDE DEF last
<1>5. Cardinality(Numbered(set, new, d)) = Cardinality(Numbered(set, old, d)) + 1
    BY <1>3, <1>4, NumberedFinite, FS_AddElement
<1> QED
    BY <1>5, ChunksType

\* How many sessions have reached a stage is a natural number.
LEMMA ReachedType ==
    ASSUME NEW set, set \subseteq Sessions, NEW where, NEW P
    PROVE  /\ IsFiniteSet({s \in set : where.stage[s] \in P})
           /\ Reached(set, where, P) \in Nat
           /\ Reached(set, where, P) = Count(where.stage, set, P)
<1>1. IsFiniteSet({s \in set : where.stage[s] \in P})
    BY FS_Subset, ControlAssumption
<1> QED
    BY <1>1, FS_CardinalityType DEF Reached, Count

\* So is what any field counts.
LEMMA TallyType ==
    ASSUME NEW set, set \subseteq Sessions, NEW where \in Progress, NEW f \in ToSet(Fields)
    PROVE  Tally(set, where, f) \in Nat
<1>1. /\ Chunks(set, where, "in") \in Nat
      /\ Chunks(set, where, "out") \in Nat
    BY ChunksType DEF Directions
<1>2. \A P : Reached(set, where, P) \in Nat
    BY ReachedType
<1> QED
    BY <1>1, <1>2, FieldsAre DEF Tally

\* Their number depends on the progress of those sessions only.
LEMMA ChunksSame ==
    ASSUME NEW set, NEW old, NEW new, NEW d,
           \A s \in set : new.moved[s][d] = old.moved[s][d]
    PROVE  Chunks(set, new, d) = Chunks(set, old, d)
<1>1. {{s} \X (1 .. new.moved[s][d]) : s \in set} = {{s} \X (1 .. old.moved[s][d]) : s \in set}
    OBVIOUS
<1> QED
    BY <1>1 DEF Chunks

\* A tally depends on the sessions of its set only.
LEMMA TallySame ==
    ASSUME NEW set, NEW old, NEW new, NEW f \in ToSet(Fields),
           \A s \in set : new.stage[s] = old.stage[s] /\ new.moved[s] = old.moved[s]
    PROVE  Tally(set, new, f) = Tally(set, old, f)
<1>1. \A P : Reached(set, new, P) = Reached(set, old, P)
    <2> SUFFICES ASSUME NEW P PROVE Reached(set, new, P) = Reached(set, old, P)
        OBVIOUS
    <2>1. {s \in set : new.stage[s] \in P} = {s \in set : old.stage[s] \in P}
        OBVIOUS
    <2> QED
        BY <2>1 DEF Reached
<1>2. \A d : Chunks(set, new, d) = Chunks(set, old, d)
    BY ChunksSame
<1> QED
    BY <1>1, <1>2, FieldsAre DEF Tally

----------------------------------------------------------------------------
(* Sessions that go on.                                                    *)

\* A stage is after itself, and what is after a later stage is after it too.
LEMMA OnwardsAgain ==
    ASSUME NEW a \in Stages
    PROVE  /\ a \in Onwards(a)
           /\ Onwards(a) \subseteq Stages
           /\ \A b \in Onwards(a) : Onwards(b) \subseteq Onwards(a)
BY DEF Onwards, Stages, Counted, Opened, Failed

\* Progress precedes itself.
LEMMA PrecedesSelf ==
    ASSUME NEW where \in Progress, NEW set, set \subseteq Sessions
    PROVE  Precedes(where, where, set)
<1> SUFFICES ASSUME NEW s \in set
             PROVE  /\ where.stage[s] \in Onwards(where.stage[s])
                    /\ \A d \in Directions : where.moved[s][d] =< where.moved[s][d]
    BY DEF Precedes
<1>1. where.stage[s] \in Stages /\ \A d \in Directions : where.moved[s][d] \in Nat
    BY DEF Progress
<1> QED
    BY <1>1, OnwardsAgain

\* It precedes what comes later than what it precedes.
LEMMA PrecedesAgain ==
    ASSUME NEW a \in Progress, NEW b \in Progress, NEW c \in Progress,
           NEW set, set \subseteq Sessions,
           Precedes(a, b, set), Precedes(b, c, set)
    PROVE  Precedes(a, c, set)
<1> SUFFICES ASSUME NEW s \in set
             PROVE  /\ c.stage[s] \in Onwards(a.stage[s])
                    /\ \A d \in Directions : a.moved[s][d] =< c.moved[s][d]
    BY DEF Precedes
<1>1. /\ a.stage[s] \in Stages /\ b.stage[s] \in Stages
      /\ b.stage[s] \in Onwards(a.stage[s])
      /\ c.stage[s] \in Onwards(b.stage[s])
    BY DEF Precedes, Progress
<1>2. c.stage[s] \in Onwards(a.stage[s])
    BY <1>1, OnwardsAgain
<1>3. \A d \in Directions :
         /\ a.moved[s][d] \in Nat /\ b.moved[s][d] \in Nat /\ c.moved[s][d] \in Nat
         /\ a.moved[s][d] =< b.moved[s][d]
         /\ b.moved[s][d] =< c.moved[s][d]
    BY DEF Precedes, Progress
<1>4. \A d \in Directions : a.moved[s][d] =< c.moved[s][d]
    BY <1>3
<1> QED
    BY <1>2, <1>4

\* Having done nothing precedes everything.
LEMMA FreshPrecedes ==
    ASSUME NEW where \in Progress, NEW set, set \subseteq Sessions
    PROVE  Precedes(Fresh, where, set)
BY DEF Precedes, Fresh, Progress, Onwards

\* The stages that a session does not leave.
LEMMA StaysReached ==
    ASSUME NEW a \in Stages, NEW b \in Onwards(a)
    PROVE  /\ a \in Counted => b \in Counted
           /\ a \in Opened => b \in Opened
           /\ a \in Failed => b \in Failed
           /\ a \in Off => b \in Off
           /\ b \in Stages
BY DEF Onwards, Stages, Counted, Opened, Failed, Off

\* A larger set of sessions is a larger count.
LEMMA SubsetCount ==
    ASSUME NEW set, set \subseteq Sessions, NEW S, S \subseteq set, NEW T, T \subseteq set,
           S \subseteq T
    PROVE  /\ Cardinality(S) \in Nat /\ Cardinality(T) \in Nat
           /\ Cardinality(S) =< Cardinality(T)
<1>1. IsFiniteSet(set)
    BY FS_Subset, ControlAssumption
<1>2. IsFiniteSet(S) /\ IsFiniteSet(T)
    BY <1>1, FS_Subset
<1> QED
    BY <1>2, FS_Subset, FS_CardinalityType

\* As sessions go on, more of them have reached a stage.
LEMMA ReachedGrow ==
    ASSUME NEW set, set \subseteq Sessions, NEW old \in Progress, NEW new \in Progress,
           Precedes(old, new, set), NEW P \in {Counted, Failed}
    PROVE  Reached(set, old, P) =< Reached(set, new, P)
<1> DEFINE S == {s \in set : old.stage[s] \in P}
           T == {s \in set : new.stage[s] \in P}
<1>1. S \subseteq T
    <2> SUFFICES ASSUME NEW s \in set, old.stage[s] \in P PROVE new.stage[s] \in P
        OBVIOUS
    <2>1. old.stage[s] \in Stages /\ new.stage[s] \in Onwards(old.stage[s])
        BY DEF Progress, Precedes
    <2> QED
        BY <2>1, StaysReached
<1> QED
    BY <1>1, SubsetCount DEF Reached

\* What a set of sessions counts is within the bounds of a request that was
\* sent before.
LEMMA TallyInBounds ==
    ASSUME NEW set, set \subseteq Sessions, NEW old \in Progress, NEW new \in Progress,
           Precedes(old, new, set), NEW f \in ToSet(Fields)
    PROVE  Tally(set, new, f) \in Low(set, old, new, f) .. High(set, old, new, f)
<1>0. Tally(set, old, f) \in Nat /\ Tally(set, new, f) \in Nat
    BY TallyType
<1>1. CASE f = "connections_active"
    <2> DEFINE L == {s \in set : old.stage[s] \in Opened \ Off /\ new.stage[s] \in Opened \ Off}
               M == {s \in set : new.stage[s] \in Opened \ Off}
               H == {s \in set : old.stage[s] \notin Off /\ new.stage[s] \in Opened}
    <2>1. L \subseteq M
        OBVIOUS
    <2>2. M \subseteq H
        <3> SUFFICES ASSUME NEW s \in set, new.stage[s] \notin Off PROVE old.stage[s] \notin Off
            OBVIOUS
        <3>1. old.stage[s] \in Stages /\ new.stage[s] \in Onwards(old.stage[s])
            BY DEF Progress, Precedes
        <3> QED
            BY <3>1, StaysReached
    <2>3. /\ Tally(set, new, f) = Cardinality(M)
          /\ Low(set, old, new, f) = Cardinality(L)
          /\ High(set, old, new, f) = Cardinality(H)
        BY <1>1 DEF Tally, Reached, Low, High
    <2>4. L \subseteq set /\ M \subseteq set /\ H \subseteq set
        OBVIOUS
    <2> HIDE DEF L, M, H
    <2>5. /\ Cardinality(L) \in Nat /\ Cardinality(M) \in Nat /\ Cardinality(H) \in Nat
          /\ Cardinality(L) =< Cardinality(M) /\ Cardinality(M) =< Cardinality(H)
        BY <2>1, <2>2, <2>4, SubsetCount
    <2> QED
        BY <2>3, <2>5
<1>2. CASE f # "connections_active"
    <2>1. Tally(set, old, f) =< Tally(set, new, f)
        <3>1. /\ Reached(set, old, Counted) =< Reached(set, new, Counted)
              /\ Reached(set, old, Failed) =< Reached(set, new, Failed)
            BY ReachedGrow
        <3>2. \A d \in Directions : Chunks(set, old, d) =< Chunks(set, new, d)
            BY ChunksGrow DEF Precedes
        <3> QED
            BY <1>2, <3>1, <3>2, FieldsAre DEF Tally, Directions
    <2>2. Low(set, old, new, f) = Tally(set, old, f) /\ High(set, old, new, f) = Tally(set, new, f)
        BY <1>2 DEF Low, High
    <2> QED
        BY <1>0, <2>1, <2>2
<1> QED
    BY <1>1, <1>2

\* The bounds widen while the sessions go on.
LEMMA BoundsWiden ==
    ASSUME NEW set, set \subseteq Sessions,
           NEW old \in Progress, NEW a \in Progress, NEW b \in Progress,
           Precedes(old, a, set), Precedes(a, b, set), NEW f \in ToSet(Fields),
           NEW v \in Low(set, old, a, f) .. High(set, old, a, f)
    PROVE  v \in Low(set, old, b, f) .. High(set, old, b, f)
<1>1. CASE f = "connections_active"
    <2> DEFINE LA == {s \in set : old.stage[s] \in Opened \ Off /\ a.stage[s] \in Opened \ Off}
               LB == {s \in set : old.stage[s] \in Opened \ Off /\ b.stage[s] \in Opened \ Off}
               HA == {s \in set : old.stage[s] \notin Off /\ a.stage[s] \in Opened}
               HB == {s \in set : old.stage[s] \notin Off /\ b.stage[s] \in Opened}
    <2>1. \A s \in set : /\ old.stage[s] \in Stages /\ a.stage[s] \in Onwards(old.stage[s])
                         /\ a.stage[s] \in Stages /\ b.stage[s] \in Onwards(a.stage[s])
        BY DEF Progress, Precedes
    <2>2. LB \subseteq LA /\ HA \subseteq HB
        BY <2>1, StaysReached
    <2>3. /\ Low(set, old, a, f) = Cardinality(LA) /\ Low(set, old, b, f) = Cardinality(LB)
          /\ High(set, old, a, f) = Cardinality(HA) /\ High(set, old, b, f) = Cardinality(HB)
        BY <1>1 DEF Low, High
    <2>4. LA \subseteq set /\ LB \subseteq set /\ HA \subseteq set /\ HB \subseteq set
        OBVIOUS
    <2> HIDE DEF LA, LB, HA, HB
    <2>5. /\ Cardinality(LA) \in Nat /\ Cardinality(LB) \in Nat
          /\ Cardinality(HA) \in Nat /\ Cardinality(HB) \in Nat
          /\ Cardinality(LB) =< Cardinality(LA) /\ Cardinality(HA) =< Cardinality(HB)
        BY <2>2, <2>4, SubsetCount
    <2> QED
        BY <2>3, <2>5
<1>2. CASE f # "connections_active"
    <2>1. Tally(set, a, f) \in Low(set, a, b, f) .. High(set, a, b, f)
             /\ Tally(set, b, f) \in Low(set, a, b, f) .. High(set, a, b, f)
        <3>1. Tally(set, b, f) \in Low(set, a, b, f) .. High(set, a, b, f)
            BY TallyInBounds
        <3>2. /\ Tally(set, a, f) \in Nat /\ Tally(set, b, f) \in Nat
              /\ Low(set, a, b, f) = Tally(set, a, f) /\ High(set, a, b, f) = Tally(set, b, f)
            BY <1>2, TallyType DEF Low, High
        <3> QED
            BY <3>1, <3>2
    <2>2. /\ Low(set, a, b, f) = Tally(set, a, f) /\ High(set, a, b, f) = Tally(set, b, f)
          /\ Low(set, old, a, f) = Tally(set, old, f) /\ Low(set, old, b, f) = Tally(set, old, f)
          /\ High(set, old, a, f) = Tally(set, a, f) /\ High(set, old, b, f) = Tally(set, b, f)
          /\ Tally(set, a, f) \in Nat /\ Tally(set, b, f) \in Nat /\ Tally(set, old, f) \in Nat
        BY <1>2, TallyType DEF Low, High
    <2> QED
        BY <2>1, <2>2
<1> QED
    BY <1>1, <1>2

----------------------------------------------------------------------------
(* A step of a session, and its counter.                                   *)

\* The progress of the sessions at this moment has its type.
LEMMA NowType ==
    ASSUME TypeOK
    PROVE  /\ stage \in [Sessions -> Stages]
           /\ moved \in [Sessions -> [Directions -> Nat]]
           /\ Now \in Progress
           /\ Now.stage = stage /\ Now.moved = moved
           /\ Now'.stage = stage' /\ Now'.moved = moved'
BY ProgressOf DEF TypeOK, Now

\* One counter of the session's pipeline changes.
LEMMA AddEffect ==
    ASSUME TypeOK, NEW s \in Sessions, NEW field \in ToSet(Fields), NEW k \in Int,
           Add(s, field, k)
    PROVE  /\ \A p \in Processes, n \in Names, f \in ToSet(Fields) :
                 count'[p][<<n, f>>] =
                     IF p = Home[s] /\ n = NameOf[s] /\ f = field
                     THEN count[p][<<n, f>>] + k ELSE count[p][<<n, f>>]
           /\ count' = [p \in Processes |-> [x \in Counters |-> count'[p][x]]]
<1> DEFINE h == Home[s]
           x == <<NameOf[s], field>>
<1>1. h \in Processes /\ x \in Counters
    BY ControlAssumption DEF Counters
<1>2. count \in [Processes -> [Counters -> Nat]]
    BY DEF TypeOK
<1>3. count' = [count EXCEPT ![h][x] = @ + k]
    BY DEF Add
<1>4. \A p \in Processes : p # h => count'[p] = count[p]
    BY <1>2, <1>3
<1>5. count'[h] = [count[h] EXCEPT ![x] = @ + k]
    BY <1>1, <1>2, <1>3
<1>6. \A y \in Counters : count'[h][y] = IF y = x THEN count[h][x] + k ELSE count[h][y]
    BY <1>1, <1>2, <1>5
<1>7. \A n \in Names, f \in ToSet(Fields) :
         <<n, f>> \in Counters /\ (<<n, f>> = x <=> n = NameOf[s] /\ f = field)
    BY DEF Counters
<1>8. count' = [p \in Processes |-> [y \in Counters |-> count'[p][y]]]
    <2>1. count' = [p \in Processes |-> count'[p]]
        BY <1>2, <1>3
    <2>2. ASSUME NEW p \in Processes
          PROVE  count'[p] = [y \in Counters |-> count'[p][y]]
        <3>1. CASE p = h
            BY <1>1, <1>2, <1>5, <3>1
        <3>2. CASE p # h
            BY <1>2, <1>4, <3>2
        <3> QED
            BY <3>1, <3>2
    <2> QED
        BY <2>1, <2>2
<1> HIDE DEF x
<1>9. \A p \in Processes, n \in Names, f \in ToSet(Fields) :
         count'[p][<<n, f>>] =
             IF p = h /\ n = NameOf[s] /\ f = field
             THEN count[p][<<n, f>>] + k ELSE count[p][<<n, f>>]
    BY <1>4, <1>6, <1>7
<1> QED
    BY <1>8, <1>9

\* The stages that a field counts sessions in.
CountedIn(f) ==
    CASE f = "connections_total"  -> Counted
      [] f = "connections_active" -> Opened \ Off
      [] f = "errors_total"       -> Failed
      [] OTHER                    -> {}

\* A session's new stage changes the tallies of its pipeline only.
LEMMA StageTally ==
    ASSUME TypeOK, NEW s \in Sessions, NEW to \in Stages,
           \A t \in Sessions : stage'[t] = IF t = s THEN to ELSE stage[t],
           moved' = moved,
           NEW p \in Processes, NEW n \in Names, NEW f \in ToSet(Fields)
    PROVE  LET tally == Tally(SessionsAt(p, n), Now, f)
               P == CountedIn(f)
           IN  Tally(SessionsAt(p, n), Now', f) =
                   IF ~(p = Home[s] /\ n = NameOf[s]) THEN tally
                   ELSE IF stage[s] \notin P /\ to \in P THEN tally + 1
                   ELSE IF stage[s] \in P /\ to \notin P THEN tally - 1
                   ELSE tally
<1> DEFINE set == SessionsAt(p, n)
           P == CountedIn(f)
<1>1. set \subseteq Sessions /\ (s \in set <=> p = Home[s] /\ n = NameOf[s])
    BY DEF SessionsAt
<1> HIDE DEF set
<1>2. CASE s \notin set
    <2>1. \A t \in set : Now'.stage[t] = Now.stage[t] /\ Now'.moved[t] = Now.moved[t]
        BY <1>1, <1>2, NowType
    <2>2. Tally(set, Now', f) = Tally(set, Now, f)
        BY <2>1, TallySame
    <2> QED
        BY <1>1, <1>2, <2>2 DEF set
<1>3. CASE s \in set
    <2>1. CASE f \in {"connections_total", "connections_active", "errors_total"}
        <3>1. /\ Tally(set, Now, f) = Reached(set, Now, P)
              /\ Tally(set, Now', f) = Reached(set, Now', P)
            BY <2>1 DEF Tally, CountedIn
        <3>2. /\ Reached(set, Now, P) = Count(stage, set, P)
              /\ Reached(set, Now', P) = Count(stage', set, P)
            <4>1. /\ Reached(set, Now, P) = Count(Now.stage, set, P)
                  /\ Reached(set, Now', P) = Count(Now'.stage, set, P)
                BY <1>1, ReachedType
            <4> QED
                BY <4>1, NowType
        <3>3. IsFiniteSet(set)
            BY <1>1, FS_Subset, ControlAssumption
        <3>4. \A t \in set : t # s => stage'[t] = stage[t]
            BY <1>1
        <3>5. stage'[s] = to
            OBVIOUS
        <3> HIDE DEF P
        <3>6. /\ (stage[s] \in P <=> to \in P) => Count(stage', set, P) = Count(stage, set, P)
              /\ (stage[s] \notin P /\ to \in P) => Count(stage', set, P) = Count(stage, set, P) + 1
              /\ (stage[s] \in P /\ to \notin P) => Count(stage', set, P) = Count(stage, set, P) - 1
            BY <1>3, <3>3, <3>4, <3>5, CountMove
        <3>7. Tally(set, Now', f) =
                   IF stage[s] \notin P /\ to \in P THEN Tally(set, Now, f) + 1
                   ELSE IF stage[s] \in P /\ to \notin P THEN Tally(set, Now, f) - 1
                   ELSE Tally(set, Now, f)
            BY <3>1, <3>2, <3>6
        <3> QED
            BY <1>1, <1>3, <3>7 DEF set, P
    <2>2. CASE f \in {"bytes_in", "bytes_out"}
        <3>1. P = {}
            BY <2>2 DEF CountedIn
        <3>2. \A d : Chunks(set, Now', d) = Chunks(set, Now, d)
            BY NowType, ChunksSame
        <3>3. Tally(set, Now', f) = Tally(set, Now, f)
            BY <2>2, <3>2 DEF Tally
        <3> QED
            BY <1>1, <1>3, <3>1, <3>3 DEF set
    <2> QED
        BY <2>1, <2>2, FieldsAre
<1> QED
    BY <1>2, <1>3

\* A chunk changes one tally of its pipeline.
LEMMA ChunkTally ==
    ASSUME TypeOK, NEW s \in Sessions, NEW d \in Directions,
           stage' = stage, moved' \in [Sessions -> [Directions -> Nat]],
           \A t \in Sessions, e \in Directions :
              moved'[t][e] = IF t = s /\ e = d THEN moved[t][e] + 1 ELSE moved[t][e],
           \A t \in Sessions : t # s => moved'[t] = moved[t],
           NEW p \in Processes, NEW n \in Names, NEW f \in ToSet(Fields)
    PROVE  LET tally == Tally(SessionsAt(p, n), Now, f)
           IN  Tally(SessionsAt(p, n), Now', f) =
                   IF p = Home[s] /\ n = NameOf[s]
                      /\ f = (IF d = "in" THEN "bytes_in" ELSE "bytes_out")
                   THEN tally + 1 ELSE tally
<1> DEFINE set == SessionsAt(p, n)
           field == IF d = "in" THEN "bytes_in" ELSE "bytes_out"
<1>1. set \subseteq Sessions /\ (s \in set <=> p = Home[s] /\ n = NameOf[s])
    BY DEF SessionsAt
<1>2. moved \in [Sessions -> [Directions -> Nat]] /\ Now \in Progress
    BY NowType
<1>3. Now' \in Progress
    <2>1. stage' \in [Sessions -> Stages]
        BY NowType
    <2> QED
        BY <2>1, ProgressOf DEF Now
<1> HIDE DEF set
<1>4. CASE s \notin set
    <2>1. \A t \in set : Now'.stage[t] = Now.stage[t] /\ Now'.moved[t] = Now.moved[t]
        BY <1>1, <1>4, NowType
    <2>2. Tally(set, Now', f) = Tally(set, Now, f)
        BY <2>1, TallySame
    <2> QED
        BY <1>1, <1>4, <2>2 DEF set
<1>5. CASE s \in set
    <2>1. Chunks(set, Now', d) = Chunks(set, Now, d) + 1
        <3>1. \A t \in set : Now'.moved[t][d] =
                 IF t = s THEN Now.moved[t][d] + 1 ELSE Now.moved[t][d]
            BY <1>1, NowType
        <3> QED
            BY <1>1, <1>2, <1>3, <1>5, <3>1, ChunksAdd
    <2>2. \A e \in Directions : e # d => Chunks(set, Now', e) = Chunks(set, Now, e)
        <3> SUFFICES ASSUME NEW e \in Directions, e # d
                     PROVE  Chunks(set, Now', e) = Chunks(set, Now, e)
            OBVIOUS
        <3>1. \A t \in set : Now'.moved[t][e] = Now.moved[t][e]
            BY <1>1, NowType
        <3> QED
            BY <3>1, ChunksSame
    <2>3. \A P : Reached(set, Now', P) = Reached(set, Now, P)
        BY NowType DEF Reached
    <2>4. Tally(set, Now', f) = IF f = field THEN Tally(set, Now, f) + 1 ELSE Tally(set, Now, f)
        BY <2>1, <2>2, <2>3, FieldsAre DEF Tally, Directions
    <2> QED
        BY <1>1, <1>5, <2>4 DEF set
<1> QED
    BY <1>4, <1>5

SessionAction(s) ==
    \/ CountTotal(s) \/ CountActive(s) \/ CountError(s) \/ CountOff(s)
    \/ \E d \in Directions : CountChunk(s, d)

\* The counters follow when a session changes its stage and one counter.
LEMMA CountFollowsStage ==
    ASSUME TypeOK, CountInv, NEW s \in Sessions, NEW from, NEW to \in Stages,
           Step(s, from, to), NEW field \in ToSet(Fields), NEW k \in Int, Add(s, field, k),
           \A f \in ToSet(Fields) :
              LET P == CountedIn(f)
              IN  (IF from \notin P /\ to \in P THEN 1
                   ELSE IF from \in P /\ to \notin P THEN -1 ELSE 0)
                  = IF f = field THEN k ELSE 0
    PROVE  /\ CountInv'
           /\ \A t \in Sessions : stage'[t] = IF t = s THEN to ELSE stage[t]
           /\ stage' \in [Sessions -> Stages]
<1>1. /\ stage[s] = from /\ Home[s] \in Alive
      /\ moved' = moved /\ process' = process
    BY DEF Step, Runs
<1>2. /\ stage' \in [Sessions -> Stages]
      /\ \A t \in Sessions : stage'[t] = IF t = s THEN to ELSE stage[t]
    BY NowType DEF Step
<1>3. SUFFICES ASSUME NEW p \in Processes, process[p] # "gone",
                      NEW n \in Names, NEW f \in ToSet(Fields)
               PROVE  count'[p][<<n, f>>] = Tally(SessionsAt(p, n), Now', f)
    BY <1>1, <1>2 DEF CountInv, SessionsAt
<1> DEFINE tally == Tally(SessionsAt(p, n), Now, f)
           P == CountedIn(f)
<1>4. Tally(SessionsAt(p, n), Now', f) =
          IF ~(p = Home[s] /\ n = NameOf[s]) THEN tally
          ELSE IF from \notin P /\ to \in P THEN tally + 1
          ELSE IF from \in P /\ to \notin P THEN tally - 1
          ELSE tally
    BY <1>1, <1>2, StageTally
<1>5. count[p][<<n, f>>] = tally
    BY <1>3 DEF CountInv
<1>6. count'[p][<<n, f>>] = IF p = Home[s] /\ n = NameOf[s] /\ f = field
                            THEN tally + k ELSE tally
    BY <1>5, AddEffect
<1>7. tally \in Int
    BY NowType, TallyType DEF SessionsAt
<1>8. (IF from \notin P /\ to \in P THEN 1 ELSE IF from \in P /\ to \notin P THEN -1 ELSE 0)
          = IF f = field THEN k ELSE 0
    OBVIOUS
<1> HIDE DEF tally, P
<1> QED
    BY <1>4, <1>6, <1>7, <1>8

\* What the steps of a session have in common.
GoesOn(s) ==
    /\ CountInv'
    /\ Now' \in Progress
    /\ \E to \in Onwards(stage[s]) :
          \A t \in Sessions : stage'[t] = IF t = s THEN to ELSE stage[t]
    /\ \A t \in Sessions, d \in Directions : moved[t][d] =< moved'[t][d]
    /\ count' = [p \in Processes |-> [x \in Counters |-> count'[p][x]]]
    /\ UNCHANGED <<process, registered, lock, control, path, task, clients, snapshots, faults>>

\* Every step of a session keeps the counters exact.
LEMMA SessionStep ==
    ASSUME TypeOK, CountInv, NEW s \in Sessions, SessionAction(s)
    PROVE  GoesOn(s)
<1>1. stage[s] \in Stages /\ \A t \in Sessions, d \in Directions : moved[t][d] \in Nat
    BY NowType
<1>2. ASSUME NEW from, NEW to \in Onwards(from), to \in Stages,
             Step(s, from, to), NEW field \in ToSet(Fields), NEW k \in Int, Add(s, field, k),
             \A f \in ToSet(Fields) :
                LET P == CountedIn(f)
                IN  (IF from \notin P /\ to \in P THEN 1
                     ELSE IF from \in P /\ to \notin P THEN -1 ELSE 0)
                    = IF f = field THEN k ELSE 0
      PROVE  GoesOn(s)
    <2>1. /\ CountInv'
          /\ stage' \in [Sessions -> Stages]
          /\ \A t \in Sessions : stage'[t] = IF t = s THEN to ELSE stage[t]
        BY <1>2, CountFollowsStage
    <2>2. /\ moved' = moved /\ stage[s] = from
          /\ UNCHANGED <<process, registered, lock, control, path, task, clients, snapshots, faults>>
        BY <1>2 DEF Step
    <2>3. Now' \in Progress
        BY <2>1, <2>2, NowType, ProgressOf DEF Now
    <2>4. \A t \in Sessions, d \in Directions : moved[t][d] =< moved'[t][d]
        BY <1>1, <2>2
    <2>5. count' = [p \in Processes |-> [x \in Counters |-> count'[p][x]]]
        BY <1>2, AddEffect
    <2> QED
        BY <1>2, <2>1, <2>2, <2>3, <2>4, <2>5 DEF GoesOn
<1> DEFINE Follows(from, to, field, k) ==
        \A f \in ToSet(Fields) :
                LET P == CountedIn(f)
                IN  (IF from \notin P /\ to \in P THEN 1
                     ELSE IF from \in P /\ to \notin P THEN -1 ELSE 0)
                    = IF f = field THEN k ELSE 0
<1>3. CASE CountTotal(s)
    <2>1. Follows("new", "counted", "connections_total", 1)
        BY FieldsAre DEF CountedIn, Counted, Opened, Failed, Off, Stages
    <2>2. "counted" \in Onwards("new") /\ "counted" \in Stages
        BY DEF Onwards, Stages
    <2> QED
        BY <1>2, <1>3, <2>1, <2>2, FieldsAre DEF CountTotal
<1>4. CASE CountActive(s)
    <2>1. Follows("counted", "open", "connections_active", 1)
        BY FieldsAre DEF CountedIn, Counted, Opened, Failed, Off, Stages
    <2>2. "open" \in Onwards("counted") /\ "open" \in Stages
        BY DEF Onwards, Counted, Stages
    <2> QED
        BY <1>2, <1>4, <2>1, <2>2, FieldsAre DEF CountActive
<1>5. CASE CountError(s)
    <2>1. Follows("open", "failed", "errors_total", 1)
        BY FieldsAre DEF CountedIn, Counted, Opened, Failed, Off, Stages
    <2>2. "failed" \in Onwards("open") /\ "failed" \in Stages
        BY DEF Onwards, Opened, Counted, Stages
    <2> QED
        BY <1>2, <1>5, <2>1, <2>2, FieldsAre DEF CountError
<1>6. CASE CountOff(s)
    <2>1. /\ Follows("open", "closed", "connections_active", -1)
          /\ Follows("failed", "aborted", "connections_active", -1)
        BY FieldsAre DEF CountedIn, Counted, Opened, Failed, Off, Stages
    <2>2. /\ "closed" \in Onwards("open") /\ "closed" \in Stages
          /\ "aborted" \in Onwards("failed") /\ "aborted" \in Stages
        BY DEF Onwards, Opened, Counted, Failed, Stages
    <2>3. CASE Step(s, "open", "closed")
        BY <1>2, <1>6, <2>1, <2>2, <2>3, FieldsAre DEF CountOff
    <2>4. CASE Step(s, "failed", "aborted")
        BY <1>2, <1>6, <2>1, <2>2, <2>4, FieldsAre DEF CountOff
    <2> QED
        BY <1>6, <2>3, <2>4 DEF CountOff
<1>7. ASSUME NEW d \in Directions, CountChunk(s, d)
      PROVE  GoesOn(s)
    <2> DEFINE field == IF d = "in" THEN "bytes_in" ELSE "bytes_out"
    <2>1. field \in ToSet(Fields) /\ Add(s, field, 1)
        BY <1>7, FieldsAre DEF CountChunk
    <2>2. /\ stage' = stage /\ Home[s] \in Alive
          /\ moved' = [moved EXCEPT ![s][d] = @ + 1]
          /\ UNCHANGED <<process, registered, lock, control, path, task, clients, snapshots, faults>>
        BY <1>7 DEF CountChunk, Runs
    <2>3. /\ moved' \in [Sessions -> [Directions -> Nat]]
          /\ \A t \in Sessions, e \in Directions :
                moved'[t][e] = IF t = s /\ e = d THEN moved[t][e] + 1 ELSE moved[t][e]
          /\ \A t \in Sessions : t # s => moved'[t] = moved[t]
        BY <2>2, NowType
    <2>4. Now' \in Progress
        BY <2>2, <2>3, NowType, ProgressOf DEF Now
    <2>5. CountInv'
        <3> SUFFICES ASSUME NEW p \in Processes, process[p] # "gone",
                            NEW n \in Names, NEW f \in ToSet(Fields)
                     PROVE  count'[p][<<n, f>>] = Tally(SessionsAt(p, n), Now', f)
            BY <2>2 DEF CountInv, SessionsAt
        <3> DEFINE tally == Tally(SessionsAt(p, n), Now, f)
        <3>1. Tally(SessionsAt(p, n), Now', f) =
                 IF p = Home[s] /\ n = NameOf[s] /\ f = field THEN tally + 1 ELSE tally
            BY <2>2, <2>3, ChunkTally
        <3>2. count[p][<<n, f>>] = tally
            BY DEF CountInv
        <3> QED
            BY <2>1, <3>1, <3>2, AddEffect
    <2>6. \A t \in Sessions, e \in Directions : moved[t][e] =< moved'[t][e]
        BY <1>1, <2>3
    <2>7. \E there \in Onwards(stage[s]) :
              \A t \in Sessions : stage'[t] = IF t = s THEN there ELSE stage[t]
        <3>1. stage[s] \in Onwards(stage[s])
            BY <1>1, OnwardsAgain
        <3> QED
            BY <2>2, <3>1
    <2>8. count' = [p \in Processes |-> [x \in Counters |-> count'[p][x]]]
        BY <2>1, AddEffect
    <2> QED
        BY <2>2, <2>4, <2>5, <2>6, <2>7, <2>8 DEF GoesOn
<1> HIDE DEF Follows
<1> QED
    BY <1>3, <1>4, <1>5, <1>6, <1>7 DEF SessionAction

\* A load keeps the type: its reader has a server.
LEMMA LoadKeepsType ==
    ASSUME TypeOK, LoadedType, TaskInv, NEW r \in Readers, NEW n \in Names, Load(r, n)
    PROVE  TypeOK' /\ LoadedType'
<1>1. PICK f \in ToSet(Fields) :
         /\ task[r] = "load"
         /\ <<n, f>> \in Counters
         /\ \A q \in Readers : q # r => loaded'[q] = loaded[q]
         /\ DOMAIN loaded'[r] = DOMAIN loaded[r] \union {<<n, f>>}
         /\ loaded'[r][<<n, f>>] = count[ServerOf(r)][<<n, f>>]
         /\ \A y \in DOMAIN loaded[r] : y # <<n, f>> => loaded'[r][y] = loaded[r][y]
         /\ LoadedType'
    BY LoadEffect
<1>2. ServerOf(r) \in Processes
    BY <1>1 DEF TaskInv, TaskAt, Busy
<1>3. count[ServerOf(r)][<<n, f>>] \in Nat
    BY <1>1, <1>2 DEF TypeOK
<1>4. /\ DOMAIN loaded'[r] \subseteq Counters
      /\ \A x \in DOMAIN loaded'[r] : loaded'[r][x] \in Nat
    BY <1>1, <1>3 DEF TypeOK
<1>5. \A q \in Readers :
         DOMAIN loaded'[q] \subseteq Counters /\ \A x \in DOMAIN loaded'[q] : loaded'[q][x] \in Nat
    BY <1>1, <1>4 DEF TypeOK
<1>6. UNCHANGED <<process, registry, control, path, sessions, task, clients, since, faults>>
    BY DEF Load
<1> QED
    BY <1>1, <1>5, <1>6 DEF TypeOK, Now, registry, sessions, clients

\* A session's step keeps it: a counter is a number of sessions or chunks.
LEMMA SessionKeepsType ==
    ASSUME TypeOK, LoadedType, ProcessInv, CountInv, NEW s \in Sessions, SessionAction(s),
           Home[s] \in Alive
    PROVE  TypeOK' /\ LoadedType'
<1>1. GoesOn(s)
    BY SessionStep
<1>2. \A p \in Processes, x \in Counters : count'[p][x] \in Nat
    <2> SUFFICES ASSUME NEW p \in Processes, NEW n \in Names, NEW f \in ToSet(Fields)
                 PROVE  count'[p][<<n, f>>] \in Nat
        BY DEF Counters
    <2>1. CASE process[p] # "gone"
        <3>1. count'[p][<<n, f>>] = Tally(SessionsAt(p, n), Now', f)
            BY <1>1, <2>1 DEF GoesOn, CountInv, SessionsAt
        <3>2. SessionsAt(p, n) \subseteq Sessions
            BY DEF SessionsAt
        <3> QED
            BY <1>1, <3>1, <3>2, TallyType DEF GoesOn
    <2>2. CASE process[p] = "gone"
        <3>1. p # Home[s]
            BY <2>2 DEF Alive
        <3>2. count'[p] = count[p]
            BY <3>1 DEF SessionAction, CountTotal, CountActive, CountError, CountOff,
                        CountChunk, Add, TypeOK
        <3>3. <<n, f>> \in Counters
            BY DEF Counters
        <3> QED
            BY <3>2, <3>3 DEF TypeOK
    <2> QED
        BY <2>1, <2>2
<1>3. count' \in [Processes -> [Counters -> Nat]]
    BY <1>1, <1>2 DEF GoesOn
<1> QED
    BY <1>1, <1>3 DEF GoesOn, TypeOK, LoadedType, clients, snapshots

\* The session's process is alive.
LEMMA SessionAlive ==
    ASSUME NEW s \in Sessions, SessionAction(s)
    PROVE  Home[s] \in Alive
BY DEF SessionAction, CountTotal, CountActive, CountError, CountOff, CountChunk, Step, Runs

\* Every step keeps the types.
LEMMA TypeStep ==
    ASSUME ControlInv, [Next]_vars
    PROVE  TypeOK' /\ LoadedType'
<1> USE DEF ControlInv
<1>1. ASSUME NEW p \in Processes,
             \/ Start(p) \/ StartTasks(p) \/ \E n \in Names : Register(p, n)
             \/ Unlink(p) \/ Bind(p) \/ SetPermissions(p)
             \/ \E c \in Clients : Accept(p, c)
      PROVE  TypeOK' /\ LoadedType'
    BY <1>1, ProcessType
<1>2. ASSUME NEW p \in Processes, Stop(p)
      PROVE  TypeOK' /\ LoadedType'
    BY <1>2, StopType
<1>3. ASSUME NEW p \in Processes, ServeFails(p)
      PROVE  TypeOK' /\ LoadedType'
    BY <1>3, ServeFailsType
<1>4. ASSUME NEW c \in Clients,
             \/ Connect(c) \/ Leave(c) \/ Close(c) \/ ReadLine(c) \/ Answer(c)
             \/ \E line \in Requests[c] : Say(c, line)
      PROVE  TypeOK' /\ LoadedType'
    BY <1>4, ClientType
<1>5. ASSUME NEW p \in Reporting, Tick(p) \/ Report(p)
      PROVE  TypeOK' /\ LoadedType'
    BY <1>5, ReaderType DEF Readers
<1>6. ASSUME NEW r \in Readers, Lock(r) \/ Unlock(r)
      PROVE  TypeOK' /\ LoadedType'
    BY <1>6, ReaderType
<1>7. ASSUME NEW r \in Readers, NEW n \in Names, Load(r, n)
      PROVE  TypeOK' /\ LoadedType'
    BY <1>7, LoadKeepsType
<1>8. ASSUME NEW s \in Sessions, SessionAction(s)
      PROVE  TypeOK' /\ LoadedType'
    BY <1>8, SessionAlive, SessionKeepsType
<1>9. ASSUME UNCHANGED vars
      PROVE  TypeOK' /\ LoadedType'
    BY <1>9 DEF vars, registry, sessions, clients, snapshots, TypeOK, LoadedType, Now
<1> QED
    BY <1>1, <1>2, <1>3, <1>4, <1>5, <1>6, <1>7, <1>8, <1>9 DEF Next, SessionAction

----------------------------------------------------------------------------
(* Processes and their control tasks.                                      *)

\* Steps that change no process and no socket keep ProcessInv.
LEMMA ProcessInvFrame ==
    ASSUME ProcessInv, UNCHANGED <<process, registered, control, path, faults>>
    PROVE  ProcessInv'
BY DEF ProcessInv, Alive

\* All steps do.
LEMMA ProcessInvStep ==
    ASSUME ControlInv, [Next]_vars
    PROVE  ProcessInv'
<1>1. TypeOK /\ ProcessInv /\ MaxFaults \in Nat
    BY ControlAssumption DEF ControlInv
<1> USE DEF registry, sessions, clients, snapshots
<1>2. ASSUME NEW p \in Processes, Start(p)
      PROVE  ProcessInv'
    BY <1>1, <1>2 DEF Start, ProcessInv, Alive, TypeOK
<1>3. ASSUME NEW p \in Processes, StartTasks(p)
      PROVE  ProcessInv'
    BY <1>1, <1>3 DEF StartTasks, Workers, ProcessInv, Alive, TypeOK
<1>4. ASSUME NEW p \in Processes, NEW n \in Names, Register(p, n)
      PROVE  ProcessInv'
    BY <1>1, <1>4 DEF Register, ProcessInv, Alive, TypeOK
<1>5. ASSUME NEW p \in Processes, Stop(p)
      PROVE  ProcessInv'
    BY <1>1, <1>5 DEF Stop, ProcessInv, Alive, TypeOK
<1>6. ASSUME NEW p \in Processes, Unlink(p)
      PROVE  ProcessInv'
    BY <1>1, <1>6 DEF Unlink, Removed, ProcessInv, Alive, TypeOK
<1>7. ASSUME NEW p \in Processes, Bind(p)
      PROVE  ProcessInv'
    <2>1. \A q \in Processes : q # p => control[q] = "off"
        BY <1>1, <1>7 DEF Bind, ProcessInv, Alive, TypeOK
    <2> QED
        BY <1>1, <1>7, <2>1 DEF Bind, ProcessInv, Alive, TypeOK
<1>8. ASSUME NEW p \in Processes, SetPermissions(p)
      PROVE  ProcessInv'
    BY <1>1, <1>8 DEF SetPermissions, ProcessInv, Alive, TypeOK
<1>9. ASSUME NEW p \in Processes, ServeFails(p)
      PROVE  ProcessInv'
    <2>1. /\ ~Refused(p) /\ faults' = faults + 1 /\ faults' > 0
        BY <1>1, <1>9 DEF ServeFails, Refused, ProcessInv, TypeOK
    <2>2. /\ control' = [control EXCEPT ![p] = "ended"]
          /\ control[p] \in {"bind", "chmod", "accept"}
          /\ UNCHANGED <<process, registered, path>>
        BY <1>9 DEF ServeFails, Drop, NotAccepted
    <2> QED
        BY <1>1, <2>1, <2>2 DEF ProcessInv, Alive, TypeOK
<1>10. ASSUME UNCHANGED <<process, registered, control, path, faults>>
       PROVE  ProcessInv'
    BY <1>1, <1>10, ProcessInvFrame
<1>11. ASSUME NEW p \in Processes, NEW c \in Clients, Accept(p, c)
       PROVE  ProcessInv'
    BY <1>10, <1>11 DEF Accept
<1>12. ASSUME NEW c \in Clients,
              \/ Connect(c) \/ Leave(c) \/ Close(c) \/ ReadLine(c) \/ Answer(c)
              \/ \E line \in Requests[c] : Say(c, line)
       PROVE  ProcessInv'
    BY <1>10, <1>12 DEF Connect, Leave, Close, ReadLine, Answer, Say
<1>13. ASSUME NEW p \in Reporting, Tick(p) \/ Report(p)
       PROVE  ProcessInv'
    BY <1>10, <1>13 DEF Tick, Report
<1>14. ASSUME NEW r \in Readers, Lock(r) \/ Unlock(r) \/ \E n \in Names : Load(r, n)
       PROVE  ProcessInv'
    BY <1>10, <1>14 DEF Lock, Unlock, Load
<1>15. ASSUME NEW s \in Sessions, SessionAction(s)
       PROVE  ProcessInv'
    BY <1>10, <1>15, SessionStep DEF GoesOn, ControlInv
<1>16. ASSUME UNCHANGED vars
       PROVE  ProcessInv'
    BY <1>10, <1>16 DEF vars
<1> QED
    BY <1>2, <1>3, <1>4, <1>5, <1>6, <1>7, <1>8, <1>9, <1>11, <1>12, <1>13, <1>14, <1>15, <1>16
       DEF Next, SessionAction

----------------------------------------------------------------------------
(* Readers.                                                                *)

\* A reader that a step does not touch, and whose server goes on.
LEMMA TaskFrame ==
    ASSUME NEW r \in Readers, TaskAt(r),
           task'[r] = task[r], since'[r] = since[r], loaded'[r] = loaded[r],
           r \in Clients => peer'[r] = peer[r] /\ said'[r] = said[r],
           Busy(r) /\ process[ServerOf(r)] = "running" => process'[ServerOf(r)] = "running"
    PROVE  TaskAt(r)'
<1>1. ServerOf(r)' = ServerOf(r)
    BY DEF ServerOf
<1>2. Busy(r)' = Busy(r) /\ Answered(r)' = Answered(r)
    BY DEF Busy, Answered
<1> QED
    BY <1>1, <1>2 DEF TaskAt

\* TaskInv, when a process starts or stops.
LEMMA TaskOfProcess ==
    ASSUME ControlInv, NEW r \in Readers, NEW p \in Processes,
           \/ Start(p) \/ StartTasks(p) \/ Stop(p) \/ \E n \in Names : Register(p, n)
           \/ Unlink(p) \/ Bind(p) \/ SetPermissions(p) \/ ServeFails(p)
           \/ \E c \in Clients : Accept(p, c)
    PROVE  TaskAt(r)'
<1>1. /\ TaskAt(r)
      /\ process \in [Processes -> {"down", "starting", "running", "gone"}]
      /\ task \in [Readers -> {"idle", "queued", "read", "lock", "load", "answer", "done"}]
      /\ since \in [Readers -> Progress]
      /\ r \in Reporting \/ r \in Clients
    BY DEF ControlInv, TypeOK, TaskInv, Readers
<1> USE DEF registry, sessions, clients, snapshots
<1>2. CASE Start(p)
    BY <1>1, <1>2, TaskFrame DEF Start
<1>3. CASE StartTasks(p)
    BY <1>1, <1>3, TaskFrame DEF StartTasks
<1>4. CASE (\E n \in Names : Register(p, n)) \/ Unlink(p) \/ Bind(p) \/ SetPermissions(p)
    BY <1>1, <1>4, TaskFrame DEF Register, Unlink, Bind, SetPermissions
<1>5. CASE Stop(p)
    <2> DEFINE over == Orphaned(p) \union ({p} \intersect Reporting)
    <2>1. /\ task' = [q \in Readers |-> IF q \in over THEN "done" ELSE task[q]]
          /\ loaded' = [q \in Readers |-> IF q \in over THEN NoneLoaded ELSE loaded[q]]
          /\ since' = [q \in Readers |-> IF q \in over THEN Fresh ELSE since[q]]
          /\ process' = [process EXCEPT ![p] = "gone"]
          /\ peer' = peer /\ said' = said
        BY <1>5 DEF Stop
    <2>2. CASE r \in over
        BY <2>1, <2>2 DEF TaskAt, Busy, Answered
    <2>3. CASE r \notin over
        <3>1. Busy(r) => ServerOf(r) # p
            BY <1>1, <2>3, ControlAssumption DEF Orphaned, ServerOf, Busy
        <3>2. Busy(r) /\ process[ServerOf(r)] = "running" => process'[ServerOf(r)] = "running"
            BY <1>1, <2>1, <3>1 DEF TaskAt
        <3> HIDE DEF over
        <3> QED
            BY <1>1, <2>1, <2>3, <3>2, TaskFrame
    <2> QED
        BY <2>2, <2>3
<1>6. CASE ServeFails(p)
    <2> DEFINE queued == {c \in Clients : peer[c] = p /\ task[c] = "queued"}
    <2>1. /\ task' = [q \in Readers |-> IF q \in queued THEN "done" ELSE task[q]]
          /\ since' = [q \in Readers |-> IF q \in queued THEN Fresh ELSE since[q]]
          /\ UNCHANGED <<process, peer, said, loaded>>
        BY <1>6 DEF ServeFails, Drop, NotAccepted
    <2>2. CASE r \in queued
        BY <1>1, <2>1, <2>2 DEF TaskAt, Busy, Answered
    <2>3. CASE r \notin queued
        <3> HIDE DEF queued
        <3> QED
            BY <1>1, <2>1, <2>3, TaskFrame
    <2> QED
        BY <2>2, <2>3
<1>7. ASSUME NEW c \in Clients, Accept(p, c)
      PROVE  TaskAt(r)'
    <2>1. /\ task[c] = "queued" /\ task' = [task EXCEPT ![c] = "read"]
          /\ UNCHANGED <<process, peer, said, loaded, since>>
        BY <1>7 DEF Accept
    <2>2. CASE r = c
        BY <1>1, <2>1, <2>2 DEF TaskAt, Busy, Answered, ServerOf
    <2>3. CASE r # c
        BY <1>1, <2>1, <2>3, TaskFrame
    <2> QED
        BY <2>2, <2>3
<1> QED
    BY <1>2, <1>3, <1>4, <1>5, <1>6, <1>7

\* TaskInv, when a client does something.
LEMMA TaskOfClient ==
    ASSUME ControlInv, NEW r \in Readers, NEW c \in Clients,
           \/ Connect(c) \/ Leave(c) \/ Close(c) \/ ReadLine(c) \/ Answer(c)
           \/ \E line \in Requests[c] : Say(c, line)
    PROVE  TaskAt(r)'
<1>1. /\ TaskAt(r) /\ c \in Readers
      /\ task \in [Readers -> {"idle", "queued", "read", "lock", "load", "answer", "done"}]
      /\ said \in [Clients -> {"nothing", "stats", "other", "garbage"}]
      /\ peer \in [Clients -> Processes \union {None}]
      /\ since \in [Readers -> Progress]
      /\ loaded = [q \in Readers |-> loaded[q]]
    BY DEF ControlInv, TypeOK, TaskInv, LoadedType, Readers
<1> USE DEF registry, sessions, clients, snapshots
<1>2. CASE r # c
    <2>1. /\ process' = process
          /\ task'[r] = task[r] /\ since'[r] = since[r] /\ loaded'[r] = loaded[r]
          /\ r \in Clients => peer'[r] = peer[r] /\ said'[r] = said[r]
        BY <1>1, <1>2 DEF Connect, Leave, Close, ReadLine, Answer, Say, Clear
    <2> QED
        BY <1>1, <2>1, TaskFrame
<1>3. CASE r = c /\ Connect(c)
    <2>1. path \in Processes /\ process[path] = "running"
        BY <1>3 DEF Connect, ControlInv, TypeOK, ProcessInv
    <2>2. task[c] = "idle" /\ task'[c] = "queued" /\ peer'[c] = path
          /\ UNCHANGED <<process, said, since, loaded>>
        BY <1>1, <1>3 DEF Connect
    <2> QED
        BY <1>1, <1>3, <2>1, <2>2 DEF TaskAt, Busy, Answered, ServerOf
<1>4. CASE r = c /\ Leave(c)
    <2>1. /\ said'[c] = IF said[c] = "nothing" THEN "other" ELSE said[c]
          /\ UNCHANGED <<process, task, peer, since, loaded>>
        BY <1>1, <1>4 DEF Leave
    <2> QED
        BY <1>1, <1>4, <2>1 DEF TaskAt, Busy, Answered, ServerOf
<1>5. CASE r = c /\ Close(c)
    <2>1. task[c] = "done" /\ task'[c] = "idle" /\ UNCHANGED <<since, loaded>>
        BY <1>1, <1>5 DEF Close
    <2> QED
        BY <1>1, <1>5, <2>1 DEF TaskAt, Busy, Answered
<1>6. CASE r = c /\ ReadLine(c)
    <2>1. /\ task[c] = "read"
          /\ task'[c] = CASE said[c] = "stats" -> "lock"
                          [] said[c] = "garbage" -> "done"
                          [] OTHER -> "answer"
          /\ UNCHANGED <<process, peer, said, since, loaded>>
        BY <1>1, <1>6 DEF ReadLine
    <2> QED
        BY <1>1, <1>6, <2>1 DEF TaskAt, Busy, Answered, ServerOf
<1>7. CASE r = c /\ Answer(c)
    <2>1. task'[c] = "done" /\ since'[c] = Fresh /\ loaded'[c] = NoneLoaded
        BY <1>1, <1>7 DEF Answer, Clear
    <2> QED
        BY <1>1, <1>7, <2>1 DEF TaskAt, Busy, Answered
<1>8. ASSUME r = c, NEW line \in Requests[c], Say(c, line)
      PROVE  TaskAt(r)'
    <2>1. /\ task[c] \in {"queued", "read"} /\ said'[c] = line
          /\ said[c] = "nothing"
          /\ since'[c] = IF line = "stats" THEN Now ELSE since[c]
          /\ UNCHANGED <<process, task, peer, loaded>>
        BY <1>1, <1>8 DEF Say
    <2> QED
        BY <1>1, <1>8, <2>1 DEF TaskAt, Busy, Answered, ServerOf
<1> QED
    BY <1>2, <1>3, <1>4, <1>5, <1>6, <1>7, <1>8

\* TaskInv, when a reader does.
LEMMA TaskOfReader ==
    ASSUME ControlInv, NEW r \in Readers, NEW q \in Readers,
           \/ Lock(q) \/ Unlock(q) \/ \E n \in Names : Load(q, n)
           \/ q \in Reporting /\ (Tick(q) \/ Report(q))
    PROVE  TaskAt(r)'
<1>1. /\ TaskAt(r)
      /\ TypeOK /\ LoadedType
      /\ task \in [Readers -> {"idle", "queued", "read", "lock", "load", "answer", "done"}]
      /\ since \in [Readers -> Progress]
      /\ loaded = [s \in Readers |-> loaded[s]]
    BY DEF ControlInv, TypeOK, TaskInv, LoadedType
<1> USE DEF registry, sessions, clients, snapshots
<1>2. CASE r # q
    <2>1. /\ task'[r] = task[r] /\ since'[r] = since[r] /\ loaded'[r] = loaded[r]
          /\ UNCHANGED <<process, peer, said>>
        BY <1>1, <1>2 DEF Lock, Unlock, Load, Tick, Report, Clear
    <2> QED
        BY <1>1, <2>1, TaskFrame
<1>3. CASE r = q /\ Lock(q)
    <2>1. /\ task[q] = "lock" /\ task'[q] = "load"
          /\ UNCHANGED <<process, peer, said, since, loaded>>
        BY <1>1, <1>3 DEF Lock
    <2> QED
        BY <1>1, <1>3, <2>1 DEF TaskAt, Busy, Answered, ServerOf
<1>4. CASE r = q /\ Unlock(q)
    <2>1. /\ task[q] = "load" /\ task'[q] = "answer"
          /\ DOMAIN loaded[q] = registered[ServerOf(q)] \X ToSet(Fields)
          /\ UNCHANGED <<process, peer, said, since, loaded>>
        BY <1>1, <1>4 DEF Unlock
    <2>2. ServerOf(q) \in Processes /\ process[ServerOf(q)] = "running"
        BY <1>1, <1>4, <2>1 DEF TaskAt, Busy
    <2>3. DOMAIN loaded[q] = Counters
        BY <2>1, <2>2 DEF ControlInv, ProcessInv, Counters
    <2> QED
        BY <1>1, <1>4, <2>1, <2>3 DEF TaskAt, Busy, Answered, ServerOf
<1>5. ASSUME r = q, NEW n \in Names, Load(q, n)
      PROVE  TaskAt(r)'
    <2>1. /\ task[q] = "load"
          /\ UNCHANGED <<process, task, peer, said, since>>
        BY <1>5 DEF Load
    <2> QED
        BY <1>1, <1>5, <2>1 DEF TaskAt, Busy, Answered, ServerOf
<1>6. CASE r = q /\ q \in Reporting /\ Tick(q)
    <2>1. /\ process[q] = "running" /\ task[q] = "idle" /\ task'[q] = "lock"
          /\ UNCHANGED <<process, peer, said, loaded>>
        BY <1>1, <1>6 DEF Tick
    <2>2. q \in Processes /\ q \notin Clients
        BY <1>6, ServerOfTicker
    <2> QED
        BY <1>1, <1>6, <2>1, <2>2 DEF TaskAt, Busy, Answered, ServerOf
<1>7. CASE r = q /\ q \in Reporting /\ Report(q)
    <2>1. task'[q] = "idle" /\ since'[q] = Fresh /\ loaded'[q] = NoneLoaded
        BY <1>1, <1>7 DEF Report, Clear
    <2> QED
        BY <1>1, <1>7, <2>1 DEF TaskAt, Busy, Answered
<1> QED
    BY <1>2, <1>3, <1>4, <1>5, <1>6, <1>7

\* TaskInv, through every step.
LEMMA TaskInvStep ==
    ASSUME ControlInv, [Next]_vars
    PROVE  TaskInv'
<1> SUFFICES ASSUME NEW r \in Readers PROVE TaskAt(r)'
    BY DEF TaskInv, Readers
<1>1. TaskAt(r)
    BY DEF ControlInv, TaskInv
<1>2. ASSUME UNCHANGED <<process, task, peer, said, since, loaded>>
      PROVE  TaskAt(r)'
    BY <1>1, <1>2, TaskFrame
<1>3. ASSUME NEW p \in Processes,
             \/ Start(p) \/ StartTasks(p) \/ Stop(p) \/ \E n \in Names : Register(p, n)
             \/ Unlink(p) \/ Bind(p) \/ SetPermissions(p) \/ ServeFails(p)
             \/ \E c \in Clients : Accept(p, c)
      PROVE  TaskAt(r)'
    BY <1>3, TaskOfProcess
<1>4. ASSUME NEW c \in Clients,
             \/ Connect(c) \/ Leave(c) \/ Close(c) \/ ReadLine(c) \/ Answer(c)
             \/ \E line \in Requests[c] : Say(c, line)
      PROVE  TaskAt(r)'
    BY <1>4, TaskOfClient
<1>5. ASSUME NEW q \in Readers,
             \/ Lock(q) \/ Unlock(q) \/ \E n \in Names : Load(q, n)
             \/ q \in Reporting /\ (Tick(q) \/ Report(q))
      PROVE  TaskAt(r)'
    BY <1>5, TaskOfReader
<1>6. ASSUME NEW s \in Sessions, SessionAction(s)
      PROVE  TaskAt(r)'
    BY <1>2, <1>6, SessionStep DEF GoesOn, ControlInv, clients, snapshots
<1>7. ASSUME UNCHANGED vars
      PROVE  TaskAt(r)'
    BY <1>2, <1>7 DEF vars, clients, snapshots
<1> QED
    BY <1>3, <1>4, <1>5, <1>6, <1>7 DEF Next, SessionAction, Readers

----------------------------------------------------------------------------
(* The counters.                                                           *)

\* Of sessions that have done nothing, every field counts nothing.
LEMMA FreshTally ==
    ASSUME NEW set, NEW f \in ToSet(Fields), set \subseteq Sessions
    PROVE  Tally(set, Fresh, f) = 0
<1>1. \A P : "new" \notin P => Reached(set, Fresh, P) = 0
    <2> SUFFICES ASSUME NEW P, "new" \notin P PROVE Reached(set, Fresh, P) = 0
        OBVIOUS
    <2>1. {s \in set : Fresh.stage[s] \in P} = {}
        BY DEF Fresh
    <2> QED
        BY <2>1, FS_EmptySet DEF Reached
<1>2. \A d \in Directions : Chunks(set, Fresh, d) = 0
    <2> SUFFICES ASSUME NEW d \in Directions PROVE Chunks(set, Fresh, d) = 0
        OBVIOUS
    <2>1. Numbered(set, Fresh, d) = {}
        BY NumberedArePairs DEF Fresh
    <2> QED
        BY <2>1, FS_EmptySet, ChunksType, FreshIsProgress
<1> QED
    BY <1>1, <1>2, FieldsAre DEF Tally, Counted, Opened, Failed, Off, Directions

\* Steps that change no counter and no session keep CountInv.
LEMMA CountFrame ==
    ASSUME CountInv, UNCHANGED <<count, stage, moved>>,
           \A p \in Processes : process'[p] # "gone" => process[p] # "gone"
    PROVE  CountInv'
<1>1. Now' = Now
    BY DEF Now
<1> QED
    BY <1>1 DEF CountInv, SessionsAt

\* All steps do: each is as much on the counter as on the session.
LEMMA CountInvStep ==
    ASSUME ControlInv, [Next]_vars
    PROVE  CountInv'
<1>1. TypeOK /\ CountInv
    BY DEF ControlInv
<1>2. ASSUME UNCHANGED <<process, count, stage, moved>>
      PROVE  CountInv'
    BY <1>1, <1>2, CountFrame
<1> USE DEF registry, sessions, clients, snapshots
<1>3. ASSUME NEW p \in Processes, Start(p) \/ StartTasks(p)
      PROVE  CountInv'
    BY <1>1, <1>3, CountFrame DEF Start, StartTasks, Workers, TypeOK
<1>4. ASSUME NEW p \in Processes, Stop(p)
      PROVE  CountInv'
    <2>1. /\ process' = [process EXCEPT ![p] = "gone"]
          /\ count' = [count EXCEPT ![p] = [x \in Counters |-> 0]]
          /\ stage' = [s \in Sessions |-> IF Home[s] = p THEN "closed" ELSE stage[s]]
          /\ moved' = [s \in Sessions |-> IF Home[s] = p THEN Fresh.moved[s] ELSE moved[s]]
        BY <1>4 DEF Stop
    <2>2. SUFFICES ASSUME NEW q \in Processes, process'[q] # "gone",
                          NEW n \in Names, NEW f \in ToSet(Fields)
                   PROVE  count'[q][<<n, f>>] = Tally(SessionsAt(q, n), Now', f)
        BY DEF CountInv, SessionsAt
    <2>3. q # p /\ process[q] # "gone" /\ count'[q] = count[q]
        BY <1>1, <2>1, <2>2 DEF TypeOK
    <2>4. \A s \in SessionsAt(q, n) : Now'.stage[s] = Now.stage[s] /\ Now'.moved[s] = Now.moved[s]
        BY <2>1, <2>3 DEF SessionsAt, Now
    <2>5. Tally(SessionsAt(q, n), Now', f) = Tally(SessionsAt(q, n), Now, f)
        BY <2>4, TallySame
    <2> QED
        BY <1>1, <2>3, <2>5 DEF CountInv
<1>5. ASSUME NEW p \in Processes,
             \/ \E n \in Names : Register(p, n)
             \/ Unlink(p) \/ Bind(p) \/ SetPermissions(p) \/ ServeFails(p)
             \/ \E c \in Clients : Accept(p, c)
      PROVE  CountInv'
    BY <1>2, <1>5 DEF Register, Unlink, Bind, SetPermissions, ServeFails, Drop, NotAccepted, Accept
<1>6. ASSUME NEW c \in Clients,
             \/ Connect(c) \/ Leave(c) \/ Close(c) \/ ReadLine(c) \/ Answer(c)
             \/ \E line \in Requests[c] : Say(c, line)
      PROVE  CountInv'
    BY <1>2, <1>6 DEF Connect, Leave, Close, ReadLine, Answer, Say
<1>7. ASSUME NEW p \in Reporting, Tick(p) \/ Report(p)
      PROVE  CountInv'
    BY <1>2, <1>7 DEF Tick, Report
<1>8. ASSUME NEW r \in Readers, Lock(r) \/ Unlock(r) \/ \E n \in Names : Load(r, n)
      PROVE  CountInv'
    BY <1>2, <1>8 DEF Lock, Unlock, Load
<1>9. ASSUME NEW s \in Sessions, SessionAction(s)
      PROVE  CountInv'
    BY <1>1, <1>9, SessionStep DEF GoesOn
<1>10. ASSUME UNCHANGED vars
       PROVE  CountInv'
    BY <1>2, <1>10 DEF vars
<1> QED
    BY <1>3, <1>4, <1>5, <1>6, <1>7, <1>8, <1>9, <1>10 DEF Next, SessionAction

----------------------------------------------------------------------------
(* What readers have loaded.                                               *)

ReadAt(r) == SinceAt(r) /\ LoadAt(r)

\* The sessions of a reader's server go on; the reader does nothing.
LEMMA ReadGoesOn ==
    ASSUME NEW r \in Readers, ReadAt(r),
           since[r] \in Progress, Now \in Progress, Now' \in Progress,
           since'[r] = since[r], loaded'[r] = loaded[r], ServerOf(r)' = ServerOf(r),
           Precedes(Now, Now', SessionsOf(r))
    PROVE  ReadAt(r)'
<1>1. SessionsOf(r)' = SessionsOf(r) /\ SessionsOf(r) \subseteq Sessions
    BY DEF SessionsOf
<1>2. Precedes(since[r], Now, SessionsOf(r))
    BY DEF ReadAt, SinceAt
<1>3. Precedes(since[r], Now', SessionsOf(r))
    BY <1>1, <1>2, PrecedesAgain
<1>4. SinceAt(r)'
    BY <1>1, <1>3 DEF SinceAt
<1>5. ASSUME NEW n \in Names, NEW f \in ToSet(Fields), <<n, f>> \in DOMAIN loaded'[r]
      PROVE  loaded'[r][<<n, f>>] \in
                 Low(Of(r, n)', since'[r], Now', f) .. High(Of(r, n)', since'[r], Now', f)
    <2> DEFINE set == Of(r, n)
               v == loaded[r][<<n, f>>]
    <2>1. Of(r, n)' = set /\ set \subseteq Sessions /\ set \subseteq SessionsOf(r)
        BY DEF Of, SessionsOf
    <2>2. v \in Low(set, since[r], Now, f) .. High(set, since[r], Now, f)
        BY <1>5 DEF ReadAt, LoadAt
    <2>3. Precedes(since[r], Now, set) /\ Precedes(Now, Now', set)
        BY <1>2, <2>1 DEF Precedes
    <2> HIDE DEF set, v
    <2>4. v \in Low(set, since[r], Now', f) .. High(set, since[r], Now', f)
        BY <2>1, <2>2, <2>3, BoundsWiden
    <2> QED
        BY <2>1, <2>4 DEF v
<1>6. LoadAt(r)'
    BY <1>5 DEF LoadAt
<1> QED
    BY <1>4, <1>6 DEF ReadAt

\* A reader has loaded nothing for a request that is sent now, or none.
LEMMA ReadAfresh ==
    ASSUME NEW r \in Readers, Now' \in Progress,
           loaded'[r] = NoneLoaded, since'[r] = Fresh \/ since'[r] = Now'
    PROVE  ReadAt(r)'
<1>1. DOMAIN loaded'[r] = {}
    BY DEF NoneLoaded
<1>2. SessionsOf(r)' \subseteq Sessions
    BY DEF SessionsOf
<1>3. SinceAt(r)'
    BY <1>2, FreshPrecedes, PrecedesSelf DEF SinceAt
<1>4. LoadAt(r)'
    BY <1>1 DEF LoadAt
<1> QED
    BY <1>3, <1>4 DEF ReadAt

\* Nothing changes for a reader.
LEMMA ReadFrame ==
    ASSUME TypeOK, NEW r \in Readers, ReadAt(r), UNCHANGED <<stage, moved>>,
           since'[r] = since[r], loaded'[r] = loaded[r], ServerOf(r)' = ServerOf(r)
    PROVE  ReadAt(r)'
<1>1. Now' = Now
    BY DEF Now
<1>2. /\ SessionsOf(r)' = SessionsOf(r)
      /\ \A n \in Names : Of(r, n)' = Of(r, n)
    BY DEF Of, SessionsOf
<1> QED
    BY <1>1, <1>2 DEF ReadAt, SinceAt, LoadAt

\* What is loaded stays between its bounds when a process stops.
LEMMA ReadOfStop ==
    ASSUME ControlInv, TypeOK', NEW r \in Readers, NEW p \in Processes, Stop(p)
    PROVE  ReadAt(r)'
<1> DEFINE over == Orphaned(p) \union ({p} \intersect Reporting)
<1>1. /\ loaded' = [q \in Readers |-> IF q \in over THEN NoneLoaded ELSE loaded[q]]
      /\ since' = [q \in Readers |-> IF q \in over THEN Fresh ELSE since[q]]
      /\ stage' = [s \in Sessions |-> IF Home[s] = p THEN "closed" ELSE stage[s]]
      /\ moved' = [s \in Sessions |-> IF Home[s] = p THEN Fresh.moved[s] ELSE moved[s]]
      /\ peer' = peer
    BY DEF Stop
<1>2. Now \in Progress /\ Now' \in Progress /\ since[r] \in Progress
    BY DEF ControlInv, TypeOK
<1>3. CASE r \in over
    BY <1>1, <1>2, <1>3, ReadAfresh
<1>4. CASE r \notin over /\ ~Busy(r)
    <2>1. since[r] = Fresh /\ loaded[r] = NoneLoaded
        BY <1>4 DEF ControlInv, TaskInv, TaskAt, Busy
    <2> QED
        BY <1>1, <1>2, <1>4, <2>1, ReadAfresh
<1>5. CASE r \notin over /\ Busy(r)
    <2>1. ServerOf(r) # p
        BY <1>5, ControlAssumption DEF Orphaned, ServerOf, Busy, Readers
    <2>2. \A s \in SessionsOf(r) : stage'[s] = stage[s] /\ moved'[s] = moved[s]
        BY <1>1, <2>1 DEF SessionsOf
    <2>3. Precedes(Now, Now, SessionsOf(r))
        BY <1>2, PrecedesSelf DEF SessionsOf
    <2>4. Precedes(Now, Now', SessionsOf(r))
        BY <2>2, <2>3 DEF Precedes, Now
    <2>5. ServerOf(r)' = ServerOf(r)
        BY <1>1 DEF ServerOf
    <2>6. since'[r] = since[r] /\ loaded'[r] = loaded[r]
        BY <1>1, <1>5
    <2>7. ReadAt(r)
        BY DEF ControlInv, SinceInv, LoadInv, ReadAt
    <2> HIDE DEF over
    <2> QED
        BY <1>2, <2>4, <2>5, <2>6, <2>7, ReadGoesOn
<1> QED
    BY <1>3, <1>4, <1>5

\* It does when a session goes on.
LEMMA ReadOfSession ==
    ASSUME ControlInv, NEW r \in Readers, NEW s \in Sessions, SessionAction(s)
    PROVE  ReadAt(r)'
<1>1. GoesOn(s)
    BY SessionStep DEF ControlInv
<1>2. Now \in Progress /\ Now' \in Progress /\ since[r] \in Progress
    BY <1>1 DEF ControlInv, TypeOK, GoesOn
<1>3. Precedes(Now, Now', SessionsOf(r))
    <2>1. PICK to \in Onwards(stage[s]) :
             \A t \in Sessions : stage'[t] = IF t = s THEN to ELSE stage[t]
        BY <1>1 DEF GoesOn
    <2>2. \A t \in Sessions : stage[t] \in Stages /\ stage[t] \in Onwards(stage[t])
        BY NowType, OnwardsAgain DEF ControlInv
    <2>3. \A t \in Sessions : stage'[t] \in Onwards(stage[t])
        BY <2>1, <2>2
    <2>4. \A t \in Sessions, d \in Directions : moved[t][d] =< moved'[t][d]
        BY <1>1 DEF GoesOn
    <2>5. SessionsOf(r) \subseteq Sessions
        BY DEF SessionsOf
    <2> QED
        BY <2>3, <2>4, <2>5 DEF Precedes, Now
<1>4. ServerOf(r)' = ServerOf(r) /\ since'[r] = since[r] /\ loaded'[r] = loaded[r]
    BY <1>1 DEF GoesOn, ServerOf, clients, snapshots
<1>5. ReadAt(r)
    BY DEF ControlInv, SinceInv, LoadInv, ReadAt
<1> QED
    BY <1>2, <1>3, <1>4, <1>5, ReadGoesOn

\* It does when a reader loads a counter.
LEMMA ReadOfLoad ==
    ASSUME ControlInv, NEW r \in Readers, NEW n \in Names, Load(r, n)
    PROVE  ReadAt(r)'
<1>1. PICK f \in ToSet(Fields) :
         /\ task[r] = "load"
         /\ <<n, f>> \in Counters
         /\ DOMAIN loaded'[r] = DOMAIN loaded[r] \union {<<n, f>>}
         /\ loaded'[r][<<n, f>>] = count[ServerOf(r)][<<n, f>>]
         /\ \A y \in DOMAIN loaded[r] : y # <<n, f>> => loaded'[r][y] = loaded[r][y]
    BY LoadEffect DEF ControlInv
<1>2. /\ UNCHANGED <<process, stage, moved, peer, since>>
      /\ Now' = Now /\ ServerOf(r)' = ServerOf(r)
    BY DEF Load, sessions, clients, Now, ServerOf
<1>3. ServerOf(r) \in Processes /\ process[ServerOf(r)] = "running"
    BY <1>1 DEF ControlInv, TaskInv, TaskAt, Busy
<1>4. SinceAt(r) /\ LoadAt(r) /\ Now \in Progress /\ since[r] \in Progress
    BY DEF ControlInv, SinceInv, LoadInv, TypeOK
<1>5. /\ \A m \in Names : Of(r, m)' = Of(r, m)
      /\ SessionsOf(r)' = SessionsOf(r)
      /\ Of(r, n) = SessionsAt(ServerOf(r), n)
      /\ Of(r, n) \subseteq Sessions /\ Of(r, n) \subseteq SessionsOf(r)
    BY <1>2 DEF Of, SessionsOf, SessionsAt
<1>6. count[ServerOf(r)][<<n, f>>] = Tally(Of(r, n), Now, f)
    BY <1>3, <1>5 DEF ControlInv, CountInv
<1>7. Precedes(since[r], Now, Of(r, n))
    BY <1>4, <1>5 DEF SinceAt, Precedes
<1>8. Tally(Of(r, n), Now, f) \in Low(Of(r, n), since[r], Now, f) .. High(Of(r, n), since[r], Now, f)
    BY <1>4, <1>5, <1>7, TallyInBounds
<1>9. ASSUME NEW m \in Names, NEW g \in ToSet(Fields), <<m, g>> \in DOMAIN loaded'[r]
      PROVE  loaded'[r][<<m, g>>] \in Low(Of(r, m), since[r], Now, g) .. High(Of(r, m), since[r], Now, g)
    <2>1. CASE m = n /\ g = f
        BY <1>1, <1>6, <1>8, <2>1
    <2>2. CASE ~(m = n /\ g = f)
        <3>1. <<m, g>> \in DOMAIN loaded[r] /\ loaded'[r][<<m, g>>] = loaded[r][<<m, g>>]
            BY <1>1, <1>9, <2>2
        <3> QED
            BY <1>4, <3>1 DEF LoadAt
    <2> QED
        BY <2>1, <2>2
<1>10. LoadAt(r)'
    BY <1>2, <1>5, <1>9 DEF LoadAt
<1>11. SinceAt(r)'
    BY <1>2, <1>4, <1>5 DEF SinceAt
<1> QED
    BY <1>10, <1>11 DEF ReadAt

\* It does through every step.
LEMMA ReadStep ==
    ASSUME ControlInv, TypeOK', [Next]_vars
    PROVE  SinceInv' /\ LoadInv'
<1> SUFFICES ASSUME NEW r \in Readers PROVE ReadAt(r)'
    BY DEF SinceInv, LoadInv, ReadAt, Readers
<1>1. /\ TypeOK /\ LoadedType /\ ReadAt(r) /\ TaskAt(r)
      /\ Now' \in Progress
      /\ since \in [Readers -> Progress] /\ loaded = [q \in Readers |-> loaded[q]]
      /\ peer \in [Clients -> Processes \union {None}]
    BY DEF ControlInv, TypeOK, SinceInv, LoadInv, TaskInv, ReadAt, LoadedType
<1>2. ASSUME UNCHANGED <<stage, moved, since, loaded, peer>>
      PROVE  ReadAt(r)'
    BY <1>1, <1>2, ReadFrame DEF ServerOf
<1> USE DEF registry, sessions, clients, snapshots
<1>3. ASSUME NEW p \in Processes,
             \/ Start(p) \/ StartTasks(p) \/ \E n \in Names : Register(p, n)
             \/ Unlink(p) \/ Bind(p) \/ SetPermissions(p)
             \/ \E c \in Clients : Accept(p, c)
      PROVE  ReadAt(r)'
    BY <1>2, <1>3 DEF Start, StartTasks, Register, Unlink, Bind, SetPermissions, Accept
<1>4. ASSUME NEW p \in Processes, Stop(p)
      PROVE  ReadAt(r)'
    BY <1>4, ReadOfStop
<1>5. ASSUME NEW p \in Processes, ServeFails(p)
      PROVE  ReadAt(r)'
    <2> DEFINE queued == {c \in Clients : peer[c] = p /\ task[c] = "queued"}
    <2>1. /\ since' = [q \in Readers |-> IF q \in queued THEN Fresh ELSE since[q]]
          /\ UNCHANGED <<stage, moved, peer, loaded>>
        BY <1>5 DEF ServeFails, Drop, NotAccepted
    <2>2. CASE r \in queued
        <3>1. loaded[r] = NoneLoaded
            BY <1>1, <2>2 DEF TaskAt
        <3> QED
            BY <1>1, <2>1, <2>2, <3>1, ReadAfresh
    <2>3. CASE r \notin queued
        <3> HIDE DEF queued
        <3>1. since'[r] = since[r]
            BY <2>1, <2>3
        <3>2. ServerOf(r)' = ServerOf(r)
            BY <2>1 DEF ServerOf
        <3> QED
            BY <1>1, <2>1, <3>1, <3>2, ReadFrame
    <2> QED
        BY <2>2, <2>3
<1>6. ASSUME NEW c \in Clients, Leave(c) \/ ReadLine(c)
      PROVE  ReadAt(r)'
    BY <1>2, <1>6 DEF Leave, ReadLine
<1>7. ASSUME NEW c \in Clients, r # c, UNCHANGED <<stage, moved>>,
             since'[r] = since[r], loaded'[r] = loaded[r], r \in Clients => peer'[r] = peer[r]
      PROVE  ReadAt(r)'
    BY <1>1, <1>7, ReadFrame DEF ServerOf
<1>8. ASSUME NEW c \in Clients, Connect(c) \/ Close(c)
      PROVE  ReadAt(r)'
    <2>1. CASE r = c
        <3>1. loaded[r] = NoneLoaded /\ since[r] = Fresh
            BY <1>1, <1>8, <2>1 DEF Connect, Close, TaskAt, Busy
        <3>2. since' = since /\ loaded' = loaded
            BY <1>8 DEF Connect, Close
        <3> QED
            BY <1>1, <3>1, <3>2, ReadAfresh
    <2>2. CASE r # c
        BY <1>1, <1>7, <1>8, <2>2 DEF Connect, Close
    <2> QED
        BY <2>1, <2>2
<1>9. ASSUME NEW c \in Clients, Answer(c)
      PROVE  ReadAt(r)'
    <2>1. c \in Readers
        BY DEF Readers
    <2>2. CASE r = c
        BY <1>1, <1>9, <2>1, <2>2, ReadAfresh DEF Answer, Clear
    <2>3. CASE r # c
        BY <1>1, <1>7, <1>9, <2>1, <2>3 DEF Answer, Clear
    <2> QED
        BY <2>2, <2>3
<1>10. ASSUME NEW c \in Clients, NEW line \in Requests[c], Say(c, line)
       PROVE  ReadAt(r)'
    <2>1. CASE r = c /\ line = "stats"
        <3>1. task[r] \in {"queued", "read"} /\ loaded' = loaded /\ since'[r] = Now
              /\ UNCHANGED <<stage, moved>>
            BY <1>1, <1>10, <2>1 DEF Say
        <3>2. loaded[r] = NoneLoaded /\ Now' = Now
            BY <1>1, <3>1 DEF TaskAt, Now
        <3> QED
            BY <1>1, <3>1, <3>2, ReadAfresh
    <2>2. CASE r # c \/ line # "stats"
        <3>1. UNCHANGED <<stage, moved, loaded, peer>> /\ since'[r] = since[r]
            BY <1>1, <1>10, <2>2 DEF Say
        <3>2. ServerOf(r)' = ServerOf(r)
            BY <3>1 DEF ServerOf
        <3> QED
            BY <1>1, <3>1, <3>2, ReadFrame
    <2> QED
        BY <2>1, <2>2
<1>11. ASSUME NEW p \in Reporting, Tick(p) \/ Report(p)
       PROVE  ReadAt(r)'
    <2>1. p \in Readers /\ UNCHANGED <<stage, moved, peer>>
        BY <1>11, ServerOfTicker DEF Tick, Report
    <2>2. ServerOf(r)' = ServerOf(r)
        BY <2>1 DEF ServerOf
    <2>3. CASE r # p
        <3>1. since'[r] = since[r] /\ loaded'[r] = loaded[r]
            BY <1>1, <1>11, <2>1, <2>3 DEF Tick, Report, Clear
        <3> QED
            BY <1>1, <2>1, <2>2, <3>1, ReadFrame
    <2>4. CASE r = p /\ Tick(p)
        <3>1. loaded[r] = NoneLoaded /\ loaded' = loaded /\ since'[r] = Now
            BY <1>1, <2>1, <2>4 DEF Tick, TaskAt
        <3>2. Now' = Now
            BY <2>1 DEF Now
        <3> QED
            BY <1>1, <3>1, <3>2, ReadAfresh
    <2>5. CASE r = p /\ Report(p)
        <3>1. loaded'[r] = NoneLoaded /\ since'[r] = Fresh
            BY <1>1, <2>1, <2>5 DEF Report, Clear
        <3> QED
            BY <1>1, <3>1, ReadAfresh
    <2> QED
        BY <1>11, <2>3, <2>4, <2>5
<1>12. ASSUME NEW q \in Readers, Lock(q) \/ Unlock(q)
       PROVE  ReadAt(r)'
    BY <1>2, <1>12 DEF Lock, Unlock
<1>13. ASSUME NEW q \in Readers, NEW n \in Names, Load(q, n)
       PROVE  ReadAt(r)'
    <2>1. CASE r = q
        BY <1>13, <2>1, ReadOfLoad
    <2>2. CASE r # q
        <3>1. UNCHANGED <<stage, moved, peer, since>> /\ loaded'[r] = loaded[r]
            BY <1>1, <1>13, <2>2 DEF Load
        <3>2. ServerOf(r)' = ServerOf(r)
            BY <3>1 DEF ServerOf
        <3> QED
            BY <1>1, <3>1, <3>2, ReadFrame
    <2> QED
        BY <2>1, <2>2
<1>14. ASSUME NEW s \in Sessions, SessionAction(s)
       PROVE  ReadAt(r)'
    BY <1>14, ReadOfSession
<1>15. ASSUME UNCHANGED vars
       PROVE  ReadAt(r)'
    BY <1>2, <1>15 DEF vars
<1> QED
    BY <1>3, <1>4, <1>5, <1>6, <1>8, <1>9, <1>10, <1>11, <1>12, <1>13, <1>14, <1>15
       DEF Next, SessionAction

----------------------------------------------------------------------------
(* The theorems.                                                           *)

\* The invariant holds in the first states.
LEMMA InitInv == Init => ControlInv
<1> SUFFICES ASSUME Init PROVE ControlInv
    OBVIOUS
<1>1. TypeOK /\ LoadedType
    BY InitType
<1>2. Now = Fresh
    BY DEF Init, Now, Fresh
<1>3. ProcessInv
    BY DEF Init, ProcessInv, Alive
<1>4. TaskInv
    BY DEF Init, TaskInv, TaskAt, Busy, Answered, Readers
<1>5. CountInv
    <2>1. \A p \in Processes, n \in Names, f \in ToSet(Fields) :
             /\ count[p][<<n, f>>] = 0
             /\ SessionsAt(p, n) \subseteq Sessions
        BY DEF Init, Counters, SessionsAt
    <2> QED
        BY <1>2, <2>1, FreshTally DEF CountInv
<1>6. \A r \in Readers : since[r] = Fresh /\ loaded[r] = NoneLoaded
    BY DEF Init
<1>7. SinceInv
    <2>1. \A r \in Readers : SessionsOf(r) \subseteq Sessions
        BY DEF SessionsOf
    <2> QED
        BY <1>2, <1>6, <2>1, PrecedesSelf, FreshIsProgress DEF SinceInv, SinceAt
<1>8. LoadInv
    BY <1>6 DEF LoadInv, LoadAt, NoneLoaded
<1> QED
    BY <1>1, <1>3, <1>4, <1>5, <1>7, <1>8 DEF ControlInv

\* Every step keeps it.
LEMMA InvStep == ControlInv /\ [Next]_vars => ControlInv'
<1> SUFFICES ASSUME ControlInv, [Next]_vars PROVE ControlInv'
    OBVIOUS
<1>1. TypeOK' /\ LoadedType'
    BY TypeStep
<1> QED
    BY <1>1, ProcessInvStep, TaskInvStep, CountInvStep, ReadStep DEF ControlInv

\* In every state, each counter is what its sessions have done, and what a reader
\* has loaded is between what they had done when it was asked and now
\* (stats.rs:78-126, control.rs:20-73).
THEOREM ControlInvHolds == Spec => []ControlInv
BY InitInv, InvStep, PTL DEF Spec

\* The state has its type: among it, that no counter goes below zero, however
\* sessions fail and end (stats.rs).
THEOREM TypeCorrect == Spec => []TypeOK
<1>1. ControlInv => TypeOK
    BY DEF ControlInv
<1> QED
    BY <1>1, ControlInvHolds, PTL

\* A control task ends only by an error of the system, whatever a process
\* before it left behind (control.rs:20-23).
THEOREM EndsByFaultOnlyHolds == Spec => []EndsByFaultOnly
<1>1. ControlInv => EndsByFaultOnly
    BY DEF ControlInv, ProcessInv, EndsByFaultOnly
<1> QED
    BY <1>1, ControlInvHolds, PTL

\* Every answer has a row for every enabled pipeline (main.rs:486, 546).
THEOREM AnswersAreCompleteHolds == Spec => []AnswersAreComplete
<1>1. ControlInv => AnswersAreComplete
    BY DEF ControlInv, TaskInv, TaskAt, AnswersAreComplete
<1> QED
    BY <1>1, ControlInvHolds, PTL

\* No answer is older than its request, or ahead of its sessions
\* (control.rs:48, stats.rs:57).
THEOREM AnswersAreTimelyHolds == Spec => []AnswersAreTimely
<1>1. ASSUME ControlInv, NEW r \in Readers, Answered(r), NEW n \in Names, NEW f \in ToSet(Fields)
      PROVE  loaded[r][<<n, f>>] \in Low(Of(r, n), since[r], Now, f) .. High(Of(r, n), since[r], Now, f)
    <2>1. <<n, f>> \in DOMAIN loaded[r]
        BY <1>1 DEF ControlInv, TaskInv, TaskAt, Counters
    <2> QED
        BY <1>1, <2>1 DEF ControlInv, LoadInv, LoadAt
<1>2. ControlInv => AnswersAreTimely
    <2> SUFFICES ASSUME ControlInv, NEW r \in Readers, Answered(r), NEW n \in Names
                 PROVE  LET got(f) == loaded[r][<<n, f>>]
                            all == Of(r, n)
                            were(stages) == Reached(all, since[r], stages)
                            are(stages) == Reached(all, Now, stages)
                        IN /\ got("connections_total") \in were(Counted) .. are(Counted)
                           /\ got("errors_total") \in were(Failed) .. are(Failed)
                           /\ got("connections_active") \in
                                 Cardinality({s \in all : since[r].stage[s] \in Opened \ Off
                                                          /\ stage[s] \in Opened \ Off})
                                 .. Cardinality({s \in all : since[r].stage[s] \notin Off
                                                             /\ stage[s] \in Opened})
                           /\ got("bytes_in") \in Chunks(all, since[r], "in") .. Chunks(all, Now, "in")
                           /\ got("bytes_out") \in Chunks(all, since[r], "out") .. Chunks(all, Now, "out")
        BY DEF AnswersAreTimely
    <2>1. \A f \in {"bytes_in", "bytes_out", "connections_total", "connections_active",
                    "errors_total"} :
             loaded[r][<<n, f>>] \in Low(Of(r, n), since[r], Now, f) .. High(Of(r, n), since[r], Now, f)
        BY <1>1, FieldsAre
    <2>2. Now.stage = stage
        BY DEF Now
    <2> QED
        BY <2>1, <2>2 DEF Low, High, Tally
<1> QED
    BY <1>2, ControlInvHolds, PTL
=============================================================================
