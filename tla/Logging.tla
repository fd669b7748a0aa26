------------------------------- MODULE Logging -------------------------------
(***************************************************************************)
(* Payload logging: log_chunk, called by the session tasks of all the      *)
(* pipelines on the runtime's threads, with what they share: the           *)
(* BufferPool, standard output and the capture log's file.                 *)
(*                                                                         *)
(* The bytes of a chunk are a short sequence of letters, and a pattern of  *)
(* the filter or the redactor is one letter.  A record stands for what a   *)
(* chunk is rendered to, whatever its format and colour.                   *)
(***************************************************************************)
EXTENDS Integers, SequencesExt, Selection

CONSTANTS
    Writers,      \* the session tasks; a task logs one chunk at a time
    Letters,      \* what bytes are made of
    Chunks,       \* what sessions read: a direction and the bytes of one read
    Output,       \* the OutputSpec of each writer's pipeline
    Buffers,      \* the allocations of the pool's byte buffers
    MaxIdle,      \* the pool's max_idle, 64 in the code
    MaxChunks,    \* bound: the chunks that each writer logs in one process
    MaxFaults     \* bound: failed writes to the file, and restarts

Mask == "*"
None == "none"
Directions == {"in", "out"}

ASSUME DataAssumption ==
    /\ Mask \notin Letters
    /\ Chunks \subseteq [direction : Directions, bytes : Seq(Letters)]
    /\ Output \in [Writers -> [enabled : BOOLEAN, min_bytes : Nat,
                               directions : SUBSET Directions,
                               contains : SUBSET Letters, redact : SUBSET Letters]]
\* The allocator has memory for a buffer of every writer.
ASSUME BufferAssumption ==
    /\ IsFiniteSet(Writers)
    /\ \A S \in SUBSET Buffers :
          IsFiniteSet(S) /\ Cardinality(S) < Cardinality(Writers) => S # Buffers
    /\ None \notin Buffers \union Writers
ASSUME BoundAssumption ==
    /\ MaxIdle \in Nat
    /\ MaxChunks \in [Writers -> Nat]
    /\ MaxFaults \in Nat

VARIABLES
    pc,        \* per writer: where its log_chunk is
    held,      \* per writer: the buffer of its Packet
    mem,       \* the contents of the buffers
    free,      \* the pool's stack of idle buffers
    stdout,    \* the records that this process has printed
    captures,  \* whether this process could open the capture log
    lock,      \* which writer holds the mutex of the file
    file,      \* the file's lines, each the sequence of what is written on it;
               \* the last one is not ended yet
    process,   \* history: which process it is, counted from 0
    offered,   \* history, per writer: the chunks passed to log_chunk
    lost,      \* history, per writer: the records that the file did not take
    faults     \* history: how many writes have failed and processes were killed

pool == <<held, mem, free>>
log == <<captures, lock, file>>
history == <<process, offered, lost, faults>>
vars == <<pc, pool, stdout, log, history>>

Text == Letters \union {Mask}
Records == [writer : Writers, process : Nat, bytes : Seq(Text), whole : BOOLEAN]
Record(w, whole) ==
    [writer |-> w, process |-> process, bytes |-> mem[held[w]], whole |-> whole]

TypeOK ==
    /\ pc \in [Writers -> {"idle", "print", "lock", "line", "newline", "recycle", "gone"}]
    /\ held \in [Writers -> Buffers \union {None}]
    /\ mem \in [Buffers -> Seq(Text)]
    /\ free \in Seq(Buffers) /\ Len(free) <= MaxIdle
    /\ stdout \in Seq(Records)
    /\ captures \in BOOLEAN
    /\ lock \in Writers \union {None}
    /\ file \in Seq(Seq(Records)) \ {<<>>}
    /\ {process, faults} \subseteq Nat
    /\ offered \in [Writers -> Seq(Chunks)]
    /\ lost \in [Writers -> Nat]

Init ==
    /\ pc = [w \in Writers |-> "idle"]
    /\ held = [w \in Writers |-> None]
    /\ mem = [b \in Buffers |-> <<>>]
    /\ free = <<>>
    /\ stdout = <<>>
    /\ captures \in BOOLEAN
    /\ lock = None
    /\ file = <<<<>>>>
    /\ process = 0
    /\ offered = [w \in Writers |-> <<>>]
    /\ lost = [w \in Writers |-> 0]
    /\ faults = 0

----------------------------------------------------------------------------
(* PacketFilter and Redactor.                                              *)

\* All three conditions must hold; a profile that sets no direction has both
\* in directions, and contains has one letter or none.
Matches(spec, direction, bytes) ==
    /\ Len(bytes) >= spec.min_bytes
    /\ direction \in spec.directions
    /\ spec.contains \subseteq ToSet(bytes)

Redacted(spec, bytes) ==
    [i \in DOMAIN bytes |-> IF bytes[i] \in spec.redact THEN Mask ELSE bytes[i]]

\* Mutant: the redactor runs before the filter.
SeesRedacted(spec, direction, bytes) == Matches(spec, direction, Redacted(spec, bytes))

\* The filter sees the bytes as they were read.
Wanted(spec, direction, bytes) == Matches(spec, direction, bytes)

----------------------------------------------------------------------------
(* log_chunk.                                                              *)

Offer(w, chunk) ==
    /\ pc[w] = "idle"
    /\ Len(offered[w]) < MaxChunks[w]
    /\ offered' = [offered EXCEPT ![w] = Append(@, chunk)]
    /\ UNCHANGED <<stdout, log, process, lost, faults>>

\* A pipeline with logging off returns before it builds a Packet.
Skip(w, chunk) ==
    /\ Offer(w, chunk)
    /\ ~Output[w].enabled
    /\ UNCHANGED <<pc, pool>>

Allocated == ToSet(free) \union {held[w] : w \in Writers}

\* acquire() pops an idle buffer, or allocates one if there is none; which
\* address the allocator returns makes no difference.
Acquired ==
    IF free # <<>> THEN Last(free) ELSE CHOOSE b \in Buffers : b \notin Allocated

\* Mutant: the buffer that acquire() hands out stays in the pool.
Unpopped == free

Popped == IF free # <<>> THEN Front(free) ELSE free

\* Packet::pooled, the filter and the redactor: a packet that is not wanted
\* goes back to the pool as it is.
BuildPacket(w, chunk) ==
    /\ Offer(w, chunk)
    /\ Output[w].enabled
    /\ LET b == Acquired
           packet == mem[b] \o chunk.bytes
           wanted == Wanted(Output[w], chunk.direction, packet)
       IN /\ held' = [held EXCEPT ![w] = b]
          /\ mem' = [mem EXCEPT ![b] = IF wanted THEN Redacted(Output[w], packet) ELSE packet]
          /\ pc' = [pc EXCEPT ![w] = IF wanted THEN "print" ELSE "recycle"]
    /\ free' = Popped

\* println! holds the lock of standard output for the whole record.
PrintLine(w) ==
    /\ pc[w] = "print"
    /\ stdout' = Append(stdout, Record(w, TRUE))
    /\ pc' = [pc EXCEPT ![w] = IF captures THEN "lock" ELSE "recycle"]
    /\ UNCHANGED <<pool, log, history>>

\* println! panics: the task unwinds, and its buffer is deallocated.
PrintPanics(w) ==
    /\ pc[w] = "print"
    /\ pc' = [pc EXCEPT ![w] = "gone"]
    /\ mem' = [mem EXCEPT ![held[w]] = <<>>]
    /\ held' = [held EXCEPT ![w] = None]
    /\ UNCHANGED <<free, stdout, log, history>>

\* Mutant: try_lock(), and the record is dropped if another writer is busy.
TryLockFile(w) ==
    /\ pc[w] = "lock"
    /\ lock' = IF lock = None THEN w ELSE lock
    /\ pc' = [pc EXCEPT ![w] = IF lock = None THEN "line" ELSE "recycle"]
    /\ UNCHANGED <<pool, stdout, captures, file, history>>

\* Mutant: the file is not behind a mutex.
NoLock(w) ==
    /\ pc[w] = "lock"
    /\ lock' = w
    /\ pc' = [pc EXCEPT ![w] = "line"]
    /\ UNCHANGED <<pool, stdout, captures, file, history>>

\* CaptureLog::write_line, up to WriteFails.
LockFile(w) ==
    /\ pc[w] = "lock"
    /\ lock = None
    /\ lock' = w
    /\ pc' = [pc EXCEPT ![w] = "line"]
    /\ UNCHANGED <<pool, stdout, captures, file, history>>

\* What is written goes to the end of the file's last line.
Put(piece) == Append(Front(file), Append(Last(file), piece))

\* writeln! writes the record and then the newline, by a write_all() of each.
WriteRecord(w) ==
    /\ pc[w] = "line"
    /\ file' = Put(Record(w, TRUE))
    /\ pc' = [pc EXCEPT ![w] = "newline"]
    /\ UNCHANGED <<pool, stdout, captures, lock, history>>

Unlock(w) ==
    /\ lock' = None
    /\ pc' = [pc EXCEPT ![w] = "recycle"]

WriteNewline(w) ==
    /\ pc[w] = "newline"
    /\ file' = Append(file, <<>>)
    /\ Unlock(w)
    /\ UNCHANGED <<pool, stdout, captures, history>>

\* Mutant: the early return on an error leaves the file locked.
FailsLocked(w) ==
    /\ pc[w] \in {"line", "newline"}
    /\ faults < MaxFaults
    /\ pc' = [pc EXCEPT ![w] = "recycle"]
    /\ lost' = [lost EXCEPT ![w] = IF pc[w] = "line" THEN @ + 1 ELSE @]
    /\ faults' = faults + 1
    /\ UNCHANGED <<pool, stdout, log, process, offered>>

\* One of the two writes fails, for example on a full disk, after a part of
\* it or nothing was written; the error is logged and the packet done with.
WriteFails(w) ==
    /\ pc[w] \in {"line", "newline"}
    /\ faults < MaxFaults
    /\ file' \in {file} \union (IF pc[w] = "line" THEN {Put(Record(w, FALSE))} ELSE {})
    /\ lost' = [lost EXCEPT ![w] = IF pc[w] = "line" THEN @ + 1 ELSE @]
    /\ faults' = faults + 1
    /\ Unlock(w)
    /\ UNCHANGED <<pool, stdout, captures, process, offered>>

\* Mutant: release() does not look at max_idle.
ParkAlways(b) == Append(free, b)

\* release() deallocates the buffer if enough of them are idle.
Park(b) == IF Len(free) < MaxIdle THEN Append(free, b) ELSE free

\* Packet::recycle.
Recycle(w) ==
    /\ pc[w] = "recycle"
    /\ mem' = [mem EXCEPT ![held[w]] = <<>>]
    /\ free' = Park(held[w])
    /\ held' = [held EXCEPT ![w] = None]
    /\ pc' = [pc EXCEPT ![w] = "idle"]
    /\ UNCHANGED <<stdout, log, history>>

\* The process is killed and started again, and opens the file to append.
Restart ==
    /\ faults < MaxFaults
    /\ faults' = faults + 1
    /\ process' = process + 1
    /\ pc' = [w \in Writers |-> "idle"]
    /\ held' = [w \in Writers |-> None]
    /\ mem' = [b \in Buffers |-> <<>>]
    /\ free' = <<>>
    /\ stdout' = <<>>
    /\ captures' \in BOOLEAN
    /\ lock' = None
    /\ offered' = [w \in Writers |-> <<>>]
    /\ lost' = [w \in Writers |-> 0]
    /\ UNCHANGED file

----------------------------------------------------------------------------
Calls(w) == \E chunk \in Chunks : Skip(w, chunk) \/ BuildPacket(w, chunk)

Runs(w) ==
    \/ PrintLine(w) \/ PrintPanics(w)
    \/ LockFile(w) \/ WriteRecord(w) \/ WriteNewline(w) \/ WriteFails(w)
    \/ Recycle(w)

\* Every writer has logged what it had to log.
Silent ==
    /\ \A w \in Writers :
          pc[w] = "gone" \/ (pc[w] = "idle" /\ Len(offered[w]) = MaxChunks[w])
    /\ UNCHANGED vars

Next == (\E w \in Writers : Calls(w) \/ Runs(w)) \/ Restart \/ Silent

\* A call of log_chunk waits for nothing but the mutex of the file.
Fairness == \A w \in Writers : WF_vars(Runs(w))

Spec == Init /\ [][Next]_vars
FairSpec == Spec /\ Fairness

----------------------------------------------------------------------------
(* Safety.                                                                 *)

\* A buffer is in the pool once, or in one packet, or nowhere, and whatever
\* is not in a packet is empty: no packet starts with bytes of another one
\* (buffer.rs 31-46, lib.rs 273-319).
BuffersHaveOneOwner ==
    /\ IsInjective(free)
    /\ \A w \in Writers :
          /\ held[w] = None <=> pc[w] \in {"idle", "gone"}
          /\ held[w] # None =>
                held[w] \notin ToSet(free) \union {held[v] : v \in Writers \ {w}}
    /\ \A b \in Buffers : b \notin {held[w] : w \in Writers} => mem[b] = <<>>

Bytes(records) == [i \in DOMAIN records |-> records[i].bytes]
Printed(w) == Bytes(Kept(stdout, {r \in Records : r.writer = w}))
InPrint(w) == IF pc[w] = "print" THEN <<mem[held[w]]>> ELSE <<>>

\* What the configuration says is to be printed of what w has read.
Due(w) ==
    LET spec == Output[w]
        wanted == Kept(offered[w], {c \in Chunks : spec.enabled /\ Matches(spec, c.direction, c.bytes)})
    IN [i \in DOMAIN wanted |-> Redacted(spec, wanted[i].bytes)]

\* Of every session exactly the chunks that its pipeline's output profile
\* selects are printed, redacted, in the order they were read, whatever
\* other sessions log with the same pool (lib.rs 270-288).  A session whose
\* println! panics loses that chunk.
PrintsWhatIsDue ==
    \A w \in Writers :
        Printed(w) \o InPrint(w) = IF pc[w] = "gone" THEN Front(Due(w)) ELSE Due(w)

Captured(w) ==
    Bytes(Kept(FlattenSeq(file),
               {r \in Records : r.writer = w /\ r.process = process /\ r.whole}))

IsSubsequence(s, t) ==
    \E at \in [DOMAIN s -> DOMAIN t] :
        \A i, j \in DOMAIN s : (i < j => at[i] < at[j]) /\ s[i] = t[at[i]]

\* The file is a second sink of the same records: it has what was printed,
\* in the order of each session, less what a failed write lost and the
\* record that is about to be written (README 118-120).
CapturesWhatIsPrinted ==
    captures =>
        \A w \in Writers :
            /\ IsSubsequence(Captured(w), Printed(w))
            /\ Len(Printed(w)) =
                  Len(Captured(w)) + lost[w] + (IF pc[w] \in {"lock", "line"} THEN 1 ELSE 0)

\* The lines that are not one whole record; the last line is not ended yet.
TornLines ==
    {i \in 1..Len(file) - 1 : Len(file[i]) # 1 \/ ~file[i][1].whole}

\* Sessions never mix their records on a line: every torn line comes from a
\* failed write or a kill of its own (lib.rs 43-51).
TornByFaultsOnly == Cardinality(TornLines) <= faults

----------------------------------------------------------------------------
(* Liveness, under Fairness.                                               *)

\* A call of log_chunk returns or panics: no path keeps the mutex.  It is
\* bounded by MaxChunks: nothing makes the mutex fair to a waiting session.
LogReturns == \A w \in Writers : pc[w] # "idle" ~> pc[w] \in {"idle", "gone"}
=============================================================================
