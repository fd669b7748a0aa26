------------------------------ MODULE Control -------------------------------
(***************************************************************************)
(* The StatsRegistry and those who read it while sessions count: the       *)
(* control socket of src/control.rs, with a task per connection, and the   *)
(* stats ticker of main.  The socket's path outlives the process that      *)
(* bound it, and the next process finds it.                                *)
(*                                                                         *)
(* A reader takes the registry's mutex and loads the counters one by one;  *)
(* the sessions, which hold their own Arc of them, do not take the mutex.  *)
(***************************************************************************)
EXTENDS Integers, FiniteSetsExt, SequencesExt

CONSTANTS
    Processes,    \* the runs of the program, one at a time, with control_socket set
    Names,        \* the names of the enabled pipelines
    Sessions,     \* client connections of the pipelines
    Home,         \* the process of each session
    NameOf,       \* the pipeline of each session
    Clients,      \* the clients of the control socket, one connection at a time
    Requests,     \* what each client may send
    Reporting,    \* the processes with stats_interval_secs > 0
    MaxChunks,    \* bound: the chunks that each session forwards each way
    MaxFaults     \* bound: bind, set_permissions and accept errors

None == "none"
Directions == {"in", "out"}
Fields == <<"bytes_in", "bytes_out", "connections_total", "connections_active", "errors_total">>
Counters == Names \X ToSet(Fields)

\* A reader is a control connection's task, or the ticker of a process, which
\* is named after it.
Readers == Clients \union Reporting

ASSUME ControlAssumption ==
    /\ IsFiniteSet(Sessions)
    /\ Reporting \subseteq Processes
    /\ Clients \intersect Processes = {}
    /\ None \notin Processes \union Clients
    /\ Home \in [Sessions -> Processes]
    /\ NameOf \in [Sessions -> Names]
    /\ Requests \in [Clients -> SUBSET {"stats", "other", "garbage"}]
    /\ MaxChunks \in [Sessions -> [Directions -> Nat]]
    /\ MaxFaults \in Nat

VARIABLES
    process,     \* what each process does
    registered,  \* per process: the names in the registry's map
    count,       \* per process: the counters
    lock,        \* per process: the reader that holds the registry's mutex
    control,     \* per process: where the task of control::serve is
    path,        \* the process whose listener the socket's path leads to; it
                 \* may be gone
    stage,       \* per session: how far its task has come
    moved,       \* per session: the chunks it has counted each way
    task,        \* per reader: where it is
    peer,        \* per client: the process it connected to
    said,        \* per client: what it has sent
    here,        \* per client: whether it waits for the answer
    reply,       \* per client: what it got before the connection closed
    loaded,      \* per reader: the counters it has loaded so far
    since,       \* history, per reader: the sessions when it was asked
    faults       \* history: how many errors there have been

registry == <<registered, count, lock>>
sessions == <<stage, moved>>
clients == <<peer, said, here, reply>>
snapshots == <<loaded, since>>
vars == <<process, registry, control, path, sessions, task, clients, snapshots, faults>>

Stages == {"new", "counted", "open", "failed", "closed", "aborted"}
Progress == [stage : [Sessions -> Stages], moved : [Sessions -> [Directions -> Nat]]]
Now == [stage |-> stage, moved |-> moved]
Fresh == [stage |-> [s \in Sessions |-> "new"],
          moved |-> [s \in Sessions |-> [d \in Directions |-> 0]]]
NoneLoaded == [x \in {} |-> 0]

Alive == {p \in Processes : process[p] \in {"starting", "running"}}
ServerOf(r) == IF r \in Clients THEN peer[r] ELSE r

TypeOK ==
    /\ process \in [Processes -> {"down", "starting", "running", "gone"}]
    /\ registered \in [Processes -> SUBSET Names]
    /\ count \in [Processes -> [Counters -> Nat]]
    /\ lock \in [Processes -> Readers \union {None}]
    /\ control \in [Processes -> {"off", "unlink", "bind", "chmod", "accept", "ended"}]
    /\ path \in Processes \union {None}
    /\ Now \in Progress
    /\ task \in [Readers -> {"idle", "queued", "read", "lock", "load", "answer", "done"}]
    /\ peer \in [Clients -> Processes \union {None}]
    /\ said \in [Clients -> {"nothing", "stats", "other", "garbage"}]
    /\ here \in [Clients -> BOOLEAN]
    /\ reply \in [Clients -> {None, "stats", "error", "closed"}]
    /\ \A r \in Readers :
          DOMAIN loaded[r] \subseteq Counters /\ \A x \in DOMAIN loaded[r] : loaded[r][x] \in Nat
    /\ since \in [Readers -> Progress]
    /\ faults \in 0 .. MaxFaults

Init ==
    /\ process = [p \in Processes |-> "down"]
    /\ registered = [p \in Processes |-> {}]
    /\ count = [p \in Processes |-> [x \in Counters |-> 0]]
    /\ lock = [p \in Processes |-> None]
    /\ control = [p \in Processes |-> "off"]
    /\ path = None
    /\ stage = Fresh.stage
    /\ moved = Fresh.moved
    /\ task = [r \in Readers |-> "idle"]
    /\ peer = [c \in Clients |-> None]
    /\ said = [c \in Clients |-> "nothing"]
    /\ here = [c \in Clients |-> TRUE]
    /\ reply = [c \in Clients |-> None]
    /\ loaded = [r \in Readers |-> NoneLoaded]
    /\ since = [r \in Readers |-> Fresh]
    /\ faults = 0

----------------------------------------------------------------------------
(* main: the registry is filled while the workers are spawned, and the      *)
(* control task is started after that.                                     *)

Start(p) ==
    /\ process[p] = "down"
    /\ Alive = {}
    /\ process' = [process EXCEPT ![p] = "starting"]
    /\ UNCHANGED <<registry, control, path, sessions, task, clients, snapshots, faults>>

\* get_or_create.
Register(p, n) ==
    /\ p \in Alive
    /\ n \notin registered[p]
    /\ lock[p] = None
    /\ registered' = [registered EXCEPT ![p] = @ \union {n}]
    /\ UNCHANGED <<process, count, lock, control, path, sessions, task, clients, snapshots, faults>>

\* Mutant: the control task is started before the workers.
StartsFirst(p) == process[p] = "starting" /\ control[p] = "off"

Workers(p) == process[p] = "starting" /\ registered[p] = Names

StartTasks(p) ==
    /\ Workers(p)
    /\ process' = [process EXCEPT ![p] = "running"]
    /\ control' = [control EXCEPT ![p] = "unlink"]
    /\ UNCHANGED <<registry, path, sessions, task, clients, snapshots, faults>>

Orphaned(p) == {c \in Clients : peer[c] = p /\ task[c] \notin {"idle", "done"}}

\* The connections in gone are closed before they were answered.
Disconnect(gone) ==
    reply' = [c \in Clients |-> IF c \in gone /\ here[c] THEN "closed" ELSE reply[c]]

\* The process is killed, or main returns and its tasks are aborted:
\* the sessions and the counters are gone, the socket's path is not removed.
Stop(p) ==
    /\ p \in Alive
    /\ process' = [process EXCEPT ![p] = "gone"]
    /\ control' = [control EXCEPT ![p] = "off"]
    /\ lock' = [lock EXCEPT ![p] = None]
    /\ Disconnect(Orphaned(p))
    /\ LET over == Orphaned(p) \union ({p} \intersect Reporting)
       IN /\ task' = [r \in Readers |-> IF r \in over THEN "done" ELSE task[r]]
          /\ loaded' = [r \in Readers |-> IF r \in over THEN NoneLoaded ELSE loaded[r]]
          /\ since' = [r \in Readers |-> IF r \in over THEN Fresh ELSE since[r]]
    /\ count' = [count EXCEPT ![p] = [x \in Counters |-> 0]]
    /\ stage' = [s \in Sessions |-> IF Home[s] = p THEN "closed" ELSE stage[s]]
    /\ moved' = [s \in Sessions |-> IF Home[s] = p THEN Fresh.moved[s] ELSE moved[s]]
    /\ UNCHANGED <<registered, path, peer, said, here, faults>>

----------------------------------------------------------------------------
(* control::serve.                                                         *)

\* Mutant: a socket that is already there is left in place.
LeftBehind == path

Removed == None

\* remove_file, whose errors are ignored.
Unlink(p) ==
    /\ control[p] = "unlink"
    /\ path' = Removed
    /\ control' = [control EXCEPT ![p] = "bind"]
    /\ UNCHANGED <<process, registry, sessions, task, clients, snapshots, faults>>

Bind(p) ==
    /\ control[p] = "bind"
    /\ path = None
    /\ path' = p
    /\ control' = [control EXCEPT ![p] = "chmod"]
    /\ UNCHANGED <<process, registry, sessions, task, clients, snapshots, faults>>

SetPermissions(p) ==
    /\ control[p] = "chmod"
    /\ control' = [control EXCEPT ![p] = "accept"]
    /\ UNCHANGED <<process, registry, path, sessions, task, clients, snapshots, faults>>

\* Mutant: the tasks are in a JoinSet of serve, and end with it.
WithItsTasks(p) == {c \in Clients : peer[c] = p /\ task[c] \in {"queued", "read"}}

NotAccepted(p) == {c \in Clients : peer[c] = p /\ task[c] = "queued"}

\* Serve returns, and its listener is dropped with the connections that it
\* has not accepted; their clients see them closed.
Drop(p) ==
    /\ control' = [control EXCEPT ![p] = "ended"]
    /\ Disconnect(NotAccepted(p))
    /\ task' = [r \in Readers |-> IF r \in NotAccepted(p) THEN "done" ELSE task[r]]
    /\ since' = [r \in Readers |-> IF r \in NotAccepted(p) THEN Fresh ELSE since[r]]
    /\ UNCHANGED <<process, registry, path, sessions, peer, said, here, loaded>>

\* A path that exists makes bind() fail with "address in use".
Refused(p) == control[p] = "bind" /\ path # None

\* bind() fails, for that or another reason, or set_permissions() or accept()
\* does.
ServeFails(p) ==
    /\ control[p] \in {"bind", "chmod", "accept"}
    /\ Refused(p) \/ faults < MaxFaults
    /\ Drop(p)
    /\ faults' = IF Refused(p) THEN faults ELSE faults + 1

\* Mutant: the connection is served by the loop itself.
FreeToAccept(p) ==
    /\ control[p] = "accept"
    /\ \A c \in Clients : peer[c] = p => task[c] \in {"idle", "queued", "done"}

Accepting(p) == control[p] = "accept"

\* accept() and the spawn of the connection's task.
Accept(p, c) ==
    /\ Accepting(p)
    /\ peer[c] = p /\ task[c] = "queued"
    /\ task' = [task EXCEPT ![c] = "read"]
    /\ UNCHANGED <<process, registry, control, path, sessions, clients, snapshots, faults>>

----------------------------------------------------------------------------
(* The clients of the socket: wf-tui, or a script.                         *)

Connect(c) ==
    /\ task[c] = "idle"
    /\ path # None
    /\ control[path] \in {"chmod", "accept"}
    /\ peer' = [peer EXCEPT ![c] = path]
    /\ task' = [task EXCEPT ![c] = "queued"]
    /\ UNCHANGED <<process, registry, control, path, sessions, said, here, reply, snapshots, faults>>

\* A stats request, another line or the end of the stream without one, or a
\* line that is not UTF-8.
Say(c, line) ==
    /\ task[c] \in {"queued", "read"}
    /\ said[c] = "nothing" /\ here[c]
    /\ said' = [said EXCEPT ![c] = line]
    /\ since' = [since EXCEPT ![c] = IF line = "stats" THEN Now ELSE @]
    /\ UNCHANGED <<process, registry, control, path, sessions, task, peer, here, reply, loaded, faults>>

\* The client has its answer, or sees that there is none; it may connect again.
Close(c) ==
    /\ task[c] = "done"
    /\ task' = [task EXCEPT ![c] = "idle"]
    /\ peer' = [peer EXCEPT ![c] = None]
    /\ said' = [said EXCEPT ![c] = "nothing"]
    /\ here' = [here EXCEPT ![c] = TRUE]
    /\ reply' = [reply EXCEPT ![c] = None]
    /\ UNCHANGED <<process, registry, control, path, sessions, snapshots, faults>>

\* The client closes its end without waiting for an answer.
Leave(c) ==
    /\ task[c] \notin {"idle", "done"}
    /\ here[c]
    /\ here' = [here EXCEPT ![c] = FALSE]
    /\ said' = [said EXCEPT ![c] = IF @ = "nothing" THEN "other" ELSE @]
    /\ UNCHANGED <<process, registry, control, path, sessions, task, peer, reply, snapshots, faults>>

----------------------------------------------------------------------------
(* handle_connection, snapshot_all and the ticker.                         *)

\* read_line and parse_command: a stats request goes on to the registry, a
\* line that is not UTF-8 ends the task, and all else is answered at once.
ReadLine(c) ==
    /\ task[c] = "read"
    /\ said[c] # "nothing"
    /\ task' = [task EXCEPT ![c] = CASE said[c] = "stats" -> "lock"
                                     [] said[c] = "garbage" -> "done"
                                     [] OTHER -> "answer"]
    /\ Disconnect(IF said[c] = "garbage" THEN {c} ELSE {})
    /\ UNCHANGED <<process, registry, control, path, sessions, peer, said, here, snapshots, faults>>

Tick(p) ==
    /\ process[p] = "running"
    /\ task[p] = "idle"
    /\ task' = [task EXCEPT ![p] = "lock"]
    /\ since' = [since EXCEPT ![p] = Now]
    /\ UNCHANGED <<process, registry, control, path, sessions, clients, loaded, faults>>

Lock(r) ==
    /\ task[r] = "lock"
    /\ lock[ServerOf(r)] = None
    /\ lock' = [lock EXCEPT ![ServerOf(r)] = r]
    /\ task' = [task EXCEPT ![r] = "load"]
    /\ UNCHANGED <<process, registered, count, control, path, sessions, clients, snapshots, faults>>

\* The rows come in the order of the map, which is any, and the five relaxed
\* loads of a row in the order of the source: each may be reordered, but a
\* counter is loaded at some moment between Lock and Unlock in both cases.
Load(r, n) ==
    LET row == {x \in DOMAIN loaded[r] : x[1] = n}
        x == <<n, Fields[Cardinality(row) + 1]>>
    IN /\ task[r] = "load"
       /\ n \in registered[ServerOf(r)]
       /\ Cardinality(row) < Len(Fields)
       /\ \A m \in Names \ {n} : Cardinality({y \in DOMAIN loaded[r] : y[1] = m}) \in {0, Len(Fields)}
       /\ loaded' = [loaded EXCEPT ![r] =
             [y \in DOMAIN @ \union {x} |-> IF y = x THEN count[ServerOf(r)][x] ELSE @[y]]]
       /\ UNCHANGED <<process, registry, control, path, sessions, task, clients, since, faults>>

Unlock(r) ==
    /\ task[r] = "load"
    /\ DOMAIN loaded[r] = registered[ServerOf(r)] \X ToSet(Fields)
    /\ lock' = [lock EXCEPT ![ServerOf(r)] = None]
    /\ task' = [task EXCEPT ![r] = "answer"]
    /\ UNCHANGED <<process, registered, count, control, path, sessions, clients, snapshots, faults>>

Clear(r) ==
    /\ loaded' = [loaded EXCEPT ![r] = NoneLoaded]
    /\ since' = [since EXCEPT ![r] = Fresh]

\* The answer is written, and the connection closed; an error of the write,
\* to a client that has left, is ignored.
Answer(c) ==
    /\ task[c] = "answer"
    /\ task' = [task EXCEPT ![c] = "done"]
    /\ reply' = [reply EXCEPT ![c] = IF ~here[c] THEN @
                                     ELSE IF said[c] = "stats" THEN "stats" ELSE "error"]
    /\ Clear(c)
    /\ UNCHANGED <<process, registry, control, path, sessions, peer, said, here, faults>>

\* The ticker logs what it has read.
Report(p) ==
    /\ task[p] = "answer"
    /\ task' = [task EXCEPT ![p] = "idle"]
    /\ Clear(p)
    /\ UNCHANGED <<process, registry, control, path, sessions, clients, faults>>

----------------------------------------------------------------------------
(* The session tasks' updates of the counters, each one atomic operation.  *)

Add(s, field, n) ==
    count' = [count EXCEPT ![Home[s]][<<NameOf[s], field>>] = @ + n]

\* The pipelines run as soon as they are registered, and until the process ends.
Runs(s) == Home[s] \in Alive /\ NameOf[s] \in registered[Home[s]]

Step(s, from, to) ==
    /\ Runs(s)
    /\ stage[s] = from
    /\ stage' = [stage EXCEPT ![s] = to]
    /\ UNCHANGED <<process, registered, lock, control, path, moved, task, clients, snapshots, faults>>

CountTotal(s) == Step(s, "new", "counted") /\ Add(s, "connections_total", 1)

CountActive(s) == Step(s, "counted", "open") /\ Add(s, "connections_active", 1)

\* Mutant: the error path counts the session off, and so does its end.
CountsOffToo(s) ==
    /\ Step(s, "open", "failed")
    /\ count' = [count EXCEPT ![Home[s]][<<NameOf[s], "errors_total">>] = @ + 1,
                              ![Home[s]][<<NameOf[s], "connections_active">>] = @ - 1]

CountError(s) == Step(s, "open", "failed") /\ Add(s, "errors_total", 1)

\* Mutant: a session that failed returns before it is counted off.
LeaksOnError(s) ==
    \/ Step(s, "open", "closed") /\ Add(s, "connections_active", -1)
    \/ Step(s, "failed", "aborted") /\ UNCHANGED count

CountOff(s) ==
    /\ Step(s, "open", "closed") \/ Step(s, "failed", "aborted")
    /\ Add(s, "connections_active", -1)

\* A forwarding loop counts a chunk that it has read.
CountChunk(s, d) ==
    /\ Runs(s)
    /\ stage[s] = "open"
    /\ moved[s][d] < MaxChunks[s][d]
    /\ moved' = [moved EXCEPT ![s][d] = @ + 1]
    /\ Add(s, IF d = "in" THEN "bytes_in" ELSE "bytes_out", 1)
    /\ UNCHANGED <<process, registered, lock, control, path, stage, task, clients, snapshots, faults>>

----------------------------------------------------------------------------
Next ==
    \/ \E p \in Processes :
          \/ Start(p) \/ StartTasks(p) \/ Stop(p)
          \/ \E n \in Names : Register(p, n)
          \/ Unlink(p) \/ Bind(p) \/ SetPermissions(p) \/ ServeFails(p)
          \/ \E c \in Clients : Accept(p, c)
    \/ \E c \in Clients :
          \/ Connect(c) \/ Leave(c) \/ Close(c) \/ ReadLine(c) \/ Answer(c)
          \/ \E line \in Requests[c] : Say(c, line)
    \/ \E p \in Reporting : Tick(p) \/ Report(p)
    \/ \E r \in Readers : Lock(r) \/ Unlock(r) \/ \E n \in Names : Load(r, n)
    \/ \E s \in Sessions :
          \/ CountTotal(s) \/ CountActive(s) \/ CountError(s) \/ CountOff(s)
          \/ \E d \in Directions : CountChunk(s, d)

Spec == Init /\ [][Next]_vars

\* The runtime polls tasks that are ready, and the kernel hands over queued
\* connections.  The mutex is not fair, but those who compete for it are the
\* ticker, which sleeps between two ticks, and the clients.  Clients, sessions
\* and faults come as they like.
FairSpec ==
    /\ Spec
    /\ \A p \in Processes :
          /\ WF_vars(Unlink(p)) /\ WF_vars(Bind(p)) /\ WF_vars(SetPermissions(p))
          /\ \A c \in Clients : WF_vars(Accept(p, c))
    /\ \A c \in Clients : WF_vars(ReadLine(c)) /\ WF_vars(Answer(c))
    /\ \A p \in Reporting : WF_vars(Report(p))
    /\ \A r \in Readers :
          SF_vars(Lock(r)) /\ WF_vars(Unlock(r)) /\ WF_vars(\E n \in Names : Load(r, n))

----------------------------------------------------------------------------
(* Properties.                                                             *)

Answered(r) == task[r] = "answer" /\ (r \in Clients => said[r] = "stats")

Of(r, n) == {s \in Sessions : Home[s] = ServerOf(r) /\ NameOf[s] = n}

Counted == Stages \ {"new"}
Opened == Counted \ {"counted"}
Failed == {"failed", "aborted"}
Off == {"closed", "aborted"}

\* How many of the sessions have come to one of the stages; how many chunks
\* they have counted.
Reached(set, where, stages) == Cardinality({s \in set : where.stage[s] \in stages})
Chunks(set, where, d) == Cardinality(UNION {{s} \X (1 .. where.moved[s][d]) : s \in set})

\* A stats answer, and a [STATS] report, is never older than the request
\* (control.rs:48, stats.rs:57): what sessions had counted when the request
\* was sent is in the totals, and nothing that they did not count before the
\* answer; every session open since before the request is in the active
\* count, and none that ended before it.
AnswersAreTimely ==
    \A r \in Readers : Answered(r) => \A n \in Names :
        LET got(f) == loaded[r][<<n, f>>]
            all == Of(r, n)
            were(stages) == Reached(all, since[r], stages)
            are(stages) == Reached(all, Now, stages)
        IN <<n, "errors_total">> \in DOMAIN loaded[r] =>
           /\ got("connections_total") \in were(Counted) .. are(Counted)
           /\ got("errors_total") \in were(Failed) .. are(Failed)
           /\ got("connections_active") \in
                 Cardinality({s \in all : since[r].stage[s] \in Opened \ Off
                                          /\ stage[s] \in Opened \ Off})
                 .. Cardinality({s \in all : since[r].stage[s] \notin Off
                                             /\ stage[s] \in Opened})
           /\ got("bytes_in") \in Chunks(all, since[r], "in") .. Chunks(all, Now, "in")
           /\ got("bytes_out") \in Chunks(all, since[r], "out") .. Chunks(all, Now, "out")

\* Every answer has a row for every enabled pipeline, also for one that no
\* client has used and during the start of the process (main.rs:486, 546).
AnswersAreComplete ==
    \A r \in Readers : Answered(r) => DOMAIN loaded[r] = Counters

\* A control task ends only by an error of the system: what a process left
\* behind, however it ended, does not keep the next one from serving
\* (control.rs:20-23).
EndsByFaultOnly == \A p \in Processes : control[p] = "ended" => faults > 0

Asks(c, places) == task[c] \in places /\ said[c] \in {"stats", "other"} /\ here[c]
ClosedBy(c, cause) == reply[c] = "closed" /\ cause

\* A client that has sent a line, and stays, is accepted, also when another
\* client never sends one; only the end of the process or of the listener
\* closes its connection instead.  Once it is accepted it gets its answer,
\* also when the ticker and others read at the same time or the listener ends
\* (control.rs 33-38, 42-53); only the end of the process prevents that.
RequestsAreAnswered ==
    \A c \in Clients :
        /\ Asks(c, {"queued"}) ~>
              \/ task[c] = "read" \/ ~here[c]
              \/ ClosedBy(c, process[peer[c]] = "gone" \/ control[peer[c]] = "ended")
        /\ Asks(c, {"read", "lock", "load", "answer"}) ~>
              \/ reply[c] \in {"stats", "error"} \/ ~here[c]
              \/ ClosedBy(c, process[peer[c]] = "gone")
=============================================================================
