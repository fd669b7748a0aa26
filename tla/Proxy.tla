-------------------------------- MODULE Proxy --------------------------------
(***************************************************************************)
(* The process as a whole: one accept loop per pipeline (start_proxy), one *)
(* task per accepted client (the async block it spawns, around             *)
(* handle_session), the task that waits for a signal, and main, which      *)
(* joins the loops, closes the task tracker, drains, and returns.          *)
(*                                                                         *)
(* Each client connects at most once, to the pipeline PipelineOf gives.    *)
(* What a session forwards is the subject of module Session; here          *)
(* forwarding is the phase "relaying" and how it can end.                  *)
(***************************************************************************)
EXTENDS Integers, FiniteSets

CONSTANTS
    Pipelines,      \* the enabled [[proxies]] entries
    Sessions,       \* the clients, each of them one possible session
    Names,          \* keys of the StatsRegistry
    PipelineOf,     \* the pipeline each client connects to
    NameOf,         \* the name of each pipeline; validate() lets two share one
    AcceptMayFail,  \* TRUE: accept() may return an error, for example EMFILE
    StdoutMayFail,  \* TRUE: println! may fail, and then panics
    HandlerMayFail  \* TRUE: a signal handler may fail to be installed

ASSUME SessionsAssumption == IsFiniteSet(Sessions)
ASSUME TopologyAssumption ==
    /\ PipelineOf \in [Sessions -> Pipelines]
    /\ NameOf \in [Pipelines -> Names]
ASSUME FaultAssumption ==
    /\ AcceptMayFail \in BOOLEAN
    /\ StdoutMayFail \in BOOLEAN
    /\ HandlerMayFail \in BOOLEAN

VARIABLES
    sigtask,   \* the signal task: "starting", "waiting", "notified", "done",
               \* or "panicked"
    loop,      \* per pipeline: where its start_proxy is
    phase,     \* per client: where its connection or session task is
    failed,    \* history: the sessions whose handle_session returned an error
    total,     \* per name: connections_total
    active,    \* per name: connections_active
    errors,    \* per name: errors_total
    tracker,   \* the TaskTracker: its closed flag and its live tasks
    main,      \* main's program counter, or how the process ended
    verdict    \* which branch of main's drain select! completed

vars == <<sigtask, loop, phase, failed, total, active, errors, tracker, main, verdict>>
sessions == <<phase, failed>>
counters == <<total, active, errors>>

----------------------------------------------------------------------------
LoopStates == {"spawned", "listening", "drained", "bind_failed", "accept_failed"}
Returned == {"drained", "bind_failed", "accept_failed"}

\* A session task holds a tracker token in exactly these phases.
Tracked == {"spawned", "counted", "resolving", "connecting", "relaying",
            "failed", "closing", "leaving"}
\* ... is between fetch_add and fetch_sub of connections_active in these,
Open == {"resolving", "connecting", "relaying", "failed", "closing"}
\* ... and runs in these without an .await, so that a runtime that shuts
\* down lets it go on to the end of its poll.
MidPoll == {"counted", "failed", "closing", "leaving"}

Phases == {"idle", "backlog", "reset", "done", "panicked"} \union Tracked
PastTotal == (Tracked \ {"spawned"}) \union {"done", "panicked"}
\* handle_session has returned, and its error is counted if it had one.
Finished == {"closing", "leaving", "done"}

Name(s) == NameOf[PipelineOf[s]]
TrackedSessions == {s \in Sessions : phase[s] \in Tracked}

Cancelled == sigtask = "done"
Alive == main \notin {"exited", "killed"}

TypeOK ==
    /\ sigtask \in {"starting", "waiting", "notified", "done", "panicked"}
    /\ loop \in [Pipelines -> LoopStates]
    /\ phase \in [Sessions -> Phases]
    /\ failed \subseteq Sessions
    /\ total \in [Names -> Nat]
    /\ active \in [Names -> Nat]
    /\ errors \in [Names -> Nat]
    /\ tracker \in [closed : BOOLEAN, live : Nat]
    /\ main \in {"joining", "draining", "exiting", "exited", "killed"}
    /\ verdict \in {"none", "clean", "timeout"}

Init ==
    /\ sigtask = "starting"
    /\ loop = [p \in Pipelines |-> "spawned"]
    /\ phase = [s \in Sessions |-> "idle"]
    /\ failed = {}
    /\ total = [n \in Names |-> 0]
    /\ active = [n \in Names |-> 0]
    /\ errors = [n \in Names |-> 0]
    /\ tracker = [closed |-> FALSE, live |-> 0]
    /\ main = "joining"
    /\ verdict = "none"

----------------------------------------------------------------------------
(* The signal task.  It ends with its first signal: later ones are caught  *)
(* by the handler that stays installed, and change nothing.                *)

InstallHandler ==
    /\ Alive
    /\ sigtask = "starting"
    /\ sigtask' = "waiting"
    /\ UNCHANGED <<loop, sessions, counters, tracker, main, verdict>>

\* If SIGTERM's handler cannot be installed, expect() ends the task; if
\* Ctrl+C's cannot, the select! takes the error for the signal.
InstallFails ==
    /\ Alive
    /\ HandlerMayFail
    /\ sigtask = "starting"
    /\ sigtask' \in {"panicked", "notified"}
    /\ UNCHANGED <<loop, sessions, counters, tracker, main, verdict>>

\* SIGTERM or Ctrl+C.  While no handler is installed the default action of
\* the signal ends the process.
Signal ==
    /\ Alive
    /\ \/ /\ sigtask \in {"starting", "panicked"}
          /\ main' = "killed"
          /\ UNCHANGED sigtask
       \/ /\ sigtask = "waiting"
          /\ sigtask' = "notified"
          /\ UNCHANGED main
    /\ UNCHANGED <<loop, sessions, counters, tracker, verdict>>

CancelToken ==
    /\ Alive
    /\ sigtask = "notified"
    /\ sigtask' = "done"
    /\ UNCHANGED <<loop, sessions, counters, tracker, main, verdict>>

----------------------------------------------------------------------------
(* start_proxy.  Returning drops the listener, and the kernel then resets  *)
(* the clients that wait in its accept queue.                              *)

Bind(p) ==
    /\ Alive
    /\ loop[p] = "spawned"
    /\ \E result \in {"listening", "bind_failed"} :
          loop' = [loop EXCEPT ![p] = result]
    /\ UNCHANGED <<sigtask, sessions, counters, tracker, main, verdict>>

\* The kernel completes a client's handshake as soon as the pipeline listens.
ClientConnects(s) ==
    /\ Alive
    /\ loop[PipelineOf[s]] = "listening"
    /\ phase[s] = "idle"
    /\ phase' = [phase EXCEPT ![s] = "backlog"]
    /\ UNCHANGED <<sigtask, loop, failed, counters, tracker, main, verdict>>

\* Mutant: a bare tokio::spawn, which the tracker does not count.
AcceptUntracked(s) ==
    /\ Alive
    /\ loop[PipelineOf[s]] = "listening"
    /\ phase[s] = "backlog"
    /\ phase' = [phase EXCEPT ![s] = "spawned"]
    /\ UNCHANGED <<sigtask, loop, failed, counters, tracker, main, verdict>>

\* The accept branch of the select!.  The select! is not biased, so the
\* branch may be taken although the token is cancelled already.
Accept(s) ==
    /\ Alive
    /\ loop[PipelineOf[s]] = "listening"
    /\ phase[s] = "backlog"
    /\ phase' = [phase EXCEPT ![s] = "spawned"]
    /\ tracker' = [tracker EXCEPT !.live = @ + 1]
    /\ UNCHANGED <<sigtask, loop, failed, counters, main, verdict>>

DropListener(p, why) ==
    /\ loop' = [loop EXCEPT ![p] = why]
    /\ phase' = [s \in Sessions |->
                    IF PipelineOf[s] = p /\ phase[s] = "backlog"
                    THEN "reset" ELSE phase[s]]

\* Mutant: the loop ends but its listener stays bound.
AcceptFailsKeepsListener(p) ==
    /\ Alive
    /\ AcceptMayFail
    /\ loop[p] = "listening"
    /\ loop' = [loop EXCEPT ![p] = "accept_failed"]
    /\ UNCHANGED <<sigtask, sessions, counters, tracker, main, verdict>>

\* accepted? returns the error of a failed accept() from start_proxy.
AcceptFails(p) ==
    /\ Alive
    /\ AcceptMayFail
    /\ loop[p] = "listening"
    /\ DropListener(p, "accept_failed")
    /\ UNCHANGED <<sigtask, failed, counters, tracker, main, verdict>>

StopAccepting(p) ==
    /\ Alive
    /\ loop[p] = "listening"
    /\ Cancelled
    /\ DropListener(p, "drained")
    /\ UNCHANGED <<sigtask, failed, counters, tracker, main, verdict>>

----------------------------------------------------------------------------
(* The session task.  Its counters are separate atomics, so each update is *)
(* a step of its own that other threads can observe.  The way to "failed"  *)
(* is an error that handle_session returns.                                *)

Moves(s, from, to) ==
    /\ Alive
    /\ phase[s] = from
    /\ phase' = [phase EXCEPT ![s] = to]
    /\ failed' = IF to = "failed" THEN failed \union {s} ELSE failed
    /\ UNCHANGED <<sigtask, loop, main, verdict>>

CountTotal(s) ==
    /\ Moves(s, "spawned", "counted")
    /\ total' = [total EXCEPT ![Name(s)] = @ + 1]
    /\ UNCHANGED <<active, errors, tracker>>

\* Mutant: fetch_add of connections_active is missing, fetch_sub is not.
CountActiveSkipped(s) ==
    /\ Moves(s, "counted", "resolving")
    /\ UNCHANGED <<counters, tracker>>

CountActive(s) ==
    /\ Moves(s, "counted", "resolving")
    /\ active' = [active EXCEPT ![Name(s)] = @ + 1]
    /\ UNCHANGED <<total, errors, tracker>>

\* TcpStream::connect resolves the target's name on a blocking thread.
Resolve(s) ==
    /\ \E to \in {"connecting", "failed"} : Moves(s, "resolving", to)
    /\ UNCHANGED <<counters, tracker>>

ConnectTarget(s) ==
    /\ \E to \in {"relaying", "failed"} : Moves(s, "connecting", to)
    /\ UNCHANGED <<counters, tracker>>

\* Either direction's end of file or error ends handle_session.
RelayEnds(s) ==
    /\ \E to \in {"closing", "failed"} : Moves(s, "relaying", to)
    /\ UNCHANGED <<counters, tracker>>

\* A failing println! in log_chunk unwinds the task: neither errors_total
\* nor connections_active is touched, and the tracker token is dropped.
LogPanics(s) ==
    /\ StdoutMayFail
    /\ Moves(s, "relaying", "panicked")
    /\ tracker' = [tracker EXCEPT !.live = @ - 1]
    /\ UNCHANGED counters

\* Mutant: the task returns after an error, past the fetch_sub.
CountErrorReturns(s) ==
    /\ Moves(s, "failed", "leaving")
    /\ errors' = [errors EXCEPT ![Name(s)] = @ + 1]
    /\ UNCHANGED <<total, active, tracker>>

\* Mutant: the error is logged only.
CountErrorSkipped(s) ==
    /\ Moves(s, "failed", "closing")
    /\ UNCHANGED <<counters, tracker>>

CountError(s) ==
    /\ Moves(s, "failed", "closing")
    /\ errors' = [errors EXCEPT ![Name(s)] = @ + 1]
    /\ UNCHANGED <<total, active, tracker>>

CountClosed(s) ==
    /\ Moves(s, "closing", "leaving")
    /\ active' = [active EXCEPT ![Name(s)] = @ - 1]
    /\ UNCHANGED <<total, errors, tracker>>

TaskEnds(s) ==
    /\ Moves(s, "leaving", "done")
    /\ tracker' = [tracker EXCEPT !.live = @ - 1]
    /\ UNCHANGED counters

----------------------------------------------------------------------------
(* main, from the moment it has spawned every task.                        *)

\* Mutant: main goes on when the first loop has returned.
JoinFirstLoop ==
    /\ main = "joining"
    /\ \E p \in Pipelines : loop[p] \in Returned
    /\ main' = "draining"
    /\ tracker' = [tracker EXCEPT !.closed = TRUE]
    /\ UNCHANGED <<sigtask, loop, sessions, counters, verdict>>

\* Mutant: main waits for the signal before it joins the loops.
JoinAfterSignal ==
    /\ main = "joining"
    /\ Cancelled
    /\ \A p \in Pipelines : loop[p] \in Returned
    /\ main' = "draining"
    /\ tracker' = [tracker EXCEPT !.closed = TRUE]
    /\ UNCHANGED <<sigtask, loop, sessions, counters, verdict>>

\* Awaiting the loops one by one ends when all of them have returned.
JoinLoops ==
    /\ main = "joining"
    /\ \A p \in Pipelines : loop[p] \in Returned
    /\ main' = "draining"
    /\ tracker' = [tracker EXCEPT !.closed = TRUE]
    /\ UNCHANGED <<sigtask, loop, sessions, counters, verdict>>

\* Mutant: main closes the tracker and does not wait for it.
DrainAtOnce ==
    /\ main = "draining"
    /\ tracker.closed
    /\ main' = "exiting"
    /\ verdict' = "clean"
    /\ UNCHANGED <<sigtask, loop, sessions, counters, tracker>>

\* tracker.wait() completes once the tracker is closed and empty.
DrainClean ==
    /\ main = "draining"
    /\ tracker.closed /\ tracker.live = 0
    /\ main' = "exiting"
    /\ verdict' = "clean"
    /\ UNCHANGED <<sigtask, loop, sessions, counters, tracker>>

\* Mutant: the drain has no deadline.
DrainForever == FALSE

\* The sleep of shutdown_drain_secs, which may be 0, completes.
DrainTimeout ==
    /\ main = "draining"
    /\ main' = "exiting"
    /\ verdict' = "timeout"
    /\ UNCHANGED <<sigtask, loop, sessions, counters, tracker>>

\* main has returned: dropping the runtime waits for the polls in progress
\* and for blocking name lookups, and drops every other task where it waits.
Exit ==
    /\ main = "exiting"
    /\ \A s \in Sessions : phase[s] \notin MidPoll \union {"resolving"}
    /\ main' = "exited"
    /\ UNCHANGED <<sigtask, loop, sessions, counters, tracker, verdict>>

----------------------------------------------------------------------------
SignalTask == InstallHandler \/ InstallFails \/ CancelToken
AcceptLoop(p) == Bind(p) \/ AcceptFails(p) \/ StopAccepting(p)

\* The steps a session task takes whatever others do.
SessionRuns(s) ==
    \/ CountTotal(s) \/ CountActive(s)
    \/ CountError(s) \/ CountClosed(s) \/ TaskEnds(s)
\* The steps that depend on name servers, the peers or standard output.
SessionWaits(s) ==
    \/ Resolve(s) \/ ConnectTarget(s)
    \/ RelayEnds(s) \/ LogPanics(s)

Main == JoinLoops \/ DrainClean \/ DrainTimeout \/ Exit

\* The process is gone: nothing happens any more.
Gone == ~Alive /\ UNCHANGED vars

Next ==
    \/ Signal
    \/ SignalTask
    \/ \E p \in Pipelines : AcceptLoop(p)
    \/ \E s \in Sessions : ClientConnects(s) \/ Accept(s) \/ SessionRuns(s)
                              \/ SessionWaits(s)
    \/ Main
    \/ Gone

\* The scheduler runs every task that can run; the sleep elapses; a select!
\* with two ready branches picks each of them again and again.  Nothing is
\* assumed of clients, targets, name lookups, signals and faults.
Fairness ==
    /\ WF_vars(SignalTask)
    /\ \A p \in Pipelines : WF_vars(Bind(p)) /\ WF_vars(StopAccepting(p))
    /\ \A s \in Sessions : WF_vars(Accept(s)) /\ WF_vars(SessionRuns(s))
    /\ WF_vars(Main)

Spec == Init /\ [][Next]_vars
FairSpec == Spec /\ Fairness

----------------------------------------------------------------------------
(* Safety.                                                                 *)

\* The tracker's task count is the number of session tasks that have been
\* spawned and not finished, panicked ones excluded: tracker.wait() neither
\* misses a session nor waits for one that is gone (lib.rs 147, main.rs 573).
TrackerIsExact == tracker.live = Cardinality(TrackedSessions)

SessionsOf(n, phases) == {s \in Sessions : Name(s) = n /\ phase[s] \in phases}

\* Every counter is, at every moment and with any number of tasks updating
\* it, the number of sessions of the pipelines of that name that have passed
\* its increment and not its decrement: errors_total is the number of those
\* whose handle_session returned an error, whichever of its errors it was.
\* A panicked session stays in connections_active (lib.rs 152-169).
Accounting ==
    \A n \in Names :
        /\ total[n] = Cardinality(SessionsOf(n, PastTotal))
        /\ active[n] = Cardinality(SessionsOf(n, Open \union {"panicked"}))
        /\ errors[n] = Cardinality(SessionsOf(n, Finished) \intersect failed)

\* What a reader of the counters may rely on: neither the active connections
\* nor the errors outnumber the connections, and the unsigned active counter
\* never wraps below zero (stats.rs 10-13).
CountersConsistent ==
    \A n \in Names : active[n] \in 0..total[n] /\ errors[n] \in 0..total[n]

\* "All sessions drained cleanly" is said only when every accepted session
\* has ended, no client was still in an accept queue, and every counter of
\* open connections is back to the panicked sessions it leaked (main.rs 573).
CleanMeansDrained ==
    verdict = "clean" =>
        \A s \in Sessions : phase[s] \in {"idle", "reset", "done", "panicked"}

\* Closing the tracker does not itself stop a spawn: that no session starts
\* after main.rs 571 rests on main having joined every accept loop first.
NoSessionAfterClose ==
    [][tracker.closed => TrackedSessions' \subseteq TrackedSessions]_vars

\* The view of the process that the abstract service of DrainContract takes.
Door == IF main = "joining" THEN "open" ELSE IF Alive THEN "shut" ELSE "over"
Admitted == {s \in Sessions : phase[s] \in Tracked \union {"done", "panicked"}}
Ended == {s \in Sessions : phase[s] \in {"done", "panicked"}}
Verdict == IF main = "killed" THEN "killed" ELSE verdict
Lost == IF Alive THEN {} ELSE TrackedSessions

Contract == INSTANCE DrainContract WITH
    door <- Door, admitted <- Admitted, ended <- Ended, verdict <- Verdict,
    lost <- Lost

\* The process keeps the drain contract: nobody is admitted once main drains,
\* and the verdict it logs is true of the sessions it loses (main.rs 563-594).
HonoursContract == Contract!Spec

----------------------------------------------------------------------------
(* Liveness, under Fairness.                                               *)

\* From then on main has returned, and all that keeps the process is a name
\* lookup of session s, which has no deadline and never ends.
LookupHangs(s) == [](main = "exiting" /\ phase[s] = "resolving")

\* After a signal main returns, whatever the clients and targets do, and the
\* process ends unless a lookup hangs (main.rs 464-582, lib.rs 195).
SignalStops ==
    sigtask = "notified" ~> ~Alive \/ \E s \in Sessions : LookupHangs(s)

\* main does not outlive its pipelines: once every loop has returned, for
\* whatever reason, main returns, and the process ends unless a lookup hangs.
NothingLeftStops ==
    (\A p \in Pipelines : loop[p] \in Returned)
        ~> ~Alive \/ \E s \in Sessions : LookupHangs(s)

\* No client waits in the accept queue for ever: it is accepted or reset.
BacklogIsServed ==
    \A s \in Sessions : phase[s] = "backlog" ~> (phase[s] # "backlog" \/ ~Alive)

----------------------------------------------------------------------------
(* What the documentation says, checked by a run that expects a violation. *)

\* main.rs 560-561: an accept loop that was bound returns only once shutdown
\* is cancelled.
AcceptsUntilCancelled ==
    \A p \in Pipelines : loop[p] \in Returned \ {"bind_failed"} => Cancelled
=============================================================================
