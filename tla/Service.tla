------------------------------ MODULE Service ------------------------------
(***************************************************************************)
(* The service around the process: systemd runs wraithflow as a unit, an   *)
(* administrator starts, stops and restarts the unit and edits the         *)
(* configuration file, and the process reads that file, runs one pipeline  *)
(* per enabled proxy, and on SIGTERM drains for shutdown_drain_secs while  *)
(* systemd counts TimeoutStopSec.                                          *)
(*                                                                         *)
(* Time passes by Tick.  What the sessions forward, and every counter, is  *)
(* the subject of Session and Proxy; here a session looks its target up,   *)
(* or is open, for as long as it likes.                                    *)
(***************************************************************************)
EXTENDS Config

CONSTANTS
    Files,        \* texts the configuration file may hold
    Content,      \* per text: whether it parses, and then its configuration
    Slots,        \* how many proxies a configuration may have: 1..Slots
    Sessions,     \* sessions that may be open at once
    StopTimeout,  \* TimeoutStopSec
    MaxLag        \* ticks the process may be late with its own steps in a stop

ASSUME TimesAssumption ==
    /\ Slots \in Nat
    /\ StopTimeout \in Nat
    /\ MaxLag \in Nat
\* What a file that parses has, besides its texts.
WellFormed(c) ==
    /\ DOMAIN c.proxies \subseteq 1..Slots
    /\ DOMAIN c.profiles \subseteq Nat
    /\ \A profile \in Range(c.profiles) :
          /\ profile.format \in Spellings
          /\ profile.direction # None => profile.direction \in Spellings
    /\ c.drain \in Nat

ASSUME ContentAssumption ==
    /\ None \notin Files
    /\ \A f \in Files : Content[f].parses => WellFormed(Content[f].config)

VARIABLES
    unit,       \* systemd: "inactive", "active", "stopping", "failed", "waiting"
    again,      \* a start is queued behind the stop that is under way
    wanted,     \* history: the administrator's last word was start or restart
    stopLeft,   \* ticks of TimeoutStopSec left
    lag,        \* ticks the process has been late with since SIGTERM
    file,       \* the text on disk
    loaded,     \* the text main has read
    main,       \* "none", "loading", "serving", "draining", "leaving"
    signal,     \* the signal task: "starting", "waiting", "notified", "done"
    drainLeft,  \* ticks of shutdown_drain_secs left
    loop,       \* per slot: where the pipeline's start_proxy is
    spec,       \* per slot: the OutputSpec it was started with
    session     \* per session: "none", "lookup" or "open"

vars == <<unit, again, wanted, stopLeft, lag, file, loaded, main, signal,
          drainLeft, loop, spec, session>>
systemd == <<unit, again, wanted, stopLeft, lag>>
process == <<loaded, main, signal, drainLeft, loop, spec, session>>

----------------------------------------------------------------------------
config == Content[loaded].config
Running == {i \in 1..Slots : loop[i] # "off"}
Returned(i) == loop[i] \in {"off", "failed", "closed"}

TypeOK ==
    /\ unit \in {"inactive", "active", "stopping", "failed", "waiting"}
    /\ again \in BOOLEAN /\ wanted \in BOOLEAN
    /\ stopLeft \in 0..StopTimeout
    /\ lag \in 0..MaxLag
    /\ file \in Files
    /\ loaded \in Files \union {None}
    /\ main \in {"none", "loading", "serving", "draining", "leaving"}
    /\ signal \in {"starting", "waiting", "notified", "done"}
    /\ drainLeft \in 0..(IF loaded = None THEN 0 ELSE config.drain)
    /\ loop \in [1..Slots -> {"off", "binding", "listening", "failed", "closed"}]
    /\ DOMAIN spec = Running
    /\ session \in [Sessions -> {"none", "lookup", "open"}]
    /\ unit = "active" => main # "none"
    /\ main # "none" => unit \in {"active", "stopping"}

Init ==
    /\ unit = "inactive"
    /\ again = FALSE
    /\ wanted = FALSE
    /\ stopLeft = 0
    /\ lag = 0
    /\ file \in Files
    /\ loaded = None
    /\ main = "none"
    /\ signal = "starting"
    /\ drainLeft = 0
    /\ loop = [i \in 1..Slots |-> "off"]
    /\ spec = <<>>
    /\ session = [s \in Sessions |-> "none"]

----------------------------------------------------------------------------
(* The end of a process and the start of the next one.                     *)

\* The process is in state next, with nothing of the last one left.
Fresh(next) ==
    /\ main' = next
    /\ loaded' = None
    /\ signal' = "starting"
    /\ drainLeft' = 0
    /\ loop' = [i \in 1..Slots |-> "off"]
    /\ spec' = <<>>
    /\ session' = [s \in Sessions |-> "none"]

Launch ==
    /\ Fresh("loading")
    /\ unit' = "active"
    /\ again' = FALSE
    /\ UNCHANGED <<stopLeft, lag>>

----------------------------------------------------------------------------
(* The administrator.                                                      *)

\* SIGTERM, which ends the process at once while no handler is installed;
\* the signal task takes one signal only.
Terminate ==
    /\ unit' = "stopping"
    /\ stopLeft' = StopTimeout
    /\ lag' = 0
    /\ \/ /\ signal = "starting"
          /\ Fresh("none")
       \/ /\ signal # "starting"
          /\ signal' = IF signal = "waiting" THEN "notified" ELSE signal
          /\ UNCHANGED <<loaded, main, drainLeft, loop, spec, session>>

Start ==
    /\ wanted' = TRUE
    /\ \/ unit \in {"inactive", "failed", "waiting"} /\ Launch
       \/ /\ unit \in {"active", "stopping"}
          /\ again' = (unit = "stopping")
          /\ UNCHANGED <<unit, stopLeft, lag, process>>

Stop ==
    /\ wanted' = FALSE
    /\ again' = FALSE
    /\ \/ unit = "active" /\ Terminate
       \/ /\ unit # "active"
          /\ unit' = IF unit = "waiting" THEN "inactive" ELSE unit
          /\ UNCHANGED <<stopLeft, lag, process>>

Restart ==
    /\ wanted' = TRUE
    /\ \/ unit \in {"inactive", "failed", "waiting"} /\ Launch
       \/ unit = "active" /\ again' = TRUE /\ Terminate
       \/ /\ unit = "stopping"
          /\ again' = TRUE
          /\ UNCHANGED <<unit, stopLeft, lag, process>>

\* wraithflow --admin: status, and a command line it refuses, change nothing.
run_admin(flags) ==
    /\ \/ resolve_admin_action(flags) = "start" /\ Start
       \/ resolve_admin_action(flags) = "stop" /\ Stop
       \/ resolve_admin_action(flags) = "restart" /\ Restart
    /\ UNCHANGED file

\* Nobody but main reads the file, and main reads it once.
Edit ==
    /\ file' \in Files
    /\ UNCHANGED <<systemd, process>>

----------------------------------------------------------------------------
(* main, until its pipelines run.                                          *)

Valid(f) == Content[f].parses /\ validate(Content[f].config)

\* The exit status is 1, and Restart=on-failure waits RestartSec.
LoadFails ==
    /\ main = "loading"
    /\ ~Valid(file)
    /\ Fresh("none")
    /\ unit' = "waiting"
    /\ UNCHANGED <<again, wanted, stopLeft, lag, file>>

\* A capture log that cannot be opened is done without.
LoadOk ==
    /\ main = "loading"
    /\ Valid(file)
    /\ loaded' = file
    /\ LET new == Content[file].config IN
       \E opened \in BOOLEAN :
          /\ loop' = [i \in 1..Slots |->
                        IF i \in Enabled(new) THEN "binding" ELSE "off"]
          /\ spec' = [i \in Enabled(new) |->
                        resolve_output(new.proxies[i], new,
                                       new.capture_log /\ opened)]
    /\ main' = "serving"
    /\ UNCHANGED <<systemd, file, signal, drainLeft, session>>

InstallHandler ==
    /\ main \in {"serving", "draining", "leaving"}
    /\ signal = "starting"
    /\ signal' = "waiting"
    /\ UNCHANGED <<systemd, file, loaded, main, drainLeft, loop, spec, session>>

CancelToken ==
    /\ signal = "notified"
    /\ signal' = "done"
    /\ UNCHANGED <<systemd, file, loaded, main, drainLeft, loop, spec, session>>

----------------------------------------------------------------------------
(* The pipelines and their sessions.                                       *)

Sockets(i) == SocketsOf[config.proxies[i].listen]

SetLoop(i, state) ==
    /\ loop' = [loop EXCEPT ![i] = state]
    /\ UNCHANGED <<systemd, file, loaded, main, signal, drainLeft, spec, session>>

\* A socket may be held by another pipeline, or by another process.
Bind(i) ==
    /\ loop[i] = "binding"
    /\ \/ /\ \A j \in 1..Slots :
                loop[j] = "listening" => Sockets(i) \intersect Sockets(j) = {}
          /\ SetLoop(i, "listening")
       \/ SetLoop(i, "failed")

AcceptFails(i) ==
    /\ loop[i] = "listening"
    /\ SetLoop(i, "failed")

StopAccepting(i) ==
    /\ loop[i] = "listening"
    /\ signal = "done"
    /\ SetLoop(i, "closed")

SetSession(s, state) ==
    /\ session' = [session EXCEPT ![s] = state]
    /\ UNCHANGED <<systemd, file, loaded, main, signal, drainLeft, loop, spec>>

Accept(s) ==
    /\ \E i \in Running : loop[i] = "listening"
    /\ session[s] = "none"
    /\ SetSession(s, "lookup")

Resolved(s) ==
    /\ session[s] = "lookup"
    /\ SetSession(s, "open")

\* Mutant: the drain is an idle time, which every end of a session renews.
EndRenewsDrain(s) ==
    /\ session[s] # "none"
    /\ session' = [session EXCEPT ![s] = "none"]
    /\ drainLeft' = IF main = "draining" THEN config.drain ELSE drainLeft
    /\ UNCHANGED <<systemd, file, loaded, main, signal, loop, spec>>

\* The lookup or the connection failed, or the peers are done.
End(s) ==
    /\ session[s] # "none"
    /\ SetSession(s, "none")

----------------------------------------------------------------------------
(* main, from the end of its pipelines on.                                 *)

SetMain(state) ==
    /\ main' = state
    /\ UNCHANGED <<systemd, file, loaded, signal, loop, spec, session>>

\* Mutant: the drain time is read from the file as it is by now.
JoinLoopsRereads ==
    /\ main = "serving"
    /\ \A i \in 1..Slots : Returned(i)
    /\ drainLeft' = IF Content[file].parses THEN Content[file].config.drain
                                            ELSE config.drain
    /\ SetMain("draining")

JoinLoops ==
    /\ main = "serving"
    /\ \A i \in 1..Slots : Returned(i)
    /\ drainLeft' = config.drain
    /\ SetMain("draining")

DrainClean ==
    /\ main = "draining"
    /\ \A s \in Sessions : session[s] = "none"
    /\ SetMain("leaving")
    /\ UNCHANGED drainLeft

DrainTimeout ==
    /\ main = "draining"
    /\ drainLeft = 0
    /\ SetMain("leaving")
    /\ UNCHANGED drainLeft

\* main returns Ok, which is success to systemd; the runtime first waits for
\* the name lookups on its blocking threads.
Leave ==
    /\ main = "leaving"
    /\ \A s \in Sessions : session[s] # "lookup"
    /\ Fresh("none")
    /\ unit' = IF unit = "active" THEN "inactive" ELSE unit
    /\ UNCHANGED <<again, wanted, stopLeft, lag, file>>

----------------------------------------------------------------------------
(* systemd.                                                                *)

\* The process dies unasked, for example for want of memory.
Crash ==
    /\ unit = "active"
    /\ Fresh("none")
    /\ unit' = "waiting"
    /\ UNCHANGED <<again, wanted, stopLeft, lag, file>>

\* RestartSec has passed.
AutoRestart ==
    /\ unit = "waiting"
    /\ Launch
    /\ UNCHANGED <<wanted, file>>

\* A process that has been asked to stop is gone.
Stopped ==
    /\ unit \in {"stopping", "failed"} /\ main = "none"
    /\ \/ again /\ Launch
       \/ /\ unit = "stopping" /\ ~again
          /\ unit' = "inactive"
          /\ UNCHANGED <<again, stopLeft, lag, process>>
    /\ UNCHANGED <<wanted, file>>

\* Mutant: TimeoutStopSec=infinity.
NeverKill == FALSE

\* TimeoutStopSec has passed: SIGKILL.
Kill ==
    /\ unit = "stopping" /\ main # "none"
    /\ stopLeft = 0
    /\ Fresh("none")
    /\ unit' = "failed"
    /\ UNCHANGED <<again, wanted, stopLeft, lag, file>>

----------------------------------------------------------------------------
(* Time.                                                                   *)

Process ==
    \/ LoadOk \/ LoadFails \/ InstallHandler \/ CancelToken
    \/ \E i \in 1..Slots : Bind(i) \/ StopAccepting(i)
    \/ JoinLoops \/ DrainClean \/ DrainTimeout \/ Leave

\* Some step of the process is due that waits for nobody.
Due ==
    \/ signal = "notified"
    \/ signal = "done" /\ \E i \in 1..Slots : ~Returned(i)
    \/ main = "serving" /\ \A i \in 1..Slots : Returned(i)
    \/ main = "draining" /\ (drainLeft = 0 \/ \A s \in Sessions : session[s] = "none")
    \/ main = "leaving" /\ \A s \in Sessions : session[s] # "lookup"

Tick ==
    /\ \/ unit = "stopping" /\ main # "none" /\ stopLeft > 0
       \/ unit = "active" /\ main = "draining" /\ drainLeft > 0
    /\ Due /\ unit = "stopping" => lag < MaxLag
    /\ lag' = IF Due /\ unit = "stopping" THEN lag + 1 ELSE lag
    /\ stopLeft' = IF unit = "stopping" THEN stopLeft - 1 ELSE stopLeft
    /\ drainLeft' = IF main = "draining" /\ drainLeft > 0
                    THEN drainLeft - 1 ELSE drainLeft
    /\ UNCHANGED <<unit, again, wanted, file, loaded, main, signal, loop, spec,
                   session>>

Next ==
    \/ \E flags \in SUBSET {"start", "stop", "restart", "status"} :
          run_admin(flags)
    \/ Edit
    \/ Process
    \/ \E i \in 1..Slots : AcceptFails(i)
    \/ \E s \in Sessions : Accept(s) \/ Resolved(s) \/ End(s)
    \/ Crash \/ AutoRestart \/ Stopped \/ Kill
    \/ Tick

Fairness ==
    /\ WF_vars(Process)
    /\ WF_vars(Tick)
    /\ WF_vars(Kill)
    /\ WF_vars(AutoRestart \/ Stopped)

Spec == Init /\ [][Next]_vars
FairSpec == Spec /\ Fairness

----------------------------------------------------------------------------
(* Properties.                                                             *)

\* The output of a pipeline is what proxy and one of the profiles of c that it
\* names spell out.
AsWritten(output, proxy, c) ==
    /\ output.enabled = proxy.log_payloads
    /\ proxy.output # None =>
          \E profile \in Range(c.profiles) :
              /\ profile.name = proxy.output
              /\ profile.format.word \in DOMAIN Formats
              /\ output.format = Formats[profile.format.word]
              /\ \/ profile.direction = None /\ output.direction = None
                 \/ /\ profile.direction # None
                    /\ profile.direction.word \in DOMAIN Directions
                    /\ output.direction = Directions[profile.direction.word]

\* A pipeline logs in the format and the direction its profile spells out:
\* the fallbacks of resolve_output are never taken for a configuration that
\* validate has let through (main.rs 271-281, 289-320).
RunsWhatIsWritten ==
    \A i \in Running : AsWritten(spec[i], config.proxies[i], config)

\* The process ends before its time for two causes only.  systemd's SIGKILL
\* cuts a drain short only when the drain, with what the process is late,
\* reaches TimeoutStopSec; and the unit goes away unasked, with success, only
\* when every pipeline has failed (main.rs 220-224, 567-582).
EndsForCause ==
    [][/\ unit = "stopping" /\ unit' = "failed" =>
            main = "leaving" \/ config.drain + MaxLag >= StopTimeout
       /\ unit = "active" /\ unit' = "inactive" =>
            \A i \in Running : loop[i] = "failed"]_vars

\* A restart brings a new process up, and so does a failure, although sessions
\* and lookups may never end, unless the administrator stops the unit
\* (wraithflow.service 12-19, lib.rs 195, main.rs 576).
RestartTakesEffect ==
    again \/ unit = "waiting" ~> main = "loading" \/ ~wanted

----------------------------------------------------------------------------
(* What the documentation says, checked by a run that expects a violation. *)

\* SECURITY.md 13-14: a configuration with duplicate listen ports is rejected
\* before anything binds.
PortsAreDistinct ==
    \A i, j \in Running :
        i # j => Sockets(i) \intersect Sockets(j) = {}
=============================================================================
