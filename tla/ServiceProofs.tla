---------------------------- MODULE ServiceProofs ----------------------------
(***************************************************************************)
(* Proofs about Service: type correctness; that a pipeline runs with the   *)
(* output its profile spells out, for every configuration that validate    *)
(* accepts; and that the process ends before its time for two causes only. *)
(*                                                                         *)
(* The first rests on validate and resolve_output agreeing, which is about *)
(* operators alone.  The last rests on a count of the ticks since SIGTERM: *)
(* each of them was one that the process was late with, or one of the      *)
(* drain's.                                                                *)
(***************************************************************************)
EXTENDS Service, Lemmas

----------------------------------------------------------------------------
(* validate and resolve_output.                                            *)

\* A name in small letters is the name that was written.
LEMMA LowerKeepsWord ==
    ASSUME NEW text \in Spellings
    PROVE  to_ascii_lowercase(text).word = text.word
BY DEF to_ascii_lowercase, Spellings

\* The output of an enabled pipeline of a configuration that validate accepts
\* is what its profile spells out (main.rs 244-336).
LEMMA ValidMeansWritten ==
    ASSUME NEW c, WellFormed(c), validate(c), NEW i \in Enabled(c), NEW capture
    PROVE  AsWritten(resolve_output(c.proxies[i], c, capture), c.proxies[i], c)
<1> DEFINE proxy == c.proxies[i]
           named == Named(c, proxy.output)
           profile == c.profiles[Min(named)]
           output == resolve_output(proxy, c, capture)
<1>1. output.enabled = proxy.log_payloads
    BY DEF resolve_output
<1>2. ASSUME proxy.output # None
      PROVE  \E p \in Range(c.profiles) :
                /\ p.name = proxy.output
                /\ p.format.word \in DOMAIN Formats
                /\ output.format = Formats[p.format.word]
                /\ \/ p.direction = None /\ output.direction = None
                   \/ /\ p.direction # None
                      /\ p.direction.word \in DOMAIN Directions
                      /\ output.direction = Directions[p.direction.word]
    <2>1. named # {} /\ named \subseteq DOMAIN c.profiles
        BY <1>2 DEF validate, OutputsExist, Named, Range
    <2>2. Min(named) \in named
        BY <2>1, MinIsMember DEF WellFormed
    <2>3. profile \in Range(c.profiles) /\ profile.name = proxy.output
        BY <2>1, <2>2 DEF Named, Range
    <2>4. /\ profile.format \in Spellings
          /\ ParseFormat(profile.format) # None
        BY <2>3 DEF WellFormed, validate, FormatsKnown
    <2>5. /\ profile.format.word \in DOMAIN Formats
          /\ ParseFormat(profile.format) = Formats[profile.format.word]
        BY <2>4, LowerKeepsWord DEF ParseFormat, Known
    <2>6. output.format = Formats[profile.format.word]
        BY <2>1, <2>4, <2>5 DEF resolve_output
    <2>7. CASE profile.direction = None
        <3>1. output.direction = None
            BY <2>7 DEF resolve_output
        <3> QED
            BY <2>3, <2>5, <2>6, <2>7, <3>1
    <2>8. CASE profile.direction # None
        <3>1. /\ profile.direction \in Spellings
              /\ Known(Directions, to_ascii_lowercase(profile.direction))
            BY <2>3, <2>8 DEF WellFormed, validate, DirectionsKnown
        <3>2. /\ profile.direction.word \in DOMAIN Directions
              /\ DirectionOf(profile.direction) = Directions[profile.direction.word]
            BY <3>1, LowerKeepsWord DEF DirectionOf, Known
        <3>3. output.direction = Directions[profile.direction.word]
            BY <2>1, <2>8, <3>2 DEF resolve_output
        <3> QED
            BY <2>3, <2>5, <2>6, <2>8, <3>2, <3>3
    <2> QED
        BY <2>7, <2>8
<1> HIDE DEF output, proxy
<1>3. AsWritten(output, proxy, c)
    BY <1>1, <1>2 DEF AsWritten
<1> QED
    BY <1>3 DEF output, proxy

----------------------------------------------------------------------------
(* The inductive invariant.                                                *)

\* What main has loaded, and what a process that has loaded nothing has.
LoadInv ==
    /\ loaded # None => loaded \in Files /\ Valid(loaded)
    /\ loaded = None <=> main \in {"none", "loading"}
    /\ loaded = None => signal = "starting" /\ Running = {}

\* How far a process that is being stopped has come, and one that is not.
StopInv ==
    /\ unit = "active" => signal \in {"starting", "waiting"}
    /\ unit = "stopping" /\ main # "none" => signal \in {"notified", "done"}
    /\ \A i \in 1..Slots : loop[i] = "closed" => signal = "done"
    /\ main \in {"draining", "leaving"} => \A i \in 1..Slots : Returned(i)

\* The ticks since SIGTERM: the process was late with each of them, unless it
\* was one of the drain's.
TimeInv ==
    unit = "stopping" =>
        /\ main = "serving" => StopTimeout <= lag + stopLeft
        /\ main = "draining" => StopTimeout + drainLeft <= lag + stopLeft + config.drain

ServiceInv ==
    /\ TypeOK
    /\ LoadInv
    /\ RunsWhatIsWritten
    /\ StopInv
    /\ TimeInv

\* The invariant holds in the first states.
LEMMA InvInit == Init => ServiceInv
<1> SUFFICES ASSUME Init PROVE ServiceInv
    OBVIOUS
<1>1. Running = {}
    BY DEF Init, Running
<1>2. TypeOK
    <2>1. DOMAIN spec = {}
        BY DEF Init
    <2>2. stopLeft \in 0..StopTimeout /\ lag \in 0..MaxLag
        BY TimesAssumption DEF Init
    <2>3. drainLeft \in 0..(IF loaded = None THEN 0 ELSE config.drain)
        BY DEF Init
    <2>4. /\ loop \in [1..Slots -> {"off", "binding", "listening", "failed", "closed"}]
          /\ session \in [Sessions -> {"none", "lookup", "open"}]
        BY DEF Init
    <2>5. /\ unit = "inactive" /\ main = "none" /\ signal = "starting"
          /\ again \in BOOLEAN /\ wanted \in BOOLEAN
          /\ file \in Files /\ loaded \in Files \union {None}
        BY DEF Init
    <2> QED
        BY <1>1, <2>1, <2>2, <2>3, <2>4, <2>5 DEF TypeOK
<1>3. LoadInv /\ RunsWhatIsWritten /\ StopInv /\ TimeInv
    BY <1>1 DEF Init, LoadInv, RunsWhatIsWritten, StopInv, TimeInv
<1> QED
    BY <1>2, <1>3 DEF ServiceInv

\* A configuration that is loaded is valid, and its drain a number.
LEMMA LoadedFacts ==
    ASSUME NEW f \in Files, Valid(f)
    PROVE  /\ f # None
           /\ WellFormed(Content[f].config)
           /\ validate(Content[f].config)
           /\ Content[f].config.drain \in Nat
BY ContentAssumption DEF Valid, WellFormed

\* What Fresh leaves of the process, whatever it was before.
LEMMA FreshFacts ==
    ASSUME NEW next \in {"none", "loading"}, Fresh(next)
    PROVE  /\ main' = next
           /\ LoadInv'
           /\ RunsWhatIsWritten'
           /\ drainLeft' = 0 /\ loaded' = None /\ signal' = "starting"
           /\ loop' \in [1..Slots -> {"off", "binding", "listening", "failed", "closed"}]
           /\ \A i \in 1..Slots : loop'[i] = "off"
           /\ DOMAIN spec' = Running'
           /\ session' \in [Sessions -> {"none", "lookup", "open"}]
<1>1. Running' = {}
    BY DEF Fresh, Running
<1>2. LoadInv' /\ RunsWhatIsWritten'
    BY <1>1 DEF Fresh, LoadInv, RunsWhatIsWritten
<1> QED
    BY <1>1, <1>2 DEF Fresh

\* A step that gives the process a fresh state, and the unit a state that goes
\* with it, keeps the invariant.
LEMMA FreshKeepsInv ==
    ASSUME ServiceInv,
           NEW next \in {"none", "loading"}, Fresh(next),
           unit' \in {"inactive", "active", "stopping", "failed", "waiting"},
           unit' = "active" <=> next = "loading",
           again' \in BOOLEAN, wanted' \in BOOLEAN, file' \in Files,
           stopLeft' \in 0..StopTimeout, lag' \in 0..MaxLag
    PROVE  ServiceInv'
<1>1. TypeOK'
    BY FreshFacts DEF TypeOK
<1>2. StopInv' /\ TimeInv'
    BY FreshFacts DEF StopInv, TimeInv
<1> QED
    BY <1>1, <1>2, FreshFacts DEF ServiceInv

\* Whatever launches a process keeps the invariant.
LEMMA LaunchKeepsInv ==
    ASSUME ServiceInv, Launch, wanted' \in BOOLEAN, file' \in Files
    PROVE  ServiceInv'
BY FreshKeepsInv DEF Launch, ServiceInv, TypeOK

\* An action of the administrator that leaves the process alone, and the unit
\* where it is or inactive, keeps the invariant.
LEMMA WordKeepsInv ==
    ASSUME ServiceInv, UNCHANGED <<stopLeft, lag, process, file>>,
           unit' = unit \/ (unit = "waiting" /\ unit' = "inactive"),
           again' \in BOOLEAN, wanted' \in BOOLEAN
    PROVE  ServiceInv'
<1>1. TypeOK'
    BY DEF ServiceInv, TypeOK, Running, config, process
<1>2. LoadInv'
    BY DEF ServiceInv, LoadInv, Running, process
<1>3. RunsWhatIsWritten'
    BY DEF ServiceInv, RunsWhatIsWritten, Running, config, process
<1>4. StopInv'
    BY DEF ServiceInv, StopInv, Returned, TypeOK, process
<1>5. TimeInv'
    BY DEF ServiceInv, TimeInv, TypeOK, config, process
<1> QED
    BY <1>1, <1>2, <1>3, <1>4, <1>5 DEF ServiceInv

\* SIGTERM keeps it.
LEMMA TerminateKeepsInv ==
    ASSUME ServiceInv, unit = "active", Terminate,
           again' \in BOOLEAN, wanted' \in BOOLEAN, UNCHANGED file
    PROVE  ServiceInv'
<1>1. CASE Fresh("none")
    BY <1>1, FreshKeepsInv, TimesAssumption DEF Terminate, ServiceInv, TypeOK
<1>2. CASE /\ signal # "starting"
           /\ signal' = IF signal = "waiting" THEN "notified" ELSE signal
           /\ UNCHANGED <<loaded, main, drainLeft, loop, spec, session>>
    <2>1. TypeOK'
        BY <1>2, TimesAssumption DEF ServiceInv, TypeOK, Running, config, Terminate
    <2>2. LoadInv'
        BY <1>2 DEF ServiceInv, LoadInv, Running, Terminate
    <2>3. RunsWhatIsWritten'
        BY <1>2 DEF ServiceInv, RunsWhatIsWritten, Running, config, Terminate
    <2>4. StopInv'
        BY <1>2 DEF ServiceInv, StopInv, Returned, TypeOK, Terminate
    <2>5. TimeInv'
        BY <1>2, TimesAssumption, LoadedFacts DEF ServiceInv, LoadInv, TimeInv, TypeOK, config, Terminate
    <2> QED
        BY <2>1, <2>2, <2>3, <2>4, <2>5 DEF ServiceInv
<1> QED
    BY <1>1, <1>2 DEF Terminate

\* So does the administrator.
LEMMA AdminKeepsInv ==
    ASSUME ServiceInv, NEW flags, run_admin(flags)
    PROVE  ServiceInv'
<1>1. again \in BOOLEAN /\ wanted \in BOOLEAN /\ file' \in Files
    BY DEF ServiceInv, TypeOK, run_admin
<1>2. CASE Start
    BY <1>1, <1>2, LaunchKeepsInv, WordKeepsInv DEF Start, run_admin, process
<1>3. CASE Stop
    BY <1>1, <1>3, TerminateKeepsInv, WordKeepsInv DEF Stop, run_admin, process
<1>4. CASE Restart
    BY <1>1, <1>4, LaunchKeepsInv, TerminateKeepsInv, WordKeepsInv
       DEF Restart, run_admin, process
<1> QED
    BY <1>2, <1>3, <1>4 DEF run_admin

\* So does the end of a process.
LEMMA FreshEndsKeepInv ==
    ASSUME ServiceInv, LoadFails \/ Leave \/ Crash \/ Kill
    PROVE  ServiceInv'
<1>1. Fresh("none") /\ UNCHANGED <<again, wanted, stopLeft, lag, file>>
    BY DEF LoadFails, Leave, Crash, Kill
<1>2. unit' \in {"inactive", "waiting", "failed", "stopping"}
    BY DEF LoadFails, Leave, Crash, Kill, ServiceInv, TypeOK, LoadInv
<1> QED
    BY <1>1, <1>2, FreshKeepsInv DEF ServiceInv, TypeOK

\* So does systemd.
LEMMA UnitKeepsInv ==
    ASSUME ServiceInv, AutoRestart \/ Stopped
    PROVE  ServiceInv'
<1>1. again \in BOOLEAN /\ wanted \in BOOLEAN /\ file \in Files
    BY DEF ServiceInv, TypeOK
<1>2. CASE Launch /\ UNCHANGED <<wanted, file>>
    BY <1>1, <1>2, LaunchKeepsInv
<1>3. CASE /\ unit = "stopping" /\ main = "none" /\ unit' = "inactive"
           /\ UNCHANGED <<again, wanted, stopLeft, lag, file, process>>
    <2>1. TypeOK'
        BY <1>3 DEF ServiceInv, TypeOK, Running, config, process
    <2>2. LoadInv'
        BY <1>3 DEF ServiceInv, LoadInv, Running, process
    <2>3. RunsWhatIsWritten'
        BY <1>3 DEF ServiceInv, RunsWhatIsWritten, Running, config, process
    <2>4. StopInv'
        BY <1>3 DEF ServiceInv, StopInv, Returned, TypeOK, process
    <2>5. TimeInv'
        BY <1>3 DEF ServiceInv, TimeInv, TypeOK, config, process
    <2> QED
        BY <2>1, <2>2, <2>3, <2>4, <2>5 DEF ServiceInv
<1> QED
    BY <1>2, <1>3 DEF AutoRestart, Stopped

\* So does an editor of the file.
LEMMA EditKeepsInv ==
    ASSUME ServiceInv, Edit
    PROVE  ServiceInv'
<1>1. TypeOK'
    BY DEF ServiceInv, TypeOK, Running, config, Edit, systemd, process
<1>2. LoadInv'
    BY DEF ServiceInv, LoadInv, Running, Edit, systemd, process
<1>3. RunsWhatIsWritten'
    BY DEF ServiceInv, RunsWhatIsWritten, Running, config, Edit, systemd, process
<1>4. StopInv'
    BY DEF ServiceInv, StopInv, Returned, TypeOK, Edit, systemd, process
<1>5. TimeInv'
    BY DEF ServiceInv, TimeInv, TypeOK, config, Edit, systemd, process
<1> QED
    BY <1>1, <1>2, <1>3, <1>4, <1>5 DEF ServiceInv

\* So does loading it.
LEMMA LoadKeepsInv ==
    ASSUME ServiceInv, LoadOk
    PROVE  ServiceInv'
<1> DEFINE new == Content[file].config
<1>1. /\ main = "loading" /\ main' = "serving"
      /\ file \in Files /\ Valid(file) /\ file # None
      /\ loaded = None /\ loaded' = file
      /\ new.drain \in Nat /\ DOMAIN new.proxies \subseteq 1..Slots
    BY LoadedFacts DEF ServiceInv, TypeOK, LoadInv, LoadOk, WellFormed
<1>2. Enabled(new) \subseteq 1..Slots
    BY <1>1 DEF Enabled
<1>3. PICK opened \in BOOLEAN :
          /\ loop' = [i \in 1..Slots |->
                        IF i \in Enabled(new) THEN "binding" ELSE "off"]
          /\ spec' = [i \in Enabled(new) |->
                        resolve_output(new.proxies[i], new,
                                       new.capture_log /\ opened)]
    BY DEF LoadOk
<1>4. UNCHANGED <<unit, again, wanted, stopLeft, lag, file, signal, drainLeft, session>>
    BY DEF LoadOk, systemd
<1>a. unit # "stopping"
    BY <1>1 DEF ServiceInv, LoadInv, StopInv
<1>5. config' = new
    BY <1>1 DEF config
<1>6. \A i \in Enabled(new) : AsWritten(spec'[i], new.proxies[i], new)
    BY <1>1, <1>3, LoadedFacts, ValidMeansWritten
<1> HIDE DEF new
<1>7. Running' = Enabled(new)
    BY <1>2, <1>3 DEF Running
<1>8. TypeOK'
    <2>1. loop' \in [1..Slots -> {"off", "binding", "listening", "failed", "closed"}]
        BY <1>3
    <2>2. DOMAIN spec' = Running'
        BY <1>3, <1>7
    <2>3. drainLeft = 0
        BY <1>1 DEF ServiceInv, TypeOK
    <2>4. drainLeft' \in 0..(IF loaded' = None THEN 0 ELSE config'.drain)
        BY <1>1, <1>4, <1>5, <2>3
    <2> QED
        BY <1>1, <1>4, <2>1, <2>2, <2>4 DEF ServiceInv, TypeOK
<1>9. LoadInv'
    BY <1>1, <1>4 DEF LoadInv, Valid
<1>10. RunsWhatIsWritten'
    BY <1>5, <1>6, <1>7 DEF RunsWhatIsWritten
<1>11. StopInv'
    <2>1. \A i \in 1..Slots : loop'[i] # "closed"
        BY <1>3
    <2> QED
        BY <1>1, <1>4, <1>a, <2>1 DEF ServiceInv, StopInv
<1>12. TimeInv'
    <2>1. unit' # "stopping"
        BY <1>4, <1>a
    <2> QED
        BY <2>1 DEF TimeInv
<1> QED
    BY <1>8, <1>9, <1>10, <1>11, <1>12 DEF ServiceInv

\* So does installing the handler.
LEMMA HandlerKeepsInv ==
    ASSUME ServiceInv, InstallHandler
    PROVE  ServiceInv'
<1>1. TypeOK'
    BY DEF ServiceInv, TypeOK, Running, config, InstallHandler, systemd
<1>2. LoadInv'
    BY DEF ServiceInv, LoadInv, Running, InstallHandler, systemd
<1>3. RunsWhatIsWritten'
    BY DEF ServiceInv, RunsWhatIsWritten, Running, config, InstallHandler, systemd
<1>4. StopInv'
    BY DEF ServiceInv, StopInv, Returned, TypeOK, InstallHandler, systemd
<1>5. TimeInv'
    BY DEF ServiceInv, TimeInv, TypeOK, config, InstallHandler, systemd
<1> QED
    BY <1>1, <1>2, <1>3, <1>4, <1>5 DEF ServiceInv

\* So does the cancellation.
LEMMA CancelKeepsInv ==
    ASSUME ServiceInv, CancelToken
    PROVE  ServiceInv'
<1>1. TypeOK'
    BY DEF ServiceInv, TypeOK, Running, config, CancelToken, systemd
<1>2. LoadInv'
    BY DEF ServiceInv, LoadInv, Running, CancelToken, systemd
<1>3. RunsWhatIsWritten'
    BY DEF ServiceInv, RunsWhatIsWritten, Running, config, CancelToken, systemd
<1>4. StopInv'
    BY DEF ServiceInv, StopInv, Returned, TypeOK, CancelToken, systemd
<1>5. TimeInv'
    BY DEF ServiceInv, TimeInv, TypeOK, config, CancelToken, systemd
<1> QED
    BY <1>1, <1>2, <1>3, <1>4, <1>5 DEF ServiceInv

\* A pipeline that goes on, and returns with the cancellation or by a failure,
\* keeps the invariant.
LEMMA LoopKeepsInv ==
    ASSUME ServiceInv, NEW i \in 1..Slots,
           loop[i] \in {"binding", "listening"},
           NEW state \in {"listening", "failed", "closed"},
           state = "listening" => loop[i] = "binding",
           state = "closed" => signal = "done", SetLoop(i, state)
    PROVE  ServiceInv'
<1>a. /\ loop \in [1..Slots -> {"off", "binding", "listening", "failed", "closed"}]
      /\ loop' = [loop EXCEPT ![i] = state]
      /\ Running' = Running
    BY DEF ServiceInv, TypeOK, SetLoop, Running
<1>1. TypeOK'
    BY <1>a DEF ServiceInv, TypeOK, Running, config, SetLoop, systemd
<1>2. LoadInv'
    BY <1>a DEF ServiceInv, LoadInv, Running, SetLoop, systemd
<1>3. RunsWhatIsWritten'
    BY <1>a DEF ServiceInv, RunsWhatIsWritten, Running, config, SetLoop, systemd
<1>4. StopInv'
    BY <1>a DEF ServiceInv, StopInv, Returned, TypeOK, SetLoop, systemd
<1>5. TimeInv'
    BY DEF ServiceInv, TimeInv, TypeOK, config, SetLoop, systemd
<1> QED
    BY <1>1, <1>2, <1>3, <1>4, <1>5 DEF ServiceInv

\* So does a session that begins or ends.
LEMMA SessionKeepsInv ==
    ASSUME ServiceInv, NEW s \in Sessions,
           NEW state \in {"none", "lookup", "open"}, SetSession(s, state)
    PROVE  ServiceInv'
<1>1. TypeOK'
    BY DEF ServiceInv, TypeOK, Running, config, SetSession, systemd
<1>2. LoadInv'
    BY DEF ServiceInv, LoadInv, Running, SetSession, systemd
<1>3. RunsWhatIsWritten'
    BY DEF ServiceInv, RunsWhatIsWritten, Running, config, SetSession, systemd
<1>4. StopInv'
    BY DEF ServiceInv, StopInv, Returned, TypeOK, SetSession, systemd
<1>5. TimeInv'
    BY DEF ServiceInv, TimeInv, TypeOK, config, SetSession, systemd
<1> QED
    BY <1>1, <1>2, <1>3, <1>4, <1>5 DEF ServiceInv

\* So does main when all loops have returned.
LEMMA JoinKeepsInv ==
    ASSUME ServiceInv, JoinLoops
    PROVE  ServiceInv'
<1>a. loaded # None /\ config.drain \in Nat
    BY LoadedFacts DEF ServiceInv, LoadInv, JoinLoops, config
<1>1. TypeOK'
    BY <1>a DEF ServiceInv, TypeOK, Running, config, JoinLoops, SetMain, systemd
<1>2. LoadInv'
    BY DEF ServiceInv, LoadInv, Running, JoinLoops, SetMain, systemd
<1>3. RunsWhatIsWritten'
    BY DEF ServiceInv, RunsWhatIsWritten, Running, config, JoinLoops, SetMain, systemd
<1>4. StopInv'
    BY DEF ServiceInv, StopInv, Returned, TypeOK, JoinLoops, SetMain, systemd
<1>5. TimeInv'
    <2>1. /\ main = "serving" /\ main' = "draining" /\ drainLeft' = config.drain
          /\ config' = config /\ UNCHANGED <<unit, lag, stopLeft>>
        BY DEF JoinLoops, SetMain, systemd, config
    <2>2. lag \in Nat /\ stopLeft \in Nat /\ StopTimeout \in Nat
        BY TimesAssumption DEF ServiceInv, TypeOK
    <2>3. unit = "stopping" => StopTimeout =< lag + stopLeft
        BY <2>1 DEF ServiceInv, TimeInv
    <2>4. unit = "stopping" =>
              StopTimeout + config.drain =< lag + stopLeft + config.drain
        BY <1>a, <2>2, <2>3
    <2> QED
        BY <2>1, <2>4 DEF TimeInv
<1> QED
    BY <1>1, <1>2, <1>3, <1>4, <1>5 DEF ServiceInv

\* So does the end of the drain.
LEMMA DrainKeepsInv ==
    ASSUME ServiceInv, DrainClean \/ DrainTimeout
    PROVE  ServiceInv'
<1>1. TypeOK'
    BY DEF ServiceInv, TypeOK, Running, config, DrainClean, DrainTimeout, SetMain, systemd
<1>2. LoadInv'
    BY DEF ServiceInv, LoadInv, Running, DrainClean, DrainTimeout, SetMain, systemd
<1>3. RunsWhatIsWritten'
    BY DEF ServiceInv, RunsWhatIsWritten, Running, config, DrainClean, DrainTimeout, SetMain, systemd
<1>4. StopInv'
    BY DEF ServiceInv, StopInv, Returned, TypeOK, DrainClean, DrainTimeout, SetMain, systemd
<1>5. TimeInv'
    BY DEF ServiceInv, TimeInv, TypeOK, config, DrainClean, DrainTimeout, SetMain, systemd
<1> QED
    BY <1>1, <1>2, <1>3, <1>4, <1>5 DEF ServiceInv

\* The one step of time.
LEMMA TickKeepsInv ==
    ASSUME ServiceInv, Tick
    PROVE  ServiceInv'
<1>a. /\ loaded # None /\ config.drain \in Nat
      /\ drainLeft \in 0..config.drain
      /\ main \notin {"none", "loading"}
    BY LoadedFacts DEF ServiceInv, TypeOK, LoadInv, StopInv, Tick, config
<1>b. unit = "stopping" /\ (main = "serving" \/ (main = "draining" /\ drainLeft = 0))
        => lag' = lag + 1
    BY DEF ServiceInv, StopInv, Tick, Due
<1>1. TypeOK'
    BY <1>a, TimesAssumption DEF ServiceInv, TypeOK, Running, config, Tick
<1>2. LoadInv'
    BY DEF ServiceInv, LoadInv, Running, Tick
<1>3. RunsWhatIsWritten'
    BY DEF ServiceInv, RunsWhatIsWritten, Running, config, Tick
<1>4. StopInv'
    BY DEF ServiceInv, StopInv, Returned, TypeOK, Tick
<1>5. TimeInv'
    <2>1. /\ StopTimeout \in Nat /\ stopLeft \in Nat /\ lag \in Nat
          /\ drainLeft \in Nat
        BY <1>a, TimesAssumption DEF ServiceInv, TypeOK
    <2>2. /\ config' = config /\ unit' = unit /\ main' = main
          /\ drainLeft' = IF main = "draining" /\ drainLeft > 0
                          THEN drainLeft - 1 ELSE drainLeft
          /\ lag' \in {lag, lag + 1}
        BY DEF Tick, config
    <2>3. ASSUME unit = "stopping"
          PROVE  stopLeft' = stopLeft - 1
        BY <2>3 DEF Tick
    <2>4. ASSUME unit = "stopping", main = "serving"
          PROVE  StopTimeout =< lag' + stopLeft'
        <3>1. StopTimeout =< lag + stopLeft
            BY <2>4 DEF ServiceInv, TimeInv
        <3>2. lag' = lag + 1
            BY <1>b, <2>4
        <3> QED
            BY <2>1, <2>3, <2>4, <3>1, <3>2
    <2>5. ASSUME unit = "stopping", main = "draining"
          PROVE  StopTimeout + drainLeft' =< lag' + stopLeft' + config.drain
        <3>1. StopTimeout + drainLeft =< lag + stopLeft + config.drain
            BY <2>5 DEF ServiceInv, TimeInv
        <3>2. CASE drainLeft = 0
            BY <1>a, <1>b, <2>1, <2>2, <2>3, <2>5, <3>1, <3>2
        <3>3. CASE drainLeft > 0
            <4>1. drainLeft' = drainLeft - 1 /\ stopLeft' = stopLeft - 1
                BY <2>2, <2>3, <2>5, <3>3
            <4> QED
                BY <1>a, <2>1, <2>2, <3>1, <4>1
        <3> QED
            BY <2>1, <3>2, <3>3
    <2> QED
        BY <2>2, <2>4, <2>5 DEF TimeInv
<1> QED
    BY <1>1, <1>2, <1>3, <1>4, <1>5 DEF ServiceInv

\* Every step keeps it.
LEMMA InvNext == ServiceInv /\ [Next]_vars => ServiceInv'
<1> SUFFICES ASSUME ServiceInv, [Next]_vars
             PROVE  ServiceInv'
    OBVIOUS
<1>1. ASSUME NEW flags, run_admin(flags)
      PROVE  ServiceInv'
    BY <1>1, AdminKeepsInv
<1>2. CASE Edit
    BY <1>2, EditKeepsInv
<1>3. CASE Process
    <2>1. CASE LoadOk
        BY <2>1, LoadKeepsInv
    <2>2. CASE LoadFails \/ Leave
        BY <2>2, FreshEndsKeepInv
    <2>3. CASE InstallHandler
        BY <2>3, HandlerKeepsInv
    <2>4. CASE CancelToken
        BY <2>4, CancelKeepsInv
    <2>5. ASSUME NEW i \in 1..Slots, Bind(i)
          PROVE  ServiceInv'
        BY <2>5, LoopKeepsInv DEF Bind
    <2>6. ASSUME NEW i \in 1..Slots, StopAccepting(i)
          PROVE  ServiceInv'
        BY <2>6, LoopKeepsInv DEF StopAccepting
    <2>7. CASE JoinLoops
        BY <2>7, JoinKeepsInv
    <2>8. CASE DrainClean \/ DrainTimeout
        BY <2>8, DrainKeepsInv
    <2> QED
        BY <1>3, <2>1, <2>2, <2>3, <2>4, <2>5, <2>6, <2>7, <2>8 DEF Process
<1>4. ASSUME NEW i \in 1..Slots, AcceptFails(i)
      PROVE  ServiceInv'
    BY <1>4, LoopKeepsInv DEF AcceptFails
<1>5. ASSUME NEW s \in Sessions, Accept(s) \/ Resolved(s) \/ End(s)
      PROVE  ServiceInv'
    BY <1>5, SessionKeepsInv DEF Accept, Resolved, End
<1>6. CASE Crash \/ Kill
    BY <1>6, FreshEndsKeepInv
<1>7. CASE AutoRestart \/ Stopped
    BY <1>7, UnitKeepsInv
<1>8. CASE Tick
    BY <1>8, TickKeepsInv
<1>9. CASE UNCHANGED vars
    <2>1. TypeOK'
        BY <1>9 DEF ServiceInv, TypeOK, Running, config, vars
    <2>2. LoadInv'
        BY <1>9 DEF ServiceInv, LoadInv, Running, vars
    <2>3. RunsWhatIsWritten'
        BY <1>9 DEF ServiceInv, RunsWhatIsWritten, Running, config, vars
    <2>4. StopInv'
        BY <1>9 DEF ServiceInv, StopInv, Returned, vars
    <2>5. TimeInv'
        BY <1>9 DEF ServiceInv, TimeInv, config, vars
    <2> QED
        BY <2>1, <2>2, <2>3, <2>4, <2>5 DEF ServiceInv
<1> QED
    BY <1>1, <1>2, <1>3, <1>4, <1>5, <1>6, <1>7, <1>8, <1>9 DEF Next

\* The invariant, always.
LEMMA InvHolds == Spec => []ServiceInv
    BY InvInit, InvNext, PTL DEF Spec

\* What the variables of Service hold.
THEOREM TypeCorrect == Spec => []TypeOK
<1>1. ServiceInv => TypeOK
    BY DEF ServiceInv
<1> QED
    BY <1>1, InvHolds, PTL

\* A pipeline logs as its profile says, whatever the file is changed to while
\* it runs (main.rs 244-336, 446-466).
THEOREM RunsWhatIsWrittenHolds == Spec => []RunsWhatIsWritten
<1>1. ServiceInv => RunsWhatIsWritten
    BY DEF ServiceInv
<1> QED
    BY <1>1, InvHolds, PTL

----------------------------------------------------------------------------
(* How the process ends.                                                   *)

\* The unit fails out of a stop by SIGKILL only.
LEMMA OnlyKillFails ==
    ASSUME [Next]_vars, unit = "stopping", unit' = "failed"
    PROVE  Kill
BY DEF Next, run_admin, Start, Stop, Restart, Launch, Terminate, Edit, Process,
       LoadOk, LoadFails, InstallHandler, CancelToken, Bind, StopAccepting,
       AcceptFails, SetLoop, Accept, Resolved, End, SetSession, JoinLoops,
       DrainClean, DrainTimeout, SetMain, Leave, Crash, AutoRestart, Stopped,
       Tick, vars, systemd

\* An active unit becomes inactive when main returns only.
LEMMA OnlyLeaveEnds ==
    ASSUME ServiceInv, [Next]_vars, unit = "active", unit' = "inactive"
    PROVE  Leave
BY DEF Next, run_admin, Start, Stop, Restart, Launch, Terminate, Edit, Process,
       LoadOk, LoadFails, InstallHandler, CancelToken, Bind, StopAccepting,
       AcceptFails, SetLoop, Accept, Resolved, End, SetSession, JoinLoops,
       DrainClean, DrainTimeout, SetMain, Leave, Crash, AutoRestart, Stopped,
       Kill, Tick, vars, systemd

\* By the time of SIGKILL a process that has not left its drain was late, or
\* drained, for all of TimeoutStopSec.
LEMMA KillHasCause ==
    ASSUME ServiceInv, Kill
    PROVE  main = "leaving" \/ config.drain + MaxLag >= StopTimeout
<1>1. /\ unit = "stopping" /\ stopLeft = 0 /\ main # "none"
      /\ signal # "starting"
    BY DEF Kill, ServiceInv, StopInv
<1>2. loaded # None /\ main \in {"serving", "draining", "leaving"}
    BY <1>1 DEF ServiceInv, LoadInv, TypeOK
<1>3. config.drain \in Nat
    BY <1>2, LoadedFacts DEF ServiceInv, LoadInv, config
<1>4. /\ StopTimeout \in Nat /\ MaxLag \in Nat /\ lag \in 0..MaxLag
      /\ drainLeft \in 0..config.drain
    BY <1>2, TimesAssumption DEF ServiceInv, TypeOK
<1>5. CASE main = "serving"
    <2>1. StopTimeout =< lag + stopLeft
        BY <1>1, <1>5 DEF ServiceInv, TimeInv
    <2> QED
        BY <1>1, <1>3, <1>4, <2>1
<1>6. CASE main = "draining"
    <2>1. StopTimeout + drainLeft =< lag + stopLeft + config.drain
        BY <1>1, <1>6 DEF ServiceInv, TimeInv
    <2> QED
        BY <1>1, <1>3, <1>4, <2>1
<1> QED
    BY <1>2, <1>5, <1>6

\* A process that returns without having been asked to has lost its pipelines.
LEMMA LeaveHasCause ==
    ASSUME ServiceInv, Leave, unit = "active"
    PROVE  \A i \in Running : loop[i] = "failed"
<1>1. \A i \in 1..Slots : loop[i] \in {"off", "failed", "closed"}
    BY DEF Leave, ServiceInv, StopInv, Returned
<1>2. \A i \in 1..Slots : loop[i] # "closed"
    BY DEF ServiceInv, StopInv
<1> QED
    BY <1>1, <1>2 DEF Running

\* SIGKILL cuts no drain short that fits into TimeoutStopSec, and a unit that
\* was not asked to stop goes away only without a pipeline left (main.rs
\* 220-224, 567-582, wraithflow.service 12-19), for every drain time,
\* TimeoutStopSec, delay of the process and number of pipelines and sessions.
THEOREM EndsForCauseHolds == Spec => EndsForCause
<1>1. ASSUME ServiceInv, [Next]_vars
      PROVE  /\ unit = "stopping" /\ unit' = "failed" =>
                   main = "leaving" \/ config.drain + MaxLag >= StopTimeout
             /\ unit = "active" /\ unit' = "inactive" =>
                   \A i \in Running : loop[i] = "failed"
    BY <1>1, OnlyKillFails, OnlyLeaveEnds, KillHasCause, LeaveHasCause
<1> QED
    BY <1>1, InvHolds, PTL DEF Spec, EndsForCause
=============================================================================
