# WraithFlow in TLA+

WraithFlow is a TCP proxy: it listens on several addresses, forwards each
accepted connection to a fixed target, counts and logs the bytes it forwards,
and drains its connections when it is told to stop.  This directory holds its
TLA+ models, the TLC configurations that check them on small instances, and
theorems about them checked by TLAPS.  Paths are relative to the repository;
`lib.rs` is `crates/wf-proxy/src/lib.rs` and `main.rs` is `src/main.rs`.

## 1. The system

| Component | State | Operations | Talks to |
|---|---|---|---|
| accept loop, `start_proxy` (lib.rs 120-185), one task per pipeline | the listener; the kernel's accept queue behind it | bind, accept, return on an error of `accept()`, return on cancellation | spawns session tasks into the task tracker; reads the cancellation token |
| session task (lib.rs 147-174) | its place between counter updates | count, run `handle_session`, count an error, count the close | shared atomics of `PipelineStats`; holds a tracker token until it ends |
| session forwarding, `handle_session` (lib.rs 187-261) | two sockets, a 4096-byte buffer per direction | read, count, log, `write_all`; the first direction to end ends both | the two peers; `log_chunk` |
| `main` (main.rs 459-595) | the list of loops, the token, the tracker, the drain timer | spawn everything, await the loops, close the tracker, wait or time out, return | all of the above |
| signal task (main.rs 464-477) | handler installed or not, token cancelled or not | install, wait for SIGTERM or Ctrl+C, cancel | the accept loops, through the token |
| `log_chunk`, `Packet`, `BufferPool` (lib.rs 263-320, wf-core) | a stack of idle buffers behind a mutex; one buffer per packet in progress | acquire, filter, redact, render, print, capture, release | standard output; the capture log |
| `CaptureLog` (lib.rs 21-52) | one append-only file behind a mutex, shared by all pipelines, kept across restarts | open, write a line | the file system; readers of the file |
| `PipelineStats`, `StatsRegistry` (wf-core/stats.rs) | five atomics per pipeline name; a map behind a mutex | increment, decrement, snapshot | sessions, the `[STATS]` ticker, the control socket |
| control socket (control.rs) | a listener; one task per request | read a line, answer, close | `StatsRegistry`; wf-tui |
| `PacketFilter`, `Redactor`, renderers (wf-packet) | none | match, mask, highlight, render | `log_chunk` |
| configuration (main.rs 114-345, 390-457) | the file; what was loaded from it | load, validate, resolve output profiles | `main`, which reads it once; an editor |
| wf-tui | rows, history, selection, sort order, mode | poll, sort, handle keys, draw | control socket |
| admin command line (main.rs 45-112) | none | resolve the flags, run `systemctl` | systemd |
| systemd unit (`systemd/wraithflow.service`) | active, stopping, failed, waiting; the stop timer; a queued start | start, SIGTERM, SIGKILL after `TimeoutStopSec`, restart on failure after `RestartSec` | the process, by signals and its exit status |
| installer, release gates, CI | none | | |

What is hard here, and what makes each part correct:

- **Sessions, loops, the signal task and main interleave** on several threads.
  The counters are separate atomics that tasks of several pipelines share (two
  `[[proxies]]` entries may have one name); each must at every moment be the
  number of sessions between its increment and its decrement, on every way out
  of a session.
- **Shutdown is a race** between a signal, clients still in accept queues,
  sessions that end, and the drain deadline.  No session may start after the
  tracker is closed (closing does not prevent spawning), the verdict in the
  log must be true, and the process must end.
- **A session is two byte streams in one task.**  Back-pressure of one must
  not stop the other; bytes must be counted and logged before they are
  delivered; nothing may be lost, repeated or reordered; the end of one
  direction ends both, and must not lose what that direction had read.
- **Logging shares a pool, an output and a file** between all sessions.  What
  a profile selects, and only that, must come out, with no byte of another
  chunk; a failing disk or a kill must not do more harm than it has to.
- **Reports are read while sessions count.**  A snapshot is five loads per
  pipeline, not a moment in time; an answer must be complete and no older than
  its request, one idle client of the control socket must not hold up another,
  and a socket path left by a dead process must not stop the next one.
- **The dashboard polls between a key and its effect.**  Rows move, vanish and
  come back under an index; what is on the screen must be what it says it is.
- **Two timers run against each other**, `shutdown_drain_secs` in the process and
  `TimeoutStopSec` in systemd, and neither knows of the other.  A stop must end
  in time, a restart must bring a new process up whatever the sessions do, and
  no drain that fits may be cut short.
- **The configuration is judged twice**: `validate` checks names that
  `resolve_output` looks up again, with silent fallbacks; and the file may change
  while the process that has read an older text runs.
- **Patterns overlap**: each other, themselves, and what an earlier pattern or
  an earlier stage of rendering has put into the text.

PROJECT.json lists the components and, line by line, the hazards, each with the
properties that would notice it going wrong.

## 2. The modules

| Module | What it is |
|---|---|
| `Proxy` | the process: signal task, accept loops, session tasks, main |
| `DrainContract` | abstract: a service that admits sessions, shuts its door, and says truthfully how it ended |
| `Session` | one `handle_session`, with both peers and their sockets |
| `ByteRelay` | abstract: per direction, the output is a growing prefix of the input |
| `Logging` | `log_chunk` called by several sessions, `BufferPool`, `CaptureLog` |
| `Control` | the registry, the control socket and the stats ticker, beside sessions that count, over several runs of the program |
| `Tui` | the dashboard's loop: poll, draw, wait for a key |
| `Packets` | filter, redactor, highlighter and the five formats, on the bytes of one stream |
| `Config` | operators, without state: `validate`, `resolve_output`, `resolve_admin_action`, the names of formats and directions |
| `Service` | the unit, its administrator, the configuration file and the process under it, with time |
| `MCProxy`, `MCSession`, `MCLogging`, `MCControl`, `MCTui`, `MCPackets`, `MCService` | the instances that TLC checks |
| `Selection` | one operator, `Kept`: the elements of a sequence that are in a set |
| `Lemmas` | lemmas about sets, numbers, sums, orders and selections, which the proofs of several components cite |
| `ProxyProofs` | type correctness, tracker, counters; the drain: no session after close, truthful verdict, refinement of `DrainContract` |
| `SessionProofs` | a session: no byte lost, delivered implies logged, refinement of `ByteRelay` |
| `LoggingProofs` | one owner per buffer; what is printed and captured; torn lines |
| `ControlProofs` | complete and timely answers; the end of the control task |
| `TuiProofs` | selection, histories, screen and popup |
| `PacketsProofs` | secrets and highlights, for patterns of every length |
| `ServiceProofs` | `validate` and `resolve_output` agree; the causes for which a process ends |

Some modules hold operators marked *Mutant*: plausible bugs of the
definition that follows them, not used by any specification.  Substituting one
for that definition makes TLC refute the property that PROJECT.json names next to
it, which shows that the property depends on that piece of code.

### Proxy

`sigtask` is where the signal task is.  It may fail to install a handler
(`InstallFails`): without one for SIGTERM it panics, and a signal then kills the
process; without one for Ctrl+C it takes the error for a signal, and drains.  A session's
`phase` is where its task is: `idle` (not connected), `backlog`
(handshake done by the kernel, waiting to be accepted), then from `spawned` to
`leaving` the task's own program counter, then `done`; `reset` is a client
dropped with its listener, `panicked` a task that unwound.  `failed` is history: the
sessions whose `handle_session` returned an error.  Every atomic update is a step
of its own.  `loop` is where each `start_proxy` is, `tracker` the
`TaskTracker` (closed flag and number of live tasks), `main` the program counter
of `main`: `joining` (main.rs 563), `draining` (572), `exiting` (the runtime is
being dropped), then `exited`; `killed` is a signal that arrived before its
handler was installed.

- The accept branch of `select!` stays enabled after cancellation: the macro
  picks at random among ready branches.
- Returning from `start_proxy` drops the listener, so that step also resets
  the clients of its queue, whether it returns by cancellation or by an error.
- `Exit` waits for tasks in the middle of a poll (`MidPoll`: between two
  `.await` points) and for name lookups, which run on blocking threads that the
  runtime joins; every other task is dropped where it waits.  A lookup has no
  deadline, so that `main` may be `exiting` for ever.  Sessions may still
  take steps while main is `exiting`; the runtime would let fewer of them.
- The accept queue is a set: the order in which clients are accepted matters to
  no property.  Each client connects at most once; a client that comes back is
  another client.

### Session

Each direction is a pipe of four places: `rx` (the proxy socket's receive
queue), the loop's buffer `buf` with `fill` bytes read and `pos` written, `tx`
(send queue and network), `got`.  A byte is its position in its stream, so that
a lost, repeated, stale or misplaced byte is visible.  `ReadChunk` is a read, the
counter and `log_chunk` in one step, since there is no `.await` between them.
`WriteSome` is one `write` of `write_all`: it takes what there is room for.
A loop inside `write_all` does not read, so it sees neither an end of file nor a
reset of its source.  Peers may send, stop sending, close, reset, or stop
reading for ever.  `Drop` closes both sockets: unread bytes are lost, and data on
its way to a peer whose bytes were left unread may be lost with the reset that
follows.  Peers do not send after the session is over, since nothing would
change, and the proxy's own FIN to them is not modelled.

### Logging

`log_chunk` is cut into steps where it touches something shared: the pool's
mutex (`BuildPacket`, `Recycle`), standard output (`PrintLine`), the file's mutex
(`LockFile`), and the two writes that `writeln!` makes on an unbuffered file
(`WriteRecord`, `WriteNewline`).  Buffers have identities and contents; an idle
buffer keeps what it holds.  The file is a sequence of lines, each a sequence of
what was written on it, and survives `Restart`.  A fault is a failed write
(nothing, or a part, was written) or a kill.  The filter and the redactor use
patterns of one letter: their order and their effect on a buffer are
modelled, longer patterns are left to `Packets`.  A record has the bytes and the
session of a packet; format, colour, time and direction label are left out.
`write_line` recovers a poisoned mutex; nothing it calls while holding it
panics, so that path is not a step.

### Control

A process goes from `down` over `starting` (it registers its pipelines one by
one) to `running` and `gone`; `control` is the place of the task of
`control::serve`, `task` that of each reader: a connection of a client, or the
ticker.  A reader takes the registry's mutex, loads the counters one by one, and
gives the mutex back; sessions hold their own `Arc` and never take it, so that
every counter update can fall between any two loads.

- Rows come in any order, since the map has none.  The loads of a row are
  `Relaxed` and may be reordered; each happens at some moment while the reader has
  the mutex, and the properties say no more than that.  A relaxed
  read-modify-write is visible when it is performed.
- `path` is the process that the socket's path leads to.  `Stop` does not
  remove it; `Unlink` and `Bind` of the next process do and replace it.  Processes
  run one at a time, as under the systemd unit; two instances with one
  `control_socket` would take the path from each other.
- A client sends a request, another line, a line that is not UTF-8, nothing, or
  leaves.  A panicked session is one that stays `open` for ever.
- `since` is history: the sessions' progress at the moment of the request.

### Tui

`at` is the place in the loop of `run_interactive`, in which every turn polls
unless paused, draws, and waits for one key or the interval.  Each key is an
action: `handle_key` with what the loop does for its result.  Names are numbers
with their order.  A fetch gives an answer or an error; the server is external.
`screen` is what the last drawing shows: rows, title, the row of totals, and in
the detail popup the pipeline's counters and its graph.  `samples`, `fetched`,
`failing` and `chosen` are history.  The characters of a sparkline (the graph is
the samples it is drawn from), the layout, the colours, and `--once`, which polls
and prints once and keeps no state, are left out.

### Packets

One stream is read in any cut into chunks of at most `BufferLen`; each chunk
goes through `log_chunk`: filter, the redactor's patterns one by one, the
rendering, standard output, the capture log.  `Hits` and `Highlighted` are the
two scans, as functions of the place they have come to.  Bytes are letters,
control characters and bytes that are not UTF-8; a colour code is an escape
character and the rest of the code, which counts as one character.  A rendering has a `text`
and, in the formats that write every byte out (hexdump's columns, base64, the
`raw_hex` of JSON), the bytes that can be read back from its `digits`.  The labels,
offsets and quotes that a renderer puts around them are left out, and so are the
colours of JSON's own syntax.

A packet is one read.  A pattern that begins in one read and ends in the next is
in no packet, so nothing masks it; what `RedactsSecretsOnly` says of
each packet does not hold for the concatenation of two.

### Config and Service

A configuration is a record of proxies, profiles, the drain time and whether
`capture_log` is set.  Words are spelled with or without capitals, since the code
compares some texts in small letters.  A listen text names a set of sockets
(`SocketsOf`): none if it does not parse, several for a wildcard address.

`Service` has the file (`file`), the text that main has read (`loaded`), the
process (`main`, `signal`, `loop`, `spec`, `session`) and the unit (`unit`, `again`
for a start queued behind a stop).  `Fresh` is the end of a process, and the state
in which the next one begins.  The process is that of `Proxy` with less of it: a
session is looking its target up or open, without counters; in exchange there
is a configuration, a supervisor and time.

- `LoadFails` stands for every `?` before the pipelines start: the exit status is
  1, and the unit waits for `RestartSec`.  `LoadOk` starts one loop per enabled
  proxy with the `OutputSpec` of `resolve_output`; that the capture log could not
  be opened is no error.
- `Bind` takes the sockets of the listen text, if no other pipeline has them;
  another process on the machine may have them too, so that it can always fail.
- `Terminate` is SIGTERM: before the handler is installed it ends the process,
  afterwards the signal task takes one and no more.
- `Tick` counts `stopLeft` (TimeoutStopSec) and `drainLeft` (shutdown_drain_secs)
  down together.  The process may be late: `lag` counts the ticks in which a step
  of its own was due and not taken, and `MaxLag` bounds it.  Without such a
  bound nothing can be said of two timers; with it, what is said is
  how much room they need between them.
- `Leave` waits for sessions in a name lookup, which is on a blocking thread that
  the runtime joins.
- A signal handler that cannot be installed is a step of `Proxy` only: `EndsForCause`
  holds if Ctrl+C's can be, since `main` takes its error for a stop and ends an
  active unit with success.
- `Crash` is a death of a process that is not being stopped.  A death for
  another reason during a stop, a SIGTERM sent to the process by hand, and systemd's
  limit on the rate of starts are left out.

## 3. What the runs check

| Run | Instance | States | Result |
|---|---|---|---|
| `proxy` | 2 pipelines with one name, 3 clients (2 + 1), all faults | 197,172 | every property holds |
| `proxy_accept_error` | the same | | violated, as expected |
| `session` | buffer 2, window 2, 3 bytes out, 2 bytes in | 208,668 | every property holds |
| `session_every_byte` | the same | | violated, as expected |
| `logging` | 3 sessions (redacting, plain, muted), 1 idle buffer, 1 fault | 372,396 | every property holds |
| `control` | 2 processes, one after the other, 1 pipeline, 1 session, 2 clients, a ticker, 1 fault | 223,566 | every property holds |
| `tui` | 2 pipelines, 4 answers, 3 polls, history of 2 | 156,652 | every property holds |
| `tui_throughput` | 1 pipeline that moves nothing any more | | violated, as expected |
| `packets` | 35 streams of up to 5 bytes, 96 profiles, reads of up to 4 bytes, preview of 3 | 260,044 | every property holds |
| `packets_compact` | the same, preview of 9 | | violated, as expected |
| `service` | 2 proxies, 11 files (5 of them valid), 2 sessions, TimeoutStopSec 3, MaxLag 1 | 139,216 | every property holds |
| `service_overlap` | the same | | violated, as expected |

**proxy.**  `TrackerIsExact` and `Accounting` say that the tracker and each
counter are exactly the numbers of sessions they are meant to be; `errors_total`
is the number of sessions in `failed` that have got past the increment.
`CleanMeansDrained`, `NoSessionAfterClose` and the refinement `HonoursContract`
are about shutdown.  `SignalStops`, `NothingLeftStops` and `BacklogIsServed` are
liveness: after a signal, or when no loop is left, `main` returns, and the
process ends unless a name lookup never does (`LookupHangs`).  Two clients on one pipeline give two
tasks on the same counters and a queue with more than one client; a second
pipeline under the same name gives loops that return in either order while the
other still accepts, and counters shared across pipelines.

**session.**  `NothingLostWhileOpen` (the places of the pipe, put together, are
what was sent), `DeliveredIsLogged`, `EofMeansForwarded`, and the refinement
`IsByteRelay`, which also covers sessions that were reset or cut.
`EndsWithPeer` and `DirectionsIndependent` are liveness.  Three bytes through a
buffer and a window of two make a read shorter than the one before it, a write
that finds room for a part, and a full window with bytes behind it.

**logging.**  `BuffersHaveOneOwner`, `PrintsWhatIsDue` (per session, standard
output is the redacted selection of what was read, in order),
`CapturesWhatIsPrinted`, `TornByFaultsOnly`, and the liveness `LogReturns`.
Two active sessions and one idle buffer make the pool empty, reused and
full; a two-letter chunk before a one-letter chunk would show stale
bytes.

**control.**  `AnswersAreTimely` bounds every counter of an answer by what
sessions had counted when the request was sent and when the answer is ready: a
reader never sees less than what had happened before it asked.  Nothing relates
two counters of one row: `connections_active` may exceed `connections_total`.
`AnswersAreComplete` (a row for every pipeline, also early in the start),
`EndsByFaultOnly` (a leftover path does not end the control task), and the
liveness `RequestsAreAnswered`: a client that has sent a line is accepted unless
the process or the listener ends first, and a client that was accepted gets its
answer unless the process ends, also after the control task has failed.

**tui.**  `SelectionInRange` and `HistoryIsRecent` hold for every key at every
moment.  `ScreenIsLatest`: the rows on the screen are the latest answer, in the
order of `sort_field` and `sort_desc`, with its sums above it, and marked as old
exactly when the poll after it failed.  `PausedDetailShowsChosen` holds while
paused only: between two polls the popup is looked up by an index that the next
answer moves.

**packets.**  `RedactsSecretsOnly`: no whole match of a pattern is left in the
packet, in the text with or without its colours, or in the digits, and only
bytes of matches are masked.  `HighlightMarksPatterns`: in a raw text marks are
around whole patterns, none is left unmarked between two marks, and nothing but
the codes is added; no other format but compact, and no line of the capture log,
has a code in it.  The patterns are ones that overlap themselves (`aba`), each
other (`ab`, `ba`; `b`, `ab`), or are empty.

**service.**  `RunsWhatIsWritten`: the output of a running pipeline is what its
profile spells out, in the text that was loaded, whatever is on disk by now.
`EndsForCause`: SIGKILL cuts a drain short only if the drain time and what the
process is late reach `TimeoutStopSec`; an active unit ends with success only
when every pipeline has failed.  `RestartTakesEffect` (liveness): after a restart,
and after a failure, a new process comes up, or the administrator has said stop,
although sessions and lookups may last for ever and the file may not load.
The files are two that differ in every output, a disabled proxy with a profile
that does not exist, two profiles with one name, no enabled proxy, a wildcard
beside an address, and one for each error of `validate`.  The drains of 0 to 3
ticks are below, at and above TimeoutStopSec less MaxLag.

### Where the code does not do what its documentation says

1. `proxy_accept_error`: an error of `accept()` ends a pipeline for good
   (lib.rs 140), while main.rs 560 and lib.rs 115 say that a bound loop returns
   on cancellation only.
2. `session_every_byte`: when one peer finishes sending, bytes that the other one
   has sent can be dropped although the session ends `Ok` (lib.rs 257); README 8
   says every byte is forwarded.
3. `packets_compact`: the compact format turns the escape characters of its own
   highlight codes into dots (format.rs 189-192), so that `highlight` never
   works there; README 92-94 and main.rs 205 say that it does.
4. `tui_throughput`: the graph of the detail popup is labelled "bytes in+out per
   poll" (ui.rs 265), and its samples are the totals since the start (app.rs 216):
   it shows a pipeline that moves nothing at full height.
5. `service_overlap`: `validate` compares listen addresses as texts (main.rs 247),
   so that an address and the wildcard of its port pass, and one of the two
   pipelines fails to bind; SECURITY.md 13-15 says duplicate ports are rejected.

Also seen, without a run:

- A session whose `println!` panics is never taken off `connections_active`
  (lib.rs 169), which README 148 calls the clients connected right now.
- After a failed write or a kill, the next record continues the unfinished line
  (lib.rs 48); README 107 says one line per packet.  `TornByFaultsOnly` says that
  nothing else does this.
- The popup that Enter opens is looked up by index after another poll and sort
  (wf-tui main.rs 178 and 146-156), and may show another pipeline than the
  selected one that README 195 names.
- When all pipelines have failed, main drains and returns `Ok`
  (main.rs 563-595): the exit status is 0, and `Restart=on-failure` does not
  restart a service that listens nowhere.  `EndsForCause` names this case.
- README 77 has `direction = ""` in its sample profile, which `validate` rejects
  (main.rs 276).
- Of two profiles with one name the first is taken (main.rs 294), and two
  pipelines with one name share their counters; `validate` rejects neither.
- `validate` runs after the banner has been printed (main.rs 388), against the
  comment at 242.
- Without XDG_CONFIG_HOME and HOME, `default_config_path` does not look for
  `./config.toml` (main.rs 116-119), which its error message lists.
- `redact` masks matches from left to right and goes on behind each, so that of
  two matches that overlap only the first is masked whole; redact.rs 30 says
  "every match of every pattern".  No match is left whole.
- Of two highlighted patterns that overlap, the one that begins first is marked;
  the first in the list wins only if both begin at one place (format.rs 94).
- `EndsWithPeer` needs a peer that reads: a session whose outbound loop is inside
  `write_all` to a target that neither reads nor sends does not notice that its
  client has gone (lib.rs 220, beside the comment at 249-256).
- When all pipelines have failed and a name lookup hangs, the runtime waits for it
  after main has returned: the unit stays active with nothing left to serve, and
  only a stop, with its SIGKILL, ends it (`LookupHangs`; `Leave` of `Service`).
- If SIGTERM's handler cannot be installed, its task panics, and the process goes on
  without a graceful stop (main.rs 467-469).
- lib.rs 54-56 says that a capture record holds the string that `println!` printed;
  lib.rs 290-310 renders it again without colours, as the test at 441-445 wants.
- The footer names the field that the rows are sorted by; the direction is shown
  for names only (ui.rs 92-96, 180).
- A request that is not UTF-8 closes the connection without an answer
  (control.rs 45); the socket's protocol is one response per request.
- wf-tui's history has a sample per turn of the loop, and every key press is
  a turn, so that "30s of visible history" (app.rs 11-13) is an upper bound.

### Bounds

Clients (3), bytes per direction (3 and 2), chunks per session (1 or 2) and faults
(1) are bounded.  `Control` has one session, in the first process, with one
chunk outbound, a client that polls and one that does anything else, and a
ticker in the second process: every counter changes but `bytes_in`, which is
counted as `bytes_out` is, two readers can compete, and a path is left behind.  `Tui` has two pipelines, the fewest that can change places,
and one poll more than its history keeps.  In `Packets` the stream is longer than
a read, and a pattern can begin at each place.  `Service` has two proxies, the
fewest that can collide, two sessions, so that one can end while the other is in
a lookup, and a TimeoutStopSec that is longer than some drains and shorter than
others.  In `Proxy` no counter needs another bound.  For safety the theorems below
remove these bounds in every module; for liveness the instance is the smallest in
which the cases above occur together.

### Fairness

- Tasks that can run are run (tokio's scheduler): weak fairness of the signal
  task, of each loop's bind, of each session's own steps, of main.  A session's own
  steps (`SessionRuns`) wait for nobody; name lookup, connecting and forwarding
  (`SessionWaits`) are under no fairness and may last for ever.  That `Exit` is fair
  means that the runtime ends when what it waits for has ended.
- `StopAccepting` and `Accept` are weakly fair although they compete: `select!`
  chooses at random among ready branches, so none that stays ready is passed over
  for ever, and a model without probabilities has to say so.
- The drain's `sleep` elapses: `DrainTimeout` is part of weakly fair `Main`.
- In `Session`, both loops (one task polls both), and the kernel that answers data
  sent to a closed peer with a reset.  Of the peers, only those in `readers` go on
  reading; nothing else is assumed of them.
- In `Logging`, each call's own steps.  A `std::sync::Mutex` is not fair;
  `LogReturns` holds because sessions log finitely many chunks in the model, and
  shows that no path keeps the mutex, not that waiting is bounded.
- In `Control`, the steps of `serve`, of accepted connections and of a reader that
  has the mutex are weakly fair.  `Lock` is strongly fair: the mutex is not, but
  those who compete for it are a ticker, which sleeps between ticks, and
  clients, whose requests have a round trip between them.
- In `Service`, the process (its steps that wait for nobody, the disjunction
  `Process`: tokio runs it), time, and systemd: SIGKILL when the time is up, the
  restart after RestartSec, a queued start after a stop.  Sessions, name lookups,
  the administrator, failures of `accept()` and crashes are under no fairness.
- `Tui` and `Packets` have no liveness properties.
- Nothing is assumed of clients, targets, signals or faults.

## 4. What is proved

Every invariant and every refinement that a run checks is also a theorem, for
every value of the constants that satisfies the named assumption of its module.
No other assumption is made.

For every set of pipelines, finite set of sessions, assignment of names, and
with faults on or off (`SessionsAssumption`, `TopologyAssumption`):

- `ProxyProofs`: `TypeCorrect`, `TrackerExact`, `AccountingHolds`,
  `CountersConsistentHolds`.  `TypeOK` is not inductive: that `active` and
  `tracker.live` are natural numbers after a decrement follows only from their
  being the numbers of sessions in certain phases.  The inductive invariant is
  `CountInv == TypeOK /\ TrackerIsExact /\ Accounting /\ ErrorsAhead`; the last part
  says that `failed` is ahead of `errors` by the tasks that are about to count
  their error, without which an increment could not be known to be a new
  session's.  The argument for each
  step is how moving one session from a phase to another changes the cardinality
  of a set of sessions by phase: lemmas about `Count` do this once, every action
  cites them.
- The second part of `ProxyProofs`: `CleanMeansDrainedHolds`,
  `NoSessionAfterCloseHolds`, `HonoursContractHolds` (the refinement).  The inductive invariant `DrainInv` adds to `CountInv` that the
  tracker is closed exactly when main is past joining, that every loop has then
  returned, that no client is in the queue of a loop that has returned, and what
  each verdict implies about the phases.

For every buffer length and window above zero and every number of bytes per
direction:

- `SessionProofs`: `TypeCorrect`, `NothingLost`, `Delivered`, `EofForwarded`,
  `IsRelay` (the refinement).  The properties say what the concatenation of the
  places of a pipe is; the inductive invariant says of each place which
  positions of the stream it holds (`Follows`): `got` starts at 0, `tx` goes on
  where `got` ends, the unwritten part of `buf` ends where `logged` ends, `rx`
  goes on from there.  `Delivery` is the part that survives the end of the
  session (lengths become inequalities), `Forwarding` the part that holds while
  it is open, `AtEof` what an end of file leaves.  Each is a relation between
  sequences and numbers, so that what an append, a tail, a concatenation or a
  cut does to it is a lemma of its own, and each action cites one.

For every set of files whose configurations are well formed (`ContentAssumption`:
what parsing gives has proxies at 1..Slots, texts where there are texts, a natural
number of seconds), every `SocketsOf`, TimeoutStopSec, MaxLag, number of proxies
and set of sessions:

- `ServiceProofs`: `TypeCorrect`, `RunsWhatIsWrittenHolds`, `EndsForCauseHolds`.
  The second rests on `ValidMeansWritten`, which is about operators alone: the
  output of an enabled pipeline of a configuration that `validate` accepts is
  what its profile spells out.  Its one use of numbers is that the first of the
  profiles with a name exists (`MinIsMember`).  The third needs to know what the
  ticks since SIGTERM were: each was one that the process was late with, or one
  of the drain's (`TimeInv`: while it drains, TimeoutStopSec and what is left of
  the drain are at most the delay, the time left and the drain time together), so
  that at SIGKILL the two add up to TimeoutStopSec.  `StopInv` adds how far a process that is being
  stopped has come: its signal is on the way, so that it is never idle, and a
  process that is not being stopped has no loop that returned by cancellation.
  The invariant is `ServiceInv`, and most actions end a process (`FreshKeepsInv`),
  change the unit (`WordKeepsInv`) or move one loop or session.

For every finite set of writers, buffers enough for them (the allocator does not
fail), every chunk, profile, `MaxIdle` and number of faults and restarts
(`DataAssumption`, `BufferAssumption`, `BoundAssumption`):

- `LoggingProofs`: `TypeCorrect`, `BuffersHaveOneOwnerHolds`,
  `PrintsWhatIsDueHolds`, `CapturesWhatIsPrintedHolds`, `TornByFaultsOnlyHolds`.
  `LogInv` adds to the properties what they leave open between two steps.
  Between standard output and the file, the record that a writer is about to
  write is the last one it printed (`AboutToWrite`), and what was lost makes up
  the difference in length (`LengthInv`).  At the file, only the owner of the mutex
  is there, so that nobody's record falls between another one's two writes
  (`LockInv`).  Records of earlier processes stay apart from those of this one
  (`PastInv`).  A line that is not ended but already damaged counts as torn
  before it is one (`Spoiled`); without that the number of torn lines could grow in
  a step that is no fault.

For every set of pipelines and clients, every finite set of sessions and any
number of processes (`ControlAssumption`):

- `ControlProofs`: `TypeCorrect`, `AnswersAreCompleteHolds`,
  `AnswersAreTimelyHolds`, `EndsByFaultOnlyHolds`.  Timeliness relates three
  moments: the request, a load, and the answer.  `CountInv` says what each counter
  is now, as a tally of the sessions' stages; `SinceInv`, that every session has
  only gone on since the request; `LoadInv`, that what is loaded so far lies between
  the tallies of then and of now.  The upper bound moves up with the
  sessions, so that a load stays right while others are still to come;
  `connections_active` falls as well as rises, and has bounds of its own: the
  sessions that were open at both moments, and those that can have been open at
  one between.  `ProcessInv` knows where a process and its socket are, which is why a
  path left by another process is gone before `Bind`.

For every set of pipelines and answers and every history length
(`TuiAssumption`):

- `TuiProofs`: `TypeCorrect`, `SelectionInRangeHolds`, `HistoryIsRecentHolds`,
  `ScreenIsLatestHolds`, `PausedDetailShowsChosenHolds`.  `Sorted` chooses a
  sequence, and the first thing to show is that there is one and only one
  (`SortedExists`, and names decide between equal values); then `TuiInv` says that
  the rows are the latest answer sorted by the chosen field and direction (`RowsInv`), that the
  screen is the state while the loop waits (`ScreenInv`), that the error is that of
  the last poll, and that no key of a paused dashboard moves the selection off the
  row of the popup (`PopupInv`).  `aggregate` is a fold, whose result must not
  depend on the order in which the set is taken apart (`SumsPick`).

For every stream, every list of patterns of any length, every buffer and preview
length (`PacketsAssumption`):

- `PacketsProofs`: `TypeCorrect`, `RedactsSecretsOnlyHolds`,
  `HighlightMarksPatternsHolds`.  Both scans are functions of the place that they
  have come to, computed from the end of the packet; what they return is shown
  downwards, place by place (`Downward`), and the same argument gives that the
  functions exist (`DescentExists`).  Of the redactor's scan that is: every place
  where the pattern begins is inside a match that is overwritten
  (`HitsFound`).  `RedactInv` then says after each pattern's turn that the
  patterns before are nowhere in the packet.  It needs what
  `RedactsSecretsOnly` assumes, that no secret has a star in it: a mask may then
  end matches and never begin one (`BeginsBefore`).  Of the highlighter's scan it
  is `Coloured`: there is a place in the text for each byte of the packet, in
  order, all other places are codes with their escape characters, each code red
  begins a whole mark, and a byte where a pattern begins is inside one.  That no
  secret comes back when the codes are taken out, and that no pattern is left
  between two marks, both follow from where the bytes are: places next to each other
  in the text come from bytes next to each other (`NextToEachOther`).

`Lemmas` has what these need and the library does not have or cannot be cited
for: induction and definition by recursion for sets and functions instead of
operators (`Induction`, `Recursion`), sums over finite sets, sorting, and
selections.

Only model-checked: every liveness property, since the provers do not treat
fairness and ENABLED: `SignalStops`, `NothingLeftStops`, `BacklogIsServed`,
`EndsWithPeer`, `DirectionsIndependent`, `LogReturns`, `RequestsAreAnswered`,
`RestartTakesEffect`.  `CountersConsistent` is only proved.

## 5. What is not modelled, and the plan

What is left to do is to relate modules to each other, which the theorems treat
one by one:

1. `Service` has a process of its own with less in it than `Proxy`.  That the
   process of `Service` is one that `DrainContract` describes can be stated as a
   refinement and proved as `HonoursContract` was.
2. `Logging` has the buffers and the sinks, `Packets` the patterns: that the
   redaction of `Logging` is that of `Packets` for patterns of one letter is a
   lemma about two operators.

Left out for good: layout and the theme of colours, parsing of TOML and JSON and
the TCP, tokio and systemd implementations (outside this repository; modelled
only as far as the code depends on them), systemd's rate limit on starts and its
sandbox, the search for a default configuration file (the unit names its own),
the installer, release gates, hooks, CI and assets (no run-time state). Two
instances of the program at once, which would take the control socket's path
from each other (control.rs 22), and patterns that lie across two reads (lib.rs
204) are hazards that no property covers: the first because the unit runs one
process, the second because a packet is, by design, one read.
