-------------------------------- MODULE Tui --------------------------------
(***************************************************************************)
(* The dashboard of wf-tui: run_interactive's loop over App.  Each turn    *)
(* polls the control socket unless paused, draws, and waits for one key or *)
(* the refresh interval.  Between the key that a user presses for what the *)
(* screen shows and the next drawing lies another poll.                    *)
(*                                                                         *)
(* Names are numbers, in their order.  The control socket is external: a   *)
(* fetch gives one of Responses or an error.  Of a drawing, screen keeps   *)
(* what is shown, and not how.                                             *)
(***************************************************************************)
EXTENDS Integers, SequencesExt

CONSTANTS
    Pipelines,    \* the names of the pipelines
    Responses,    \* the answers of the control socket: sequences of rows
    HistoryLen,   \* HISTORY_LEN, 30 in the code
    MaxPolls      \* bound: the polls that succeed

SortFields == <<"name", "active", "total", "bytes_in", "bytes_out", "errors">>
Counters == {"active", "total", "bytes_in", "bytes_out", "errors"}
Rows == [name : Pipelines, active : Nat, total : Nat, bytes_in : Nat, bytes_out : Nat,
         errors : Nat]

\* No pipeline.
None == 0

ASSUME TuiAssumption ==
    /\ Pipelines \subseteq Nat \ {None}
    /\ Responses \subseteq {r \in Seq(Rows) : \A i, j \in DOMAIN r : r[i].name = r[j].name => i = j}
    /\ HistoryLen \in Nat \ {0}
    /\ MaxPolls \in Nat

VARIABLES
    at,          \* where the loop is
    pipelines,   \* App's rows
    history,     \* per name: App's samples
    selected,    \* App's index of a row, from 0
    sort_field, sort_desc, paused, mode,
    last_error,  \* whether App has an error to show
    screen,      \* what the last drawing shows
    fetched,     \* history: the rows of the last poll that succeeded
    failing,     \* history: whether the last poll failed
    samples,     \* history, per name: every sample that was polled
    chosen       \* history: the pipeline on which the detail popup was opened

view == <<sort_field, sort_desc, paused, mode>>
data == <<pipelines, history, selected, last_error>>
polls == <<fetched, failing, samples>>
vars == <<at, data, view, screen, polls, chosen>>

Over == {"quit", "failed"}
Screens ==
    [rows : Seq(Rows), highlighted : Pipelines \union {None},
     popup : {"normal", "help", "detail"} \X (Pipelines \union {None}),
     graph : Seq(Nat), summary : [Counters -> Nat],
     title : {"disconnected", "paused", "live"}]

\* selected_pipeline, by name.
Selected == IF selected < Len(pipelines) THEN pipelines[selected + 1].name ELSE None

selected_history == IF Selected = None THEN <<>> ELSE history[Selected]

\* The row TOTAL.
aggregate(rows) ==
    [c \in Counters |-> FoldSeq(LAMBDA row, sum : sum + row[c], 0, rows)]

TypeOK ==
    /\ at \in {"poll", "draw", "wait"} \union Over
    /\ pipelines \in Seq(Rows)
    /\ history \in [Pipelines -> Seq(Nat)]
    /\ selected \in Nat
    /\ sort_field \in ToSet(SortFields)
    /\ {sort_desc, paused, last_error, failing} \subseteq BOOLEAN
    /\ mode \in {"normal", "help", "detail"}
    /\ screen \in Screens
    /\ fetched \in Responses \union {<<>>}
    /\ samples \in [Pipelines -> Seq(Nat)]
    /\ chosen \in Pipelines \union {None}

Init ==
    /\ at = "poll"
    /\ pipelines = <<>>
    /\ history = [n \in Pipelines |-> <<>>]
    /\ selected = 0
    /\ sort_field = "name"
    /\ sort_desc = FALSE
    /\ paused = FALSE
    /\ mode = "normal"
    /\ last_error = FALSE
    /\ screen = [rows |-> <<>>, highlighted |-> None, popup |-> <<"normal", None>>,
                 graph |-> <<>>, summary |-> aggregate(<<>>), title |-> "live"]
    /\ fetched = <<>>
    /\ failing = FALSE
    /\ samples = history
    /\ chosen = None

----------------------------------------------------------------------------
(* sort_pipelines and update.                                              *)

\* By the field, in the direction asked for, and then by name; names differ,
\* so that there is one such order.
Before(a, b, field, desc) ==
    \/ IF desc THEN a[field] > b[field] ELSE a[field] < b[field]
    \/ a[field] = b[field] /\ a.name < b.name

Sorted(rows, field, desc) ==
    CHOOSE sorted \in [DOMAIN rows -> ToSet(rows)] :
        /\ ToSet(sorted) = ToSet(rows)
        /\ \A i, j \in DOMAIN sorted : i < j => Before(sorted[i], sorted[j], field, desc)

\* Mutant: the newest samples are dropped.
KeepOldest(h) == IF Len(h) > HistoryLen THEN SubSeq(h, 1, HistoryLen) ELSE h

Trimmed(h) == IF Len(h) > HistoryLen THEN Tail(h) ELSE h

\* bytes_in + bytes_out of the pipelines in the answer, one sample of each.
Sampled(h, rows) ==
    [n \in Pipelines |->
        IF \E i \in DOMAIN rows : rows[i].name = n
        THEN LET row == rows[CHOOSE i \in DOMAIN rows : rows[i].name = n]
             IN Append(h[n], row.bytes_in + row.bytes_out)
        ELSE h[n]]

\* Mutant: off by one.
ClampedHigh(rows) == IF selected > Len(rows) THEN Len(rows) ELSE selected

Clamped(rows) ==
    IF rows = <<>> THEN 0
    ELSE IF selected >= Len(rows) THEN Len(rows) - 1 ELSE selected

----------------------------------------------------------------------------
(* The loop: poll, draw, wait.                                             *)

\* Mutant: the socket is polled also while paused.
Always == TRUE

Polls == ~paused

SkipPoll ==
    /\ at = "poll" /\ ~Polls
    /\ at' = "draw"
    /\ UNCHANGED <<data, view, screen, polls, chosen>>

Fetched(rows) ==
    /\ at = "poll" /\ Polls
    /\ \A n \in Pipelines : Len(samples[n]) < MaxPolls
    /\ pipelines' = Sorted(rows, sort_field, sort_desc)
    /\ history' = [n \in Pipelines |-> Trimmed(Sampled(history, rows)[n])]
    /\ selected' = Clamped(rows)
    /\ last_error' = FALSE
    /\ at' = "draw"
    /\ fetched' = rows
    /\ failing' = FALSE
    /\ samples' = Sampled(samples, rows)
    /\ UNCHANGED <<view, screen, chosen>>

\* No connection, an error of the stream, or an answer that is not JSON: the
\* rows stay as they are.
FetchFails ==
    /\ at = "poll" /\ Polls
    /\ last_error' = TRUE
    /\ at' = "draw"
    /\ failing' = TRUE
    /\ UNCHANGED <<pipelines, history, selected, view, screen, fetched, samples, chosen>>

Shown ==
    [rows |-> pipelines,
     highlighted |-> Selected,
     popup |-> <<mode, IF mode = "detail" THEN Selected ELSE None>>,
     graph |-> IF mode = "detail" THEN selected_history ELSE <<>>,
     summary |-> aggregate(pipelines),
     title |-> IF last_error THEN "disconnected" ELSE IF paused THEN "paused" ELSE "live"]

Draw ==
    /\ at = "draw"
    /\ screen' = Shown
    /\ at' = "wait"
    /\ UNCHANGED <<data, view, polls, chosen>>

\* terminal.draw(), event::poll() or event::read() fails, and the loop returns
\* before the terminal is restored.
TerminalFails ==
    /\ at \in {"draw", "wait"}
    /\ at' = "failed"
    /\ UNCHANGED <<data, view, screen, polls, chosen>>

\* The interval passes, or the event is not a key.
NoKey ==
    /\ at = "wait"
    /\ at' = "poll"
    /\ UNCHANGED <<data, view, screen, polls, chosen>>

----------------------------------------------------------------------------
(* handle_key, and what the loop does for each Action.                     *)

\* "other" stands for the keys without a binding; k and j are Up and Down.
Keys == {"q", "Esc", "Up", "Down", "s", "r", "p", "?", "Enter", "other"}

HandleKey(key) ==
    CASE key = "q" -> "Quit"
      [] key # "q" /\ mode = "normal" ->
            (CASE key = "Esc" -> "Quit"
               [] key = "Up" -> "MoveUp"
               [] key = "Down" -> "MoveDown"
               [] key = "s" -> "CycleSort"
               [] key = "r" -> "ReverseSort"
               [] key = "p" -> "TogglePause"
               [] key = "?" -> "OpenHelp"
               [] key = "Enter" -> "OpenDetail"
               [] OTHER -> "None")
      [] OTHER -> IF key \in {"Esc", "?", "Enter"} THEN "Close" ELSE "None"

Press(action) ==
    /\ at = "wait"
    /\ \E key \in Keys : HandleKey(key) = action
    /\ UNCHANGED <<history, last_error, screen, polls>>

Quit ==
    /\ Press("Quit")
    /\ at' = "quit"
    /\ UNCHANGED <<pipelines, selected, view, chosen>>

Move(to) ==
    /\ selected' = to
    /\ at' = "poll"
    /\ UNCHANGED <<pipelines, view, chosen>>

\* Mutant: a plain subtraction.
Underflow == selected - 1

Above == IF selected = 0 THEN 0 ELSE selected - 1

MoveUp == Press("MoveUp") /\ Move(Above)

MoveDown ==
    /\ Press("MoveDown")
    /\ Move(IF selected + 1 < Len(pipelines) THEN selected + 1 ELSE selected)

\* Mutant: the rows wait for the next update to be sorted.
SortLater(field, desc) ==
    /\ sort_field' = field
    /\ sort_desc' = desc
    /\ at' = "poll"
    /\ UNCHANGED <<pipelines, selected, paused, mode, chosen>>

Sort(field, desc) ==
    /\ sort_field' = field
    /\ sort_desc' = desc
    /\ pipelines' = Sorted(pipelines, field, desc)
    /\ at' = "poll"
    /\ UNCHANGED <<selected, paused, mode, chosen>>

NextSortField ==
    LET i == CHOOSE i \in DOMAIN SortFields : SortFields[i] = sort_field
    IN SortFields[(i % Len(SortFields)) + 1]

CycleSort == Press("CycleSort") /\ Sort(NextSortField, sort_desc)

ReverseSort == Press("ReverseSort") /\ Sort(sort_field, ~sort_desc)

TogglePause ==
    /\ Press("TogglePause")
    /\ paused' = ~paused
    /\ at' = "poll"
    /\ UNCHANGED <<pipelines, selected, sort_field, sort_desc, mode, chosen>>

SetMode(m, choice) ==
    /\ mode' = m
    /\ chosen' = choice
    /\ at' = "poll"
    /\ UNCHANGED <<pipelines, selected, sort_field, sort_desc, paused>>

OpenHelp == Press("OpenHelp") /\ SetMode("help", None)

OpenDetail ==
    /\ Press("OpenDetail")
    /\ IF pipelines # <<>> THEN SetMode("detail", screen.highlighted) ELSE SetMode(mode, chosen)

Close == Press("Close") /\ SetMode("normal", None)

Ignore == Press("None") /\ SetMode(mode, chosen)

Next ==
    \/ SkipPoll \/ FetchFails \/ Draw \/ TerminalFails \/ NoKey
    \/ \E rows \in Responses : Fetched(rows)
    \/ Quit \/ MoveUp \/ MoveDown \/ CycleSort \/ ReverseSort \/ TogglePause
    \/ OpenHelp \/ OpenDetail \/ Close \/ Ignore

Spec == Init /\ [][Next]_vars

----------------------------------------------------------------------------
(* Properties.                                                             *)

\* However the set of pipelines shrinks and grows between polls, and whatever
\* was pressed between them, the selection is a row, or the first place of an
\* empty table (app.rs:207-227).
SelectionInRange == selected < Len(pipelines) \/ (pipelines = <<>> /\ selected = 0)

\* A pipeline's history is its newest samples, also when the answers do not
\* always have it and while polls fail (app.rs:214-220).
HistoryIsRecent ==
    \A n \in Pipelines :
        LET all == samples[n]
        IN history[n] = IF Len(all) <= HistoryLen THEN all
                        ELSE SubSeq(all, Len(all) - HistoryLen + 1, Len(all))

\* What the user looks at is the latest answer, in the order of the chosen field
\* and direction and with its sums above it, and it is marked as disconnected
\* exactly when the poll after it failed; keys do not wait for a poll, which
\* may fail or be paused (main.rs:145-175, app.rs:72-111, ui.rs:145-149).
ScreenIsLatest ==
    at = "wait" =>
        /\ ToSet(screen.rows) = ToSet(fetched)
        /\ \A i, j \in DOMAIN screen.rows :
              i < j => Before(screen.rows[i], screen.rows[j], sort_field, sort_desc)
        /\ screen.summary = aggregate(fetched)
        /\ screen.title = "disconnected" <=> failing

\* While paused no poll comes between a key and the drawing: the detail popup
\* shows the pipeline that was highlighted when it was opened (main.rs:145-188).
PausedDetailShowsChosen ==
    at = "wait" /\ mode = "detail" /\ paused => screen.popup = <<mode, chosen>>

----------------------------------------------------------------------------
(* What the screen says, checked by a run that expects a violation.        *)

\* ui.rs:265: the newest bar of the popup's graph is the throughput, the bytes
\* that the pipeline moved between the last two answers.
GraphIsThroughput ==
    at = "wait" /\ Len(screen.graph) > 1 =>
        LET all == samples[screen.popup[2]]
        IN Last(screen.graph) = all[Len(all)] - all[Len(all) - 1]
=============================================================================
