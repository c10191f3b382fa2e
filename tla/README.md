# ANSIRadar in TLA+

ANSIRadar draws aircraft on an ANSI terminal, either locally or as a BBS door.
This directory models the parts of it in which order, time and failure matter,
checks them with TLC on small instances, and proves the most important results
with TLAPS for every value of the constants. Paths below are relative to
`src/src/ansiradar/` unless they begin with `docs/` or `tests/`.

## 1. Inventory

| Component | State | Operations | Hard behaviour | What makes it correct |
|---|---|---|---|---|
| **Track manager** `tracking.py`, `obs.py` | `_tracks`: per ICAO address a position, an emergency, and the times of each | `apply`, `_merge`, `snapshot`, `summary` | observations in any time order; a full table; fields that age apart; a clock set back | the table is bounded; every time kept belongs to its value; what is shown is fresh; the newest time of a held aircraft does not go back |
| **Source poller** `poller.py` | last and next poll, backoff, last success, health, last good data | `step`, `force_poll`, `seed`, `close` | a poll blocks while the schedule is counted from before it; failures, forced polls and seeds mix | backoff law, spacing of polls, health agrees with schedule |
| **Radar engine** `radar/engine.py` | identity of the snapshot merged last | `step`, `apply_manual`, `frame`, `close` | a snapshot kept through an outage; one installed at the start; a frame that reads the clock twice | every snapshot merged once; live data never rejected; a replay plays to its end |
| **Replay source and recorder** `replay/__init__.py` | position in the records; an open recording | `is_due`, `poll`; `write`, `_validate_existing` | records out of order; a crash in the middle of a line | records in order; a recording can be read back |
| **File and URL sources** `sources/` | none that lasts | `start`, `poll`, `close` | blocking, redirects, size limits | a poll returns or raises |
| **Transport input** `transport_input.py` | `_buffer`, `_ready` | `feed`, `_parse`, `read_key`, `flush_escape` | reads that cut sequences anywhere or join many; Telnet negotiation; timeouts | keys as meant; bounded buffer; a lone Escape arrives |
| **Door session** `runtime.py`, `cli.py` `_door`, `door.py`, `bbs.py` | reason, pause, help, last input; source and socket | `run_interactive`, `_door` | limits tested between blocking calls; every step may fail | ends, in time, with the right exit code, terminal restored, all released |
| **Transports** `transport.py` | `connected`, the duplicated socket | `write`, `read`, `close` | disconnection at any call | connected implies an open socket |
| **Mystic front end** `mystic.py`, `integrations/mystic/ansiradar.mpy` | `last_poll`, pause, help, view state | build, `run_mystic`, `apply_key`, cleanup | two gates in series before the source; odd keys; failing writes | the source is not starved; Q ends at once; the script returns clean |
| **Local terminal** `terminal/`, `cli.py` `_radar` | saved attributes, saved handlers, the terminal itself | enter, close, signal handler | a signal between two steps, inside a write, inside `close()` or inside another handler | the terminal is restored on every way out; a signal ends the program |
| **View and renderer** `runtime.py`, `render/` | selection, filters, help; the buffer drawn last | key actions; full draw and difference | a selection over a list that changes; a difference against a stale buffer; aircraft that share a cell | the screen is the frame; what is selected is listed and shown; an emergency is not hidden |
| **View of the Mystic script** in `mystic.py` | sort mode, range, selection | key actions | as above | not modelled: the same operations as above on simpler state |
| **Decoders** `sources/decoder.py`, `sources/readsb.py`, `models.py`, `sanity.py`, `units.py` | none | JSON to observations | ranges of fields | not modelled: no state |
| **Geometry** `radar/geo.py`, `projection.py`, `trails.py` | none | trigonometry | rounding | not modelled: real arithmetic |
| **Command line** `cli.py`, `diag.py`, `errors.py` | none that lasts | one-shot commands | a recording that fails half way; errors of every class | what is printed was recorded; each failure has its exit code |

**Interaction.** Everything runs in one thread. The door (`_door`) starts a
source, polls it once and hands the result to the engine with `seed` and
`apply_manual`; then its loop calls `engine.step()` (the poller polls when due;
the engine merges what is new into the track manager), `engine.frame()` (which
expires old tracks), a write to the transport, and `read_key`. No two of these
overlap, but the poll, the write and the read **block**: time passes inside
them, and a value read before (the clock, the schedule, the list of aircraft) is
used after. That is where the hazards are, together with everything the outside
may do at each of those calls: fail, time out, disconnect, send half a
sequence. `PROJECT.json` lists the hazards line by line, and the ones no
property covers yet with the reason.

## 2. Modules

    TrackTable        abstract: a bounded table of newest times
       ^ refined by
    TrackManager ----+
                     +--> RadarEngine (INSTANCEs both, on one clock)
    SourcePoller ----+
    TransportInput        KeyDecoder and read_key
    DoorSession           run_interactive and _door, over both
    MysticSession         the Mystic script, INSTANCEs SourcePoller
    RecordLog         abstract: a log that is only added to
       ^ refined by
    Recorder ----+
                 +--> OneShot (radar --once --record, INSTANCEs both)
    Sources -----+
    LocalSession          radar on the local terminal, and its signals
    RadarView             what is drawn and what is written of it

`X`Proofs holds the theorems of `X` (DoorSessionProofs also those about
TransportInput), MC`X` the values TLC uses. Definitions whose
comment begins with "Mistake:" are not used by any behaviour: each is a
plausible error in the code, and substituting it for the definition it precedes
makes one of the properties false, which shows that the property depends on
that line of the code.

### TrackManager, TrackTable

`apply()` is a loop of `_merge()` calls. `Apply` begins it and `Merge(r)` is one
iteration; `todo` counts what is left. `Merge` has the four paths of the code:
`MergeNew`, `MergeEvicting` (full table: an oldest track goes), `MergeRejected`
(older than the track) and `MergeInto`. `Snapshot` expires tracks, and `Row` is
the row shown for a track. Position and emergency values are modelled by the
time they were reported at, so that a value can be compared with the time the
code keeps beside it; `_retain` and `_retain_emergency` are `Retain` and
`RetainEmergency`. Fields that are only carried over, and counters nothing
reads, are left out. The clock moves in both directions (`Clock`), since it is
the wall clock.

`TrackTable` is what the manager promises: `Learn`, `Replace` (an oldest entry by
a new one), `Refresh` (a newer time) and `Forget` (a set of oldest entries).
`LastSeen` is the refinement mapping.

### SourcePoller

`step()` is three actions, because the poll blocks: `StepBegins` stamps
`lastPoll` with the clock reading of the beginning, `PollReturns` or
`PollRaises` ends the call at any later time and schedules the next poll from
that stamp, as the code does. `ForcePoll`, `Seed` and `Close` are the other
methods. A source is a live one (any outcome after any delay) or a replay, whose
`is_due`, `position` and records are modelled (`Recording` is any sequence of
times, sorted or not). `fails` and `forced` are history variables. `ReplayInOrder` is
about the order and the time of the records; how the end of a recording should be
reported is a disagreement of code and documents (section 5).

### RadarEngine

INSTANCEs the two above on one clock and adds `phase` (which call is running),
`taken` (the timestamp the source gave the data), `lastApplied` and a history
counter `applies`. `StepPolls`, `StepSkips`, `StepApplies` and `StepHasNothing`
are `step()`; `Merge(r)` runs the table's loop; `Seed` followed by `ApplyManual`
is the start of both front ends; `FrameItems` and `FrameSummary` are the two
snapshots of one `frame()`, with the clock free to move between them; `Pause` is the
key after which the session does not call `step()`, while frames, refresh and close
go on. Snapshots are numbered, and the code's comparison by identity is one of
numbers.

### TransportInput

The bytes of the wire are classes: `esc`, `[`, `A`, `q`, `1`, `cr`, and the
Telnet bytes `iac`, `sb`, `se`, `do`. What the caller sends is a sequence of
*units* (a key, an arrow, a negotiation, a sequence the decoder does not know),
and the last byte of each unit carries the key it means, so that the history
`meant` grows when that byte is read. `Understood` says which bytes a unit may have
and what they mean, whatever their number: a CSI sequence ends at its first final
byte, a subnegotiation at its first IAC SE. It is assumed of the terminal
(`UnitsAssumption`) and evaluated on the units of the run. `ReadBytes(n)` returns
any prefix of what is on the wire; `Plain`, `StripIac`, `Arrow`, `LoneEscape`, `LongEscape`,
`UnknownEscape` and `ParseEnds` are the turns of the loop in `_parse`;
`FirstNothing`, `ReadMore` and `SecondNothing` are the two reads of `read_key`
and the flush of a pending Escape. `odd` records the three circumstances in
which the code loses, adds or delays keys, so that the properties can say
exactly when they do not. The names of the module are none of DoorSession's
(`InputInit`, `InputSpec`, `InputTypeOK` ...), so that one module can extend both.

### DoorSession

`at` is where the process is: starting the source, building the engine, setup of
the screen, the tests at the head of the loop, the engine step, the write of the
frame, the read of a key, the shutdown sequence, the exit code. `Tick` lets time
pass at the places that block, up to `MaxPoll`, `MaxWrite` and `MaxRead`. Each
place has its outcomes: a source that fails to start or raises something
unexpected, a write or a read that disconnects or fails otherwise, the keys (`q`,
Escape, `?`, `p`, others), bytes that are no key (`ReadNothing`) and a connection
that ends behind an Escape (`EscapeAtEnd`). The loop condition, `Expired` and `Idle`
(`LoopLeft`, `TimeExpires`, `IdleExpires`) are tested in the order of the code; `Exit` is the mapping from reason or exception
to exit code, together with the `finally` clauses that close source and socket.
The view is in RadarView.

### MysticSession

The other front end: a script inside the bulletin board, with a loop of its own.
INSTANCEs SourcePoller, because the point is the composition: the loop calls
`engine.step()` only when its `last_poll` (`gate` here) is an interval old, and
the poller then decides again. The two read the clock at different moments
(`MaxGap` apart at most; in the code they even are two clocks), so the poller may
find itself asked just too early, and is asked again an interval later. Keys wait
in a queue of the bulletin board and one is taken per frame; `MapKey` and the
`Take...` actions are `map_key`, `apply_key` and the branches after it, the key
that raises `KeyError` included. `RestoreScreen`, `RestoreFails`, `CloseEngine`
and `Report` are the `finally` clause and the wrapper of the script. The view is
left out as in DoorSession.

### RecordLog, Recorder, Sources, OneShot

`Recorder` is a file and a `ReplayRecorder` on it. The file is its complete lines
and a `tail` behind them, the line that has no newline; a line is written in
stages, and `WriteFails`, `CloseFails` and `Lose` (a killed process) may stop at
any of them, with what remains in the buffer or without. `OpenNew` and
`OpenAppend` are the two ways to open it, and `Valid` and `Loadable` what the
two readers of the code ask of a file: the one that validates before appending
does not bound the length of a line, the one that loads does. `sent` is the
history of the calls of `write()`, and `odd` what may have spoilt the file.

`RecordLog` is what a recording promises its reader: a log that is added to at its
end until a line that cannot be read seals it. The mapping is the lines before
the first bad one.

`Sources` is one poll, step by step, of a `UrlSource` with any server: `Answers` is the
beginning of an answer, and the call that reads it goes on until it has ended
(`BodyArrives`), whatever its size, since `client.get()` reads all of it before
anything is tested; then `Redirected`, `GetFails` or `BodyRead`. Of a `FileSource`, `FileStat` and `FileRead`, between which another program may change the file. `Parse`
and `Close` are of both. A poll ends
with a snapshot or with the class of its failure.

`OneShot` composes the two into the command `radar --once --record`, its `phase`
being the call that runs. It may be killed at any moment and started again on
the same file, and `Others` lets other programs use the recorder in between.

### LocalSession

`at` is the next thing `_radar` does: the four steps of `__enter__`, the setup, the
draw and the read of `run_interactive`, its last write, the four steps of
`close()`, `engine.close()`. `Signal` comes between two of them, `SignalInWrite`
inside one that writes. A signal whose handler is installed starts `close()` on
top of the place it interrupts (`base`); one whose handler is not installed does
what the interpreter does: SIGINT raises, SIGTERM kills. `Landing` says where an
exception leads from each place, which is the whole of the `try` and `with`
statements. `Put` is the effect of each write on the terminal. A handler that runs
inside a write cannot write itself (`busy`): the buffer refuses it, `close()`
raises in its middle, and `__exit__` runs it again. `Oddity` tells the signals after
which the terminal is not restored, or the primary screen is cleared, from the rest.

### RadarView

The rest of `run_interactive`: each frame takes any list in any order (`NewList`),
finds the selected aircraft (`SelectedOf`), draws (`Rendered`: what is shown at a
cell that several aircraft share, the rows, the help over both) and writes the
cells that differ from the buffer drawn last (`Write`), and a key moves the
selection or changes a filter. A cell is its meaning and the styles that depend
on the state; `Styled` is what remains of them without color.

## 3. Runs

| Run | What it asks | Bounds, and why they are enough |
|---|---|---|
| `tracks` | `TypeOK`, `BoundedTable`, `TimesMatchData`, `ShownIsFresh`, and that TrackManager implements TrackTable | three aircraft for two places, so that a full table evicts and an evicted one returns; times 0..3 with ages 1, 1, 2, 1, so that each age is reached and passed; two observations in a snapshot, so that one call both evicts and is evicted. Aircraft are symmetric. The theorems do not have these bounds |
| `poller` | `TypeOK`, `BackoffLaw`, `ScheduleConsistent`, and the order and time of a replay's records (`ReplayInOrder`) | clock 0..8 and backoffs 1, 2, 3: four failures in a row, the cap cutting a doubling; a recording of three whose second record is older than the first; four snapshots, one more than the recording has |
| `engine` | `AppliedOnce`, `LiveNeverRejected`, and `ReplayCompletes` under fairness | two aircraft for one place, clock 0..5: a seed or a first poll, an outage, later polls, pauses and frames at each point; a pause of a replay leaves the clock room for its records (`PauseFits`); three snapshots, one more than the recording has, so that it is not the bound that ends the replay |
| `input` | `InputTypeOK`, `BoundedBuffer`, `Faithful`, and `KeysArrive` under fairness | all streams of three units out of nine, cut in every way; the bounds of the decoder scaled down to the length of two arrows, so that they are passed |
| `input_crowded` | *violation*: all keys of one read are preserved | the units a caller presses (a key, Enter, Escape, an arrow), and reads of up to three arrows |
| `door` | `TypeOK`, `StopsInTime`, `IdleCallerLeaves`, `ExitTellsWhy` (with `EscapeAtEnd` as its exception), `CleanedUp`, and `Ends` under fairness | twelve units granted, a margin of five which one iteration and the shutdown just fill (2+1+1+1), an idle limit of three that a poll and two writes can exceed and that passes long before the time granted; clock 0..13, past the time granted |
| `mystic` | `PolledInTime`, `CleanedUp`, and `QuitEnds` under fairness | an interval of two, backoffs of one and two, a poll blocking as long as the interval, the longest the property allows, and every other call up to one unit, so that the poller's schedule falls before, at and after each opening of the loop's gate; clock 0..7, past the deadline of the first poll; more snapshots than polls fit in that time; two keys of all kinds |
| `mystic_refresh` | *violation*: R polls the source before the next frame | as above |
| `oneshot` | `TypeOK`, `ReadableUnlessOdd`, `AcknowledgedKept`, `RecordedFirst`, that a recording is a RecordLog, and under fairness that the command ends or is held by one answer of its server (`CommandEnds`) | two snapshots of which one makes a line too long; three writes, so that one follows a write that failed and another follows that; one redirect, so that the limit is reached; files that were there before, recordings or not |
| `local` | `TypeOK`, `Restored` with the exceptions it names, and `SignalEnds` under fairness | three signals: one, one inside its handler, and one after both or inside the second; each place of the program, with and without the alternate screen and a terminal as input |
| `local_cursor` | *violation*: the cursor is back at a normal exit | no signal |
| `view` | `TypeOK`, `ScreenIsFrame`, `SelectionShown`, `AlarmOnTop` | three aircraft (one in an emergency, one that says "none", one on the ground), two cells between which they move and which they can share, one of them under the help, and two rows of the list, so that an aircraft does not fit; any list after any other |

The counters bounded in guards are `MaxTime` (the clock), `MaxSnapshots` (polls
with a result), `MaxBatch` (observations in a snapshot), `MaxUnits` (units sent),
`MaxKeys` (keys pressed), `MaxWrites` (calls of `write()`), `MaxSignals` (signals)
and `FailCap` (the history counter of failures, past the point where the
backoff has reached its maximum). `PauseFits` keeps a pause of a replay short
enough for the clock's bound. Deadlock is not checked where the clock, the
number of units or the number of writes is bounded or where a session ends; in
`tracks` and `view`, where nothing ends, it is.

### Fairness

* **RadarEngine** (`ReplayCompletes`): the front ends call `step()` in a loop for
  as long as they run and are not paused (strong fairness of `StepPolls`, since
  frames, forced polls and pauses come between), every call that has begun
  returns (weak fairness of its continuations: a replay poll reads memory), and
  the clock runs on. `PromptTick` says in addition that a replay record which is
  due is polled before the clock moves by one unit, unless the session is paused:
  a replay poll does not block and the loop turns several times per poll interval.
  No fairness is given to `ForcePoll`, `Seed`, `Pause`, `Close` or the success of a
  poll; a pause that is never ended is an outcome the property names.
* **TransportInput** (`KeysArrive`): `read_key` is called again and again and
  every read returns, possibly with nothing (each has a timeout). The caller
  need not send anything, and how a stream is cut is left open.
* **DoorSession** (`Ends`): the process is not suspended for ever (weak fairness
  of its steps), and time runs on while it blocks (strong fairness of `Tick`,
  because a caller who presses keys without end would otherwise do so in no
  time). Nothing is assumed of caller, source or socket except the bounds on
  how long a call blocks. Those of reads and writes are their timeouts; `MaxPoll` is
  a premise for a URL source, whose timeouts are those of single network operations.
* **MysticSession** (`QuitEnds`): every call returns and the process goes on (weak
  fairness of its steps), with the same premise for a URL source. The clock need not move and the caller need not press
  anything.
* **OneShot** (`CommandEnds`): a command goes on (weak fairness of `Command`)
  everywhere but inside an answer (`step # "answer"`): connecting, sending and
  waiting for an answer have timeouts, but an answer that has begun may come in
  pieces for ever, each within the timeout. The property says that this is all
  that can hold the command: the redirect limit ends every loop of redirects whose
  answers end.
* **LocalSession** (`SignalEnds`): the process goes on (weak fairness of
  `Process`): reads have a timeout and the terminal takes what is written. No
  key and no end of input is assumed.

## 4. Proofs

All theorems are for arbitrary constants that satisfy the named assumptions of
the component's module (`NoneAssumption`, `AgesAssumption`,
`SessionAssumption`, `UnitsAssumption` and so on): non-negative integers for ages, intervals and
bounds, a finite set of addresses, and `None` different from every other value.

Two kinds of induction come up besides the one over steps. Where a proof needs
the least number with a property, or a fact for all numbers, it takes the minimum
of a set of numbers: < on them is well-founded (`WFMin`,
`NatLessThanWellFounded` of the library), which needs no theorem with an operator
as its parameter. `SetInduction` of SourcePollerProofs is induction in that form.

**TrackManagerProofs.** `TypeCorrect`; `TableIsBounded` (the table never exceeds
`max_tracks`): `TypeOK` and `BoundedTable` are inductive together, and the
argument is about the cardinality of `Known`, which grows by at most one in
`KnownGrowth` and only below the bound, or loses the evicted one first.
`TimesMatch` rests on `MergedMatches` (a merge keeps value and time together
whichever fields the observation carries). `SnapshotsAreFresh` follows from it:
the ages test the kept times, and the kept times are those of the values.
`Implementation` proves `Spec => ImplementsTable`: `Merge`'s four paths map to
`Learn`, `Replace`, a stutter and `Refresh`; `Snapshot` maps to `Forget` or a
stutter; the rest are stutters.

**SourcePollerProofs.** The types alone are not inductive: `PollReturns` needs a
record to be there, and it is only because `StepBegins` tested it before the
call blocked. `WhilePolling` says so and is part of `TypeInv`. On it rest
`TypeCorrect`, `ScheduleIsConsistent`, `ReplayIsInOrder` and `PollsAreSpaced`, an
action property no run checks: given the schedule invariant, the guard `TimeIsUp`
is the spacing. `BackoffFollowsLaw` is about the function `Doubled`:
`DelaysExist` and `DelaysAgree` show that its equation has one solution
(`DoubledEquation`), `DoubledGrows` that it passes `MaxBackoff` before `FailCap`, so that
the history counter may stop there, and `LongerFollowsLaw` that what a failure
makes of the backoff is the next value of the law.

**RadarEngineProofs.** `EverySnapshotOnce`, from what each call in progress has
taken and what it has applied (`Counts`, over the types in `Ranges`).
`LiveIsNeverRejected` needs `LiveOrder`: all times in the table are at most the stamp of the
data taken last, which is at most the clock.

**DoorSessionProofs.** `IInv` is the conjunction of the type invariant, `Story`
(which histories are possible at which place with which reason), `Holding` (what is
open at which place), and the safety
properties. One lemma per conjunct and one case per action. `TypeCorrect`,
`ExitTells` and `ReturnsCleanly` follow; `ExitTells` has the exit code for each
history, the 0 after `EscapeAtEnd` among them. `IdleCallerGone` has an invariant of
the kind of `Punctual` below, `Silent`: at each place it bounds the time since the
last key by the idle limit plus the calls that may have blocked since the limit was
last tested (`LastSilence`), or by those of the start (`Early`). `StoppedInTime` has its own
invariant, `Punctual`, under the premise `CallsFit`: at each place it bounds the
clock by the cutoff plus the calls that may have blocked since the cutoff was
last tested.

The premise of `StoppedInTime` is not idle. A single poll may block for ten
seconds per network operation by default, as long as the default margin, and
with such a source the session outlasts the time granted.

`run_interactive` holds one decoder of keys for the session, and the second half of
the module is about it: it extends TransportInput.tla as well. `BufferIsBounded`
shows that between two calls of `read_key` the buffer holds no more than the larger
of the two bounds, for any units, bounds and cuts. Inside a call it may hold more
(that is `MaxBytes`); `NextBounded` looks at the ways out of the loop, of which each
but the end of an unknown sequence leaves an unfinished beginning that is within its
bound. `InputTypeCorrect` is the type of the reading. `LoopEnds` is the part of
`KeysArrive` that is safety: each turn of the loop of `_parse` shortens the buffer.

`KeysAreFaithful` shows `Faithful` for streams and units of any length. Its invariant
is `Decoding`: as long as nothing odd has happened there is a sequence of items, those
of the bytes in the buffer, such that with the bytes still on the wire they are a
stream of whole units (`Whole`), and what they tell is exactly what the keys decoded
lack of the keys meant (`Pending`); outside the loop the buffer is empty or holds
what the loop waits with (`Settled`). Each turn of the loop takes the first unit
from the buffer and decodes its key (`UnitDecoded`): a negotiation is as long as
`IacLength` says (`IacLengthRight`), an Escape with anything but `[` behind it is an
Escape of its own (`EscapeBegins`), and so on. What the loop waits with is less than
a unit (`IacWaitsInside`, `EscapeWaitsInside`) and tells nothing (`InsideUnit`), an
Escape that stands alone apart, which is why `Faithful` follows between two calls and
not inside the loop. The histories are filtered by `Without`, a recursive function:
`WithoutAppend`, `WithoutCat` and `WithoutDrops` are proved of it for all sequences, by
the least length at which they could fail (`UpFromZero`, `AllLengths`).

**MysticSessionProofs.** `ReturnsCleanly`, from the invariant `Kept`: where the
source is open, and where the screen shows the radar. `PollsInTime` is the deadline
`PolledInTime`. Its invariant `Timely` relates the two gates: once a poll has begun or
was put off, the loop's gate opened last before the poller was due (`TimelyAt`:
`gate < Due`), so it opens again less than an interval after that; from there each
place of the loop adds what its call may block (`TimelyLoop`). A session that is
unpaused starts anew at that moment, which is why `Wanted` is the later of the two.
`Scheduled` has the types and the poller's schedule at each place. The theorem
holds with polls as long as the interval; it speaks of data below `MaxSnapshots`,
since the model polls no more beyond that bound.

**OneShotProofs.** `Where` ties the phase of the command to what the poll got
and to the handle of the recorder, `Typed` has the types of the file and the buffer.
`PrintedIsRecorded` rests on `Story`: between the opening and the end of the
recording the file, the buffer and the history of the one write are determined
by each other (`Holds`). `StaysReadable` rests on `Sound`, which says of the buffer what
`ReadableUnlessOdd` says of the file. `ClientIsClosed` (`NoClientLeft`) and
`TypeCorrect` are two more; the first states a property no run checks.

`RecordingIsLog` proves `Spec => ImplementsLog`: the number of lines that can be read before
the first that cannot exists (`ReadableExists`) and is `ReadableLines`; an appended
line changes it only if all lines before can be read (`ReadableOfAppend`), so a
step adds one record, seals the log, or does neither (`NextLog`).

`AcknowledgedIsKept` is the promise of the recorder under every failure, and
`AcknowledgedKept` is far from inductive: a write that failed may leave its line in
the buffer, half of it in the file, and a later `write` or `close` ends it. The proof
looks at the *stream*, what the file holds and the buffer is to add to it
(`Stream`, where a line that is begun in the file and continued by the buffer counts
once). `Chain` says that only the first line of the buffer is continued, and
that the file then ends with just its beginning, unless it is spoilt. `Kept` says
that a file which can be read, or will be once the line begun is ended
(`Clean`), has as its stream what was in the file at first and then the records of some
calls in their order, that every call which returned is among them and
stored, and that the call that runs is the last. Every action then does one
of three things to the stream: it leaves it or cuts off an end that is not
stored (`FileUnchanged`, `LineContinued`, `LineEnded`, `LineCutOff`, `StreamShortened`), adds
one record (`WriteExtends`, `StreamExtended`), or stores all of it before a
call returns (`StreamReturned`).

**LocalSessionProofs.** `TerminalIsRestored` holds for any number of signals, nested
to any depth, and has the exceptions that `Restored` names and no others. The
invariant says where each part of the terminal has been undone:
`Where` (which handlers are installed at which place, and what a handler may have
interrupted), `Mode` (behind the write of a `close()` the screen and the mode are
the terminal's own, and a handler that has been taken back shows that this
write is past, unless a signal came before the handlers), `Cursor` (without the
alternate screen, unless the last write was kept from being made) and `Primary`
(the screen that is shown when one is cleared, until a handler runs below
`run_interactive`). `OddityIs` says what a signal adds to the history.
`TypeCorrect` comes with it.

**RadarViewProofs.** `ScreenShowsFrame`: the buffer drawn last is the frame while
the program waits for a key (`Drawn`), and what it holds is on the screen
(`Buffered`), so a cell that does not differ from it need not be written. The
proof holds for whatever is drawn in a cell. `AlarmIsOnTop` and `SelectionIsShown` are
about what is drawn, for lists of any length: `Plotted` is a recursion over the list, and
`PlottedIsDrawn` and `PlottedRight` say what each of its values is: an aircraft of
those at the cell, if there is one, and one in an emergency if any of them is, unless
one that the code exempts covers it (`DrawnRight`). `TypeCorrect` comes with them.

**Only model-checked.** Liveness (`ReplayCompletes`, `KeysArrive`, `Ends`,
`QuitEnds`, `CommandEnds`, `SignalEnds`): fairness and ENABLED are beyond the prover.
Each safety property of a passing run is stated by a theorem.

## 5. Where the code and its documents disagree

With a run that shows it:

| Run | Code | Document |
|---|---|---|
| `input_crowded` | `transport_input.py:83` measures the whole buffer, so in a read of six arrows the first becomes an Escape | tests/test_m4_door.py:137: every key of one read is preserved |
| `mystic_refresh` | `mystic.py:361` steps the engine only when `last_poll` is an interval old, so R changes nothing while the source is healthy | docs/mystic-embedded-python.md:104-105: "`R` refreshes the source." |
| `local_cursor` | `runtime.py:217` skips the last write when the input has ended, and `terminal/session.py:49` shows the cursor only with the alternate screen, so `--no-alt-screen` exits with 0 and a hidden cursor | docs/terminal-compatibility.md:9-10: "restores cursor and input mode on normal exit" |

Met while reading, and visible in the definitions named, without a run:

| Code | Document |
|---|---|
| `tracking.py:261` (`Retain`, `MergeNew`) stores the emergency of a first observation as it is, "none" included, and the renderer draws it | docs/m3-sources.md:47-48: cleared by "an explicit non-emergency value" |
| `poller.py:132` (`PollRaises`) counts the backoff from before the poll that blocked, so after a timeout longer than the backoff the retry follows at once | docs/m3-sources.md:54-55: "Live retries back off" |
| `poller.py:80` (`StepBegins`) never polls a replay whose records are used up, so at run time `ReplayExhausted` is never raised and the status stays OK; no property asserts that it should, and `ReplayInOrder` says nothing of the end | docs/m3-sources.md:52-54: replay exhaustion is a classified source error; `runtime.py:284` has a status END; tests/test_m3_replay.py expects `poll()` to raise |
| `cli.py:829` (`ExitOf`) has no case for an oversized response, which ends the command with a traceback | docs/m3-sources.md:52-54: "oversized responses ... are classified source errors" |
| `transport_input.py:180` (`EscapeAtEnd`) returns a pending Escape at the end of the connection, and the loop then leaves with the initial reason "quit" and exit code 0; `ExitTellsWhy` names it as its exception | docs/mystic-door.md:104-106: 0 is a normal quit, 14 a disconnect |
| `replay/__init__.py:256` (`Write`, `Long`) records a snapshot of some two hundred aircraft in a line that `:174` then refuses | `replay/__init__.py:226` and tests/test_m3_replay.py:74: what is recorded loads |
| `sources/url.py:124` (`Redirected`) joins the current address to the target, so the address asked next is the same one | docs/readsb-source.md:25: "redirects remain restricted to HTTP(S)", so there are to be some |
| `replay/__init__.py:249` (`OpenAppend`, "unended") takes a last line without its newline as valid, and appends to that line | `replay/__init__.py:226`: append-only, "the schema is validated before the first write" |
| `replay/__init__.py:260` (`WriteFails`, `Lose`) leaves part of a line after a crash, which neither loads nor can be appended to | `replay/__init__.py:226`: "crash-safe" |
| `sources/url.py:117` (`BodyArrives`, `BodyRead`) reads an answer to its end before `max_bytes` is tested, and the timeouts are those of single network operations, so neither bounds the poll; `CommandEnds` names it as its exception | docs/readsb-source.md:25-26: "response size and timeout limits are enforced" |
| `radar/engine.py:91` (`FrameItems`, which is not kept from running by `paused`) expires and fades tracks while the session is paused | docs/radar-command.md:27: "Pause freezes displayed state" |
| `terminal/session.py:25` (`EnterAlt` to `EnterHandlers`): a signal before both handlers are installed leaves the alternate screen, cbreak mode and the hidden cursor; "early" in `Restored` | docs/terminal-compatibility.md:9-10: "restores cursor and input mode on ... SIGINT, and SIGTERM" |
| `runtime.py:217` (`Final`): without the alternate screen, a signal between the loop and the last write leaves the cursor hidden; "late" in `Restored` | as above |
| `render/ansi.py:6-8` (`Styled`) drops every style without color, the inverse of the selection too, so the selected aircraft is not told from the others | docs/terminal-compatibility.md:11-12: color "is never required to understand the display" |
| `runtime.py` never reads the size of the terminal again, so there is no repaint on resize | docs/rendering-model.md:4: "every resize" |
| `runtime.py:120`: the sort mode "distance" leaves the list in the order of addresses | docs/keyboard-controls.md:5: "cycles distance/callsign/altitude sorting" |

## 6. Not modelled, and why

* Decoding of JSON fields, the fields of a recorded line, labels, layout and the
  texts of rows: no state, and no property here is about them.
* Floating-point geometry: arithmetic neither TLC nor TLAPS has. RadarView takes
  any cell for any aircraft instead. `trails.py` is not called at run time.
* The command line's parsing, and its commands that only print (`diag.py`).
* Debug logs, error texts, warnings: they change nothing that is decided on.
* A local terminal that hangs up: SIGHUP kills the process and there is no
  terminal left to restore.
* The view of the Mystic script, its `flush` and its diagnostic stages.
* In DoorSession one clock stands for the monotonic clock; the age shown in the
  status row mixes it with the wall clock and is display only.
* SourcePoller's clock does not go back, although the wall clock may; the
  effect (no poll until it has caught up) is a direct consequence of the
  comparison in `step()` and is listed as a hazard.

## 7. Plan

1. Theorems: of each liveness property the part that is safety, the measure its
   loops decrease, as `LoopEnds` is for the decoder.
2. The view of the Mystic script beside RadarView, with the range keys of both.
3. The decoder's treatment of missing and contradictory fields, and the round
   trip of a record through `snapshot_to_line` and `parse_replay_line`.
