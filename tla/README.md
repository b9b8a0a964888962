# e-CALLISTO NG: verification project

TLA+ models of the recording station software in `src/src/ecallisto_ng`
(paths below are relative to it), checked with TLC and, for the main safety
properties, proved with TLAPS for every value of the constants.

## 1. The system

A station records spectra of a radio receiver around the clock. It runs as two
processes, the **web application** (FastAPI: requests of operators) and the
**acquire daemon** (scheduler and uploader loops), or, by default on a small
host, as one process that does both. They share one SQLite database, one data
directory and one serial port per receiver.

| Component | State | Operations | Interacts with |
|---|---|---|---|
| Recorder registry `services/recorder.py` | per process: one job (driver, thread, status) per instrument | `start`, `stop`, `status`, the thread `_run`, `_finish` | port lock, database row, driver, hub |
| Shared row `services/recorder_state.py` | `state`, `desired`, `last_frame_at`, `updated_at` | `write`, `touch_frame`, `set_desired`, `get_desired` | both processes |
| Port lock `services/port_lock.py` | a flock per instrument | `hold`, `is_busy` | everything that opens the port |
| Scheduler `services/scheduler_service.py` | loop thread; boot marker | `tick`, scheduled overview, `seed_desired_from_boot` | recorder, clock gate, schedules, watchdog |
| Requests `api/routes/instruments.py` | none | record, stop, status, overview, bench, diagnose, update, delete | recorder, port lock, row |
| Recovery watchdog `services/auto_recover.py`, `services/liveness.py` | recoveries per instrument, alerted set | `consider` | row, host hook, alerts |
| Driver `drivers/callisto/driver.py`, `parser.py` | `_running`, receive buffer, deque of resets | handshake, `stream` with self-heal, `stop`, `close` | serial connection |
| Acquisition `services/acquisition.py` | sweeps of the current file | `record`, `record_continuous` | driver, writer, callbacks |
| FITS writer `writers/fits/standard.py` | data directory | `write`, `_unique_path` | uploader (names) |
| Uploader `services/uploader.py`, `uploader_service.py` | `UploadJob` rows, the session of a pass | `upload_pending`, `prune`, `archive_done`, loop `tick`; manual run, bulk delete, re-queue | database lock, transports, data directory |
| Schedules `services/scheduler.py`, `services/astro_track.py` | none | `sun_window`, `source_window`, `fixed_window` | scheduler, ephemeris |
| Live frames `services/hub.py`, `api/routes/live.py` | bounded queue per viewer; its status | `publish`, `subscribe`, UDP bridge, `ws_live` | recorder, WebSocket |
| SDR drivers `drivers/sdr/fpga.py`, `rx888.py` | `_running`, receive buffer, IQ source | `connect`, `configure`, `stream`, `overview`, `close` | TCP connection, SoapySDR |
| Configuration `api/routes/*`, `services/config_backup.py` | tables of accounts, sessions, programs, calibrations, instruments, schedules, targets; the wizard's row | requests of create, update, delete; setup, backup and restore, legacy import | everything reads it |
| Channel planning `services/freqgen.py`, `legacy_export.py`, `legacy_import.py` | none | generate, export, import | configuration, driver |
| Light curves, fleet, diagnostics, health | see `PROJECT.json` | | |

What is hard in it, and hard to test:

* two processes and many threads meet at one serial port, one row and one
  registry, and `start` and `stop` read state under a lock and act after it;
* faults are handled by rebuilding: the driver resets the receiver, the thread
  ends, the scheduler starts a new recording, the watchdog power-cycles; each
  layer has a budget or a bound, and one layer's rewriting of a timestamp can
  blind the next;
* a process may die between any two steps, and the row, the flock and the
  upload rows then disagree until something repairs them;
* the upload pass keeps SQLite's write lock through slow transfers, and
  everyone else's write times out;
* files are pruned because a row says they were uploaded: the row must still be
  about this file;
* the tick is one loop over all instruments, and what one of them raises ends it
  for the rest; flags, schedules and rows change between two of its visits;
* a serial line delivers bytes late, in pieces, or not at all, and the driver
  recognises replies and framing by their contents only;
* SQLite reuses ids, restores replace whole tables, and a request reads before
  it writes: what another row refers to may have become something else;
* frames are handed to viewers from a copy of a list that changes meanwhile.

What makes each part correct: one operation at a time on the port, a recording
that can always be stopped and always resumes, a row that tells the truth in
the end, a bounded number of power cycles that ends in an alert, no sweep lost
between the parser and the file, no file removed that is not on every target,
windows that follow the sky, a Stop that survives restarts, sweeps that are the
receiver's, an instrument that records with the plan it was given, and viewers
that see what is recorded or are told that nothing is. `PROJECT.json` lists the hazards, each at its line.

## 2. Modules

| Module | Models | Extended by |
|---|---|---|
| `RecorderService` | registry, worker threads, flock, row, requests and the tick for one instrument | `MCRecorderService`, `RecorderServiceProofs` |
| `PortMutex` | abstract specification of the port lock | instantiated by `RecorderService` |
| `AutoRecover` | watchdog, heartbeat ages and the recorder it watches | `MCAutoRecover`, `AutoRecoverProofs` |
| `Uploader` | data directory, passes, loop, prune and archive, manual requests, write lock | `MCUploader`, `UploaderProofs`, `StationDb` |
| `StationDb` | `Uploader` composed with a recorder on the same database | `MCStationDb`, `UploaderProofs` |
| `CallistoStream` | `CallistoDriver.stream`, its self-heal, and `record_continuous` | `MCCallistoStream`, `CallistoProofs` |
| `ScheduleWindows` | the daily window of a schedule, as operators | `SchedulerTick` |
| `SchedulerTick` | boot seeding, the loop over all instruments, overviews, requests about schedules | `MCSchedulerTick`, `SchedulerTickProofs` |
| `CallistoParser` | receiver messages, `StreamParser` and a reference definition of the sweeps in a byte string | `CallistoLink` |
| `CallistoLink` | driver and receiver over a line that delays and loses bytes | `MCCallistoLink`, `CallistoProofs` |
| `StationConfig` | accounts, sessions, configuration tables, wizard, backup, legacy import | `MCStationConfig`, `StationConfigProofs` |
| `LiveFeed` | hub, UDP bridge, WebSocket connections | `MCLiveFeed`, `LiveFeedProofs` |
| `FrequencyPlan` | channel generator, legacy program file, divider and band of the tuner | `MCFrequencyPlan`, `FrequencyPlanProofs` |
| `SdrStream` | the FPGA and RX-888 drivers in a recording or an overview | `MCSdrStream` |

An operator named `Xxx_Yyy` that is introduced as a *mutant of* `Xxx` is a
plausible bug; replacing `Xxx` by it makes the named property fail, which shows
that the property depends on that piece of code (`mutants` in `PROJECT.json`).

### RecorderService

A recording is a slot `r \in Runs`. `pc[r]` is the position of its thread:
registered but not started (`new`), at `port_lock.hold` (`lock`), between
connect and start (`handshake`), `streaming`, in the `finally` blocks
(`closing`), at `_finish` and at the final `on_state` (`report`). A slot is
reused once its thread is dead and neither a call nor a registry refers to it,
but for the entry that the new recording replaces (`Free`), so that `Runs`
bounds only the recordings that exist at once.

Calls are split where another thread can get in between: `start` is
`StartCheck` (first locked block), `StartInsert` (second), `StartPersist` (the
row), `StartLaunch`; `stop` is `StopCheck` and `StopDriver`. `driver.stop()`
clears `_running` and writes to the port, which opens it when it is closed.
`Handshake` sets `_running`, also after a stop. `Finish` writes the outcome
into the job that is registered *then*. The tick reads intent and clock gate
first and acts later (`TickRead`, `TickDecide`). `Crash(p)` takes a process's
threads, registry, descriptors and flocks; the row stays, and the loop process
repairs it when it restarts.

What is left out: the contents of the row but `state` and `desired`, the
messages of the status, more than one instrument (the registry, the flock and
the row are keyed by instrument; the loop over instruments is in
`SchedulerTick`).

### AutoRecover

Time is counted in ticks of the scheduler, timestamps are kept as ages that stop
counting above the stall bound. `HeartbeatAge` is the age that `consider` looks
at: that of the last frame, or of the last write of the row while there never
was a frame. `hist` is the daemon's deque, `log` the history of all recoveries
of the last window, which a restart does not clear.

### Uploader and StationDb

A file name is a UT second and a `_NN` suffix; the contents of the n-th
recording are `n`. A pass (`BeginPass`, then `Check` and `Put` or `PutFails` for
each file, then `Commit`) holds rows in its session; SQLAlchemy's autoflush
before the next query writes them and takes the write lock, so `Check` is where
the lock is taken or a busy timeout ends the pass. `SweepFile` is one step of
`prune` or `archive_done`. `StationDb` puts the recorder next to it: `Roll`
writes a file and the row, `HeartbeatFails` is a heartbeat that meets the lock,
`Rearm` the scheduler's retry. `Untimed` are the targets whose transport has no
timeout once it is connected: SFTP (`transports/sftp.py:58`), not FTP or a local
directory. A transfer to one of them may hang for ever (`Hanging`).

### CallistoStream

One thread: reads (`Read...`), the consumer (`Deliver`, `Reject`, `Flush`), the
stall test (`Check`), the self-heal (`Reset`, `Drained`, `GiveUp`) and the end
(`StreamEnds`, `Close`). The unit of time is the read timeout of the serial
port. `gap` is the time since `last_frame`, which is stamped when a sweep is
yielded and after a reset. The consumer takes up to `MaxSlow` for a sweep, which
may be more than the stall bound: SQLite alone waits for 5 s, and the bound can be
3 s. The history variables `held` and `holds` say when it did. The receiver may
fail in seven ways, told apart by what cures them: a soft reset, a reopened port,
or nothing. `Stop` of another
thread may come at any point. Sweeps are numbers, so that losing, duplicating
or reordering one is visible in `filed`.

### ScheduleWindows and SchedulerTick

The unit of time is the sampling step of the ephemeris; a source is up from
`sky.rise` for `sky.len` samples. `Rises` and `Sets` are the samples at which it
crosses the horizon within a UT day, and the window operators follow the code's
cases on them, exceptions included (`Raise`).

The loop thread is one process with `pc`: `BootRead` (marker), `SeedOne` per
instrument, then ticks: `TickBegin` takes time, gate and instruments, each visit
is one of `VisitStart`, `VisitStop`, `VisitOverview`, `VisitNothing`,
`VisitRaises`, and `TickEnd` follows a complete loop or an exception. An overview
has a second half, `OverviewCommit`, which writes its date and may fail. Record,
Stop, and the creation and deletion of schedules come between any two steps; so
do a device that is unplugged, a recording that fails, a crash and a reboot.
A recording is a state of its instrument here; how it starts and ends is
`RecorderService`. `Split = TRUE` lets requests in between the marker and the
seeding, which is what happens when the web process serves already. Schedule
rows get any id that is not in use. `halted[i]` is a history variable: the boot
marker at the time of the Stop that was the operator's last word, so that a Stop
after the marker was written (`StopKept`) and one before (`StopAlwaysKept`) can
be told apart.

### CallistoParser and CallistoLink

Samples have `Width` digits of base `Base` (4 and 16 in the code); the parser's
state is a record and `Feed` folds `Consume` over a chunk. `SweepsIn` is the
reference: which sweeps a byte string contains, by position (`DataStarts`, the
digits `Within` a transmission, its words, its samples, its sweeps), without any
state that is carried from byte to byte. In `CallistoLink` the receiver answers
commands with bytes that travel for a while (`Arrivals`, at most `MaxLate` reads
late) and may lose a digit or a reply (`SampleAssumption`: its samples fit their bit
depth and word, and are no end markers); the driver drains, waits for prompts with a patience, detects the firmware from the status line,
configures, streams and heals, or takes an overview or a detector reading.

### StationConfig

Tables are functions from ids to rows; `NextId` is SQLite's rule for tables
without AUTOINCREMENT, by which the id of the last row is used again after its
deletion. `Referenced` is the foreign-key test, which refuses a deletion. It knows
the columns that the table was created with: those that an upgrade added to an
existing table (`Added`; `_add_missing_columns`, `db.py:67`, writes no
`REFERENCES`) are not enforced, neither by a deletion nor by an insertion
(`Refers`). `Added = {}` is a database that `init_db` created, and
`cf_v_upgraded` has one whose instruments got their program later. The
wizard's POST and a backup are split where the code reads before it writes;
restore, legacy import and the final page of the wizard are sequences of commits
with a crash in between. `ScenariosAssumption` says that the stations to begin
with keep the foreign keys that they have, as SQLite does.

### LiveFeed

A frame is `<<instrument, n>>`. `PublishLocal` copies the subscriber list under
the lock, `Put` hands the frame to one queue of the copy at a time. `Unsubscribe`
takes the first occurrence out of the list, as `list.remove` does. `Forward` is
the acquire daemon's publish: a datagram, which is lost when nobody listens or
the socket is full. A stray datagram is ignored or ends the listener until the
web process restarts: `_ingest` catches no `OverflowError` (`hub.py:155`). `ws_live` is `Poll`, `Take` and `Send`. History variables
keep what reached the hub since a viewer subscribed (`log`, `since`) and what it
was sent (`seen`).

### FrequencyPlan

One request from `POST /programs/generate` to the tuner: `Generate`, one
`Select` per channel, `Store`, `Export`, `Import`. Frequencies are integers of
1/4000 MHz, so that the grid (0.0625 MHz), the file's last digit (0.001 MHz) and
half steps are exact; the code computes in floating point, whose error is
far below half of the last digit.

### SdrStream

`link` is the state of the connection that the driver has open; it stays lost
when the device returns. For the appliance, bytes are on the `wire` and in `rx`,
and `_read_frame` is `ReadFrame`, `ReadChunk`, `ReadNothing` or `ReadRaises`.
`Source` is what an RX-888 driver decides when it is constructed.

## 3. Runs

All passing runs use the specification without modification; the bounds are the
constants of the `.cfg` files.

| Run | States | Shows |
|---|---|---|
| `rs_safety` | 2.4 M | `PortExclusive`, `Stoppable`, refinement of `PortMutex`: two processes, one request thread, every request, window and overview, one crash |
| `rs_live` | 0.72 M | `ReArm`, `StopRespected`, `RowSettles`: free-run, bench sessions of the web process that take the flock, one failing row write, one crash |
| `ar_watchdog` | 0.16 M | `BudgetHeld`, `Escalates`, `Calms`: bound 3, budget 2, window 6, one restart |
| `up_prune` | 2.3 M | `DoneIsRemote`, `RemovedIsUploaded`: two targets (one scheduled and SFTP), loop and manual run, one failing transfer, one crash, one re-queue, deletes |
| `sd_live` | 0.12 M | `Delivered`, `LockReleased`: recorder, loop, manual run, archive, one failing transfer, one crash; the target is an SFTP server, whose transfers may hang |
| `cs_heal` | 1.04 M | `NothingLost`, `HealthyLeftAlone`, `FatalJustified`, `DeadEnds`, `StopEnds`: three faults of six kinds, a consumer that may outlast the stall bound, files of two sweeps |
| `st_tick` | 0.44 M | `SkyFollowed`, `StopKept`, `OverviewOnce`, `Served`, `WindowCloses`: two instruments, all schedule kinds, every sky of a two-sample day, two days, one request, one fault, one reboot |
| `cl_link` | 0.76 M | `ParserCorrect`, `SweepsTrue`, `FirmwareRight`: two channels, samples of two digits, two sessions, three sweeps, one late answer, one lost byte, one self-heal |
| `cf_plan` | 1.5 M | `NoDangling`, `PlanKept`, `SessionKept`: a new station and one in use, two accounts, two ids per table, five requests, one fault or crash |
| `lf_feed` | 1.1 M | `FeedFaithful`, `StallShown`: two viewers (one slow), a local and a bridged instrument, two frames each, queues of one, one stray datagram, one restart |
| `fp_plan` | 2.3 M | `PlanSound`, `TunedAlike`: every request over a grid of band edges on and off the synthesizer's grid |
| `sr_v_lost` | 7 k | `LossNoticed` fails: FPGA and RX-888, two channels, two sweeps |

Why the bounds are enough. Two slots for recordings let one recording end while
the next begins, which is where registry, row and flock can disagree; one
request thread next to the scheduler makes every pair of halves of `start` and
`stop` meet. The watchdog's window is longer than two stall bounds, so that the
budget can be used up and renewed in it. Two targets are needed for "uploaded
everywhere", two files for a pass that already holds the lock when it transfers.
In `cs_heal` the window is longer than the three stalls that use up the budget,
a file ends within a chunk, and the consumer takes up to half as long again as the stall
bound, so that a healthy receiver can spend the whole budget. A day of two samples has every case of
rise and set: never up, always up, up within the day, up across midnight; the
second instrument is the one that the first one's exception affects. Samples of
two digits can be cut in the middle, and two channels make a sweep whose
boundary can be lost. Two ids per table let an id be deleted and used again.
A queue of one is full after one frame, and a second viewer shows what one
viewer's full queue does to the other. The theorems of section 5 remove the bounds for
the safety properties.

`Delivered` and `LockReleased` say what the code promises of a transport without a
timeout as well: a file arrives unless some pass hangs for ever, and the lock comes
back unless the pass that has it does. That recording survives such a pass is false
(`sd_v_blocked`). `ReArm` is about stations whose requests come to an end: a request
thread that takes the port again and again may win every race for it.

`cs_heal`, `cl_link`, `st_tick`, `cf_plan`, `lf_feed` and `fp_plan` do not check
for deadlock: a recording ends, and bounded requests, frames or days run out.
`SchedulerTick`, `StationConfig` and `CallistoLink` also state the types of their
variables (`TypeOK`, `LinkTypeOK`), which hold when they are added to the
invariants of their runs; the first two are theorems, as are the types of
`LiveFeed` and `FrequencyPlan`.

### Disagreements between code and documentation

In each of these, TLC checks one statement of the repository and finds a behaviour
of the code that contradicts it. `sr_v_lost` is a run of the project (the
quotations are in `PROJECT.json`). The others are kept to reproduce what they
show: a configuration of its own, `tlc -config <name>.cfg <module>`, or one of a
run with the named property in place of those it lists and the named changes.

| Configuration | Statement | What happens |
|---|---|---|
| `sr_v_lost` | a driver's `stream()` "MUST NOT block indefinitely" (ADR-0010) | an appliance that closed the connection or lost its power gives empty reads for ever; an RX-888 gives flat spectra. Only the recovery watchdog, or a human, ends the first |
| `sr_v_lost`, `Kinds = {"rx888"}`, invariant `OriginKnown` | "an operator can always see whether a recording is real or synthetic" (`rx888.py:20`) | diagnose asks a new driver, which finds the device that the recording's driver did not find; the recording itself does not keep what `identify` said |
| `rs_v_capture` (`CapturesSpared`) | "a bounded in-process test capture of that many sweeps" (`instruments.py:156`) | in one process, the default, the tick stops a capture that is not scheduled |
| `rs_v_stop` (`StopAlways`) | "a human Stop is always respected" (`scheduler_service.py:269`) | the handler of a failed row write finishes the job of the next recording, which `stop()` then ignores (`recorder.py:275`) |
| `rs_v_stop`, one process, `Ops` with `"capture"`, no fault (`StopAlways`) | the same | two starts that overlap leave a live recording outside the registry (`recorder.py:139`) |
| `rs_v_operation` (`OneOperation`) | "One physical device, one operation at a time", diagnose included (`port_lock.py:4`) | diagnose (`instruments.py:510`) and the scheduled overview (`scheduler_service.py:238`) take no flock |
| `rs_v_released` (`PortReleased`) | "the port is always released" (`acquisition.py:115`) | a late `stop()` writes to the closed port, which opens it, and nothing closes it |
| `ar_v_fresh` (`FreshStartSpared`) | "a just-started recording isn't flagged" (`liveness.py:66`) | `last_frame_at` of the previous session makes it look stalled, and it is power-cycled at once |
| `ar_v_mute` (`MuteNoticed`) | "a mute-from-the-start one is once it passes the bound" (`liveness.py:66`) | every rebuild rewrites `updated_at`, from which the silence of a device without a frame is counted (`auto_recover.py:55`) |
| `up_v_reuse` (`RemovedIsUploaded`) | "un-uploaded files are never pruned" (`uploader_service.py:7`) | two recordings of one second, the first already pruned: the second gets its name and its `done` rows |
| `sd_v_blocked` (`Rearms`) | "a target being down never blocks recording" (`OPERATIONS.md:94`) | a transfer over SFTP that hangs keeps SQLite's write lock: a recording that ended is not started again |
| `sd_v_blocked`, `DbSpec`, `Untimed = {}`, property `HeartbeatHarmless` | "a missed heartbeat write is corrected by the next one" (`recorder_state.py:61`) | a heartbeat that meets the lock of an upload pass ends the recording |
| `cs_v_drain` (`HealEnds`) | "never blocks indefinitely" (`driver.py:185`, ADR-0010) | `_drain` reads for as long as bytes come |
| `cs_heal`, invariant `StallIsSilence` | "Stall = no data for max(...)" (`driver.py:59`) | the consumer's time counts as silence of the receiver, which is reset although it never stopped |
| `st_tick`, `MaxFaults = 2`, invariant `StopAlwaysKept` | "a human Stop is always respected" (`scheduler_service.py:269`) | a seeding that raises before the marker is written leaves a process that serves; a Stop that comes then is undone by the seeding of the next restart |
| `st_tick`, property `Isolated` | "other instruments unaffected" (DESIGN 14a) | a scheduled overview of a lost device raises in every tick and ends it for all later instruments |
| `st_v_sun` (`SunTracked`) | no window means that the source is never up (`scheduler.py:102`) | where the Sun is up across 0 UT it sets before it rises within the UT day, and the inverted window counts as none; so does a day without sunset |
| `cf_v_upgraded` (`NoDangling`) | "dangling reference becomes a 409" (`crud.py:6`) | a column that an upgrade added has no `REFERENCES`: a program in use is deleted |
| `cf_plan`, `MaxFaults = 0`, invariant `RoundTrips` | a restore on the same station round-trips (`config_backup.py:9`) | upload rows refer to targets, so the restore is refused; a crash between its two commits leaves the tables empty |
| `cf_plan`, `Scenarios <- MCFresh`, invariant `SetupComplete` | the station counts as configured only when setup is complete (`wizard.py:5`) | the account is committed first; a fault after it leaves a configured station without a station row |
| `cf_plan` without symmetry, property `NewIsIdle` | the operator's flag is set by Record and Stop (`models.py:58`) | the flag outlives a deleted instrument, and a new one with its id starts to record |

Further behaviour seen while modelling, which can be reproduced by changing a
constant of a run:

* `StopRespected` fails with `Windowed = TRUE` (an enabled window overrides the
  operator's Stop) and with `"disable"` in `Ops` (the tick no longer visits the
  instrument, so nothing stops its recording). It is `StopAlways` for behaviours
  without a failing row write, which `rs_v_stop` shows to be needed.
* With `LoopProc = WebProc`, `Stoppable` fails: two starts that overlap leave a
  live recording outside the registry.
* A web process that dies in a test capture leaves the row at `recording`; only
  the restart of the process with the loops repairs it (`RowSettles` with
  `"capture"` in `Ops`).
* The watchdog's budget renews with each window and is forgotten in a restart
  (`BudgetHeld` counts `crashes + 1` budgets). `Escalates` requires that there was
  a frame once (`seen # Never`); `ar_v_mute` is the other case.
* A consumer that outlasts the stall bound again and again spends the budget of a
  healthy receiver, and the recording ends as fatal (`FatalJustified` counts such
  turns as incidents).
* With `"instrument.program"` in `Added`, `PlanKept` fails as well: the program of an
  instrument is deleted, and the instrument records with the default channels.
* `StopKept` fails with `Split = TRUE`: a Stop between the boot marker and the
  seeding is overwritten by it.
* A fixed schedule with "24:00" raises `ValueError` in every tick; one that spans
  midnight has an inverted window and never records.
* `FirmwareRight` needs its hypothesis: an answer to RESET that arrives after the
  drain is read as the answer to the next query, and the firmware is guessed.
  `DetectorWhole` fails: `read_detector` may parse the first digits of a number.
* A lost data-start byte makes the next digit 2 start the data, and samples close
  to zero hide a lost digit from the test of the high bits.
* Two submissions of one wizard page skip the next page; an account with a
  session cannot be deleted; the last administrator can be demoted, and two
  administrators can delete each other; a legacy import that meets a name that
  exists is left half done.
* `PlanSound` says nothing of pinned channels, which may lie in the excluded
  band, nor of an exclusion that covers the whole band. An exported file cannot
  be imported unless the number of channels divides 800 (`legacy_import.py:81`).
* Health alerts are remembered before they are dispatched, and one that could not
  be sent is not sent again; a file that is on any one target no longer counts
  for the backlog. The light-curve file of a day is rewritten by every rolled
  file and holds the last one only.
* `DeadEnds` fails when `Budget` stalls take longer than `Window`: below about
  0.28 sweeps per second a dead receiver never raises `FatalInstrumentError`.

## 4. Fairness

* `RecorderService`: threads of a live process run; reads of the port time out,
  so that a cleared `_running` ends the stream; a capture gets its sweeps or
  fails; the tick repeats; the service manager restarts a dead process
  (`Restart=always` of the unit). Nothing is assumed of faults, requests,
  windows or the clock gate.
* `AutoRecover`: time passes and the scheduler ticks; handshake and self-heal
  are bounded, so a mute recording fails; a healthy stream beats the heart
  between two ticks.
* `StationDb`: passes go on except in a transfer to an `Untimed` target (`Timed`: FTP
  sockets have a timeout, the SFTP transport sets one for connecting only), the
  loop and the scheduler tick. A pass may fail or lose its rows at any point
  within the fault bounds.
* `CallistoStream`: reads and writes of the port return (`Progress`). Faults,
  `Stop`, rejected sweeps and failing writes are never forced.
* `SchedulerTick`: the loop thread takes its next step (`LoopStep`: it sleeps for
  a bounded time and every visit ends or raises). The clock, requests, faults
  and the ends of recordings are not forced; a crash or a reboot is followed by
  the start of the loop.
* `LiveFeed`: publishing threads and connections go on, time passes, and a
  browser that is not slow takes what it is sent. No frame is ever forced, so
  `StallShown` is about instruments that fall silent in every behaviour.
* `SdrStream`: the thread that runs the driver goes on.
* `CallistoLink`, `StationConfig` and `FrequencyPlan` are checked for safety only.

## 5. Proofs

`tlapm` checks every theorem; constants are arbitrary within the named `ASSUME`s
of the modules.

**RecorderServiceProofs.** `TypeCorrect`. `PortExclusiveTheorem` rests on
`HolderInv`: whoever drives the device is the holder of the flock, and a free
flock means that nobody does. `PortExclusive` itself is not inductive, since a
second thread may pass `hold` unless the lock variable is known to be taken; a
crash clears the lock exactly when its holder dies with the process.
`ImplementsPortMutex` shows that each step changes the set of holders by one
entry into an empty set or by one exit, or not at all. `StoppableTheorem` (two
processes, no failing row write) needs `StopInv`: a live recording of the daemon
is the registered job and says RECORDING; while a start is between its locked
blocks no other recording of the daemon is alive; request threads only touch
the web process's jobs. It is the two-process deployment that makes this true,
as the run with one process shows.

**AutoRecoverProofs.** `TypeCorrect` and `BudgetTheorem`. The invariant splits
the history of recoveries into those the daemon remembers (at most a budget)
and those that restarts made it forget (at most a budget per restart); ageing is
injective on what stays in the window, so no count grows when time passes.

**UploaderProofs.** `TypeCorrect` with what holds of a pass in each phase.
`DoneIsRemoteTheorem` and `RemovedIsUploadedTheorem`, for any number of targets,
workers, files and faults, provided that no two recordings begin within one UT
second (`up_v_reuse` shows that this is needed). The invariant says that a row
is about the contents that its name has always had: a name is used once, so
the file, the copy on the target and the row agree for as long as the file
exists, and a removed file's rows vouch for the copies. `StationIsUploader` is a
refinement: every step of the station (`StationDb`), where a recorder rolls
files and writes its row next to the passes, is a step of the uploader or
changes nothing that the uploader sees. `StationSafe` draws both properties for
the station from it.

**CallistoProofs.** The bytes first. `ParserTheorem` is about every base, word,
number of channels, session and way to cut the bytes into chunks. Neither the
chunk nor the parser's state can be read off the reference, so the invariant
puts them side by side for the bytes fed so far (`Tracks`): the parser is within
a message, or within data, exactly when the next position is; in data, the
latest `DATA_START` has been followed by digits that are the words already
counted and then `hexbuf`, and its samples are the sweeps already yielded and
then `sweep` (`Chain`). One more byte leaves all earlier positions as they are
and changes the last transmission by one digit at most (`ConsumeTracks`). A chunk
is a fold of such steps, over which the invariant is carried by an induction on
the positions of the chunk (`Counting` states induction for a set of numbers, so
that it needs no operator as a parameter). `LinkInv` adds what the session does
with the parser: nothing is fed before the stream begins.

`FirmwareTheorem` rests on `FirmwareInv`: after a drain that met an empty line, and
with no byte lost, what has been read and what is still under way is together
the answer to the last query and nothing else (`Pending`), so the line that
`identify` takes for the status is the receiver's own. This holds because the
receiver is silent from RESET to the start; without `~undrained` an answer of
RESET stands before the status line, and it is false.

`SweepsTheorem` joins the receiver's end to the driver's: in a session whose drain
met an empty line and that lost no byte, `got` is a prefix of the lowered sweeps
that the receiver sent, and no sweep is false. `SentInv` says where everything sent
is: in `got`, in the parser, or on the line. The receiver sends when the line is
empty, so at most one transmission is under way; if the parser is at digit r of
sample c (`Place`), it holds the first r digits of that sample and the c samples
before it, and the line holds the rest (`Rest`). A digit then moves the place by one
(`PlaceNext`), the last digit of a word completes the value that was encoded
(`EncodeValue`, by induction on the digits), and the last word of a sweep yields it
and leaves the parser idle (`PassedNext`); a chunk is a fold of these steps
(`FeedSweep`). The greeting before the data (`Started` and `DATA_START`) goes the
same way (`FeedGreeting`), and before that `Ready` shows that nothing is left of the
channels' acknowledgements. `SampleAssumption` is what a receiver guarantees: a
sample fits its bit depth and its word, and is no end marker. Without it the
parser would call a sample corrupt, or skip it, with no byte lost.

Then the recording loop. `TypeCorrect`. `NothingLostTheorem` from `FlushInv`:
files followed by the current batch are the accepted sweeps, and the batch is
empty after the `finally`. `HealthyTheorem` from `HealthyInv`: while a healthy
receiver is read, `gap` is within the timeout or the consumer has outlasted it,
given only that the receiver's period is within it; of the consumer's time nothing
is assumed. `FatalTheorem` from `PaidInv`: every reset in the deque
has been paid for by an incident, a fault or such a turn of the consumer (one that is
still `Owing` pays for the reset to come), with one extra for the soft
reset that a wedged port does not answer to.

**SchedulerTickProofs.** `TypeCorrect`. `StopKeptTheorem` (one process) from
`StopInv`: while a Stop stands, the marker is the machine's boot id and no
seeding is under way, so that none can set the flag again; `st_tick` with
`Split = TRUE` and `StopAlwaysKept` (section 3) show the two cases that it excludes.
`OverviewOnceTheorem` from `OverviewInv`: an overview that is counted is stored
with the active schedule, under way, or paid for by a fault or a reboot; the
ids of an instrument's schedules differ, and no date lies in the future of the
clock or of the tick, which may be behind it.

**FrequencyPlanProofs.** `PlanSoundTheorem` and `TunedAlikeTheorem`, for every
band, exclusion, overview and channel count. The loop invariant `RoomInv` says
that what is left of the usable band is what the channels still to be selected
need, and less than one step more, unless the excluded band cuts the step;
rounding to the grid is monotone and moves a frequency by half a step at most.
`TunedAlike` rests on the grid being coarser than the last digit of the file.

**LiveFeedProofs.** `TypeCorrect` and `FeedFaithfulTheorem`, for any number of
instruments, viewers, restarts and queue sizes. `FeedInv` says what is on its
way: datagrams of an instrument are newer than its log and in order (`NetOk`);
the frame that a thread hands out is the last of the log, and goes to each
viewer of the copied list once, whose subscription is older than the frame
(`FanOk`); subscriber lists have no duplicates and are the open connections
(`SubsOk`). Without the last two a frame could be put twice into one queue.

**StationConfigProofs.** `TypeCorrect`, `ReferencesTheorem`, and the action
properties `SessionKeptTheorem` and `PlanKeptTheorem`, for any number of rows,
requests, wizard forms and crashes. The invariant is referential integrity at
every commit, of the columns that have a foreign key (`NoDangling` when none was
added later): then a deleted account has no session and a deleted program no row, the id of a new row
is not in use (`NextIdFresh`), and a restore adds only what fits. The assumptions
on `Added` are what each theorem needs: none for `SessionKeptTheorem` (the column is as
old as its table), the two program columns for `PlanKeptTheorem`, all of them for
`ReferencesTheorem`; `cf_v_upgraded` shows that they cannot be dropped.

Only model-checked: the liveness properties (fairness and `ENABLED` are beyond
the prover), everything about `SdrStream`, and the rest of `SweepsTrue`: sessions
that lost bytes or began with undrained answers. How many false sweeps a lost
digit makes depends on which samples there are (the run has none close to zero), so
that its second conjunct, then, holds for the samples of a run and not for every
value of the constant.

## 6. Not modelled, and the plan

Not modelled because it has no control worth a model: header and pixel layout of
FITS files, light-curve files and plots, the computation of spectra, test-signal
drivers, the contents of the ephemeris, password hashing and cookies, host
probes (diagnostics, discovery, fleet, updates, support bundle), wording of
alerts, portal pages. Not modelled because TLC cannot reach an instance of
interest: alerts composed with the upload backlog. What the addition of columns to an
old database leaves is modelled (`Added`); the statements themselves are idempotent and
their only race is handled (`db.py:92`). The creation of the tables by two processes at once is not handled
there (`db.py:109`) and is not modelled. `PROJECT.json` lists every component
with its status.

Next, in this order:

1. `SchedulerTick` with `Split = TRUE` as the two-process deployment, and a third
   instrument.
