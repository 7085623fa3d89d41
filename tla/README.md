# Verification of the BLE scanner firmware

This directory holds TLA+ models of the passive BLE scanner in
`src/firmware/ble_scanner` and of the scripts around it, the TLC
configurations that check them on small instances, and TLAPS proofs of the
properties that matter most for every value of the constants.

## 1. The system

`app.c` runs bare-metal on an EFR32MG21. After boot it starts a passive scan;
every advertisement report goes through `scan_tracker_observe`, which keeps a
cache of 32 devices and decides whether the report is worth one line in the RTT
log. The super-loop of `main.c` handles at most one Bluetooth event per pass,
prints a summary of the counters when one is due, and sleeps. A host captures
the RTT stream and judges it. Scripts generate, normalise, install, build and
audit the project.

| Component | State | Operations | Interacts with | What is hard | Status |
| --- | --- | --- | --- | --- | --- |
| Scan tracker (`scan_tracker.c`) | 32 entries, statistics, next summary time, time of the last line | init, observe, summary due, snapshot summary | called by `app.c` with the clock | wrapping clock, three interleaved limits, eviction and reuse of slots, saturating and wrapping counters | modelled |
| Payload parser (`parse_local_name`) | none (a loop over bytes from the radio) | parse | called by observe | bounds, precedence of names, truncated input | modelled |
| Application and super-loop (`app.c`, `main.c`, `autogen/`) | event queue of the stack, sleep state | boot, event, process action, sleep | interrupts, stack, tracker | lost wake-ups, starvation, a summary nobody wakes up for | modelled |
| Start-up (`autogen/sl_event_handler.c`, `sl_iostream_handles.c`, `sl_bluetooth.c`) | calls still to be made, chosen console, state of the stack | the calls `main()` leads to | stack interrupts before `app_init` | order of set-up, a failure that cannot be returned | modelled |
| Clock, sleep and power configuration (`config/sl_clock_manager_*`, `sl_sleeptimer_config.h`, `sl_bluetooth_config.h`) | counter, EM1 requirements, energy mode | tick, add and remove a requirement, sleep, wake | radio, stack, application | two files that resolve AUTO each on its own, a counter that wraps | partly |
| RTT stream and capture (`SEGGER_RTT_Conf.h`, `capture_rtt.sh`, `validate_rtt_capture.py`) | up-buffer, capture file, interrupt mask | write or skip, lock and unlock, read, judge | host and firmware run concurrently | dropped and partial lines, resets, second capture, nested locks | modelled |
| Install of generated output (`generate_firmware.sh`, `install_generated_output.py`) | four paths, staging, backups | back up, install, roll back, clean up | signals, successive runs | interruption between two steps | modelled |
| SDK preparation (`prepare_ci_sdk.sh`, `prepare_sdk.py`, `build_firmware.sh`) | SDK directory, archives as pointers or objects | clone, pull, check, link | retries, a project that is regenerated | retry after a partial failure, a project regenerated under a running command | modelled |
| Normaliser, workflow audit, build wrappers, CI, other generated configuration | none beyond files | text transformations, external commands | - | little that a unit test does not reach | not modelled |

What makes each component correct:

- *tracker*: at most one line per 250 ms, and per device one per second; a
  line's reason is true of the previous line; no news is withheld beyond those
  limits; the oldest-seen device is evicted and only from a full cache; an entry
  shows nothing of its predecessor; the summary is due every 30 s; the printed
  counters agree. All of it across wraps of the clock and of the counters.
- *parser*: reads inside the payload and writes inside the buffer; the complete
  name wins, otherwise the last shortened one; a later error keeps the name.
- *super-loop*: no event is slept through, nothing starves, the summary appears.
- *start-up*: nothing is used before it is set up, no line is printed before it
  has a stream, and a stack that comes up leads to a scan.
- *clock and sleep*: the log's time is the true time; no mode is too deep for
  the probe; every branch of the clock tree is fed by an oscillator that runs.
- *RTT*: a capture passes only if the device was scanning, and the first one
  after a reset does not miss that it started; one writer at a time; printing
  never waits for a host and never holds back an urgent interrupt for good.
- *install*: the tree holds the complete old or the complete new output.
- *SDK*: a success means that every archive of the inventory the command read
  is there and no pointer, and retries lead to it.

## 2. Modules

| Module | Models or states | Code |
| --- | --- | --- |
| `UintArith` | unsigned arithmetic of `UINT_MOD` values: elapsed time, deadline, counters | `scan_tracker.c:16-22, 140, 153-157, 181-183` |
| `ScanTracker` | the tracker as `app.c` drives it | `scan_tracker.c:79-246`, `scan_tracker.h`, `app.c:17-19, 79-84, 105-126` |
| `TrackerHistory` | the promises of the log in true time, with history variables over `ScanTracker` | `docs/ARCHITECTURE.md` "Bounded resources" |
| `ScanLog` | the abstract log: whom it remembers, which line must and which may be emitted, when a summary comes | what `scan_tracker.c:87-246` promises |
| `TrackerRefinement` | the mapping under which `TrackerHistory` implements `ScanLog` | - |
| `AdParser` | `parse_local_name`, one action per way through its loop | `scan_tracker.c:29-77` |
| `ScannerApp` | the super-loop, the sleep decision, interrupts | `main.c:58-70`, `app.c:79-131`, `autogen/sl_bluetooth.c:67-85`, `autogen/sl_power_manager_handler.c` |
| `Startup` | the calls from reset to the first report, choice of the console | `autogen/sl_event_handler.c`, `sl_event_handler.h`, `sl_iostream_handles.c`, `sl_bluetooth.c`, `sl_component_catalog.h` |
| `ClockTree` | oscillators, branches and defaults of the two clock manager headers | `config/sl_clock_manager_oscillator_config.h`, `sl_clock_manager_tree_config.h` |
| `SleepClock` | `uptime_ms` and the energy modes, over `ClockTree` | `app.c:17-19, 67-77`, `config/sl_sleeptimer_config.h`, `sl_bluetooth_config.h`, `sl_rail_util_power_manager_init_config.h` |
| `RttChannel` | printing into the skipping up-buffer, the probe, resets, captures, the verdict | `app.c:21-131`, `config/SEGGER_RTT_Conf.h:93-107`, `capture_rtt.sh`, `validate_rtt_capture.py` |
| `RttLock` | the RTT lock in all its variants, under nested interrupts | `config/SEGGER_RTT_Conf.h:131-425` |
| `InstallGenerated` | the transactional install and the shell's exit trap | `install_generated_output.py:15-42`, `generate_firmware.sh:24-55` |
| `SdkPreparation` | clone, pull and build with failures, retries and regeneration | `prepare_ci_sdk.sh`, `prepare_sdk.py:16-66`, `build_firmware.sh:9-28` |
| `MCTracker`, `MCParser`, `MCApp`, `MCStartup`, `MCSleepClock`, `MCRtt`, `MCRttLock`, `MCInstall`, `MCSdk` | instances for TLC | - |
| `TrackerProofs`, `AdParserProofs`, `ScannerAppProofs`, `RttProofs`, `StartupProofs`, `InstallGeneratedProofs`, `SleepClockProofs`, `SdkPreparationProofs` | theorems | - |

**ScanTracker.** The variables are the fields of `scan_tracker_t`, the last
result of `scan_tracker_observe`, and `uptime`, the true time in milliseconds,
which the code never sees: it sees `UptimeMs`, reduced modulo `ClockPeriod`.
`Observe` is a whole call of `scan_tracker_observe`; its three cases are the
three ways out of `select_entry` (known device, free slot, eviction).
`AppProcessAction` is the poll and the snapshot it triggers. The clock is read
once per call and the tracker is used by the loop only, so a call is one step
at the moment of that reading. A payload enters as a result of
`parse_local_name`. `Next` allows reports, polls and ticks in any order, which
includes every order the super-loop produces. Field widths are parameters:
`UINT_MOD` is 2^32 in the code.

**TrackerHistory** records, in true time, every report heard and every line
shown of each device in the cache. Its properties relate what a reader of the
log sees to what happened; the tracker's own fields cannot be trusted for that,
since they wrap and are reused.

**ScanLog** says the same as a specification of its own: it has no slots, no
counters and no clock that wraps, remembers at most `Capacity` devices, and
chooses freely where the tracker's choice is not promised. An interval of `Span`
or more is one the tracker may take for a shorter one; with `Span = UINT_MOD`
the tracker implements it (`ImplementsScanLog`), where the mapping drops the
report counts from the history and reads the line off the last result.

**AdParser.** `offset` and the fields of `parsed_name_t` are variables; `looked`
and `touched` collect the payload bytes read and the buffer positions written.
`Expected` is a reference definition of the result: it says what the chain of
fields is and which of them names the device, without a loop or a recursion.

**ScannerApp.** `pc` names the call the loop makes next. The stack and the power
manager are external: the model uses what the comments in
`sl_power_manager_handler.c` promise of them (the sleep decision is taken and
carried out with interrupts disabled; a stack that has an event says so in both
hooks) and leaves every other answer open. A popped event never fails to pop:
the queue was found non-empty by the only consumer. The tracker appears as
`due` only; `ScanTracker` says what is behind it, and `DueIsAsAssumed` that it
behaves as `due` does.

**Startup.** The generated functions are lists of calls; `todo` holds those
still to be made, and the first is either replaced by its own list or has the
effect of an action (opening a stream, choosing the console, initialising the
stack or the tracker, popping an event). The stack may come up and queue events
between any two calls. The choice of the console takes one step per pass of its
loop; `instance` is the loop's variable. `instances`, the list of log streams
that was generated, is chosen at the start; in the repository's build it is RTT
alone. `EFM_ASSERT` is nothing, as in that build. `sl_iostream_get_handle` is
left out: nothing calls it.

**ClockTree, SleepClock.** `ClockTree` resolves what feeds a branch of the clock
tree, from the settings of the two headers, AUTO included. `SleepClock` counts
ticks of the sleeptimer's branch in true time, converts them as `uptime_ms`
does, and lets application, radio and stack add and remove EM1 requirements
while the loop sleeps in the lowest mode allowed. Radio and stack are external:
they remove only what they added.

**RttChannel, RttLock.** The printf in use writes characters as it formats them,
so a line is written in pieces, one step each: those the verdict looks for, the
name that the advertising device chose, the rest. Of a piece the buffer stores
all characters, some, or none; a probe takes pieces at its own pace or not at
all, and may be stopped in the middle of one. A reset clears the buffer. A
capture ends in an error or in a verdict, and `assess_rtt_capture` is the set of
verdicts that are possible: a name, and what is left of a cut piece, may read
like anything the validator searches for. In `log` the output is in the order
of writing; that the probe's and SEGGER's offsets see to that is taken from
them. That one write is one step rests on the lock: `RttLock` has contexts (the
loop and handlers of fixed priorities) that take and release it, nested, in each
of the variants the header has for compilers and architectures. In this firmware
the loop alone prints; the header is written for handlers that do.

**InstallGenerated.** A path holds the number of the run that generated it, so
"old" and "new" can be told apart over several runs. One action is one
`os.replace`, one `append`, one path removed by `rmtree`. `CallFails`,
`Interrupted` and `Terminated` can strike before any of them; `faults` records
which did. Directories are renamed as a whole and never onto another directory,
which is what makes some rollbacks fail. A generation that fails before the
installer starts touches only the staging directory and is left out.

**SdkPreparation.** An archive is absent, a Git LFS pointer, an object, or cut:
being written, or left so by a command that was killed. `prepare_sdk.py` reads
the inventory once (`ReadInventory`) and then opens the archives one by one
(`LookAtArchive`), in any order here and by name there. A command may fail or be
killed at each step; the user starts any command again or removes a half-made
directory, and the project may be regenerated, which changes the inventory,
between any two steps, also between the check of a build and its link. The
commands themselves do not run at the same time.

A definition whose comment says "Faulty" is a plausible mistake in the one
after it, kept to show that the properties notice it; nothing uses it.

## 3. Runs

| Run | Module, configuration | What it shows |
| --- | --- | --- |
| `tracker` | `MCTracker`, `Tracker` | three devices, one of which changes its name and its signal, two slots, 4 reports, clock and counters of 4 values: nothing inherited, eviction order, both limits, no news withheld, summary on time, counters that agree, and the refinement of `ScanLog` |
| `parser` | `MCParser`, `Parser` | all payloads of up to 6 bytes over 7 byte values: in bounds, the expected result, termination |
| `app` | `MCApp`, `App` | all interleavings of the loop with interrupts, queue of 3 events: no event slept through, no event and no summary starved |
| `startup` | `MCStartup`, `Startup` | lists of up to three log streams, failing calls, stack interrupts at every step: order of set-up, the console, the scan |
| `sleep_clock` | `MCSleepClock`, `SleepClock` | 469 configurations, two wraps of the counter: time is true, the probe keeps its mode and the branches their clocks |
| `rtt` | `MCRtt`, `Rtt` | 4 lines, one reset, two captures, a buffer that fills up, names that read like any line: verdict, first capture, no stall |
| `rtt_lock` | `MCRttLock`, `RttLock` | every variant, three handlers, locks nested twice: one writer, mask restored, urgent handler served |
| `install` | `MCInstall`, `Install` | the four real paths, two runs, two faults of any kind per run: all or nothing, no mix, nothing lost, status true |
| `sdk` | `MCSdk`, `Sdk` | three archives, one of which the commit lacks, three faults, two regenerations between any steps: success is true, retries converge |
| `clock_wrap_summary`, `install_terminated`, `rtt_drops` | `ClockWrapSummary`, `InstallTerminated`, `RttDrops` | findings 1, 2 and 3 below |

Bounds, and why they suffice:

- *Clock and counters.* The arithmetic depends on intervals, not on 2^32 as
  such. From 2 to 6 ms a clock of four values wraps while every interval under
  test runs; the counters wrap and the report
  counts saturate within the four reports. The theorems of section 5 need no
  bound, and for the properties of this run they replace larger instances.
- *Devices.* Three identities for two slots give a free slot, a full cache, an
  eviction and the return of an evicted device, which takes four reports. They
  share an address or a type pairwise, and one is the all-zero identity of an
  unused slot.
- *Signals.* -60, -49 and -48 dBm are 11 and 12 dB apart, one on each side of
  the delta of 12, in both directions.
- *`MaxUptime`.* At `MaxUptime` the run has ended (`MCEnd`).
- *Parser.* Six bytes hold a complete field, another and a truncated third; the
  buffer of two makes every name of two characters too long. Bytes were chosen
  so that each kind of length and type occurs.
- *Super-loop.* A queue of three is longer than the two events that could
  overtake a summary; two senders show that none is starved by the other.
- *Start-up.* Three streams are enough for a chosen one to be kept, replaced by
  a better kind, and met again by its own kind. `MaxReports` reports may wait
  behind the boot event.
- *Sleep clock.* The configurations are the built one, with other defaults,
  timers, features and builds, and with any other source for one branch; not
  varied are most of the settable frequencies, since no state depends on them.
  The radio's and the stack's requirements overlap the application's with one
  each. `MaxElapsed` is more than two turns of a counter of 16 values, at a rate
  that does not divide a millisecond.
- *RTT.* The buffer holds both start-up lines and one piece more, so that every
  later line may be stored, cut in a piece or between two, or dropped; four
  lines overflow it; one reset may fall before, into or between the two
  captures.
- *RTT lock.* Radio and link layer handlers print and interrupt each other and
  the loop; a third is more urgent than the masked level and never prints.
- *Installer.* The paths are the code's own. Two faults reach a failure in the
  rollback of a failure; two runs reach a run after a broken one.
- *SDK.* Two archives in the commit can be half-pulled; a third that the commit
  lacks can be selected. Three faults fail a clone, a pull and its retry.

TLC's deadlock check is off where the modelled program ends or the bounds of the
environment are used up: `parser` (the function returns), `install` and
`install_terminated` (the script ends), `sleep_clock` (time ends), `rtt` and
`rtt_drops` (lines and captures run out). It is on in the others.

**Fairness.** `AdParser`: weak fairness of the loop. `ScannerApp`: weak fairness
of the loop's steps (the processor runs) and of some advertisement arriving
(`Fairness`). The second is an assumption about the surroundings: nothing in the
repository arms a timer for the summary, so a sleeping processor prints it only
when something else wakes it. The stack's own interrupts while scanning may do
so too; that is up to the stack, and the model does not rely on it. `Startup`:
weak fairness of the program, and of the stack reporting that it is up.
`RttChannel`: weak fairness of writing the next piece, which is the processor
running; nothing is assumed of the host, since the point is that the writer does
not depend on it. `RttLock`: weak fairness of the processor's steps, nothing of
interrupts. `SdkPreparation`: weak fairness of the running command, strong
fairness of the user's way out of a failure (`Retry`), which other commands the
user starts keep disabling. The safety properties use no fairness.

## 4. Findings

1. `uptime_ms` (`app.c:17-19`) converts a 32-bit count of 32768 Hz ticks, so it
   wraps at 131,072,000 ms, after 36.4 hours, while the tracker computes modulo
   2^32 ms. Once the next summary lies past that wrap, no clock value reaches it
   and summaries stop. `docs/ARCHITECTURE.md:33, 37-39` promises a summary per
   30 seconds and a safe wrap. In the run `clock_wrap_summary` (`UINT_MOD` 64,
   `ClockPeriod` 8, a summary every 3 ms) no time passes while a summary is due,
   so the loop is never late: the summaries of times 3 and 6 come when they are
   due, and the one of time 9 does not, since the clock never gets beyond 7.
   `SleepClock.UptimeFaithful` derives the period from the configuration. For
   the same reason the first report after that wrap passes the 250 ms limit at
   once: on the same clock, with `GlobalInterval = 3`, `MinInterval = 4`,
   `RefreshInterval = 6` and two reports, `GlobalCeiling` fails.
2. SIGTERM or SIGHUP during the install ends Python without its handler, and the
   trap of `generate_firmware.sh:25-28` deletes the backups
   (`install_terminated`). A `KeyboardInterrupt` between `os.replace` and the
   `append` that records it (`install_generated_output.py:29-30, 33-34`) does
   the same to one path, although the handler runs: the rollback does not know
   that path. (Set `FaultKinds` to `{"interrupt"}`.) What was there is tracked
   by git, so only uncommitted changes are lost.
3. `app.c:42-43` says that a full buffer may drop a line. It may drop any part
   of a line and store the rest (`rtt_drops`), since each write of a piece is
   stored or skipped on its own. `VerdictTrue` shows that no capture passes for
   that reason of a device that does not scan.

Observations without a run of their own:

- A second capture without a reset finds no start-up line, since the first one
  took it from the buffer, and fails with "BLE scanning did not start", also of
  a device that scans. `FirstCaptureFair` is therefore about the first capture
  since a reset.
- `validate_rtt_capture.py:13` looks for "BLE scan started:" anywhere in a line,
  and `app.c:44-51` prints names that advertising devices chose. A second
  capture in which such a name holds that text passes without the start-up line.
  The device does scan then, so `VerdictTrue` holds; what passes is not what was
  meant. What the probe's own messages hold (its standard error goes to the same
  file, `capture_rtt.sh:54`) is not modelled, nor a file that is not UTF-8.
- No file defines `DEBUG_EFM` or `DEBUG_EFM_USER`, which the comment in
  `sl_bluetooth.c:39-42` asks for, so `EFM_ASSERT` compiles to nothing and the
  application starts on a stack that failed. `ScanStarts` is about a stack that
  came up.
- `prepare_sdk.py:28` takes for an object whatever does not begin like a
  pointer. An archive of which `git lfs pull` was killed in mid-write passes, in
  the next preparation and in the build. `ReadyTrue` therefore promises objects
  only where no step failed, and otherwise no more than the header test can.
- A command judges the inventory it read. If the project is regenerated before
  the command ends, or between the check of `build_firmware.sh:22-25` and the
  cmake of line 28, its success says nothing about the archives that were added;
  in the model, `ReadyTrue` with `inventory` in place of `selected` fails.

## 5. Theorems

All theorems hold for every value of the constants that the named assumptions
allow: any cache size, any set of addresses, types, names and reports, any
intervals, any `UINT_MOD`, any handlers, priorities and nesting, any list of
paths, any counter width and rate. The assumptions are in the modules that
declare the constants and are evaluated by the runs.

- `TrackerProofs`, about the tracker by itself: `TypeCorrect`,
  `DevicesUnique`, `ActiveDevicesExact`, `DiscoveriesExact`, from one inductive
  invariant, `SlotsInv`. Uniqueness of devices is not inductive alone: that used
  slots are a prefix of the cache is needed to know which slot a new device
  takes, and that `active_devices` is their number to keep it within its type.
- `TrackerProofs`, about the promises of the log: `EntriesOwn`, `SummaryOnTime`,
  `CeilingHolds`, `CooldownHolds`, `FirstIsFirst`, `LinesTellNews`,
  `NewsIsTold`, `OldestIsEvicted`. The inductive invariant `HistoryInv` adds to
  `SlotsInv` that every stored time is the true time of the event it stands for,
  reduced modulo `UINT_MOD`, that an entry agrees with the history of its
  device, and that devices outside the cache have no history. `ElapsedTrue` then
  gives: the elapsed time the code computes is the true one if that is below
  `UINT_MOD`, and never more than it. The first half gives the properties that
  forbid withholding, the second those that forbid a line too early. These
  theorems have the hypothesis `WholeClock` (`ClockPeriod = UINT_MOD`): the
  clock takes all the values the arithmetic counts with, as the documentation
  has it. Finding 1 is that the real one does not; until its first wrap it
  behaves as a whole one. `DueIsAsAssumed` does without the hypothesis.
- `NoNewsWithheld` and `OldestEvicted` exclude silences of `UINT_MOD` ms or more
  (49.7 days), which 32-bit times cannot represent.
- `TrackerProofs`, about the super-loop's view: `DueIsAsAssumed`. A summary is
  not due at first, only time makes it due, only the poll that prints it ends
  that, and no report changes it, as long as the clock is whole or has not yet
  wrapped (`ClockTrue`) and the loop is at most half its range late
  (`PolledInTime`). This is what `ScannerApp` has as `due`; after the wrap of
  finding 1 it is no longer so, and nothing is claimed.
- `TrackerProofs`, about the abstract log: `TrackerImplementsLog`, the
  refinement as a whole, from `HistoryInv` and the number of tracked devices;
  `EvictedWhenFull` and `ReportsAreAccounted` are steps on the way. Each kind of
  report is mapped to the abstract one in three parts: the line that may be
  emitted, the line that must be, and who is forgotten.
- `AdParserProofs`: `ParserTypeCorrect`, `ParserInBounds`, `NameTerminated`, for
  payloads of any length and any capacity, from the type invariant with `offset
  <= payload_length` and the two properties (`SafeInv`). `ParserIsCorrect`: the
  parser returns what the reference says. The chain of fields of the reference
  is a set of positions with nothing between a well-formed field and the next
  one, and nothing after one that is not well formed. That every payload has
  such a set (`ChainExists`) would be an induction along the payload; instead
  the chain is the least set closed under "next field", and each fact about it
  holds because the positions of which it holds are closed too. `ResultInv` says
  that the parser's `offset` is on that chain and that `value`, `present` and
  `complete` are the reference's result for the fields passed so far; `complete`
  decides which kind of name that is.
- `ScannerAppProofs`: `AppTypeCorrect`, `NeverSleepsOverWork` and
  `SummaryIsNotOvertaken`. A decision to sleep that was right stays right until
  it is carried out, and between an interrupt and the return to sleep the queue
  is empty; at most one event is handled while the summary is due and then the
  poll comes next.
- `RttProofs`, about the log: `ChannelTypeCorrect`, `VerdictIsTrue`,
  `FirstCaptureIsFair`, for any buffer that holds the two lines of the start,
  and any number of lines, resets and captures. One half of the inductive
  invariant `ChannelInv` is about what a capture may not see: anything but the
  line of initialisation is written while the device scans, is gone with a reset
  (unless a running capture has it), and reaches a log only if the device scans
  or did so during that capture (`Evidence`). The other half is about what the
  first capture must see. Nothing but the two lines of the start is printed
  until the scan runs, so there is room for both (`StartUpFits`); so the pieces
  of the second one are stored whole and next to each other, and until a first
  capture has ended they are in the capture, in the buffer or still to be
  written (`FreshKept`).
- `RttProofs`, about the lock: `LockTypeCorrect`, `OneWriterHolds`,
  `MaskIsRestored`. The inductive invariant `LockInv` adds that whoever holds
  the lock has masked every writer, that the outermost of its nested locks has
  saved the empty mask and each inner one the lock's own, and that only handlers
  the lock does not mask, which never write, have cut into it.
  `BuildAssumption` leaves out the builds for which the header has no lock.
- `StartupProofs`: `StartupTypeCorrect`, `ConsoleIsReady`, `ConsoleIsPreferred`,
  `TrackerIsReady`, for any list of log streams. The functions fall into six
  stages, and the calls still to be made are always in the order of their stages
  (`Staged`): replacing a call by its body keeps that, since a body stays within
  the stages of its function (`BodiesWithin`). What a stage relies on has been
  done, or a call that leads to it is still to be made (`Pending`); if only
  calls of later stages are left it has been done. While the console is being
  chosen, it is the one to prefer among the streams looked at so far.
- `InstallGeneratedProofs`: `InstallTypeCorrect`, `NothingIsLost`,
  `StatusIsTrue`, `OutputIsNeverMixed`, `AllOrNothingHolds`. `AnyInv` holds
  whatever strikes: what is not in the project is in the backup, and the new
  output is in the project or in staging. `ExactInv` holds of a run that met
  failing calls only: its lists name exactly what was moved. `InstallInv` joins
  them (`OnlyErrors => ExactInv`, and no content is of a later run than the
  current one), so that each run starts exact again whatever cut the earlier
  ones short.
- `SleepClockProofs`: `SleepTypeCorrect`, `UptimeIsFaithful`,
  `ProbeStaysReadable`, `BranchesAreClocked`. The invariant says that the
  counter is the true time modulo its width and that the count of requirements
  is the sum of those of application, radio and stack. `BranchesAreClocked` has
  the hypothesis `Sensible`: what a setting names is enabled, and the DPLL is
  set up for the frequency announced. It does not say what AUTO stands for,
  which is where the two headers have to agree. All configurations of the run
  are sensible.
- `SdkPreparationProofs`: `SdkTypeCorrect`, `SuccessIsTrue`. A selected
  archive that was looked at is there and no pointer, or on the list of the
  missing; and the CI preparation has verified its commit by the time it looks.
  Without a failure only a file
  that is being written is cut. `inventory` does not occur in
  the invariant, so regenerations do not touch it.

Proved, and not repeated in a run: `UniqueDevices`, `ActiveIsPrefix`,
`DiscoveriesAccounted`, `DeviceCooldown`, `FirstLineOnce`, `LineTellsNews`,
`EvictedOnlyWhenFull`, `DueAsAssumed`, `Terminated`, and the type invariants of
`ScanTracker`, `AdParser`, `ScannerApp`, `RttLock` (`LockTypeOK`),
`InstallGenerated` and `SleepClock`.

Every invariant of a passing run is stated by one of these theorems, and so are
the action properties and the refinement. Model-checked only are the liveness
properties `Terminates`, `EventsServed`, `SummaryServed`, `UrgentServed`,
`WriterNeverStalls`, `ScanStarts` and `RetryConverges`: liveness under fairness
and ENABLED are out of the prover's reach.

## 6. Not modelled

NULL arguments of the tracker (`scan_tracker.c:34-37` and the guards of its
interface): `app.c` never passes one. The wording of log lines. The SDK, the
stack, the power manager, SEGGER's buffer code, SLC, git and cmake beyond what
is said above. The RTT lock of the Windows simulation. Tuning, precision,
start-up delays and dividers of the oscillators: no state depends on them.
Constants of vendor libraries (link-layer scheduling, cryptography, memory
sizes, trace pins) that no code of the repository reads. The text
transformations and audits (`normalize_slc_output.py`,
`audit_github_actions.py`), which are pure and which their unit tests reach.
Build, container, flash and format wrappers and CI workflows, which keep no
state of their own. Two concurrent runs of the installer.

## 7. Plan

Done: the modules of section 2 and the theorems of section 5. What is left:
`ScannerSystem`, a module that joins `ScannerApp` and `TrackerHistory` in one
state, so that properties that relate the queue to the log can be stated;
`DueIsAsAssumed` is the part of its refinement of `ScannerApp` that is about the
tracker.
