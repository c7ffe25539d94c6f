# Takeout Restorer: TLA+ specifications and proofs

Takeout Restorer restores the metadata of a Google Photos Takeout: it scans
directories and archives, pairs every media file with its JSON sidecar, writes
the metadata with exiftool and sorts the files into output directories. A run
takes hours, can be cancelled, paused, killed and resumed, and keeps its state
in an SQLite database. The specifications here are about that state: what is
stored, in which order, by which thread, and what survives.

All source paths below are relative to the repository, most of them to
`crates/core/src`.

## 1. Inventory

| Component | State | Operations | Talks to | Module |
|---|---|---|---|---|
| `StateDatabase` (`state_db.rs`) | rows of `media_files`; bounded channel of 10 000 updates; writer thread with batch, retries, `is_broken`; `failed_batch.json` | `open` (recovers interrupted claims), inserts, `apply_match_batch`, `try_mark_batch_processing`, `enqueue_status_update`, `flush`, `apply_recovery_data`, `Drop` | called by the pipeline thread and by every consumer | StateDb, StatusLedger; Import for the inserts |
| `Processor` (`processor.rs`) | staging directory of the run, output directories, channel of 256 staged files, consumers, `FILE_MOVE_MUTEX` | matching phase; processing phase: claim, stage, send, write metadata, move, report; sweeps | database, exiftool pool, events, the tokens `cancel` and `pause` | Import, Pipeline; Outputs for the files and their names |
| `CoreDispatcher`, `run_core_pipeline` (`crates/app/src/lib.rs`) | `cancel_token`, `pause_token`, `is_running`, selection, `db_path`; lock file and database per run | Start, Cancel, Pause, Resume, ResetState, ResumeRun, RecoverRun, DeleteRun, ClearAllRuns | starts the pipeline thread, shares the tokens with it | Dispatcher; Pipeline for the tokens |
| Matcher (`matcher.rs`) | index of the sidecars per folder | `match_batch`, `find_best_match` | called by the matching phase | Matcher |
| Scanner (`scanner.rs`) | batches not yet inserted | walk, insert rows | database | Import |
| ExifTool engine and pool (`exiftool.rs`) | child processes, idle engines, operation counters, `SPAWNED_PIDS` | checkout, execute with timeout, restart, recycle, shutdown, clean-up at a forced exit | called by consumers | ExifToolPool |
| Broadcaster (`events.rs`), updater, watch, view models (`crates/shared_ui`) | subscriber queue, view model, latest snapshot | publish, apply, debounce, send | receive events from everybody | Telemetry |
| Command line (`crates/app/src/main.rs`) | the loop's snapshot | start, wait, Ctrl-C, join, print | dispatcher, watch | Telemetry |
| Window (`crates/gui`) | widgets | dispatches commands | dispatcher, watch | the user's actions of Dispatcher and Telemetry |
| Downloader (`crates/downloader`) | installed files | download, verify, extract | dispatcher | - |
| Parser, time zones, config, validation, logger, errors, power governor | settings, files | conversions, input and output | - | - |

Behaviours that are hard to get right, and what correctness means there:

- *Three kinds of thread on one database.* Consumers enqueue outcomes, the
  writer stores them in batches, retries, falls back to single statements, logs
  what fails, or gives up and goes dormant. Every accepted outcome must end in
  its row or in the log; a flush must be a barrier; nobody may wait for ever.
- *Crashes.* Claims are on disk, their outcomes may not be. A resumed run takes
  exactly the interrupted files up again, with the status their match gave them.
- *Back-pressure.* The channel bounds the disk space of the staging directory
  and blocks the producer; a cancel or a pause must not leave the producer and
  the consumers waiting for one another.
- *Errors on the way.* Refused updates, unreadable archives and failed moves each
  have their own path, and the end of the run has to agree with all of them.
- *Tokens shared by two threads.* The dispatcher sets and resets the tokens of a
  pipeline that is already at work.
- *Files that exclude.* Instances keep each other off a run by a lock file that
  commands probe, release and unlink; `is_running` does the same in one instance.
- *A foreign process.* Exiftool hangs, crashes and answers late; what it says must
  never be taken for the answer of another file, and no process may outlive us.
- *Events that may be dropped, over snapshots that may be skipped.* The end of a run
  and what it counted have to come through all the same.
- *Names that several want.* Consumers look for free names side by side, rename the
  user's originals in place, and fall back to copies that may be cut off. Nothing may be
  replaced, and what is written to a path must be meant for the file that is there.
- *Interrupted imports.* Scans and matchings are cut off anywhere and repeated, over
  a hash map whose order differs each time.

`PROJECT.json` lists the hazards one by one with their lines, and which
property covers each or why none does yet.

## 2. Modules

```
FileStatus ---- StatusLedger ---- Pipeline ---- MCPipeline,  Pipeline_proofs
     \              ^ INSTANCE
      \---- StateDb-/ ---- MCStateDb
                \---- StateDb_proofs
Dispatcher ---- MCDispatcher,  Dispatcher_proofs
ExifToolPool ---- MCExifToolPool,  ExifToolPool_proofs
Matcher ---- Import ---- MCImport
     \            \---- Import_proofs
      \---- Matcher_proofs --^
Outputs ---- MCOutputs,  Outputs_proofs
Telemetry ---- MCTelemetry,  Telemetry_proofs
```

**FileStatus** has the enum `FileStatus`, its predicates, and the statements that
the database runs on the rows, as pure operators: the status of a match, the
`CASE` of recovery, the claim, a sequence of updates. A confidence is a number
or `Null`, because recovery computes with it.

**StatusLedger** is the abstract specification: rows, outcomes in flight, outcomes
parked in the log. Outcomes in flight reach their rows in any grouping and
order, or are parked; only a crash forgets them, and a clean close leaves none.
It knows no channel, batch, retry or flush.

**StateDb** is the database as written. The variables follow the code:

| Variables | Code |
|---|---|
| `status`, `confidence` | the columns of `media_files` |
| `rlog`, `logEnd` | `failed_batch.json`: its readable lines, and whether it ends in a newline |
| `owner`, `dropping` | where the pipeline thread is in `flush`, `drop`, `apply_recovery_data` |
| `worker`, `outcome` | per file, the call of `enqueue_status_update` by its consumer |
| `channel`, `isBroken`, `poisoned`, `reply` | `writer_tx`/`rx`, `is_broken`, the mutex, the channel of a flush |
| `wpc`, `batch`, `failed`, `retries`, `flushHeld`, `termHeld` | the locals of `writer_loop` |

An action is one critical section on the connection, one channel operation or
one line written to the log. The two reads of `is_broken` and the send are
separate steps, since the writer can give up between them. A transaction that
fails has no effect and counts a retry. A poisoned mutex is what makes the writer
give up: with a whole one the fallback always runs. The writer holds the mutex
during the fallback and the writing of its failed items (`ConnFree`). `writeln!`
writes text and newline separately, so a crash can come between them
(`CrashMidLine`).

**Pipeline** is the processing of a run over that database. It extends
StatusLedger and its actions *conjoin* the ledger's: `LoadBatch` takes rows,
`CompleteFile` hands over an outcome, and so on; `Database` is the writer. That
the real database implements the ledger is the business of StateDb. Variables:
`staged` and `outputs` are the disk; `pc`, `loaded`, `todo`, `current` the
pipeline thread (`last_id`, the batch, the file being sent); `channel`, the
tokens and `job` (per file, how far its consumer is) are shared; `shown` holds
the statuses of the `FileProcessed` events.

A consumer checks `cancel` when it takes a file, waits in the pause loop, and
then works through to the report whatever the user does; the model has one step
for each point where another thread can see a difference: taken, past the pause,
moved (or failed), reported. Matching is one step, since nothing else runs then
and a crash in it only leaves files pending. A consumer's metadata step is a free
choice between success and failure. `FreshProcess` starts with tokens reset;
a token left set by an earlier run behaves like a cancel right after the start,
which the model has.

**Dispatcher** has the commands, the pipeline threads as far as locks are concerned,
and the files. `app[a]` is an instance's `is_running`, selection and `db_path`,
`cmd[a]` the command its thread is in, `pipe[p]` a pipeline thread with the copies
it was started with; `lockFile[r]` and `dbFile[r]` are the files at a run's paths,
with an identity each, so that unlinking a path under somebody who has the file
open can be told from keeping it; `locker[l]` is the exclusive lock. Commands that
probe the lock do it in the code's steps (open, try, release, act), with other
threads in between. `Work` records in `wrote` where a pipeline restores to.
`torn` and `dishonest` are history: the runs whose lock file was unlinked under a
pipeline, the instances that refused a start after taking the flag or were reset
under a pipeline; so is `unread`, the databases that did not answer a resumed pipeline
where its files go (`ContractUnread`; `ReadFails` is the same for the command that
resumes). The properties except those, because the code does go wrong there; that it goes wrong nowhere else is what they say.

**ExifToolPool** has a process per engine with its pipe (`stdin`), its channel of
lines (`lines`) and its fate (`child`), the pool (`pool`), the threads (`pc`,
`held`) and the registry (`registered`). A line carries the command it
answers, which the code cannot see: that is how a late answer is noticed. The
program counter follows `execute`: count, recycle (`drop`, `unregister`),
`ensure_running` (spawn, register, warm up), write, read up to `{ready}`, give
back. Waits have no clock: a read without a line may time out. `Cleanup...` and
`Exit` are the forced exit of the command line or the window. The processes
(`Answer`, `Ready`, `ProcessDies`) are external: they answer in order, or not.

**Matcher** is `find_best_match` with all its tiers, as operators on names. A name
is a sequence of parts (letters, a number in parentheses, the mark of an edited
picture, an extension, `.supplemental-metadata`), so that what `format!` builds is a
concatenation and what the regular expressions cut off are last parts. Edit
distances are in characters.

**Import** is the way from the inputs to matched rows: the walk in any order, what
counts as media or sidecar, the batches and their inserts (`INSERT OR IGNORE`), the index per
folder, pages of rows by id and their matches, over several sessions that a
cancel, an error or a crash ends anywhere. Of an entry's path the model keeps the input,
the folder, the name, and whether it has two dots in a row (`dots`), for which archives'
entries are `Skipped`. `missed` and `partial` are history: an entry was left out of this
session, a matching began without one.

**Outputs** is the disk that Pipeline counts on: `disk` maps the paths that exist to
whose picture is there and whether it is complete. A path has a place (the user's
directories, a staging directory, Completed, Unmatched, Errors), a folder, a stem and an
extension; a stem is a sequence of parts, so that `(1)` and `_dup_<nanos>` are one more
part, and `Photo(1)` of one file can meet the `Photo(1)` made for another. Per file, `pc`
says how far its consumer is, `target` and `dest` are `target_path` and the path it moves
to. `holder` is `FILE_MOVE_MUTEX`, which auto-heal, `move_to_output_subdir` and
`move_to_error_subdir` hold from the search for a name to the end of the move or copy:
`Choose` takes it with the answer of `resolve_collision`, and `Heal`, `MoveFile`,
`EndCopy` and `MoveFails` give it back. (CHANGELOG.md:76 says its scope was restricted to
collision resolution; in the code it spans the copy, and `NothingOverwritten`
needs it to.) A rename that fails becomes `BeginCopy`, which creates the file, and
`EndCopy`, with a failure or a crash possible between them. The rows are reduced to what
decides whether a file is taken up again; claims, channel, events and cancels are
Pipeline's. `touched` records whose metadata was written to whose picture. A restart
keeps disk and rows, and sweeps the staging directory unless in place.

**Telemetry** follows an event: `Publish` into the bounded queue, which drops;
`Update` applies it to the view model `vm` as `apply_event` does and may or may
not send a snapshot, depending on the debounce; `shown` is the watch channel. The
pipeline is reduced to the order of its events. `cli` is the main thread of the
command line, the window is whoever clicks on what `shown` offers. `truth` is what
really happened, and whether something was `dropped` or ended without a word
(`unended`).

**MC...** modules give instances for TLC: symmetry sets, and the trees of
MCImport, the files of MCOutputs. The `_proofs` modules hold lemmas and theorems. Operators commented as
"a deviation, not the code" are faulty variants of the operator that follows them;
no specification uses them. They serve to confirm that a property notices that fault.

## 3. Runs

| Run | Question | Result |
|---|---|---|
| `statedb` | Are accepted outcomes kept, is a flush a barrier, do finished rows stay, do claimable rows show their match, is it the ledger? | holds, 744 164 states |
| `statedb_live` | Are flushes answered and does Drop return? | holds, 18 600 states |
| `statedb_torn` | Does a torn log line cost only itself? | **violated** |
| `pipeline` | One reporter per file, one output, work stays staged, staging bounded? | holds, 1.79 million states |
| `pipeline_broken` | With a database that breaks, parks and replays: does Completed have an output, is a completed run complete, is what was shown stored? | holds, 1.49 million states |
| `pipeline_flow` | Does a cancelled run end, and does a run end unless paused? | holds, 80 500 states |
| `pipeline_uncancel` | Does a cancelled run take up no further file, although the dispatcher may reset the token under it? | **violated** |
| `exiftool_pool` | Is no answer taken for another file's, no process left at work or unknown, no engine lost? Do calls and shutdown end? | holds, 120 123 states |
| `dispatcher` | Who may work on a run, when does `is_running` tell the truth, where does a resumed run write? | holds, 1.98 million states |
| `telemetry` | Is the printed summary what happened, is a run with errors never a clean success, is the end shown? | holds, 561 897 states |
| `import` | Does everything that the scan does not skip get one row, and every row the match of a single pass? Does a file's own sidecar win, are guesses unique? | holds, 1.01 million states |
| `outputs` | Do originals survive auto-heal, failures and a restart, is nothing replaced, is what is completed there, does metadata go to its own picture? | holds, 970 695 states |

### The two violations

1. `statedb_torn` (`state_db.rs:589`). A session dies after the text of a log line
   and before its newline, or inside the text. The next session appends: its first
   line is glued to the torn one and the reader skips both. The test
   `test_res_001_jsonl_edge_cases` expects a truncated line to cost only itself.
2. `pipeline_uncancel` (`crates/app/src/lib.rs:461` and `:104`). Two files are
   claimed and copied, the user cancels, and a consumer drops the first because of
   that. The producer, which asked for the token before it copied, sends the second. The user, who
   was told at once that the run is cancelled (`:344`), chooses "export again" or
   resumes another run, which resets the token before anything asks whether a pipeline
   still runs; and the consumer takes the second file up and processes it
   (`CancelAborts`). So the cancel aborts some files and not the later ones. The
   dropped file's row is left in Processing; nothing of this session takes it up again,
   the next opening of that database does. `docs/user_guide.md:17` says that a cancel
   aborts the execution.

One more disagreement needs no run to be seen, since every order of steps shows it. The error
paths leave a file in the staging directory on purpose (`processor.rs:460`, `:508`;
CHANGELOG.md:41: "staging files are preserved upon filesystem failures"); `cleanup_staging`
removes the directory at the end of the same run (`:871`, `:876`), a step of Pipeline that
always comes. For a file copied or extracted from the inputs the original still
exists; only the copy is lost.

### What the passing runs except

Some properties hold only up to an exception, which the model names and the property
states; without it TLC shows the behaviour at once. They are what the code does:

- `FlagIsHonest` excepts `dishonest` instances. `StartProcessing` takes `is_running`
  (`crates/app/src/lib.rs:266`) before it looks at the selection, and returns early
  without clearing it (`:283`): every later start is refused until a reset.
  `ResetState` (`:463`) clears it under a pipeline, and a second one can start.
- `OneWorker` and `OneDestination` except `torn` runs: `delete_recent_run` unlinks
  the lock file after it has released it, perhaps under a pipeline that has just
  opened it, so that the next pipeline locks another file for the same run.
- `SummaryIsExact`, `SuccessIsClean` and `EndIsShown` except `dropped` events. A full
  queue drops `RunCompleted` as readily as anything else, and the command line then
  waits for ever.
- `EndIsShown` excepts `unended` runs: a start does not clear the cancel token, so
  that a run after a cancel announces "Scanning" and ends without another event.
- `MetadataIsOwn` excepts files in place after a restart. Auto-heal renames a file of the
  user and nothing stores the new path (`processor.rs:263`). `a.jpg` is a PNG and becomes
  `a(1).png`, since `a.png` exists; `a.png` is a JPEG and becomes `a.jpg`, which is free now.
  If the process dies before the outcomes are stored, the resumed row of `a.jpg` finds the
  other picture there, and its metadata and time are written into it. With one such
  file only, the row's path is gone and the file is reported as an error.
- `NothingOverwritten` lets a file in the user's directories get another name in the same
  directory: auto-heal does that in place.
- `MatchesAreOnePass` excepts sidecars that differ in case only: the lookup in lower
  case answers with the one inserted last. It says nothing of rows that were matched
  before an entry was scanned (`partial`): rows are never matched again.
- `ImportIsComplete` excepts `Skipped` entries. The scan leaves out every entry of an
  archive whose path contains two dots in a row (`scanner.rs:100`), as a "traversal
  attempt", without a warning or a count. The names of albums and files that end in dots
  have such paths: "Trip to...", `img..jpg`, a truncated `name..json`. A skipped sidecar leaves
  its picture without metadata. An entry with an absolute path, on the other hand,
  fails the whole scan (`FilePath::zip`, `state_db.rs:42`), which `End` covers. The
  property also asks nothing of a session that `missed` an entry, and a file of unknown
  extension whose first bytes cannot be read is missed without a word (`scanner.rs:213`).
- `OneDestination` excepts databases that are `unread`. `load_execution_contract` takes a
  query that fails for a destination that is not stored (`state_db.rs:291`), and the
  resumed run goes on with what is selected (`crates/app/src/lib.rs:618`).

The model of the matcher also shows that tier 6 counts a sidecar twice when the
extension of the name and its lower case are the same, so a truncated name with an
extension never matches; and that names ending in `.json(k)` are looked up although
the scanner records none.

### Bounds, and why they are enough

- `StateDb.cfg`: two files, so that outcomes share or do not share a batch; a
  channel and batches of two, so that both limits are met with a flush or a
  Terminate queued behind updates; two attempts, so that a retry can succeed or
  not; two sessions, the second of which meets what the first left on disk.
  Confidences 80 and 100 give both tiers, Null the third.
- `StateDbLive.cfg`: a channel of one message, so that every sender blocks; batches
  of two and one attempt, so that a flush or a Terminate gets into the batch that
  breaks the writer; one session, since liveness is a matter of one process.
- `Pipeline.cfg`: a channel of one, one consumer and three archive entries beside a
  real file: one file more than channel, consumer and producer hold, which
  `StagingBounded` needs; batches of two, so that there is more than one; two
  sessions with a crash or a cancel between them; the dispatcher may reset the tokens.
- `PipelineBroken.cfg`: a third session, so that a log can be written, replayed and
  the run resumed.
- `PipelineUncancel.cfg`: two real files in one batch, so that the second can be staged
  while the first is dropped; nothing but the user sets the token, and one session.
- `PipelineFlow.cfg`: more files than fit, so that the producer blocks; the user may
  cancel, pause and reset the tokens any number of times.
- `ExifToolPool.cfg`: fewer engines than consumers, so that they wait for one another;
  a process that is recycled after one operation, and as many process identifiers as
  let it be replaced twice; three calls, so that a call meets what the previous one
  left behind; one death and the forced exit besides the time-outs, which are free.
- `Dispatcher.cfg`: one instance, since two pipelines of one instance already share
  everything two instances share (the files of the run) and more (flag and
  selection); two pipelines, two identities for each file, one crash.
  The proofs hold for any number.
- `Telemetry.cfg`: a queue of two for the five events of the shortest run, so that
  each of them can be dropped or not; one file; two runs in the window, with one
  click (cancel or reset) and one warning, error or statistic between them.
- `Import.cfg`: every tree has a photo or video and two sidecars of a dozen that occur
  beside it (duplicates, edited, live pictures, truncated names, old and new style,
  case), or two files competing for them, or ties of the fuzzy search; one tree spans a
  directory and an archive, one has paths with two dots in both. Batches of two rows and one match, so that every tree with
  more than one file needs several; two sessions with different inputs.
- `Outputs.cfg`: in place, two originals with wrong extensions that are healed to the
  same name, and a file of an archive whose name and whose first number are taken in
  Completed; one number to try, so that its next name is made of the time; one restart. A file
  of an archive goes the way of every file in copy mode apart from the sweeps, so one
  instance has both; the theorems cover both modes. No run repeats the types of
  ExifToolPool, Dispatcher, Telemetry, Pipeline and Outputs, which are proved.
- `MaxSessions` and `MaxCrashes` bound openings and crashes only. The counters
  `retries` and the lengths of channel and batch are bounded by the code itself.

Deadlock is not checked: after the last session or run, or while a user pauses and
does nothing, the system does stop. The liveness properties rule out the stops that matter.

### Fairness

Threads of the operating system run when they can: the writer, a worker about to
send, the owner inside flush or Drop; in Pipeline the producer, the consumers and
the database. All of it is weak: no step needs a race to be won again and
again. A blocking send in StateDb is fair for *some* waiting worker only. Nothing forces a
report, a flush, a cancel or the end of a pause; `RunEnds` therefore excepts a
pause. The consumers' fairness includes exiftool answering or timing out
(`exiftool.rs` gives every command a timeout). Matching ends
because its input is finite.

In ExifToolPool the threads are fair, which includes that their timeouts expire;
the processes are not: exiftool owes nobody an answer, may hang for ever and die
whenever it likes. `CallsReturn` and `ShutdownEnds` hold all the same. A forced
exit that has begun is carried out. In Telemetry the pipeline thread, the updater
and the main thread of the command line are fair; that the phases of the pipeline
end is what `RunEnds` of Pipeline says. The user owes nothing. Dispatcher, Import
and Outputs have no fairness, as their properties are about safety.

## 4. Proofs

`tlapm` checks the eight `_proofs` modules. The theorems hold for every value of the
constants that the assumptions of the modules allow.

### The state database

`StateDb_proofs`, which begins with lemmas about the operators of FileStatus, holds for
every set of files, every capacity, batch limit, number of attempts and sessions, under
two assumptions: `ConfidencesAssumption` (a match's confidence is
in 1..100, which `levenshtein_threshold` below 10 gives: a fuzzy match at distance d
has 100 - 10 d) and `StateDbAssumption` (the capacities are at least one and the
flags are Booleans).

| Theorem | Says |
|---|---|
| `TypeCorrect` | `Spec => []TypeOK`; with it the bounds of channel and batch |
| `ClaimableRowsAsMatched` | `Spec => []ClaimableAsMatched` |
| `NoOutcomeForgotten` | `Spec => []NothingForgotten` |
| `FinishedRowsStay` | `Spec => TerminalIsFinal` |
| `FlushIsBarrier` | `Spec => []FlushBarrier` |
| `RefinesLedger` | `Spec => ImplementsLedger`, assuming `~MayTear` |

`TypeOK` is not inductive alone: the batch stays within its limit only because it is
empty whenever the writer goes back to `recv`. `WriterShape` says which of its
collections the writer uses where. `ClaimableAsMatched` is inductive over
`TypeOK`; its step for `Open` is the lemma that recovery's `CASE` agrees with the
matcher's.

`NothingForgotten` needs the inductive invariant `KeepInv`: besides the above,

- `Owned`: an outcome in flight belongs to a file whose worker is done, is that
  worker's outcome, and its row shows the claim or the outcome. Without it a late
  batch could overwrite the row of another outcome.
- `ReplayQuiet`: nothing is reported while the log is applied or removed; removing
  the log would otherwise remove the only trace of a current outcome.
- `WholeLines`: without torn lines the log ends in a newline, so that an append
  adds a readable line.

The steps of the writer share one argument (`SettlingStep`): what leaves the flight
arrives in its row or in the log, and rows change only to an outcome in flight.
`TerminalIsFinal` follows from the same invariant: only `Open`, claims and
the writer touch rows, the first two not the finished ones, and the writer only with the
outcome that is already there.

`FlushIsBarrier` follows from `NothingForgotten` once no outcome of the barrier is in
flight any more. `FlushOnce` says that the owner has one flush under way;
`BarrierOrder` that outcomes accepted before it are ahead of it in the channel, and
that the writer has nothing of them left in flight when it answers with Ok.

`RefinesLedger` hides the channel and the writer behind `InFlight`, and maps

| Step of StateDb | Step of StatusLedger |
|---|---|
| `Open`, `Join`, `Crash` | `Begin`, `End`, `Die` |
| `ApplyMatchBatch`, `ClaimBatch`, `ReportSend` | `Match`, `Take`, `Accept` |
| `Commit`, a `FallbackStatement` that works | `Settle` of the batch, of one outcome |
| `ParkLine`, `DormantReceive` of an update | `Park`, or `Forget` if the log fails |
| `ReplayLog`, `RemoveLog` | `Replay`, `Unlink` |
| everything else | nothing |

It needs three more invariants. `Once`: each outcome is in one place, else storing
one copy would leave the other in flight. `Closing`: Terminate is the last message,
since Drop waits for the workers; the writer that obeyed it leaves nothing in flight,
which `End` demands. `UnlinkReady`: the rows show what the log holds when it is
removed. With torn lines the refinement is false: a crash then changes the parked outcomes,
which is what `statedb_torn` shows.

### The pipeline

`Pipeline_proofs`, for any set of files, channel, batch and number of consumers, sessions
and crashes (`PipelineAssumption`, `ConfidencesAssumption`).

| Theorem | Says |
|---|---|
| `PipelineTypes` | `Spec => []TypeOK` |
| `OneReporter` | `Spec => []ReportsAreOwned` |
| `WorkStaysStaged` | `Spec => []WorkIsStaged` |
| `StagingIsBounded` | `Spec => []StagingBounded` |
| `CompletedHaveOutputs` | `Spec => []CompletedHasOutput` |
| `OutputsAreWrittenOnce` | `Spec => []DeliveredOnce` |
| `ShownStatusesAreStored` | `Spec => []ShownIsStored` |
| `CompletedRunsAreComplete` | `Spec => []CompletedIsComplete`, assuming `~MayUncancel` |
| `PipelineUsesLedger` | `Spec => LedgerSpec` |

The inductive invariant `Inv` has four groups of parts.

- Where a file is. `OnePlace`: a file is with the producer, in the channel or beyond
  it, once; `Stages` says which of these places are empty in which phase. A sweep runs in a
  phase in which they all are, so it takes nobody's work (`WorkIsStaged`), and
  `StagedOnly` bounds the staging directory by the places.
- Who may report it. `Reserved`: whoever has a file has its row claimed and nothing
  of it in flight; `Unsettled`: an outcome in flight is the only one of a claimed row. So
  a report is always possible and never overtaken.
- What became of it. `HasOutput` counts: a file that is called completed has an
  output besides one that is about to be verified and may be lost. `WrittenOnce`: an output
  of this process is on its way to a terminal status, so no later session claims the file.
- How the run ends. `ShownKept`: what was shown is stored or in flight or in the log,
  until the database breaks; `Ended`: a completed run has nothing in flight. `RowsReady`:
  what the producer has not loaded is claimable or finished, since the session began
  by recovering what was interrupted.

`CompleteInv` holds on top of it when nobody resets the cancel token of a running
pipeline. `AllLoaded` fails otherwise: with the reset that `pipeline_uncancel` shows, the
producer may have stopped loading because of a cancel that the end of the run no longer
sees.

Pipeline uses the database through the actions of StatusLedger, and
`PipelineUsesLedger` says that it does nothing else to it. Together with `RefinesLedger`
the two levels meet: the queue, the writer thread and the log of StateDb do what the
theorems about Pipeline take for granted.

### What the user is shown

`Telemetry_proofs`, for any capacity of the queue, and any number of files, runs, clicks
and notes.

| Theorem | Says |
|---|---|
| `TelemetryTypes` | `Spec => []TypeOK` |
| `SuccessesAreClean` | `Spec => []SuccessIsClean` |
| `SummariesAreExact` | `Spec => []SummaryIsExact` |

No fairness is needed. `SuccessIsClean` speaks of an empty queue, its induction of what is
queued in front of the view model. `ErrorsKept`: an error is in the model or on its way,
with no reset after it. `CleanCompleted` would be broken by an error that comes after
the end of a run; `FilesInOrder` excludes that: a file is reported after a phase of its
own run, which takes the success back first.

`SummaryIsExact` rests on `Tally`, that the truth is what the model has counted plus
what is queued, and on `LastWord`: `RunCompleted` is the last event of a run that nobody
disturbed, and a snapshot that shows the run finished is the final one. Whatever was
debounced or overwritten, the one that lets the main loop go is exact.

### The dispatcher

`Dispatcher_proofs`, for any number of instances, pipelines, runs and files
(`DispatcherAssumption`: these sets are apart).

| Theorem | Says |
|---|---|
| `DispatcherTypes` | `Spec => []TypeOK` |
| `Exclusion` | `Spec => []OneWorker` |
| `HonestFlag` | `Spec => []FlagIsHonest` |
| `SingleDestination` | `Spec => []OneDestination` |

`OneWorker` rests on two facts about files. `LockHeld`: a pipeline at work holds the
lock of the file it opened. `LockShared`: that file is the one at the run's path,
unless the run is torn. Two pipelines at work on one run have then locked the same
file. `PipeOK` and `CmdOK` say what a thread and a command hold where.

`FlagIsHonest` is inductive over the types: a start raises the flag with the only
pipeline, the guard of that pipeline clears it.

`OneDestination` is about the database file, which can be unlinked and created anew as
well: `FileOwned` gives each file one run; `WorksThere` says that a pipeline at
work writes where its file says, unless that could not be read. It would fail for a pipeline that names
its run while somebody else knows the name: `Unnamed` and `Private` exclude that
until its database is there.

### The exiftool pool

`ExifToolPool_proofs`, for any number of engines, consumers, processes, calls and
deaths. `PoolAssumption` has finitely many engines and consumers: a full pool is
recognised by its length.

| Theorem | Says |
|---|---|
| `PoolTypes` | `Spec => []TypeOK` |
| `AnswersAreOwn` | `Spec => []SuccessIsOwn` |
| `ReturnsAreQuiet` | `Spec => []QuietAfterReturn` |
| `EnginesStay` | `Spec => []EnginesConserved` |
| `CleanupKnows` | `Spec => []ChildrenAreKnown` |

`PoolInv` has eight parts. `ThreadOK`: what a thread holds at which point. `Alone`
and `AllThere`: an engine is at one place, and at one at all while consumers work;
that the pool is complete when the owner has counted it is the pigeonhole principle
(`FullPool`). `OwnProcess`: a process has one engine and is gone before the engine
lets go of it. `Known`: a live process is registered, about to be, or about to be
killed.

`Dialogue` is the core. A process and the thread that waits for it are in step: the
thread's command is all the process has to do, or it has said `{ready}` last; all
its lines are of that command. A process that is being given up has only commands
of the thread that gives it up. Any other process has nothing to do and nothing to
say. So whoever writes a command writes it to a silent process: this is what would
break if a failed read kept its process. `OwnAnswer` follows: what a consumer has
read is of its own command.

### The import and the matcher

`Import_proofs` and, for the operators on names, `Matcher_proofs` hold for any inputs,
entries and names, any sizes of the batches, any number of sessions and every setting of
the matcher. `ImportAssumption`: names are sequences of strings. `MatcherAssumption`: the
numbers in parentheses reach five. `PartsAssumption`: a part that is a number is no other kind of
part, and upper and lower case of a part are as they should be.

| Theorem | Says | Besides assumes |
|---|---|---|
| `ImportTypes` | `Spec => []TypeOK` | `Threshold <= 10` |
| `KeptRows` | `Spec => RowsAreKept` | |
| `ImportsAreComplete` | `Spec => []ImportIsComplete` | |
| `OwnSidecarsWin` | `Spec => []OwnSidecarWins` | |
| `MatchesOnePass` | `Spec => []MatchesAreOnePass` | |
| `SureSeries` | `Spec => []SureIsSameSeries` | `Threshold < 128` |
| `GuessesUnique` | `Spec => []GuessesAreUnique` | |

The two hypotheses on `levenshtein_threshold` (3 by default) are there because the code casts
`100 - 10 * distance` to u8: beyond a distance of ten the number is negative and wraps
to one above 100, and at 128 it is 100 again, so that a guess would look like a sure match. A
file name of 255 characters keeps real distances below the second bound only if the
threshold does; nothing in the code checks the first.

The inductive invariant `Inv` has seven parts. TLC checks them on the instance of run
`import`, one by one, before they are proved for all.

- `Shape` and `Typed`: rows and batches are lists of entries of the inputs, nothing is
  collected outside of the walk, and matches have tiers and confidences.
- `Once`: no entry is stored twice, none is collected twice, and what the walk has
  not reached is not collected. `INSERT OR IGNORE` compares a batch with the rows only;
  that two entries of one batch differ comes from the walk.
- `Seen`: a session that missed nothing has stored or collected all that it has
  reached and does not skip; `Shape` says that nothing else is ever stored or collected.
  With `Once` this is `ImportIsComplete`, when `left` is empty.
- `Paged`: every row up to `lastId` has its match. The keyset pages rely on it: the next
  page begins after `lastId`, and an empty page then means that no row is pending.
- `Indexed`: a matching phase works on the index of all stored sidecars, one that is
  not `partial` has seen them all, and the order of a folder's candidates is some list of
  its names without repetitions.
- `ByMatcher`: every match, of this session or an earlier one, is what the matcher answers for
  some of the folder's sidecars in some order, and for all of them as long as no session
  was `partial`. It survives later sessions because of `RowsAreKept`, and because
  the sidecars of a folder are the same for every session that missed none.

The last four theorems follow from `ByMatcher` and from what Matcher_proofs shows of
`find_best_match`:

- *Own sidecars.* The first two names of the first attempt are the file's own, and among
  the sure attempts of tier 3 those with the file's own number come first; the first
  attempt that hits wins.
- *Series.* Every name that tiers 1 to 5 look up begins with the letters of the file's name.
- *Distance.* The table of the edit distance, a recursive function, is zero for equal
  names only and never less than the difference of the lengths. So the pre-filter on
  lengths in front of it loses no candidate within the threshold.
- *The loop of tier 7* ends with the one nearest candidate or, if two are equally near, with
  nothing, whatever order the hash map gave. With the cut of tier 6, which asks for a
  single hit, this is `GuessesAreUnique`.
- *The index* has one sidecar per name unless two differ in case only; with that and the
  independence of the order, a match is that of a single pass.

Facts about the table and the loop need induction over data, which the library's induction
theorems do not give to these provers. They are proved by hand instead: the numbers for which a
fact holds form a set, which contains zero and with every number the next (lemmas `Induction`
and `Loop`, from the well-foundedness of the numbers). Recursion is therefore written with
recursive functions throughout.

### The outputs

`Outputs_proofs`, for any files, names, formats, files of earlier runs, number of tries and
of restarts (`OutputsAssumption`: real files have different paths, no name in use before
ends in `_dup_` and a time, the special values are no files).

| Theorem | Says |
|---|---|
| `OutputTypes` | `Spec => []TypeOK` |
| `OutputsKept` | `Spec => NothingOverwritten` |
| `OriginalsKept` | `Spec => []OriginalsSurvive` |
| `CompletedThere` | `Spec => []CompletedHasPicture` |
| `MetadataOwn` | `Spec => []MetadataIsOwn` |

The first lemma, `ResolvedIsFree`, is about `resolve_collision`: its answer is in the same
directory with the same extension and does not exist, also after 10 000 numbers.
The name made of the time is not looked up; it is free since all such names are of
earlier times (`Old`), which is why `Dated` is a part of the invariant. The others:

- `Mutex`: only the holder is between its search and its move. So what `Chosen` says,
  that the chosen name is still free, or holds the file's own incomplete copy, is not disturbed by
  another file's step.
- `Inputs`: in the user's directories there are only originals, and one that does not
  have its first name has the extension of its own format. A row that is resumed and
  finds a stranger at its path therefore never heals it again, which would be the
  second way to lose track of an original.
- `Carried`: out of place, the file a consumer works on is complete at `target`, in its own
  staging directory, until it has been moved.
- `Result`: the move ends with the complete picture at `dest`, and what is called completed
  has it in the right place (`Delivered`).
- `Unbroken`: in place and before any restart, the picture is where its consumer thinks.

`DiskSteps` says once what any step can do to the disk: every other path stays as it is,
apart from a staging directory, an original that is renamed and the copy being
made. Each part then needs few cases, and the parts about other files none (`StepOthers`).

### What is not proved

Every invariant and every action property that a passing run checks is also a theorem.
Model-checked only are:

- Liveness (`statedb_live`, `pipeline_flow`, and what `exiftool_pool` and
  `telemetry` say of ends), which is out of the prover's reach like everything with ENABLED.
- The two violations, which TLC shows.

No module with theorems needs recursive operators (`LastOf` of FileStatus chooses an index,
the matcher's loops are recursive functions).

## 5. What is left out

- The loss of power: the database runs in WAL mode with `synchronous = NORMAL`, so
  a power cut may undo committed transactions. Only the death of the process is
  modelled.
- In `LogMayFail` the log cannot be written: the code drops the outcome and answers
  Ok. The properties except this case; the ledger has it as `Forget`.
- A log shared by several runs (all databases lie in one directory with one
  `failed_batch.json`): StateDb models one run, Dispatcher no log.
- Queries for the user interface, the list of runs and the settings saved with a run.
- In Pipeline the names of files and in-place mode: its `outputs` counts complete copies.
  Outputs has names, places and incomplete copies, but neither channel nor cancel;
  the two are not composed.
- In Outputs a second process that writes to the same output directory: the mutex is one
  process's own. Two readings of the clock in nanoseconds are taken to differ. Rows that a
  later scan would add for renamed files; a file that somebody else removes or adds during
  a run; sources that cannot be copied to the staging directory (Pipeline has those);
  `create_dir_all` failing, which is a move that fails without the mutex.
- The contents of metadata and the arguments of exiftool.
- In Pipeline one archive; several are handled one after the other by the same loop.
- In Matcher a space before a number, a number that does not fit u32, a truncation
  inside a part. In Import inputs that contain one another: their entries are
  distinct paths.
- In ExifToolPool the reuse of a process identifier by the system, and the job
  object of Windows that kills the children of a dead parent.
- In Telemetry the texts, speed and remaining time, settings, filters and the log of
  activities; a start from the window while an earlier pipeline still winds down
  (Dispatcher and Pipeline have that).
- `UpdateSetting` and `UpdateResultsFilter`, which copy a value.
- Not modelled at all, since they are input and output or conversions without a
  protocol: downloader, parser, time zones, configuration, validation, logging,
  errors, power governor, widgets.

## 6. Plan

1. **Recovery log of several runs**, and the replay that meets newer rows
   (`state_db.rs:1058`, `:1076`), over the files of Dispatcher.
2. **Outputs and Pipeline composed**: that a file of Pipeline with an output is one of
   Outputs with its picture, as a refinement.
3. **Arithmetic** of the disk check against a reference.
4. **Downloader**, if it stays small.
