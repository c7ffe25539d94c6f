------------------------------ MODULE Pipeline ------------------------------
(***************************************************************************)
(* The processing of a run (crates/core/src/processor.rs, driven by        *)
(* run_core_pipeline of crates/app/src/lib.rs) with copied outputs: the    *)
(* pipeline thread claims batches of matched files and stages them, a      *)
(* bounded channel takes the staged files to a pool of consumers, and each *)
(* consumer writes the metadata, moves the file to its output directory    *)
(* and reports the outcome to the state database.  The user cancels and    *)
(* pauses; the process crashes and the run is resumed.                     *)
(*                                                                         *)
(* The database is the one that StatusLedger promises (StateDb implements  *)
(* it): an action here conjoins the action of the ledger that it causes,   *)
(* and the writer's work is left to the ledger.                            *)
(***************************************************************************)
EXTENDS StatusLedger

CONSTANTS
    ZipFiles,          \* the files that come out of the archive
    ChannelCap,        \* capacity of the channel to the consumers (256)
    Workers,           \* consumers at work at a time
    BatchSize,         \* files claimed at a time (1000)
    UnmatchedEnabled,  \* the setting unmatched_enabled
    MayBreak,          \* may the database break or a claim fail?
    MayPark,           \* may an outcome end up in the recovery log?
    MayPause,          \* may the user pause the run?
    MayUncancel,       \* may the dispatcher reset the cancel token of a running pipeline?
    MaxSessions,       \* bound on how often the run is opened
    MaxCrashes         \* bound on the crashes

ASSUME PipelineAssumption ==
    /\ ZipFiles \subseteq Files
    /\ ChannelCap \in Nat \ {0}
    /\ Workers \in Nat \ {0}
    /\ BatchSize \in Nat \ {0}
    /\ UnmatchedEnabled \in BOOLEAN
    /\ MayBreak \in BOOLEAN /\ MayPark \in BOOLEAN
    /\ MayPause \in BOOLEAN /\ MayUncancel \in BOOLEAN
    /\ MaxSessions \in Nat /\ MaxCrashes \in Nat

VARIABLES
    \* on disk
    staged,     \* staged[f]: is f's copy in the staging directory of the run?
    outputs,    \* outputs[f]: its copies in the output directories
    \* the pipeline thread
    pc,         \* where it is
    loaded,     \* the files with an id up to last_id
    todo,       \* the claimed files of the batch not staged yet
    current,    \* the set holding the file it is sending
    \* shared
    channel,    \* the staged files on their way to the consumers
    cancel,     \* the cancel token
    pause,      \* the pause token
    broken,     \* does the database refuse updates?
    \* the consumers
    job,        \* job[f]: how far the processing of f is in this session
    \* what the user interface was told in this session
    shown,      \* shown[f]: the status of f's FileProcessed event
    result,     \* how the pipeline ended
    \* bookkeeping of the model
    sessions,
    crashes

storage  == <<staged, outputs>>
producer == <<pc, loaded, todo, current, result>>
tokens   == <<cancel, pause>>
count    == <<sessions, crashes>>
pipeVars == <<storage, producer, channel, tokens, broken, job, shown, count>>
vars     == <<ledgerVars, pipeVars>>

Pc  == {"closed", "matching", "start", "load", "real", "archive", "zip", "zipError", "send", "join",
        "flush", "replay", "unlink", "done"}
Job == {"none", "queued", "dropped", "waiting", "working", "delivered", "failed", "stranded", "done"}

(* The files that occupy a consumer. *)
Busy == {f \in Files : job[f] \in {"waiting", "working", "delivered", "failed"}}

TypeOK ==
    /\ status \in [Files -> Status]
    /\ confidence \in [Files -> Confidence]
    /\ live \in BOOLEAN
    /\ inflight \subseteq Update
    /\ parked \subseteq Update
    /\ staged \in [Files -> BOOLEAN]
    /\ outputs \in [Files -> 0..MaxSessions]
    /\ pc \in Pc
    /\ loaded \subseteq Files /\ todo \subseteq loaded
    /\ current \subseteq Files
    /\ channel \in Seq(Files) /\ Len(channel) <= ChannelCap
    /\ cancel \in BOOLEAN /\ pause \in BOOLEAN /\ broken \in BOOLEAN
    /\ job \in [Files -> Job]
    /\ Cardinality(Busy) <= Workers
    /\ shown \in [Files -> Terminal \cup {"none"}]
    /\ result \in {"none", "completed", "cancelled", "failed"}
    /\ sessions \in 0..MaxSessions /\ crashes \in 0..MaxCrashes

Everywhere(x) == [f \in Files |-> x]

Init ==
    /\ LedgerInit
    /\ staged = Everywhere(FALSE) /\ outputs = Everywhere(0)
    /\ pc = "closed" /\ loaded = {} /\ todo = {} /\ current = {} /\ result = "none"
    /\ channel = <<>>
    /\ cancel = FALSE /\ pause = FALSE /\ broken = FALSE
    /\ job = Everywhere("none") /\ shown = Everywhere("none")
    /\ sessions = 0 /\ crashes = 0

-----------------------------------------------------------------------------
(* Telling the database and the user interface what became of a file.       *)

(* enqueue_status_update: the database accepts the outcome, or a broken one *)
(* refuses it.                                                              *)
Enqueue(f, to) ==
    IF broken THEN UNCHANGED ledgerVars ELSE Accept([file |-> f, to |-> to])

(* A refused update is a fatal error that cancels the run. *)
CancelIfRefused == cancel' = (cancel \/ broken)

(* The FileProcessed event. *)
Show(f, to) == shown' = [shown EXCEPT ![f] = to]

-----------------------------------------------------------------------------
(* Sessions: run_core_pipeline up to the processing phase.                  *)

(* Nothing is left of the last session but what is on disk. *)
FreshProcess ==
    /\ loaded' = {} /\ todo' = {} /\ current' = {} /\ result' = "none"
    /\ channel' = <<>>
    /\ cancel' = FALSE /\ pause' = FALSE /\ broken' = FALSE
    /\ job' = Everywhere("none") /\ shown' = Everywhere("none")

(* The dispatcher opens the run to process it, or to apply its recovery log. *)
Open(next) ==
    /\ pc = "closed" /\ sessions < MaxSessions
    /\ next = "replay" => parked # {}
    /\ Begin
    /\ pc' = next
    /\ sessions' = sessions + 1
    /\ FreshProcess
    /\ UNCHANGED <<storage, crashes>>

(* The run ends in the way r. *)
Finish(r) ==
    /\ pc' = "done"
    /\ result' = r
    /\ UNCHANGED <<loaded, todo, current>>

(* The pipeline thread goes on at next. *)
GoTo(next) ==
    /\ pc' = next
    /\ UNCHANGED <<loaded, todo, current, result>>

(* Cancelled while it scanned the inputs. *)
CancelledScan ==
    /\ pc = "matching" /\ cancel
    /\ Finish("cancelled")
    /\ UNCHANGED <<ledgerVars, storage, channel, tokens, broken, job, shown, count>>

(* run_matching_phase: every pending file gets its match. *)
MatchFiles(m) ==
    /\ pc = "matching"
    /\ Match(m)
    /\ GoTo("start")
    /\ UNCHANGED <<storage, channel, tokens, broken, job, shown, count>>

(* cleanup_staging, and the sweep of the run's staging directory at the start. *)
SweepStaging == staged' = Everywhere(FALSE) /\ UNCHANGED outputs

(* Loading or storing the matches fails: the processor is dropped, which sweeps. *)
MatchFails ==
    /\ MayBreak /\ pc = "matching"
    /\ Finish("failed")
    /\ SweepStaging
    /\ UNCHANGED <<ledgerVars, channel, tokens, broken, job, shown, count>>

(* The beginning of run_processing_phase.  A cancelled run and one that the *)
(* disk check refuses drop the processor, which sweeps as well.             *)
StartProcessing ==
    /\ pc = "start"
    /\ \/ cancel /\ Finish("cancelled")
       \/ ~cancel /\ (GoTo("load") \/ Finish("failed"))
    /\ SweepStaging
    /\ UNCHANGED <<ledgerVars, channel, tokens, broken, job, shown, count>>

-----------------------------------------------------------------------------
(* The producer.                                                            *)

(* The rows that load_ready_media_batch selects. *)
Ready == {f \in Files \ loaded : status[f] \in Claimable}

(* load_ready_media_batch and try_mark_batch_processing *)
LoadBatch(S) ==
    /\ pc = "load" /\ ~cancel
    /\ S \subseteq Ready /\ S # {}
    /\ Cardinality(S) = BatchSize \/ (S = Ready /\ Cardinality(S) <= BatchSize)
    /\ Take(S)
    /\ loaded' = loaded \cup S
    /\ todo' = S
    /\ pc' = "real"
    /\ UNCHANGED <<current, result, storage, channel, tokens, broken, job, shown, count>>

(* Loading or claiming fails: a fatal error. *)
LoadFails ==
    /\ MayBreak /\ pc = "load" /\ ~cancel
    /\ cancel' = TRUE
    /\ GoTo("join")
    /\ UNCHANGED <<ledgerVars, storage, channel, pause, broken, job, shown, count>>

(* A producer that stops only at the end of the list (a deviation, not the code). *)
LoadEndUncancelled ==
    /\ pc = "load" /\ Ready = {}
    /\ GoTo("join")
    /\ UNCHANGED <<ledgerVars, storage, channel, tokens, broken, job, shown, count>>

(* The producer is done: it drops its end of the channel. *)
LoadEnd ==
    /\ pc = "load"
    /\ cancel \/ Ready = {}
    /\ GoTo("join")
    /\ UNCHANGED <<ledgerVars, storage, channel, tokens, broken, job, shown, count>>

(* A real file is copied into the staging directory and renamed there ... *)
CopyFile(f) ==
    /\ pc = "real" /\ ~cancel
    /\ f \in todo \ ZipFiles
    /\ staged' = [staged EXCEPT ![f] = TRUE]
    /\ todo' = todo \ {f}
    /\ current' = {f}
    /\ pc' = "send"
    /\ UNCHANGED <<ledgerVars, outputs, loaded, result, channel, tokens, broken, job, shown, count>>

(* ... or cannot be: an Error that no event shows. *)
CopyFails(f) ==
    /\ pc = "real" /\ ~cancel
    /\ f \in todo \ ZipFiles
    /\ Enqueue(f, "Error")
    /\ CancelIfRefused
    /\ todo' = todo \ {f}
    /\ UNCHANGED <<pc, loaded, current, result, storage, channel, pause, broken, job, shown, count>>

RealEnd ==
    /\ pc = "real"
    /\ cancel \/ todo \subseteq ZipFiles
    /\ pc' = "archive"
    /\ todo' = todo \cap ZipFiles
    /\ UNCHANGED <<ledgerVars, loaded, current, result, storage, channel, tokens, broken, job, shown,
                   count>>

(* The archive opens, or every file of the batch in it becomes an Error. *)
OpenArchive ==
    /\ pc = "archive" /\ ~cancel /\ todo # {}
    /\ \E next \in {"zip", "zipError"} : GoTo(next)
    /\ UNCHANGED <<ledgerVars, storage, channel, tokens, broken, job, shown, count>>

(* An unreadable archive that is extracted nevertheless (a deviation, not the code). *)
ArchiveFailsOnly(f) ==
    /\ pc = "zipError" /\ f \in todo
    /\ Enqueue(f, "Error")
    /\ CancelIfRefused
    /\ Show(f, "Error")
    /\ GoTo("zip")
    /\ UNCHANGED <<storage, channel, pause, broken, job, count>>

(* A file of the unreadable archive; this loop does not look at cancel. *)
ArchiveFails(f) ==
    /\ pc = "zipError" /\ f \in todo
    /\ Enqueue(f, "Error")
    /\ CancelIfRefused
    /\ Show(f, "Error")
    /\ todo' = todo \ {f}
    /\ UNCHANGED <<pc, loaded, current, result, storage, channel, pause, broken, job, count>>

(* A file is extracted to the staging directory.  When the disk runs low    *)
(* the run is cancelled, and the file sent nevertheless.                    *)
ExtractFile(f) ==
    /\ pc = "zip" /\ ~cancel /\ f \in todo
    /\ staged' = [staged EXCEPT ![f] = TRUE]
    /\ cancel' \in BOOLEAN
    /\ todo' = todo \ {f}
    /\ current' = {f}
    /\ pc' = "send"
    /\ UNCHANGED <<ledgerVars, outputs, loaded, result, channel, pause, broken, job, shown, count>>

(* An entry cannot be extracted.  Here a refused update does not cancel. *)
ExtractFails(f) ==
    /\ pc = "zip" /\ ~cancel /\ f \in todo
    /\ Enqueue(f, "Error")
    /\ Show(f, "Error")
    /\ todo' = todo \ {f}
    /\ UNCHANGED <<pc, loaded, current, result, storage, channel, tokens, broken, job, count>>

(* The batch is over, or the rest of it is left claimed. *)
BatchEnd ==
    /\ \/ pc \in {"archive", "zip"} /\ (cancel \/ todo = {})
       \/ pc = "zipError" /\ todo = {}
    /\ pc' = "load"
    /\ todo' = {}
    /\ UNCHANGED <<ledgerVars, loaded, current, result, storage, channel, tokens, broken, job, shown,
                   count>>

(* An unbounded channel (a deviation, not the code). *)
SendWithoutRoom(f) ==
    /\ pc = "send" /\ f \in current
    /\ channel' = Append(channel, f)
    /\ job' = [job EXCEPT ![f] = "queued"]
    /\ current' = {}
    /\ pc' = IF f \in ZipFiles THEN "zip" ELSE "real"
    /\ UNCHANGED <<ledgerVars, loaded, todo, result, storage, tokens, broken, shown, count>>

(* The blocking send to the consumers. *)
Send(f) ==
    /\ pc = "send" /\ f \in current
    /\ Len(channel) < ChannelCap
    /\ channel' = Append(channel, f)
    /\ job' = [job EXCEPT ![f] = "queued"]
    /\ current' = {}
    /\ pc' = IF f \in ZipFiles THEN "zip" ELSE "real"
    /\ UNCHANGED <<ledgerVars, loaded, todo, result, storage, tokens, broken, shown, count>>

(* Ending before the consumers do (a deviation, not the code). *)
JoinEarly ==
    /\ pc = "join"
    /\ IF cancel THEN Finish("cancelled") ELSE GoTo("flush")
    /\ SweepStaging
    /\ UNCHANGED <<ledgerVars, channel, tokens, broken, job, shown, count>>

(* Not looking at the cancel token at the end (a deviation, not the code). *)
JoinWithoutCancel ==
    /\ pc = "join" /\ channel = <<>> /\ Busy = {}
    /\ GoTo("flush")
    /\ SweepStaging
    /\ UNCHANGED <<ledgerVars, channel, tokens, broken, job, shown, count>>

(* The scope ends when the consumers have emptied the channel. *)
Join ==
    /\ pc = "join" /\ channel = <<>> /\ Busy = {}
    /\ IF cancel THEN Finish("cancelled") ELSE GoTo("flush")
    /\ SweepStaging
    /\ UNCHANGED <<ledgerVars, channel, tokens, broken, job, shown, count>>

(* A flush whose error is ignored (a deviation, not the code). *)
FlushUnchecked ==
    /\ pc = "flush" /\ inflight = {}
    /\ Finish("completed")
    /\ UNCHANGED <<ledgerVars, storage, channel, tokens, broken, job, shown, count>>

(* The flush of the database (FlushBarrier of StateDb): after Ok nothing    *)
(* is in flight; a broken database is an error.                             *)
Flush ==
    /\ pc = "flush"
    /\ \/ ~broken /\ inflight = {} /\ Finish("completed")
       \/ broken /\ Finish("failed")
    /\ UNCHANGED <<ledgerVars, storage, channel, tokens, broken, job, shown, count>>

(* The database is dropped; that waits for what is in flight. *)
Close ==
    /\ pc = "done"
    /\ End
    /\ GoTo("closed")
    /\ UNCHANGED <<storage, channel, tokens, broken, job, shown, count>>

-----------------------------------------------------------------------------
(* The consumers.                                                           *)

(* Advances the job of f. *)
Advance(f, to) == job' = [job EXCEPT ![f] = to]

(* A consumer takes the next file; in a cancelled run it drops it. *)
TakeItem ==
    LET f == Head(channel) IN
    /\ channel # <<>> /\ Cardinality(Busy) < Workers
    /\ channel' = Tail(channel)
    /\ Advance(f, IF cancel THEN "dropped" ELSE "waiting")
    /\ UNCHANGED <<ledgerVars, storage, producer, tokens, broken, shown, count>>

(* A pause loop that does not look at cancel (a deviation, not the code). *)
PauseOverUncancelled(f) ==
    /\ job[f] = "waiting" /\ ~pause
    /\ Advance(f, "working")
    /\ UNCHANGED <<ledgerVars, storage, producer, channel, tokens, broken, shown, count>>

(* The pause loop; a cancel ends it, and the file is processed. *)
PauseOver(f) ==
    /\ job[f] = "waiting"
    /\ ~pause \/ cancel
    /\ Advance(f, "working")
    /\ UNCHANGED <<ledgerVars, storage, producer, channel, tokens, broken, shown, count>>

(* Files without a match are skipped when the settings say so. *)
IsSkipped(f) == confidence[f] = Null /\ ~UnmatchedEnabled

SkipFile(f) ==
    /\ job[f] = "working" /\ IsSkipped(f)
    /\ staged' = [staged EXCEPT ![f] = FALSE]
    /\ Enqueue(f, "Skipped")
    /\ CancelIfRefused
    /\ Show(f, "Skipped")
    /\ Advance(f, "done")
    /\ UNCHANGED <<outputs, producer, channel, pause, broken, count>>

(* process_metadata succeeds, or there is no metadata, and                 *)
(* move_to_output_subdir moves the file under a name of its own.           *)
DeliverFile(f) ==
    /\ job[f] = "working" /\ ~IsSkipped(f)
    /\ staged' = [staged EXCEPT ![f] = FALSE]
    /\ outputs' = [outputs EXCEPT ![f] = @ + 1]
    /\ Advance(f, "delivered")
    /\ UNCHANGED <<ledgerVars, producer, channel, tokens, broken, shown, count>>

(* The metadata cannot be written or the file not moved.  It goes to the    *)
(* Errors directory; if not even that works it stays in the staging.        *)
FailFile(f) ==
    /\ job[f] = "working" /\ ~IsSkipped(f)
    /\ \E stays \in BOOLEAN : staged' = [staged EXCEPT ![f] = stays]
    /\ Advance(f, "failed")
    /\ UNCHANGED <<ledgerVars, outputs, producer, channel, tokens, broken, shown, count>>

(* An output that is not verified (a deviation, not the code). *)
VerifyNothing(f) ==
    /\ job[f] = "delivered" /\ outputs[f] > 0
    /\ outputs' = [outputs EXCEPT ![f] = @ - 1]
    /\ UNCHANGED <<ledgerVars, staged, producer, channel, tokens, broken, job, shown, count>>

(* The output is gone when it is verified: somebody removed it. *)
VerifyFails(f) ==
    /\ job[f] = "delivered"
    /\ outputs' = [outputs EXCEPT ![f] = @ - 1]
    /\ Advance(f, "failed")
    /\ UNCHANGED <<ledgerVars, staged, producer, channel, tokens, broken, shown, count>>

(* A cancel that is obeyed after the file was moved (a deviation, not the code). *)
CompleteUnlessCancelled(f) ==
    /\ job[f] = "delivered"
    /\ IF cancel
       THEN UNCHANGED <<ledgerVars, cancel, shown>>
       ELSE Enqueue(f, "Completed") /\ CancelIfRefused /\ Show(f, "Completed")
    /\ Advance(f, "done")
    /\ UNCHANGED <<storage, producer, channel, pause, broken, count>>

(* The outcome of a delivered file is reported. *)
CompleteFile(f) ==
    /\ job[f] = "delivered"
    /\ Enqueue(f, "Completed")
    /\ CancelIfRefused
    /\ Show(f, "Completed")
    /\ Advance(f, "done")
    /\ UNCHANGED <<storage, producer, channel, pause, broken, count>>

(* That of a failed one, too; what stayed in the staging is left there. *)
ReportError(f) ==
    /\ job[f] = "failed"
    /\ Enqueue(f, "Error")
    /\ CancelIfRefused
    /\ Show(f, "Error")
    /\ Advance(f, IF staged[f] THEN "stranded" ELSE "done")
    /\ UNCHANGED <<storage, producer, channel, pause, broken, count>>

-----------------------------------------------------------------------------
(* Recovery of the log, the database, the user and crashes.                 *)

(* apply_recovery_data runs the logged updates in one transaction, or fails. *)
ReplayRows ==
    /\ pc = "replay"
    /\ \/ Replay /\ GoTo("unlink")
       \/ UNCHANGED ledgerVars /\ GoTo("done")
    /\ UNCHANGED <<storage, channel, tokens, broken, job, shown, count>>

(* It removes the log last; if that fails the next replay repeats this one. *)
RemoveLog ==
    /\ pc = "unlink"
    /\ Unlink \/ UNCHANGED ledgerVars
    /\ GoTo("done")
    /\ UNCHANGED <<storage, channel, tokens, broken, job, shown, count>>

(* The writer's work. *)
Database ==
    /\ \/ \E S \in SUBSET inflight : S # {} /\ Settle(S)
       \/ MayPark /\ \E u \in inflight : Park(u)
    /\ UNCHANGED pipeVars

Break ==
    /\ MayBreak /\ live /\ ~broken
    /\ broken' = TRUE
    /\ UNCHANGED <<ledgerVars, storage, producer, channel, tokens, job, shown, count>>

Running == pc \notin {"closed", "replay", "unlink", "done"}

Cancel ==
    /\ Running /\ ~cancel
    /\ cancel' = TRUE
    /\ UNCHANGED <<ledgerVars, storage, producer, channel, pause, broken, job, shown, count>>

TogglePause ==
    /\ MayPause /\ Running
    /\ pause' = ~pause
    /\ UNCHANGED <<ledgerVars, storage, producer, channel, cancel, broken, job, shown, count>>

(* ResetState, or ResumeRun of another run: both reset the tokens before    *)
(* anything asks whether a pipeline is running.                             *)
Uncancel ==
    /\ MayUncancel /\ Running /\ cancel
    /\ cancel' = FALSE /\ pause' = FALSE
    /\ UNCHANGED <<ledgerVars, storage, producer, channel, broken, job, shown, count>>

Crash ==
    /\ pc # "closed" /\ crashes < MaxCrashes
    /\ Die
    /\ pc' = "closed"
    /\ crashes' = crashes + 1
    /\ FreshProcess
    /\ UNCHANGED <<storage, sessions>>

ProducerStep ==
    \/ StartProcessing \/ LoadEnd \/ RealEnd \/ OpenArchive \/ BatchEnd \/ Join \/ Flush
    \/ \E S \in SUBSET Files : LoadBatch(S)
    \/ \E f \in Files : CopyFile(f) \/ CopyFails(f) \/ ArchiveFails(f) \/ ExtractFile(f)
                        \/ ExtractFails(f) \/ Send(f)

ConsumerStep(f) ==
    \/ PauseOver(f) \/ SkipFile(f) \/ DeliverFile(f) \/ FailFile(f) \/ VerifyFails(f)
    \/ CompleteFile(f) \/ ReportError(f)

Next ==
    \/ \E next \in {"matching", "replay"} : Open(next)
    \/ CancelledScan
    \/ \E m \in [Files -> Confidence] : MatchFiles(m)
    \/ MatchFails
    \/ ProducerStep
    \/ LoadFails
    \/ TakeItem
    \/ \E f \in Files : ConsumerStep(f)
    \/ Close
    \/ ReplayRows \/ RemoveLog
    \/ Database \/ Break
    \/ Cancel \/ TogglePause \/ Uncancel
    \/ Crash

Spec == Init /\ [][Next]_vars

(* The producer, the consumers and the writer of the database run whenever  *)
(* they can (exiftool answers or times out).  Nothing forces the user.      *)
Fairness ==
    /\ WF_vars(\E m \in [Files -> Confidence] : MatchFiles(m))
    /\ WF_vars(ProducerStep)
    /\ WF_vars(TakeItem)
    /\ \A f \in Files : WF_vars(ConsumerStep(f))
    /\ WF_vars(Database)

FairSpec == Spec /\ Fairness

-----------------------------------------------------------------------------
(* Properties.                                                              *)

(* Whoever is going to report an outcome of f. *)
MayReport(f) == f \in todo \cup current \cup Busy \/ job[f] = "queued"

(* What the database relies on: a file has one reporter at a time, and as   *)
(* long as it has one the file's row is claimed and no outcome of it is on  *)
(* its way.  Otherwise Accept would not be enabled and the model would      *)
(* hide a second report.                                                    *)
ReportsAreOwned ==
    \A f \in Files : MayReport(f) =>
        /\ status[f] = "Processing"
        /\ \A u \in inflight : u.file # f
        /\ Cardinality({i \in DOMAIN channel : channel[i] = f}) <= 1

(* No row, no outcome on its way and no line of the log calls a file        *)
(* completed before its output exists, whatever crashed in between.         *)
CompletedHasOutput ==
    \A f \in Files :
        status[f] = "Completed" \/ [file |-> f, to |-> "Completed"] \in inflight \cup parked
        => outputs[f] > 0

(* With a database that works, cancelling and resuming a run any number of  *)
(* times writes an output once; only a crash can repeat it, once each.      *)
DeliveredOnce ==
    ~MayBreak /\ ~MayPark => \A f \in Files : outputs[f] <= 1 + crashes

(* A run that ends without an error and without being cancelled has left    *)
(* every file with an outcome, in its row or in the recovery log.           *)
CompletedIsComplete ==
    result = "completed" =>
        \A f \in Files : status[f] \in Terminal \/ \E u \in parked : u.file = f

(* A cancel aborts the session: once a consumer has dropped a file because  *)
(* the run was cancelled, no consumer takes up another file.                *)
CancelAborts ==
    [][(\E g \in Files : job[g] = "dropped") =>
          \A f \in Files : job'[f] = "waiting" => job[f] = "waiting"]_vars

(* What the user was shown of a file in such a run is what is stored of it, *)
(* even if updates were refused on the way.                                 *)
ShownIsStored ==
    result = "completed" =>
        \A f \in Files : shown[f] # "none" =>
            status[f] = shown[f] \/ [file |-> f, to |-> shown[f]] \in parked

(* A consumer works on a file that is in the staging directory: no sweep    *)
(* and no other file's end takes it away.                                   *)
WorkIsStaged ==
    \A f \in Files : f \in current \/ job[f] \in {"queued", "waiting", "working"} => staged[f]

(* The channel bounds the disk space of the staging directory: while the    *)
(* producer is at work it holds the files in the channel, one per consumer  *)
(* and the one being sent, besides those that a cancelled or failing file   *)
(* leaves to the sweep; what an earlier session left is gone.               *)
StagingBounded ==
    pc \in {"load", "real", "archive", "zip", "zipError", "send", "join"} =>
        Cardinality({f \in Files : staged[f] /\ job[f] \notin {"dropped", "failed", "stranded"}})
            <= ChannelCap + Workers + 1

(* A cancelled run ends: nobody waits for the channel, a pause or another   *)
(* thread for ever.                                                         *)
CancelEnds == Running /\ cancel ~> ~Running \/ ~cancel

(* A run ends unless the user pauses it. *)
RunEnds == Running ~> ~Running \/ pause
=============================================================================
