----------------------------- MODULE Telemetry ------------------------------
(***************************************************************************)
(* What the user is shown of a run: the pipeline and the dispatcher        *)
(* publish events on a Broadcaster (crates/core/src/events.rs), whose      *)
(* bounded queue drops what does not fit; an updater thread applies them   *)
(* to a view model (crates/shared_ui/src/updater.rs, view_models.rs) and   *)
(* now and then puts a snapshot into a watch channel (watch.rs), of which  *)
(* the command line or the window sees the latest one only.  The command   *)
(* line (crates/app/src/main.rs) leaves its loop on a finished snapshot,   *)
(* joins the pipeline thread and prints the last snapshot.                 *)
(*                                                                         *)
(* The pipeline is reduced to the events it publishes and their order      *)
(* (crates/app/src/lib.rs, processor.rs, scanner.rs).  Time is left out: a *)
(* debounce interval may or may not have passed.                           *)
(***************************************************************************)
EXTENDS Naturals, Sequences, FiniteSetsExt

CONSTANTS
    Cap,       \* events the queue of a subscriber holds (10,000)
    Total,     \* files of a run
    MaxRuns,   \* bound on the runs started from the window
    MaxClicks, \* bound on the other things the user does there
    MaxNotes   \* bound on the warnings, errors and statistics published

ASSUME TelemetryAssumption ==
    Cap \in Nat \ {0} /\ Total \in Nat /\ MaxRuns \in Nat \ {0} /\ MaxClicks \in Nat /\ MaxNotes \in Nat

VARIABLES
    front,     \* the front end: the command line or the window
    at,        \* where the pipeline thread is
    restoring, \* has a consumer announced the restoring phase?
    files,     \* files the pipeline has reported in this run
    notes,     \* warnings, errors and statistics it has published
    runs,      \* runs started
    clicks,    \* cancels and resets
    cancel,    \* the cancel token
    queue,     \* the subscriber's channel
    vm,        \* the updater's view model
    shown,     \* the value of the watch channel
    fresh,     \* has it changed since the command line looked?
    cli,       \* where the main thread of the command line is
    printed,   \* the snapshot it prints at the end
    truth      \* what really happened

pipeline == <<at, restoring, files, notes, runs>>
updater  == <<vm, shown, fresh>>
main     == <<cli, printed>>
vars     == <<front, pipeline, clicks, cancel, queue, updater, main, truth>>

Phases == {"Resuming", "Scanning", "Processing", "Restoring"}
Event ==
    [kind : {"phase"}, name : Phases, total : {0, Total}]
    \cup [kind : {"file"}, status : {"ok", "error"}]
    \cup [kind : {"error"}, fatal : BOOLEAN]
    \cup [kind : {"stats"}, completed : 0..Total]
    \cup [kind : {"warning", "completed", "cancelled", "reset"}]

(* The fields of the view model that the front ends decide on, and counts. *)
Model == [processing : BOOLEAN, finished : BOOLEAN, started : BOOLEAN, errors : BOOLEAN,
          terminal : {"idle", "running", "completed", "completed_with_issues", "failed", "cancelled"},
          ok : Nat, other : Nat, completed : Nat, total : Nat]
NewModel == [processing |-> FALSE, finished |-> FALSE, started |-> FALSE, errors |-> FALSE,
             terminal |-> "idle", ok |-> 0, other |-> 0, completed |-> 0, total |-> 0]

TypeOK ==
    /\ front \in {"cli", "gui"}
    /\ at \in {"idle", "setup", "scan", "scanned", "work", "end", "failing", "over"}
    /\ restoring \in BOOLEAN
    /\ files \in 0..Total /\ notes \in 0..MaxNotes /\ runs \in 0..MaxRuns /\ clicks \in 0..MaxClicks
    /\ cancel \in BOOLEAN /\ fresh \in BOOLEAN
    /\ queue \in Seq(Event) /\ Len(queue) <= Cap
    /\ vm \in Model /\ shown \in Model /\ printed \in Model
    /\ vm.completed <= vm.total /\ ~(vm.processing /\ vm.finished)
    /\ cli \in {"none", "loop", "join", "print", "exit"}
    /\ truth \in [ok : 0..Total, other : 0..Total, erred : BOOLEAN, fatal : BOOLEAN,
                  cancelled : BOOLEAN, dropped : BOOLEAN, unended : BOOLEAN, phase : BOOLEAN]

Init ==
    /\ front \in {"cli", "gui"}
    /\ at = "idle" /\ restoring = FALSE /\ files = 0 /\ notes = 0 /\ runs = 0 /\ clicks = 0 /\ cancel = FALSE
    /\ queue = <<>> /\ vm = NewModel /\ shown = NewModel /\ fresh = FALSE
    /\ cli = (IF front = "cli" THEN "loop" ELSE "none") /\ printed = NewModel
    /\ truth = [ok |-> 0, other |-> 0, erred |-> FALSE, fatal |-> FALSE, cancelled |-> FALSE,
                dropped |-> FALSE, unended |-> FALSE, phase |-> FALSE]

-----------------------------------------------------------------------------
(* The bus.                                                                 *)

Phase(name)   == [kind |-> "phase", name |-> name,
                  total |-> IF name \in {"Processing", "Restoring"} THEN Total ELSE 0]
File(status)  == [kind |-> "file", status |-> status]
Err(fatal)    == [kind |-> "error", fatal |-> fatal]
Stats(n)      == [kind |-> "stats", completed |-> n]
Plain(kind)   == [kind |-> kind]

(* What really happened, told by the event that reports it. *)
Happened(e) ==
    LET t == [truth EXCEPT !.dropped = @ \/ Len(queue) = Cap] IN
    CASE e.kind = "phase"     -> [t EXCEPT !.phase = TRUE]
      [] e.kind = "file"      -> IF e.status = "ok" THEN [t EXCEPT !.ok = @ + 1]
                                 ELSE [t EXCEPT !.other = @ + 1, !.erred = TRUE]
      [] e.kind = "error"     -> [t EXCEPT !.erred = TRUE, !.fatal = @ \/ e.fatal]
      [] e.kind = "warning"   -> [t EXCEPT !.erred = TRUE]
      [] e.kind = "cancelled" -> [t EXCEPT !.cancelled = TRUE, !.phase = FALSE]
      [] e.kind = "completed" -> [t EXCEPT !.phase = FALSE]
      [] e.kind = "reset"     -> [t EXCEPT !.erred = FALSE]
      [] OTHER                -> t

(* try_send to the subscriber: a full queue drops the event, whatever it is. *)
Queued(e)  == IF Len(queue) < Cap THEN Append(queue, e) ELSE queue
Publish(e) == queue' = Queued(e) /\ truth' = Happened(e)

-----------------------------------------------------------------------------
(* The pipeline thread and its events.                                      *)

Becomes(next) == at' = next
Quiet == UNCHANGED <<front, runs, clicks, cancel, updater, main>>

SetupDone ==
    /\ at = "setup" /\ Becomes("scan")
    /\ Publish(Phase("Scanning"))
    /\ UNCHANGED <<restoring, files, notes>> /\ Quiet

(* Settings, exiftool, the lock, the database, the scan, the matching, the *)
(* disk check or the last flush: run_core_pipeline returns an error.       *)
Fails ==
    /\ at \in {"setup", "scan", "scanned", "work"} /\ Becomes("failing")
    /\ Publish(Err(TRUE))
    /\ UNCHANGED <<restoring, files, notes>> /\ Quiet

(* Warnings of the scan, and its statistics. *)
ScanNote(e) ==
    /\ at = "scan" /\ notes < MaxNotes
    /\ e \in {Plain("warning"), Stats(Total)}
    /\ notes' = notes + 1 /\ Publish(e)
    /\ UNCHANGED <<at, restoring, files>> /\ Quiet

(* The run was cancelled in the scan or the matching: it ends without a word. *)
ScanCancelled ==
    /\ at = "scan" /\ cancel /\ Becomes("over")
    /\ truth' = [truth EXCEPT !.unended = @ \/ truth.phase]
    /\ UNCHANGED <<restoring, files, notes, queue>> /\ Quiet

(* It was not, when the pipeline looked; then the next phase is announced. *)
ScanDone ==
    /\ at = "scan" /\ ~cancel /\ Becomes("scanned")
    /\ UNCHANGED <<restoring, files, notes, queue, truth>> /\ Quiet

ProcessingStarts ==
    /\ at = "scanned" /\ Becomes("work")
    /\ Publish(Phase("Processing"))
    /\ UNCHANGED <<restoring, files, notes>> /\ Quiet

(* The first consumer to swap restoration_started publishes, be it after   *)
(* another has reported its file.                                          *)
AnnounceRestoring ==
    /\ at = "work" /\ ~restoring /\ restoring' = TRUE
    /\ Publish(Phase("Restoring"))
    /\ UNCHANGED <<at, files, notes>> /\ Quiet

ReportFile(status) ==
    /\ at = "work" /\ files < Total /\ files' = files + 1
    /\ Publish(File(status))
    /\ UNCHANGED <<at, restoring, notes>> /\ Quiet

(* Auto-heal warns, the extraction counts, a status update fails fatally. *)
WorkNote(e) ==
    /\ at = "work" /\ notes < MaxNotes
    /\ e \in {Plain("warning"), Err(TRUE), Err(FALSE)} \cup {Stats(n) : n \in 1..Total}
    /\ notes' = notes + 1 /\ Publish(e)
    /\ UNCHANGED <<at, restoring, files>> /\ Quiet

(* The disk fills up during the extraction: an error, and then the token. *)
DiskFull ==
    /\ at = "work" /\ notes < MaxNotes
    /\ notes' = notes + 1 /\ Publish(Err(TRUE)) /\ cancel' = TRUE
    /\ UNCHANGED <<at, restoring, files, front, runs, clicks, updater, main>>

(* Producer and consumers are done; a file can end without an event. *)
WorkDone ==
    /\ at = "work"
    /\ IF cancel THEN Becomes("end") /\ Publish(Plain("cancelled"))
                 ELSE Becomes("end") /\ UNCHANGED <<queue, truth>>
    /\ UNCHANGED <<restoring, files, notes>> /\ Quiet

(* A failure that is not followed by RunCompleted (a deviation, not the code). *)
RunCompletedOnSuccess ==
    /\ at \in {"end", "failing"} /\ Becomes("over")
    /\ IF at = "end" THEN Publish(Plain("completed")) ELSE UNCHANGED <<queue, truth>>
    /\ UNCHANGED <<restoring, files, notes>> /\ Quiet

(* Cancelled or not, failed or not, the last event is RunCompleted. *)
RunCompleted ==
    /\ at \in {"end", "failing"} /\ Becomes("over")
    /\ Publish(Plain("completed"))
    /\ UNCHANGED <<restoring, files, notes>> /\ Quiet

PipelineStep ==
    \/ SetupDone \/ Fails \/ ScanCancelled \/ ScanDone \/ ProcessingStarts
    \/ AnnounceRestoring \/ WorkDone \/ RunCompleted \/ DiskFull
    \/ \E status \in {"ok", "error"} : ReportFile(status)
    \/ \E e \in Event : ScanNote(e) \/ WorkNote(e)

-----------------------------------------------------------------------------
(* The user.  The window offers what the snapshot it shows permits; the     *)
(* command line starts one run and is interrupted once.                     *)

(* A start, after the announcement of a resumed run. *)
Start(resumed) ==
    /\ at \in {"idle", "over"} /\ ~shown.processing
    /\ IF front = "cli" THEN runs = 0 /\ ~resumed ELSE runs < MaxRuns
    /\ at' = "setup" /\ runs' = runs + 1
    /\ restoring' = FALSE /\ files' = 0
    /\ LET t == IF resumed THEN Happened(Phase("Resuming")) ELSE truth
       IN  truth' = [t EXCEPT !.ok = 0, !.other = 0, !.fatal = FALSE, !.cancelled = FALSE]
    /\ queue' = IF resumed THEN Queued(Phase("Resuming")) ELSE queue
    /\ cancel' = (cancel /\ ~resumed)
    /\ UNCHANGED <<front, notes, clicks, updater, main>>

Click == clicks < MaxClicks /\ clicks' = clicks + 1

Cancel ==
    /\ runs > 0
    /\ IF front = "cli" THEN ~cancel /\ UNCHANGED clicks ELSE shown.processing /\ Click
    /\ cancel' = TRUE
    /\ Publish(Plain("cancelled"))
    /\ UNCHANGED <<front, pipeline, updater, main>>

(* New Restore: the state is reset, also under a pipeline that winds down. *)
Reset ==
    /\ front = "gui" /\ shown.finished /\ Click
    /\ cancel' = FALSE
    /\ Publish(Plain("reset"))
    /\ UNCHANGED <<front, pipeline, updater, main>>

-----------------------------------------------------------------------------
(* The updater thread.                                                      *)

Done(m) == m.ok + m.other

ApplyFile(m, e) ==
    LET total == Max({m.total, m.completed + 1})
        c     == IF e.status = "ok" THEN [m EXCEPT !.ok = @ + 1]
                 ELSE [m EXCEPT !.other = @ + 1, !.errors = TRUE]
    IN  [c EXCEPT !.total = total, !.completed = Min({Done(c), total})]

ApplyPhase(m, e) ==
    [m EXCEPT !.processing = TRUE, !.finished = FALSE, !.terminal = "running", !.started = TRUE,
              !.completed = IF e.name = "Restoring" /\ ~m.started THEN 0 ELSE @,
              !.total = Max({@, e.total})]

(* An error that leaves no trace but the terminal state (a deviation, not the code). *)
ApplyErrorForgetful(m, e) ==
    IF e.fatal THEN [m EXCEPT !.terminal = "failed", !.processing = FALSE, !.finished = TRUE]
    ELSE [m EXCEPT !.terminal = "failed"]

ApplyError(m, e) ==
    LET f == [m EXCEPT !.errors = TRUE, !.terminal = "failed"]
    IN  IF e.fatal THEN [f EXCEPT !.processing = FALSE, !.finished = TRUE] ELSE f

ApplyStats(m, e) ==
    LET total == Max({Total, e.completed, m.total})
    IN  [m EXCEPT !.total = total, !.completed = Min({Max({e.completed, Done(m)}), total})]

ApplyCompleted(m) ==
    [m EXCEPT !.processing = FALSE, !.finished = TRUE, !.completed = m.total,
              !.terminal = IF @ = "failed" THEN @
                           ELSE IF m.errors THEN "completed_with_issues" ELSE "completed"]

(* apply_event *)
Apply(m, e) ==
    CASE e.kind = "phase"     -> ApplyPhase(m, e)
      [] e.kind = "file"      -> ApplyFile(m, e)
      [] e.kind = "error"     -> ApplyError(m, e)
      [] e.kind = "warning"   -> [m EXCEPT !.errors = TRUE, !.terminal = "completed_with_issues"]
      [] e.kind = "stats"     -> ApplyStats(m, e)
      [] e.kind = "completed" -> ApplyCompleted(m)
      [] e.kind = "cancelled" -> [m EXCEPT !.processing = FALSE, !.finished = TRUE,
                                           !.terminal = "cancelled"]
      [] e.kind = "reset"     -> NewModel

(* Debounced snapshots: these are published at once. *)
AtOnce(e) == e.kind \in {"completed", "cancelled", "phase"}

(* The window decides on two fields only, the rest is left out there.       *)
Snapshot(m) == IF front = "cli" THEN m
               ELSE [NewModel EXCEPT !.processing = m.processing, !.finished = m.finished]

Send(m) == shown' = Snapshot(m) /\ fresh' = (front = "cli")

Update ==
    /\ queue # <<>>
    /\ queue' = Tail(queue)
    /\ LET e == Head(queue)
           m == Apply(vm, e)
       IN  /\ vm' = m
           /\ \/ Send(m)
              \/ ~AtOnce(e) /\ UNCHANGED <<shown, fresh>>
    /\ UNCHANGED <<front, pipeline, clicks, cancel, main, truth>>

(* No event came for 250 ms. *)
UpdateIdle ==
    /\ queue = <<>> /\ vm.processing
    /\ Send(vm)
    /\ UNCHANGED <<front, pipeline, clicks, cancel, queue, vm, main, truth>>

-----------------------------------------------------------------------------
(* The command line looks at the latest value: wait_changed.  The window    *)
(* shows it as soon as it is there.                                         *)

Look ==
    /\ fresh /\ cli = "loop"
    /\ fresh' = FALSE
    /\ cli' = IF shown.finished THEN "join" ELSE cli
    /\ UNCHANGED <<front, pipeline, clicks, cancel, queue, vm, shown, printed, truth>>

(* join_pipeline waits for the pipeline thread ... *)
Join ==
    /\ cli = "join" /\ at = "over" /\ cli' = "print"
    /\ UNCHANGED <<front, pipeline, clicks, cancel, queue, updater, printed, truth>>

(* ... and the last snapshot is borrowed and printed. *)
PrintSummary ==
    /\ cli = "print" /\ cli' = "exit"
    /\ printed' = shown
    /\ UNCHANGED <<front, pipeline, clicks, cancel, queue, updater, truth>>

UpdaterStep == Update \/ UpdateIdle
MainStep    == Look \/ Join \/ PrintSummary

Next ==
    \/ cli # "exit" /\ (PipelineStep \/ UpdaterStep \/ MainStep \/ Cancel \/ Reset)
    \/ cli # "exit" /\ \E resumed \in BOOLEAN : Start(resumed)

Spec == Init /\ [][Next]_vars

(* All threads are scheduled; the phases of the pipeline end (Pipeline).    *)
FairSpec == Spec /\ WF_vars(cli # "exit" /\ PipelineStep) /\ WF_vars(cli # "exit" /\ UpdaterStep)
                 /\ WF_vars(cli # "exit" /\ MainStep)

-----------------------------------------------------------------------------
(* Properties.                                                              *)

(* What the command line prints of a run that was not cancelled, met no     *)
(* fatal error and lost no event is what happened, although snapshots are   *)
(* debounced, overwritten and read long after the events.                   *)
SummaryIsExact ==
    cli = "exit" /\ ~(truth.cancelled \/ truth.fatal \/ truth.dropped) =>
        /\ at = "over"
        /\ printed.ok = truth.ok /\ printed.other = truth.other
        /\ printed.errors = truth.erred

(* A run is never called a clean success when an error or a warning was     *)
(* reported since the last reset and no event was lost - even if it was     *)
(* cancelled, failed or went through further phases afterwards.             *)
SuccessIsClean ==
    queue = <<>> /\ vm.terminal = "completed" => ~truth.erred \/ truth.dropped

(* The command line returns when the pipeline has ended, and the window     *)
(* offers a new start, unless events were lost, or the cancelled pipeline   *)
(* had announced a phase after the cancel and ended without a word.         *)
EndIsShown ==
    at = "over" ~>
        IF front = "cli" THEN cli = "exit" \/ truth.dropped \/ truth.unended
        ELSE ~shown.processing \/ truth.dropped \/ truth.unended
=============================================================================
