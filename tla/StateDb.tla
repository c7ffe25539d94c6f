------------------------------- MODULE StateDb -------------------------------
(***************************************************************************)
(* The state database (crates/core/src/state_db.rs): the rows of one run's *)
(* media_files table, the bounded channel of status updates, the writer    *)
(* thread with its batches, retries, fallback and dormant loop, flush and  *)
(* Drop, the recovery log failed_batch.json, and crashes of the process.   *)
(*                                                                         *)
(* Three kinds of thread run: the owner (the pipeline thread, which opens, *)
(* matches, claims, flushes and drops), one worker per claimed file (a     *)
(* rayon consumer that reports the file's outcome) and the writer.  Every  *)
(* action is one critical section on the connection's mutex, one channel   *)
(* operation, or one write of a line to the log.                           *)
(***************************************************************************)
EXTENDS FileStatus

CONSTANTS
    QueueCap,       \* capacity of the update channel (10 000 in the code)
    BatchCap,       \* most updates in one transaction (200)
    MaxRetries,     \* attempts at one transaction (15)
    LogMayFail,     \* may opening or appending to the log fail?
    MayTear,        \* may the process die inside the append of a line?
    MayPoison,      \* may a thread panic while it holds the connection?
    MaxSessions,    \* bound on how often the database is opened
    Outcomes        \* the outcomes that workers report

ASSUME StateDbAssumption ==
    /\ QueueCap \in Nat \ {0}
    /\ BatchCap \in Nat \ {0}
    /\ MaxRetries \in Nat \ {0}
    /\ MaxSessions \in Nat
    /\ LogMayFail \in BOOLEAN
    /\ MayTear \in BOOLEAN
    /\ MayPoison \in BOOLEAN
    /\ Outcomes \subseteq Terminal

VARIABLES
    \* on disk, surviving a crash
    status,      \* status[f]: the status column of file f's row
    confidence,  \* confidence[f]: the match_confidence column
    rlog,        \* the readable lines of failed_batch.json
    logEnd,      \* how it ends: "newline", or in a "readable" or a "garbled" line
    \* of the process
    owner,       \* what the owner thread is doing
    dropping,    \* is the owner inside Drop?
    worker,      \* worker[f]: the report of file f's outcome in this session
    outcome,     \* outcome[f]: the terminal status that worker reports
    channel,     \* the bounded channel to the writer
    isBroken,    \* the is_broken flag
    poisoned,    \* is the connection's mutex poisoned?
    reply,       \* what the writer answered to the last flush
    \* of the writer thread
    wpc,         \* where the writer is
    batch,       \* the updates it collected
    failed,      \* updates to write to the log (failed_items, recovery_items)
    retries,     \* failed attempts at the current transaction
    flushHeld,   \* has it taken a Flush message it must answer?
    termHeld,    \* has it taken the Terminate message?
    \* bookkeeping of the model
    barrier,     \* the files whose outcome was accepted before the last Flush
    sessions     \* how often the database was opened

recovery == <<rlog, logEnd>>
disk    == <<status, confidence, recovery>>
control == <<owner, dropping, sessions>>
reports == <<worker, outcome>>
link    == <<channel, isBroken, poisoned, reply>>
writer  == <<wpc, batch, failed, retries, flushHeld, termHeld>>
vars    == <<disk, control, reports, link, writer, barrier>>

OwnerPc  == {"closed", "idle", "flushSend", "flushWait", "termSend", "join", "replay", "unlink"}
WorkerPc == {"idle", "sending", "accepted", "refused"}
WriterPc == {"recv", "drain", "commit", "fallback", "broken", "answer", "dormant", "done"}

UpdateMsg(u) == [kind |-> "update", update |-> u]
FlushMsg     == [kind |-> "flush"]
TermMsg      == [kind |-> "terminate"]
Message      == {UpdateMsg(u) : u \in Update} \cup {FlushMsg, TermMsg}

(* The update that the worker of file f delivers. *)
Report(f) == [file |-> f, to |-> outcome[f]]

(* A channel that takes one message too many (a deviation, not the code). *)
HasRoomForOneMore == Len(channel) <= QueueCap

(* A blocking send waits until the channel has room. *)
HasRoom == Len(channel) < QueueCap

(* The writer keeps the connection locked from the first fallback statement *)
(* until the failed ones are in the log.                                    *)
ConnFree == wpc # "fallback"

TypeOK ==
    /\ status \in [Files -> Status]
    /\ confidence \in [Files -> Confidence]
    /\ rlog \in Seq(Update)
    /\ logEnd \in {"newline", "readable", "garbled"}
    /\ logEnd = "readable" => rlog # <<>>
    /\ owner \in OwnerPc
    /\ dropping \in BOOLEAN
    /\ sessions \in 0..MaxSessions
    /\ worker \in [Files -> WorkerPc]
    /\ outcome \in [Files -> Terminal]
    /\ channel \in Seq(Message)
    /\ Len(channel) <= QueueCap
    /\ isBroken \in BOOLEAN
    /\ poisoned \in BOOLEAN
    /\ reply \in {"none", "ok", "err"}
    /\ wpc \in WriterPc
    /\ batch \in Seq(Update)
    /\ Len(batch) <= BatchCap
    /\ failed \in Seq(Update)
    /\ retries \in 0..MaxRetries
    /\ flushHeld \in BOOLEAN
    /\ termHeld \in BOOLEAN
    /\ barrier \subseteq Files

Init ==
    /\ status = [f \in Files |-> "Pending"]
    /\ confidence = [f \in Files |-> Null]
    /\ rlog = <<>> /\ logEnd = "newline"
    /\ owner = "closed" /\ dropping = FALSE /\ sessions = 0
    /\ worker = [f \in Files |-> "idle"]
    /\ outcome = [f \in Files |-> "Completed"]
    /\ channel = <<>> /\ isBroken = FALSE /\ poisoned = FALSE /\ reply = "none"
    /\ wpc = "done" /\ batch = <<>> /\ failed = <<>> /\ retries = 0
    /\ flushHeld = FALSE /\ termHeld = FALSE
    /\ barrier = {}

-----------------------------------------------------------------------------
(* The owner thread.                                                        *)

(* What a new process has in memory: no reports, an empty channel, whole locks. *)
FreshMemory ==
    /\ dropping' = FALSE
    /\ worker' = [f \in Files |-> "idle"]
    /\ outcome' = [f \in Files |-> "Completed"]
    /\ channel' = <<>> /\ isBroken' = FALSE /\ poisoned' = FALSE /\ reply' = "none"
    /\ batch' = <<>> /\ failed' = <<>> /\ retries' = 0
    /\ flushHeld' = FALSE /\ termHeld' = FALSE
    /\ barrier' = {}

(* open: the writer starts and interrupted claims are handed back.  The     *)
(* dispatcher opens the database to run a pipeline, or to apply the log.    *)
Open(next) ==
    /\ owner = "closed" /\ sessions < MaxSessions
    /\ owner' = next
    /\ sessions' = sessions + 1
    /\ wpc' = "recv"
    /\ FreshMemory
    /\ status' = Restored(status, confidence)
    /\ UNCHANGED <<confidence, recovery>>

(* apply_match_batch with the results of every pending row: m[f] is the *)
(* confidence of the match of f.                                        *)
ApplyMatchBatch(m) ==
    /\ owner = "idle" /\ ConnFree
    /\ \E f \in Files : status[f] = "Pending"
    /\ status' = [f \in Files |-> IF status[f] = "Pending" THEN MatchStatus(m[f]) ELSE status[f]]
    /\ confidence' = [f \in Files |-> IF status[f] = "Pending" THEN m[f] ELSE confidence[f]]
    /\ UNCHANGED <<recovery, control, reports, link, writer, barrier>>

(* try_mark_batch_processing; processing starts once matching has ended. *)
ClaimBatch(S) ==
    /\ owner = "idle" /\ ConnFree
    /\ \A f \in Files : status[f] # "Pending"
    /\ status' = Claimed(status, S)
    /\ UNCHANGED <<confidence, recovery, control, reports, link, writer, barrier>>

(* flush: refused at once when the database is known to be broken. *)
FlushBegin ==
    /\ owner = "idle" /\ ~isBroken
    /\ owner' = "flushSend"
    /\ reply' = "none"
    /\ UNCHANGED <<disk, dropping, sessions, reports, channel, isBroken, poisoned, writer, barrier>>

(* Drop without its flush (a deviation, not the code). *)
DropWithoutFlush ==
    /\ owner = "idle"
    /\ \A f \in Files : worker[f] # "sending"
    /\ dropping' = TRUE
    /\ owner' = "termSend"
    /\ UNCHANGED <<disk, sessions, reports, link, writer, barrier>>

(* Drop begins once no worker holds the database any more; it flushes first. *)
DropBegin ==
    /\ owner = "idle"
    /\ \A f \in Files : worker[f] # "sending"
    /\ dropping' = TRUE
    /\ owner' = IF isBroken THEN "termSend" ELSE "flushSend"
    /\ reply' = "none"
    /\ UNCHANGED <<disk, sessions, reports, channel, isBroken, poisoned, writer, barrier>>

FlushSend ==
    /\ owner = "flushSend" /\ HasRoom
    /\ channel' = Append(channel, FlushMsg)
    /\ owner' = "flushWait"
    /\ barrier' = {f \in Files : worker[f] = "accepted"}
    /\ UNCHANGED <<disk, dropping, sessions, reports, isBroken, poisoned, reply, writer>>

FlushReturn ==
    /\ owner = "flushWait" /\ reply # "none"
    /\ owner' = IF dropping THEN "termSend" ELSE "idle"
    /\ UNCHANGED <<disk, dropping, sessions, reports, link, writer, barrier>>

(* The second look at is_broken, just before the send. *)
FlushRefused ==
    /\ owner = "flushSend" /\ isBroken
    /\ owner' = IF dropping THEN "termSend" ELSE "idle"
    /\ UNCHANGED <<disk, dropping, sessions, reports, link, writer, barrier>>

(* Terminate is sent even when the database is broken. *)
TermSend ==
    /\ owner = "termSend" /\ HasRoom
    /\ channel' = Append(channel, TermMsg)
    /\ owner' = "join"
    /\ UNCHANGED <<disk, dropping, sessions, reports, isBroken, poisoned, reply, writer, barrier>>

Join ==
    /\ owner = "join" /\ wpc = "done"
    /\ owner' = "closed"
    /\ UNCHANGED <<disk, dropping, sessions, reports, link, writer, barrier>>

(* apply_recovery_data: one transaction over the rows ... *)
ReplayLog ==
    /\ owner = "replay"
    /\ rlog # <<>> \/ logEnd # "newline"
    /\ status' = Applied(status, rlog)
    /\ owner' = "unlink"
    /\ UNCHANGED <<confidence, recovery, dropping, sessions, reports, link, writer, barrier>>

(* ... or none, if there is no log or the transaction fails ... *)
ReplayNothing ==
    /\ owner = "replay"
    /\ owner' = "flushSend" /\ dropping' = TRUE
    /\ UNCHANGED <<disk, sessions, reports, link, writer, barrier>>

(* ... and the log removed after it, unless that fails: the next replay then *)
(* repeats this one.  The caller drops the database next.                    *)
RemoveLog ==
    /\ owner = "unlink"
    /\ \/ rlog' = <<>> /\ logEnd' = "newline"
       \/ UNCHANGED recovery
    /\ owner' = "flushSend" /\ dropping' = TRUE
    /\ UNCHANGED <<status, confidence, sessions, reports, link, writer, barrier>>

-----------------------------------------------------------------------------
(* The workers.                                                             *)

(* enqueue_status_update reads is_broken before it sends. *)
ReportBegin(f, to) ==
    /\ owner \in {"idle", "flushSend", "flushWait"} /\ ~dropping
    /\ status[f] = "Processing" /\ worker[f] = "idle"
    /\ worker' = [worker EXCEPT ![f] = IF isBroken THEN "refused" ELSE "sending"]
    /\ outcome' = [outcome EXCEPT ![f] = to]
    /\ UNCHANGED <<disk, control, link, writer, barrier>>

ReportSend(f) ==
    /\ worker[f] = "sending" /\ HasRoom
    /\ channel' = Append(channel, UpdateMsg(Report(f)))
    /\ worker' = [worker EXCEPT ![f] = "accepted"]
    /\ UNCHANGED <<disk, control, outcome, isBroken, poisoned, reply, writer, barrier>>

-----------------------------------------------------------------------------
(* The writer thread (writer_loop).                                         *)

(* Takes the first message of the channel: an update joins the batch, the   *)
(* other two are remembered.                                                *)
TakeMessage ==
    LET m == Head(channel) IN
    /\ channel # <<>>
    /\ channel' = Tail(channel)
    /\ batch' = IF m.kind = "update" THEN Append(batch, m.update) ELSE batch
    /\ flushHeld' = (m.kind = "flush")
    /\ termHeld' = (m.kind = "terminate")

(* The blocking recv at the top of the loop. *)
Receive ==
    /\ wpc = "recv"
    /\ TakeMessage
    /\ wpc' = IF Head(channel).kind = "update" THEN "drain" ELSE "answer"
    /\ UNCHANGED <<disk, control, reports, isBroken, poisoned, reply, failed, retries, barrier>>

(* Draining that has a flush answered before its batch is committed (a      *)
(* deviation, not the code).                                                *)
DrainAnswersFlush ==
    /\ wpc = "drain" /\ Len(batch) < BatchCap
    /\ TakeMessage
    /\ wpc' = CASE Head(channel).kind = "update" -> "drain"
                [] Head(channel).kind = "flush"  -> "answer"
                [] OTHER                         -> "commit"
    /\ UNCHANGED <<disk, control, reports, isBroken, poisoned, reply, failed, retries, barrier>>

(* The try_recv loop: until the batch is full, the channel is empty or one  *)
(* of the other messages comes.                                             *)
Drain ==
    /\ wpc = "drain" /\ Len(batch) < BatchCap
    /\ TakeMessage
    /\ wpc' = IF Head(channel).kind = "update" THEN "drain" ELSE "commit"
    /\ UNCHANGED <<disk, control, reports, isBroken, poisoned, reply, failed, retries, barrier>>

DrainEnd ==
    /\ wpc = "drain"
    /\ channel = <<>> \/ Len(batch) = BatchCap
    /\ wpc' = "commit"
    /\ UNCHANGED <<disk, control, reports, link, batch, failed, retries, flushHeld, termHeld, barrier>>

(* One transaction over the whole batch commits. *)
Commit ==
    /\ wpc = "commit" /\ retries < MaxRetries /\ ~poisoned
    /\ status' = Applied(status, batch)
    /\ batch' = <<>>
    /\ retries' = 0
    /\ wpc' = "answer"
    /\ UNCHANGED <<confidence, recovery, control, reports, link, failed, flushHeld, termHeld, barrier>>

(* A failed attempt whose first statement stays (a deviation, not the code). *)
CommitFailsHalfway ==
    /\ wpc = "commit" /\ retries < MaxRetries /\ ~poisoned
    /\ status' = Applied(status, SubSeq(batch, 1, 1))
    /\ retries' = retries + 1
    /\ UNCHANGED <<confidence, recovery, control, reports, link, wpc, batch, failed, flushHeld, termHeld, barrier>>

(* An attempt fails and is rolled back; with the mutex poisoned each one does. *)
CommitFails ==
    /\ wpc = "commit" /\ retries < MaxRetries
    /\ retries' = retries + 1
    /\ UNCHANGED <<disk, control, reports, link, wpc, batch, failed, flushHeld, termHeld, barrier>>

(* No attempt is left: the statements are tried one by one. *)
Fallback ==
    /\ wpc = "commit" /\ retries = MaxRetries /\ ~poisoned
    /\ wpc' = "fallback"
    /\ retries' = 0
    /\ UNCHANGED <<disk, control, reports, link, batch, failed, flushHeld, termHeld, barrier>>

FallbackStatement ==
    /\ wpc = "fallback" /\ batch # <<>>
    /\ \/ status' = Applied(status, <<Head(batch)>>) /\ UNCHANGED failed
       \/ failed' = Append(failed, Head(batch)) /\ UNCHANGED status
    /\ batch' = Tail(batch)
    /\ UNCHANGED <<confidence, recovery, control, reports, link, wpc, retries, flushHeld, termHeld, barrier>>

(* The log with the text of u appended.  A line that a crash left without   *)
(* its newline swallows the text, and a reader skips the line they form.    *)
WithText(u) ==
    CASE logEnd = "newline"  -> Append(rlog, u)
      [] logEnd = "readable" -> SubSeq(rlog, 1, Len(rlog) - 1)
      [] logEnd = "garbled"  -> rlog

(* writeln! puts the line u into the log, or fails and is ignored. *)
LogLine(u) ==
    \/ rlog' = WithText(u) /\ logEnd' = "newline"
    \/ LogMayFail /\ UNCHANGED recovery

(* The line that the writer appends next is that of u. *)
NextLine(u) ==
    \/ /\ (wpc = "fallback" /\ batch = <<>>) \/ wpc = "broken"
       /\ failed # <<>>
       /\ u = Head(failed)
    \/ /\ wpc = "dormant" /\ channel # <<>>
       /\ Head(channel).kind = "update"
       /\ u = Head(channel).update

(* The lines of failed_items or of recovery_items, one by one. *)
ParkLine ==
    /\ wpc # "dormant"
    /\ \E u \in Update : NextLine(u) /\ LogLine(u)
    /\ failed' = Tail(failed)
    /\ UNCHANGED <<status, confidence, control, reports, link, wpc, batch, retries, flushHeld,
                   termHeld, barrier>>

FallbackEnd ==
    /\ wpc = "fallback" /\ batch = <<>> /\ failed = <<>>
    /\ wpc' = "answer"
    /\ UNCHANGED <<disk, control, reports, link, batch, failed, retries, flushHeld, termHeld, barrier>>

(* Giving up on a batch without moving it to the log (a deviation, not the code). *)
GiveUpForgets ==
    /\ wpc = "commit" /\ retries = MaxRetries /\ poisoned
    /\ isBroken' = TRUE
    /\ batch' = <<>>
    /\ retries' = 0
    /\ wpc' = "broken"
    /\ UNCHANGED <<disk, control, reports, channel, poisoned, reply, failed, flushHeld, termHeld, barrier>>

(* A poisoned mutex admits not even the fallback: the writer gives up and *)
(* moves the batch to the log.                                            *)
GiveUp ==
    /\ wpc = "commit" /\ retries = MaxRetries /\ poisoned
    /\ isBroken' = TRUE
    /\ failed' = batch
    /\ batch' = <<>>
    /\ retries' = 0
    /\ wpc' = "broken"
    /\ UNCHANGED <<disk, control, reports, channel, poisoned, reply, flushHeld, termHeld, barrier>>

(* Going dormant with the flush of the batch unanswered (a deviation, not the code). *)
GoDormantSilently ==
    /\ wpc = "broken" /\ failed = <<>>
    /\ flushHeld' = FALSE /\ termHeld' = FALSE
    /\ wpc' = "dormant"
    /\ UNCHANGED <<disk, control, reports, link, batch, failed, retries, barrier>>

(* A flush in the lost batch is answered; a Terminate in it is forgotten. *)
GoDormant ==
    /\ wpc = "broken" /\ failed = <<>>
    /\ reply' = IF flushHeld THEN "err" ELSE reply
    /\ flushHeld' = FALSE /\ termHeld' = FALSE
    /\ wpc' = "dormant"
    /\ UNCHANGED <<disk, control, reports, channel, isBroken, poisoned, batch, failed, retries, barrier>>

(* The dormant loop: updates go to the log, every flush is an error. *)
DormantReceive ==
    LET m == Head(channel) IN
    /\ wpc = "dormant" /\ channel # <<>>
    /\ channel' = Tail(channel)
    /\ IF m.kind = "update" THEN LogLine(m.update) ELSE UNCHANGED recovery
    /\ reply' = IF m.kind = "flush" THEN "err" ELSE reply
    /\ wpc' = IF m.kind = "terminate" THEN "done" ELSE "dormant"
    /\ UNCHANGED <<status, confidence, control, reports, isBroken, poisoned, batch, failed,
                   retries, flushHeld, termHeld, barrier>>

(* The end of an iteration: the flush is answered, and Terminate obeyed. *)
Answer ==
    /\ wpc = "answer"
    /\ reply' = IF flushHeld THEN "ok" ELSE reply
    /\ flushHeld' = FALSE /\ termHeld' = FALSE
    /\ wpc' = IF termHeld THEN "done" ELSE "recv"
    /\ UNCHANGED <<disk, control, reports, channel, isBroken, poisoned, batch, failed, retries, barrier>>

-----------------------------------------------------------------------------
(* The environment.                                                         *)

(* A thread panics while it holds the connection. *)
Poison ==
    /\ MayPoison /\ ~poisoned /\ owner = "idle" /\ ConnFree
    /\ poisoned' = TRUE
    /\ UNCHANGED <<disk, control, reports, channel, isBroken, reply, writer, barrier>>

(* The process dies: only what is on disk stays. *)
Crash ==
    /\ owner # "closed"
    /\ owner' = "closed"
    /\ wpc' = "done"
    /\ FreshMemory
    /\ UNCHANGED <<disk, sessions>>

(* It dies between the text of a log line and its newline. *)
CrashMidLine ==
    /\ MayTear
    /\ \E u \in Update : NextLine(u) /\ rlog' = WithText(u)
    /\ logEnd' = IF logEnd = "newline" THEN "readable" ELSE "garbled"
    /\ owner' = "closed"
    /\ wpc' = "done"
    /\ FreshMemory
    /\ UNCHANGED <<status, confidence, sessions>>

WriterStep ==
    \/ Receive \/ Drain \/ DrainEnd
    \/ Commit \/ CommitFails \/ Fallback \/ FallbackStatement \/ ParkLine \/ FallbackEnd
    \/ GiveUp \/ GoDormant \/ DormantReceive \/ Answer

OwnerStep ==
    \/ FlushBegin \/ FlushSend \/ FlushRefused \/ FlushReturn
    \/ DropBegin \/ TermSend \/ Join
    \/ ReplayLog \/ ReplayNothing \/ RemoveLog

Next ==
    \/ \E next \in {"idle", "replay"} : Open(next)
    \/ \E m \in [Files -> Confidence] : ApplyMatchBatch(m)
    \/ \E S \in SUBSET Files : ClaimBatch(S)
    \/ \E f \in Files, to \in Outcomes : ReportBegin(f, to)
    \/ \E f \in Files : ReportSend(f)
    \/ OwnerStep
    \/ WriterStep
    \/ Poison
    \/ Crash \/ CrashMidLine

Spec == Init /\ [][Next]_vars

(* Threads that can run do run: the writer, a worker about to send, and the *)
(* owner inside a flush or Drop.  Nothing forces a report, a claim, a flush *)
(* or a Drop to begin.                                                      *)
Fairness ==
    /\ WF_vars(WriterStep)
    /\ WF_vars(FlushSend \/ FlushRefused \/ FlushReturn \/ TermSend \/ Join)
    /\ WF_vars(\E f \in Files : ReportSend(f))

FairSpec == Spec /\ Fairness

-----------------------------------------------------------------------------
(* Properties.                                                              *)

(* The accepted outcomes that are neither in a row nor in the log yet. *)
InFlight ==
    {m.update : m \in {n \in Held(channel) : n.kind = "update"}} \cup Held(batch) \cup Held(failed)

(* An outcome is safe when its row stores it or the recovery log holds it. *)
Safe(f) == status[f] = outcome[f] \/ Report(f) \in Held(rlog)

(* An outcome that the database accepted from a worker stays in flight or   *)
(* safe; in particular no append to the recovery log costs more than the    *)
(* line that a crash cut short.                                             *)
AcceptedIsKept ==
    \A f \in Files : worker[f] = "accepted" => Report(f) \in InFlight \/ Safe(f)

(* Whatever interleaving of workers, batches, failed transactions, fallback *)
(* and poisoning happens, an accepted outcome is kept, as long as the log   *)
(* can be written and no crash cuts a line of it.                           *)
NothingForgotten == ~LogMayFail /\ ~MayTear => AcceptedIsKept

(* A flush that returned Ok is a barrier: all outcomes accepted before it   *)
(* was sent are safe, those that failed in their batch included.            *)
FlushBarrier ==
    ~LogMayFail /\ ~MayTear /\ reply = "ok" => \A f \in barrier : Safe(f)

(* A row that can be claimed shows what the matcher decided, however many   *)
(* claims and crashes came in between: recovery recomputes it from the      *)
(* confidence column alone.                                                 *)
ClaimableAsMatched ==
    \A f \in Files : status[f] \in Claimable => status[f] = MatchStatus(confidence[f])

(* No step but the replay of a recovery log changes a terminal status: no   *)
(* late batch, second claim or restart takes a finished file back.          *)
TerminalIsFinal ==
    [][owner # "replay" =>
        \A f \in Files : status[f] \in Terminal => status'[f] = status[f]]_vars

(* Every flush is answered, whatever becomes of the writer meanwhile. *)
FlushReturns == owner = "flushWait" ~> owner # "flushWait"

(* Drop returns: the writer gets its Terminate and is joined. *)
DropReturns == dropping ~> ~dropping \/ owner = "closed"

(* The promise of StatusLedger, with the channel and the writer hidden. *)
Ledger == INSTANCE StatusLedger WITH
    live     <- owner # "closed",
    inflight <- InFlight,
    parked   <- Held(rlog)

ImplementsLedger == Ledger!LedgerSpec
=============================================================================
