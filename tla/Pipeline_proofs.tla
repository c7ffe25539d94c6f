--------------------------- MODULE Pipeline_proofs ---------------------------
(***************************************************************************)
(* Proofs about Pipeline: who reports a file, what is in the staging and   *)
(* the output directories, and what a run that completed has achieved, for *)
(* any number of files, consumers, sessions and crashes.                   *)
(***************************************************************************)
EXTENDS Pipeline, FiniteSetTheorems, TLAPS

-----------------------------------------------------------------------------
(* The inductive invariant, part by part.                                   *)

(* While the producer and the consumers are at work, and while a batch is. *)
AtWork   == {"load", "real", "archive", "zip", "zipError", "send", "join"}
Batching == {"real", "archive", "zip", "zipError", "send"}

(* A file that was sent and of which no outcome was reported. *)
Unfinished == {"queued", "waiting", "working", "delivered", "failed"}

LedgerShape ==
    /\ status \in [Files -> Status] /\ confidence \in [Files -> Confidence]
    /\ live \in BOOLEAN
    /\ inflight \subseteq Update /\ parked \subseteq Update

RunShape ==
    /\ pc \in Pc
    /\ loaded \subseteq Files /\ todo \subseteq loaded /\ current \subseteq Files
    /\ cancel \in BOOLEAN /\ pause \in BOOLEAN /\ broken \in BOOLEAN
    /\ result \in {"none", "completed", "cancelled", "failed"}
    /\ sessions \in 0..MaxSessions /\ crashes \in 0..MaxCrashes

FileShape ==
    /\ staged \in [Files -> BOOLEAN] /\ shown \in [Files -> Terminal \cup {"none"}]
    /\ channel \in Seq(Files) /\ Len(channel) <= ChannelCap
    /\ job \in [Files -> Job]

BusyBound == IsFiniteSet(Busy) /\ Cardinality(Busy) <= Workers

(* An outcome in flight is the only one of its file, whose row is claimed. *)
Unsettled ==
    /\ live <=> pc # "closed"
    /\ ~live => inflight = {}
    /\ \A u \in inflight : status[u.file] = "Processing"
    /\ \A u, v \in inflight : u.file = v.file => u = v

(* What the producer and the consumers hold in which phase. *)
Stages ==
    /\ pc \notin Batching => todo = {}
    /\ pc # "send" => current = {}
    /\ \A f, g \in current : f = g
    /\ pc \notin AtWork => channel = <<>> /\ \A f \in Files : job[f] \notin Unfinished

(* A file is with the producer, in the channel or beyond it, once. *)
OnePlace ==
    /\ \A f \in Files : job[f] # "none" => f \in loaded
    /\ current \subseteq loaded
    /\ \A f \in todo \cup current : job[f] = "none"
    /\ todo \cap current = {}
    /\ \A f \in Files : job[f] = "queued" => \E i \in DOMAIN channel : channel[i] = f
    /\ \A i \in DOMAIN channel : job[channel[i]] = "queued"
    /\ \A i, j \in DOMAIN channel : channel[i] = channel[j] => i = j

(* Whoever may report a file has it claimed, and nobody has reported it. *)
Reserved ==
    \A f \in Files : MayReport(f) => status[f] = "Processing" /\ \A u \in inflight : u.file # f

(* What is in the staging directory has a reason to be there. *)
StagedOnly ==
    pc \in AtWork => \A f \in Files : staged[f] =>
        \/ f \in current
        \/ job[f] \in {"queued", "waiting", "working", "dropped", "failed", "stranded"}

(* A session delivers a file once. *)
Counted ==
    /\ outputs \in [Files -> Nat]
    /\ \A f \in Files :
          /\ outputs[f] <= sessions
          /\ pc # "closed" /\ job[f] \in {"none", "queued", "dropped", "waiting", "working"} =>
                outputs[f] < sessions
          /\ job[f] = "delivered" => outputs[f] > 0

(* A row, an outcome on its way or a line of the log gives f the status s. *)
StoredAs(f, s) == status[f] = s \/ [file |-> f, to |-> s] \in inflight \cup parked

(* The output of a file that is called completed is not the one that is   *)
(* about to be verified, and may be lost.                                  *)
HasOutput ==
    \A f \in Files : StoredAs(f, "Completed") => outputs[f] > IF job[f] = "delivered" THEN 1 ELSE 0

(* With a database that works, a file that was written in this process is   *)
(* finished, or about to be.                                                *)
WrittenOnce ==
    ~MayBreak /\ ~MayPark =>
        /\ ~broken /\ parked = {}
        /\ \A f \in Files :
              /\ outputs[f] <= 1 + crashes
              /\ \/ outputs[f] <= crashes
                 \/ job[f] \in {"delivered", "failed"}
                 \/ status[f] \in Terminal \/ \E u \in inflight : u.file = f

HasOutcome(f) == status[f] \in Terminal \/ \E u \in inflight \cup parked : u.file = f

(* What is not loaded yet can be, or is finished. *)
RowsReady ==
    /\ pc \in {"matching", "start"} => loaded = {}
    /\ pc = "matching" => \A f \in Files : status[f] # "Processing"
    /\ pc \in AtWork \cup {"start"} =>
          \A f \in Files \ loaded : status[f] \in Claimable \cup Terminal

(* Unless the run is cancelled the producer leaves no file unloaded ... *)
AllLoaded == pc = "join" /\ ~cancel => \A f \in Files \ loaded : status[f] \notin Claimable

(* ... somebody has each file that it loaded, or it has its outcome ... *)
Accounted ==
    pc \in AtWork /\ ~cancel /\ ~broken => \A f \in loaded : MayReport(f) \/ HasOutcome(f)

(* ... and all have theirs before the last flush. *)
AllReported == pc = "flush" /\ ~broken => \A f \in Files : HasOutcome(f)

(* A completed run is over: nothing is in flight. *)
Ended == result = "completed" => inflight = {} /\ pc \in {"done", "closed"}

(* What was shown is what is or will be stored, as long as the database works. *)
ShownKept ==
    /\ pc \in {"replay", "unlink"} => \A f \in Files : shown[f] = "none"
    /\ ~broken => \A f \in Files : shown[f] # "none" => StoredAs(f, shown[f])

-----------------------------------------------------------------------------
(* The ledger.                                                              *)

(* The rows that store outcomes: each shows what it did, or an outcome of   *)
(* its file.                                                                *)
LEMMA RowsAfterFacts ==
    ASSUME status \in [Files -> Status], NEW S \in SUBSET Update, NEW st \in RowsAfter(S)
    PROVE  /\ st \in [Files -> Status]
           /\ \A f \in Files : \/ st[f] = status[f] /\ \A u \in S : u.file # f
                               \/ \E u \in S : u.file = f /\ st[f] = u.to
<1>1. PICK r \in [{u.file : u \in S} -> Terminal] :
         /\ \A f \in DOMAIN r : [file |-> f, to |-> r[f]] \in S
         /\ st = [f \in Files |-> IF f \in DOMAIN r THEN r[f] ELSE status[f]]
  BY DEF RowsAfter
<1>2. st \in [Files -> Status]
  BY <1>1 DEF Status
<1>3. ASSUME NEW f \in Files, f \in DOMAIN r
      PROVE  \E u \in S : u.file = f /\ st[f] = u.to
  <2>1. [file |-> f, to |-> r[f]] \in S
    BY <1>1, <1>3
  <2>. QED  BY <1>1, <1>3, <2>1
<1>4. ASSUME NEW f \in Files, f \notin DOMAIN r
      PROVE  st[f] = status[f] /\ \A u \in S : u.file # f
  BY <1>1, <1>4
<1>. QED  BY <1>2, <1>3, <1>4

(* What the writer does to the rows and to the flight. *)
LEMMA SettleFacts ==
    ASSUME LedgerShape, NEW S \in SUBSET inflight, Settle(S)
    PROVE  /\ status' \in [Files -> Status] /\ inflight' = inflight \ S
           /\ UNCHANGED <<confidence, live, parked>>
           /\ \A f \in Files : \/ status'[f] = status[f] /\ \A u \in S : u.file # f
                               \/ \E u \in S : u.file = f /\ status'[f] = u.to
<1>1. S \in SUBSET Update /\ status' \in RowsAfter(S) /\ status \in [Files -> Status]
  BY DEF LedgerShape, Settle
<1>. QED  BY <1>1, RowsAfterFacts DEF Settle

(* What a replay does to the rows. *)
LEMMA ReplayFacts ==
    ASSUME LedgerShape, Replay
    PROVE  /\ status' \in [Files -> Status] /\ inflight = {}
           /\ UNCHANGED <<confidence, live, inflight, parked>>
           /\ \A f \in Files : \/ status'[f] = status[f] /\ \A u \in parked : u.file # f
                               \/ \E u \in parked : u.file = f /\ status'[f] = u.to
<1>1. parked \in SUBSET Update /\ status' \in RowsAfter(parked) /\ status \in [Files -> Status]
  BY DEF LedgerShape, Replay
<1>. QED  BY <1>1, RowsAfterFacts DEF Replay

(* The rows of a database that is opened. *)
LEMMA BeginFacts ==
    ASSUME LedgerShape, Begin
    PROVE  /\ status' \in [Files -> Status]
           /\ \A f \in Files : IF status[f] = "Processing" THEN status'[f] \in Claimable
                               ELSE status'[f] = status[f]
<1>1. /\ status' = Restored(status, confidence)
      /\ status \in [Files -> Status] /\ confidence \in [Files -> Confidence]
  BY DEF LedgerShape, Begin
<1>2. \A f \in Files : RecoveryStatus(confidence[f]) \in Claimable
  BY DEF RecoveryStatus, Claimable
<1>. QED  BY <1>1, <1>2 DEF Restored, Status

(* The rows of a matched run. *)
LEMMA MatchFacts ==
    ASSUME LedgerShape, NEW m \in [Files -> Confidence], Match(m)
    PROVE  /\ status' \in [Files -> Status] /\ confidence' \in [Files -> Confidence]
           /\ \A f \in Files : IF status[f] = "Pending" THEN status'[f] \in Claimable
                               ELSE status'[f] = status[f]
<1>1. \A f \in Files : MatchStatus(m[f]) \in Claimable
  BY DEF MatchStatus, Claimable
<1>. QED  BY <1>1 DEF LedgerShape, Match, Status

(* The rows of claimed files. *)
LEMMA TakeFacts ==
    ASSUME LedgerShape, NEW S \in SUBSET Files, Take(S)
    PROVE  /\ status' \in [Files -> Status]
           /\ \A f \in Files : status'[f] = IF f \in S /\ status[f] \in Claimable THEN "Processing"
                                            ELSE status[f]
BY DEF LedgerShape, Take, Claimed, Status

(* Every step of the pipeline is one that the database promises, or none. *)
LEMMA LedgerStep ==
    ASSUME LedgerShape, [Next]_vars
    PROVE  [LedgerNext]_ledgerVars
<1>. SUFFICES ASSUME Next PROVE LedgerNext \/ UNCHANGED ledgerVars
  BY DEF vars
<1>1. ASSUME NEW next \in {"matching", "replay"}, Open(next)
      PROVE  LedgerNext \/ UNCHANGED ledgerVars
  BY <1>1 DEF Open, LedgerNext
<1>2. ASSUME NEW m \in [Files -> Confidence], MatchFiles(m)
      PROVE  LedgerNext \/ UNCHANGED ledgerVars
  BY <1>2 DEF MatchFiles, LedgerNext
<1>3. ASSUME NEW S \in SUBSET Files, LoadBatch(S)
      PROVE  LedgerNext \/ UNCHANGED ledgerVars
  BY <1>3 DEF LoadBatch, LedgerNext
<1>4. ASSUME NEW f \in Files, CopyFails(f)
      PROVE  LedgerNext \/ UNCHANGED ledgerVars
  BY <1>4 DEF CopyFails, Enqueue, Update, Terminal, LedgerNext
<1>5. ASSUME NEW f \in Files, ArchiveFails(f)
      PROVE  LedgerNext \/ UNCHANGED ledgerVars
  BY <1>5 DEF ArchiveFails, Enqueue, Update, Terminal, LedgerNext
<1>6. ASSUME NEW f \in Files, ExtractFails(f)
      PROVE  LedgerNext \/ UNCHANGED ledgerVars
  BY <1>6 DEF ExtractFails, Enqueue, Update, Terminal, LedgerNext
<1>7. ASSUME NEW f \in Files, SkipFile(f)
      PROVE  LedgerNext \/ UNCHANGED ledgerVars
  BY <1>7 DEF SkipFile, Enqueue, Update, Terminal, LedgerNext
<1>8. ASSUME NEW f \in Files, CompleteFile(f)
      PROVE  LedgerNext \/ UNCHANGED ledgerVars
  BY <1>8 DEF CompleteFile, Enqueue, Update, Terminal, LedgerNext
<1>9. ASSUME NEW f \in Files, ReportError(f)
      PROVE  LedgerNext \/ UNCHANGED ledgerVars
  BY <1>9 DEF ReportError, Enqueue, Update, Terminal, LedgerNext
<1>10. CASE Close
  BY <1>10 DEF Close, LedgerNext
<1>11. CASE ReplayRows
  BY <1>11 DEF ReplayRows, LedgerNext, ledgerVars
<1>12. CASE RemoveLog
  BY <1>12 DEF RemoveLog, LedgerNext, ledgerVars
<1>13. CASE Database
  BY <1>13 DEF Database, LedgerShape, LedgerNext
<1>14. CASE Crash
  BY <1>14 DEF Crash, LedgerNext
<1>15. CASE \/ CancelledScan \/ MatchFails \/ StartProcessing \/ LoadFails \/ LoadEnd
            \/ RealEnd \/ OpenArchive \/ BatchEnd \/ Join \/ Flush \/ TakeItem \/ Break
            \/ Cancel \/ TogglePause \/ Uncancel
            \/ \E f \in Files : CopyFile(f) \/ ExtractFile(f) \/ Send(f) \/ PauseOver(f)
            \/ \E f \in Files : DeliverFile(f) \/ FailFile(f) \/ VerifyFails(f)
  BY <1>15 DEF CancelledScan, MatchFails, StartProcessing, LoadFails, LoadEnd, CopyFile, RealEnd,
       OpenArchive, ExtractFile, BatchEnd, Send, Join, Flush, TakeItem, PauseOver, DeliverFile,
       FailFile, VerifyFails, Break, Cancel, TogglePause, Uncancel
<1>. QED
  BY <1>1, <1>2, <1>3, <1>4, <1>5, <1>6, <1>7, <1>8, <1>9, <1>10, <1>11, <1>12, <1>13, <1>14,
     <1>15
     DEF Next, ProducerStep, ConsumerStep

(* The ledger keeps its types. *)
LEMMA LedgerShapeStep ==
    ASSUME LedgerShape, [LedgerNext]_ledgerVars
    PROVE  LedgerShape'
<1>1. CASE UNCHANGED ledgerVars
  BY <1>1 DEF LedgerShape, ledgerVars
<1>2. CASE Begin
  BY <1>2, BeginFacts DEF LedgerShape, Begin
<1>3. CASE End \/ Die \/ Unlink
  BY <1>3 DEF LedgerShape, End, Die, Unlink
<1>4. CASE Replay
  BY <1>4, ReplayFacts DEF LedgerShape
<1>5. ASSUME NEW m \in [Files -> Confidence], Match(m)
      PROVE  LedgerShape'
  BY <1>5, MatchFacts DEF LedgerShape, Match
<1>6. ASSUME NEW S \in SUBSET Files, Take(S)
      PROVE  LedgerShape'
  BY <1>6, TakeFacts DEF LedgerShape, Take
<1>7. ASSUME NEW u \in Update, Accept(u) \/ Park(u) \/ Forget(u)
      PROVE  LedgerShape'
  BY <1>7 DEF LedgerShape, Accept, Park, Forget
<1>8. ASSUME NEW S \in SUBSET inflight, Settle(S)
      PROVE  LedgerShape'
  BY <1>8, SettleFacts DEF LedgerShape
<1>. QED  BY <1>1, <1>2, <1>3, <1>4, <1>5, <1>6, <1>7, <1>8 DEF LedgerNext

-----------------------------------------------------------------------------
(* Types.                                                                   *)

(* A sequence that grows at its end, and one that shrinks at its head. *)
LEMMA AppendShape ==
    ASSUME NEW T, NEW seq \in Seq(T), NEW x \in T
    PROVE  /\ Append(seq, x) \in Seq(T) /\ Len(Append(seq, x)) = Len(seq) + 1
           /\ DOMAIN Append(seq, x) = 1..(Len(seq) + 1)
           /\ \A i \in DOMAIN Append(seq, x) :
                 Append(seq, x)[i] = IF i = Len(seq) + 1 THEN x ELSE seq[i]
OBVIOUS

LEMMA TailShape ==
    ASSUME NEW T, NEW seq \in Seq(T), seq # <<>>
    PROVE  /\ Head(seq) \in T /\ Head(seq) = seq[1] /\ 1 \in DOMAIN seq
           /\ Tail(seq) \in Seq(T) /\ Len(Tail(seq)) = Len(seq) - 1 /\ Len(seq) \in Nat \ {0}
           /\ \A i \in DOMAIN Tail(seq) : i + 1 \in DOMAIN seq /\ Tail(seq)[i] = seq[i + 1]
           /\ \A i \in DOMAIN seq : i # 1 => i - 1 \in DOMAIN Tail(seq) /\ seq[i] = Tail(seq)[i - 1]
OBVIOUS

(* The pipeline thread and the tokens keep their types. *)
LEMMA RunShapeStep ==
    ASSUME RunShape, [Next]_vars
    PROVE  RunShape'
<1>1. ASSUME UNCHANGED <<pc, loaded, todo, current, cancel, pause, broken, result, sessions,
                           crashes>>
      PROVE  RunShape'
  BY <1>1 DEF RunShape, Pc
<1>2. ASSUME NEW next \in {"matching", "replay"}, Open(next)
      PROVE  RunShape'
  <2>1. sessions' \in 0..MaxSessions /\ crashes' = crashes
    BY <1>2, PipelineAssumption DEF RunShape, Open
  <2>2. pc' \in Pc
    BY <1>2 DEF Open, Pc
  <2>. QED  BY <1>2, <2>1, <2>2 DEF RunShape, Open, FreshProcess
<1>3. CASE CancelledScan
  BY <1>3 DEF RunShape, Pc, CancelledScan, Finish, tokens, count
<1>4. ASSUME NEW m \in [Files -> Confidence], MatchFiles(m)
      PROVE  RunShape'
  BY <1>4 DEF RunShape, Pc, MatchFiles, GoTo, tokens, count
<1>5. CASE MatchFails
  BY <1>5 DEF RunShape, Pc, MatchFails, Finish, tokens, count
<1>6. CASE StartProcessing
  BY <1>6 DEF RunShape, Pc, StartProcessing, Finish, GoTo, tokens, count
<1>7. ASSUME NEW S \in SUBSET Files, LoadBatch(S)
      PROVE  RunShape'
  BY <1>7 DEF RunShape, Pc, LoadBatch, Ready, tokens, count
<1>8. CASE LoadFails
  BY <1>8 DEF RunShape, Pc, LoadFails, GoTo, count
<1>9. CASE LoadEnd
  BY <1>9 DEF RunShape, Pc, LoadEnd, Ready, GoTo, tokens, count
<1>10. ASSUME NEW f \in Files, CopyFile(f)
      PROVE  RunShape'
  BY <1>10 DEF RunShape, Pc, CopyFile, tokens, count
<1>11. ASSUME NEW f \in Files, CopyFails(f)
      PROVE  RunShape'
  BY <1>11 DEF RunShape, Pc, CopyFails, Enqueue, CancelIfRefused, count
<1>12. CASE RealEnd
  BY <1>12 DEF RunShape, Pc, RealEnd, tokens, count
<1>13. CASE OpenArchive
  BY <1>13 DEF RunShape, Pc, OpenArchive, GoTo, tokens, count
<1>14. ASSUME NEW f \in Files, ArchiveFails(f)
      PROVE  RunShape'
  BY <1>14 DEF RunShape, Pc, ArchiveFails, Enqueue, CancelIfRefused, count
<1>15. ASSUME NEW f \in Files, ExtractFile(f)
      PROVE  RunShape'
  BY <1>15 DEF RunShape, Pc, ExtractFile, count
<1>16. ASSUME NEW f \in Files, ExtractFails(f)
      PROVE  RunShape'
  BY <1>16 DEF RunShape, Pc, ExtractFails, Enqueue, tokens, count
<1>17. CASE BatchEnd
  BY <1>17 DEF RunShape, Pc, BatchEnd, tokens, count
<1>18. ASSUME NEW f \in Files, Send(f)
      PROVE  RunShape'
  BY <1>18 DEF RunShape, Pc, Send, tokens, count
<1>19. CASE Join
  BY <1>19 DEF RunShape, Pc, Join, Finish, GoTo, tokens, count
<1>20. CASE Flush
  BY <1>20 DEF RunShape, Pc, Flush, Finish, tokens, count
<1>21. ASSUME NEW f \in Files, SkipFile(f)
      PROVE  RunShape'
  BY <1>21 DEF RunShape, Pc, SkipFile, Enqueue, CancelIfRefused, producer, count
<1>22. ASSUME NEW f \in Files, CompleteFile(f)
      PROVE  RunShape'
  BY <1>22 DEF RunShape, Pc, CompleteFile, Enqueue, CancelIfRefused, producer, count
<1>23. ASSUME NEW f \in Files, ReportError(f)
      PROVE  RunShape'
  BY <1>23 DEF RunShape, Pc, ReportError, Enqueue, CancelIfRefused, producer, count
<1>24. CASE Close
  BY <1>24 DEF RunShape, Pc, Close, GoTo, tokens, count
<1>25. CASE ReplayRows
  BY <1>25 DEF RunShape, Pc, ReplayRows, GoTo, tokens, count
<1>26. CASE RemoveLog
  BY <1>26 DEF RunShape, Pc, RemoveLog, GoTo, tokens, count
<1>27. CASE Break
  BY <1>27 DEF RunShape, Pc, Break, producer, tokens, count
<1>28. CASE Cancel
  BY <1>28 DEF RunShape, Pc, Cancel, Running, producer, count
<1>29. CASE TogglePause
  BY <1>29 DEF RunShape, Pc, TogglePause, Running, producer, count
<1>30. CASE Uncancel
  BY <1>30 DEF RunShape, Pc, Uncancel, Running, producer, count
<1>31. CASE Crash
  <2>1. crashes' \in 0..MaxCrashes /\ sessions' = sessions
    BY <1>31, PipelineAssumption DEF RunShape, Crash
  <2>2. pc' \in Pc
    BY <1>31 DEF Crash, Pc
  <2>. QED  BY <1>31, <2>1, <2>2 DEF RunShape, Crash, FreshProcess
<1>32. CASE \/ TakeItem \/ Database
            \/ \E f \in Files : PauseOver(f) \/ DeliverFile(f) \/ FailFile(f) \/ VerifyFails(f)
  BY <1>1, <1>32 DEF TakeItem, producer, tokens, count, PauseOver, DeliverFile, FailFile,
       VerifyFails, Database, pipeVars
<1>. QED
  BY <1>1, <1>2, <1>3, <1>4, <1>5, <1>6, <1>7, <1>8, <1>9, <1>10, <1>11, <1>12, <1>13, <1>14,
     <1>15, <1>16, <1>17, <1>18, <1>19, <1>20, <1>21, <1>22, <1>23, <1>24, <1>25, <1>26, <1>27,
     <1>28, <1>29, <1>30, <1>31, <1>32
     DEF Next, ProducerStep, ConsumerStep, vars, ledgerVars, pipeVars, storage, producer, tokens,
         count

(* What is kept of each file keeps its type. *)
LEMMA FileShapeStep ==
    ASSUME FileShape, RunShape, [Next]_vars
    PROVE  FileShape'
<1>1. ASSUME UNCHANGED <<staged, channel, job, shown>>
      PROVE  FileShape'
  BY <1>1 DEF FileShape, Job, Terminal
<1>2. ASSUME NEW next \in {"matching", "replay"}, Open(next)
      PROVE  FileShape'
  BY <1>2, PipelineAssumption
     DEF FileShape, Job, Terminal, Open, FreshProcess, Everywhere, storage
<1>3. CASE MatchFails
  BY <1>3 DEF FileShape, Job, Terminal, MatchFails, SweepStaging, Everywhere
<1>4. CASE StartProcessing
  BY <1>4 DEF FileShape, Job, Terminal, StartProcessing, SweepStaging, Everywhere
<1>5. ASSUME NEW f \in Files, CopyFile(f)
      PROVE  FileShape'
  BY <1>5 DEF FileShape, Job, Terminal, CopyFile
<1>6. ASSUME NEW f \in Files, ArchiveFails(f)
      PROVE  FileShape'
  BY <1>6 DEF FileShape, Job, Terminal, ArchiveFails, Show, storage
<1>7. ASSUME NEW f \in Files, ExtractFile(f)
      PROVE  FileShape'
  BY <1>7 DEF FileShape, Job, Terminal, ExtractFile
<1>8. ASSUME NEW f \in Files, ExtractFails(f)
      PROVE  FileShape'
  BY <1>8 DEF FileShape, Job, Terminal, ExtractFails, Show, storage
<1>9. ASSUME NEW f \in Files, Send(f)
      PROVE  FileShape'
  <2>1. channel' \in Seq(Files) /\ Len(channel') <= ChannelCap
    BY <1>9, AppendShape, PipelineAssumption DEF FileShape, Send
  <2>. QED  BY <1>9, <2>1 DEF FileShape, Job, Send, storage
<1>10. CASE Join
  BY <1>10 DEF FileShape, Job, Terminal, Join, Busy, SweepStaging, Everywhere
<1>11. CASE TakeItem
  <2>1. channel' \in Seq(Files) /\ Len(channel') <= ChannelCap
    BY <1>11, TailShape, PipelineAssumption DEF FileShape, TakeItem
  <2>. QED  BY <1>11, <2>1 DEF FileShape, Job, TakeItem, Advance, storage
<1>12. ASSUME NEW f \in Files, PauseOver(f)
      PROVE  FileShape'
  BY <1>12 DEF FileShape, Job, Terminal, PauseOver, Advance, storage
<1>13. ASSUME NEW f \in Files, SkipFile(f)
      PROVE  FileShape'
  BY <1>13 DEF FileShape, Job, Terminal, SkipFile, Show, Advance
<1>14. ASSUME NEW f \in Files, DeliverFile(f)
      PROVE  FileShape'
  BY <1>14 DEF FileShape, Job, Terminal, DeliverFile, Advance
<1>15. ASSUME NEW f \in Files, FailFile(f)
      PROVE  FileShape'
  BY <1>15 DEF FileShape, Job, Terminal, FailFile, Advance
<1>16. ASSUME NEW f \in Files, VerifyFails(f)
      PROVE  FileShape'
  BY <1>16 DEF FileShape, Job, Terminal, VerifyFails, Advance
<1>17. ASSUME NEW f \in Files, CompleteFile(f)
      PROVE  FileShape'
  BY <1>17 DEF FileShape, Job, Terminal, CompleteFile, Show, Advance, storage
<1>18. ASSUME NEW f \in Files, ReportError(f)
      PROVE  FileShape'
  BY <1>18 DEF FileShape, Job, Terminal, ReportError, Show, Advance, storage
<1>19. CASE Crash
  BY <1>19, PipelineAssumption
     DEF FileShape, Job, Terminal, Crash, FreshProcess, Everywhere, storage
<1>20. CASE \/ CancelledScan \/ LoadFails \/ LoadEnd \/ RealEnd \/ OpenArchive \/ BatchEnd
            \/ Flush \/ Close \/ ReplayRows \/ RemoveLog \/ Database \/ Break \/ Cancel
            \/ TogglePause \/ Uncancel
            \/ \E f \in Files : CopyFails(f)
            \/ \E m \in [Files -> Confidence] : MatchFiles(m)
            \/ \E S \in SUBSET Files : LoadBatch(S)
  BY <1>1, <1>20 DEF CancelledScan, storage, MatchFiles, LoadBatch, LoadFails, LoadEnd, CopyFails,
       RealEnd, OpenArchive, BatchEnd, Flush, Close, ReplayRows, RemoveLog, Database, pipeVars,
       Break, Cancel, TogglePause, Uncancel
<1>. QED
  BY <1>1, <1>2, <1>3, <1>4, <1>5, <1>6, <1>7, <1>8, <1>9, <1>10, <1>11, <1>12, <1>13, <1>14,
     <1>15, <1>16, <1>17, <1>18, <1>19, <1>20
     DEF Next, ProducerStep, ConsumerStep, vars, ledgerVars, pipeVars, storage, producer, tokens,
         count
-----------------------------------------------------------------------------
(* Who has which file.                                                      *)

(* Outcomes in flight stay the only ones of their files. *)
LEMMA FlightStep ==
    ASSUME LedgerShape, Unsettled, LedgerNext
    PROVE  /\ ~live' => inflight' = {}
           /\ \A u \in inflight' : status'[u.file] = "Processing"
           /\ \A u, v \in inflight' : u.file = v.file => u = v
<1>. DEFINE Goal == /\ ~live' => inflight' = {}
                    /\ \A u \in inflight' : status'[u.file] = "Processing"
                    /\ \A u, v \in inflight' : u.file = v.file => u = v
<1>. SUFFICES Goal
  OBVIOUS
<1>1. CASE Begin
  BY <1>1 DEF Unsettled, Begin
<1>2. CASE End \/ Die \/ Unlink
  BY <1>2 DEF Unsettled, End, Die, Unlink
<1>3. CASE Replay
  BY <1>3 DEF Unsettled, Replay
<1>4. ASSUME NEW m \in [Files -> Confidence], Match(m)
      PROVE  Goal
  BY <1>4, MatchFacts DEF LedgerShape, Unsettled, Match, Update
<1>5. ASSUME NEW S \in SUBSET Files, Take(S)
      PROVE  Goal
  BY <1>5, TakeFacts DEF LedgerShape, Unsettled, Take, Update, Claimable
<1>6. ASSUME NEW u \in Update, Accept(u)
      PROVE  Goal
  BY <1>6 DEF LedgerShape, Unsettled, Accept
<1>7. ASSUME NEW u \in Update, Park(u) \/ Forget(u)
      PROVE  Goal
  BY <1>7 DEF LedgerShape, Unsettled, Park, Forget
<1>8. ASSUME NEW S \in SUBSET inflight, Settle(S)
      PROVE  Goal
  <2>1. \A u \in inflight \ S : status'[u.file] = status[u.file]
    BY <1>8, SettleFacts DEF LedgerShape, Unsettled, Update
  <2>2. inflight' = inflight \ S /\ live' = live /\ live
    BY <1>8, SettleFacts DEF Settle
  <2>. QED  BY <2>1, <2>2 DEF Unsettled
<1>. HIDE DEF Goal
<1>. QED  BY <1>1, <1>2, <1>3, <1>4, <1>5, <1>6, <1>7, <1>8 DEF LedgerNext

(* The database is open while there is a pipeline. *)
LEMMA LiveStep ==
    ASSUME (live <=> pc # "closed"), [Next]_vars
    PROVE  (live <=> pc # "closed")'
<1>1. ASSUME UNCHANGED <<live, pc>>
      PROVE  (live <=> pc # "closed")'
  BY <1>1
<1>2. ASSUME NEW next \in {"matching", "replay"}, Open(next)
      PROVE  (live <=> pc # "closed")'
  BY <1>2 DEF Open, Begin
<1>3. CASE CancelledScan
  BY <1>3 DEF CancelledScan, Finish, ledgerVars
<1>4. ASSUME NEW m \in [Files -> Confidence], MatchFiles(m)
      PROVE  (live <=> pc # "closed")'
  BY <1>4 DEF MatchFiles, Match, GoTo
<1>5. CASE MatchFails
  BY <1>5 DEF MatchFails, Finish, ledgerVars
<1>6. CASE StartProcessing
  BY <1>6 DEF StartProcessing, Finish, GoTo, ledgerVars
<1>7. ASSUME NEW S \in SUBSET Files, LoadBatch(S)
      PROVE  (live <=> pc # "closed")'
  BY <1>7 DEF LoadBatch, Take
<1>8. CASE LoadFails
  BY <1>8 DEF LoadFails, GoTo, ledgerVars
<1>9. CASE LoadEnd
  BY <1>9 DEF LoadEnd, GoTo, ledgerVars
<1>10. ASSUME NEW f \in Files, CopyFile(f)
      PROVE  (live <=> pc # "closed")'
  BY <1>10 DEF CopyFile, ledgerVars
<1>11. CASE RealEnd
  BY <1>11 DEF RealEnd, ledgerVars
<1>12. CASE OpenArchive
  BY <1>12 DEF OpenArchive, GoTo, ledgerVars
<1>13. ASSUME NEW f \in Files, ExtractFile(f)
      PROVE  (live <=> pc # "closed")'
  BY <1>13 DEF ExtractFile, ledgerVars
<1>14. CASE BatchEnd
  BY <1>14 DEF BatchEnd, ledgerVars
<1>15. ASSUME NEW f \in Files, Send(f)
      PROVE  (live <=> pc # "closed")'
  BY <1>15 DEF Send, ledgerVars
<1>16. CASE Join
  BY <1>16 DEF Join, Finish, GoTo, ledgerVars
<1>17. CASE Flush
  BY <1>17 DEF Flush, Finish, ledgerVars
<1>18. CASE Close
  BY <1>18 DEF Close, End, GoTo
<1>19. CASE ReplayRows
  BY <1>19 DEF ReplayRows, Replay, GoTo, ledgerVars
<1>20. CASE RemoveLog
  BY <1>20 DEF RemoveLog, Unlink, ledgerVars, GoTo
<1>21. CASE Crash
  BY <1>21 DEF Crash, Die
<1>22. CASE \/ TakeItem \/ Database \/ Break \/ Cancel \/ TogglePause \/ Uncancel
            \/ \E f \in Files : CopyFails(f) \/ ArchiveFails(f) \/ ExtractFails(f) \/ PauseOver(f)
            \/ \E f \in Files : SkipFile(f) \/ DeliverFile(f) \/ FailFile(f) \/ VerifyFails(f)
            \/ \E f \in Files : CompleteFile(f) \/ ReportError(f)
  BY <1>1, <1>22 DEF CopyFails, Enqueue, ledgerVars, Accept, ArchiveFails, ExtractFails, TakeItem,
       producer, PauseOver, SkipFile, DeliverFile, FailFile, VerifyFails, CompleteFile,
       ReportError, Database, Settle, Park, pipeVars, Break, Cancel, Running, TogglePause,
       Uncancel
<1>. QED
  BY <1>1, <1>2, <1>3, <1>4, <1>5, <1>6, <1>7, <1>8, <1>9, <1>10, <1>11, <1>12, <1>13, <1>14,
     <1>15, <1>16, <1>17, <1>18, <1>19, <1>20, <1>21, <1>22
     DEF Next, ProducerStep, ConsumerStep, vars, ledgerVars, pipeVars, storage, producer, tokens,
         count

(* Both together. *)
LEMMA UnsettledStep ==
    ASSUME LedgerShape, Unsettled, [Next]_vars
    PROVE  Unsettled'
<1>1. (live <=> pc # "closed")'
  BY LiveStep DEF Unsettled
<1>2. LedgerNext \/ UNCHANGED ledgerVars
  BY LedgerStep
<1>3. CASE LedgerNext
  BY <1>1, <1>3, FlightStep DEF Unsettled
<1>4. CASE UNCHANGED ledgerVars
  BY <1>1, <1>4 DEF Unsettled, ledgerVars
<1>. QED  BY <1>2, <1>3, <1>4

(* Nothing is held outside its phase. *)
LEMMA StagesStep ==
    ASSUME Unsettled, OnePlace, Stages, [Next]_vars
    PROVE  Stages'
<1>1. ASSUME UNCHANGED <<pc, todo, current, channel, job>>
      PROVE  Stages'
  BY <1>1 DEF Stages, AtWork, Batching, Unfinished
<1>2. ASSUME NEW next \in {"matching", "replay"}, Open(next)
      PROVE  Stages'
  BY <1>2 DEF Stages, AtWork, Batching, Unfinished, Open, FreshProcess, Everywhere
<1>3. CASE CancelledScan
  BY <1>3 DEF Stages, AtWork, Batching, Unfinished, CancelledScan, Finish
<1>4. ASSUME NEW m \in [Files -> Confidence], MatchFiles(m)
      PROVE  Stages'
  BY <1>4 DEF Stages, AtWork, Batching, Unfinished, MatchFiles, GoTo
<1>5. CASE MatchFails
  BY <1>5 DEF Stages, AtWork, Batching, Unfinished, MatchFails, Finish
<1>6. CASE StartProcessing
  BY <1>6 DEF Stages, AtWork, Batching, Unfinished, StartProcessing, Finish, GoTo
<1>7. ASSUME NEW S \in SUBSET Files, LoadBatch(S)
      PROVE  Stages'
  BY <1>7 DEF Stages, AtWork, Batching, Unfinished, LoadBatch
<1>8. CASE LoadFails
  BY <1>8 DEF Stages, AtWork, Batching, Unfinished, LoadFails, GoTo
<1>9. CASE LoadEnd
  BY <1>9 DEF Stages, AtWork, Batching, Unfinished, LoadEnd, GoTo
<1>10. ASSUME NEW f \in Files, CopyFile(f)
      PROVE  Stages'
  BY <1>10 DEF Stages, AtWork, Batching, Unfinished, CopyFile
<1>11. ASSUME NEW f \in Files, CopyFails(f)
      PROVE  Stages'
  BY <1>11 DEF Stages, AtWork, Batching, Unfinished, CopyFails
<1>12. CASE RealEnd
  BY <1>12 DEF Stages, AtWork, Batching, Unfinished, RealEnd
<1>13. CASE OpenArchive
  BY <1>13 DEF Stages, AtWork, Batching, Unfinished, OpenArchive, GoTo
<1>14. ASSUME NEW f \in Files, ArchiveFails(f)
      PROVE  Stages'
  BY <1>14 DEF Stages, AtWork, Batching, Unfinished, ArchiveFails
<1>15. ASSUME NEW f \in Files, ExtractFile(f)
      PROVE  Stages'
  BY <1>15 DEF Stages, AtWork, Batching, Unfinished, ExtractFile
<1>16. ASSUME NEW f \in Files, ExtractFails(f)
      PROVE  Stages'
  BY <1>16 DEF Stages, AtWork, Batching, Unfinished, ExtractFails
<1>17. CASE BatchEnd
  BY <1>17 DEF Stages, AtWork, Batching, Unfinished, BatchEnd
<1>18. ASSUME NEW f \in Files, Send(f)
      PROVE  Stages'
  BY <1>18 DEF Stages, AtWork, Batching, Unfinished, Send
<1>19. CASE Join
  <2>1. \A f \in Files : job[f] \notin Unfinished
    BY <1>19 DEF Join, OnePlace, Busy, Unfinished
  <2>. QED  BY <1>19, <2>1 DEF Stages, AtWork, Batching, Unfinished, Join, Finish, GoTo
<1>20. CASE Flush
  BY <1>20 DEF Stages, AtWork, Batching, Unfinished, Flush, Finish
<1>21. CASE TakeItem
  BY <1>21 DEF Stages, AtWork, Batching, Unfinished, TakeItem, Busy, Advance, producer
<1>22. ASSUME NEW f \in Files, PauseOver(f)
      PROVE  Stages'
  BY <1>22 DEF Stages, AtWork, Batching, Unfinished, PauseOver, Advance, producer
<1>23. ASSUME NEW f \in Files, SkipFile(f)
      PROVE  Stages'
  BY <1>23 DEF Stages, AtWork, Batching, Unfinished, SkipFile, Advance, producer
<1>24. ASSUME NEW f \in Files, DeliverFile(f)
      PROVE  Stages'
  BY <1>24 DEF Stages, AtWork, Batching, Unfinished, DeliverFile, Advance, producer
<1>25. ASSUME NEW f \in Files, FailFile(f)
      PROVE  Stages'
  BY <1>25 DEF Stages, AtWork, Batching, Unfinished, FailFile, Advance, producer
<1>26. ASSUME NEW f \in Files, VerifyFails(f)
      PROVE  Stages'
  BY <1>26 DEF Stages, AtWork, Batching, Unfinished, VerifyFails, Advance, producer
<1>27. ASSUME NEW f \in Files, CompleteFile(f)
      PROVE  Stages'
  BY <1>27 DEF Stages, AtWork, Batching, Unfinished, CompleteFile, Advance, producer
<1>28. ASSUME NEW f \in Files, ReportError(f)
      PROVE  Stages'
  BY <1>28 DEF Stages, AtWork, Batching, Unfinished, ReportError, Advance, producer
<1>29. CASE Close
  BY <1>29 DEF Stages, AtWork, Batching, Unfinished, Close, GoTo
<1>30. CASE ReplayRows
  BY <1>30 DEF Stages, AtWork, Batching, Unfinished, ReplayRows, GoTo
<1>31. CASE RemoveLog
  BY <1>31 DEF Stages, AtWork, Batching, Unfinished, RemoveLog, GoTo
<1>32. CASE Crash
  BY <1>32 DEF Stages, AtWork, Batching, Unfinished, Crash, FreshProcess, Everywhere
<1>33. CASE Database \/ Break \/ Cancel \/ TogglePause \/ Uncancel
  BY <1>1, <1>33 DEF Database, pipeVars, producer, Break, Cancel, Running, TogglePause, Uncancel
<1>. QED
  BY <1>1, <1>2, <1>3, <1>4, <1>5, <1>6, <1>7, <1>8, <1>9, <1>10, <1>11, <1>12, <1>13, <1>14,
     <1>15, <1>16, <1>17, <1>18, <1>19, <1>20, <1>21, <1>22, <1>23, <1>24, <1>25, <1>26, <1>27,
     <1>28, <1>29, <1>30, <1>31, <1>32, <1>33
     DEF Next, ProducerStep, ConsumerStep, vars, ledgerVars, pipeVars, storage, producer, tokens,
         count

(* A file is in one place. *)
LEMMA OnePlaceStep ==
    ASSUME FileShape, RunShape, Stages, OnePlace, [Next]_vars
    PROVE  OnePlace'
<1>1. ASSUME UNCHANGED <<loaded, todo, current, channel, job>>
      PROVE  OnePlace'
  BY <1>1 DEF FileShape, OnePlace
<1>2. ASSUME NEW next \in {"matching", "replay"}, Open(next)
      PROVE  OnePlace'
  BY <1>2 DEF FileShape, OnePlace, Open, FreshProcess, Everywhere
<1>3. ASSUME NEW S \in SUBSET Files, LoadBatch(S)
      PROVE  OnePlace'
  BY <1>3 DEF FileShape, OnePlace, LoadBatch, Ready
<1>4. ASSUME NEW f \in Files, CopyFile(f)
      PROVE  OnePlace'
  BY <1>4 DEF FileShape, OnePlace, CopyFile, RunShape, Stages
<1>5. ASSUME NEW f \in Files, CopyFails(f)
      PROVE  OnePlace'
  BY <1>5 DEF FileShape, OnePlace, CopyFails
<1>6. CASE RealEnd
  BY <1>6 DEF FileShape, OnePlace, RealEnd
<1>7. ASSUME NEW f \in Files, ArchiveFails(f)
      PROVE  OnePlace'
  BY <1>7 DEF FileShape, OnePlace, ArchiveFails
<1>8. ASSUME NEW f \in Files, ExtractFile(f)
      PROVE  OnePlace'
  BY <1>8 DEF FileShape, OnePlace, ExtractFile, RunShape, Stages
<1>9. ASSUME NEW f \in Files, ExtractFails(f)
      PROVE  OnePlace'
  BY <1>9 DEF FileShape, OnePlace, ExtractFails
<1>10. CASE BatchEnd
  BY <1>10 DEF FileShape, OnePlace, BatchEnd
<1>11. ASSUME NEW f \in Files, Send(f)
      PROVE  OnePlace'
  BY <1>11 DEF FileShape, OnePlace, Send
<1>12. CASE TakeItem
  <2>1. /\ channel # <<>> /\ channel' = Tail(channel) /\ UNCHANGED <<loaded, todo, current>>
        /\ \E to \in {"dropped", "waiting"} : job' = [job EXCEPT ![Head(channel)] = to]
    BY <1>12 DEF TakeItem, Advance, producer
  <2>2. /\ Head(channel) \in Files /\ Head(channel) = channel[1] /\ 1 \in DOMAIN channel
        /\ DOMAIN channel \subseteq Nat
        /\ \A i \in DOMAIN channel' :
              i + 1 \in DOMAIN channel /\ i + 1 # 1 /\ channel'[i] = channel[i + 1]
        /\ \A i \in DOMAIN channel :
              i # 1 => i - 1 \in DOMAIN channel' /\ channel[i] = channel'[i - 1]
    BY <2>1, TailShape DEF FileShape
  <2>3. job[Head(channel)] = "queued" /\ job'[Head(channel)] \in {"dropped", "waiting"}
    BY <2>1, <2>2 DEF FileShape, OnePlace
  <2>4. \A f \in Files : f # Head(channel) => job'[f] = job[f]
    BY <2>1 DEF FileShape
  <2>5. \A i \in DOMAIN channel' : channel'[i] # Head(channel)
    BY <2>2 DEF OnePlace
  <2>6. \A i \in DOMAIN channel' : channel'[i] \in Files /\ job'[channel'[i]] = "queued"
    BY <2>2, <2>4, <2>5 DEF FileShape, OnePlace
  <2>7. \A i, j \in DOMAIN channel' : channel'[i] = channel'[j] => i = j
    <3>1. ASSUME NEW i \in DOMAIN channel', NEW j \in DOMAIN channel', channel'[i] = channel'[j]
          PROVE  i = j
      <4>1. i + 1 = j + 1
        BY <2>2, <3>1 DEF OnePlace
      <4>2. i \in Int /\ j \in Int
        BY <2>1, TailShape DEF FileShape
      <4>. QED  BY <4>1, <4>2
    <3>. QED  BY <3>1
  <2>8. \A f \in Files : job'[f] = "queued" => \E i \in DOMAIN channel' : channel'[i] = f
    BY <2>2, <2>3, <2>4 DEF OnePlace
  <2>9. \A f \in todo \cup current : f # Head(channel)
    BY <2>3 DEF OnePlace
  <2>. QED  BY <2>1, <2>2, <2>3, <2>4, <2>6, <2>7, <2>8, <2>9 DEF RunShape, OnePlace
<1>13. ASSUME NEW f \in Files, PauseOver(f)
      PROVE  OnePlace'
  BY <1>13 DEF FileShape, OnePlace, PauseOver, Advance, producer
<1>14. ASSUME NEW f \in Files, SkipFile(f)
      PROVE  OnePlace'
  BY <1>14 DEF FileShape, OnePlace, SkipFile, Advance, producer
<1>15. ASSUME NEW f \in Files, DeliverFile(f)
      PROVE  OnePlace'
  BY <1>15 DEF FileShape, OnePlace, DeliverFile, Advance, producer
<1>16. ASSUME NEW f \in Files, FailFile(f)
      PROVE  OnePlace'
  BY <1>16 DEF FileShape, OnePlace, FailFile, Advance, producer
<1>17. ASSUME NEW f \in Files, VerifyFails(f)
      PROVE  OnePlace'
  BY <1>17 DEF FileShape, OnePlace, VerifyFails, Advance, producer
<1>18. ASSUME NEW f \in Files, CompleteFile(f)
      PROVE  OnePlace'
  BY <1>18 DEF FileShape, OnePlace, CompleteFile, Advance, producer
<1>19. ASSUME NEW f \in Files, ReportError(f)
      PROVE  OnePlace'
  BY <1>19 DEF FileShape, OnePlace, ReportError, Advance, producer
<1>20. CASE Crash
  BY <1>20 DEF FileShape, OnePlace, Crash, FreshProcess, Everywhere
<1>21. CASE \/ CancelledScan \/ MatchFails \/ StartProcessing \/ LoadFails \/ LoadEnd
            \/ OpenArchive \/ Join \/ Flush \/ Close \/ ReplayRows \/ RemoveLog \/ Database
            \/ Break \/ Cancel \/ TogglePause \/ Uncancel
            \/ \E m \in [Files -> Confidence] : MatchFiles(m)
  BY <1>1, <1>21 DEF CancelledScan, Finish, MatchFiles, GoTo, MatchFails, StartProcessing,
       LoadFails, LoadEnd, Ready, OpenArchive, Join, Busy, Flush, Close, ReplayRows, RemoveLog,
       Database, pipeVars, producer, Break, Cancel, TogglePause, Uncancel
<1>. QED
  BY <1>1, <1>2, <1>3, <1>4, <1>5, <1>6, <1>7, <1>8, <1>9, <1>10, <1>11, <1>12, <1>13, <1>14,
     <1>15, <1>16, <1>17, <1>18, <1>19, <1>20, <1>21
     DEF Next, ProducerStep, ConsumerStep, vars, ledgerVars, pipeVars, storage, producer, tokens,
         count
(* A reporter keeps its file, and reports it once. *)
LEMMA ReservedStep ==
    ASSUME LedgerShape, RunShape, FileShape, Unsettled, Stages, OnePlace, Reserved, [Next]_vars
    PROVE  Reserved'
<1>1. ASSUME UNCHANGED <<status, inflight, todo, current, job>>
      PROVE  Reserved'
  BY <1>1 DEF Reserved, MayReport, Busy
<1>2. ASSUME NEW next \in {"matching", "replay"}, Open(next)
      PROVE  Reserved'
  <2>1. \A f \in Files : ~MayReport(f)'
    BY <1>2 DEF Open, FreshProcess, Everywhere, MayReport, Busy
  <2>. QED  BY <2>1 DEF Reserved
<1>3. ASSUME NEW m \in [Files -> Confidence], MatchFiles(m)
      PROVE  Reserved'
  BY <1>3, MatchFacts
     DEF Reserved, MayReport, Busy, MatchFiles, GoTo, Match
<1>4. ASSUME NEW S \in SUBSET Files, LoadBatch(S)
      PROVE  Reserved'
  BY <1>4, TakeFacts
     DEF Reserved, MayReport, Busy, LoadBatch, Ready, LedgerShape, Unsettled, Stages, Take,
         Claimable
<1>5. ASSUME NEW f \in Files, CopyFile(f)
      PROVE  Reserved'
  BY <1>5 DEF Reserved, MayReport, Busy, CopyFile, ledgerVars
<1>6. ASSUME NEW f \in Files, CopyFails(f)
      PROVE  Reserved'
  BY <1>6 DEF Reserved, MayReport, Busy, CopyFails, Enqueue, ledgerVars, Accept, OnePlace
<1>7. CASE RealEnd
  BY <1>7 DEF Reserved, MayReport, Busy, RealEnd, ledgerVars
<1>8. ASSUME NEW f \in Files, ArchiveFails(f)
      PROVE  Reserved'
  BY <1>8 DEF Reserved, MayReport, Busy, ArchiveFails, Enqueue, ledgerVars, Accept, OnePlace
<1>9. ASSUME NEW f \in Files, ExtractFile(f)
      PROVE  Reserved'
  BY <1>9 DEF Reserved, MayReport, Busy, ExtractFile, ledgerVars
<1>10. ASSUME NEW f \in Files, ExtractFails(f)
      PROVE  Reserved'
  BY <1>10 DEF Reserved, MayReport, Busy, ExtractFails, Enqueue, ledgerVars, Accept, OnePlace
<1>11. CASE BatchEnd
  BY <1>11 DEF Reserved, MayReport, Busy, BatchEnd, ledgerVars
<1>12. ASSUME NEW f \in Files, Send(f)
      PROVE  Reserved'
  BY <1>12 DEF Reserved, MayReport, Busy, Send, ledgerVars, FileShape
<1>13. CASE TakeItem
  BY <1>13
     DEF Reserved, MayReport, Busy, TakeItem, Advance, ledgerVars, producer, FileShape, OnePlace
<1>14. ASSUME NEW f \in Files, PauseOver(f)
      PROVE  Reserved'
  BY <1>14 DEF Reserved, MayReport, Busy, PauseOver, Advance, ledgerVars, producer, FileShape
<1>15. ASSUME NEW f \in Files, SkipFile(f)
      PROVE  Reserved'
  BY <1>15
     DEF Reserved, MayReport, Busy, SkipFile, Enqueue, ledgerVars, Accept, Advance, producer,
         OnePlace, FileShape
<1>16. ASSUME NEW f \in Files, DeliverFile(f)
      PROVE  Reserved'
  BY <1>16 DEF Reserved, MayReport, Busy, DeliverFile, Advance, ledgerVars, producer, FileShape
<1>17. ASSUME NEW f \in Files, FailFile(f)
      PROVE  Reserved'
  BY <1>17 DEF Reserved, MayReport, Busy, FailFile, Advance, ledgerVars, producer, FileShape
<1>18. ASSUME NEW f \in Files, VerifyFails(f)
      PROVE  Reserved'
  BY <1>18 DEF Reserved, MayReport, Busy, VerifyFails, Advance, ledgerVars, producer, FileShape
<1>19. ASSUME NEW f \in Files, CompleteFile(f)
      PROVE  Reserved'
  BY <1>19
     DEF Reserved, MayReport, Busy, CompleteFile, Enqueue, ledgerVars, Accept, Advance, producer,
         OnePlace, FileShape
<1>20. ASSUME NEW f \in Files, ReportError(f)
      PROVE  Reserved'
  BY <1>20
     DEF Reserved, MayReport, Busy, ReportError, Enqueue, ledgerVars, Accept, Advance, producer,
         OnePlace, FileShape
<1>21. CASE ReplayRows
  <2>1. \A f \in Files : ~MayReport(f)'
    BY <1>21 DEF ReplayRows, GoTo, Stages, AtWork, Batching, Unfinished, MayReport, Busy
  <2>. QED  BY <2>1 DEF Reserved
<1>22. CASE Database
  <2>1. ASSUME NEW S \in SUBSET inflight, Settle(S)
        PROVE  Reserved'
    <3>1. \A f \in Files : MayReport(f) => status'[f] = status[f]
      BY <2>1, SettleFacts DEF Reserved
    <3>2. inflight' \subseteq inflight /\ UNCHANGED <<todo, current, job>>
      BY <1>22, <2>1, SettleFacts DEF Database, pipeVars, producer
    <3>. QED  BY <3>1, <3>2 DEF Reserved, MayReport, Busy
  <2>2. ASSUME NEW u \in inflight, Park(u)
        PROVE  Reserved'
    BY <1>22, <2>2 DEF Park, Database, pipeVars, producer, Reserved, MayReport, Busy
  <2>. QED  BY <1>22, <2>1, <2>2 DEF Database
<1>23. CASE Crash
  BY <1>23 DEF Reserved, MayReport, Busy, Crash, Die, FreshProcess, Everywhere
<1>24. CASE \/ CancelledScan \/ MatchFails \/ StartProcessing \/ LoadFails \/ LoadEnd
            \/ OpenArchive \/ Join \/ Flush \/ Close \/ RemoveLog \/ Break \/ Cancel
            \/ TogglePause \/ Uncancel
  BY <1>1, <1>24 DEF CancelledScan, Finish, ledgerVars, MatchFails, StartProcessing, GoTo,
       LoadFails, LoadEnd, Ready, OpenArchive, Join, Busy, Flush, Close, End, RemoveLog, Unlink,
       Break, producer, Cancel, TogglePause, Uncancel
<1>. QED
  BY <1>1, <1>2, <1>3, <1>4, <1>5, <1>6, <1>7, <1>8, <1>9, <1>10, <1>11, <1>12, <1>13, <1>14,
     <1>15, <1>16, <1>17, <1>18, <1>19, <1>20, <1>21, <1>22, <1>23, <1>24
     DEF Next, ProducerStep, ConsumerStep, vars, ledgerVars, pipeVars, storage, producer, tokens,
         count
-----------------------------------------------------------------------------
(* The consumers.                                                           *)

(* Fewer consumers are busy. *)
LEMMA BusyShrinks ==
    ASSUME BusyBound, Busy' \subseteq Busy
    PROVE  BusyBound'
<1>1. IsFiniteSet(Busy') /\ Cardinality(Busy') <= Cardinality(Busy) /\ Cardinality(Busy') \in Nat
  BY FS_Subset, FS_CardinalityType DEF BusyBound
<1>2. Cardinality(Busy) \in Nat /\ Cardinality(Busy) <= Workers
  BY FS_CardinalityType DEF BusyBound
<1>. QED  BY <1>1, <1>2, PipelineAssumption DEF BusyBound

(* No more consumers are busy than there are. *)
LEMMA BusyStep ==
    ASSUME FileShape, BusyBound, [Next]_vars
    PROVE  BusyBound'
<1>1. ASSUME UNCHANGED <<job>>
      PROVE  BusyBound'
  BY <1>1 DEF BusyBound, Busy
<1>2. ASSUME NEW next \in {"matching", "replay"}, Open(next)
      PROVE  BusyBound'
  <2>1. Busy' \subseteq Busy
    BY <1>2 DEF FileShape, Busy, Open, FreshProcess, Everywhere
  <2>. QED  BY <2>1, BusyShrinks
<1>3. ASSUME NEW f \in Files, Send(f)
      PROVE  BusyBound'
  <2>1. Busy' \subseteq Busy
    BY <1>3 DEF FileShape, Busy, Send
  <2>. QED  BY <2>1, BusyShrinks
<1>4. CASE TakeItem
  <2>. DEFINE f == Head(channel)
  <2>1. f \in Files /\ Busy' \subseteq Busy \cup {f} /\ Cardinality(Busy) < Workers
    BY <1>4, TailShape DEF FileShape, Busy, TakeItem, Advance
  <2>2. /\ IsFiniteSet(Busy \cup {f}) /\ Cardinality(Busy \cup {f}) <= Cardinality(Busy) + 1
        /\ Cardinality(Busy) \in Nat /\ Cardinality(Busy \cup {f}) \in Nat
    <3>1. IsFiniteSet(Busy)
      BY DEF BusyBound
    <3>. QED  BY <3>1, FS_AddElement, FS_CardinalityType
  <2>3. IsFiniteSet(Busy') /\ Cardinality(Busy') <= Cardinality(Busy \cup {f}) /\ Cardinality(Busy') \in Nat
    BY <2>1, <2>2, FS_Subset, FS_CardinalityType
  <2>. QED  BY <2>1, <2>2, <2>3, PipelineAssumption DEF BusyBound
<1>5. ASSUME NEW f \in Files, PauseOver(f)
      PROVE  BusyBound'
  <2>1. Busy' \subseteq Busy
    BY <1>5 DEF FileShape, Busy, PauseOver, Advance
  <2>. QED  BY <2>1, BusyShrinks
<1>6. ASSUME NEW f \in Files, SkipFile(f)
      PROVE  BusyBound'
  <2>1. Busy' \subseteq Busy
    BY <1>6 DEF FileShape, Busy, SkipFile, Advance
  <2>. QED  BY <2>1, BusyShrinks
<1>7. ASSUME NEW f \in Files, DeliverFile(f)
      PROVE  BusyBound'
  <2>1. Busy' \subseteq Busy
    BY <1>7 DEF FileShape, Busy, DeliverFile, Advance
  <2>. QED  BY <2>1, BusyShrinks
<1>8. ASSUME NEW f \in Files, FailFile(f)
      PROVE  BusyBound'
  <2>1. Busy' \subseteq Busy
    BY <1>8 DEF FileShape, Busy, FailFile, Advance
  <2>. QED  BY <2>1, BusyShrinks
<1>9. ASSUME NEW f \in Files, VerifyFails(f)
      PROVE  BusyBound'
  <2>1. Busy' \subseteq Busy
    BY <1>9 DEF FileShape, Busy, VerifyFails, Advance
  <2>. QED  BY <2>1, BusyShrinks
<1>10. ASSUME NEW f \in Files, CompleteFile(f)
      PROVE  BusyBound'
  <2>1. Busy' \subseteq Busy
    BY <1>10 DEF FileShape, Busy, CompleteFile, Advance
  <2>. QED  BY <2>1, BusyShrinks
<1>11. ASSUME NEW f \in Files, ReportError(f)
      PROVE  BusyBound'
  <2>1. Busy' \subseteq Busy
    BY <1>11 DEF FileShape, Busy, ReportError, Advance
  <2>. QED  BY <2>1, BusyShrinks
<1>12. CASE Crash
  <2>1. Busy' \subseteq Busy
    BY <1>12 DEF FileShape, Busy, Crash, FreshProcess, Everywhere
  <2>. QED  BY <2>1, BusyShrinks
<1>13. CASE \/ CancelledScan \/ MatchFails \/ StartProcessing \/ LoadFails \/ LoadEnd
            \/ RealEnd \/ OpenArchive \/ BatchEnd \/ Join \/ Flush \/ Close \/ ReplayRows
            \/ RemoveLog \/ Database \/ Break \/ Cancel \/ TogglePause \/ Uncancel
            \/ \E f \in Files : CopyFile(f) \/ CopyFails(f) \/ ArchiveFails(f) \/ ExtractFile(f)
            \/ \E f \in Files : ExtractFails(f)
            \/ \E m \in [Files -> Confidence] : MatchFiles(m)
            \/ \E S \in SUBSET Files : LoadBatch(S)
  BY <1>1, <1>13 DEF CancelledScan, MatchFiles, MatchFails, StartProcessing, LoadBatch, LoadFails,
       LoadEnd, CopyFile, CopyFails, RealEnd, OpenArchive, ArchiveFails, ExtractFile,
       ExtractFails, BatchEnd, Join, Busy, Flush, Close, ReplayRows, RemoveLog, Database,
       pipeVars, Break, Cancel, TogglePause, Uncancel
<1>. QED
  BY <1>1, <1>2, <1>3, <1>4, <1>5, <1>6, <1>7, <1>8, <1>9, <1>10, <1>11, <1>12, <1>13
     DEF Next, ProducerStep, ConsumerStep, vars, ledgerVars, pipeVars, storage, producer, tokens,
         count

-----------------------------------------------------------------------------
(* The staging directory.                                                   *)

(* Nothing takes a file away from the staging directory before its consumer does. *)
LEMMA WorkIsStagedStep ==
    ASSUME FileShape, Stages, OnePlace, WorkIsStaged, [Next]_vars
    PROVE  WorkIsStaged'
<1>1. ASSUME UNCHANGED <<staged, current, job>>
      PROVE  WorkIsStaged'
  BY <1>1 DEF FileShape, WorkIsStaged
<1>2. ASSUME NEW next \in {"matching", "replay"}, Open(next)
      PROVE  WorkIsStaged'
  BY <1>2 DEF FileShape, WorkIsStaged, Open, FreshProcess, Everywhere, storage
<1>3. CASE MatchFails
  BY <1>3
     DEF FileShape, WorkIsStaged, MatchFails, Finish, SweepStaging, Everywhere, Stages, AtWork,
         Batching, Unfinished
<1>4. CASE StartProcessing
  BY <1>4
     DEF FileShape, WorkIsStaged, StartProcessing, Finish, GoTo, SweepStaging, Everywhere, Stages,
         AtWork, Batching, Unfinished
<1>5. ASSUME NEW f \in Files, CopyFile(f)
      PROVE  WorkIsStaged'
  BY <1>5 DEF FileShape, WorkIsStaged, CopyFile
<1>6. ASSUME NEW f \in Files, ExtractFile(f)
      PROVE  WorkIsStaged'
  BY <1>6 DEF FileShape, WorkIsStaged, ExtractFile
<1>7. ASSUME NEW f \in Files, Send(f)
      PROVE  WorkIsStaged'
  BY <1>7 DEF FileShape, WorkIsStaged, Send, storage
<1>8. CASE Join
  BY <1>8
     DEF FileShape, WorkIsStaged, Join, Busy, Finish, GoTo, SweepStaging, Everywhere, Stages,
         OnePlace
<1>9. CASE TakeItem
  <2>. DEFINE f == Head(channel)
  <2>1. f \in Files /\ job[f] = "queued"
    BY <1>9, TailShape DEF TakeItem, FileShape, OnePlace
  <2>2. /\ \E to \in {"dropped", "waiting"} : job' = [job EXCEPT ![f] = to]
        /\ UNCHANGED <<staged, current>>
    BY <1>9 DEF TakeItem, Advance, storage, producer, count, ledgerVars
  <2>. HIDE DEF f
  <2>. QED  BY <2>1, <2>2 DEF FileShape, WorkIsStaged
<1>10. ASSUME NEW f \in Files, PauseOver(f)
      PROVE  WorkIsStaged'
  BY <1>10 DEF FileShape, WorkIsStaged, PauseOver, Advance, storage, producer
<1>11. ASSUME NEW f \in Files, SkipFile(f)
      PROVE  WorkIsStaged'
  BY <1>11 DEF FileShape, WorkIsStaged, SkipFile, Advance, producer, OnePlace
<1>12. ASSUME NEW f \in Files, DeliverFile(f)
      PROVE  WorkIsStaged'
  BY <1>12 DEF FileShape, WorkIsStaged, DeliverFile, Advance, producer, OnePlace
<1>13. ASSUME NEW f \in Files, FailFile(f)
      PROVE  WorkIsStaged'
  BY <1>13 DEF FileShape, WorkIsStaged, FailFile, Advance, producer, OnePlace
<1>14. ASSUME NEW f \in Files, VerifyFails(f)
      PROVE  WorkIsStaged'
  BY <1>14 DEF FileShape, WorkIsStaged, VerifyFails, Advance, producer
<1>15. ASSUME NEW f \in Files, CompleteFile(f)
      PROVE  WorkIsStaged'
  BY <1>15 DEF FileShape, WorkIsStaged, CompleteFile, Advance, storage, producer
<1>16. ASSUME NEW f \in Files, ReportError(f)
      PROVE  WorkIsStaged'
  BY <1>16 DEF FileShape, WorkIsStaged, ReportError, Advance, storage, producer
<1>17. CASE Crash
  BY <1>17 DEF FileShape, WorkIsStaged, Crash, FreshProcess, Everywhere, storage
<1>18. CASE \/ CancelledScan \/ LoadFails \/ LoadEnd \/ RealEnd \/ OpenArchive \/ BatchEnd
            \/ Flush \/ Close \/ ReplayRows \/ RemoveLog \/ Database \/ Break \/ Cancel
            \/ TogglePause \/ Uncancel
            \/ \E f \in Files : CopyFails(f) \/ ArchiveFails(f) \/ ExtractFails(f)
            \/ \E m \in [Files -> Confidence] : MatchFiles(m)
            \/ \E S \in SUBSET Files : LoadBatch(S)
  BY <1>1, <1>18 DEF CancelledScan, Finish, storage, MatchFiles, GoTo, LoadBatch, LoadFails,
       LoadEnd, CopyFails, RealEnd, OpenArchive, ArchiveFails, ExtractFails, BatchEnd, Flush,
       Close, ReplayRows, RemoveLog, Database, pipeVars, producer, Break, Cancel, TogglePause,
       Uncancel
<1>. QED
  BY <1>1, <1>2, <1>3, <1>4, <1>5, <1>6, <1>7, <1>8, <1>9, <1>10, <1>11, <1>12, <1>13, <1>14,
     <1>15, <1>16, <1>17, <1>18
     DEF Next, ProducerStep, ConsumerStep, vars, ledgerVars, pipeVars, storage, producer, tokens,
         count

(* What is put into the staging directory goes to the consumers. *)
LEMMA StagedOnlyStep ==
    ASSUME FileShape, Stages, OnePlace, StagedOnly, [Next]_vars
    PROVE  StagedOnly'
<1>1. ASSUME UNCHANGED <<staged, pc, current, job>>
      PROVE  StagedOnly'
  BY <1>1 DEF FileShape, StagedOnly, AtWork
<1>2. ASSUME NEW next \in {"matching", "replay"}, Open(next)
      PROVE  StagedOnly'
  BY <1>2 DEF FileShape, StagedOnly, AtWork, Open, FreshProcess, Everywhere, storage
<1>3. CASE CancelledScan
  BY <1>3 DEF FileShape, StagedOnly, AtWork, CancelledScan, Finish, storage
<1>4. ASSUME NEW m \in [Files -> Confidence], MatchFiles(m)
      PROVE  StagedOnly'
  BY <1>4 DEF FileShape, StagedOnly, AtWork, MatchFiles, GoTo, storage
<1>5. CASE MatchFails
  BY <1>5 DEF FileShape, StagedOnly, AtWork, MatchFails, Finish, SweepStaging, Everywhere
<1>6. CASE StartProcessing
  BY <1>6
     DEF FileShape, StagedOnly, AtWork, StartProcessing, Finish, GoTo, SweepStaging, Everywhere
<1>7. ASSUME NEW S \in SUBSET Files, LoadBatch(S)
      PROVE  StagedOnly'
  BY <1>7 DEF FileShape, StagedOnly, AtWork, LoadBatch, storage
<1>8. CASE LoadFails
  BY <1>8 DEF FileShape, StagedOnly, AtWork, LoadFails, GoTo, storage
<1>9. CASE LoadEnd
  BY <1>9 DEF FileShape, StagedOnly, AtWork, LoadEnd, GoTo, storage
<1>10. ASSUME NEW f \in Files, CopyFile(f)
      PROVE  StagedOnly'
  BY <1>10 DEF FileShape, StagedOnly, AtWork, CopyFile, Stages
<1>11. CASE RealEnd
  BY <1>11 DEF FileShape, StagedOnly, AtWork, RealEnd, storage
<1>12. CASE OpenArchive
  BY <1>12 DEF FileShape, StagedOnly, AtWork, OpenArchive, GoTo, storage
<1>13. ASSUME NEW f \in Files, ExtractFile(f)
      PROVE  StagedOnly'
  BY <1>13 DEF FileShape, StagedOnly, AtWork, ExtractFile, Stages
<1>14. CASE BatchEnd
  BY <1>14 DEF FileShape, StagedOnly, AtWork, BatchEnd, storage
<1>15. ASSUME NEW f \in Files, Send(f)
      PROVE  StagedOnly'
  BY <1>15 DEF FileShape, StagedOnly, AtWork, Send, storage, Stages
<1>16. CASE Join
  BY <1>16 DEF FileShape, StagedOnly, AtWork, Join, Busy, Finish, GoTo, SweepStaging, Everywhere
<1>17. CASE Flush
  BY <1>17 DEF FileShape, StagedOnly, AtWork, Flush, Finish, storage
<1>18. CASE TakeItem
  BY <1>18 DEF FileShape, StagedOnly, AtWork, TakeItem, Busy, Advance, storage, producer
<1>19. ASSUME NEW f \in Files, PauseOver(f)
      PROVE  StagedOnly'
  BY <1>19 DEF FileShape, StagedOnly, AtWork, PauseOver, Advance, storage, producer
<1>20. ASSUME NEW f \in Files, SkipFile(f)
      PROVE  StagedOnly'
  BY <1>20 DEF FileShape, StagedOnly, AtWork, SkipFile, Advance, producer
<1>21. ASSUME NEW f \in Files, DeliverFile(f)
      PROVE  StagedOnly'
  BY <1>21 DEF FileShape, StagedOnly, AtWork, DeliverFile, Advance, producer
<1>22. ASSUME NEW f \in Files, FailFile(f)
      PROVE  StagedOnly'
  BY <1>22 DEF FileShape, StagedOnly, AtWork, FailFile, Advance, producer
<1>23. ASSUME NEW f \in Files, VerifyFails(f)
      PROVE  StagedOnly'
  BY <1>23 DEF FileShape, StagedOnly, AtWork, VerifyFails, Advance, producer
<1>24. ASSUME NEW f \in Files, CompleteFile(f)
      PROVE  StagedOnly'
  BY <1>24 DEF FileShape, StagedOnly, AtWork, CompleteFile, Advance, storage, producer
<1>25. ASSUME NEW f \in Files, ReportError(f)
      PROVE  StagedOnly'
  BY <1>25 DEF FileShape, StagedOnly, AtWork, ReportError, Advance, storage, producer
<1>26. CASE Close
  BY <1>26 DEF FileShape, StagedOnly, AtWork, Close, GoTo, storage
<1>27. CASE ReplayRows
  BY <1>27 DEF FileShape, StagedOnly, AtWork, ReplayRows, GoTo, storage
<1>28. CASE RemoveLog
  BY <1>28 DEF FileShape, StagedOnly, AtWork, RemoveLog, GoTo, storage
<1>29. CASE Crash
  BY <1>29 DEF FileShape, StagedOnly, AtWork, Crash, FreshProcess, Everywhere, storage
<1>30. CASE \/ Database \/ Break \/ Cancel \/ TogglePause \/ Uncancel
            \/ \E f \in Files : CopyFails(f) \/ ArchiveFails(f) \/ ExtractFails(f)
  BY <1>1, <1>30 DEF CopyFails, storage, ArchiveFails, ExtractFails, Database, pipeVars, producer,
       Break, Cancel, Running, TogglePause, Uncancel
<1>. QED
  BY <1>1, <1>2, <1>3, <1>4, <1>5, <1>6, <1>7, <1>8, <1>9, <1>10, <1>11, <1>12, <1>13, <1>14,
     <1>15, <1>16, <1>17, <1>18, <1>19, <1>20, <1>21, <1>22, <1>23, <1>24, <1>25, <1>26, <1>27,
     <1>28, <1>29, <1>30
     DEF Next, ProducerStep, ConsumerStep, vars, ledgerVars, pipeVars, storage, producer, tokens,
         count

-----------------------------------------------------------------------------
(* The output directories.                                                  *)

(* A session delivers a file once. *)
LEMMA CountedStep ==
    ASSUME FileShape, RunShape, Stages, OnePlace, Counted, [Next]_vars
    PROVE  Counted'
<1>1. ASSUME UNCHANGED <<outputs, pc, job, sessions>>
      PROVE  Counted'
  BY <1>1 DEF FileShape, RunShape, Counted
<1>2. ASSUME NEW next \in {"matching", "replay"}, Open(next)
      PROVE  Counted'
  BY <1>2
     DEF FileShape, RunShape, Counted, Open, FreshProcess, Everywhere, storage, Stages, AtWork,
         Unfinished
<1>3. CASE CancelledScan
  BY <1>3 DEF FileShape, RunShape, Counted, CancelledScan, Finish, storage, count
<1>4. ASSUME NEW m \in [Files -> Confidence], MatchFiles(m)
      PROVE  Counted'
  BY <1>4 DEF FileShape, RunShape, Counted, MatchFiles, GoTo, storage, count
<1>5. CASE MatchFails
  BY <1>5 DEF FileShape, RunShape, Counted, MatchFails, Finish, SweepStaging, Everywhere, count
<1>6. CASE StartProcessing
  BY <1>6
     DEF FileShape, RunShape, Counted, StartProcessing, Finish, GoTo, SweepStaging, Everywhere,
         count
<1>7. ASSUME NEW S \in SUBSET Files, LoadBatch(S)
      PROVE  Counted'
  BY <1>7 DEF FileShape, RunShape, Counted, LoadBatch, storage, count
<1>8. CASE LoadFails
  BY <1>8 DEF FileShape, RunShape, Counted, LoadFails, GoTo, storage, count
<1>9. CASE LoadEnd
  BY <1>9 DEF FileShape, RunShape, Counted, LoadEnd, GoTo, storage, count
<1>10. ASSUME NEW f \in Files, CopyFile(f)
      PROVE  Counted'
  BY <1>10 DEF FileShape, RunShape, Counted, CopyFile, count
<1>11. CASE RealEnd
  BY <1>11 DEF FileShape, RunShape, Counted, RealEnd, storage, count
<1>12. CASE OpenArchive
  BY <1>12 DEF FileShape, RunShape, Counted, OpenArchive, GoTo, storage, count
<1>13. ASSUME NEW f \in Files, ExtractFile(f)
      PROVE  Counted'
  BY <1>13 DEF FileShape, RunShape, Counted, ExtractFile, count
<1>14. CASE BatchEnd
  BY <1>14 DEF FileShape, RunShape, Counted, BatchEnd, storage, count
<1>15. ASSUME NEW f \in Files, Send(f)
      PROVE  Counted'
  <2>1. job[f] = "none" /\ job' = [job EXCEPT ![f] = "queued"] /\ pc = "send"
    BY <1>15 DEF Send, OnePlace
  <2>2. UNCHANGED <<outputs, sessions>>
    BY <1>15 DEF Send, storage, count
  <2>. QED  BY <2>1, <2>2 DEF FileShape, RunShape, Counted
<1>16. CASE Join
  BY <1>16
     DEF FileShape, RunShape, Counted, Join, Busy, Finish, GoTo, SweepStaging, Everywhere, count
<1>17. CASE Flush
  BY <1>17 DEF FileShape, RunShape, Counted, Flush, Finish, storage, count
<1>18. CASE TakeItem
  <2>. DEFINE f == Head(channel)
  <2>1. f \in Files /\ job[f] = "queued"
    BY <1>18, TailShape DEF TakeItem, FileShape, OnePlace
  <2>2. /\ \E to \in {"dropped", "waiting"} : job' = [job EXCEPT ![f] = to]
        /\ UNCHANGED <<pc, outputs, sessions>>
    BY <1>18 DEF TakeItem, Advance, storage, producer, count, ledgerVars
  <2>. HIDE DEF f
  <2>. QED  BY <2>1, <2>2 DEF FileShape, RunShape, Counted
<1>19. ASSUME NEW f \in Files, PauseOver(f)
      PROVE  Counted'
  BY <1>19 DEF FileShape, RunShape, Counted, PauseOver, Advance, storage, producer, count
<1>20. ASSUME NEW f \in Files, SkipFile(f)
      PROVE  Counted'
  BY <1>20 DEF FileShape, RunShape, Counted, SkipFile, Advance, producer, count
<1>21. ASSUME NEW f \in Files, DeliverFile(f)
      PROVE  Counted'
  BY <1>21
     DEF FileShape, RunShape, Counted, DeliverFile, Advance, producer, count, Stages, AtWork,
         Unfinished
<1>22. ASSUME NEW f \in Files, FailFile(f)
      PROVE  Counted'
  BY <1>22 DEF FileShape, RunShape, Counted, FailFile, Advance, producer, count
<1>23. ASSUME NEW f \in Files, VerifyFails(f)
      PROVE  Counted'
  BY <1>23
     DEF FileShape, RunShape, Counted, VerifyFails, Advance, producer, count, Stages, AtWork,
         Unfinished
<1>24. ASSUME NEW f \in Files, CompleteFile(f)
      PROVE  Counted'
  BY <1>24 DEF FileShape, RunShape, Counted, CompleteFile, Advance, storage, producer, count
<1>25. ASSUME NEW f \in Files, ReportError(f)
      PROVE  Counted'
  BY <1>25 DEF FileShape, RunShape, Counted, ReportError, Advance, storage, producer, count
<1>26. CASE Close
  BY <1>26 DEF FileShape, RunShape, Counted, Close, GoTo, storage, count
<1>27. CASE ReplayRows
  BY <1>27 DEF FileShape, RunShape, Counted, ReplayRows, GoTo, storage, count
<1>28. CASE RemoveLog
  BY <1>28 DEF FileShape, RunShape, Counted, RemoveLog, GoTo, storage, count
<1>29. CASE Crash
  BY <1>29
     DEF FileShape, RunShape, Counted, Crash, FreshProcess, Everywhere, storage, Stages, AtWork,
         Unfinished
<1>30. CASE \/ Database \/ Break \/ Cancel \/ TogglePause \/ Uncancel
            \/ \E f \in Files : CopyFails(f) \/ ArchiveFails(f) \/ ExtractFails(f)
  BY <1>1, <1>30 DEF CopyFails, storage, count, ArchiveFails, ExtractFails, Database, pipeVars,
       producer, Break, Cancel, Running, TogglePause, Uncancel
<1>. QED
  BY <1>1, <1>2, <1>3, <1>4, <1>5, <1>6, <1>7, <1>8, <1>9, <1>10, <1>11, <1>12, <1>13, <1>14,
     <1>15, <1>16, <1>17, <1>18, <1>19, <1>20, <1>21, <1>22, <1>23, <1>24, <1>25, <1>26, <1>27,
     <1>28, <1>29, <1>30
     DEF Next, ProducerStep, ConsumerStep, vars, ledgerVars, pipeVars, storage, producer, tokens,
         count

(* What is called completed has an output, and keeps it. *)
LEMMA HasOutputStep ==
    ASSUME LedgerShape, FileShape, Counted, HasOutput, [Next]_vars
    PROVE  HasOutput'
<1>1. ASSUME UNCHANGED <<status, inflight, parked, outputs, job>>
      PROVE  HasOutput'
  BY <1>1 DEF LedgerShape, FileShape, Counted, HasOutput, StoredAs
<1>2. ASSUME NEW next \in {"matching", "replay"}, Open(next)
      PROVE  HasOutput'
  <2>1. \A f \in Files : status'[f] = "Completed" => status[f] = "Completed"
    BY <1>2, BeginFacts DEF Open, Claimable
  <2>2. UNCHANGED <<inflight, parked, outputs>> /\ \A f \in Files : job'[f] = "none"
    BY <1>2 DEF Open, Begin, FreshProcess, Everywhere, storage
  <2>. QED  BY <2>1, <2>2 DEF Counted, HasOutput, StoredAs
<1>3. ASSUME NEW m \in [Files -> Confidence], MatchFiles(m)
      PROVE  HasOutput'
  <2>1. \A f \in Files : status'[f] = "Completed" => status[f] = "Completed"
    BY <1>3, MatchFacts DEF MatchFiles, Claimable
  <2>2. UNCHANGED <<inflight, parked, outputs, job>>
    BY <1>3 DEF MatchFiles, Match, storage
  <2>. QED  BY <2>1, <2>2 DEF HasOutput, StoredAs
<1>4. ASSUME NEW S \in SUBSET Files, LoadBatch(S)
      PROVE  HasOutput'
  <2>1. \A f \in Files : status'[f] = "Completed" => status[f] = "Completed"
    BY <1>4, TakeFacts DEF LoadBatch
  <2>2. UNCHANGED <<inflight, parked, outputs, job>>
    BY <1>4 DEF LoadBatch, Take, storage
  <2>. QED  BY <2>1, <2>2 DEF HasOutput, StoredAs
<1>5. ASSUME NEW f \in Files, CopyFails(f)
      PROVE  HasOutput'
  BY <1>5
     DEF LedgerShape, FileShape, Counted, HasOutput, StoredAs, CopyFails, Enqueue, ledgerVars,
         Accept, storage
<1>6. ASSUME NEW f \in Files, ArchiveFails(f)
      PROVE  HasOutput'
  BY <1>6
     DEF LedgerShape, FileShape, Counted, HasOutput, StoredAs, ArchiveFails, Enqueue, ledgerVars,
         Accept, storage
<1>7. ASSUME NEW f \in Files, ExtractFails(f)
      PROVE  HasOutput'
  BY <1>7
     DEF LedgerShape, FileShape, Counted, HasOutput, StoredAs, ExtractFails, Enqueue, ledgerVars,
         Accept, storage
<1>8. ASSUME NEW f \in Files, Send(f)
      PROVE  HasOutput'
  BY <1>8 DEF LedgerShape, FileShape, Counted, HasOutput, StoredAs, Send, ledgerVars, storage
<1>9. CASE TakeItem
  BY <1>9
     DEF LedgerShape, FileShape, Counted, HasOutput, StoredAs, TakeItem, Busy, Advance,
         ledgerVars, storage
<1>10. ASSUME NEW f \in Files, PauseOver(f)
      PROVE  HasOutput'
  BY <1>10
     DEF LedgerShape, FileShape, Counted, HasOutput, StoredAs, PauseOver, Advance, ledgerVars,
         storage
<1>11. ASSUME NEW f \in Files, SkipFile(f)
      PROVE  HasOutput'
  BY <1>11
     DEF LedgerShape, FileShape, Counted, HasOutput, StoredAs, SkipFile, Enqueue, ledgerVars,
         Accept, Advance
<1>12. ASSUME NEW f \in Files, DeliverFile(f)
      PROVE  HasOutput'
  BY <1>12
     DEF LedgerShape, FileShape, Counted, HasOutput, StoredAs, DeliverFile, Advance, ledgerVars
<1>13. ASSUME NEW f \in Files, FailFile(f)
      PROVE  HasOutput'
  BY <1>13 DEF LedgerShape, FileShape, Counted, HasOutput, StoredAs, FailFile, Advance, ledgerVars
<1>14. ASSUME NEW f \in Files, VerifyFails(f)
      PROVE  HasOutput'
  BY <1>14
     DEF LedgerShape, FileShape, Counted, HasOutput, StoredAs, VerifyFails, Advance, ledgerVars
<1>15. ASSUME NEW f \in Files, CompleteFile(f)
      PROVE  HasOutput'
  BY <1>15
     DEF LedgerShape, FileShape, Counted, HasOutput, StoredAs, CompleteFile, Enqueue, ledgerVars,
         Accept, Advance, storage
<1>16. ASSUME NEW f \in Files, ReportError(f)
      PROVE  HasOutput'
  BY <1>16
     DEF LedgerShape, FileShape, Counted, HasOutput, StoredAs, ReportError, Enqueue, ledgerVars,
         Accept, Advance, storage
<1>17. CASE ReplayRows
  <2>1. UNCHANGED <<outputs, job>>
    BY <1>17 DEF ReplayRows, storage
  <2>2. ASSUME Replay, NEW f \in Files, StoredAs(f, "Completed")'
        PROVE  StoredAs(f, "Completed")
    <3>1. \A u \in parked : u.file = f /\ u.to = "Completed" => u = [file |-> f, to |-> "Completed"]
      BY DEF LedgerShape, Update
    <3>. QED  BY <2>2, <3>1, ReplayFacts DEF StoredAs
  <2>. QED  BY <1>17, <2>1, <2>2 DEF ReplayRows, HasOutput, StoredAs, ledgerVars
<1>18. CASE RemoveLog
  BY <1>18
     DEF LedgerShape, FileShape, Counted, HasOutput, StoredAs, RemoveLog, Unlink, ledgerVars,
         storage
<1>19. CASE Database
  <2>1. UNCHANGED <<outputs, job>>
    BY <1>19 DEF Database, pipeVars, storage
  <2>2. ASSUME NEW S \in SUBSET inflight, Settle(S), NEW f \in Files, StoredAs(f, "Completed")'
        PROVE  StoredAs(f, "Completed")
    <3>1. \A u \in S : u.file = f /\ u.to = "Completed" => u = [file |-> f, to |-> "Completed"]
      BY DEF LedgerShape, Update
    <3>. QED  BY <2>2, <3>1, SettleFacts DEF StoredAs
  <2>3. ASSUME NEW u \in inflight, Park(u), NEW f \in Files, StoredAs(f, "Completed")'
        PROVE  StoredAs(f, "Completed")
    BY <2>3 DEF Park, StoredAs
  <2>. QED  BY <1>19, <2>1, <2>2, <2>3 DEF Database, HasOutput
<1>20. CASE Crash
  BY <1>20
     DEF LedgerShape, FileShape, Counted, HasOutput, StoredAs, Crash, Die, FreshProcess,
         Everywhere, storage
<1>21. CASE \/ CancelledScan \/ MatchFails \/ StartProcessing \/ LoadFails \/ LoadEnd
            \/ RealEnd \/ OpenArchive \/ BatchEnd \/ Join \/ Flush \/ Close \/ Break \/ Cancel
            \/ TogglePause \/ Uncancel
            \/ \E f \in Files : CopyFile(f) \/ ExtractFile(f)
  BY <1>1, <1>21 DEF CancelledScan, ledgerVars, storage, MatchFails, SweepStaging, Everywhere,
       StartProcessing, LoadFails, LoadEnd, Ready, CopyFile, RealEnd, OpenArchive, ExtractFile,
       BatchEnd, Join, Busy, Flush, Close, End, Break, Cancel, TogglePause, Uncancel
<1>. QED
  BY <1>1, <1>2, <1>3, <1>4, <1>5, <1>6, <1>7, <1>8, <1>9, <1>10, <1>11, <1>12, <1>13, <1>14,
     <1>15, <1>16, <1>17, <1>18, <1>19, <1>20, <1>21
     DEF Next, ProducerStep, ConsumerStep, vars, ledgerVars, pipeVars, storage, producer, tokens,
         count

(* With a database that works only a crash repeats an output. *)
LEMMA WrittenOnceStep ==
    ASSUME LedgerShape, RunShape, FileShape, Unsettled, Stages, OnePlace, Reserved, Counted,
           WrittenOnce, [Next]_vars
    PROVE  WrittenOnce'
<1>1. ASSUME UNCHANGED <<status, inflight, parked, outputs, broken, job, crashes>>
      PROVE  WrittenOnce'
  BY <1>1 DEF FileShape, WrittenOnce
<1>2. ASSUME NEW next \in {"matching", "replay"}, Open(next)
      PROVE  WrittenOnce'
  <2>1. \A f \in Files : status[f] \in Terminal => status'[f] \in Terminal
    BY <1>2, BeginFacts DEF Open, Terminal
  <2>2. /\ UNCHANGED <<inflight, parked, outputs, crashes>> /\ ~broken'
        /\ \A f \in Files : job[f] \notin Unfinished
    BY <1>2 DEF Open, Begin, FreshProcess, storage, Stages, AtWork
  <2>. QED  BY <2>1, <2>2 DEF WrittenOnce, Unfinished
<1>3. ASSUME NEW m \in [Files -> Confidence], MatchFiles(m)
      PROVE  WrittenOnce'
  <2>1. \A f \in Files : status[f] \in Terminal => status'[f] \in Terminal
    BY <1>3, MatchFacts DEF MatchFiles, Terminal
  <2>2. UNCHANGED <<inflight, parked, outputs, job, broken, crashes>>
    BY <1>3 DEF MatchFiles, Match, storage, count
  <2>. QED  BY <2>1, <2>2 DEF WrittenOnce
<1>4. ASSUME NEW S \in SUBSET Files, LoadBatch(S)
      PROVE  WrittenOnce'
  <2>1. \A f \in Files : status[f] \in Terminal => status'[f] \in Terminal
    BY <1>4, TakeFacts DEF LoadBatch, Terminal, Claimable
  <2>2. UNCHANGED <<inflight, parked, outputs, job, broken, crashes>>
    BY <1>4 DEF LoadBatch, Take, storage, count
  <2>. QED  BY <2>1, <2>2 DEF WrittenOnce
<1>5. ASSUME NEW f \in Files, CopyFails(f)
      PROVE  WrittenOnce'
  BY <1>5
     DEF FileShape, WrittenOnce, CopyFails, Enqueue, ledgerVars, Accept, CancelIfRefused, storage,
         count
<1>6. ASSUME NEW f \in Files, ArchiveFails(f)
      PROVE  WrittenOnce'
  BY <1>6
     DEF FileShape, WrittenOnce, ArchiveFails, Enqueue, ledgerVars, Accept, CancelIfRefused,
         storage, count
<1>7. ASSUME NEW f \in Files, ExtractFails(f)
      PROVE  WrittenOnce'
  BY <1>7 DEF FileShape, WrittenOnce, ExtractFails, Enqueue, ledgerVars, Accept, storage, count
<1>8. ASSUME NEW f \in Files, Send(f)
      PROVE  WrittenOnce'
  <2>1. job[f] = "none" /\ job' = [job EXCEPT ![f] = "queued"]
    BY <1>8 DEF Send, OnePlace
  <2>2. UNCHANGED <<status, inflight, parked, outputs, broken, crashes>>
    BY <1>8 DEF Send, ledgerVars, storage, count
  <2>. QED  BY <2>1, <2>2 DEF FileShape, WrittenOnce
<1>9. CASE TakeItem
  <2>. DEFINE f == Head(channel)
  <2>1. f \in Files /\ job[f] = "queued"
    BY <1>9, TailShape DEF TakeItem, FileShape, OnePlace
  <2>2. /\ \E to \in {"dropped", "waiting"} : job' = [job EXCEPT ![f] = to]
        /\ UNCHANGED <<status, inflight, parked, outputs, broken, crashes>>
    BY <1>9 DEF TakeItem, Advance, storage, producer, count, ledgerVars
  <2>. HIDE DEF f
  <2>. QED  BY <2>1, <2>2 DEF FileShape, WrittenOnce
<1>10. ASSUME NEW f \in Files, PauseOver(f)
      PROVE  WrittenOnce'
  BY <1>10 DEF FileShape, WrittenOnce, PauseOver, Advance, ledgerVars, storage, count
<1>11. ASSUME NEW f \in Files, SkipFile(f)
      PROVE  WrittenOnce'
  BY <1>11
     DEF FileShape, WrittenOnce, SkipFile, Enqueue, ledgerVars, Accept, CancelIfRefused, Advance,
         count
<1>12. ASSUME NEW f \in Files, DeliverFile(f)
      PROVE  WrittenOnce'
  <2>1. status[f] = "Processing" /\ \A u \in inflight : u.file # f
    BY <1>12 DEF DeliverFile, Reserved, MayReport, Busy
  <2>2. job[f] = "working" /\ job' = [job EXCEPT ![f] = "delivered"] /\ outputs' = [outputs EXCEPT ![f] = @ + 1]
    BY <1>12 DEF DeliverFile, Advance
  <2>3. UNCHANGED <<status, inflight, parked, broken, crashes>>
    BY <1>12 DEF DeliverFile, ledgerVars, count
  <2>4. \A g \in Files : outputs[g] \in Nat /\ crashes \in Nat
    BY DEF Counted, RunShape
  <2>. QED  BY <2>1, <2>2, <2>3, <2>4 DEF FileShape, Counted, WrittenOnce, Terminal
<1>13. ASSUME NEW f \in Files, FailFile(f)
      PROVE  WrittenOnce'
  BY <1>13 DEF FileShape, WrittenOnce, FailFile, Advance, ledgerVars, count
<1>14. ASSUME NEW f \in Files, VerifyFails(f)
      PROVE  WrittenOnce'
  <2>1. job[f] = "delivered" /\ job' = [job EXCEPT ![f] = "failed"] /\ outputs' = [outputs EXCEPT ![f] = @ - 1]
    BY <1>14 DEF VerifyFails, Advance
  <2>2. UNCHANGED <<status, inflight, parked, broken, crashes>>
    BY <1>14 DEF VerifyFails, ledgerVars, count
  <2>3. \A g \in Files : outputs[g] \in Nat /\ crashes \in Nat
    BY DEF Counted, RunShape
  <2>. QED  BY <2>1, <2>2, <2>3 DEF FileShape, Counted, WrittenOnce
<1>15. ASSUME NEW f \in Files, CompleteFile(f)
      PROVE  WrittenOnce'
  BY <1>15
     DEF FileShape, WrittenOnce, CompleteFile, Enqueue, ledgerVars, Accept, CancelIfRefused,
         Advance, storage, count
<1>16. ASSUME NEW f \in Files, ReportError(f)
      PROVE  WrittenOnce'
  BY <1>16
     DEF FileShape, WrittenOnce, ReportError, Enqueue, ledgerVars, Accept, CancelIfRefused,
         Advance, storage, count
<1>17. CASE ReplayRows
  BY <1>17
     DEF FileShape, WrittenOnce, ReplayRows, Replay, RowsAfter, ledgerVars, storage, count,
         Terminal
<1>18. CASE RemoveLog
  BY <1>18 DEF FileShape, WrittenOnce, RemoveLog, Unlink, ledgerVars, storage, count
<1>19. CASE Database
  <2>1. UNCHANGED <<outputs, job, broken, crashes>>
    BY <1>19 DEF Database, pipeVars, storage, count
  <2>2. ASSUME NEW S \in SUBSET inflight, Settle(S)
        PROVE  WrittenOnce'
    <3>1. \A u \in S : u.to \in Terminal
      BY DEF LedgerShape, Update
    <3>2. \A f \in Files : status[f] \in Terminal \/ (\E u \in inflight : u.file = f) =>
             status'[f] \in Terminal \/ \E u \in inflight' : u.file = f
      BY <2>2, <3>1, SettleFacts
    <3>3. parked' = parked
      BY <2>2 DEF Settle
    <3>. QED  BY <2>1, <3>2, <3>3 DEF WrittenOnce
  <2>3. CASE MayPark
    BY <2>3 DEF WrittenOnce
  <2>. QED  BY <1>19, <2>2, <2>3 DEF Database
<1>20. CASE Break
  BY <1>20 DEF FileShape, WrittenOnce, Break, ledgerVars, storage, count
<1>21. CASE Crash
  <2>1. crashes' = crashes + 1 /\ UNCHANGED <<outputs, parked>> /\ ~broken'
    BY <1>21 DEF Crash, Die, FreshProcess, storage
  <2>2. \A f \in Files : outputs[f] \in Nat /\ crashes \in Nat
    BY DEF Counted, RunShape
  <2>. QED  BY <2>1, <2>2 DEF WrittenOnce
<1>22. CASE \/ CancelledScan \/ MatchFails \/ StartProcessing \/ LoadFails \/ LoadEnd
            \/ RealEnd \/ OpenArchive \/ BatchEnd \/ Join \/ Flush \/ Close \/ Cancel
            \/ TogglePause \/ Uncancel
            \/ \E f \in Files : CopyFile(f) \/ ExtractFile(f)
  BY <1>1, <1>22 DEF CancelledScan, ledgerVars, storage, count, MatchFails, SweepStaging,
       Everywhere, StartProcessing, LoadFails, LoadEnd, Ready, CopyFile, RealEnd, OpenArchive,
       ExtractFile, BatchEnd, Join, Busy, Flush, Close, End, Cancel, TogglePause, Uncancel
<1>. QED
  BY <1>1, <1>2, <1>3, <1>4, <1>5, <1>6, <1>7, <1>8, <1>9, <1>10, <1>11, <1>12, <1>13, <1>14,
     <1>15, <1>16, <1>17, <1>18, <1>19, <1>20, <1>21, <1>22
     DEF Next, ProducerStep, ConsumerStep, vars, ledgerVars, pipeVars, storage, producer, tokens,
         count
-----------------------------------------------------------------------------
(* What is stored of a file.                                                *)

(* What the writer does to the rows. *)
LEMMA DatabaseFacts ==
    ASSUME LedgerShape, Unsettled, Database
    PROVE  /\ UNCHANGED pipeVars
           /\ \A f \in Files : \/ status'[f] = status[f]
                               \/ status[f] = "Processing" /\ status'[f] \in Terminal
<1>1. ASSUME NEW S \in SUBSET inflight, Settle(S), NEW f \in Files
      PROVE  \/ status'[f] = status[f]
             \/ status[f] = "Processing" /\ status'[f] \in Terminal
  <2>1. \A u \in S : u.to \in Terminal /\ status[u.file] = "Processing"
    BY DEF LedgerShape, Update, Unsettled
  <2>2. \/ status'[f] = status[f]
        \/ \E u \in S : u.file = f /\ status'[f] = u.to
    BY <1>1, SettleFacts
  <2>. QED  BY <2>1, <2>2
<1>2. ASSUME NEW u \in inflight, Park(u)
      PROVE  status' = status
  BY <1>2 DEF Park
<1>. QED  BY <1>1, <1>2 DEF Database

(* An outcome is stored once the database took it: ... *)
LEMMA EnqueueFacts ==
    ASSUME LedgerShape, NEW f \in Files, NEW to \in Terminal, Enqueue(f, to)
    PROVE  /\ UNCHANGED <<status, confidence, live, parked>> /\ inflight \subseteq inflight'
           /\ ~broken => StoredAs(f, to)'
           /\ ~broken => live /\ status[f] = "Processing" /\ \A u \in inflight : u.file # f
<1>1. CASE broken
  BY <1>1 DEF Enqueue, ledgerVars
<1>2. CASE ~broken
  BY <1>2 DEF Enqueue, Accept, StoredAs
<1>. QED  BY <1>1, <1>2

(* ... it has one then, ... *)
LEMMA StoredIsOutcome ==
    ASSUME LedgerShape, NEW f \in Files
    PROVE  HasOutcome(f) <=> \E s \in Terminal : StoredAs(f, s)
<1>1. ASSUME NEW u \in inflight \cup parked, u.file = f
      PROVE  \E s \in Terminal : StoredAs(f, s)
  <2>1. u = [file |-> f, to |-> u.to] /\ u.to \in Terminal
    BY <1>1 DEF LedgerShape, Update
  <2>. QED  BY <2>1 DEF StoredAs
<1>2. ASSUME NEW s \in Terminal, StoredAs(f, s)
      PROVE  HasOutcome(f)
  BY <1>2 DEF StoredAs, HasOutcome
<1>. QED  BY <1>1, <1>2 DEF HasOutcome, StoredAs

(* ... and it stays stored while the run goes on. *)
LEMMA StoredKept ==
    ASSUME LedgerShape, Unsettled, pc \notin {"closed", "replay", "unlink"},
           pc' # "closed" \/ inflight = {}, NEW f \in Files, NEW s \in Terminal, StoredAs(f, s),
           [Next]_vars
    PROVE  StoredAs(f, s)'
<1>. DEFINE Kept == StoredAs(f, s)'
<1>. SUFFICES Kept
  OBVIOUS
<1>1. ASSUME UNCHANGED <<status, inflight, parked>>
      PROVE  Kept
  BY <1>1 DEF StoredAs
<1>2. ASSUME NEW next \in {"matching", "replay"}, Open(next)
      PROVE  Kept
  BY <1>2 DEF Open
<1>3. ASSUME NEW m \in [Files -> Confidence], MatchFiles(m)
      PROVE  Kept
  BY <1>3, MatchFacts DEF MatchFiles, Match, StoredAs, Terminal
<1>4. ASSUME NEW S \in SUBSET Files, LoadBatch(S)
      PROVE  Kept
  BY <1>4, TakeFacts DEF LoadBatch, Take, StoredAs, Terminal, Claimable
<1>5. ASSUME NEW g \in Files, CopyFails(g)
      PROVE  Kept
  BY <1>5, EnqueueFacts DEF CopyFails, StoredAs, Terminal
<1>6. ASSUME NEW g \in Files, ArchiveFails(g)
      PROVE  Kept
  BY <1>6, EnqueueFacts DEF ArchiveFails, StoredAs, Terminal
<1>7. ASSUME NEW g \in Files, ExtractFails(g)
      PROVE  Kept
  BY <1>7, EnqueueFacts DEF ExtractFails, StoredAs, Terminal
<1>8. ASSUME NEW g \in Files, SkipFile(g)
      PROVE  Kept
  BY <1>8, EnqueueFacts DEF SkipFile, StoredAs, Terminal
<1>9. ASSUME NEW g \in Files, CompleteFile(g)
      PROVE  Kept
  BY <1>9, EnqueueFacts DEF CompleteFile, StoredAs, Terminal
<1>10. ASSUME NEW g \in Files, ReportError(g)
      PROVE  Kept
  BY <1>10, EnqueueFacts DEF ReportError, StoredAs, Terminal
<1>11. CASE ReplayRows
  BY <1>11 DEF ReplayRows
<1>12. CASE RemoveLog
  BY <1>12 DEF RemoveLog
<1>13. CASE Database
  <2>1. ASSUME NEW S \in SUBSET inflight, Settle(S)
        PROVE  Kept
    <3>1. \A u \in S : u.file = f /\ [file |-> f, to |-> s] \in inflight => u.to = s
      BY DEF Unsettled
    <3>2. status[f] = s => \A u \in S : u.file # f
      BY DEF Unsettled, Terminal
    <3>. QED  BY <2>1, <3>1, <3>2, SettleFacts DEF StoredAs
  <2>2. ASSUME NEW u \in inflight, Park(u)
        PROVE  Kept
    BY <2>2 DEF Park, StoredAs
  <2>. QED  BY <1>13, <2>1, <2>2 DEF Database
<1>14. CASE Crash
  BY <1>14 DEF Crash, Die, StoredAs
<1>15. CASE \/ CancelledScan \/ MatchFails \/ StartProcessing \/ LoadFails \/ LoadEnd
            \/ RealEnd \/ OpenArchive \/ BatchEnd \/ Join \/ Flush \/ TakeItem \/ Close
            \/ Break \/ Cancel \/ TogglePause \/ Uncancel
            \/ \E g \in Files : CopyFile(g) \/ ExtractFile(g) \/ Send(g) \/ PauseOver(g)
            \/ \E g \in Files : DeliverFile(g) \/ FailFile(g) \/ VerifyFails(g)
  BY <1>1, <1>15 DEF CancelledScan, ledgerVars, MatchFails, StartProcessing, LoadFails, LoadEnd,
       Ready, CopyFile, RealEnd, OpenArchive, ExtractFile, BatchEnd, Send, Join, Flush, TakeItem,
       PauseOver, DeliverFile, FailFile, VerifyFails, Close, End, Break, Cancel, TogglePause,
       Uncancel
<1>. HIDE DEF Kept
<1>. QED
  BY <1>1, <1>2, <1>3, <1>4, <1>5, <1>6, <1>7, <1>8, <1>9, <1>10, <1>11, <1>12, <1>13, <1>14,
     <1>15
     DEF Next, ProducerStep, ConsumerStep, vars, ledgerVars, pipeVars, storage, producer, tokens,
         count

(* So an outcome is not lost. *)
LEMMA OutcomeKept ==
    ASSUME LedgerShape, Unsettled, pc \notin {"closed", "replay", "unlink"}, pc' # "closed",
           NEW f \in Files, HasOutcome(f), [Next]_vars
    PROVE  HasOutcome(f)'
<1>1. PICK s \in Terminal : StoredAs(f, s)
  BY StoredIsOutcome
<1>2. StoredAs(f, s)'
  BY <1>1, StoredKept
<1>. QED  BY <1>2 DEF StoredAs, HasOutcome
-----------------------------------------------------------------------------
(* A run that is completed.                                                 *)

(* The rows that a run has not loaded wait for it, or are finished. *)
LEMMA RowsReadyStep ==
    ASSUME LedgerShape, RunShape, Unsettled, Stages, OnePlace, RowsReady, [Next]_vars
    PROVE  RowsReady'
<1>1. ASSUME UNCHANGED <<status, pc, loaded>>
      PROVE  RowsReady'
  BY <1>1 DEF RowsReady, AtWork
<1>2. ASSUME NEW next \in {"matching", "replay"}, Open(next)
      PROVE  RowsReady'
  <2>1. pc' \in {"matching", "replay"} /\ loaded' = {}
    BY <1>2 DEF Open, FreshProcess
  <2>2. \A f \in Files : status'[f] # "Processing"
    BY <1>2, BeginFacts DEF Open, Claimable
  <2>. QED  BY <2>1, <2>2 DEF RowsReady, AtWork
<1>3. CASE CancelledScan
  BY <1>3 DEF RowsReady, AtWork, CancelledScan, Finish, ledgerVars
<1>4. ASSUME NEW m \in [Files -> Confidence], MatchFiles(m)
      PROVE  RowsReady'
  <2>1. pc' = "start" /\ loaded' = {} /\ pc = "matching"
    BY <1>4 DEF MatchFiles, GoTo, RowsReady
  <2>2. \A f \in Files : status'[f] \in Claimable \cup Terminal
    BY <1>4, <2>1, MatchFacts DEF MatchFiles, RowsReady, LedgerShape, Status
  <2>. QED  BY <2>1, <2>2 DEF RowsReady, AtWork
<1>5. CASE MatchFails
  BY <1>5 DEF RowsReady, AtWork, MatchFails, Finish, ledgerVars
<1>6. CASE StartProcessing
  BY <1>6 DEF RowsReady, AtWork, StartProcessing, Finish, GoTo, ledgerVars
<1>7. ASSUME NEW S \in SUBSET Files, LoadBatch(S)
      PROVE  RowsReady'
  <2>1. pc' = "real" /\ loaded' = loaded \cup S /\ pc = "load"
    BY <1>7 DEF LoadBatch
  <2>2. \A f \in Files \ S : status'[f] = status[f]
    BY <1>7, TakeFacts DEF LoadBatch
  <2>. QED  BY <2>1, <2>2 DEF RowsReady, AtWork
<1>8. CASE LoadFails
  BY <1>8 DEF RowsReady, AtWork, LoadFails, GoTo, ledgerVars
<1>9. CASE LoadEnd
  BY <1>9 DEF RowsReady, AtWork, LoadEnd, Ready, GoTo, ledgerVars
<1>10. ASSUME NEW f \in Files, CopyFile(f)
      PROVE  RowsReady'
  BY <1>10 DEF RowsReady, AtWork, CopyFile, ledgerVars
<1>11. CASE RealEnd
  BY <1>11 DEF RowsReady, AtWork, RealEnd, ledgerVars
<1>12. CASE OpenArchive
  BY <1>12 DEF RowsReady, AtWork, OpenArchive, GoTo, ledgerVars
<1>13. ASSUME NEW f \in Files, ExtractFile(f)
      PROVE  RowsReady'
  BY <1>13 DEF RowsReady, AtWork, ExtractFile, ledgerVars
<1>14. CASE BatchEnd
  BY <1>14 DEF RowsReady, AtWork, BatchEnd, ledgerVars
<1>15. ASSUME NEW f \in Files, Send(f)
      PROVE  RowsReady'
  BY <1>15 DEF RowsReady, AtWork, Send, ledgerVars
<1>16. CASE Join
  BY <1>16 DEF RowsReady, AtWork, Join, Finish, GoTo, ledgerVars
<1>17. CASE Flush
  BY <1>17 DEF RowsReady, AtWork, Flush, Finish, ledgerVars
<1>18. CASE Close
  BY <1>18 DEF RowsReady, AtWork, Close, End, GoTo
<1>19. CASE ReplayRows
  BY <1>19 DEF ReplayRows, GoTo, RowsReady, AtWork
<1>20. CASE RemoveLog
  BY <1>20 DEF RowsReady, AtWork, RemoveLog, Unlink, ledgerVars, GoTo
<1>21. CASE Database
  <2>1. UNCHANGED <<pc, loaded>>
    BY <1>21, DatabaseFacts DEF pipeVars, storage, producer, tokens, count
  <2>. QED  BY <1>21, <2>1, DatabaseFacts DEF RowsReady
<1>22. CASE Crash
  BY <1>22 DEF RowsReady, AtWork, Crash, Die, FreshProcess, Everywhere
<1>23. CASE \/ TakeItem \/ Break \/ Cancel \/ TogglePause \/ Uncancel
            \/ \E f \in Files : CopyFails(f) \/ ArchiveFails(f) \/ ExtractFails(f) \/ PauseOver(f)
            \/ \E f \in Files : SkipFile(f) \/ DeliverFile(f) \/ FailFile(f) \/ VerifyFails(f)
            \/ \E f \in Files : CompleteFile(f) \/ ReportError(f)
  BY <1>1, <1>23 DEF CopyFails, Enqueue, ledgerVars, Accept, ArchiveFails, ExtractFails, TakeItem,
       producer, PauseOver, SkipFile, DeliverFile, FailFile, VerifyFails, CompleteFile,
       ReportError, Break, Cancel, Running, TogglePause, Uncancel
<1>. QED
  BY <1>1, <1>2, <1>3, <1>4, <1>5, <1>6, <1>7, <1>8, <1>9, <1>10, <1>11, <1>12, <1>13, <1>14,
     <1>15, <1>16, <1>17, <1>18, <1>19, <1>20, <1>21, <1>22, <1>23
     DEF Next, ProducerStep, ConsumerStep, vars, ledgerVars, pipeVars, storage, producer, tokens,
         count

(* A producer that was not cancelled has loaded every file that was ready. *)
LEMMA AllLoadedStep ==
    ASSUME ~MayUncancel, LedgerShape, Unsettled, AllLoaded, [Next]_vars
    PROVE  AllLoaded'
<1>1. ASSUME UNCHANGED <<status, pc, loaded, cancel>>
      PROVE  AllLoaded'
  BY <1>1 DEF AllLoaded
<1>2. ASSUME NEW next \in {"matching", "replay"}, Open(next)
      PROVE  AllLoaded'
  BY <1>2 DEF Open, AllLoaded
<1>3. CASE CancelledScan
  BY <1>3 DEF AllLoaded, CancelledScan, Finish, ledgerVars, tokens
<1>4. ASSUME NEW m \in [Files -> Confidence], MatchFiles(m)
      PROVE  AllLoaded'
  BY <1>4 DEF MatchFiles, GoTo, AllLoaded
<1>5. CASE MatchFails
  BY <1>5 DEF AllLoaded, MatchFails, Finish, ledgerVars, tokens
<1>6. CASE StartProcessing
  BY <1>6 DEF AllLoaded, StartProcessing, Finish, GoTo, ledgerVars, tokens
<1>7. ASSUME NEW S \in SUBSET Files, LoadBatch(S)
      PROVE  AllLoaded'
  BY <1>7 DEF LoadBatch, AllLoaded
<1>8. CASE LoadFails
  BY <1>8 DEF AllLoaded, LoadFails, GoTo, ledgerVars
<1>9. CASE LoadEnd
  BY <1>9 DEF AllLoaded, LoadEnd, Ready, GoTo, ledgerVars, tokens
<1>10. ASSUME NEW f \in Files, CopyFile(f)
      PROVE  AllLoaded'
  BY <1>10 DEF AllLoaded, CopyFile, ledgerVars, tokens
<1>11. ASSUME NEW f \in Files, CopyFails(f)
      PROVE  AllLoaded'
  BY <1>11 DEF AllLoaded, CopyFails, Enqueue, ledgerVars, Accept, CancelIfRefused
<1>12. CASE RealEnd
  BY <1>12 DEF AllLoaded, RealEnd, ledgerVars, tokens
<1>13. CASE OpenArchive
  BY <1>13 DEF AllLoaded, OpenArchive, GoTo, ledgerVars, tokens
<1>14. ASSUME NEW f \in Files, ArchiveFails(f)
      PROVE  AllLoaded'
  BY <1>14 DEF AllLoaded, ArchiveFails, Enqueue, ledgerVars, Accept, CancelIfRefused
<1>15. ASSUME NEW f \in Files, ExtractFile(f)
      PROVE  AllLoaded'
  BY <1>15 DEF AllLoaded, ExtractFile, ledgerVars
<1>16. CASE BatchEnd
  BY <1>16 DEF AllLoaded, BatchEnd, ledgerVars, tokens
<1>17. ASSUME NEW f \in Files, Send(f)
      PROVE  AllLoaded'
  BY <1>17 DEF AllLoaded, Send, ledgerVars, tokens
<1>18. CASE Join
  BY <1>18 DEF AllLoaded, Join, Finish, GoTo, ledgerVars, tokens
<1>19. CASE Flush
  BY <1>19 DEF AllLoaded, Flush, Finish, ledgerVars, tokens
<1>20. ASSUME NEW f \in Files, SkipFile(f)
      PROVE  AllLoaded'
  BY <1>20 DEF AllLoaded, SkipFile, Enqueue, ledgerVars, Accept, CancelIfRefused, producer
<1>21. ASSUME NEW f \in Files, CompleteFile(f)
      PROVE  AllLoaded'
  BY <1>21 DEF AllLoaded, CompleteFile, Enqueue, ledgerVars, Accept, CancelIfRefused, producer
<1>22. ASSUME NEW f \in Files, ReportError(f)
      PROVE  AllLoaded'
  BY <1>22 DEF AllLoaded, ReportError, Enqueue, ledgerVars, Accept, CancelIfRefused, producer
<1>23. CASE Close
  BY <1>23 DEF AllLoaded, Close, End, GoTo, tokens
<1>24. CASE ReplayRows
  BY <1>24 DEF ReplayRows, GoTo, AllLoaded
<1>25. CASE RemoveLog
  BY <1>25 DEF AllLoaded, RemoveLog, Unlink, ledgerVars, GoTo, tokens
<1>26. CASE Database
  <2>1. UNCHANGED <<pc, cancel, loaded>>
    BY <1>26, DatabaseFacts DEF pipeVars, storage, producer, tokens, count
  <2>. QED  BY <1>26, <2>1, DatabaseFacts DEF AllLoaded, Terminal, Claimable
<1>27. CASE Cancel
  BY <1>27 DEF AllLoaded, Cancel, Running, ledgerVars, producer
<1>28. CASE Uncancel
  BY <1>28 DEF AllLoaded, Uncancel, Running, ledgerVars, producer
<1>29. CASE Crash
  BY <1>29 DEF AllLoaded, Crash, Die, FreshProcess, Everywhere
<1>30. CASE \/ TakeItem \/ Break \/ TogglePause
            \/ \E f \in Files : ExtractFails(f) \/ PauseOver(f) \/ DeliverFile(f) \/ FailFile(f)
            \/ \E f \in Files : VerifyFails(f)
  BY <1>1, <1>30 DEF ExtractFails, Enqueue, ledgerVars, Accept, tokens, TakeItem, producer,
       PauseOver, DeliverFile, FailFile, VerifyFails, Break, TogglePause, Running
<1>. QED
  BY <1>1, <1>2, <1>3, <1>4, <1>5, <1>6, <1>7, <1>8, <1>9, <1>10, <1>11, <1>12, <1>13, <1>14,
     <1>15, <1>16, <1>17, <1>18, <1>19, <1>20, <1>21, <1>22, <1>23, <1>24, <1>25, <1>26, <1>27,
     <1>28, <1>29, <1>30
     DEF Next, ProducerStep, ConsumerStep, vars, ledgerVars, pipeVars, storage, producer, tokens,
         count

(* Unless the run is cancelled, each file that it loaded is with somebody or has its outcome. *)
LEMMA AccountedStep ==
    ASSUME ~MayUncancel, LedgerShape, RunShape, FileShape, Unsettled, Stages, OnePlace, RowsReady,
           Accounted, [Next]_vars
    PROVE  Accounted'
<1>0. pc \in AtWork /\ pc' \in AtWork => \A f \in Files : HasOutcome(f) => HasOutcome(f)'
  BY OutcomeKept DEF AtWork
<1>1. ASSUME UNCHANGED <<status, inflight, parked, pc, loaded, todo, current, cancel, broken,
                           job>>
      PROVE  Accounted'
  BY <1>1 DEF Accounted, MayReport, Busy, HasOutcome
<1>2. ASSUME NEW next \in {"matching", "replay"}, Open(next)
      PROVE  Accounted'
  BY <1>2 DEF Open, Accounted, AtWork
<1>3. CASE CancelledScan
  BY <1>3 DEF CancelledScan, Finish, Accounted, AtWork
<1>4. ASSUME NEW m \in [Files -> Confidence], MatchFiles(m)
      PROVE  Accounted'
  BY <1>4 DEF MatchFiles, GoTo, Accounted, AtWork
<1>5. CASE MatchFails
  BY <1>5 DEF MatchFails, Finish, Accounted, AtWork
<1>6. CASE StartProcessing
  BY <1>6 DEF StartProcessing, Finish, GoTo, RowsReady, Accounted, AtWork
<1>7. ASSUME NEW S \in SUBSET Files, LoadBatch(S)
      PROVE  Accounted'
  <2>1. /\ loaded' = loaded \cup S /\ UNCHANGED <<broken, cancel>>
        /\ pc = "load" /\ pc' = "real" /\ S \subseteq Files
    BY <1>7 DEF LoadBatch, tokens
  <2>2. \A g \in Files : MayReport(g) \/ g \in S => MayReport(g)'
    BY <1>7 DEF LoadBatch, Stages, Batching, MayReport, Busy
  <2>. QED  BY <1>0, <2>1, <2>2 DEF Accounted, RunShape, AtWork
<1>8. CASE LoadFails
  BY <1>8 DEF LoadFails, Accounted
<1>9. CASE LoadEnd
  <2>1. loaded' = loaded /\ broken' = broken /\ (~cancel' => ~cancel) /\ pc \in AtWork /\ pc' \in AtWork
    BY <1>9 DEF LoadEnd, AtWork, GoTo, tokens
  <2>2. ~cancel' => \A g \in Files : MayReport(g) => MayReport(g)'
    BY <1>9 DEF LoadEnd, GoTo, MayReport, Busy
  <2>. QED  BY <1>0, <2>1, <2>2 DEF Accounted, RunShape
<1>10. ASSUME NEW f \in Files, CopyFile(f)
      PROVE  Accounted'
  <2>1. loaded' = loaded /\ broken' = broken /\ (~cancel' => ~cancel) /\ pc \in AtWork /\ pc' \in AtWork
    BY <1>10 DEF CopyFile, AtWork, tokens
  <2>2. ~cancel' => \A g \in Files : MayReport(g) => MayReport(g)'
    BY <1>10 DEF CopyFile, Stages, Batching, tokens, MayReport, Busy
  <2>. QED  BY <1>0, <2>1, <2>2 DEF Accounted, RunShape
<1>11. ASSUME NEW f \in Files, CopyFails(f)
      PROVE  Accounted'
  <2>1. Enqueue(f, "Error") /\ UNCHANGED <<loaded, current, broken>>
    BY <1>11 DEF CopyFails
  <2>2. ~broken => HasOutcome(f)'
    BY <2>1, EnqueueFacts DEF Terminal, StoredAs, HasOutcome
  <2>3. UNCHANGED pc /\ (~cancel' => ~cancel) /\ \A g \in Files : g # f /\ MayReport(g) => MayReport(g)'
    BY <1>11 DEF CopyFails, CancelIfRefused, MayReport, Busy
  <2>. QED  BY <1>0, <2>1, <2>2, <2>3 DEF Accounted, RunShape
<1>12. CASE RealEnd
  <2>1. loaded' = loaded /\ broken' = broken /\ (~cancel' => ~cancel) /\ pc \in AtWork /\ pc' \in AtWork
    BY <1>12 DEF RealEnd, AtWork, tokens
  <2>2. ~cancel' => \A g \in Files : MayReport(g) => MayReport(g)'
    BY <1>12 DEF RealEnd, RunShape, tokens, MayReport, Busy
  <2>. QED  BY <1>0, <2>1, <2>2 DEF Accounted, RunShape
<1>13. CASE OpenArchive
  <2>1. loaded' = loaded /\ broken' = broken /\ (~cancel' => ~cancel) /\ pc \in AtWork /\ pc' \in AtWork
    BY <1>13 DEF OpenArchive, AtWork, GoTo, tokens
  <2>2. ~cancel' => \A g \in Files : MayReport(g) => MayReport(g)'
    BY <1>13 DEF OpenArchive, GoTo, MayReport, Busy
  <2>. QED  BY <1>0, <2>1, <2>2 DEF Accounted, RunShape
<1>14. ASSUME NEW f \in Files, ArchiveFails(f)
      PROVE  Accounted'
  <2>1. Enqueue(f, "Error") /\ UNCHANGED <<loaded, current, broken>>
    BY <1>14 DEF ArchiveFails
  <2>2. ~broken => HasOutcome(f)'
    BY <2>1, EnqueueFacts DEF Terminal, StoredAs, HasOutcome
  <2>3. UNCHANGED pc /\ (~cancel' => ~cancel) /\ \A g \in Files : g # f /\ MayReport(g) => MayReport(g)'
    BY <1>14 DEF ArchiveFails, CancelIfRefused, MayReport, Busy
  <2>. QED  BY <1>0, <2>1, <2>2, <2>3 DEF Accounted, RunShape
<1>15. ASSUME NEW f \in Files, ExtractFile(f)
      PROVE  Accounted'
  <2>1. loaded' = loaded /\ broken' = broken /\ (~cancel' => ~cancel) /\ pc \in AtWork /\ pc' \in AtWork
    BY <1>15 DEF ExtractFile, AtWork
  <2>2. ~cancel' => \A g \in Files : MayReport(g) => MayReport(g)'
    BY <1>15 DEF ExtractFile, Stages, MayReport, Busy
  <2>. QED  BY <1>0, <2>1, <2>2 DEF Accounted, RunShape
<1>16. ASSUME NEW f \in Files, ExtractFails(f)
      PROVE  Accounted'
  <2>1. Enqueue(f, "Error") /\ UNCHANGED <<loaded, current, broken>>
    BY <1>16 DEF ExtractFails
  <2>2. ~broken => HasOutcome(f)'
    BY <2>1, EnqueueFacts DEF Terminal, StoredAs, HasOutcome
  <2>3. UNCHANGED pc /\ (~cancel' => ~cancel) /\ \A g \in Files : g # f /\ MayReport(g) => MayReport(g)'
    BY <1>16 DEF ExtractFails, tokens, MayReport, Busy
  <2>. QED  BY <1>0, <2>1, <2>2, <2>3 DEF Accounted, RunShape
<1>17. CASE BatchEnd
  <2>1. loaded' = loaded /\ broken' = broken /\ (~cancel' => ~cancel) /\ pc \in AtWork /\ pc' \in AtWork
    BY <1>17 DEF BatchEnd, AtWork, tokens
  <2>2. ~cancel' => \A g \in Files : MayReport(g) => MayReport(g)'
    BY <1>17 DEF BatchEnd, tokens, MayReport, Busy
  <2>. QED  BY <1>0, <2>1, <2>2 DEF Accounted, RunShape
<1>18. ASSUME NEW f \in Files, Send(f)
      PROVE  Accounted'
  <2>1. loaded' = loaded /\ broken' = broken /\ (~cancel' => ~cancel) /\ pc \in AtWork /\ pc' \in AtWork
    BY <1>18 DEF Send, AtWork, tokens
  <2>2. ~cancel' => \A g \in Files : MayReport(g) => MayReport(g)'
    BY <1>18 DEF Send, Stages, FileShape, MayReport, Busy
  <2>. QED  BY <1>0, <2>1, <2>2 DEF Accounted, RunShape
<1>19. CASE Join
  BY <1>19 DEF Join, Finish, GoTo, Accounted, AtWork
<1>20. CASE Flush
  BY <1>20 DEF Flush, Finish, Accounted, AtWork
<1>21. CASE TakeItem
  <2>1. UNCHANGED <<pc, loaded, cancel, broken>>
    BY <1>21 DEF TakeItem, producer, tokens
  <2>2. ~cancel => job' = [job EXCEPT ![Head(channel)] = "waiting"] /\ UNCHANGED <<todo, current>>
    BY <1>21 DEF TakeItem, Advance, producer
  <2>3. ~cancel => \A g \in Files : MayReport(g) => MayReport(g)'
    BY <2>2 DEF FileShape, MayReport, Busy
  <2>. QED  BY <1>0, <2>1, <2>3 DEF Accounted, RunShape
<1>22. ASSUME NEW f \in Files, PauseOver(f)
      PROVE  Accounted'
  <2>1. UNCHANGED <<pc, loaded, cancel, broken>>
    BY <1>22 DEF PauseOver, producer, tokens
  <2>2. \A g \in Files : MayReport(g) => MayReport(g)'
    BY <1>22 DEF PauseOver, Advance, producer, FileShape, MayReport, Busy
  <2>. QED  BY <1>0, <2>1, <2>2 DEF Accounted, RunShape
<1>23. ASSUME NEW f \in Files, SkipFile(f)
      PROVE  Accounted'
  <2>1. Enqueue(f, "Skipped") /\ UNCHANGED <<loaded, current, broken>>
    BY <1>23 DEF SkipFile, producer
  <2>2. ~broken => HasOutcome(f)'
    BY <2>1, EnqueueFacts DEF Terminal, StoredAs, HasOutcome
  <2>3. UNCHANGED pc /\ (~cancel' => ~cancel) /\ \A g \in Files : g # f /\ MayReport(g) => MayReport(g)'
    BY <1>23 DEF SkipFile, CancelIfRefused, producer, Advance, FileShape, MayReport, Busy
  <2>. QED  BY <1>0, <2>1, <2>2, <2>3 DEF Accounted, RunShape
<1>24. ASSUME NEW f \in Files, DeliverFile(f)
      PROVE  Accounted'
  <2>1. UNCHANGED <<pc, loaded, cancel, broken>>
    BY <1>24 DEF DeliverFile, producer, tokens
  <2>2. \A g \in Files : MayReport(g) => MayReport(g)'
    BY <1>24 DEF DeliverFile, Advance, producer, FileShape, MayReport, Busy
  <2>. QED  BY <1>0, <2>1, <2>2 DEF Accounted, RunShape
<1>25. ASSUME NEW f \in Files, FailFile(f)
      PROVE  Accounted'
  <2>1. UNCHANGED <<pc, loaded, cancel, broken>>
    BY <1>25 DEF FailFile, producer, tokens
  <2>2. \A g \in Files : MayReport(g) => MayReport(g)'
    BY <1>25 DEF FailFile, Advance, producer, FileShape, MayReport, Busy
  <2>. QED  BY <1>0, <2>1, <2>2 DEF Accounted, RunShape
<1>26. ASSUME NEW f \in Files, VerifyFails(f)
      PROVE  Accounted'
  <2>1. UNCHANGED <<pc, loaded, cancel, broken>>
    BY <1>26 DEF VerifyFails, producer, tokens
  <2>2. \A g \in Files : MayReport(g) => MayReport(g)'
    BY <1>26 DEF VerifyFails, Advance, producer, FileShape, MayReport, Busy
  <2>. QED  BY <1>0, <2>1, <2>2 DEF Accounted, RunShape
<1>27. ASSUME NEW f \in Files, CompleteFile(f)
      PROVE  Accounted'
  <2>1. Enqueue(f, "Completed") /\ UNCHANGED <<loaded, current, broken>>
    BY <1>27 DEF CompleteFile, producer
  <2>2. ~broken => HasOutcome(f)'
    BY <2>1, EnqueueFacts DEF Terminal, StoredAs, HasOutcome
  <2>3. UNCHANGED pc /\ (~cancel' => ~cancel) /\ \A g \in Files : g # f /\ MayReport(g) => MayReport(g)'
    BY <1>27 DEF CompleteFile, CancelIfRefused, producer, Advance, FileShape, MayReport, Busy
  <2>. QED  BY <1>0, <2>1, <2>2, <2>3 DEF Accounted, RunShape
<1>28. ASSUME NEW f \in Files, ReportError(f)
      PROVE  Accounted'
  <2>1. Enqueue(f, "Error") /\ UNCHANGED <<loaded, current, broken>>
    BY <1>28 DEF ReportError, producer
  <2>2. ~broken => HasOutcome(f)'
    BY <2>1, EnqueueFacts DEF Terminal, StoredAs, HasOutcome
  <2>3. UNCHANGED pc /\ (~cancel' => ~cancel) /\ \A g \in Files : g # f /\ MayReport(g) => MayReport(g)'
    BY <1>28 DEF ReportError, CancelIfRefused, producer, Advance, FileShape, MayReport, Busy
  <2>. QED  BY <1>0, <2>1, <2>2, <2>3 DEF Accounted, RunShape
<1>29. CASE Close
  BY <1>29 DEF Close, GoTo, Accounted, AtWork
<1>30. CASE ReplayRows
  BY <1>30 DEF ReplayRows, GoTo, Accounted, AtWork
<1>31. CASE RemoveLog
  BY <1>31 DEF RemoveLog, GoTo, Accounted, AtWork
<1>32. CASE Database
  <2>1. UNCHANGED <<pc, loaded, todo, current, job, cancel, broken>>
    BY <1>32, DatabaseFacts DEF pipeVars, producer, tokens
  <2>. QED  BY <1>0, <2>1 DEF Accounted, RunShape, MayReport, Busy
<1>33. CASE Break
  BY <1>33 DEF Break, Accounted
<1>34. CASE Cancel
  BY <1>34 DEF Cancel, Accounted
<1>35. CASE Uncancel
  BY <1>35 DEF Uncancel
<1>36. CASE Crash
  BY <1>36 DEF Crash, Accounted, AtWork
<1>37. CASE TogglePause
  BY <1>1, <1>37 DEF TogglePause, Running, ledgerVars, producer
<1>. QED
  BY <1>1, <1>2, <1>3, <1>4, <1>5, <1>6, <1>7, <1>8, <1>9, <1>10, <1>11, <1>12, <1>13, <1>14,
     <1>15, <1>16, <1>17, <1>18, <1>19, <1>20, <1>21, <1>22, <1>23, <1>24, <1>25, <1>26, <1>27,
     <1>28, <1>29, <1>30, <1>31, <1>32, <1>33, <1>34, <1>35, <1>36, <1>37
     DEF Next, ProducerStep, ConsumerStep, vars, ledgerVars, pipeVars, storage, producer, tokens,
         count

(* When the threads are joined every file has its outcome. *)
LEMMA AllReportedStep ==
    ASSUME LedgerShape, RunShape, Unsettled, Stages, OnePlace, RowsReady, AllLoaded, Accounted,
           AllReported, [Next]_vars
    PROVE  AllReported'
<1>0. pc = "flush" /\ pc' = "flush" => \A f \in Files : HasOutcome(f) => HasOutcome(f)'
  BY OutcomeKept
<1>1. ASSUME UNCHANGED <<status, inflight, parked, pc, broken>>
      PROVE  AllReported'
  BY <1>1 DEF AllReported, HasOutcome
<1>2. ASSUME NEW next \in {"matching", "replay"}, Open(next)
      PROVE  AllReported'
  BY <1>2 DEF Open, AllReported
<1>3. CASE CancelledScan
  BY <1>3 DEF AllReported, HasOutcome, CancelledScan, Finish, ledgerVars
<1>4. ASSUME NEW m \in [Files -> Confidence], MatchFiles(m)
      PROVE  AllReported'
  BY <1>4 DEF MatchFiles, GoTo, AllReported
<1>5. CASE MatchFails
  BY <1>5 DEF AllReported, HasOutcome, MatchFails, Finish, ledgerVars
<1>6. CASE StartProcessing
  BY <1>6 DEF AllReported, HasOutcome, StartProcessing, Finish, GoTo, ledgerVars
<1>7. ASSUME NEW S \in SUBSET Files, LoadBatch(S)
      PROVE  AllReported'
  BY <1>7 DEF LoadBatch, AllReported
<1>8. CASE LoadFails
  BY <1>8 DEF AllReported, HasOutcome, LoadFails, GoTo, ledgerVars
<1>9. CASE LoadEnd
  BY <1>9 DEF AllReported, HasOutcome, LoadEnd, Ready, GoTo, ledgerVars
<1>10. ASSUME NEW f \in Files, CopyFile(f)
      PROVE  AllReported'
  BY <1>10 DEF AllReported, HasOutcome, CopyFile, ledgerVars
<1>11. ASSUME NEW f \in Files, CopyFails(f)
      PROVE  AllReported'
  BY <1>11 DEF CopyFails, AllReported
<1>12. CASE RealEnd
  BY <1>12 DEF AllReported, HasOutcome, RealEnd, ledgerVars
<1>13. CASE OpenArchive
  BY <1>13 DEF AllReported, HasOutcome, OpenArchive, GoTo, ledgerVars
<1>14. ASSUME NEW f \in Files, ArchiveFails(f)
      PROVE  AllReported'
  BY <1>14 DEF ArchiveFails, AllReported
<1>15. ASSUME NEW f \in Files, ExtractFile(f)
      PROVE  AllReported'
  BY <1>15 DEF AllReported, HasOutcome, ExtractFile, ledgerVars
<1>16. ASSUME NEW f \in Files, ExtractFails(f)
      PROVE  AllReported'
  BY <1>16 DEF ExtractFails, AllReported
<1>17. CASE BatchEnd
  BY <1>17 DEF AllReported, HasOutcome, BatchEnd, ledgerVars
<1>18. ASSUME NEW f \in Files, Send(f)
      PROVE  AllReported'
  BY <1>18 DEF AllReported, HasOutcome, Send, ledgerVars
<1>19. CASE Join
  <2>1. \A f \in Files : pc' = "flush" => ~MayReport(f) /\ ~cancel
    BY <1>19 DEF Join, Finish, Stages, Batching, OnePlace, MayReport
  <2>2. UNCHANGED <<loaded, broken>> /\ pc = "join" /\ \A f \in Files : HasOutcome(f) => HasOutcome(f)'
    BY <1>19 DEF Join, Finish, GoTo, ledgerVars, HasOutcome
  <2>3. pc' = "flush" => \A f \in Files \ loaded : status[f] \in Terminal
    BY <2>1, <2>2 DEF RowsReady, AllLoaded, AtWork
  <2>. QED  BY <2>1, <2>2, <2>3 DEF AllReported, Accounted, AtWork, HasOutcome
<1>20. CASE Flush
  BY <1>20 DEF AllReported, HasOutcome, Flush, Finish, ledgerVars
<1>21. ASSUME NEW f \in Files, SkipFile(f)
      PROVE  AllReported'
  <2>1. UNCHANGED <<pc, broken>>
    BY <1>21 DEF SkipFile, producer
  <2>. QED  BY <1>0, <2>1 DEF AllReported
<1>22. ASSUME NEW f \in Files, CompleteFile(f)
      PROVE  AllReported'
  <2>1. UNCHANGED <<pc, broken>>
    BY <1>22 DEF CompleteFile, producer
  <2>. QED  BY <1>0, <2>1 DEF AllReported
<1>23. ASSUME NEW f \in Files, ReportError(f)
      PROVE  AllReported'
  <2>1. UNCHANGED <<pc, broken>>
    BY <1>23 DEF ReportError, producer
  <2>. QED  BY <1>0, <2>1 DEF AllReported
<1>24. CASE Close
  BY <1>24 DEF Close, GoTo, AllReported
<1>25. CASE ReplayRows
  BY <1>25 DEF ReplayRows, GoTo, AllReported
<1>26. CASE RemoveLog
  BY <1>26 DEF RemoveLog, GoTo, AllReported
<1>27. CASE Database
  <2>1. UNCHANGED <<pc, broken>>
    BY <1>27, DatabaseFacts DEF pipeVars, producer
  <2>. QED  BY <1>0, <2>1 DEF AllReported
<1>28. CASE Break
  BY <1>28 DEF Break, AllReported
<1>29. CASE Crash
  BY <1>29 DEF Crash, AllReported
<1>30. CASE \/ TakeItem \/ Cancel \/ TogglePause \/ Uncancel
            \/ \E f \in Files : PauseOver(f) \/ DeliverFile(f) \/ FailFile(f) \/ VerifyFails(f)
  BY <1>1, <1>30 DEF TakeItem, ledgerVars, producer, PauseOver, DeliverFile, FailFile,
       VerifyFails, Cancel, Running, TogglePause, Uncancel
<1>. QED
  BY <1>1, <1>2, <1>3, <1>4, <1>5, <1>6, <1>7, <1>8, <1>9, <1>10, <1>11, <1>12, <1>13, <1>14,
     <1>15, <1>16, <1>17, <1>18, <1>19, <1>20, <1>21, <1>22, <1>23, <1>24, <1>25, <1>26, <1>27,
     <1>28, <1>29, <1>30
     DEF Next, ProducerStep, ConsumerStep, vars, ledgerVars, pipeVars, storage, producer, tokens,
         count

-----------------------------------------------------------------------------
(* What a completed run leaves behind.                                      *)

(* Nothing is in flight when a run is completed, nor later. *)
LEMMA EndedStep ==
    ASSUME Unsettled, Stages, Ended, [Next]_vars
    PROVE  Ended'
<1>1. ASSUME UNCHANGED <<inflight, pc, result>>
      PROVE  Ended'
  BY <1>1 DEF Ended
<1>2. ASSUME NEW next \in {"matching", "replay"}, Open(next)
      PROVE  Ended'
  BY <1>2 DEF Ended, Open, Begin, FreshProcess, Everywhere
<1>3. CASE CancelledScan
  BY <1>3 DEF Ended, CancelledScan, Finish, ledgerVars
<1>4. ASSUME NEW m \in [Files -> Confidence], MatchFiles(m)
      PROVE  Ended'
  BY <1>4 DEF Ended, MatchFiles, Match, GoTo
<1>5. CASE MatchFails
  BY <1>5 DEF Ended, MatchFails, Finish, ledgerVars
<1>6. CASE StartProcessing
  BY <1>6 DEF Ended, StartProcessing, Finish, GoTo, ledgerVars
<1>7. ASSUME NEW S \in SUBSET Files, LoadBatch(S)
      PROVE  Ended'
  BY <1>7 DEF Ended, LoadBatch, Take
<1>8. CASE LoadFails
  BY <1>8 DEF Ended, LoadFails, GoTo, ledgerVars
<1>9. CASE LoadEnd
  BY <1>9 DEF Ended, LoadEnd, GoTo, ledgerVars
<1>10. ASSUME NEW f \in Files, CopyFile(f)
      PROVE  Ended'
  BY <1>10 DEF Ended, CopyFile, ledgerVars
<1>11. ASSUME NEW f \in Files, CopyFails(f)
      PROVE  Ended'
  BY <1>11 DEF Ended, CopyFails, Enqueue, ledgerVars, Accept
<1>12. CASE RealEnd
  BY <1>12 DEF Ended, RealEnd, ledgerVars
<1>13. CASE OpenArchive
  BY <1>13 DEF Ended, OpenArchive, GoTo, ledgerVars
<1>14. ASSUME NEW f \in Files, ArchiveFails(f)
      PROVE  Ended'
  BY <1>14 DEF Ended, ArchiveFails, Enqueue, ledgerVars, Accept
<1>15. ASSUME NEW f \in Files, ExtractFile(f)
      PROVE  Ended'
  BY <1>15 DEF Ended, ExtractFile, ledgerVars
<1>16. ASSUME NEW f \in Files, ExtractFails(f)
      PROVE  Ended'
  BY <1>16 DEF Ended, ExtractFails, Enqueue, ledgerVars, Accept
<1>17. CASE BatchEnd
  BY <1>17 DEF Ended, BatchEnd, ledgerVars
<1>18. ASSUME NEW f \in Files, Send(f)
      PROVE  Ended'
  BY <1>18 DEF Ended, Send, ledgerVars
<1>19. CASE Join
  BY <1>19 DEF Ended, Join, Finish, GoTo, ledgerVars
<1>20. CASE Flush
  BY <1>20 DEF Ended, Flush, Finish, ledgerVars
<1>21. ASSUME NEW f \in Files, SkipFile(f)
      PROVE  Ended'
  BY <1>21
     DEF Ended, SkipFile, Enqueue, ledgerVars, Accept, producer, Stages, AtWork, Batching,
         Unfinished
<1>22. ASSUME NEW f \in Files, CompleteFile(f)
      PROVE  Ended'
  BY <1>22
     DEF Ended, CompleteFile, Enqueue, ledgerVars, Accept, producer, Stages, AtWork, Batching,
         Unfinished
<1>23. ASSUME NEW f \in Files, ReportError(f)
      PROVE  Ended'
  BY <1>23
     DEF Ended, ReportError, Enqueue, ledgerVars, Accept, producer, Stages, AtWork, Batching,
         Unfinished
<1>24. CASE Close
  BY <1>24 DEF Ended, Close, End, GoTo
<1>25. CASE ReplayRows
  BY <1>25 DEF Ended, ReplayRows, Replay, GoTo, ledgerVars
<1>26. CASE RemoveLog
  BY <1>26 DEF Ended, RemoveLog, Unlink, ledgerVars, GoTo
<1>27. CASE Database
  BY <1>27 DEF Ended, Database, Settle, Park, pipeVars, producer
<1>28. CASE Crash
  BY <1>28 DEF Ended, Crash, Die, FreshProcess, Everywhere
<1>29. CASE \/ TakeItem \/ Break \/ Cancel \/ TogglePause \/ Uncancel
            \/ \E f \in Files : PauseOver(f) \/ DeliverFile(f) \/ FailFile(f) \/ VerifyFails(f)
  BY <1>1, <1>29 DEF TakeItem, ledgerVars, producer, PauseOver, DeliverFile, FailFile,
       VerifyFails, Break, Cancel, Running, TogglePause, Uncancel
<1>. QED
  BY <1>1, <1>2, <1>3, <1>4, <1>5, <1>6, <1>7, <1>8, <1>9, <1>10, <1>11, <1>12, <1>13, <1>14,
     <1>15, <1>16, <1>17, <1>18, <1>19, <1>20, <1>21, <1>22, <1>23, <1>24, <1>25, <1>26, <1>27,
     <1>28, <1>29
     DEF Next, ProducerStep, ConsumerStep, vars, ledgerVars, pipeVars, storage, producer, tokens,
         count

(* Every file of a completed run has its outcome. *)
LEMMA CompleteStep ==
    ASSUME LedgerShape, Unsettled, Stages, AllReported, Ended, CompletedIsComplete, [Next]_vars
    PROVE  CompletedIsComplete'
<1>1. ASSUME UNCHANGED <<status, inflight, parked, result>>
      PROVE  CompletedIsComplete'
  BY <1>1 DEF CompletedIsComplete
<1>2. ASSUME NEW next \in {"matching", "replay"}, Open(next)
      PROVE  CompletedIsComplete'
  BY <1>2 DEF Open, FreshProcess, CompletedIsComplete
<1>3. CASE CancelledScan
  BY <1>3 DEF CompletedIsComplete, CancelledScan, Finish, ledgerVars
<1>4. ASSUME NEW m \in [Files -> Confidence], MatchFiles(m)
      PROVE  CompletedIsComplete'
  BY <1>4 DEF MatchFiles, GoTo, Ended, CompletedIsComplete
<1>5. CASE MatchFails
  BY <1>5 DEF CompletedIsComplete, MatchFails, Finish, ledgerVars
<1>6. CASE StartProcessing
  BY <1>6 DEF CompletedIsComplete, StartProcessing, Finish, GoTo, ledgerVars
<1>7. ASSUME NEW S \in SUBSET Files, LoadBatch(S)
      PROVE  CompletedIsComplete'
  BY <1>7 DEF LoadBatch, Ended, CompletedIsComplete
<1>8. ASSUME NEW f \in Files, CopyFails(f)
      PROVE  CompletedIsComplete'
  BY <1>8 DEF CopyFails, Ended, CompletedIsComplete
<1>9. ASSUME NEW f \in Files, ArchiveFails(f)
      PROVE  CompletedIsComplete'
  BY <1>9 DEF ArchiveFails, Ended, CompletedIsComplete
<1>10. ASSUME NEW f \in Files, ExtractFails(f)
      PROVE  CompletedIsComplete'
  BY <1>10 DEF ExtractFails, Ended, CompletedIsComplete
<1>11. CASE Join
  BY <1>11 DEF CompletedIsComplete, Join, Finish, GoTo, ledgerVars
<1>12. CASE Flush
  BY <1>12 DEF Flush, Finish, ledgerVars, AllReported, HasOutcome, CompletedIsComplete
<1>13. ASSUME NEW f \in Files, SkipFile(f)
      PROVE  CompletedIsComplete'
  BY <1>13 DEF SkipFile, producer, Stages, AtWork, Unfinished, Ended, CompletedIsComplete
<1>14. ASSUME NEW f \in Files, CompleteFile(f)
      PROVE  CompletedIsComplete'
  BY <1>14 DEF CompleteFile, producer, Stages, AtWork, Unfinished, Ended, CompletedIsComplete
<1>15. ASSUME NEW f \in Files, ReportError(f)
      PROVE  CompletedIsComplete'
  BY <1>15 DEF ReportError, producer, Stages, AtWork, Unfinished, Ended, CompletedIsComplete
<1>16. CASE ReplayRows
  BY <1>16 DEF ReplayRows, GoTo, Ended, CompletedIsComplete
<1>17. CASE RemoveLog
  BY <1>17 DEF RemoveLog, GoTo, Ended, CompletedIsComplete
<1>18. CASE Database
  <2>1. inflight # {} /\ result' = result
    BY <1>18, DatabaseFacts DEF Database, pipeVars, producer
  <2>. QED  BY <2>1 DEF Ended, CompletedIsComplete
<1>19. CASE Crash
  BY <1>19 DEF Crash, FreshProcess, CompletedIsComplete
<1>20. CASE \/ LoadFails \/ LoadEnd \/ RealEnd \/ OpenArchive \/ BatchEnd \/ TakeItem \/ Close
            \/ Break \/ Cancel \/ TogglePause \/ Uncancel
            \/ \E f \in Files : CopyFile(f) \/ ExtractFile(f) \/ Send(f) \/ PauseOver(f)
            \/ \E f \in Files : DeliverFile(f) \/ FailFile(f) \/ VerifyFails(f)
  BY <1>1, <1>20 DEF LoadFails, GoTo, ledgerVars, LoadEnd, Ready, CopyFile, RealEnd, OpenArchive,
       ExtractFile, BatchEnd, Send, TakeItem, producer, PauseOver, DeliverFile, FailFile,
       VerifyFails, Close, End, Break, Cancel, TogglePause, Uncancel
<1>. QED
  BY <1>1, <1>2, <1>3, <1>4, <1>5, <1>6, <1>7, <1>8, <1>9, <1>10, <1>11, <1>12, <1>13, <1>14,
     <1>15, <1>16, <1>17, <1>18, <1>19, <1>20
     DEF Next, ProducerStep, ConsumerStep, vars, ledgerVars, pipeVars, storage, producer, tokens,
         count

(* What was shown is what will be stored, as long as the database works. *)
LEMMA ShownKeptStep ==
    ASSUME LedgerShape, FileShape, Unsettled, Stages, ShownKept, [Next]_vars
    PROVE  ShownKept'
<1>0. pc \notin {"closed", "replay", "unlink"} /\ pc' # "closed" =>
         \A f \in Files, s \in Terminal : StoredAs(f, s) => StoredAs(f, s)'
  BY StoredKept
<1>1. ASSUME UNCHANGED <<status, inflight, parked, pc, broken, shown>>
      PROVE  ShownKept'
  BY <1>1 DEF ShownKept, StoredAs
<1>2. ASSUME NEW next \in {"matching", "replay"}, Open(next)
      PROVE  ShownKept'
  BY <1>2 DEF Open, FreshProcess, Everywhere, ShownKept
<1>3. CASE CancelledScan
  BY <1>3 DEF ShownKept, StoredAs, CancelledScan, Finish, ledgerVars
<1>4. ASSUME NEW m \in [Files -> Confidence], MatchFiles(m)
      PROVE  ShownKept'
  <2>1. UNCHANGED <<broken, shown>> /\ pc' \notin {"closed", "replay", "unlink"}
        /\ pc \notin {"closed", "replay", "unlink"}
    BY <1>4 DEF MatchFiles, GoTo
  <2>. QED  BY <1>0, <2>1 DEF FileShape, ShownKept
<1>5. CASE MatchFails
  BY <1>5 DEF ShownKept, StoredAs, MatchFails, Finish, ledgerVars
<1>6. CASE StartProcessing
  BY <1>6 DEF ShownKept, StoredAs, StartProcessing, Finish, GoTo, ledgerVars
<1>7. ASSUME NEW S \in SUBSET Files, LoadBatch(S)
      PROVE  ShownKept'
  <2>1. UNCHANGED <<broken, shown>> /\ pc' \notin {"closed", "replay", "unlink"}
        /\ pc \notin {"closed", "replay", "unlink"}
    BY <1>7 DEF LoadBatch
  <2>. QED  BY <1>0, <2>1 DEF FileShape, ShownKept
<1>8. CASE LoadFails
  BY <1>8 DEF ShownKept, StoredAs, LoadFails, GoTo, ledgerVars
<1>9. CASE LoadEnd
  BY <1>9 DEF ShownKept, StoredAs, LoadEnd, Ready, GoTo, ledgerVars
<1>10. ASSUME NEW f \in Files, CopyFile(f)
      PROVE  ShownKept'
  BY <1>10 DEF ShownKept, StoredAs, CopyFile, ledgerVars
<1>11. ASSUME NEW f \in Files, CopyFails(f)
      PROVE  ShownKept'
  <2>1. UNCHANGED <<broken, shown>> /\ pc' \notin {"closed", "replay", "unlink"}
        /\ pc \notin {"closed", "replay", "unlink"}
    BY <1>11 DEF CopyFails
  <2>. QED  BY <1>0, <2>1 DEF FileShape, ShownKept
<1>12. CASE RealEnd
  BY <1>12 DEF ShownKept, StoredAs, RealEnd, ledgerVars
<1>13. CASE OpenArchive
  BY <1>13 DEF ShownKept, StoredAs, OpenArchive, GoTo, ledgerVars
<1>14. ASSUME NEW f \in Files, ArchiveFails(f)
      PROVE  ShownKept'
  <2>1. pc \notin {"closed", "replay", "unlink", "done"}
    BY <1>14 DEF ArchiveFails
  <2>2. Enqueue(f, "Error") /\ shown' = [shown EXCEPT ![f] = "Error"] /\ UNCHANGED <<pc, broken>>
    BY <1>14 DEF ArchiveFails, Show
  <2>3. ~broken => StoredAs(f, "Error")'
    BY <2>2, EnqueueFacts DEF Terminal
  <2>. QED  BY <1>0, <2>1, <2>2, <2>3 DEF FileShape, ShownKept
<1>15. ASSUME NEW f \in Files, ExtractFile(f)
      PROVE  ShownKept'
  BY <1>15 DEF ShownKept, StoredAs, ExtractFile, ledgerVars
<1>16. ASSUME NEW f \in Files, ExtractFails(f)
      PROVE  ShownKept'
  <2>1. pc \notin {"closed", "replay", "unlink", "done"}
    BY <1>16 DEF ExtractFails
  <2>2. Enqueue(f, "Error") /\ shown' = [shown EXCEPT ![f] = "Error"] /\ UNCHANGED <<pc, broken>>
    BY <1>16 DEF ExtractFails, Show
  <2>3. ~broken => StoredAs(f, "Error")'
    BY <2>2, EnqueueFacts DEF Terminal
  <2>. QED  BY <1>0, <2>1, <2>2, <2>3 DEF FileShape, ShownKept
<1>17. CASE BatchEnd
  BY <1>17 DEF ShownKept, StoredAs, BatchEnd, ledgerVars
<1>18. ASSUME NEW f \in Files, Send(f)
      PROVE  ShownKept'
  BY <1>18 DEF ShownKept, StoredAs, Send, ledgerVars
<1>19. CASE Join
  BY <1>19 DEF ShownKept, StoredAs, Join, Finish, GoTo, ledgerVars
<1>20. CASE Flush
  BY <1>20 DEF ShownKept, StoredAs, Flush, Finish, ledgerVars
<1>21. ASSUME NEW f \in Files, SkipFile(f)
      PROVE  ShownKept'
  <2>1. pc \notin {"closed", "replay", "unlink", "done"}
    BY <1>21 DEF SkipFile, Stages, AtWork, Unfinished
  <2>2. Enqueue(f, "Skipped") /\ shown' = [shown EXCEPT ![f] = "Skipped"] /\ UNCHANGED <<pc, broken>>
    BY <1>21 DEF SkipFile, Show, producer
  <2>3. ~broken => StoredAs(f, "Skipped")'
    BY <2>2, EnqueueFacts DEF Terminal
  <2>. QED  BY <1>0, <2>1, <2>2, <2>3 DEF FileShape, ShownKept
<1>22. ASSUME NEW f \in Files, CompleteFile(f)
      PROVE  ShownKept'
  <2>1. pc \notin {"closed", "replay", "unlink", "done"}
    BY <1>22 DEF CompleteFile, Stages, AtWork, Unfinished
  <2>2. Enqueue(f, "Completed") /\ shown' = [shown EXCEPT ![f] = "Completed"] /\ UNCHANGED <<pc, broken>>
    BY <1>22 DEF CompleteFile, Show, producer
  <2>3. ~broken => StoredAs(f, "Completed")'
    BY <2>2, EnqueueFacts DEF Terminal
  <2>. QED  BY <1>0, <2>1, <2>2, <2>3 DEF FileShape, ShownKept
<1>23. ASSUME NEW f \in Files, ReportError(f)
      PROVE  ShownKept'
  <2>1. pc \notin {"closed", "replay", "unlink", "done"}
    BY <1>23 DEF ReportError, Stages, AtWork, Unfinished
  <2>2. Enqueue(f, "Error") /\ shown' = [shown EXCEPT ![f] = "Error"] /\ UNCHANGED <<pc, broken>>
    BY <1>23 DEF ReportError, Show, producer
  <2>3. ~broken => StoredAs(f, "Error")'
    BY <2>2, EnqueueFacts DEF Terminal
  <2>. QED  BY <1>0, <2>1, <2>2, <2>3 DEF FileShape, ShownKept
<1>24. CASE Close
  BY <1>24 DEF ShownKept, StoredAs, Close, End, GoTo
<1>25. CASE ReplayRows
  BY <1>25 DEF ReplayRows, GoTo, ShownKept
<1>26. CASE RemoveLog
  BY <1>26 DEF RemoveLog, GoTo, ShownKept
<1>27. CASE Database
  <2>1. UNCHANGED <<broken, shown, pc>>
    BY <1>27, DatabaseFacts DEF pipeVars, producer
  <2>2. pc # "closed"
    BY <1>27 DEF Database, Settle, Park, Unsettled
  <2>. QED  BY <1>0, <2>1, <2>2 DEF FileShape, ShownKept
<1>28. CASE Break
  BY <1>28 DEF Break, producer, ShownKept
<1>29. CASE Crash
  BY <1>29 DEF Crash, FreshProcess, Everywhere, ShownKept
<1>30. CASE \/ TakeItem \/ Cancel \/ TogglePause \/ Uncancel
            \/ \E f \in Files : PauseOver(f) \/ DeliverFile(f) \/ FailFile(f) \/ VerifyFails(f)
  BY <1>1, <1>30 DEF TakeItem, ledgerVars, producer, PauseOver, DeliverFile, FailFile,
       VerifyFails, Cancel, Running, TogglePause, Uncancel
<1>. QED
  BY <1>1, <1>2, <1>3, <1>4, <1>5, <1>6, <1>7, <1>8, <1>9, <1>10, <1>11, <1>12, <1>13, <1>14,
     <1>15, <1>16, <1>17, <1>18, <1>19, <1>20, <1>21, <1>22, <1>23, <1>24, <1>25, <1>26, <1>27,
     <1>28, <1>29, <1>30
     DEF Next, ProducerStep, ConsumerStep, vars, ledgerVars, pipeVars, storage, producer, tokens,
         count
(* ... and what was shown is stored when the run is completed. *)
LEMMA StoredStep ==
    ASSUME LedgerShape, Unsettled, Stages, Ended, ShownKept, ShownIsStored, [Next]_vars
    PROVE  ShownIsStored'
<1>1. ASSUME UNCHANGED <<status, parked, shown, result>>
      PROVE  ShownIsStored'
  BY <1>1 DEF ShownIsStored
<1>2. ASSUME NEW next \in {"matching", "replay"}, Open(next)
      PROVE  ShownIsStored'
  BY <1>2 DEF Open, FreshProcess, ShownIsStored
<1>3. CASE CancelledScan
  BY <1>3 DEF ShownIsStored, CancelledScan, Finish, ledgerVars
<1>4. ASSUME NEW m \in [Files -> Confidence], MatchFiles(m)
      PROVE  ShownIsStored'
  BY <1>4 DEF MatchFiles, GoTo, Ended, ShownIsStored
<1>5. CASE MatchFails
  BY <1>5 DEF ShownIsStored, MatchFails, Finish, ledgerVars
<1>6. CASE StartProcessing
  BY <1>6 DEF ShownIsStored, StartProcessing, Finish, GoTo, ledgerVars
<1>7. ASSUME NEW S \in SUBSET Files, LoadBatch(S)
      PROVE  ShownIsStored'
  BY <1>7 DEF LoadBatch, Ended, ShownIsStored
<1>8. ASSUME NEW f \in Files, ArchiveFails(f)
      PROVE  ShownIsStored'
  BY <1>8 DEF ArchiveFails, Ended, ShownIsStored
<1>9. ASSUME NEW f \in Files, ExtractFails(f)
      PROVE  ShownIsStored'
  BY <1>9 DEF ExtractFails, Ended, ShownIsStored
<1>10. CASE Join
  BY <1>10 DEF ShownIsStored, Join, Finish, GoTo, ledgerVars
<1>11. CASE Flush
  BY <1>11 DEF Flush, Finish, ledgerVars, ShownKept, StoredAs, ShownIsStored
<1>12. ASSUME NEW f \in Files, SkipFile(f)
      PROVE  ShownIsStored'
  BY <1>12 DEF SkipFile, producer, Stages, AtWork, Unfinished, Ended, ShownIsStored
<1>13. ASSUME NEW f \in Files, CompleteFile(f)
      PROVE  ShownIsStored'
  BY <1>13 DEF CompleteFile, producer, Stages, AtWork, Unfinished, Ended, ShownIsStored
<1>14. ASSUME NEW f \in Files, ReportError(f)
      PROVE  ShownIsStored'
  BY <1>14 DEF ReportError, producer, Stages, AtWork, Unfinished, Ended, ShownIsStored
<1>15. CASE ReplayRows
  BY <1>15 DEF ReplayRows, GoTo, Ended, ShownIsStored
<1>16. CASE RemoveLog
  BY <1>16 DEF RemoveLog, GoTo, Ended, ShownIsStored
<1>17. CASE Database
  <2>1. inflight # {} /\ result' = result
    BY <1>17, DatabaseFacts DEF Database, pipeVars, producer
  <2>. QED  BY <2>1 DEF Ended, ShownIsStored
<1>18. CASE Crash
  BY <1>18 DEF Crash, FreshProcess, ShownIsStored
<1>19. CASE \/ LoadFails \/ LoadEnd \/ RealEnd \/ OpenArchive \/ BatchEnd \/ TakeItem \/ Close
            \/ Break \/ Cancel \/ TogglePause \/ Uncancel
            \/ \E f \in Files : CopyFile(f) \/ CopyFails(f) \/ ExtractFile(f) \/ Send(f)
            \/ \E f \in Files : PauseOver(f) \/ DeliverFile(f) \/ FailFile(f) \/ VerifyFails(f)
  BY <1>1, <1>19 DEF LoadFails, GoTo, ledgerVars, LoadEnd, Ready, CopyFile, CopyFails, Enqueue,
       Accept, RealEnd, OpenArchive, ExtractFile, BatchEnd, Send, TakeItem, producer, PauseOver,
       DeliverFile, FailFile, VerifyFails, Close, End, Break, Cancel, TogglePause, Uncancel
<1>. QED
  BY <1>1, <1>2, <1>3, <1>4, <1>5, <1>6, <1>7, <1>8, <1>9, <1>10, <1>11, <1>12, <1>13, <1>14,
     <1>15, <1>16, <1>17, <1>18, <1>19
     DEF Next, ProducerStep, ConsumerStep, vars, ledgerVars, pipeVars, storage, producer, tokens,
         count

-----------------------------------------------------------------------------
(* The invariant.                                                           *)

Shape == LedgerShape /\ RunShape /\ FileShape /\ BusyBound

Inv ==
    /\ Shape
    /\ Unsettled /\ Stages /\ OnePlace /\ Reserved
    /\ WorkIsStaged /\ StagedOnly
    /\ Counted /\ HasOutput /\ WrittenOnce
    /\ RowsReady /\ Ended /\ ShownKept /\ ShownIsStored

(* What needs that nobody resets the cancel token of a run. *)
CompleteInv == AllLoaded /\ Accounted /\ AllReported /\ CompletedIsComplete

(* Nothing is claimed, staged or reported before the first session. *)
LEMMA InvInit == Init => Inv /\ CompleteInv
<1>. SUFFICES ASSUME Init PROVE Inv /\ CompleteInv
  OBVIOUS
<1>1. LedgerShape /\ RunShape
  <2>1. status \in [Files -> Status] /\ confidence \in [Files -> Confidence]
    BY DEF Init, LedgerInit, Status, Confidence
  <2>2. LedgerShape
    BY <2>1 DEF Init, LedgerInit, LedgerShape
  <2>3. 0 \in 0..MaxSessions /\ 0 \in 0..MaxCrashes
    BY PipelineAssumption
  <2>4. RunShape
    BY <2>3 DEF Init, RunShape, Pc
  <2>. QED  BY <2>2, <2>4
<1>2. FileShape
  BY PipelineAssumption DEF Init, Everywhere, FileShape, Job
<1>3. BusyBound
  <2>1. Busy = {}
    BY DEF Init, Everywhere, Busy
  <2>. QED  BY <2>1, FS_EmptySet, PipelineAssumption DEF BusyBound
<1>4. Unsettled /\ Stages /\ OnePlace /\ Reserved
  BY DEF Init, LedgerInit, Everywhere, Unsettled, Stages, AtWork, Batching, Unfinished, OnePlace,
         Reserved, MayReport, Busy
<1>5. WorkIsStaged /\ StagedOnly /\ Counted
  BY DEF Init, Everywhere, WorkIsStaged, StagedOnly, AtWork, Counted
<1>6. HasOutput /\ WrittenOnce
  BY DEF Init, LedgerInit, Everywhere, HasOutput, StoredAs, WrittenOnce
<1>7. RowsReady /\ Ended /\ ShownKept /\ ShownIsStored /\ CompleteInv
  BY DEF Init, Everywhere, RowsReady, AtWork, Ended, ShownKept, ShownIsStored, AllLoaded,
         Accounted, AllReported, CompletedIsComplete, CompleteInv
<1>. QED  BY <1>1, <1>2, <1>3, <1>4, <1>5, <1>6, <1>7 DEF Inv, Shape

(* Every step keeps it. *)
LEMMA InvNext == Inv /\ [Next]_vars => Inv'
<1>. SUFFICES ASSUME Inv, [Next]_vars PROVE Inv'
  OBVIOUS
<1>. USE DEF Inv, Shape
<1>1. Shape'
  BY LedgerStep, LedgerShapeStep, RunShapeStep, FileShapeStep, BusyStep
<1>2. Unsettled' /\ Stages' /\ OnePlace' /\ Reserved'
  BY UnsettledStep, StagesStep, OnePlaceStep, ReservedStep
<1>3. WorkIsStaged' /\ StagedOnly'
  BY WorkIsStagedStep, StagedOnlyStep
<1>4. Counted' /\ HasOutput' /\ WrittenOnce'
  BY CountedStep, HasOutputStep, WrittenOnceStep
<1>5. RowsReady' /\ Ended' /\ ShownKept' /\ ShownIsStored'
  BY RowsReadyStep, EndedStep, ShownKeptStep, StoredStep
<1>. QED  BY <1>1, <1>2, <1>3, <1>4, <1>5

LEMMA CompleteNext ==
    ASSUME ~MayUncancel
    PROVE  Inv /\ CompleteInv /\ [Next]_vars => CompleteInv'
<1>. SUFFICES ASSUME Inv, CompleteInv, [Next]_vars PROVE CompleteInv'
  OBVIOUS
<1>. USE DEF Inv, Shape, CompleteInv
<1>1. AllLoaded' /\ Accounted'
  BY AllLoadedStep, AccountedStep
<1>2. AllReported' /\ CompletedIsComplete'
  BY AllReportedStep, CompleteStep
<1>. QED  BY <1>1, <1>2

(* It holds in every reachable state. *)
LEMMA Invariance == Spec => []Inv
<1>. QED  BY InvInit, InvNext, PTL DEF Spec

(* A set of equal elements. *)
LEMMA AtMostOne ==
    ASSUME NEW S, \A x, y \in S : x = y
    PROVE  IsFiniteSet(S) /\ Cardinality(S) \in Nat /\ Cardinality(S) <= 1
<1>1. CASE S = {}
  BY <1>1, FS_EmptySet
<1>2. CASE S # {}
  <2>1. PICK x \in S : S = {x}
    BY <1>2
  <2>2. IsFiniteSet({x}) /\ Cardinality({x}) = 1
    BY FS_Singleton
  <2>. QED  BY <2>1, <2>2
<1>. QED  BY <1>1, <1>2

(* Two finite sets together. *)
LEMMA UnionBound ==
    ASSUME NEW S, NEW T, IsFiniteSet(S), IsFiniteSet(T)
    PROVE  /\ IsFiniteSet(S \cup T) /\ Cardinality(S \cup T) \in Nat
           /\ Cardinality(S \cup T) <= Cardinality(S) + Cardinality(T)
<1>1. Cardinality(S) \in Nat /\ Cardinality(T) \in Nat /\ Cardinality(S \cap T) \in Nat
  BY FS_CardinalityType, FS_Intersection
<1>2. IsFiniteSet(S \cup T) /\ Cardinality(S \cup T) = Cardinality(S) + Cardinality(T) - Cardinality(S \cap T)
  BY FS_Union
<1>. QED  BY <1>1, <1>2, FS_CardinalityType

-----------------------------------------------------------------------------
(* Theorems.                                                                *)

(* Type correctness.  In particular the channel never holds more than its   *)
(* capacity, no more files are at work than there are consumers, and a file *)
(* is not delivered more often than the run was opened.                     *)
THEOREM PipelineTypes == Spec => []TypeOK
<1>1. Inv => TypeOK
  <2>. SUFFICES ASSUME Inv PROVE TypeOK
    OBVIOUS
  <2>1. outputs \in [Files -> 0..MaxSessions]
    BY PipelineAssumption DEF Inv, Shape, RunShape, Counted
  <2>. QED
    BY <2>1 DEF Inv, Shape, LedgerShape, RunShape, FileShape, BusyBound, TypeOK
<1>. QED  BY <1>1, Invariance, PTL

(* Wherever cancels, pauses, failures and crashes fall: a file has one      *)
(* reporter at a time (the producer, the channel or one consumer), and as   *)
(* long as it has one its row is claimed and no outcome of it is on its way *)
(* (run_processing_phase and process_single_file).                          *)
THEOREM OneReporter == Spec => []ReportsAreOwned
<1>1. Inv => ReportsAreOwned
  <2>. SUFFICES ASSUME Inv, NEW f \in Files, MayReport(f)
                PROVE  /\ status[f] = "Processing"
                       /\ \A u \in inflight : u.file # f
                       /\ Cardinality({i \in DOMAIN channel : channel[i] = f}) <= 1
    BY DEF ReportsAreOwned
  <2>. DEFINE places == {i \in DOMAIN channel : channel[i] = f}
  <2>1. \A i, j \in places : i = j
    BY DEF Inv, OnePlace
  <2>2. Cardinality(places) <= 1
    BY <2>1, AtMostOne
  <2>. QED  BY <2>2 DEF Inv, Reserved
<1>. QED  BY <1>1, Invariance, PTL

(* A file that is sent, in the channel or with a consumer is in the staging *)
(* directory: no sweep, no other file and no other session removes it.      *)
THEOREM WorkStaysStaged == Spec => []WorkIsStaged
<1>1. Inv => WorkIsStaged
  BY DEF Inv
<1>. QED  BY <1>1, Invariance, PTL

(* The channel bounds the staging directory: the files in it that are still *)
(* to be worked on are in the channel, with a consumer, or being sent.      *)
THEOREM StagingIsBounded == Spec => []StagingBounded
<1>1. Inv => StagingBounded
  <2>. DEFINE waiting == {f \in Files : staged[f] /\ job[f] \notin {"dropped", "failed", "stranded"}}
  <2>. SUFFICES ASSUME Inv, pc \in AtWork
                PROVE  Cardinality(waiting) <= ChannelCap + Workers + 1
    BY DEF StagingBounded, AtWork
  <2>1. waiting \subseteq (Held(channel) \cup Busy) \cup current
    BY DEF Inv, StagedOnly, OnePlace, Held, Busy
  <2>2. /\ IsFiniteSet(Held(channel)) /\ Cardinality(Held(channel)) <= ChannelCap
        /\ Cardinality(Held(channel)) \in Nat
    <3>1. channel \in Surjection(1..Len(channel), Held(channel)) /\ Len(channel) \in Nat
      BY DEF Inv, Shape, FileShape, Held, Surjection
    <3>2. IsFiniteSet(1..Len(channel)) /\ Cardinality(1..Len(channel)) = Len(channel)
      BY <3>1, FS_Interval
    <3>3. IsFiniteSet(Held(channel)) /\ Cardinality(Held(channel)) <= Len(channel)
      BY <3>1, <3>2, FS_Surjection
    <3>4. Len(channel) <= ChannelCap
      BY DEF Inv, Shape, FileShape
    <3>. QED  BY <3>1, <3>3, <3>4, FS_CardinalityType, PipelineAssumption
  <2>3. IsFiniteSet(Busy) /\ Cardinality(Busy) <= Workers /\ Cardinality(Busy) \in Nat
    BY FS_CardinalityType DEF Inv, Shape, BusyBound
  <2>4. IsFiniteSet(current) /\ Cardinality(current) <= 1 /\ Cardinality(current) \in Nat
    BY AtMostOne DEF Inv, Stages
  <2>5. /\ IsFiniteSet(Held(channel) \cup Busy)
        /\ Cardinality(Held(channel) \cup Busy) <= Cardinality(Held(channel)) + Cardinality(Busy)
        /\ Cardinality(Held(channel) \cup Busy) \in Nat
    BY <2>2, <2>3, UnionBound
  <2>6. /\ IsFiniteSet((Held(channel) \cup Busy) \cup current)
        /\ Cardinality((Held(channel) \cup Busy) \cup current) <= Cardinality(Held(channel) \cup Busy) + Cardinality(current)
        /\ Cardinality((Held(channel) \cup Busy) \cup current) \in Nat
    BY <2>4, <2>5, UnionBound
  <2>7. IsFiniteSet(waiting) /\ Cardinality(waiting) <= Cardinality((Held(channel) \cup Busy) \cup current)
        /\ Cardinality(waiting) \in Nat
    BY <2>1, <2>6, FS_Subset, FS_CardinalityType
  <2>. HIDE DEF waiting
  <2>. QED  BY <2>2, <2>3, <2>4, <2>5, <2>6, <2>7, PipelineAssumption
<1>. QED  BY <1>1, Invariance, PTL

(* However the run is cancelled, resumed and crashes, and whether its       *)
(* database works or not: no row, no outcome on its way and no line of the  *)
(* recovery log calls a file completed that has no output.                  *)
THEOREM CompletedHaveOutputs == Spec => []CompletedHasOutput
<1>1. Inv => CompletedHasOutput
  <2>. SUFFICES ASSUME Inv, NEW f \in Files, StoredAs(f, "Completed")
                PROVE  outputs[f] > 0
    BY DEF CompletedHasOutput, StoredAs
  <2>1. outputs[f] \in Nat
    BY DEF Inv, Counted
  <2>. QED  BY <2>1 DEF Inv, HasOutput
<1>. QED  BY <1>1, Invariance, PTL

(* With a database that works a file is written to the output directory     *)
(* once, and once more at most for each crash.                              *)
THEOREM OutputsAreWrittenOnce == Spec => []DeliveredOnce
<1>1. Inv => DeliveredOnce
  BY DEF Inv, WrittenOnce, DeliveredOnce
<1>. QED  BY <1>1, Invariance, PTL

(* What the user was shown of a file in a run that completed is in its row  *)
(* or in the recovery log.                                                  *)
THEOREM ShownStatusesAreStored == Spec => []ShownIsStored
<1>1. Inv => ShownIsStored
  BY DEF Inv
<1>. QED  BY <1>1, Invariance, PTL

(* Unless the dispatcher resets the cancel token of a running pipeline, a   *)
(* run that completed has an outcome for every file, in its row or in the   *)
(* recovery log, even where updates were refused or parked on the way.      *)
THEOREM CompletedRunsAreComplete ==
    ASSUME ~MayUncancel
    PROVE  Spec => []CompletedIsComplete
<1>1. Inv /\ CompleteInv /\ [Next]_vars => CompleteInv'
  BY CompleteNext
<1>2. Spec => []CompleteInv
  BY <1>1, InvInit, Invariance, PTL DEF Spec
<1>3. CompleteInv => CompletedIsComplete
  BY DEF CompleteInv
<1>. QED  BY <1>2, <1>3, PTL

(* The pipeline uses the database only in the ways that StatusLedger        *)
(* promises, and StateDb implements.                                        *)
THEOREM PipelineUsesLedger == Spec => LedgerSpec
<1>1. Init => LedgerInit
  BY DEF Init
<1>2. Inv /\ [Next]_vars => [LedgerNext]_ledgerVars
  BY LedgerStep DEF Inv, Shape
<1>. QED  BY <1>1, <1>2, Invariance, PTL DEF Spec, LedgerSpec
=============================================================================
