--------------------------- MODULE StateDb_proofs ---------------------------
(***************************************************************************)
(* Proofs about StateDb: type correctness, that a row which can be claimed *)
(* shows what the matcher decided, that an accepted outcome is kept, that  *)
(* a flush is a barrier, and that StateDb implements StatusLedger.  They   *)
(* begin with lemmas about the operators of FileStatus: what recovery, a   *)
(* claim and a batch of updates do to the rows, and how the elements of a  *)
(* sequence change when it grows at its end and shrinks at its head.       *)
(***************************************************************************)
EXTENDS StateDb, TLAPS, SequenceTheorems, WellFoundedInduction

-----------------------------------------------------------------------------
(* Rows.                                                                    *)

(* Recovery computes from the confidence column the status that the matcher *)
(* wrote next to it.                                                        *)
LEMMA RecoveryStatusType ==
    ASSUME NEW c \in Confidence
    PROVE  RecoveryStatus(c) \in Claimable /\ RecoveryStatus(c) = MatchStatus(c)
  BY ConfidencesAssumption, SMT DEF Confidence, Null, RecoveryStatus, MatchStatus, Claimable

(* The matcher's status can be claimed. *)
LEMMA MatchStatusType ==
    ASSUME NEW c \in Confidence
    PROVE  MatchStatus(c) \in Claimable
  BY RecoveryStatusType

(* Handing claims back yields rows of statuses. *)
LEMMA RestoredType ==
    ASSUME NEW st \in [Files -> Status], NEW conf \in [Files -> Confidence]
    PROVE  Restored(st, conf) \in [Files -> Status]
<1>1. \A f \in Files : RecoveryStatus(conf[f]) \in Status
  BY RecoveryStatusType DEF Status
<1>. QED  BY <1>1 DEF Restored

(* Claiming yields rows of statuses. *)
LEMMA ClaimedType ==
    ASSUME NEW st \in [Files -> Status], NEW S
    PROVE  Claimed(st, S) \in [Files -> Status]
  BY DEF Claimed, Status

(* A nonempty set of indices of a sequence has a largest element. *)
LEMMA LargestIndex ==
    ASSUME NEW n \in Nat, NEW D \in SUBSET (1..n), D # {}
    PROVE  \E i \in D : \A j \in D : j <= i
<1>. DEFINE T == {n - i : i \in D}
<1>1. \A i \in D : i \in 1..n /\ n - i \in Nat
  OBVIOUS
<1>2. T \subseteq Nat /\ T # {}
  BY <1>1
<1>3. PICK x \in T : \A y \in T : ~ (<<y, x>> \in OpToRel(<, Nat))
  <2>1. IsWellFoundedOn(OpToRel(<, Nat), Nat)
    BY NatLessThanWellFounded
  <2>. HIDE DEF T
  <2>. QED  BY <1>2, <2>1, WFMin, Zenon
<1>4. \A y \in T : x <= y
  <2>1. ASSUME NEW y \in T
        PROVE  x <= y
    <3>1. x \in Nat /\ y \in Nat
      BY <1>2
    <3>2. ~ (<<y, x>> \in OpToRel(<, Nat))
      BY <1>3
    <3>3. ~ (y < x)
      BY <3>1, <3>2 DEF OpToRel
    <3>. QED  BY <3>1, <3>3
  <2>. QED  BY <2>1
<1>5. PICK i \in D : x = n - i
  OBVIOUS
<1>6. \A j \in D : x <= n - j
  BY <1>4
<1>7. \A j \in D : j <= i
  BY <1>1, <1>5, <1>6
<1>. QED  BY <1>7

(* A sequence that mentions a file has a last update of it. *)
LEMMA LastOfType ==
    ASSUME NEW us \in Seq(Update), NEW f, Mentions(us, f)
    PROVE  /\ LastOf(us, f) \in DOMAIN us
           /\ us[LastOf(us, f)] \in Update
           /\ us[LastOf(us, f)].file = f
           /\ us[LastOf(us, f)].to \in Terminal
<1>. DEFINE D == {i \in DOMAIN us : us[i].file = f}
<1>1. Len(us) \in Nat /\ D \in SUBSET (1..Len(us)) /\ D # {}
  BY DEF Mentions
<1>2. \E i \in D : \A j \in D : j <= i
  <2>. HIDE DEF D
  <2>. QED  BY <1>1, LargestIndex
<1>3. \E i \in DOMAIN us : us[i].file = f /\ \A j \in DOMAIN us : us[j].file = f => j <= i
  BY <1>2
<1>4. LastOf(us, f) \in DOMAIN us /\ us[LastOf(us, f)].file = f
  BY <1>3 DEF LastOf
<1>5. us[LastOf(us, f)] \in Update
  <2>. HIDE DEF Update
  <2>. QED  BY <1>4
<1>6. us[LastOf(us, f)].to \in Terminal
  BY <1>5 DEF Update
<1>. QED  BY <1>4, <1>5, <1>6

(* Running updates yields rows of statuses; a file they mention ends in the *)
(* terminal status of one of them, the others keep theirs.                  *)
LEMMA AppliedType ==
    ASSUME NEW st \in [Files -> Status], NEW us \in Seq(Update)
    PROVE  /\ Applied(st, us) \in [Files -> Status]
           /\ \A f \in Files : Mentions(us, f) =>
                /\ Applied(st, us)[f] \in Terminal
                /\ [file |-> f, to |-> Applied(st, us)[f]] \in Held(us)
           /\ \A f \in Files : ~Mentions(us, f) => Applied(st, us)[f] = st[f]
<1>1. ASSUME NEW f \in Files, Mentions(us, f)
      PROVE  /\ us[LastOf(us, f)].to \in Terminal
             /\ [file |-> f, to |-> us[LastOf(us, f)].to] \in Held(us)
  BY <1>1, LastOfType DEF Held, Update
<1>. QED  BY <1>1 DEF Applied, Status

-----------------------------------------------------------------------------
(* Sequences.                                                               *)

(* Appending adds one element. *)
LEMMA HeldAppend ==
    ASSUME NEW S, NEW s \in Seq(S), NEW e \in S
    PROVE  Held(Append(s, e)) = Held(s) \cup {e}
<1>1. DOMAIN Append(s, e) = DOMAIN s \cup {Len(s) + 1}
  OBVIOUS
<1>2. \A i \in DOMAIN s : Append(s, e)[i] = s[i]
  OBVIOUS
<1>3. Append(s, e)[Len(s) + 1] = e
  OBVIOUS
<1>. QED  BY <1>1, <1>2, <1>3 DEF Held

(* A sequence holds its head and what its tail holds. *)
LEMMA HeldHeadTail ==
    ASSUME NEW S, NEW s \in Seq(S), s # <<>>
    PROVE  Held(s) = {Head(s)} \cup Held(Tail(s))
<1>1. Len(s) \in Nat \ {0} /\ DOMAIN s = 1..Len(s) /\ DOMAIN Tail(s) = 1..(Len(s) - 1)
  OBVIOUS
<1>2. Head(s) = s[1]
  OBVIOUS
<1>3. \A i \in DOMAIN Tail(s) : Tail(s)[i] = s[i + 1]
  OBVIOUS
<1>4. \A i \in DOMAIN s : i = 1 \/ (i - 1 \in DOMAIN Tail(s) /\ s[i] = Tail(s)[i - 1])
  BY <1>1, <1>3
<1>5. \A i \in DOMAIN Tail(s) : i + 1 \in DOMAIN s
  BY <1>1
<1>6. 1 \in DOMAIN s
  BY <1>1
<1>7. Held(s) \subseteq {Head(s)} \cup Held(Tail(s))
  BY <1>2, <1>4 DEF Held
<1>8. {Head(s)} \cup Held(Tail(s)) \subseteq Held(s)
  BY <1>2, <1>3, <1>5, <1>6 DEF Held
<1>. QED  BY <1>7, <1>8

(* The empty sequence holds nothing. *)
LEMMA HeldEmpty == Held(<<>>) = {}
  BY DEF Held

-----------------------------------------------------------------------------
(* The inductive invariant, in named parts.                                 *)

(* Which of its collections the writer uses at which point of its loop. *)
WriterShape ==
    /\ wpc \in {"recv", "broken", "answer", "dormant", "done"} => batch = <<>>
    /\ wpc \notin {"fallback", "broken"} => failed = <<>>
    /\ wpc \in {"recv", "drain", "dormant", "done"} => ~flushHeld

IsUpdate(m) == m.kind = "update"

(* The outcomes still in the channel. *)
Queued == {m.update : m \in {n \in Held(channel) : n.kind = "update"}}

(* Every outcome in flight is the report of a file whose worker is done; its *)
(* row still shows the claim or that outcome already.  A worker about to     *)
(* send reports a claimed file.                                              *)
Owned ==
    /\ \A u \in InFlight : /\ worker[u.file] = "accepted"
                           /\ u = Report(u.file)
                           /\ status[u.file] \in {"Processing", u.to}
    /\ \A f \in Files : worker[f] = "sending" => status[f] = "Processing"

(* The log is applied and removed before anything is reported. *)
ReplayQuiet ==
    owner \in {"replay", "unlink"} => \A f \in Files : worker[f] = "idle"

(* Without torn lines the log always ends in a newline. *)
WholeLines == ~MayTear => logEnd = "newline"

-----------------------------------------------------------------------------
(* Type correctness.                                                        *)

(* A new process starts in well-typed memory. *)
LEMMA FreshMemoryType ==
    ASSUME FreshMemory
    PROVE  /\ dropping' \in BOOLEAN
           /\ worker' \in [Files -> WorkerPc]
           /\ outcome' \in [Files -> Terminal]
           /\ channel' \in Seq(Message) /\ Len(channel') <= QueueCap
           /\ isBroken' \in BOOLEAN /\ poisoned' \in BOOLEAN
           /\ reply' \in {"none", "ok", "err"}
           /\ batch' \in Seq(Update) /\ Len(batch') <= BatchCap
           /\ failed' \in Seq(Update)
           /\ retries' \in 0..MaxRetries
           /\ flushHeld' \in BOOLEAN /\ termHeld' \in BOOLEAN
           /\ barrier' \subseteq Files
<1>1. Len(<<>>) = 0 /\ 0 <= QueueCap /\ 0 <= BatchCap /\ 0 \in 0..MaxRetries
  BY StateDbAssumption
<1>2. <<>> \in Seq(Message) /\ <<>> \in Seq(Update)
  BY EmptySeq
<1>3. worker' \in [Files -> WorkerPc]
  BY DEF FreshMemory, WorkerPc
<1>4. outcome' \in [Files -> Terminal]
  BY DEF FreshMemory, Terminal
<1>. QED  BY <1>1, <1>2, <1>3, <1>4 DEF FreshMemory

(* Taking a message keeps the types of the channel and the batch. *)
LEMMA TakeMessageType ==
    ASSUME channel \in Seq(Message), Len(channel) <= QueueCap,
           batch \in Seq(Update), Len(batch) < BatchCap, TakeMessage
    PROVE  /\ channel' \in Seq(Message) /\ Len(channel') <= QueueCap
           /\ batch' \in Seq(Update) /\ Len(batch') <= BatchCap
           /\ flushHeld' \in BOOLEAN /\ termHeld' \in BOOLEAN
<1>1. channel # <<>> /\ channel' = Tail(channel)
  BY DEF TakeMessage
<1>2. Head(channel) \in Message
  BY <1>1
<1>3. Head(channel).kind = "update" => Head(channel).update \in Update
  BY <1>2 DEF Message, UpdateMsg, FlushMsg, TermMsg
<1>4. channel' \in Seq(Message) /\ Len(channel') <= QueueCap
  <2>. HIDE DEF Message
  <2>. QED  BY <1>1, StateDbAssumption
<1>5. batch' \in Seq(Update) /\ Len(batch') <= BatchCap
  <2>. HIDE DEF Update
  <2>1. CASE Head(channel).kind = "update"
    BY <1>3, <2>1, StateDbAssumption DEF TakeMessage
  <2>2. CASE Head(channel).kind # "update"
    BY <2>2, StateDbAssumption DEF TakeMessage
  <2>. QED  BY <2>1, <2>2
<1>6. flushHeld' \in BOOLEAN /\ termHeld' \in BOOLEAN
  BY DEF TakeMessage
<1>. QED  BY <1>4, <1>5, <1>6

(* The log keeps its type whatever is appended to it. *)
LEMMA WithTextType ==
    ASSUME rlog \in Seq(Update), logEnd \in {"newline", "readable", "garbled"},
           logEnd = "readable" => rlog # <<>>, NEW u \in Update
    PROVE  /\ WithText(u) \in Seq(Update)
           /\ logEnd = "newline" => WithText(u) # <<>>
<1>. HIDE DEF Update
<1>1. CASE logEnd = "newline"
  BY <1>1 DEF WithText
<1>2. CASE logEnd = "readable"
  <2>1. Len(rlog) - 1 \in Int /\ \A i \in 1..(Len(rlog) - 1) : rlog[i] \in Update
    OBVIOUS
  <2>2. SubSeq(rlog, 1, Len(rlog) - 1) \in Seq(Update)
    BY <2>1, SubSeqProperties
  <2>. QED  BY <1>2, <2>2 DEF WithText
<1>3. CASE logEnd = "garbled"
  BY <1>3 DEF WithText
<1>. QED  BY <1>1, <1>2, <1>3

(* A line that is written, or fails to be, leaves a log of updates. *)
LEMMA LogLineType ==
    ASSUME rlog \in Seq(Update), logEnd \in {"newline", "readable", "garbled"},
           logEnd = "readable" => rlog # <<>>, NEW u \in Update, LogLine(u)
    PROVE  /\ rlog' \in Seq(Update)
           /\ logEnd' \in {"newline", "readable", "garbled"}
           /\ logEnd' = "readable" => rlog' # <<>>
  BY WithTextType DEF LogLine, recovery

(* The updates and messages that the actions send are well typed. *)
LEMMA ReportType ==
    ASSUME TypeOK, NEW f \in Files
    PROVE  Report(f) \in Update /\ UpdateMsg(Report(f)) \in Message
  BY DEF TypeOK, Report, Update, Message

(* The messages without an update are messages. *)
LEMMA FlushTermType == FlushMsg \in Message /\ TermMsg \in Message
  BY DEF Message

(* Type correctness: every variable stays in its type, the channel and the  *)
(* batch within their capacities, and a log that ends in a readable line    *)
(* holds one.                                                               *)
LEMMA TypeStep == TypeOK /\ WriterShape /\ [Next]_vars => TypeOK'
<1>. SUFFICES ASSUME TypeOK, WriterShape, [Next]_vars
              PROVE  TypeOK'
  OBVIOUS
<1>. USE DEF TypeOK, disk, recovery, control, reports, link, writer, OwnerPc, WriterPc
<1>1. ASSUME NEW next \in {"idle", "replay"}, Open(next)
      PROVE  TypeOK'
  <2>1. sessions' \in 0..MaxSessions
    BY <1>1, StateDbAssumption DEF Open
  <2>2. status' \in [Files -> Status]
    BY <1>1, RestoredType DEF Open
  <2>. QED  BY <1>1, <2>1, <2>2, FreshMemoryType DEF Open
<1>2. ASSUME NEW m \in [Files -> Confidence], ApplyMatchBatch(m)
      PROVE  TypeOK'
  <2>1. \A f \in Files : MatchStatus(m[f]) \in Status
    BY MatchStatusType DEF Status
  <2>2. status' \in [Files -> Status] /\ confidence' \in [Files -> Confidence]
    BY <1>2, <2>1 DEF ApplyMatchBatch
  <2>. QED  BY <1>2, <2>2 DEF ApplyMatchBatch
<1>3. ASSUME NEW S \in SUBSET Files, ClaimBatch(S)
      PROVE  TypeOK'
  BY <1>3, ClaimedType DEF ClaimBatch
<1>4. ASSUME NEW f \in Files, NEW to \in Outcomes, ReportBegin(f, to)
      PROVE  TypeOK'
  <2>1. worker' \in [Files -> WorkerPc]
    BY <1>4 DEF ReportBegin, WorkerPc
  <2>2. outcome' \in [Files -> Terminal]
    BY <1>4, StateDbAssumption DEF ReportBegin
  <2>. QED  BY <1>4, <2>1, <2>2 DEF ReportBegin
<1>5. ASSUME NEW f \in Files, ReportSend(f)
      PROVE  TypeOK'
  <2>1. worker' \in [Files -> WorkerPc]
    BY <1>5 DEF ReportSend, WorkerPc
  <2>2. channel' \in Seq(Message) /\ Len(channel') <= QueueCap
    <3>. HIDE DEF Message
    <3>. QED  BY <1>5, ReportType, StateDbAssumption DEF ReportSend, HasRoom
  <2>. QED  BY <1>5, <2>1, <2>2 DEF ReportSend
<1>6. CASE FlushBegin
  BY <1>6 DEF FlushBegin
<1>7. CASE FlushSend
  <2>1. channel' \in Seq(Message) /\ Len(channel') <= QueueCap
    <3>. HIDE DEF Message
    <3>. QED  BY <1>7, FlushTermType, StateDbAssumption DEF FlushSend, HasRoom
  <2>. QED  BY <1>7, <2>1 DEF FlushSend
<1>8. CASE FlushRefused
  BY <1>8 DEF FlushRefused
<1>9. CASE FlushReturn
  BY <1>9 DEF FlushReturn
<1>10. CASE DropBegin
  BY <1>10 DEF DropBegin
<1>11. CASE TermSend
  <2>1. channel' \in Seq(Message) /\ Len(channel') <= QueueCap
    <3>. HIDE DEF Message
    <3>. QED  BY <1>11, FlushTermType, StateDbAssumption DEF TermSend, HasRoom
  <2>. QED  BY <1>11, <2>1 DEF TermSend
<1>12. CASE Join
  BY <1>12 DEF Join
<1>13. CASE ReplayLog
  BY <1>13, AppliedType DEF ReplayLog
<1>14. CASE ReplayNothing
  BY <1>14 DEF ReplayNothing
<1>15. CASE RemoveLog
  BY <1>15, EmptySeq, ZenonT(30) DEF RemoveLog
<1>16. CASE Receive
  <2>1. Len(batch) < BatchCap
    BY <1>16, StateDbAssumption DEF Receive, WriterShape
  <2>. QED  BY <1>16, <2>1, TakeMessageType DEF Receive
<1>17. CASE Drain
  BY <1>17, TakeMessageType DEF Drain
<1>18. CASE DrainEnd
  BY <1>18 DEF DrainEnd
<1>19. CASE Commit
  <2>1. status' \in [Files -> Status]
    BY <1>19, AppliedType DEF Commit
  <2>2. retries' \in 0..MaxRetries /\ batch' \in Seq(Update) /\ Len(batch') <= BatchCap
    BY <1>19, EmptySeq, StateDbAssumption DEF Commit
  <2>. QED  BY <1>19, <2>1, <2>2 DEF Commit
<1>20. CASE CommitFails
  BY <1>20, StateDbAssumption DEF CommitFails
<1>21. CASE Fallback
  BY <1>21, StateDbAssumption DEF Fallback
<1>22. CASE FallbackStatement
  <2>. HIDE DEF Update
  <2>1. /\ Head(batch) \in Update
        /\ batch' \in Seq(Update) /\ Len(batch') <= BatchCap
    BY <1>22, StateDbAssumption DEF FallbackStatement
  <2>2. <<Head(batch)>> \in Seq(Update)
    BY <2>1
  <2>3. status \in [Files -> Status] /\ failed \in Seq(Update)
    OBVIOUS
  <2>4. \/ status' = Applied(status, <<Head(batch)>>) /\ failed' = failed
        \/ failed' = Append(failed, Head(batch)) /\ status' = status
    BY <1>22 DEF FallbackStatement
  <2>5. Applied(status, <<Head(batch)>>) \in [Files -> Status]
    BY <2>2, <2>3, AppliedType
  <2>6. Append(failed, Head(batch)) \in Seq(Update)
    BY <2>1, <2>3
  <2>7. status' \in [Files -> Status]
    BY <2>3, <2>4, <2>5
  <2>8. failed' \in Seq(Update)
    BY <2>3, <2>4, <2>6
  <2>. QED  BY <1>22, <2>1, <2>7, <2>8 DEF FallbackStatement
<1>23. CASE ParkLine
  <2>1. /\ rlog' \in Seq(Update)
        /\ logEnd' \in {"newline", "readable", "garbled"}
        /\ logEnd' = "readable" => rlog' # <<>>
    BY <1>23, LogLineType DEF ParkLine
  <2>2. failed' \in Seq(Update)
    <3>1. failed # <<>> /\ failed' = Tail(failed)
      BY <1>23 DEF ParkLine, NextLine
    <3>. HIDE DEF Update
    <3>. QED  BY <3>1
  <2>. QED  BY <1>23, <2>1, <2>2 DEF ParkLine
<1>24. CASE FallbackEnd
  BY <1>24 DEF FallbackEnd
<1>25. CASE GiveUp
  <2>1. retries' \in 0..MaxRetries /\ batch' \in Seq(Update) /\ Len(batch') <= BatchCap
    BY <1>25, EmptySeq, StateDbAssumption DEF GiveUp
  <2>. QED  BY <1>25, <2>1 DEF GiveUp
<1>26. CASE GoDormant
  BY <1>26 DEF GoDormant
<1>27. CASE DormantReceive
  <2>1. channel # <<>> /\ channel' = Tail(channel)
    BY <1>27 DEF DormantReceive
  <2>2. Head(channel) \in Message /\ channel' \in Seq(Message) /\ Len(channel') <= QueueCap
    <3>. HIDE DEF Message
    <3>. QED  BY <2>1, StateDbAssumption
  <2>3. IsUpdate(Head(channel)) => Head(channel).update \in Update
    BY <2>2 DEF Message, UpdateMsg, FlushMsg, TermMsg, IsUpdate
  <2>4. /\ rlog' \in Seq(Update)
        /\ logEnd' \in {"newline", "readable", "garbled"}
        /\ logEnd' = "readable" => rlog' # <<>>
    BY <1>27, <2>3, LogLineType DEF DormantReceive, IsUpdate
  <2>. QED  BY <1>27, <2>2, <2>4 DEF DormantReceive
<1>28. CASE Answer
  BY <1>28, ZenonT(30) DEF Answer
<1>29. CASE Poison
  BY <1>29 DEF Poison
<1>30. CASE Crash
  BY <1>30, FreshMemoryType DEF Crash
<1>31. CASE CrashMidLine
  <2>1. /\ rlog' \in Seq(Update)
        /\ logEnd' \in {"newline", "readable", "garbled"}
        /\ logEnd' = "readable" => rlog' # <<>>
    BY <1>31, WithTextType DEF CrashMidLine
  <2>. QED  BY <1>31, <2>1, FreshMemoryType DEF CrashMidLine
<1>32. CASE UNCHANGED vars
  BY <1>32 DEF vars
<1>. QED
  BY <1>1, <1>2, <1>3, <1>4, <1>5, <1>6, <1>7, <1>8, <1>9, <1>10, <1>11, <1>12, <1>13, <1>14,
     <1>15, <1>16, <1>17, <1>18, <1>19, <1>20, <1>21, <1>22, <1>23, <1>24, <1>25, <1>26, <1>27,
     <1>28, <1>29, <1>30, <1>31, <1>32 DEF Next, OwnerStep, WriterStep

(* What the writer keeps between its steps. *)
LEMMA ShapeStep == WriterShape /\ [Next]_vars => WriterShape'
<1>. SUFFICES ASSUME WriterShape, [Next]_vars
              PROVE  WriterShape'
  OBVIOUS
<1>. USE DEF WriterShape, disk, recovery, control, reports, link, writer
<1>1. ASSUME NEW next \in {"idle", "replay"}, Open(next)
      PROVE  WriterShape'
  BY <1>1 DEF Open, FreshMemory
<1>2. ASSUME NEW m \in [Files -> Confidence], ApplyMatchBatch(m)
      PROVE  WriterShape'
  BY <1>2 DEF ApplyMatchBatch
<1>3. ASSUME NEW S \in SUBSET Files, ClaimBatch(S)
      PROVE  WriterShape'
  BY <1>3 DEF ClaimBatch
<1>4. ASSUME NEW f \in Files, NEW to \in Outcomes, ReportBegin(f, to)
      PROVE  WriterShape'
  BY <1>4 DEF ReportBegin
<1>5. ASSUME NEW f \in Files, ReportSend(f)
      PROVE  WriterShape'
  BY <1>5 DEF ReportSend
<1>6. CASE OwnerStep
  BY <1>6 DEF OwnerStep, FlushBegin, FlushSend, FlushRefused, FlushReturn, DropBegin, TermSend,
              Join, ReplayLog, ReplayNothing, RemoveLog
<1>7. CASE Receive
  BY <1>7 DEF Receive, TakeMessage
<1>8. CASE Drain
  BY <1>8 DEF Drain, TakeMessage
<1>9. CASE DrainEnd \/ Commit \/ CommitFails \/ Fallback
  BY <1>9 DEF DrainEnd, Commit, CommitFails, Fallback
<1>10. CASE FallbackStatement
  BY <1>10 DEF FallbackStatement
<1>11. CASE ParkLine
  BY <1>11 DEF ParkLine, NextLine
<1>12. CASE FallbackEnd \/ GiveUp \/ GoDormant \/ DormantReceive \/ Answer
  BY <1>12 DEF FallbackEnd, GiveUp, GoDormant, DormantReceive, Answer
<1>13. CASE Poison
  BY <1>13 DEF Poison
<1>14. CASE Crash \/ CrashMidLine
  BY <1>14 DEF Crash, CrashMidLine, FreshMemory
<1>15. CASE UNCHANGED vars
  BY <1>15 DEF vars
<1>. QED
  BY <1>1, <1>2, <1>3, <1>4, <1>5, <1>6, <1>7, <1>8, <1>9, <1>10, <1>11, <1>12, <1>13, <1>14,
     <1>15 DEF Next, WriterStep

(* At the start everything is empty. *)
LEMMA InitTyped == Init => TypeOK /\ WriterShape
<1>. SUFFICES ASSUME Init PROVE TypeOK /\ WriterShape
  OBVIOUS
<1>1. status \in [Files -> Status] /\ confidence \in [Files -> Confidence]
  BY DEF Init, Status, Confidence
<1>2. rlog \in Seq(Update) /\ channel \in Seq(Message) /\ batch \in Seq(Update) /\ failed \in Seq(Update)
  BY EmptySeq DEF Init
<1>3. Len(channel) <= QueueCap /\ Len(batch) <= BatchCap /\ retries \in 0..MaxRetries
      /\ sessions \in 0..MaxSessions
  BY StateDbAssumption DEF Init
<1>4. worker \in [Files -> WorkerPc] /\ outcome \in [Files -> Terminal]
  BY DEF Init, WorkerPc, Terminal
<1>5. owner \in OwnerPc /\ wpc \in WriterPc
  BY DEF Init, OwnerPc, WriterPc
<1>6. TypeOK
  BY <1>1, <1>2, <1>3, <1>4, <1>5 DEF Init, TypeOK
<1>7. WriterShape
  BY DEF Init, WriterShape
<1>. QED  BY <1>6, <1>7

(* Every variable keeps its type for every capacity, number of retries and  *)
(* set of files: in particular the channel of state_db.rs never holds more  *)
(* than its capacity and a transaction never more than BatchCap updates.    *)
THEOREM TypeCorrect == Spec => []TypeOK
<1>1. TypeOK /\ WriterShape /\ [Next]_vars => (TypeOK /\ WriterShape)'
  BY TypeStep, ShapeStep
<1>. QED  BY <1>1, InitTyped, PTL DEF Spec

-----------------------------------------------------------------------------
(* What recovery recomputes is what the matcher decided.                    *)

(* The statements that write a status leave a row claimable only as matched. *)
LEMMA ClaimableStep == TypeOK /\ ClaimableAsMatched /\ [Next]_vars => ClaimableAsMatched'
<1>. SUFFICES ASSUME TypeOK, ClaimableAsMatched, [Next]_vars, NEW f \in Files,
                     status'[f] \in Claimable
              PROVE  status'[f] = MatchStatus(confidence'[f])
  BY DEF ClaimableAsMatched
<1>. USE DEF disk, recovery, control, reports, link, writer
<1>1. status \in [Files -> Status] /\ confidence \in [Files -> Confidence]
  BY DEF TypeOK
<1>2. status[f] \in Claimable => status[f] = MatchStatus(confidence[f])
  BY DEF ClaimableAsMatched
<1>3. ASSUME NEW us \in Seq(Update), status' = Applied(status, us), confidence' = confidence
      PROVE  status'[f] = MatchStatus(confidence'[f])
  <2>1. Mentions(us, f) => status'[f] \in Terminal
    BY <1>1, <1>3, AppliedType
  <2>2. ~Mentions(us, f) => status'[f] = status[f]
    BY <1>1, <1>3, AppliedType
  <2>3. Claimable \cap Terminal = {}
    BY DEF Claimable, Terminal
  <2>. QED  BY <1>2, <1>3, <2>1, <2>2, <2>3
<1>4. CASE UNCHANGED <<status, confidence>>
  BY <1>2, <1>4
<1>5. ASSUME NEW next \in {"idle", "replay"}, Open(next)
      PROVE  status'[f] = MatchStatus(confidence'[f])
  BY <1>1, <1>2, <1>5, RecoveryStatusType DEF Open, Restored
<1>6. ASSUME NEW m \in [Files -> Confidence], ApplyMatchBatch(m)
      PROVE  status'[f] = MatchStatus(confidence'[f])
  BY <1>1, <1>2, <1>6 DEF ApplyMatchBatch
<1>7. ASSUME NEW S \in SUBSET Files, ClaimBatch(S)
      PROVE  status'[f] = MatchStatus(confidence'[f])
  BY <1>1, <1>2, <1>7 DEF ClaimBatch, Claimed, Claimable
<1>8. CASE ReplayLog
  BY <1>3, <1>8 DEF ReplayLog, TypeOK
<1>9. CASE Commit
  BY <1>3, <1>9 DEF Commit, TypeOK
<1>10. CASE FallbackStatement
  <2>1. <<Head(batch)>> \in Seq(Update)
    <3>. HIDE DEF Update
    <3>1. batch \in Seq(Update) /\ batch # <<>>
      BY <1>10 DEF FallbackStatement, TypeOK
    <3>. QED  BY <3>1
  <2>. QED  BY <1>3, <1>4, <1>10, <2>1 DEF FallbackStatement
<1>11. CASE OwnerStep /\ ~ReplayLog
  BY <1>4, <1>11 DEF OwnerStep, FlushBegin, FlushSend, FlushRefused, FlushReturn, DropBegin,
                     TermSend, Join, ReplayNothing, RemoveLog
<1>12. CASE WriterStep /\ ~Commit /\ ~FallbackStatement
  BY <1>4, <1>12 DEF WriterStep, Receive, Drain, DrainEnd, CommitFails, Fallback, ParkLine,
                     FallbackEnd, GiveUp, GoDormant, DormantReceive, Answer
<1>13. CASE (\E g \in Files, to \in Outcomes : ReportBegin(g, to)) \/ \E g \in Files : ReportSend(g)
  BY <1>4, <1>13 DEF ReportBegin, ReportSend
<1>14. CASE Poison \/ Crash \/ CrashMidLine \/ UNCHANGED vars
  BY <1>4, <1>14 DEF Poison, Crash, CrashMidLine, vars
<1>. QED
  BY <1>5, <1>6, <1>7, <1>8, <1>9, <1>10, <1>11, <1>12, <1>13, <1>14 DEF Next

(* However often a file is claimed and its claim handed back by a restart,  *)
(* a row that can be claimed shows the status that match_batch gave it: the *)
(* CASE expression of recover_interrupted_processing, which sees only the   *)
(* confidence, agrees with the matcher (for confidences above 0).           *)
THEOREM ClaimableRowsAsMatched == Spec => []ClaimableAsMatched
<1>1. Init => ClaimableAsMatched
  BY DEF Init, ClaimableAsMatched, Claimable
<1>. QED  BY <1>1, TypeCorrect, ClaimableStep, PTL DEF Spec

-----------------------------------------------------------------------------
(* What the channel, the batch and the failed updates hold after a step.    *)

(* Outcomes in flight are in the channel, the batch or the failed updates. *)
LEMMA InFlightParts == InFlight = Queued \cup Held(batch) \cup Held(failed)
  BY DEF InFlight, Queued

(* The outcomes in flight are updates. *)
LEMMA InFlightType == TypeOK => InFlight \subseteq Update
<1>. SUFFICES ASSUME TypeOK, NEW u \in InFlight
              PROVE  u \in Update
  OBVIOUS
<1>1. CASE u \in Queued
  <2>1. PICK i \in DOMAIN channel : channel[i].kind = "update" /\ u = channel[i].update
    BY <1>1 DEF Queued, Held
  <2>2. channel[i] \in Message
    <3>. HIDE DEF Message
    <3>. QED  BY <2>1 DEF TypeOK
  <2>. QED  BY <2>1, <2>2 DEF Message, UpdateMsg, FlushMsg, TermMsg
<1>2. CASE u \in Held(batch) \cup Held(failed)
  <2>1. batch \in Seq(Update) /\ failed \in Seq(Update)
    BY DEF TypeOK
  <2>. HIDE DEF Update
  <2>. QED  BY <1>2, <2>1 DEF Held
<1>. QED  BY <1>1, <1>2, InFlightParts

(* Taking a message removes at most one outcome from the channel. *)
LEMMA TailQueued ==
    ASSUME channel \in Seq(Message), channel # <<>>, channel' = Tail(channel)
    PROVE  Queued = Queued' \cup (IF Head(channel).kind = "update" THEN {Head(channel).update} ELSE {})
<1>1. Held(channel) = {Head(channel)} \cup Held(channel')
  BY HeldHeadTail
<1>. QED  BY <1>1 DEF Queued, Held

(* Sending adds the outcome of the message, if it is an update. *)
LEMMA AppendQueued ==
    ASSUME channel \in Seq(Message), NEW m \in Message, channel' = Append(channel, m)
    PROVE  Queued' = Queued \cup (IF m.kind = "update" THEN {m.update} ELSE {})
<1>1. Held(channel') = {m} \cup Held(channel)
  BY HeldAppend
<1>. QED  BY <1>1 DEF Queued, Held

(* An outcome that leaves the channel for the batch stays in flight. *)
LEMMA TakeMessageInFlight ==
    ASSUME TypeOK, TakeMessage, failed' = failed
    PROVE  InFlight' = InFlight
<1>1. channel \in Seq(Message) /\ batch \in Seq(Update)
  BY DEF TypeOK
<1>2. channel # <<>> /\ channel' = Tail(channel)
  BY DEF TakeMessage
<1>3. Queued = Queued' \cup (IF Head(channel).kind = "update" THEN {Head(channel).update} ELSE {})
  BY <1>1, <1>2, TailQueued
<1>4. CASE Head(channel).kind = "update"
  <2>1. Head(channel).update \in Queued
    BY <1>3, <1>4
  <2>2. Head(channel).update \in Update
    BY <2>1, InFlightType, InFlightParts
  <2>3. Held(batch') = Held(batch) \cup {Head(channel).update}
    BY <1>1, <1>4, <2>2, HeldAppend DEF TakeMessage
  <2>. QED  BY <1>3, <1>4, <2>3 DEF InFlight, Queued, Held
<1>5. CASE Head(channel).kind # "update"
  BY <1>3, <1>5 DEF InFlight, Queued, Held, TakeMessage
<1>. QED  BY <1>4, <1>5

-----------------------------------------------------------------------------
(* What a step of the writer does to the outcomes in flight.                *)

(* Rows change only to outcomes in flight, and an outcome that is no longer *)
(* in flight is in its row or, if the log can be written, in the log.       *)
Settling ==
    /\ UNCHANGED reports
    /\ InFlight' \subseteq InFlight
    /\ \A f \in Files : status'[f] = status[f] \/ [file |-> f, to |-> status'[f]] \in InFlight
    /\ ~LogMayFail /\ logEnd = "newline" =>
          /\ Held(rlog) \subseteq Held(rlog')
          /\ \A u \in InFlight \ InFlight' : status'[u.file] = u.to \/ u \in Held(rlog')

(* Running updates that are in flight changes rows only to them, and each *)
(* of them reaches its row.                                               *)
LEMMA AppliedSettles ==
    ASSUME TypeOK, Owned, NEW us \in Seq(Update), Held(us) \subseteq InFlight
    PROVE  /\ \A f \in Files : \/ Applied(status, us)[f] = status[f]
                              \/ [file |-> f, to |-> Applied(status, us)[f]] \in InFlight
           /\ \A u \in Held(us) : Applied(status, us)[u.file] = u.to
<1>1. status \in [Files -> Status]
  BY DEF TypeOK
<1>2. ASSUME NEW u \in Held(us)
      PROVE  Applied(status, us)[u.file] = u.to
  <2>1. u \in Update
    <3>. HIDE DEF Update
    <3>. QED  BY DEF Held
  <2>2. u.file \in Files /\ Mentions(us, u.file)
    BY <2>1 DEF Held, Mentions, Update
  <2>3. [file |-> u.file, to |-> Applied(status, us)[u.file]] \in InFlight
    BY <1>1, <2>2, AppliedType
  <2>4. [file |-> u.file, to |-> Applied(status, us)[u.file]] = Report(u.file)
    BY <2>3 DEF Owned
  <2>5. u = Report(u.file)
    BY DEF Owned
  <2>. QED  BY <2>4, <2>5
<1>. QED  BY <1>1, <1>2, AppliedType

(* A line that is appended to a log with whole lines joins them. *)
LEMMA LogLineHolds ==
    ASSUME TypeOK, NEW u \in Update, LogLine(u), ~LogMayFail, logEnd = "newline"
    PROVE  Held(rlog') = Held(rlog) \cup {u}
<1>1. rlog' = Append(rlog, u)
  BY DEF LogLine, WithText
<1>2. rlog \in Seq(Update)
  BY DEF TypeOK
<1>. QED  BY <1>1, <1>2, HeldAppend

(* Every step of the writer is a settling step. *)
LEMMA SettlingStep ==
    ASSUME TypeOK, WriterShape, Owned, WriterStep
    PROVE  Settling
<1>. USE DEF disk, recovery, control, reports, link, writer
<1>1. ASSUME InFlight' = InFlight, UNCHANGED <<status, rlog, worker, outcome>>
      PROVE  Settling
  BY <1>1 DEF Settling
<1>2. CASE Receive \/ Drain
  BY <1>1, <1>2, TakeMessageInFlight DEF Receive, Drain
<1>3. CASE DrainEnd \/ CommitFails \/ Fallback \/ FallbackEnd \/ GoDormant \/ Answer
  BY <1>1, <1>3 DEF DrainEnd, CommitFails, Fallback, FallbackEnd, GoDormant, Answer, InFlight
<1>4. CASE Commit
  <2>1. batch \in Seq(Update) /\ Held(batch) \subseteq InFlight
    BY DEF TypeOK, InFlight
  <2>2. status' = Applied(status, batch) /\ rlog' = rlog /\ UNCHANGED reports
    BY <1>4 DEF Commit
  <2>3. Held(batch') = {} /\ Held(failed') = Held(failed) /\ Queued' = Queued
    BY <1>4, HeldEmpty DEF Commit, Queued
  <2>4. InFlight' \subseteq InFlight /\ InFlight \ InFlight' \subseteq Held(batch)
    BY <2>3 DEF InFlight, Queued
  <2>. QED  BY <2>1, <2>2, <2>4, AppliedSettles DEF Settling
<1>5. CASE FallbackStatement
  <2>1. batch \in Seq(Update) /\ batch # <<>> /\ batch' = Tail(batch) /\ failed \in Seq(Update)
    BY <1>5 DEF TypeOK, FallbackStatement
  <2>2. Held(batch) = {Head(batch)} \cup Held(batch')
    BY <2>1, HeldHeadTail
  <2>3. Head(batch) \in InFlight
    BY <2>2 DEF InFlight
  <2>4. Head(batch) \in Update
    BY <2>3, InFlightType
  <2>5. rlog' = rlog /\ channel' = channel /\ UNCHANGED reports
    BY <1>5 DEF FallbackStatement
  <2>6. CASE status' = Applied(status, <<Head(batch)>>) /\ failed' = failed
    <3>1. <<Head(batch)>> \in Seq(Update) /\ Held(<<Head(batch)>>) = {Head(batch)}
      <4>. HIDE DEF Update
      <4>. QED  BY <2>4 DEF Held
    <3>2. InFlight' \subseteq InFlight /\ InFlight \ InFlight' \subseteq {Head(batch)}
      BY <2>2, <2>5, <2>6 DEF InFlight
    <3>. QED  BY <2>3, <2>5, <2>6, <3>1, <3>2, AppliedSettles DEF Settling
  <2>7. CASE failed' = Append(failed, Head(batch)) /\ status' = status
    <3>1. Held(failed') = Held(failed) \cup {Head(batch)}
      BY <2>1, <2>4, <2>7, HeldAppend
    <3>2. InFlight' = InFlight
      BY <2>2, <2>5, <3>1 DEF InFlight
    <3>. QED  BY <1>1, <2>5, <2>7, <3>2
  <2>. QED  BY <1>5, <2>6, <2>7 DEF FallbackStatement
<1>6. CASE ParkLine
  <2>1. PICK u \in Update : NextLine(u) /\ LogLine(u)
    BY <1>6 DEF ParkLine
  <2>2. failed # <<>> /\ u = Head(failed) /\ failed' = Tail(failed) /\ failed \in Seq(Update)
    BY <1>6, <2>1 DEF ParkLine, NextLine, TypeOK
  <2>3. Held(failed) = {u} \cup Held(failed')
    BY <2>2, HeldHeadTail
  <2>4. UNCHANGED <<status, reports, channel, batch>>
    BY <1>6 DEF ParkLine
  <2>5. InFlight' \subseteq InFlight /\ InFlight \ InFlight' \subseteq {u}
    BY <2>3, <2>4 DEF InFlight
  <2>. QED  BY <2>1, <2>4, <2>5, LogLineHolds DEF Settling
<1>7. CASE GiveUp
  <2>1. Held(batch') = {} /\ Held(failed) = {} /\ Held(failed') = Held(batch)
    BY <1>7, HeldEmpty DEF GiveUp, WriterShape
  <2>2. InFlight' = InFlight
    BY <1>7, <2>1 DEF GiveUp, InFlight
  <2>. QED  BY <1>1, <1>7, <2>2 DEF GiveUp
<1>8. CASE DormantReceive
  <2>1. channel \in Seq(Message) /\ channel # <<>> /\ channel' = Tail(channel)
    BY <1>8 DEF DormantReceive, TypeOK
  <2>2. UNCHANGED <<status, reports, batch, failed>>
    BY <1>8 DEF DormantReceive
  <2>3. Queued = Queued' \cup (IF Head(channel).kind = "update" THEN {Head(channel).update} ELSE {})
    BY <2>1, TailQueued
  <2>4. CASE Head(channel).kind = "update"
    <3>1. Head(channel).update \in InFlight /\ LogLine(Head(channel).update)
      BY <1>8, <2>3, <2>4, InFlightParts DEF DormantReceive
    <3>2. Head(channel).update \in Update
      BY <3>1, InFlightType
    <3>3. InFlight' \subseteq InFlight /\ InFlight \ InFlight' \subseteq {Head(channel).update}
      BY <2>2, <2>3, <2>4 DEF InFlight, Queued
    <3>. QED  BY <2>2, <3>1, <3>2, <3>3, LogLineHolds DEF Settling
  <2>5. CASE Head(channel).kind # "update"
    <3>1. InFlight' = InFlight
      BY <2>2, <2>3, <2>5 DEF InFlight, Queued
    <3>. QED  BY <1>1, <1>8, <2>2, <2>5, <3>1 DEF DormantReceive
  <2>. QED  BY <2>4, <2>5
<1>. QED  BY <1>2, <1>3, <1>4, <1>5, <1>6, <1>7, <1>8 DEF WriterStep

-----------------------------------------------------------------------------
(* Who owns the outcomes in flight.                                         *)

(* The owner's steps that touch neither the rows nor the log. *)
QuietStep ==
    \/ FlushBegin \/ FlushSend \/ FlushRefused \/ FlushReturn
    \/ DropBegin \/ TermSend \/ Join \/ ReplayNothing \/ Poison \/ UNCHANGED vars

(* The quiet steps are settling steps in which nothing leaves the flight. *)
LEMMA QuietSettles ==
    ASSUME TypeOK, QuietStep
    PROVE  Settling /\ InFlight' = InFlight
<1>. USE DEF disk, recovery, control, reports, link, writer
<1>1. UNCHANGED <<status, rlog, worker, outcome, batch, failed>>
  BY DEF QuietStep, FlushBegin, FlushSend, FlushRefused, FlushReturn, DropBegin, TermSend, Join,
         ReplayNothing, Poison, vars
<1>2. Queued' = Queued
  <2>1. CASE FlushSend \/ TermSend
    <3>1. channel' = Append(channel, FlushMsg) \/ channel' = Append(channel, TermMsg)
      BY <2>1 DEF FlushSend, TermSend
    <3>2. channel \in Seq(Message) /\ FlushMsg.kind # "update" /\ TermMsg.kind # "update"
      BY DEF TypeOK, FlushMsg, TermMsg
    <3>. QED  BY <3>1, <3>2, FlushTermType, AppendQueued
  <2>2. CASE ~(FlushSend \/ TermSend)
    <3>1. channel' = channel
      BY <2>2 DEF QuietStep, FlushBegin, FlushRefused, FlushReturn, DropBegin, Join,
                  ReplayNothing, Poison, vars
    <3>. QED  BY <3>1 DEF Queued
  <2>. QED  BY <2>1, <2>2
<1>3. InFlight' = InFlight
  BY <1>1, <1>2 DEF InFlight, Queued
<1>. QED  BY <1>1, <1>3 DEF Settling

(* A new process has nothing in flight and no worker at work. *)
LEMMA FreshMemoryEmpty ==
    ASSUME FreshMemory
    PROVE  InFlight' = {} /\ \A f \in Files : worker'[f] = "idle"
  BY HeldEmpty DEF FreshMemory, InFlight, Held

(* Settling outcomes keeps the owners of the others. *)
LEMMA OwnedSettling ==
    ASSUME TypeOK, Owned, Settling
    PROVE  Owned'
<1>1. worker' = worker /\ outcome' = outcome
  BY DEF Settling, reports
<1>2. ASSUME NEW f \in Files, status'[f] # status[f]
      PROVE  worker[f] = "accepted" /\ status'[f] = outcome[f]
  <2>1. [file |-> f, to |-> status'[f]] \in InFlight
    BY <1>2 DEF Settling
  <2>. QED  BY <2>1 DEF Owned, Report
<1>3. ASSUME NEW u \in InFlight'
      PROVE  /\ worker'[u.file] = "accepted" /\ u = Report(u.file)'
             /\ status'[u.file] \in {"Processing", u.to}
  <2>1. u \in InFlight
    BY DEF Settling
  <2>2. u.file \in Files
    BY <2>1, InFlightType DEF Update
  <2>3. worker[u.file] = "accepted" /\ u = Report(u.file) /\ status[u.file] \in {"Processing", u.to}
    BY <2>1 DEF Owned
  <2>4. u.to = outcome[u.file]
    BY <2>3 DEF Report
  <2>. QED  BY <1>1, <1>2, <2>2, <2>3, <2>4 DEF Report
<1>4. ASSUME NEW f \in Files, worker'[f] = "sending"
      PROVE  status'[f] = "Processing"
  BY <1>1, <1>2, <1>4 DEF Owned
<1>. QED  BY <1>3, <1>4 DEF Owned

(* Who owns an outcome does not change; nobody takes a claimed file back. *)
LEMMA OwnedStep == TypeOK /\ WriterShape /\ Owned /\ ReplayQuiet /\ [Next]_vars => Owned'
<1>. SUFFICES ASSUME TypeOK, WriterShape, Owned, ReplayQuiet, [Next]_vars
              PROVE  Owned'
  OBVIOUS
<1>. USE DEF disk, recovery, control, reports, link, writer
<1>1. CASE WriterStep \/ QuietStep
  BY <1>1, SettlingStep, QuietSettles, OwnedSettling
<1>2. ASSUME FreshMemory
      PROVE  Owned'
  BY <1>2, FreshMemoryEmpty DEF Owned
<1>3. CASE (\E next \in {"idle", "replay"} : Open(next)) \/ Crash \/ CrashMidLine
  BY <1>2, <1>3 DEF Open, Crash, CrashMidLine
<1>4. ASSUME InFlight' = InFlight, UNCHANGED reports,
             \A f \in Files : status[f] \in {"Processing"} \cup Terminal => status'[f] = status[f]
      PROVE  Owned'
  <2>1. ASSUME NEW u \in InFlight
        PROVE  /\ worker'[u.file] = "accepted" /\ u = Report(u.file)'
               /\ status'[u.file] \in {"Processing", u.to}
    <3>1. u \in Update
      BY InFlightType
    <3>. QED  BY <1>4, <3>1 DEF Owned, Report, Update
  <2>. QED  BY <1>4, <2>1 DEF Owned
<1>5. CASE (\E m \in [Files -> Confidence] : ApplyMatchBatch(m)) \/ \E S \in SUBSET Files : ClaimBatch(S)
  <2>1. UNCHANGED <<channel, batch, failed, worker, outcome>>
    BY <1>5 DEF ApplyMatchBatch, ClaimBatch
  <2>2. \A f \in Files : status[f] \in {"Processing"} \cup Terminal => status'[f] = status[f]
    BY <1>5 DEF ApplyMatchBatch, ClaimBatch, Claimed, Claimable, Terminal
  <2>. QED  BY <1>4, <2>1, <2>2 DEF InFlight
<1>6. ASSUME NEW f \in Files, NEW to \in Outcomes, ReportBegin(f, to)
      PROVE  Owned'
  <2>1. InFlight' = InFlight /\ status' = status
    BY <1>6 DEF ReportBegin, InFlight
  <2>2. \A g \in Files \ {f} : worker'[g] = worker[g] /\ outcome'[g] = outcome[g]
    BY <1>6 DEF ReportBegin, TypeOK
  <2>3. status[f] = "Processing" /\ worker[f] = "idle"
    BY <1>6 DEF ReportBegin
  <2>4. \A u \in InFlight : u.file \in Files \ {f}
    BY <2>3, InFlightType DEF Owned, Update
  <2>. QED  BY <2>1, <2>2, <2>3, <2>4 DEF Owned, Report
<1>7. ASSUME NEW f \in Files, ReportSend(f)
      PROVE  Owned'
  <2>1. channel' = Append(channel, UpdateMsg(Report(f))) /\ UNCHANGED <<status, outcome, batch, failed>>
    BY <1>7 DEF ReportSend
  <2>2. channel \in Seq(Message) /\ UpdateMsg(Report(f)).kind = "update"
        /\ UpdateMsg(Report(f)).update = Report(f)
    BY DEF TypeOK, UpdateMsg
  <2>3. Queued' = Queued \cup {Report(f)}
    BY <2>1, <2>2, ReportType, AppendQueued
  <2>4. InFlight' = InFlight \cup {Report(f)}
    BY <2>1, <2>3 DEF InFlight, Queued
  <2>5. worker[f] = "sending" /\ worker'[f] = "accepted" /\ \A g \in Files \ {f} : worker'[g] = worker[g]
    BY <1>7 DEF ReportSend, TypeOK
  <2>6. \A u \in InFlight : u.file \in Files
    BY InFlightType DEF Update
  <2>. QED  BY <2>1, <2>4, <2>5, <2>6 DEF Owned, Report
<1>8. CASE ReplayLog
  <2>1. \A f \in Files : worker[f] = "idle"
    BY <1>8 DEF ReplayLog, ReplayQuiet
  <2>2. InFlight = {}
    BY <2>1, InFlightType DEF Owned, Update
  <2>3. InFlight' = {} /\ worker' = worker
    BY <1>8, <2>2 DEF ReplayLog, InFlight
  <2>. QED  BY <2>1, <2>3 DEF Owned
<1>9. CASE RemoveLog
  BY <1>4, <1>9 DEF RemoveLog, InFlight
<1>. QED
  BY <1>1, <1>3, <1>5, <1>6, <1>7, <1>8, <1>9 DEF Next, OwnerStep, QuietStep

-----------------------------------------------------------------------------
(* No accepted outcome is forgotten.                                        *)

KeepInv ==
    /\ TypeOK /\ WriterShape /\ Owned /\ ReplayQuiet /\ WholeLines
    /\ NothingForgotten

(* No report begins while the log is applied or removed. *)
LEMMA ReplayQuietStep == ReplayQuiet /\ [Next]_vars => ReplayQuiet'
<1>. SUFFICES ASSUME ReplayQuiet, [Next]_vars, NEW f \in Files, owner' \in {"replay", "unlink"}
              PROVE  worker'[f] = "idle"
  BY DEF ReplayQuiet
<1>. USE DEF disk, recovery, control, reports, link, writer
<1>1. CASE \E next \in {"idle", "replay"} : Open(next)
  BY <1>1 DEF Open, FreshMemory
<1>2. CASE ~\E next \in {"idle", "replay"} : Open(next)
  <2>1. owner \in {"replay", "unlink"} /\ worker' = worker
    BY <1>2 DEF Next, vars, OwnerStep, WriterStep, ApplyMatchBatch, ClaimBatch, ReportBegin,
                ReportSend, ReplayQuiet, FlushBegin, FlushSend, FlushRefused, FlushReturn,
                DropBegin, TermSend, Join, ReplayLog, ReplayNothing, RemoveLog, Receive, Drain,
                DrainEnd, Commit, CommitFails, Fallback, FallbackStatement, ParkLine,
                FallbackEnd, GiveUp, GoDormant, DormantReceive, Answer, Poison, Crash,
                CrashMidLine
  <2>. QED  BY <2>1 DEF ReplayQuiet
<1>. QED  BY <1>1, <1>2

(* Only a crash inside an append leaves a line without its newline. *)
LEMMA WholeLinesStep == WholeLines /\ [Next]_vars => WholeLines'
<1>. SUFFICES ASSUME WholeLines, [Next]_vars, ~MayTear
              PROVE  logEnd' = "newline"
  BY DEF WholeLines
<1>. USE DEF disk, recovery, control, reports, link, writer
<1>1. logEnd' = logEnd \/ logEnd' = "newline"
  BY DEF Next, vars, OwnerStep, WriterStep, Open, ApplyMatchBatch, ClaimBatch, ReportBegin,
         ReportSend, FlushBegin, FlushSend, FlushRefused, FlushReturn, DropBegin, TermSend, Join,
         ReplayLog, ReplayNothing, RemoveLog, Receive, Drain, DrainEnd, Commit, CommitFails,
         Fallback, FallbackStatement, ParkLine, FallbackEnd, GiveUp, GoDormant, DormantReceive,
         LogLine, Answer, Poison, Crash, CrashMidLine
<1>. QED  BY <1>1 DEF WholeLines

(* A step that settles outcomes keeps every accepted one. *)
LEMMA KeptSettling ==
    ASSUME TypeOK, Owned, Settling, AcceptedIsKept, ~LogMayFail, logEnd = "newline"
    PROVE  AcceptedIsKept'
<1>. SUFFICES ASSUME NEW f \in Files, worker'[f] = "accepted"
              PROVE  Report(f)' \in InFlight' \/ status'[f] = outcome'[f] \/ Report(f)' \in Held(rlog')
  BY DEF AcceptedIsKept, Safe, Held
<1>1. worker' = worker /\ outcome' = outcome /\ Report(f)' = Report(f)
  BY DEF Settling, reports, Report
<1>2. /\ Held(rlog) \subseteq Held(rlog')
      /\ \A u \in InFlight \ InFlight' : status'[u.file] = u.to \/ u \in Held(rlog')
  BY DEF Settling
<1>3. Report(f) \in InFlight \/ status[f] = outcome[f] \/ Report(f) \in Held(rlog)
  BY <1>1 DEF AcceptedIsKept, Safe
<1>4. CASE Report(f) \in InFlight
  BY <1>1, <1>2, <1>4 DEF Report
<1>5. CASE status[f] = outcome[f]
  <2>1. status'[f] = status[f] \/ [file |-> f, to |-> status'[f]] \in InFlight
    BY DEF Settling
  <2>. QED  BY <1>1, <1>5, <2>1 DEF Owned, Report
<1>6. CASE Report(f) \in Held(rlog)
  BY <1>1, <1>2, <1>6
<1>. QED  BY <1>3, <1>4, <1>5, <1>6

(* Every step keeps every accepted outcome in flight or safe. *)
LEMMA KeptStep == KeepInv /\ [Next]_vars => NothingForgotten'
<1>. SUFFICES ASSUME KeepInv, [Next]_vars, ~LogMayFail, ~MayTear
              PROVE  AcceptedIsKept'
  BY DEF NothingForgotten
<1>. USE DEF disk, recovery, control, reports, link, writer
<1>1. /\ TypeOK /\ WriterShape /\ Owned /\ ReplayQuiet
      /\ AcceptedIsKept /\ logEnd = "newline"
  BY DEF KeepInv, NothingForgotten, WholeLines
<1>2. CASE WriterStep \/ QuietStep
  BY <1>1, <1>2, SettlingStep, QuietSettles, KeptSettling
<1>3. ASSUME \A f \in Files : worker'[f] # "accepted"
      PROVE  AcceptedIsKept'
  BY <1>3 DEF AcceptedIsKept
<1>4. CASE (\E next \in {"idle", "replay"} : Open(next)) \/ Crash \/ CrashMidLine
  BY <1>3, <1>4, FreshMemoryEmpty DEF Open, Crash, CrashMidLine
<1>5. CASE (\E m \in [Files -> Confidence] : ApplyMatchBatch(m)) \/ \E S \in SUBSET Files : ClaimBatch(S)
  <2>1. UNCHANGED <<channel, batch, failed, worker, outcome, rlog>>
    BY <1>5 DEF ApplyMatchBatch, ClaimBatch
  <2>2. \A f \in Files : status[f] \in Terminal => status'[f] = status[f]
    BY <1>5 DEF ApplyMatchBatch, ClaimBatch, Claimed, Claimable, Terminal
  <2>3. outcome \in [Files -> Terminal]
    BY <1>1 DEF TypeOK
  <2>. QED  BY <1>1, <2>1, <2>2, <2>3 DEF AcceptedIsKept, InFlight, Safe, Report
<1>6. ASSUME NEW f \in Files, NEW to \in Outcomes, ReportBegin(f, to)
      PROVE  AcceptedIsKept'
  <2>1. UNCHANGED <<status, rlog, channel, batch, failed>>
    BY <1>6 DEF ReportBegin
  <2>2. \A g \in Files \ {f} : worker'[g] = worker[g] /\ outcome'[g] = outcome[g]
    BY <1>1, <1>6 DEF ReportBegin, TypeOK
  <2>3. worker'[f] # "accepted"
    BY <1>1, <1>6 DEF ReportBegin, TypeOK
  <2>. QED  BY <1>1, <2>1, <2>2, <2>3 DEF AcceptedIsKept, InFlight, Safe, Report
<1>7. ASSUME NEW f \in Files, ReportSend(f)
      PROVE  AcceptedIsKept'
  <2>1. channel' = Append(channel, UpdateMsg(Report(f)))
        /\ UNCHANGED <<status, rlog, outcome, batch, failed>>
    BY <1>7 DEF ReportSend
  <2>2. channel \in Seq(Message) /\ UpdateMsg(Report(f)).kind = "update"
        /\ UpdateMsg(Report(f)).update = Report(f)
    BY <1>1 DEF TypeOK, UpdateMsg
  <2>3. Queued' = Queued \cup {Report(f)}
    BY <1>1, <2>1, <2>2, ReportType, AppendQueued
  <2>4. InFlight' = InFlight \cup {Report(f)}
    BY <2>1, <2>3 DEF InFlight, Queued
  <2>5. \A g \in Files \ {f} : worker'[g] = worker[g]
    BY <1>1, <1>7 DEF ReportSend, TypeOK
  <2>. QED  BY <1>1, <2>1, <2>4, <2>5 DEF AcceptedIsKept, Safe, Report
<1>8. CASE ReplayLog \/ RemoveLog
  <2>1. \A f \in Files : worker'[f] = "idle"
    BY <1>1, <1>8 DEF ReplayLog, RemoveLog, ReplayQuiet
  <2>. QED  BY <1>3, <2>1
<1>. QED
  BY <1>2, <1>4, <1>5, <1>6, <1>7, <1>8 DEF Next, OwnerStep, QuietStep

(* The invariant holds in every state. *)
LEMMA KeepInvHolds == Spec => []KeepInv
<1>1. Init => KeepInv
  <2>. SUFFICES ASSUME Init PROVE KeepInv
    OBVIOUS
  <2>1. InFlight = {} /\ \A f \in Files : worker[f] = "idle"
    BY HeldEmpty DEF Init, InFlight, Held
  <2>. QED
    BY <2>1, InitTyped DEF Init, KeepInv, Owned, ReplayQuiet, WholeLines, NothingForgotten,
                           AcceptedIsKept
<1>2. KeepInv /\ [Next]_vars => KeepInv'
  BY TypeStep, ShapeStep, OwnedStep, ReplayQuietStep, WholeLinesStep, KeptStep DEF KeepInv
<1>. QED  BY <1>1, <1>2, PTL DEF Spec

(* Whatever the writer does with a batch (commit, retry, fallback statement *)
(* by statement, give up and park) and however workers, flushes, crashes    *)
(* and restarts interleave: an outcome that enqueue_status_update accepted  *)
(* is in flight, in its row or in the recovery log, if the log can be       *)
(* written and no crash cuts a line of it.                                  *)
THEOREM NoOutcomeForgotten == Spec => []NothingForgotten
<1>1. KeepInv => NothingForgotten
  BY DEF KeepInv
<1>. QED  BY <1>1, KeepInvHolds, PTL

-----------------------------------------------------------------------------
(* A terminal status stays.                                                 *)

(* No step but the replay changes a terminal status. *)
LEMMA TerminalStep ==
    ASSUME KeepInv, [Next]_vars, owner # "replay", NEW f \in Files, status[f] \in Terminal
    PROVE  status'[f] = status[f]
<1>. USE DEF disk, recovery, control, reports, link, writer
<1>1. TypeOK /\ WriterShape /\ Owned
  BY DEF KeepInv
<1>2. ASSUME Settling
      PROVE  status'[f] = status[f]
  <2>. SUFFICES ASSUME [file |-> f, to |-> status'[f]] \in InFlight
                PROVE  status'[f] = status[f]
    BY <1>2 DEF Settling
  <2>1. status[f] \in {"Processing", status'[f]}
    BY <1>1 DEF Owned
  <2>. QED  BY <2>1 DEF Terminal
<1>3. CASE WriterStep \/ QuietStep
  BY <1>1, <1>2, <1>3, SettlingStep, QuietSettles
<1>4. CASE \E next \in {"idle", "replay"} : Open(next)
  BY <1>4 DEF Open, Restored, Terminal
<1>5. CASE (\E m \in [Files -> Confidence] : ApplyMatchBatch(m)) \/ \E S \in SUBSET Files : ClaimBatch(S)
  BY <1>5 DEF ApplyMatchBatch, ClaimBatch, Claimed, Claimable, Terminal
<1>6. CASE (\E g \in Files, to \in Outcomes : ReportBegin(g, to)) \/ \E g \in Files : ReportSend(g)
  BY <1>6 DEF ReportBegin, ReportSend
<1>7. CASE ReplayLog \/ RemoveLog \/ Crash \/ CrashMidLine
  BY <1>7 DEF ReplayLog, RemoveLog, Crash, CrashMidLine
<1>. QED
  BY <1>3, <1>4, <1>5, <1>6, <1>7 DEF Next, OwnerStep, QuietStep

(* Completed, Error and Skipped are final: no update that arrives late, no  *)
(* second claim and no restart changes the row of a finished file; only the *)
(* replay of a recovery log does.                                           *)
THEOREM FinishedRowsStay == Spec => TerminalIsFinal
<1>1. KeepInv /\ [Next]_vars =>
        [owner # "replay" => \A f \in Files : status[f] \in Terminal => status'[f] = status[f]]_vars
  BY TerminalStep
<1>. QED  BY <1>1, KeepInvHolds, PTL DEF Spec, TerminalIsFinal

-----------------------------------------------------------------------------
(* A flush is a barrier: its inductive invariant.                           *)

(* A flush on its way to the writer. *)
HasFlush == \E i \in DOMAIN channel : channel[i].kind = "flush"

(* The owner waits for one flush at a time. *)
FlushOnce ==
    /\ \A i, j \in DOMAIN channel :
          channel[i].kind = "flush" /\ channel[j].kind = "flush" => i = j
    /\ flushHeld => ~HasFlush
    /\ flushHeld \/ HasFlush => owner = "flushWait" /\ reply = "none"
    /\ owner \in {"flushSend", "replay", "unlink"} => reply = "none"

(* No outcome accepted before the flush comes after it. *)
BarrierOrder ==
    /\ \A f \in barrier : worker[f] = "accepted"
    /\ \A i, j \in DOMAIN channel :
          channel[i].kind = "flush" /\ i < j /\ IsUpdate(channel[j])
          => channel[j].update.file \notin barrier
    /\ flushHeld => \A u \in Queued : u.file \notin barrier
    /\ reply = "ok" => \A u \in InFlight : u.file \notin barrier

FlushInv == FlushOnce /\ BarrierOrder

-----------------------------------------------------------------------------
(* Positions in the channel.                                                *)

(* Taking the first message moves every other one a place forward. *)
LEMMA TailPositions ==
    ASSUME channel \in Seq(Message), channel # <<>>, channel' = Tail(channel)
    PROVE  /\ 1 \in DOMAIN channel /\ Head(channel) = channel[1]
           /\ \A i \in DOMAIN channel' : /\ i \in Nat \ {0} /\ i + 1 \in DOMAIN channel
                                         /\ channel'[i] = channel[i + 1]
<1>. HIDE DEF Message
<1>. QED  OBVIOUS

(* A sent message is the last one; the others keep their places. *)
LEMMA AppendPositions ==
    ASSUME channel \in Seq(Message), NEW m \in Message, channel' = Append(channel, m)
    PROVE  /\ DOMAIN channel' = DOMAIN channel \cup {Len(channel) + 1}
           /\ channel'[Len(channel) + 1] = m
           /\ \A i \in DOMAIN channel : /\ i \in Nat /\ i < Len(channel) + 1
                                        /\ channel'[i] = channel[i]
<1>. HIDE DEF Message
<1>. QED  OBVIOUS

-----------------------------------------------------------------------------
(* The invariant of the flush, step by step.                                *)

(* Steps that leave the channel and the flush alone and add nothing to the *)
(* outcomes in flight.                                                     *)
LEMMA FlushUntouched ==
    ASSUME FlushInv, InFlight' \subseteq InFlight,
           UNCHANGED <<channel, flushHeld, reply, barrier, worker>>,
           owner' = owner \/ (~HasFlush /\ ~flushHeld),
           owner' \in {owner} \cup {"idle", "termSend", "closed"} \/ reply = "none"
    PROVE  FlushInv'
<1>1. HasFlush' = HasFlush /\ Queued' = Queued
  BY DEF HasFlush, Queued
<1>2. FlushOnce'
  BY <1>1 DEF FlushInv, FlushOnce
<1>3. BarrierOrder'
  BY <1>1 DEF FlushInv, BarrierOrder
<1>. QED  BY <1>2, <1>3 DEF FlushInv

(* Taking the first message, by the loop or by the dormant writer: nothing *)
(* accepted before a flush is behind it.                                   *)
LEMMA FlushTaken ==
    ASSUME TypeOK, FlushInv, channel # <<>>, channel' = Tail(channel)
    PROVE  /\ \A i, j \in DOMAIN channel' :
                 channel'[i].kind = "flush" /\ channel'[j].kind = "flush" => i = j
           /\ HasFlush' => HasFlush /\ Head(channel).kind # "flush"
           /\ Head(channel).kind = "flush" => HasFlush
           /\ \A i, j \in DOMAIN channel' :
                 channel'[i].kind = "flush" /\ i < j /\ IsUpdate(channel'[j])
                 => channel'[j].update.file \notin barrier
           /\ Head(channel).kind = "flush" => \A u \in Queued' : u.file \notin barrier
           /\ Queued' \subseteq Queued
<1>1. /\ 1 \in DOMAIN channel /\ Head(channel) = channel[1]
      /\ \A i \in DOMAIN channel' : /\ i \in Nat \ {0} /\ i + 1 \in DOMAIN channel
                                    /\ channel'[i] = channel[i + 1]
  BY TailPositions DEF TypeOK
<1>2. ASSUME NEW i \in DOMAIN channel', NEW j \in DOMAIN channel',
             channel'[i].kind = "flush", channel'[j].kind = "flush"
      PROVE  i = j
  <2>1. i + 1 = j + 1
    BY <1>1, <1>2 DEF FlushInv, FlushOnce
  <2>. QED  BY <1>1, <2>1
<1>3. ASSUME NEW i \in DOMAIN channel', channel'[i].kind = "flush"
      PROVE  HasFlush /\ Head(channel).kind # "flush"
  <2>1. i + 1 \in DOMAIN channel /\ channel[i + 1].kind = "flush" /\ i + 1 # 1
    BY <1>1, <1>3
  <2>. QED  BY <1>1, <2>1 DEF HasFlush, FlushInv, FlushOnce
<1>4. Head(channel).kind = "flush" => HasFlush
  BY <1>1 DEF HasFlush
<1>5. ASSUME NEW i \in DOMAIN channel', NEW j \in DOMAIN channel',
             channel'[i].kind = "flush", i < j, IsUpdate(channel'[j])
      PROVE  channel'[j].update.file \notin barrier
  <2>1. i + 1 < j + 1
    BY <1>1, <1>5
  <2>. QED  BY <1>1, <1>5, <2>1 DEF FlushInv, BarrierOrder
<1>6. ASSUME Head(channel).kind = "flush", NEW u \in Queued'
      PROVE  u.file \notin barrier
  <2>1. PICK j \in DOMAIN channel' : channel'[j].kind = "update" /\ u = channel'[j].update
    BY <1>6 DEF Queued, Held
  <2>2. 1 < j + 1
    BY <1>1
  <2>. QED  BY <1>1, <1>6, <2>1, <2>2 DEF FlushInv, BarrierOrder, IsUpdate
<1>7. Queued' \subseteq Queued
  BY TailQueued DEF TypeOK
<1>8. HasFlush' => HasFlush /\ Head(channel).kind # "flush"
  BY <1>3 DEF HasFlush
<1>. QED  BY <1>2, <1>4, <1>5, <1>6, <1>7, <1>8

(* The writer answers a flush with Ok only when nothing it took before is open. *)
LEMMA FlushWriter ==
    ASSUME TypeOK, WriterShape, Owned, FlushInv, WriterStep
    PROVE  FlushInv'
<1>. USE DEF disk, recovery, control, reports, link, writer
<1>1. InFlight' \subseteq InFlight
  BY SettlingStep DEF Settling
<1>2. CASE Receive \/ Drain
  <2>1. TakeMessage /\ ~flushHeld /\ UNCHANGED <<owner, reply, barrier, worker>>
    BY <1>2 DEF Receive, Drain, WriterShape
  <2>2. channel # <<>> /\ channel' = Tail(channel) /\ flushHeld' = (Head(channel).kind = "flush")
    BY <2>1 DEF TakeMessage
  <2>3. FlushOnce'
    BY <2>1, <2>2, FlushTaken DEF FlushInv, FlushOnce
  <2>4. BarrierOrder'
    BY <1>1, <2>1, <2>2, FlushTaken DEF FlushInv, BarrierOrder
  <2>. QED  BY <2>3, <2>4 DEF FlushInv
<1>3. CASE DrainEnd \/ Commit \/ CommitFails \/ Fallback \/ FallbackStatement \/ ParkLine
           \/ FallbackEnd \/ GiveUp
  <2>1. UNCHANGED <<owner, channel, flushHeld, reply, barrier, worker>>
    BY <1>3 DEF DrainEnd, Commit, CommitFails, Fallback, FallbackStatement, ParkLine,
                FallbackEnd, GiveUp
  <2>. QED  BY <1>1, <2>1, FlushUntouched
<1>4. CASE GoDormant
  <2>1. /\ reply' = IF flushHeld THEN "err" ELSE reply
        /\ ~flushHeld' /\ UNCHANGED <<owner, channel, barrier, worker>>
    BY <1>4 DEF GoDormant
  <2>2. FlushOnce'
    BY <2>1 DEF FlushInv, FlushOnce, HasFlush
  <2>3. BarrierOrder'
    BY <1>1, <2>1 DEF FlushInv, BarrierOrder
  <2>. QED  BY <2>2, <2>3 DEF FlushInv
<1>5. CASE Answer
  <2>1. /\ reply' = IF flushHeld THEN "ok" ELSE reply
        /\ ~flushHeld' /\ UNCHANGED <<owner, channel, barrier, worker>>
    BY <1>5 DEF Answer
  <2>2. InFlight = Queued
    <3>1. batch = <<>> /\ failed = <<>>
      BY <1>5 DEF Answer, WriterShape
    <3>. QED  BY <3>1, HeldEmpty, InFlightParts
  <2>3. FlushOnce'
    BY <2>1 DEF FlushInv, FlushOnce, HasFlush
  <2>4. BarrierOrder'
    BY <1>1, <2>1, <2>2 DEF FlushInv, BarrierOrder
  <2>. QED  BY <2>3, <2>4 DEF FlushInv
<1>6. CASE DormantReceive
  <2>1. /\ channel # <<>> /\ channel' = Tail(channel)
        /\ reply' = IF Head(channel).kind = "flush" THEN "err" ELSE reply
        /\ UNCHANGED <<owner, barrier, worker, flushHeld>>
        /\ ~flushHeld
    BY <1>6 DEF DormantReceive, WriterShape
  <2>2. FlushOnce'
    BY <2>1, FlushTaken DEF FlushInv, FlushOnce
  <2>3. BarrierOrder'
    BY <1>1, <2>1, FlushTaken DEF FlushInv, BarrierOrder
  <2>. QED  BY <2>2, <2>3 DEF FlushInv
<1>. QED  BY <1>2, <1>3, <1>4, <1>5, <1>6 DEF WriterStep

(* Sending something that is no flush and carries no outcome of the barrier. *)
LEMMA FlushOther ==
    ASSUME TypeOK, FlushInv, NEW m \in Message, channel' = Append(channel, m),
           m.kind # "flush", IsUpdate(m) => m.update.file \notin barrier
    PROVE  /\ \A i, j \in DOMAIN channel' :
                 channel'[i].kind = "flush" /\ channel'[j].kind = "flush" => i = j
           /\ HasFlush' = HasFlush
           /\ \A i, j \in DOMAIN channel' :
                 channel'[i].kind = "flush" /\ i < j /\ IsUpdate(channel'[j])
                 => channel'[j].update.file \notin barrier
<1>1. /\ DOMAIN channel' = DOMAIN channel \cup {Len(channel) + 1}
      /\ channel'[Len(channel) + 1] = m
      /\ \A i \in DOMAIN channel : i \in Nat /\ i < Len(channel) + 1 /\ channel'[i] = channel[i]
  BY AppendPositions DEF TypeOK
<1>2. \A i \in DOMAIN channel' : channel'[i].kind = "flush" => i \in DOMAIN channel
  BY <1>1
<1>3. HasFlush' = HasFlush
  BY <1>1, <1>2 DEF HasFlush
<1>4. ASSUME NEW i \in DOMAIN channel', NEW j \in DOMAIN channel',
             channel'[i].kind = "flush", i < j, IsUpdate(channel'[j])
      PROVE  channel'[j].update.file \notin barrier
  <2>1. CASE j \in DOMAIN channel
    BY <1>1, <1>2, <1>4, <2>1 DEF FlushInv, BarrierOrder
  <2>2. CASE j = Len(channel) + 1
    BY <1>1, <1>4, <2>2
  <2>. QED  BY <1>1, <2>1, <2>2
<1>5. \A i, j \in DOMAIN channel' :
         channel'[i].kind = "flush" /\ channel'[j].kind = "flush" => i = j
  BY <1>1, <1>2 DEF FlushInv, FlushOnce
<1>. QED  BY <1>3, <1>4, <1>5

(* Every step keeps the order of the barrier. *)
LEMMA FlushStep == TypeOK /\ WriterShape /\ Owned /\ FlushInv /\ [Next]_vars => FlushInv'
<1>. SUFFICES ASSUME TypeOK, WriterShape, Owned, FlushInv, [Next]_vars
              PROVE  FlushInv'
  OBVIOUS
<1>. USE DEF disk, recovery, control, reports, link, writer
<1>1. CASE WriterStep
  BY <1>1, FlushWriter
<1>2. ASSUME FreshMemory
      PROVE  FlushInv'
  <2>1. InFlight' = {} /\ channel' = <<>> /\ barrier' = {} /\ reply' = "none" /\ ~flushHeld'
    BY <1>2, FreshMemoryEmpty DEF FreshMemory
  <2>. QED  BY <2>1 DEF FlushInv, FlushOnce, BarrierOrder, HasFlush
<1>3. CASE (\E next \in {"idle", "replay"} : Open(next)) \/ Crash \/ CrashMidLine
  BY <1>2, <1>3 DEF Open, Crash, CrashMidLine
<1>4. CASE (\E m \in [Files -> Confidence] : ApplyMatchBatch(m)) \/ (\E S \in SUBSET Files : ClaimBatch(S))
           \/ Poison \/ UNCHANGED vars
  <2>1. UNCHANGED <<owner, channel, batch, failed, flushHeld, reply, barrier, worker>>
    BY <1>4 DEF ApplyMatchBatch, ClaimBatch, Poison, vars
  <2>. QED  BY <2>1, FlushUntouched DEF InFlight
<1>5. CASE FlushRefused \/ FlushReturn \/ Join \/ ReplayLog \/ ReplayNothing \/ RemoveLog
  <2>1. UNCHANGED <<channel, batch, failed, flushHeld, reply, barrier, worker>>
    BY <1>5 DEF FlushRefused, FlushReturn, Join, ReplayLog, ReplayNothing, RemoveLog
  <2>2. ~HasFlush /\ ~flushHeld
    BY <1>5 DEF FlushRefused, FlushReturn, Join, ReplayLog, ReplayNothing, RemoveLog, FlushInv,
                FlushOnce
  <2>3. owner' \in {"idle", "termSend", "closed"} \/ reply = "none"
    BY <1>5 DEF FlushRefused, FlushReturn, Join, ReplayLog, ReplayNothing, RemoveLog, FlushInv,
                FlushOnce
  <2>. QED  BY <2>1, <2>2, <2>3, FlushUntouched DEF InFlight
<1>6. CASE FlushBegin \/ DropBegin
  <2>1. UNCHANGED <<channel, batch, failed, flushHeld, barrier, worker>> /\ reply' = "none"
    BY <1>6 DEF FlushBegin, DropBegin
  <2>2. ~HasFlush /\ ~flushHeld /\ HasFlush' = HasFlush /\ Queued' = Queued
    BY <1>6, <2>1 DEF FlushBegin, DropBegin, FlushInv, FlushOnce, HasFlush, Queued
  <2>. QED  BY <2>1, <2>2 DEF FlushInv, FlushOnce, BarrierOrder
<1>7. CASE FlushSend
  <2>1. /\ owner = "flushSend" /\ owner' = "flushWait"
        /\ channel' = Append(channel, FlushMsg)
        /\ barrier' = {f \in Files : worker[f] = "accepted"}
        /\ UNCHANGED <<worker, reply, flushHeld>>
    BY <1>7 DEF FlushSend
  <2>2. /\ DOMAIN channel' = DOMAIN channel \cup {Len(channel) + 1}
        /\ channel'[Len(channel) + 1] = FlushMsg
        /\ \A i \in DOMAIN channel : i \in Nat /\ i < Len(channel) + 1 /\ channel'[i] = channel[i]
    BY <2>1, FlushTermType, AppendPositions DEF TypeOK
  <2>3. ~HasFlush /\ ~flushHeld /\ reply = "none"
    BY <2>1 DEF FlushInv, FlushOnce
  <2>4. \A i \in DOMAIN channel' : channel'[i].kind = "flush" => i = Len(channel) + 1
    BY <2>2, <2>3 DEF HasFlush
  <2>5. \A i \in DOMAIN channel' : ~(Len(channel) + 1 < i)
    BY <2>2, LenProperties DEF TypeOK
  <2>6. FlushOnce'
    BY <2>1, <2>3, <2>4 DEF FlushOnce
  <2>7. BarrierOrder'
    BY <2>1, <2>3, <2>4, <2>5 DEF BarrierOrder
  <2>. QED  BY <2>6, <2>7 DEF FlushInv
<1>8. CASE TermSend
  <2>1. /\ owner = "termSend" /\ owner' = "join"
        /\ channel' = Append(channel, TermMsg)
        /\ UNCHANGED <<worker, reply, flushHeld, barrier>>
    BY <1>8 DEF TermSend
  <2>2. TermMsg.kind # "flush" /\ ~IsUpdate(TermMsg)
    BY DEF TermMsg, IsUpdate
  <2>3. ~HasFlush /\ ~flushHeld
    BY <2>1 DEF FlushInv, FlushOnce
  <2>4. InFlight' = InFlight
    BY <1>8, QuietSettles DEF QuietStep
  <2>5. FlushOnce'
    BY <2>1, <2>2, <2>3, FlushTermType, FlushOther DEF FlushInv, FlushOnce
  <2>6. BarrierOrder'
    BY <2>1, <2>2, <2>3, <2>4, FlushTermType, FlushOther DEF FlushInv, BarrierOrder
  <2>. QED  BY <2>5, <2>6 DEF FlushInv
<1>9. ASSUME NEW f \in Files, NEW to \in Outcomes, ReportBegin(f, to)
      PROVE  FlushInv'
  <2>1. UNCHANGED <<owner, channel, batch, failed, flushHeld, reply, barrier>>
    BY <1>9 DEF ReportBegin
  <2>2. worker[f] = "idle" /\ \A g \in Files \ {f} : worker'[g] = worker[g]
    BY <1>9 DEF ReportBegin, TypeOK
  <2>3. HasFlush' = HasFlush /\ Queued' = Queued /\ InFlight' = InFlight
    BY <2>1 DEF HasFlush, Queued, InFlight
  <2>4. barrier \subseteq Files
    BY DEF TypeOK
  <2>. QED  BY <2>1, <2>2, <2>3, <2>4 DEF FlushInv, FlushOnce, BarrierOrder
<1>10. ASSUME NEW f \in Files, ReportSend(f)
       PROVE  FlushInv'
  <2>1. /\ channel' = Append(channel, UpdateMsg(Report(f)))
        /\ UNCHANGED <<owner, batch, failed, flushHeld, reply, barrier>>
        /\ worker[f] = "sending"
    BY <1>10 DEF ReportSend
  <2>2. worker'[f] = "accepted" /\ \A g \in Files \ {f} : worker'[g] = worker[g]
    BY <1>10 DEF ReportSend, TypeOK
  <2>3. barrier \subseteq Files /\ f \notin barrier
    BY <2>1 DEF TypeOK, FlushInv, BarrierOrder
  <2>4. /\ UpdateMsg(Report(f)) \in Message /\ UpdateMsg(Report(f)).kind = "update"
        /\ UpdateMsg(Report(f)).update = Report(f) /\ Report(f).file = f
    BY ReportType DEF UpdateMsg, Report, Message
  <2>5. Queued' = Queued \cup {Report(f)}
    BY <2>1, <2>4, AppendQueued DEF TypeOK
  <2>6. InFlight' = InFlight \cup {Report(f)}
    BY <2>1, <2>5 DEF InFlight, Queued
  <2>7. FlushOnce'
    BY <2>1, <2>3, <2>4, FlushOther DEF FlushInv, FlushOnce
  <2>8. BarrierOrder'
    BY <2>1, <2>2, <2>3, <2>4, <2>5, <2>6, FlushOther DEF FlushInv, BarrierOrder
  <2>. QED  BY <2>7, <2>8 DEF FlushInv
<1>. QED
  BY <1>1, <1>3, <1>4, <1>5, <1>6, <1>7, <1>8, <1>9, <1>10 DEF Next, OwnerStep

(* The order of the barrier holds in every state. *)
LEMMA FlushInvHolds == Spec => []FlushInv
<1>1. Init => FlushInv
  <2>. SUFFICES ASSUME Init PROVE FlushInv
    OBVIOUS
  <2>1. InFlight = {} /\ channel = <<>> /\ barrier = {} /\ reply = "none" /\ ~flushHeld
    BY HeldEmpty DEF Init, InFlight, Held
  <2>. QED  BY <2>1 DEF FlushInv, FlushOnce, BarrierOrder, HasFlush
<1>2. KeepInv /\ FlushInv /\ [Next]_vars => FlushInv'
  BY FlushStep DEF KeepInv
<1>. QED  BY <1>1, <1>2, KeepInvHolds, PTL DEF Spec

(* A flush that returned Ok is a barrier, whatever batches the updates were *)
(* in: what was accepted before the flush was sent is in the rows or in the *)
(* recovery log, if the log can be written and no crash cuts a line of it.  *)
THEOREM FlushIsBarrier == Spec => []FlushBarrier
<1>1. KeepInv /\ FlushInv => FlushBarrier
  <2>. SUFFICES ASSUME KeepInv, FlushInv, ~LogMayFail, ~MayTear, reply = "ok", NEW f \in barrier
                PROVE  Safe(f)
    BY DEF FlushBarrier
  <2>1. f \in Files /\ worker[f] = "accepted"
    BY DEF KeepInv, TypeOK, FlushInv, BarrierOrder
  <2>2. Report(f) \notin InFlight
    BY DEF FlushInv, BarrierOrder, Report
  <2>. QED  BY <2>1, <2>2 DEF KeepInv, NothingForgotten, AcceptedIsKept
<1>. QED  BY <1>1, KeepInvHolds, FlushInvHolds, PTL

-----------------------------------------------------------------------------
(* StateDb implements StatusLedger, as long as no crash cuts a line of the *)
(* recovery log.                                                           *)

(* The operators of the ledger are those of the database.                   *)

(* Running updates in order is one of the ways to store them in any order. *)
LEMMA AppliedRows ==
    ASSUME NEW us \in Seq(Update), status \in [Files -> Status]
    PROVE  Applied(status, us) \in Ledger!RowsAfter(Held(us))
<1>. DEFINE D == {u.file : u \in Held(us)}
            r == [f \in D |-> Applied(status, us)[f]]
<1>1. Held(us) \subseteq Update
  <2>. HIDE DEF Update
  <2>. QED  BY DEF Held
<1>2. D \subseteq Files
  BY <1>1 DEF Update
<1>3. \A f \in D : Mentions(us, f)
  BY DEF Held, Mentions
<1>4. \A f \in Files : f \notin D => ~Mentions(us, f)
  BY DEF Held, Mentions
<1>5. \A f \in D : r[f] \in Terminal /\ [file |-> f, to |-> r[f]] \in Held(us)
  BY <1>2, <1>3, AppliedType
<1>6. Applied(status, us) = [f \in Files |-> IF f \in DOMAIN r THEN r[f] ELSE status[f]]
  BY <1>2, <1>4, AppliedType DEF Applied
<1>7. r \in [D -> Terminal]
  BY <1>5
<1>. HIDE DEF r
<1>. QED  BY <1>5, <1>6, <1>7 DEF Ledger!RowsAfter, Ledger!Terminal, Terminal

-----------------------------------------------------------------------------
(* The inductive invariant, besides KeepInv.                                *)

(* No element of T is twice in s. *)
Distinct(s, T) == \A i, j \in DOMAIN s : s[i] = s[j] /\ s[i] \in T => i = j

UpdateMessage == {UpdateMsg(u) : u \in Update}

(* Every outcome in flight is in one place only. *)
Once ==
    /\ Distinct(channel, UpdateMessage) /\ Distinct(batch, Update) /\ Distinct(failed, Update)
    /\ Queued \cap Held(batch) = {}
    /\ Queued \cap Held(failed) = {}
    /\ Held(batch) \cap Held(failed) = {}

(* Terminate is the last message of all, since Drop waits for the workers   *)
(* to be done; so the writer leaves nothing behind when it ends.            *)
Closing ==
    /\ owner = "closed" => wpc = "done"
    /\ wpc = "done" => channel = <<>> /\ ~termHeld /\ owner \in {"join", "closed"}
    /\ \A i \in DOMAIN channel : channel[i].kind = "terminate" => i = Len(channel) /\ owner = "join"
    /\ termHeld => channel = <<>> /\ owner = "join"
    /\ owner \in {"termSend", "join"} => dropping
    /\ \A f \in Files : worker[f] = "sending" =>
          ~dropping /\ owner \in {"idle", "flushSend", "flushWait"}

(* The log is removed only when the rows show what it holds. *)
UnlinkReady == owner = "unlink" => \A u \in Held(rlog) : status[u.file] \in Terminal

LedgerInv == KeepInv /\ Once /\ Closing /\ UnlinkReady

-----------------------------------------------------------------------------
(* Every outcome in flight is in one place.                                 *)

(* A sequence without repetitions loses its head for good. *)
LEMMA TailDistinct ==
    ASSUME NEW S, NEW s \in Seq(S), s # <<>>, NEW T, Distinct(s, T)
    PROVE  Distinct(Tail(s), T) /\ (Head(s) \in T => Head(s) \notin Held(Tail(s)))
<1>1. Head(s) = s[1] /\ 1 \in DOMAIN s
  OBVIOUS
<1>2. \A i \in DOMAIN Tail(s) : /\ i \in Nat \ {0} /\ i + 1 \in DOMAIN s
                                /\ Tail(s)[i] = s[i + 1]
  OBVIOUS
<1>3. ASSUME NEW i \in DOMAIN Tail(s), NEW j \in DOMAIN Tail(s), Tail(s)[i] = Tail(s)[j],
             Tail(s)[i] \in T
      PROVE  i = j
  <2>1. i + 1 = j + 1
    BY <1>2, <1>3 DEF Distinct
  <2>. QED  BY <1>2, <2>1
<1>4. ASSUME NEW i \in DOMAIN Tail(s), Tail(s)[i] = Head(s), Head(s) \in T
      PROVE  FALSE
  <2>1. i + 1 = 1
    BY <1>1, <1>2, <1>4 DEF Distinct
  <2>. QED  BY <1>2, <2>1
<1>. QED  BY <1>3, <1>4 DEF Distinct, Held

(* An element that is not there yet can be appended. *)
LEMMA AppendDistinct ==
    ASSUME NEW S, NEW s \in Seq(S), NEW e \in S, NEW T, Distinct(s, T), e \in T => e \notin Held(s)
    PROVE  Distinct(Append(s, e), T)
<1>1. /\ DOMAIN Append(s, e) = DOMAIN s \cup {Len(s) + 1}
      /\ Append(s, e)[Len(s) + 1] = e
      /\ \A i \in DOMAIN s : Append(s, e)[i] = s[i]
  OBVIOUS
<1>. QED  BY <1>1 DEF Distinct, Held

(* The empty sequence repeats nothing. *)
LEMMA EmptyDistinct == \A T : Distinct(<<>>, T)
  BY DEF Distinct

(* Taking the first message takes its outcome out of the channel. *)
LEMMA TakenOnce ==
    ASSUME TypeOK, Once, channel # <<>>, channel' = Tail(channel)
    PROVE  /\ Distinct(channel', UpdateMessage)
           /\ Queued' \subseteq Queued
           /\ IsUpdate(Head(channel)) =>
                 /\ Head(channel).update \in Queued \ Queued'
                 /\ Queued = Queued' \cup {Head(channel).update}
                 /\ Head(channel).update \in Update
           /\ ~IsUpdate(Head(channel)) => Queued' = Queued
<1>1. channel \in Seq(Message) /\ Distinct(channel, UpdateMessage)
  BY DEF TypeOK, Once
<1>2. Distinct(channel', UpdateMessage)
      /\ (Head(channel) \in UpdateMessage => Head(channel) \notin Held(channel'))
  BY <1>1, TailDistinct
<1>3. Queued = Queued' \cup (IF IsUpdate(Head(channel)) THEN {Head(channel).update} ELSE {})
  BY <1>1, TailQueued DEF IsUpdate
<1>4. ASSUME IsUpdate(Head(channel))
      PROVE  Head(channel).update \in Update /\ Head(channel).update \notin Queued'
  <2>1. \A m \in Message : IsUpdate(m) => m.update \in Update /\ m = UpdateMsg(m.update)
    BY DEF Message, UpdateMsg, FlushMsg, TermMsg, IsUpdate
  <2>2. Head(channel) \in Message /\ Held(channel') \subseteq Message
    <3>1. Held(channel) = {Head(channel)} \cup Held(channel')
      BY <1>1, HeldHeadTail
    <3>2. Held(channel) \subseteq Message
      <4>. HIDE DEF Message
      <4>. QED  BY <1>1 DEF Held
    <3>. QED  BY <3>1, <3>2
  <2>3. Head(channel) \in UpdateMessage
    BY <1>4, <2>1, <2>2 DEF UpdateMessage
  <2>4. ASSUME NEW m \in Held(channel'), IsUpdate(m), m.update = Head(channel).update
        PROVE  FALSE
    BY <1>2, <1>4, <2>1, <2>2, <2>3, <2>4
  <2>5. Queued' = {m.update : m \in {n \in Held(channel') : IsUpdate(n)}}
    BY DEF Queued, IsUpdate, Held
  <2>. QED  BY <1>4, <2>1, <2>2, <2>4, <2>5
<1>. QED  BY <1>2, <1>3, <1>4

(* The writer moves outcomes from place to place and repeats none. *)
LEMMA OnceWriter ==
    ASSUME TypeOK, WriterShape, Once, WriterStep
    PROVE  Once'
<1>. USE DEF disk, recovery, control, reports, link, writer
<1>1. batch \in Seq(Update) /\ failed \in Seq(Update)
  BY DEF TypeOK
<1>2. CASE Receive \/ Drain
  <2>1. TakeMessage /\ failed' = failed
    BY <1>2 DEF Receive, Drain
  <2>2. channel # <<>> /\ channel' = Tail(channel)
    BY <2>1 DEF TakeMessage
  <2>3. CASE IsUpdate(Head(channel))
    <3>. DEFINE u == Head(channel).update
    <3>1. u \in Queued \ Queued' /\ u \in Update /\ Queued' \subseteq Queued
          /\ Distinct(channel', UpdateMessage)
      BY <2>2, <2>3, TakenOnce
    <3>2. batch' = Append(batch, u)
      BY <2>1, <2>3 DEF TakeMessage, IsUpdate
    <3>. HIDE DEF u
    <3>3. Held(batch') = Held(batch) \cup {u} /\ Distinct(batch', Update)
      BY <1>1, <3>1, <3>2, HeldAppend, AppendDistinct DEF Once
    <3>4. Held(failed') = Held(failed) /\ Distinct(failed', Update)
      BY <2>1 DEF Once
    <3>. QED  BY <3>1, <3>3, <3>4 DEF Once, Held
  <2>4. CASE ~IsUpdate(Head(channel))
    <3>1. batch' = batch
      BY <2>1, <2>4 DEF TakeMessage, IsUpdate
    <3>2. Queued' = Queued /\ Distinct(channel', UpdateMessage)
      BY <2>2, <2>4, TakenOnce
    <3>. QED  BY <2>1, <3>1, <3>2 DEF Once, Held
  <2>. QED  BY <2>3, <2>4
<1>3. CASE DrainEnd \/ CommitFails \/ Fallback \/ FallbackEnd \/ GoDormant \/ Answer
  <2>1. UNCHANGED <<channel, batch, failed>>
    BY <1>3 DEF DrainEnd, CommitFails, Fallback, FallbackEnd, GoDormant, Answer
  <2>. QED  BY <2>1 DEF Once, Queued, Held
<1>4. CASE Commit
  <2>1. channel' = channel /\ failed' = failed /\ batch' = <<>>
    BY <1>4 DEF Commit
  <2>2. Held(batch') = {} /\ Distinct(batch', Update)
    BY <2>1, HeldEmpty, EmptyDistinct
  <2>. QED  BY <2>1, <2>2 DEF Once, Queued, Held
<1>5. CASE FallbackStatement
  <2>1. batch # <<>> /\ batch' = Tail(batch) /\ channel' = channel
    BY <1>5 DEF FallbackStatement
  <2>2. Held(batch) = {Head(batch)} \cup Held(batch')
    BY <1>1, <2>1, HeldHeadTail
  <2>3. Head(batch) \in Update
    <3>. HIDE DEF Update
    <3>. QED  BY <1>1, <2>1
  <2>4. Distinct(batch', Update) /\ Head(batch) \notin Held(batch')
    BY <1>1, <2>1, <2>3, TailDistinct DEF Once
  <2>5. failed' = failed \/ failed' = Append(failed, Head(batch))
    BY <1>5 DEF FallbackStatement
  <2>6. Head(batch) \notin Held(failed)
    BY <2>2 DEF Once
  <2>7. Distinct(failed', Update) /\ Held(failed') \subseteq Held(failed) \cup {Head(batch)}
    <3>1. Distinct(Append(failed, Head(batch)), Update)
      BY <1>1, <2>3, <2>6, AppendDistinct DEF Once
    <3>2. Held(Append(failed, Head(batch))) = Held(failed) \cup {Head(batch)}
      BY <1>1, <2>3, HeldAppend
    <3>. QED  BY <2>5, <3>1, <3>2 DEF Once
  <2>8. Queued' = Queued
    BY <2>1 DEF Queued
  <2>. QED  BY <2>1, <2>2, <2>4, <2>7, <2>8 DEF Once, Held
<1>6. CASE ParkLine
  <2>1. failed # <<>> /\ failed' = Tail(failed) /\ channel' = channel /\ batch' = batch
    BY <1>6 DEF ParkLine, NextLine
  <2>2. Held(failed) = {Head(failed)} \cup Held(failed') /\ Distinct(failed', Update)
    BY <1>1, <2>1, HeldHeadTail, TailDistinct DEF Once
  <2>3. Queued' = Queued
    BY <2>1 DEF Queued
  <2>. QED  BY <2>1, <2>2, <2>3, SMTT(30) DEF Once, Held
<1>7. CASE GiveUp
  <2>1. failed' = batch /\ batch' = <<>> /\ channel' = channel
    BY <1>7 DEF GiveUp
  <2>2. Held(batch') = {} /\ Distinct(batch', Update)
    BY <2>1, HeldEmpty, EmptyDistinct
  <2>3. Held(failed') = Held(batch) /\ Distinct(failed', Update)
    BY <2>1 DEF Once
  <2>4. Queued' = Queued
    BY <2>1 DEF Queued
  <2>. QED  BY <2>1, <2>2, <2>3, <2>4 DEF Once, Held
<1>8. CASE DormantReceive
  <2>1. channel # <<>> /\ channel' = Tail(channel) /\ batch' = batch /\ failed' = failed
    BY <1>8 DEF DormantReceive
  <2>2. Queued' \subseteq Queued /\ Distinct(channel', UpdateMessage)
    BY <2>1, TakenOnce
  <2>. QED  BY <2>1, <2>2 DEF Once, Held
<1>. QED  BY <1>2, <1>3, <1>4, <1>5, <1>6, <1>7, <1>8 DEF WriterStep

(* A worker reports once, so every step keeps outcomes in one place. *)
LEMMA OnceStep == TypeOK /\ WriterShape /\ Owned /\ Once /\ [Next]_vars => Once'
<1>. SUFFICES ASSUME TypeOK, WriterShape, Owned, Once, [Next]_vars
              PROVE  Once'
  OBVIOUS
<1>. USE DEF disk, recovery, control, reports, link, writer
<1>1. CASE WriterStep
  BY <1>1, OnceWriter
<1>2. ASSUME FreshMemory
      PROVE  Once'
  <2>1. channel' = <<>> /\ batch' = <<>> /\ failed' = <<>>
    BY <1>2 DEF FreshMemory
  <2>2. Queued' = {} /\ Held(batch') = {} /\ Held(failed') = {}
    BY <2>1, HeldEmpty DEF Queued, Held
  <2>. QED  BY <2>1, <2>2, EmptyDistinct DEF Once, Held
<1>3. CASE (\E next \in {"idle", "replay"} : Open(next)) \/ Crash \/ CrashMidLine
  BY <1>2, <1>3 DEF Open, Crash, CrashMidLine
<1>4. ASSUME UNCHANGED <<channel, batch, failed>>
      PROVE  Once'
  BY <1>4 DEF Once, Queued, Held
<1>5. ASSUME NEW m \in Message, channel' = Append(channel, m), UNCHANGED <<batch, failed>>,
             m \in UpdateMessage => m.update \notin InFlight
      PROVE  Once'
  <2>1. channel \in Seq(Message)
    BY DEF TypeOK
  <2>2. m.kind = "update" <=> m \in UpdateMessage
    BY DEF Message, UpdateMessage, UpdateMsg, FlushMsg, TermMsg
  <2>3. Queued' = Queued \cup (IF m.kind = "update" THEN {m.update} ELSE {})
    BY <1>5, <2>1, AppendQueued
  <2>4. m \in UpdateMessage => m \notin Held(channel)
    BY <1>5, <2>2, InFlightParts DEF Queued
  <2>5. Distinct(channel', UpdateMessage)
    BY <1>5, <2>1, <2>4, AppendDistinct DEF Once
  <2>6. \A u \in Queued' : u \in Queued \/ u \notin InFlight
    BY <1>5, <2>2, <2>3
  <2>. QED  BY <1>5, <2>5, <2>6, InFlightParts DEF Once, Held
<1>6. CASE FlushSend \/ TermSend
  <2>1. FlushMsg \notin UpdateMessage /\ TermMsg \notin UpdateMessage
    BY DEF UpdateMessage, UpdateMsg, FlushMsg, TermMsg
  <2>. QED  BY <1>5, <1>6, <2>1, FlushTermType DEF FlushSend, TermSend
<1>7. ASSUME NEW f \in Files, ReportSend(f)
      PROVE  Once'
  <2>1. worker[f] = "sending" /\ channel' = Append(channel, UpdateMsg(Report(f)))
        /\ UNCHANGED <<batch, failed>>
    BY <1>7 DEF ReportSend
  <2>2. UpdateMsg(Report(f)).update = Report(f) /\ Report(f).file = f
    BY DEF UpdateMsg, Report
  <2>3. Report(f) \notin InFlight
    BY <2>1, <2>2 DEF Owned
  <2>. QED  BY <1>5, <2>1, <2>2, <2>3, ReportType
<1>8. CASE OwnerStep /\ ~FlushSend /\ ~TermSend
  BY <1>4, <1>8 DEF OwnerStep, FlushBegin, FlushRefused, FlushReturn, DropBegin, Join, ReplayLog,
                    ReplayNothing, RemoveLog
<1>9. CASE (\E m \in [Files -> Confidence] : ApplyMatchBatch(m)) \/ (\E S \in SUBSET Files : ClaimBatch(S))
           \/ (\E f \in Files, to \in Outcomes : ReportBegin(f, to)) \/ Poison \/ UNCHANGED vars
  BY <1>4, <1>9 DEF ApplyMatchBatch, ClaimBatch, ReportBegin, Poison, vars
<1>. QED
  BY <1>1, <1>3, <1>6, <1>7, <1>8, <1>9 DEF Next

-----------------------------------------------------------------------------
(* Closing.                                                                 *)

(* Steps that leave the channel and the writer's place alone. *)
LEMMA ClosingUntouched ==
    ASSUME Closing, UNCHANGED <<channel, wpc, termHeld, worker, dropping>>,
           \/ owner' = owner
           \/ owner \notin {"closed", "join"} /\ owner' \in {"idle", "flushSend", "flushWait"}
           \/ owner \notin {"closed", "join"} /\ owner' \in {"termSend", "unlink"}
              /\ (\A f \in Files : worker[f] # "sending") /\ (owner' = "termSend" => dropping)
    PROVE  Closing'
  BY DEF Closing

(* Taking a message from the channel, unless it is the last one: Terminate. *)
LEMMA ClosingTaken ==
    ASSUME TypeOK, Closing, channel # <<>>, channel' = Tail(channel), UNCHANGED owner
    PROVE  /\ \A i \in DOMAIN channel' :
                 channel'[i].kind = "terminate" => i = Len(channel') /\ owner' = "join"
           /\ Head(channel).kind = "terminate" => channel' = <<>> /\ owner' = "join"
<1>1. /\ Len(channel) \in Nat \ {0} /\ 1 \in DOMAIN channel /\ Head(channel) = channel[1]
      /\ Len(channel') = Len(channel) - 1
      /\ \A i \in DOMAIN channel' : /\ i \in Nat \ {0} /\ i + 1 \in DOMAIN channel
                                    /\ channel'[i] = channel[i + 1]
      /\ Len(channel) = 1 => channel' = <<>>
  <2>. HIDE DEF Message
  <2>. QED  BY SMTT(30) DEF TypeOK
<1>. QED  BY <1>1 DEF Closing

(* Terminate comes last, and the writer ends with it. *)
LEMMA ClosingStep == TypeOK /\ WriterShape /\ ReplayQuiet /\ Closing /\ [Next]_vars => Closing'
<1>. SUFFICES ASSUME TypeOK, WriterShape, ReplayQuiet, Closing, [Next]_vars
              PROVE  Closing'
  OBVIOUS
<1>. USE DEF disk, recovery, control, reports, link, writer
<1>1. CASE \E next \in {"idle", "replay"} : Open(next)
  BY <1>1 DEF Closing, Open, FreshMemory
<1>2. CASE Crash \/ CrashMidLine
  BY <1>2 DEF Closing, Crash, CrashMidLine, FreshMemory
<1>3. CASE (\E m \in [Files -> Confidence] : ApplyMatchBatch(m)) \/ (\E S \in SUBSET Files : ClaimBatch(S))
           \/ Poison \/ UNCHANGED vars
  BY <1>3, ClosingUntouched DEF ApplyMatchBatch, ClaimBatch, Poison, vars
<1>4. ASSUME NEW f \in Files, NEW to \in Outcomes, ReportBegin(f, to)
      PROVE  Closing'
  <2>1. \A g \in Files \ {f} : worker'[g] = worker[g]
    BY <1>4 DEF ReportBegin, TypeOK
  <2>. QED  BY <1>4, <2>1 DEF Closing, ReportBegin
<1>5. ASSUME NEW m \in Message, channel' = Append(channel, m), owner # "join", wpc # "done"
      PROVE  /\ ~termHeld
             /\ \A i \in DOMAIN channel' : channel'[i].kind = "terminate" => i = Len(channel') /\ m = TermMsg
  <2>1. /\ DOMAIN channel' = DOMAIN channel \cup {Len(channel) + 1} /\ Len(channel') = Len(channel) + 1
        /\ channel'[Len(channel) + 1] = m
        /\ \A i \in DOMAIN channel : channel'[i] = channel[i]
    <3>. HIDE DEF Message
    <3>. QED  BY <1>5 DEF TypeOK
  <2>2. \A i \in DOMAIN channel : channel[i].kind # "terminate"
    BY <1>5 DEF Closing
  <2>3. m.kind = "terminate" => m = TermMsg
    BY DEF Message, UpdateMsg, FlushMsg, TermMsg
  <2>. QED  BY <1>5, <2>1, <2>2, <2>3 DEF Closing
<1>6. ASSUME NEW f \in Files, ReportSend(f)
      PROVE  Closing'
  <2>1. worker[f] = "sending" /\ channel' = Append(channel, UpdateMsg(Report(f)))
        /\ UNCHANGED <<owner, dropping, wpc, termHeld>>
    BY <1>6 DEF ReportSend
  <2>2. owner \notin {"join", "closed"} /\ wpc # "done"
    BY <2>1 DEF Closing
  <2>3. UpdateMsg(Report(f)) # TermMsg
    BY DEF UpdateMsg, TermMsg
  <2>4. \A g \in Files : worker'[g] = "sending" => worker[g] = "sending"
    BY <1>6 DEF ReportSend, TypeOK
  <2>. QED  BY <1>5, <2>1, <2>2, <2>3, <2>4, ReportType DEF Closing
<1>7. CASE FlushSend
  <2>1. FlushMsg # TermMsg
    BY DEF FlushMsg, TermMsg
  <2>2. owner = "flushSend" /\ owner' = "flushWait" /\ channel' = Append(channel, FlushMsg)
        /\ UNCHANGED <<dropping, wpc, termHeld, worker>>
    BY <1>7 DEF FlushSend
  <2>. QED  BY <1>5, <2>1, <2>2, FlushTermType DEF Closing
<1>8. CASE TermSend
  <2>1. owner = "termSend" /\ owner' = "join" /\ channel' = Append(channel, TermMsg)
        /\ UNCHANGED <<dropping, wpc, termHeld, worker>>
    BY <1>8 DEF TermSend
  <2>. QED  BY <1>5, <2>1, FlushTermType DEF Closing
<1>9. CASE FlushBegin \/ FlushReturn \/ FlushRefused \/ ReplayLog
  <2>1. UNCHANGED <<channel, wpc, termHeld, worker, dropping>>
    BY <1>9 DEF FlushBegin, FlushReturn, FlushRefused, ReplayLog
  <2>2. owner' = "termSend" => dropping
    BY <1>9 DEF FlushBegin, FlushReturn, FlushRefused, ReplayLog
  <2>3. dropping \/ owner = "replay" => \A f \in Files : worker[f] # "sending"
    BY DEF Closing
  <2>4. owner \in {"idle", "flushWait", "flushSend", "replay"}
        /\ owner' \in {"idle", "flushSend", "termSend", "unlink"}
        /\ (owner' = "unlink" => owner = "replay")
    BY <1>9 DEF FlushBegin, FlushReturn, FlushRefused, ReplayLog
  <2>. QED  BY <2>1, <2>2, <2>3, <2>4, ClosingUntouched
<1>10. CASE DropBegin \/ ReplayNothing \/ RemoveLog
  <2>1. UNCHANGED <<channel, wpc, termHeld, worker>> /\ dropping'
        /\ owner' \in {"flushSend", "termSend"} /\ owner \in {"idle", "replay", "unlink"}
    BY <1>10 DEF DropBegin, ReplayNothing, RemoveLog
  <2>2. \A f \in Files : worker[f] # "sending"
    BY <1>10 DEF DropBegin, ReplayNothing, RemoveLog, Closing
  <2>. QED  BY <2>1, <2>2 DEF Closing
<1>11. CASE Join
  BY <1>11 DEF Join, Closing
<1>12. CASE Receive \/ Drain
  <2>1. TakeMessage /\ wpc \in {"recv", "drain"} /\ wpc' # "done" /\ UNCHANGED <<owner, dropping, worker>>
    BY <1>12 DEF Receive, Drain
  <2>2. channel # <<>> /\ channel' = Tail(channel) /\ termHeld' = (Head(channel).kind = "terminate")
    BY <2>1 DEF TakeMessage
  <2>. QED  BY <2>1, <2>2, ClosingTaken DEF Closing
<1>13. CASE DrainEnd \/ Commit \/ CommitFails \/ Fallback \/ FallbackStatement \/ ParkLine
            \/ FallbackEnd \/ GiveUp \/ GoDormant
  <2>1. UNCHANGED <<channel, owner, dropping, worker>> /\ (termHeld' => termHeld)
    BY <1>13 DEF DrainEnd, Commit, CommitFails, Fallback, FallbackStatement, ParkLine,
                 FallbackEnd, GiveUp, GoDormant
  <2>2. wpc # "done" /\ wpc' # "done"
    BY <1>13 DEF DrainEnd, Commit, CommitFails, Fallback, FallbackStatement, ParkLine, NextLine,
                 FallbackEnd, GiveUp, GoDormant
  <2>. QED  BY <2>1, <2>2 DEF Closing
<1>14. CASE DormantReceive
  <2>1. /\ channel # <<>> /\ channel' = Tail(channel) /\ UNCHANGED <<owner, dropping, worker, termHeld>>
        /\ wpc = "dormant" /\ wpc' = IF Head(channel).kind = "terminate" THEN "done" ELSE "dormant"
    BY <1>14 DEF DormantReceive
  <2>. QED  BY <2>1, ClosingTaken DEF Closing
<1>15. CASE Answer
  <2>1. /\ wpc = "answer" /\ ~termHeld' /\ wpc' = (IF termHeld THEN "done" ELSE "recv")
        /\ UNCHANGED <<channel, owner, dropping, worker>>
    BY <1>15 DEF Answer
  <2>. QED  BY <2>1 DEF Closing
<1>. QED
  BY <1>1, <1>2, <1>3, <1>4, <1>6, <1>7, <1>8, <1>9, <1>10, <1>11, <1>12, <1>13, <1>14, <1>15
     DEF Next, OwnerStep, WriterStep

-----------------------------------------------------------------------------
(* The invariant of the refinement.                                         *)

(* Until the log is removed, nothing is in flight that could change it or   *)
(* the rows it was applied to.                                              *)
LEMMA UnlinkReadyStep ==
    KeepInv /\ UnlinkReady /\ ~MayTear /\ [Next]_vars => UnlinkReady'
<1>. SUFFICES ASSUME KeepInv, UnlinkReady, ~MayTear, [Next]_vars, owner' = "unlink",
                     NEW u \in Held(rlog')
              PROVE  status'[u.file] \in Terminal
  BY DEF UnlinkReady, Held
<1>. USE DEF disk, recovery, control, reports, link, writer
<1>1. TypeOK /\ WriterShape /\ Owned /\ ReplayQuiet
  BY DEF KeepInv
<1>2. CASE ReplayLog
  <2>1. status' = Applied(status, rlog) /\ rlog' = rlog /\ rlog \in Seq(Update)
        /\ status \in [Files -> Status]
    BY <1>1, <1>2 DEF ReplayLog, TypeOK
  <2>2. u \in Held(rlog)
    BY <2>1 DEF Held
  <2>3. u \in Update
    <3>. HIDE DEF Update
    <3>. QED  BY <2>1, <2>2 DEF Held
  <2>4. u.file \in Files /\ Mentions(rlog, u.file)
    BY <2>2, <2>3 DEF Held, Mentions, Update
  <2>. QED  BY <2>1, <2>4, AppliedType
<1>3. CASE ~ReplayLog
  <2>1. owner = "unlink"
    BY <1>3 DEF Next, vars, OwnerStep, WriterStep, Open, ApplyMatchBatch, ClaimBatch, ReportBegin,
                ReportSend, FlushBegin, FlushSend, FlushRefused, FlushReturn, DropBegin, TermSend,
                Join, ReplayNothing, RemoveLog, Receive, Drain, DrainEnd, Commit, CommitFails,
                Fallback, FallbackStatement, ParkLine, FallbackEnd, GiveUp, GoDormant,
                DormantReceive, Answer, Poison, Crash, CrashMidLine
  <2>2. InFlight = {}
    BY <1>1, <2>1, InFlightType DEF ReplayQuiet, Owned, Update
  <2>3. CASE WriterStep
    <3>1. \A f \in Files : status'[f] = status[f]
      BY <1>1, <2>2, <2>3, SettlingStep DEF Settling
    <3>2. rlog' = rlog
      <4>1. CASE ParkLine
        <5>1. failed # <<>> /\ failed \in Seq(Update)
          BY <1>1, <4>1 DEF ParkLine, NextLine, TypeOK
        <5>2. Head(failed) \in InFlight
          BY <5>1, HeldHeadTail DEF InFlight
        <5>. QED  BY <2>2, <5>2
      <4>2. CASE DormantReceive
        <5>1. channel # <<>> /\ channel \in Seq(Message)
              /\ (Head(channel).kind # "update" => rlog' = rlog)
          BY <1>1, <4>2 DEF DormantReceive, TypeOK
        <5>2. Head(channel) \in Held(channel)
          BY <5>1, HeldHeadTail
        <5>3. Head(channel).kind = "update" => Head(channel).update \in InFlight
          BY <5>2 DEF InFlight
        <5>. QED  BY <2>2, <5>1, <5>3
      <4>. QED
        BY <2>3, <4>1, <4>2 DEF WriterStep, Receive, Drain, DrainEnd, Commit, CommitFails,
           Fallback, FallbackStatement, FallbackEnd, GiveUp, GoDormant, Answer
    <3>3. u \in Held(rlog)
      BY <3>2 DEF Held
    <3>4. u \in Update
      <4>. HIDE DEF Update
      <4>. QED  BY <1>1, <3>3 DEF Held, TypeOK
    <3>. QED  BY <2>1, <3>1, <3>3, <3>4 DEF UnlinkReady, Update
  <2>4. CASE ~WriterStep
    <3>1. UNCHANGED <<status, rlog>>
      BY <1>3, <2>1, <2>4 DEF Next, vars, OwnerStep, Open, ApplyMatchBatch, ClaimBatch,
         ReportBegin, ReportSend, FlushBegin, FlushSend, FlushRefused, FlushReturn, DropBegin,
         TermSend, Join, ReplayNothing, RemoveLog, Poison, Crash, CrashMidLine
    <3>. QED  BY <2>1, <3>1 DEF UnlinkReady, Held
  <2>. QED  BY <2>3, <2>4
<1>. QED  BY <1>2, <1>3

(* The invariant of the refinement holds in every state. *)
LEMMA LedgerInvHolds ==
    ASSUME ~MayTear
    PROVE  Spec => []LedgerInv
<1>1. Init => Once /\ Closing /\ UnlinkReady
  <2>. SUFFICES ASSUME Init PROVE Once /\ Closing /\ UnlinkReady
    OBVIOUS
  <2>1. channel = <<>> /\ batch = <<>> /\ failed = <<>>
    BY DEF Init
  <2>2. Queued = {} /\ Held(batch) = {} /\ Held(failed) = {}
    BY <2>1, HeldEmpty DEF Queued, Held
  <2>3. Once
    BY <2>1, <2>2, EmptyDistinct DEF Once
  <2>. QED  BY <2>3 DEF Init, Closing, UnlinkReady
<1>2. KeepInv /\ Once /\ Closing /\ UnlinkReady /\ [Next]_vars => (Once /\ Closing /\ UnlinkReady)'
  BY OnceStep, ClosingStep, UnlinkReadyStep DEF KeepInv
<1>3. LedgerInv <=> KeepInv /\ Once /\ Closing /\ UnlinkReady
  BY DEF LedgerInv
<1>. QED  BY <1>1, <1>2, <1>3, KeepInvHolds, PTL DEF Spec

-----------------------------------------------------------------------------
(* Every step is a step of the ledger or leaves it alone.                   *)

(* The variables of the ledger, as the database shows them. *)
Live == owner # "closed"
Parked == Held(rlog)

(* A step of the ledger. *)
LedgerStep == [Ledger!LedgerNext]_(Ledger!ledgerVars)

(* Steps that no row, outcome or log shows. *)
LEMMA StutterStep ==
    ASSUME UNCHANGED <<status, confidence, InFlight, rlog>>, Live' = Live
    PROVE  LedgerStep
  BY DEF LedgerStep, Ledger!ledgerVars, Live, Held

(* Updates that run on the rows settle their outcomes. *)
LEMMA SettleStep ==
    ASSUME TypeOK, NEW us \in Seq(Update), Held(us) \subseteq InFlight, Live, Live',
           status' = Applied(status, us), InFlight' = InFlight \ Held(us),
           UNCHANGED <<confidence, rlog>>
    PROVE  LedgerStep
<1>1. Ledger!Settle(Held(us))
  BY AppliedRows DEF Ledger!Settle, TypeOK, Live, Held
<1>2. Ledger!LedgerNext
  BY <1>1 DEF Ledger!LedgerNext
<1>. QED  BY <1>2 DEF LedgerStep

(* A line that is written parks its outcome; one that is not forgets it. *)
LEMMA ParkStep ==
    ASSUME TypeOK, logEnd = "newline", NEW u \in InFlight, LogLine(u), Live, Live',
           InFlight' = InFlight \ {u}, UNCHANGED <<status, confidence>>
    PROVE  LedgerStep
<1>1. u \in Update
  BY InFlightType
<1>2. CASE rlog' = WithText(u)
  <2>1. rlog' = Append(rlog, u) /\ rlog \in Seq(Update)
    BY <1>2 DEF WithText, TypeOK
  <2>2. Held(rlog') = Held(rlog) \cup {u}
    BY <1>1, <2>1, HeldAppend
  <2>3. Ledger!Park(u)
    BY <2>2 DEF Ledger!Park, Live, Held
  <2>4. Ledger!LedgerNext
    BY <1>1, <2>3 DEF Ledger!LedgerNext, Ledger!Update, Ledger!Terminal, Update, Terminal
  <2>. QED  BY <2>4 DEF LedgerStep
<1>3. CASE LogMayFail /\ UNCHANGED recovery
  <2>1. Ledger!Forget(u)
    BY <1>3 DEF Ledger!Forget, Live, Held, recovery
  <2>2. Ledger!LedgerNext
    BY <1>1, <2>1 DEF Ledger!LedgerNext, Ledger!Update, Ledger!Terminal, Update, Terminal
  <2>. QED  BY <2>2 DEF LedgerStep
<1>. QED  BY <1>2, <1>3 DEF LogLine

(* What the writer does is settling, parking and forgetting. *)
LEMMA WriterRefines ==
    ASSUME LedgerInv, ~MayTear, WriterStep
    PROVE  LedgerStep
<1>. USE DEF disk, recovery, control, reports, link, writer
<1>1. TypeOK /\ WriterShape /\ Owned /\ Once /\ Closing /\ logEnd = "newline"
  BY DEF LedgerInv, KeepInv, WholeLines
<1>2. batch \in Seq(Update) /\ failed \in Seq(Update) /\ channel \in Seq(Message)
  BY <1>1 DEF TypeOK
<1>3. Live /\ Live'
  <2>1. wpc # "done" /\ owner' = owner
    BY DEF WriterStep, Receive, Drain, DrainEnd, Commit, CommitFails, Fallback, FallbackStatement,
           ParkLine, NextLine, FallbackEnd, GiveUp, GoDormant, DormantReceive, Answer
  <2>. QED  BY <1>1, <2>1 DEF Closing, Live
<1>4. CASE Receive \/ Drain
  <2>1. InFlight' = InFlight /\ UNCHANGED <<status, confidence, rlog>>
    BY <1>1, <1>4, TakeMessageInFlight DEF Receive, Drain
  <2>. QED  BY <1>3, <2>1, StutterStep
<1>5. CASE DrainEnd \/ CommitFails \/ Fallback \/ FallbackEnd \/ GoDormant \/ Answer
  <2>1. UNCHANGED <<channel, batch, failed, status, confidence, rlog>>
    BY <1>5 DEF DrainEnd, CommitFails, Fallback, FallbackEnd, GoDormant, Answer
  <2>2. InFlight' = InFlight
    BY <2>1 DEF InFlight
  <2>. QED  BY <1>3, <2>1, <2>2, StutterStep
<1>6. CASE Commit
  <2>1. status' = Applied(status, batch) /\ UNCHANGED <<channel, failed, confidence, rlog>>
        /\ batch' = <<>>
    BY <1>6 DEF Commit
  <2>2. Queued' = Queued /\ Held(failed') = Held(failed) /\ Held(batch') = {}
    BY <2>1, HeldEmpty DEF Queued
  <2>3. InFlight' = InFlight \ Held(batch) /\ Held(batch) \subseteq InFlight
    BY <1>1, <2>2 DEF InFlight, Queued, Once, Held
  <2>. QED  BY <1>1, <1>2, <1>3, <2>1, <2>3, SettleStep
<1>7. CASE FallbackStatement
  <2>1. batch # <<>> /\ batch' = Tail(batch) /\ UNCHANGED <<channel, confidence, rlog>>
    BY <1>7 DEF FallbackStatement
  <2>2. Held(batch) = {Head(batch)} \cup Held(batch')
    BY <1>2, <2>1, HeldHeadTail
  <2>3. Head(batch) \in InFlight
    BY <2>2 DEF InFlight
  <2>4. Head(batch) \in Update
    BY <1>1, <2>3, InFlightType
  <2>5. Queued' = Queued
    BY <2>1 DEF Queued
  <2>6. CASE status' = Applied(status, <<Head(batch)>>) /\ failed' = failed
    <3>1. <<Head(batch)>> \in Seq(Update) /\ Held(<<Head(batch)>>) = {Head(batch)}
      <4>. HIDE DEF Update
      <4>. QED  BY <2>4 DEF Held
    <3>2. Head(batch) \notin Held(batch')
      BY <1>1, <1>2, <2>1, <2>4, TailDistinct DEF Once
    <3>3. InFlight' = InFlight \ {Head(batch)}
      BY <1>1, <2>2, <2>5, <2>6, <3>2 DEF InFlight, Queued, Once, Held
    <3>. QED  BY <1>1, <1>3, <2>1, <2>3, <2>6, <3>1, <3>3, SettleStep
  <2>7. CASE failed' = Append(failed, Head(batch)) /\ status' = status
    <3>1. Held(failed') = Held(failed) \cup {Head(batch)}
      BY <1>2, <2>4, <2>7, HeldAppend
    <3>2. InFlight' = InFlight
      BY <2>2, <2>5, <3>1 DEF InFlight, Queued, Held
    <3>. QED  BY <1>3, <2>1, <2>7, <3>2, StutterStep
  <2>. QED  BY <1>7, <2>6, <2>7 DEF FallbackStatement
<1>8. CASE ParkLine
  <2>1. PICK u \in Update : NextLine(u) /\ LogLine(u)
    BY <1>8 DEF ParkLine
  <2>2. /\ failed # <<>> /\ u = Head(failed) /\ failed' = Tail(failed)
        /\ UNCHANGED <<status, confidence, channel, batch>>
    BY <1>8, <2>1 DEF ParkLine, NextLine
  <2>3. Held(failed) = {u} \cup Held(failed')
    BY <1>2, <2>2, HeldHeadTail
  <2>4. u \notin Held(failed')
    BY <1>1, <1>2, <2>1, <2>2, TailDistinct DEF Once
  <2>5. Queued' = Queued /\ u \in InFlight
    BY <2>2, <2>3 DEF Queued, InFlight
  <2>6. InFlight' = InFlight \ {u}
    BY <1>1, <2>2, <2>3, <2>4, <2>5 DEF InFlight, Queued, Once, Held
  <2>. QED  BY <1>1, <1>3, <2>1, <2>2, <2>5, <2>6, ParkStep
<1>9. CASE GiveUp
  <2>1. failed' = batch /\ batch' = <<>> /\ failed = <<>>
        /\ UNCHANGED <<channel, status, confidence, rlog>>
    BY <1>1, <1>9 DEF GiveUp, WriterShape
  <2>2. Held(failed') = Held(batch) /\ Held(batch') = {} /\ Held(failed) = {} /\ Queued' = Queued
    BY <2>1, HeldEmpty DEF Queued
  <2>3. InFlight' = InFlight
    BY <2>2 DEF InFlight, Queued, Held
  <2>. QED  BY <1>3, <2>1, <2>3, StutterStep
<1>10. CASE DormantReceive
  <2>1. channel # <<>> /\ channel' = Tail(channel)
        /\ UNCHANGED <<status, confidence, batch, failed>> /\ wpc = "dormant"
    BY <1>10 DEF DormantReceive
  <2>2. CASE IsUpdate(Head(channel))
    <3>1. /\ Head(channel).update \in Queued \ Queued'
          /\ Queued = Queued' \cup {Head(channel).update}
      BY <1>1, <2>1, <2>2, TakenOnce
    <3>2. LogLine(Head(channel).update)
      BY <1>10, <2>2 DEF DormantReceive, IsUpdate
    <3>3. Held(batch) = {} /\ Held(failed) = {}
      BY <1>1, <2>1, HeldEmpty DEF WriterShape
    <3>4. InFlight = Queued /\ InFlight' = Queued'
      BY <2>1, <3>3 DEF InFlight, Queued, Held
    <3>. QED  BY <1>1, <1>3, <2>1, <3>1, <3>2, <3>4, ParkStep
  <2>3. CASE ~IsUpdate(Head(channel))
    <3>1. Queued' = Queued /\ rlog' = rlog
      BY <1>1, <1>10, <2>1, <2>3, TakenOnce DEF DormantReceive, IsUpdate
    <3>2. InFlight' = InFlight
      BY <2>1, <3>1 DEF InFlight, Queued, Held
    <3>. QED  BY <1>3, <2>1, <3>1, <3>2, StutterStep
  <2>. QED  BY <2>2, <2>3
<1>. QED  BY <1>4, <1>5, <1>6, <1>7, <1>8, <1>9, <1>10 DEF WriterStep

(* The owner, the workers and a crash take the other steps of the ledger. *)
LEMMA StepRefines == LedgerInv /\ ~MayTear /\ [Next]_vars => LedgerStep
<1>. SUFFICES ASSUME LedgerInv, ~MayTear, [Next]_vars
              PROVE  LedgerStep
  OBVIOUS
<1>. USE DEF disk, recovery, control, reports, link, writer
<1>1. TypeOK /\ WriterShape /\ Owned /\ ReplayQuiet /\ Closing /\ UnlinkReady
  BY DEF LedgerInv, KeepInv
<1>2. wpc = "done" => InFlight = {}
  <2>. SUFFICES ASSUME wpc = "done" PROVE InFlight = {}
    OBVIOUS
  <2>1. channel = <<>> /\ batch = <<>> /\ failed = <<>>
    BY <1>1 DEF Closing, WriterShape
  <2>. QED  BY <2>1, HeldEmpty DEF InFlight
<1>3. CASE WriterStep
  BY <1>3, WriterRefines
<1>4. ASSUME Ledger!LedgerNext
      PROVE  LedgerStep
  BY <1>4 DEF LedgerStep
<1>5. CASE \E next \in {"idle", "replay"} : Open(next)
  <2>1. InFlight' = {} /\ InFlight = {}
    BY <1>1, <1>2, <1>5, FreshMemoryEmpty DEF Open, Closing
  <2>2. Ledger!Begin
    BY <1>5, <2>1 DEF Open, Ledger!Begin, Ledger!Restored, Restored, Ledger!RecoveryStatus,
                      RecoveryStatus, Held
  <2>. QED  BY <1>4, <2>2 DEF Ledger!LedgerNext
<1>6. ASSUME NEW m \in [Files -> Confidence], ApplyMatchBatch(m)
      PROVE  LedgerStep
  <2>1. UNCHANGED <<channel, batch, failed, rlog, owner>> /\ owner = "idle"
    BY <1>6 DEF ApplyMatchBatch
  <2>2. InFlight' = InFlight
    BY <2>1 DEF InFlight
  <2>3. Ledger!Match(m)
    BY <1>6, <2>1, <2>2 DEF ApplyMatchBatch, Ledger!Match, Ledger!MatchStatus, MatchStatus,
                            Ledger!Null, Null, Held
  <2>. QED  BY <1>4, <2>3 DEF Ledger!LedgerNext, Ledger!Confidence, Ledger!Null, Confidence, Null
<1>7. ASSUME NEW S \in SUBSET Files, ClaimBatch(S)
      PROVE  LedgerStep
  <2>1. UNCHANGED <<channel, batch, failed, rlog, owner>> /\ owner = "idle"
    BY <1>7 DEF ClaimBatch
  <2>2. InFlight' = InFlight
    BY <2>1 DEF InFlight
  <2>3. Ledger!Take(S)
    BY <1>7, <2>1, <2>2 DEF ClaimBatch, Ledger!Take, Ledger!Claimed, Claimed, Ledger!Claimable,
                            Claimable, Held
  <2>. QED  BY <1>4, <2>3 DEF Ledger!LedgerNext
<1>8. ASSUME NEW f \in Files, NEW to \in Outcomes, ReportBegin(f, to)
      PROVE  LedgerStep
  <2>1. UNCHANGED <<channel, batch, failed, rlog, owner, status, confidence>>
    BY <1>8 DEF ReportBegin
  <2>2. InFlight' = InFlight
    BY <2>1 DEF InFlight
  <2>. QED  BY <2>1, <2>2, StutterStep DEF Live
<1>9. ASSUME NEW f \in Files, ReportSend(f)
      PROVE  LedgerStep
  <2>1. worker[f] = "sending" /\ channel' = Append(channel, UpdateMsg(Report(f)))
        /\ UNCHANGED <<batch, failed, rlog, owner, status, confidence>>
    BY <1>9 DEF ReportSend
  <2>2. /\ channel \in Seq(Message) /\ UpdateMsg(Report(f)).kind = "update"
        /\ UpdateMsg(Report(f)).update = Report(f) /\ Report(f).file = f
    BY <1>1 DEF TypeOK, UpdateMsg, Report
  <2>3. Queued' = Queued \cup {Report(f)}
    BY <1>1, <2>1, <2>2, ReportType, AppendQueued
  <2>4. InFlight' = InFlight \cup {Report(f)}
    BY <2>1, <2>3 DEF InFlight, Queued, Held
  <2>5. status[f] = "Processing" /\ owner # "closed" /\ \A u \in InFlight : u.file # f
    BY <1>1, <2>1 DEF Owned, Closing
  <2>6. Ledger!Accept(Report(f))
    BY <2>1, <2>2, <2>4, <2>5 DEF Ledger!Accept, Held
  <2>7. Report(f) \in Ledger!Update
    BY <1>1, ReportType DEF Ledger!Update, Ledger!Terminal, Update, Terminal
  <2>. QED  BY <1>4, <2>6, <2>7 DEF Ledger!LedgerNext
<1>10. CASE FlushBegin \/ FlushSend \/ FlushRefused \/ FlushReturn \/ DropBegin \/ TermSend
            \/ ReplayNothing \/ Poison \/ UNCHANGED vars
  <2>1. InFlight' = InFlight
    BY <1>1, <1>10, QuietSettles DEF QuietStep
  <2>2. UNCHANGED <<status, confidence, rlog>> /\ Live' = Live
    BY <1>10 DEF FlushBegin, FlushSend, FlushRefused, FlushReturn, DropBegin, TermSend,
                 ReplayNothing, Poison, vars, Live
  <2>. QED  BY <2>1, <2>2, StutterStep
<1>11. CASE Join
  <2>1. InFlight' = InFlight /\ InFlight = {}
    BY <1>1, <1>2, <1>11, QuietSettles DEF QuietStep, Join
  <2>2. Ledger!End
    BY <1>11, <2>1 DEF Join, Ledger!End, Held
  <2>. QED  BY <1>4, <2>2 DEF Ledger!LedgerNext
<1>12. CASE ReplayLog \/ RemoveLog
  <2>1. owner # "closed" /\ owner' # "closed" /\ UNCHANGED <<channel, batch, failed, confidence>>
    BY <1>12 DEF ReplayLog, RemoveLog
  <2>2. InFlight' = InFlight
    BY <2>1 DEF InFlight
  <2>3. InFlight = {}
    BY <1>1, <1>12, InFlightType DEF ReplayQuiet, Owned, Update, ReplayLog, RemoveLog
  <2>4. CASE ReplayLog
    <3>1. status' = Applied(status, rlog) /\ rlog' = rlog
      BY <2>4 DEF ReplayLog
    <3>2. Applied(status, rlog) \in Ledger!RowsAfter(Held(rlog))
      BY <1>1, AppliedRows DEF TypeOK
    <3>3. Ledger!Replay
      BY <2>1, <2>2, <2>3, <3>1, <3>2 DEF Ledger!Replay, Held
    <3>. QED  BY <1>4, <3>3 DEF Ledger!LedgerNext
  <2>5. CASE RemoveLog /\ rlog' = <<>>
    <3>1. Held(rlog') = {}
      BY <2>5, HeldEmpty
    <3>2. Ledger!Unlink
      BY <1>1, <2>1, <2>2, <2>5, <3>1 DEF RemoveLog, UnlinkReady, Ledger!Unlink, Ledger!Terminal,
                                          Terminal, Held
    <3>. QED  BY <1>4, <3>2 DEF Ledger!LedgerNext
  <2>6. CASE RemoveLog /\ UNCHANGED recovery
    BY <2>1, <2>2, <2>6, StutterStep DEF RemoveLog, Live
  <2>. QED  BY <1>12, <2>4, <2>5, <2>6 DEF RemoveLog
<1>13. CASE Crash
  <2>1. InFlight' = {}
    BY <1>13, FreshMemoryEmpty DEF Crash
  <2>2. Ledger!Die
    BY <1>13, <2>1 DEF Crash, Ledger!Die, Held
  <2>. QED  BY <1>4, <2>2 DEF Ledger!LedgerNext
<1>. QED
  BY <1>3, <1>5, <1>6, <1>7, <1>8, <1>9, <1>10, <1>11, <1>12, <1>13
     DEF Next, OwnerStep, CrashMidLine

(* The database implements the ledger: with the channel, the batches, the   *)
(* retries, the fallback and the dormant writer hidden, every outcome that  *)
(* enqueue_status_update accepted goes once into its row or into the log    *)
(* (or is forgotten where the log cannot be written), only a crash loses    *)
(* outcomes in flight, and a Drop that returns leaves none.  It holds as    *)
(* long as no crash cuts a line of the recovery log.                        *)
THEOREM RefinesLedger ==
    ASSUME ~MayTear
    PROVE  Spec => ImplementsLedger
<1>1. Init => Ledger!LedgerInit
  <2>. SUFFICES ASSUME Init PROVE Ledger!LedgerInit
    OBVIOUS
  <2>1. channel = <<>> /\ batch = <<>> /\ failed = <<>> /\ rlog = <<>>
    BY DEF Init
  <2>2. InFlight = {} /\ Held(rlog) = {}
    BY <2>1, HeldEmpty DEF InFlight
  <2>. QED  BY <2>2 DEF Init, Ledger!LedgerInit, Ledger!Null, Null, Held
<1>2. LedgerInv /\ [Next]_vars => LedgerStep
  BY StepRefines
<1>3. Spec => []LedgerInv
  BY LedgerInvHolds
<1>. QED  BY <1>1, <1>2, <1>3, PTL DEF Spec, ImplementsLedger, Ledger!LedgerSpec, LedgerStep
=============================================================================
