-------------------------- MODULE Telemetry_proofs --------------------------
(***************************************************************************)
(* Proofs about Telemetry: the view model keeps its types, what it calls a *)
(* clean success had no error, and the summary of the command line is what *)
(* happened, for any capacity of the queue and any number of files, runs,  *)
(* clicks and notes.                                                       *)
(***************************************************************************)
EXTENDS Telemetry, FiniteSetTheorems, SequenceTheorems, TLAPS

-----------------------------------------------------------------------------
(* The inductive invariant, part by part.                                   *)

OkFiles  == {e \in Event : e.kind = "file" /\ e.status = "ok"}
BadFiles == {e \in Event : e.kind = "file" /\ e.status = "error"}
Fatal    == {e \in Event : e.kind = "error" /\ e.fatal}
Erring   == {e \in Event : e.kind \in {"warning", "error"}} \cup BadFiles

(* The positions of q at which there is an element of P. *)
Places(q, P) == {i \in DOMAIN q : q[i] \in P}

Truth == [ok : Nat, other : Nat, erred : BOOLEAN, fatal : BOOLEAN, cancelled : BOOLEAN,
          dropped : BOOLEAN, unended : BOOLEAN, phase : BOOLEAN]

(* A model that the updater leaves behind. *)
Sound(m) == m \in Model /\ m.completed <= m.total /\ ~(m.processing /\ m.finished)

Shape ==
    /\ front \in {"cli", "gui"}
    /\ at \in {"idle", "setup", "scan", "scanned", "work", "end", "failing", "over"}
    /\ restoring \in BOOLEAN
    /\ files \in 0..Total /\ notes \in 0..MaxNotes /\ runs \in 0..MaxRuns /\ clicks \in 0..MaxClicks
    /\ cancel \in BOOLEAN /\ fresh \in BOOLEAN
    /\ queue \in Seq(Event) /\ Len(queue) <= Cap
    /\ Sound(vm) /\ shown \in Model /\ printed \in Model
    /\ cli \in {"none", "loop", "join", "print", "exit"}
    /\ truth \in Truth /\ truth.ok + truth.other <= files

(* The place i of the queue q, before the model m, does not follow the end *)
(* of a run at once.                                                       *)
InOrder(q, m, i) ==
    /\ \A j \in 1..(i - 1) :
          q[j].kind = "completed" => \E k \in (j + 1)..(i - 1) : q[k].kind = "phase"
    /\ m.terminal = "completed" => \E k \in 1..(i - 1) : q[k].kind = "phase"

(* Unless an event was lost, a file is reported after a phase of its run. *)
FilesInOrder ==
    ~truth.dropped =>
        /\ \A i \in DOMAIN queue : queue[i].kind = "file" => InOrder(queue, vm, i)
        /\ at \in {"scan", "scanned", "work"} => InOrder(queue, vm, Len(queue) + 1)

(* So no error comes after a clean success, ... *)
CleanCompleted == ~truth.dropped /\ vm.terminal = "completed" => ~vm.errors

(* ... and an error is remembered or on its way until the next reset. *)
ErrorsKept ==
    ~truth.dropped /\ truth.erred =>
        \/ vm.errors /\ \A i \in DOMAIN queue : queue[i].kind # "reset"
        \/ \E i \in DOMAIN queue :
              queue[i] \in Erring /\ \A j \in DOMAIN queue : j > i => queue[j].kind # "reset"

(* The command line runs the pipeline once and resets nothing. *)
OneRun ==
    /\ front = "gui" => cli = "none"
    /\ front = "cli" =>
          /\ \A i \in DOMAIN queue : queue[i].kind # "reset"
          /\ cli = "exit" => printed = shown
          /\ runs = 0 =>
                /\ at = "idle" /\ cli = "loop" /\ queue = <<>> /\ vm = NewModel /\ shown = NewModel
                /\ truth.ok = 0 /\ truth.other = 0 /\ ~truth.erred

(* A run of the command line that nothing disturbed. *)
Undisturbed == front = "cli" /\ ~(truth.cancelled \/ truth.fatal \/ truth.dropped)

(* What happened is what the view model counted and what is still queued. *)
Tally ==
    Undisturbed =>
        /\ truth.ok = vm.ok + Cardinality(Places(queue, OkFiles))
        /\ truth.other = vm.other + Cardinality(Places(queue, BadFiles))
        /\ truth.erred <=> vm.errors \/ Places(queue, Erring) # {}

(* RunCompleted is its last event, and its last snapshot stays. *)
LastWord ==
    Undisturbed =>
        /\ at # "failing"
        /\ \A i \in DOMAIN queue :
              /\ queue[i].kind # "cancelled" /\ queue[i] \notin Fatal
              /\ queue[i].kind = "completed" => i = Len(queue) /\ at = "over"
        /\ vm.finished => queue = <<>> /\ at = "over"
        /\ shown.finished => shown = vm
        /\ cli \in {"join", "print", "exit"} => shown.finished

-----------------------------------------------------------------------------
(* Sequences.                                                               *)

LEMMA AppendShape ==
    ASSUME NEW T, NEW q \in Seq(T), NEW x \in T
    PROVE  /\ Append(q, x) \in Seq(T) /\ Len(Append(q, x)) = Len(q) + 1 /\ Len(q) \in Nat
           /\ DOMAIN q = 1..Len(q) /\ DOMAIN Append(q, x) = 1..(Len(q) + 1)
           /\ \A i \in DOMAIN q : Append(q, x)[i] = q[i]
           /\ Append(q, x)[Len(q) + 1] = x
OBVIOUS

LEMMA TailShape ==
    ASSUME NEW T, NEW q \in Seq(T), q # <<>>
    PROVE  /\ Head(q) \in T /\ Head(q) = q[1] /\ 1 \in DOMAIN q
           /\ Tail(q) \in Seq(T) /\ Len(Tail(q)) = Len(q) - 1 /\ Len(q) \in Nat \ {0}
           /\ DOMAIN q = 1..Len(q) /\ DOMAIN Tail(q) = 1..(Len(q) - 1)
           /\ \A i \in DOMAIN Tail(q) : Tail(q)[i] = q[i + 1]
OBVIOUS

(* A sequence has finitely many places. *)
LEMMA PlacesFinite ==
    ASSUME NEW T, NEW q \in Seq(T), NEW P
    PROVE  IsFiniteSet(Places(q, P)) /\ Cardinality(Places(q, P)) \in Nat
<1>1. Places(q, P) \in SUBSET (1..Len(q)) /\ Len(q) \in Nat
  BY DEF Places
<1>2. IsFiniteSet(1..Len(q))
  BY <1>1, FS_Interval
<1>3. IsFiniteSet(Places(q, P))
  BY <1>1, <1>2, FS_Subset
<1>. QED  BY <1>3, FS_CardinalityType

(* An element that is appended adds a place ... *)
LEMMA PlacesAppend ==
    ASSUME NEW T, NEW q \in Seq(T), NEW x \in T, NEW P
    PROVE  Cardinality(Places(Append(q, x), P)) =
              Cardinality(Places(q, P)) + IF x \in P THEN 1 ELSE 0
<1>1. Places(Append(q, x), P) = IF x \in P THEN Places(q, P) \cup {Len(q) + 1} ELSE Places(q, P)
  BY AppendShape DEF Places
<1>2. Len(q) + 1 \notin Places(q, P)
  BY AppendShape DEF Places
<1>3. IsFiniteSet(Places(q, P)) /\ Cardinality(Places(q, P)) \in Nat
  BY PlacesFinite
<1>4. Cardinality(Places(q, P) \cup {Len(q) + 1}) = Cardinality(Places(q, P)) + 1
  BY <1>2, <1>3, FS_AddElement
<1>. QED  BY <1>1, <1>3, <1>4

(* ... and one that is taken from the head takes a place away. *)
LEMMA PlacesTail ==
    ASSUME NEW T, NEW q \in Seq(T), q # <<>>, NEW P
    PROVE  Cardinality(Places(q, P)) =
              Cardinality(Places(Tail(q), P)) + IF Head(q) \in P THEN 1 ELSE 0
<1>. DEFINE rest  == Places(q, P) \ {1}
            shift == [i \in Places(Tail(q), P) |-> i + 1]
<1>1. shift \in Bijection(Places(Tail(q), P), rest)
  <2>1. shift \in [Places(Tail(q), P) -> rest]
    BY TailShape DEF Places
  <2>2. \A i, j \in Places(Tail(q), P) : shift[i] = shift[j] => i = j
    BY TailShape DEF Places
  <2>3. \A j \in rest : j - 1 \in Places(Tail(q), P) /\ shift[j - 1] = j
    BY TailShape DEF Places
  <2>. HIDE DEF shift, rest
  <2>. QED  BY <2>1, <2>2, <2>3 DEF Bijection, Injection, IsInjective, Surjection
<1>2. Cardinality(rest) = Cardinality(Places(Tail(q), P))
  <2>1. IsFiniteSet(Places(Tail(q), P))
    BY PlacesFinite, TailShape
  <2>2. ExistsBijection(Places(Tail(q), P), rest)
    BY <1>1 DEF ExistsBijection
  <2>. HIDE DEF rest
  <2>. QED  BY <2>1, <2>2, FS_Bijection
<1>3. 1 \in Places(q, P) <=> Head(q) \in P
  BY TailShape DEF Places
<1>4. Cardinality(rest) = IF 1 \in Places(q, P) THEN Cardinality(Places(q, P)) - 1
                          ELSE Cardinality(Places(q, P))
  BY PlacesFinite, FS_RemoveElement
<1>5. Cardinality(Places(q, P)) \in Nat
  BY PlacesFinite
<1>. HIDE DEF rest
<1>. QED  BY <1>2, <1>3, <1>4, <1>5

-----------------------------------------------------------------------------
(* What an event does to the view model.                                    *)

LEMMA MaxOfThree ==
    ASSUME NEW a \in Nat, NEW b \in Nat, NEW c \in Nat
    PROVE  LET m == Max({a, b, c}) IN m \in {a, b, c} /\ m >= a /\ m >= b /\ m >= c
<1>1. \E x \in {a, b, c} : \A y \in {a, b, c} : x >= y
  <2>1. CASE a >= b /\ a >= c
    BY <2>1
  <2>2. CASE b >= a /\ b >= c
    BY <2>2
  <2>3. CASE c >= a /\ c >= b
    BY <2>3
  <2>. QED  BY <2>1, <2>2, <2>3
<1>2. Max({a, b, c}) \in {a, b, c} /\ \A y \in {a, b, c} : Max({a, b, c}) >= y
  BY <1>1 DEF Max
<1>. QED  BY <1>2

LEMMA MaxOfTwo ==
    ASSUME NEW a \in Nat, NEW b \in Nat
    PROVE  LET m == Max({a, b}) IN m \in {a, b} /\ m >= a /\ m >= b
<1>1. {a, b} = {a, b, b}
  OBVIOUS
<1>. QED  BY <1>1, MaxOfThree

LEMMA MinOfTwo ==
    ASSUME NEW a \in Nat, NEW b \in Nat
    PROVE  LET m == Min({a, b}) IN m \in {a, b} /\ m <= a /\ m <= b
<1>1. \E x \in {a, b} : \A y \in {a, b} : x =< y
  <2>1. CASE a <= b
    BY <2>1
  <2>2. CASE b <= a
    BY <2>2
  <2>. QED  BY <2>1, <2>2
<1>2. Min({a, b}) \in {a, b} /\ \A y \in {a, b} : Min({a, b}) =< y
  BY <1>1 DEF Min
<1>. QED  BY <1>2

(* The kinds of events. *)
LEMMA EventKinds ==
    ASSUME NEW e \in Event
    PROVE  /\ \/ e.kind = "phase" /\ e.name \in Phases /\ e.total \in {0, Total}
              \/ e.kind = "file" /\ e.status \in {"ok", "error"}
              \/ e.kind = "error" /\ e.fatal \in BOOLEAN
              \/ e.kind = "stats" /\ e.completed \in 0..Total
              \/ e.kind \in {"warning", "completed", "cancelled", "reset"}
BY DEF Event

LEMMA EventSets ==
    ASSUME NEW e \in Event
    PROVE  /\ e \in OkFiles <=> e.kind = "file" /\ e.status = "ok"
           /\ e \in BadFiles <=> e.kind = "file" /\ e.status = "error"
           /\ e \in Fatal <=> e.kind = "error" /\ e.fatal
           /\ e \in Erring <=> e.kind \in {"warning", "error"} \/ e \in BadFiles
BY DEF OkFiles, BadFiles, Fatal, Erring

LEMMA ApplyFileFacts ==
    ASSUME NEW m, Sound(m), NEW e \in Event, e.kind = "file"
    PROVE  LET n == ApplyFile(m, e) IN
           /\ Sound(n)
           /\ n.ok = m.ok + (IF e.status = "ok" THEN 1 ELSE 0)
           /\ n.other = m.other + (IF e.status = "ok" THEN 0 ELSE 1)
           /\ (n.errors <=> m.errors \/ e.status = "error")
           /\ n.finished = m.finished /\ n.terminal = m.terminal
<1>. DEFINE total == Max({m.total, m.completed + 1})
            c     == IF e.status = "ok" THEN [m EXCEPT !.ok = @ + 1]
                     ELSE [m EXCEPT !.other = @ + 1, !.errors = TRUE]
            low   == Min({Done(c), total})
<1>1. m \in Model /\ m.total \in Nat /\ m.completed \in Nat
  BY DEF Sound, Model
<1>2. total \in Nat
  <2>1. m.completed + 1 \in Nat
    BY <1>1
  <2>. QED  BY <1>1, <2>1, MaxOfTwo
<1>3. /\ c \in Model /\ c.processing = m.processing /\ c.finished = m.finished
      /\ c.terminal = m.terminal
      /\ c.ok = m.ok + (IF e.status = "ok" THEN 1 ELSE 0)
      /\ c.other = m.other + (IF e.status = "ok" THEN 0 ELSE 1)
      /\ (c.errors <=> m.errors \/ e.status = "error")
  <2>1. CASE e.status = "ok"
    BY <1>1, <2>1 DEF Model
  <2>2. CASE e.status = "error"
    <3>. DEFINE k == m.other + 1
    <3>1. k \in Nat
      BY <1>1 DEF Model
    <3>2. c = [m EXCEPT !.other = k, !.errors = TRUE]
      BY <2>2
    <3>. HIDE DEF c, k
    <3>3. c \in Model /\ c.other = k /\ c.errors /\ c.ok = m.ok
      BY <1>1, <3>1, <3>2 DEF Model
    <3>4. c.processing = m.processing /\ c.finished = m.finished /\ c.terminal = m.terminal
      BY <1>1, <3>2 DEF Model
    <3>. QED  BY <1>1, <2>2, <3>3, <3>4 DEF k, Model
  <2>. QED  BY <2>1, <2>2, EventKinds
<1>4. low \in Nat /\ low <= total
  <2>. HIDE DEF c, total
  <2>1. Done(c) \in Nat
    BY <1>3 DEF Done, Model
  <2>. QED  BY <1>2, <2>1, MinOfTwo
<1>5. ApplyFile(m, e) = [c EXCEPT !.total = total, !.completed = low]
  BY DEF ApplyFile
<1>. HIDE DEF c, total, low
<1>. QED  BY <1>2, <1>3, <1>4, <1>5 DEF Sound, Model

LEMMA ApplyStatsFacts ==
    ASSUME NEW m, Sound(m), NEW e \in Event, e.kind = "stats"
    PROVE  LET n == ApplyStats(m, e) IN
           /\ Sound(n) /\ n.ok = m.ok /\ n.other = m.other /\ n.errors = m.errors
           /\ n.finished = m.finished /\ n.terminal = m.terminal
<1>. DEFINE total == Max({Total, e.completed, m.total})
            high  == Max({e.completed, Done(m)})
            low   == Min({high, total})
<1>1. m \in Model /\ m.total \in Nat /\ Done(m) \in Nat /\ Total \in Nat /\ e.completed \in Nat
  BY EventKinds, TelemetryAssumption DEF Sound, Model, Done
<1>2. total \in Nat
  BY <1>1, MaxOfThree
<1>3. high \in Nat
  BY <1>1, MaxOfTwo
<1>4. low \in Nat /\ low <= total
  <2>. HIDE DEF high, total
  <2>. QED  BY <1>2, <1>3, MinOfTwo
<1>5. ApplyStats(m, e) = [m EXCEPT !.total = total, !.completed = low]
  BY DEF ApplyStats
<1>. HIDE DEF total, low
<1>. QED  BY <1>1, <1>2, <1>4, <1>5 DEF Sound, Model

LEMMA ApplyPhaseFacts ==
    ASSUME NEW m, Sound(m), NEW e \in Event, e.kind = "phase"
    PROVE  LET n == ApplyPhase(m, e) IN
           /\ Sound(n) /\ n.ok = m.ok /\ n.other = m.other /\ n.errors = m.errors
           /\ ~n.finished /\ n.terminal = "running"
<1>. DEFINE n     == ApplyPhase(m, e)
            total == Max({m.total, e.total})
            done  == IF e.name = "Restoring" /\ ~m.started THEN 0 ELSE m.completed
<1>1. /\ m \in Model /\ m.total \in Nat /\ e.total \in Nat
      /\ m.completed \in Nat /\ m.completed <= m.total
  BY EventKinds, TelemetryAssumption DEF Sound, Model
<1>2. total \in Nat /\ total >= m.total
  BY <1>1, MaxOfTwo
<1>3. done \in Nat /\ done <= m.total
  BY <1>1
<1>4. n = [m EXCEPT !.processing = TRUE, !.finished = FALSE, !.terminal = "running",
                    !.started = TRUE, !.completed = done, !.total = total]
  BY <1>1 DEF ApplyPhase, Model
<1>. HIDE DEF total, done, n
<1>5. n \in Model
  BY <1>1, <1>2, <1>3, <1>4 DEF Model
<1>6. /\ n.ok = m.ok /\ n.other = m.other /\ n.errors = m.errors /\ n.finished = FALSE
      /\ n.terminal = "running" /\ n.completed = done /\ n.total = total
  BY <1>1, <1>4 DEF Model
<1>7. n.completed <= n.total
  BY <1>1, <1>2, <1>3, <1>6
<1>. QED  BY <1>5, <1>6, <1>7 DEF n, Sound

(* The counts and the flags of the view model follow the events. *)
LEMMA ApplyFacts ==
    ASSUME NEW m, Sound(m), NEW e \in Event, NEW n, n = Apply(m, e)
    PROVE  /\ Sound(n)
           /\ e.kind # "reset" =>
                 /\ n.ok = m.ok + (IF e \in OkFiles THEN 1 ELSE 0)
                 /\ n.other = m.other + (IF e \in BadFiles THEN 1 ELSE 0)
                 /\ n.errors <=> m.errors \/ e \in Erring
           /\ e.kind \notin {"completed", "cancelled"} /\ e \notin Fatal /\ n.finished => m.finished
           /\ e.kind = "completed" /\ n.terminal = "completed" => ~n.errors
           /\ e.kind # "completed" /\ n.terminal = "completed" =>
                 m.terminal = "completed" /\ e.kind # "phase"
           /\ e.kind \in {"warning", "error", "reset"} => n.terminal # "completed"
           /\ e.kind = "reset" => n = NewModel
<1>0. m \in Model /\ m.ok \in Nat /\ m.other \in Nat /\ m.total \in Nat
  BY DEF Sound, Model
<1>1. CASE e.kind = "phase"
  <2>1. n = ApplyPhase(m, e)
    BY <1>1 DEF Apply
  <2>. QED  BY <1>0, <1>1, <2>1, EventSets, ApplyPhaseFacts
<1>2. CASE e.kind = "file"
  <2>1. n = ApplyFile(m, e)
    BY <1>2 DEF Apply
  <2>. QED  BY <1>0, <1>2, <2>1, EventSets, EventKinds, ApplyFileFacts
<1>3. CASE e.kind = "error"
  <2>1. n = ApplyError(m, e) /\ e.fatal \in BOOLEAN
    BY <1>3, EventKinds DEF Apply
  <2>. DEFINE f == [m EXCEPT !.errors = TRUE, !.terminal = "failed"]
  <2>2. n = IF e.fatal THEN [f EXCEPT !.processing = FALSE, !.finished = TRUE] ELSE f
    BY <2>1 DEF ApplyError
  <2>3. /\ f \in Model /\ f.ok = m.ok /\ f.other = m.other /\ f.errors /\ f.terminal = "failed"
        /\ f.finished = m.finished /\ f.processing = m.processing
        /\ f.completed = m.completed /\ f.total = m.total
    BY <1>0 DEF Model
  <2>. HIDE DEF f
  <2>4. Sound(n)
    <3>1. CASE e.fatal
      <4>1. n = [f EXCEPT !.processing = FALSE, !.finished = TRUE]
        BY <2>2, <3>1
      <4>2. n \in Model
        BY <2>3, <4>1 DEF Model
      <4>3. n.completed = f.completed /\ n.total = f.total /\ n.processing = FALSE
        BY <2>3, <4>1 DEF Model
      <4>. QED  BY <2>3, <4>2, <4>3 DEF Sound
    <3>2. CASE ~e.fatal
      BY <2>2, <2>3, <3>2 DEF Sound
    <3>. QED  BY <3>1, <3>2
  <2>5. /\ n.ok = m.ok /\ n.other = m.other /\ n.errors /\ n.terminal = "failed"
        /\ ~e.fatal => n.finished = m.finished
    BY <2>2, <2>3 DEF Model
  <2>. QED  BY <1>0, <1>3, <2>4, <2>5, EventSets
<1>4. CASE e.kind = "warning"
  <2>1. n = [m EXCEPT !.errors = TRUE, !.terminal = "completed_with_issues"]
    BY <1>4 DEF Apply
  <2>2. Sound(n)
    BY <1>0, <2>1 DEF Sound, Model
  <2>3. /\ n.ok = m.ok /\ n.other = m.other /\ n.errors /\ n.terminal = "completed_with_issues"
        /\ n.finished = m.finished
    BY <1>0, <2>1 DEF Model
  <2>. QED  BY <1>0, <1>4, <2>2, <2>3, EventSets
<1>5. CASE e.kind = "stats"
  <2>1. n = ApplyStats(m, e)
    BY <1>5 DEF Apply
  <2>. QED  BY <1>0, <1>5, <2>1, EventSets, ApplyStatsFacts
<1>6. CASE e.kind = "completed"
  <2>1. n = ApplyCompleted(m)
    BY <1>6 DEF Apply
  <2>2. n \in Model
    BY <1>0, <2>1 DEF ApplyCompleted, Model
  <2>3. n.completed = m.total /\ n.total = m.total /\ n.processing = FALSE
    BY <1>0, <2>1 DEF ApplyCompleted, Model
  <2>4. /\ n.ok = m.ok /\ n.other = m.other /\ n.errors = m.errors
        /\ n.terminal = "completed" => ~n.errors
    BY <1>0, <2>1 DEF ApplyCompleted, Model
  <2>. QED  BY <1>0, <1>6, <2>2, <2>3, <2>4, EventSets DEF Sound
<1>7. CASE e.kind = "cancelled"
  <2>1. n = [m EXCEPT !.processing = FALSE, !.finished = TRUE, !.terminal = "cancelled"]
    BY <1>7 DEF Apply
  <2>2. Sound(n)
    BY <1>0, <2>1 DEF Sound, Model
  <2>3. n.ok = m.ok /\ n.other = m.other /\ n.errors = m.errors /\ n.terminal = "cancelled"
    BY <1>0, <2>1 DEF Model
  <2>. QED  BY <1>0, <1>7, <2>2, <2>3, EventSets
<1>8. CASE e.kind = "reset"
  <2>1. n = NewModel
    BY <1>8 DEF Apply
  <2>. QED  BY <1>8, <2>1 DEF NewModel, Sound, Model
<1>. QED  BY <1>1, <1>2, <1>3, <1>4, <1>5, <1>6, <1>7, <1>8, EventKinds

-----------------------------------------------------------------------------
(* What is published.                                                       *)

(* What happened is what the event says. *)
LEMMA HappenedFacts ==
    ASSUME truth \in Truth, NEW e \in Event, NEW t, t = Happened(e)
    PROVE  /\ t \in Truth
           /\ t.ok = truth.ok + (IF e \in OkFiles THEN 1 ELSE 0)
           /\ t.other = truth.other + (IF e \in BadFiles THEN 1 ELSE 0)
           /\ t.erred <=> e.kind # "reset" /\ (truth.erred \/ e \in Erring)
           /\ t.fatal <=> truth.fatal \/ e \in Fatal
           /\ t.cancelled <=> truth.cancelled \/ e.kind = "cancelled"
           /\ t.dropped <=> truth.dropped \/ Len(queue) = Cap
<1>. DEFINE s == [truth EXCEPT !.dropped = @ \/ Len(queue) = Cap]
<1>0. /\ s \in Truth /\ s.ok = truth.ok /\ s.other = truth.other /\ s.erred = truth.erred
      /\ s.fatal = truth.fatal /\ s.cancelled = truth.cancelled
      /\ s.dropped <=> truth.dropped \/ Len(queue) = Cap
      /\ truth.ok \in Nat /\ truth.other \in Nat
  BY DEF Truth
<1>. HIDE DEF s
<1>1. CASE e.kind = "phase"
  <2>1. t = [s EXCEPT !.phase = TRUE]
    BY <1>1 DEF Happened, s
  <2>2. t \in Truth
    BY <1>0, <2>1 DEF Truth
  <2>3. /\ t.ok = s.ok /\ t.other = s.other /\ t.erred = s.erred
        /\ t.fatal = s.fatal /\ t.cancelled = s.cancelled /\ t.dropped = s.dropped
    BY <1>0, <2>1 DEF Truth
  <2>. QED  BY <1>0, <1>1, <2>2, <2>3, EventSets
<1>2. CASE e.kind = "file" /\ e.status = "ok"
  <2>1. t = [s EXCEPT !.ok = @ + 1]
    BY <1>2 DEF Happened, s
  <2>. QED  BY <1>0, <1>2, <2>1, EventSets DEF Truth
<1>3. CASE e.kind = "file" /\ e.status = "error"
  <2>1. t = [s EXCEPT !.other = @ + 1, !.erred = TRUE]
    BY <1>3 DEF Happened, s
  <2>. DEFINE k == s.other + 1
  <2>2. k \in Nat /\ t = [s EXCEPT !.other = k, !.erred = TRUE]
    BY <1>0, <2>1 DEF Truth
  <2>3. k = truth.other + 1
    BY <1>0
  <2>. HIDE DEF k
  <2>4. t \in Truth /\ t.ok = truth.ok /\ t.other = k /\ t.erred
    BY <1>0, <2>2 DEF Truth
  <2>5. t.fatal = truth.fatal /\ t.cancelled = truth.cancelled /\ t.dropped = s.dropped
    BY <1>0, <2>2 DEF Truth
  <2>. QED  BY <1>0, <1>3, <2>3, <2>4, <2>5, EventSets DEF Truth
<1>4. CASE e.kind = "error"
  <2>1. t = [s EXCEPT !.erred = TRUE, !.fatal = @ \/ e.fatal]
    BY <1>4 DEF Happened, s
  <2>. DEFINE b == s.fatal \/ e.fatal
  <2>2. b \in BOOLEAN /\ t = [s EXCEPT !.erred = TRUE, !.fatal = b]
    BY <1>0, <1>4, <2>1, EventKinds DEF Truth
  <2>3. b <=> truth.fatal \/ e.fatal
    BY <1>0
  <2>. HIDE DEF b
  <2>4. t \in Truth
    BY <1>0, <2>2 DEF Truth
  <2>5. /\ t.ok = s.ok /\ t.other = s.other /\ t.erred
        /\ t.fatal = b /\ t.cancelled = s.cancelled /\ t.dropped = s.dropped
    BY <1>0, <2>2 DEF Truth
  <2>. QED  BY <1>0, <1>4, <2>3, <2>4, <2>5, EventSets
<1>5. CASE e.kind = "warning"
  <2>1. t = [s EXCEPT !.erred = TRUE]
    BY <1>5 DEF Happened, s
  <2>2. t \in Truth
    BY <1>0, <2>1 DEF Truth
  <2>3. /\ t.ok = s.ok /\ t.other = s.other /\ t.fatal = s.fatal
        /\ t.cancelled = s.cancelled /\ t.dropped = s.dropped
        /\ t.erred
    BY <1>0, <2>1 DEF Truth
  <2>. QED  BY <1>0, <1>5, <2>2, <2>3, EventSets
<1>6. CASE e.kind = "cancelled"
  <2>1. t = [s EXCEPT !.cancelled = TRUE, !.phase = FALSE]
    BY <1>6 DEF Happened, s
  <2>2. t \in Truth
    BY <1>0, <2>1 DEF Truth
  <2>3. /\ t.ok = s.ok /\ t.other = s.other /\ t.erred = s.erred
        /\ t.fatal = s.fatal /\ t.dropped = s.dropped
        /\ t.cancelled
    BY <1>0, <2>1 DEF Truth
  <2>. QED  BY <1>0, <1>6, <2>2, <2>3, EventSets
<1>7. CASE e.kind = "completed"
  <2>1. t = [s EXCEPT !.phase = FALSE]
    BY <1>7 DEF Happened, s
  <2>2. t \in Truth
    BY <1>0, <2>1 DEF Truth
  <2>3. /\ t.ok = s.ok /\ t.other = s.other /\ t.erred = s.erred
        /\ t.fatal = s.fatal /\ t.cancelled = s.cancelled /\ t.dropped = s.dropped
    BY <1>0, <2>1 DEF Truth
  <2>. QED  BY <1>0, <1>7, <2>2, <2>3, EventSets
<1>8. CASE e.kind = "reset"
  <2>1. t = [s EXCEPT !.erred = FALSE]
    BY <1>8 DEF Happened, s
  <2>2. t \in Truth
    BY <1>0, <2>1 DEF Truth
  <2>3. /\ t.ok = s.ok /\ t.other = s.other /\ t.fatal = s.fatal
        /\ t.cancelled = s.cancelled /\ t.dropped = s.dropped
        /\ ~t.erred
    BY <1>0, <2>1 DEF Truth
  <2>. QED  BY <1>0, <1>8, <2>2, <2>3, EventSets
<1>9. CASE e.kind = "stats"
  <2>1. t = s
    BY <1>9 DEF Happened, s
  <2>. QED  BY <1>0, <1>9, <2>1, EventSets DEF Truth
<1>. QED
  BY <1>1, <1>2, <1>3, <1>4, <1>5, <1>6, <1>7, <1>8, <1>9, EventKinds

(* The queue keeps its bound, and takes the event unless it is dropped. *)
LEMMA QueuedFacts ==
    ASSUME queue \in Seq(Event), Len(queue) <= Cap, NEW e \in Event
    PROVE  /\ Queued(e) \in Seq(Event) /\ Len(Queued(e)) <= Cap
           /\ Len(queue) # Cap => Queued(e) = Append(queue, e)
BY AppendShape, TelemetryAssumption DEF Queued

(* The pipeline is past the announcement of a phase of its run. *)
InPhase == {"scan", "scanned", "work"}

(* How an event moves the pipeline. *)
Course(e) ==
    /\ e.kind = "reset" => front = "gui"
    /\ e.kind = "file" => at = "work"
    /\ e.kind = "completed" => at' = "over"
    /\ at' = "failing" => at = "failing" \/ e \in Fatal
    /\ at = "over" => at' = "over" /\ e.kind \in {"cancelled", "reset"}
    /\ at' \in InPhase => at \in InPhase \/ e.kind = "phase"
    /\ files' = IF e.kind = "file" THEN files + 1 ELSE files
    /\ files' \in 0..Total

(* A step without an event. *)
Silent ==
    /\ UNCHANGED <<queue, files>>
    /\ truth' = truth \/ truth' = [truth EXCEPT !.unended = @ \/ truth.phase]
    /\ at \notin {"idle", "over"} /\ at' # "failing"
    /\ at' \in InPhase => at \in InPhase

(* The events that there are. *)
LEMMA EventsMade ==
    /\ \A name \in Phases : Phase(name) \in Event /\ Phase(name).kind = "phase"
    /\ \A s \in {"ok", "error"} : File(s) \in Event /\ File(s).kind = "file"
    /\ \A b \in BOOLEAN : Err(b) \in Event /\ Err(b).kind = "error" /\ Err(b).fatal = b
    /\ \A n \in 0..Total : Stats(n) \in Event /\ Stats(n).kind = "stats"
    /\ \A k \in {"warning", "completed", "cancelled", "reset"} :
          Plain(k) \in Event /\ Plain(k).kind = k
BY DEF Phase, File, Err, Stats, Plain, Event

(* What the pipeline, a cancel and a reset publish. *)
LEMMA Publishes ==
    ASSUME Shape, PipelineStep \/ Cancel \/ Reset
    PROVE  /\ UNCHANGED <<front, runs, updater, main>>
           /\ at = "idle" => runs > 0 \/ front = "gui"
           /\ Silent \/ \E e \in Event : Publish(e) /\ Course(e)
<1>. DEFINE Goal == /\ UNCHANGED <<front, runs, updater, main>>
                    /\ at = "idle" => runs > 0 \/ front = "gui"
                    /\ Silent \/ \E e \in Event : Publish(e) /\ Course(e)
<1>. SUFFICES Goal
  OBVIOUS
<1>0. /\ Total \in Nat /\ files \in 0..Total /\ runs \in Nat /\ front \in {"cli", "gui"}
      /\ 0 \in 0..Total /\ Total \in 0..Total
  BY TelemetryAssumption DEF Shape
<1>1. CASE SetupDone
  BY <1>0, <1>1, EventsMade DEF SetupDone, Becomes, Quiet, Course, InPhase, Phases
<1>2. CASE Fails
  BY <1>0, <1>2, EventsMade, EventSets DEF Fails, Becomes, Quiet, Course, InPhase
<1>3. ASSUME NEW e \in Event, ScanNote(e)
      PROVE  Goal
  BY <1>0, <1>3, EventsMade DEF ScanNote, Quiet, Course, InPhase
<1>4. CASE ScanCancelled
  BY <1>0, <1>4 DEF ScanCancelled, Becomes, Quiet, Silent, InPhase
<1>5. CASE ScanDone
  BY <1>0, <1>5 DEF ScanDone, Becomes, Quiet, Silent, InPhase
<1>6. CASE ProcessingStarts
  BY <1>0, <1>6, EventsMade DEF ProcessingStarts, Becomes, Quiet, Course, InPhase, Phases
<1>7. CASE AnnounceRestoring
  BY <1>0, <1>7, EventsMade DEF AnnounceRestoring, Quiet, Course, InPhase, Phases
<1>8. ASSUME NEW status \in {"ok", "error"}, ReportFile(status)
      PROVE  Goal
  BY <1>0, <1>8, EventsMade DEF ReportFile, Quiet, Course, InPhase
<1>9. ASSUME NEW e \in Event, WorkNote(e)
      PROVE  Goal
  <2>1. \/ e = Plain("warning") \/ e = Err(TRUE) \/ e = Err(FALSE)
        \/ \E n \in 1..Total : e = Stats(n)
    BY <1>9 DEF WorkNote
  <2>2. e.kind \in {"warning", "error", "stats"}
    <3>1. ASSUME NEW n \in 1..Total, e = Stats(n)
          PROVE  e.kind = "stats"
      BY <1>0, <3>1, EventsMade
    <3>. QED  BY <2>1, <3>1, EventsMade
  <2>. QED  BY <1>0, <1>9, <2>2 DEF WorkNote, Quiet, Course, InPhase
<1>10. CASE DiskFull
  BY <1>0, <1>10, EventsMade DEF DiskFull, Course, InPhase
<1>11. CASE WorkDone
  <2>1. CASE cancel
    BY <1>0, <1>11, <2>1, EventsMade DEF WorkDone, Becomes, Quiet, Course, InPhase
  <2>2. CASE ~cancel
    BY <1>0, <1>11, <2>2 DEF WorkDone, Becomes, Quiet, Silent, InPhase
  <2>. QED  BY <2>1, <2>2
<1>12. CASE RunCompleted
  BY <1>0, <1>12, EventsMade DEF RunCompleted, Becomes, Quiet, Course, InPhase
<1>13. CASE Cancel
  BY <1>0, <1>13, EventsMade DEF Cancel, pipeline, Course, InPhase
<1>14. CASE Reset
  BY <1>0, <1>14, EventsMade DEF Reset, pipeline, Course, InPhase
<1>. HIDE DEF Goal
<1>. QED
  BY <1>1, <1>2, <1>3, <1>4, <1>5, <1>6, <1>7, <1>8, <1>9, <1>10, <1>11, <1>12, <1>13, <1>14
     DEF PipelineStep

(* What a start leaves behind. *)
LEMMA StartFacts ==
    ASSUME Shape, NEW resumed \in BOOLEAN, Start(resumed)
    PROVE  /\ UNCHANGED <<front, notes, clicks, updater, main>>
           /\ at' = "setup" /\ files' = 0 /\ restoring' = FALSE /\ cancel' \in BOOLEAN
           /\ front = "cli" => runs = 0 /\ queue' = queue
           /\ runs' = runs + 1 /\ runs' \in 0..MaxRuns
           /\ queue' \in Seq(Event) /\ Len(queue') <= Cap
           /\ truth' \in Truth /\ truth'.ok = 0 /\ truth'.other = 0
           /\ truth'.erred = truth.erred
           /\ front = "cli" => ~truth'.fatal /\ ~truth'.cancelled
           /\ ~truth'.dropped =>
                 /\ ~truth.dropped
                 /\ queue' = queue \/ queue' = Append(queue, Phase("Resuming"))
<1>. DEFINE p == Phase("Resuming")
            t == IF resumed THEN Happened(p) ELSE truth
<1>1. p \in Event /\ p.kind = "phase"
  BY EventsMade DEF Phases
<1>2. /\ truth \in Truth /\ queue \in Seq(Event) /\ Len(queue) <= Cap
      /\ runs \in 0..MaxRuns /\ runs \in Nat /\ MaxRuns \in Nat \ {0}
  BY TelemetryAssumption DEF Shape
<1>3. /\ t \in Truth /\ t.erred = truth.erred
      /\ ~t.dropped => ~truth.dropped /\ (resumed => Len(queue) # Cap)
  <2>1. CASE resumed
    <3>1. t = Happened(p)
      BY <2>1
    <3>. HIDE DEF t, p
    <3>2. t \in Truth /\ (t.erred <=> truth.erred) /\ (t.dropped <=> truth.dropped \/ Len(queue) = Cap)
      BY <1>1, <1>2, <3>1, HappenedFacts, EventSets
    <3>3. t.erred = truth.erred
      BY <1>2, <3>2 DEF Truth
    <3>. QED  BY <3>2, <3>3
  <2>2. CASE ~resumed
    BY <1>2, <2>2
  <2>. QED  BY <2>1, <2>2
<1>4. truth' = [t EXCEPT !.ok = 0, !.other = 0, !.fatal = FALSE, !.cancelled = FALSE]
  BY DEF Start
<1>5. queue' = IF resumed THEN Queued(p) ELSE queue
  BY DEF Start
<1>6. /\ UNCHANGED <<front, notes, clicks, updater, main>>
      /\ at' = "setup" /\ files' = 0 /\ restoring' = FALSE /\ runs' = runs + 1
      /\ front = "cli" => runs = 0 /\ ~resumed
      /\ front # "cli" => runs < MaxRuns
      /\ cancel' = (cancel /\ ~resumed)
  BY DEF Start
<1>. HIDE DEF t, p
<1>7. /\ truth' \in Truth /\ truth'.ok = 0 /\ truth'.other = 0 /\ truth'.erred = t.erred
      /\ truth'.fatal = FALSE /\ truth'.cancelled = FALSE /\ truth'.dropped = t.dropped
  BY <1>3, <1>4 DEF Truth
<1>8. /\ queue' \in Seq(Event) /\ Len(queue') <= Cap
      /\ resumed /\ Len(queue) # Cap => queue' = Append(queue, p)
      /\ ~resumed => queue' = queue
  BY <1>1, <1>2, <1>5, QueuedFacts
<1>9. runs' \in 0..MaxRuns
  BY <1>2, <1>6
<1>10. ~truth'.dropped => ~truth.dropped /\ (queue' = queue \/ queue' = Append(queue, p))
  BY <1>3, <1>7, <1>8
<1>. QED  BY <1>3, <1>6, <1>7, <1>8, <1>9, <1>10 DEF p

(* What the updater makes of an event. *)
LEMMA UpdateFacts ==
    ASSUME Shape, Update
    PROVE  /\ UNCHANGED <<front, pipeline, clicks, cancel, main, truth>>
           /\ queue # <<>> /\ queue' = Tail(queue) /\ queue[1] \in Event
           /\ queue' \in Seq(Event) /\ Len(queue') <= Cap
           /\ vm' = Apply(vm, queue[1]) /\ Sound(vm')
           /\ \/ shown' = Snapshot(vm')
              \/ shown' = shown /\ queue[1].kind \notin {"completed", "cancelled", "phase"}
           /\ fresh' \in BOOLEAN
<1>1. queue \in Seq(Event) /\ Len(queue) <= Cap /\ queue # <<>> /\ Sound(vm)
  BY DEF Shape, Update
<1>2. Head(queue) = queue[1] /\ queue[1] \in Event /\ Tail(queue) \in Seq(Event)
      /\ Len(Tail(queue)) <= Cap
  BY <1>1, TailShape, TelemetryAssumption
<1>3. vm' = Apply(vm, queue[1]) /\ queue' = Tail(queue)
  BY <1>2 DEF Update
<1>4. Sound(vm')
  BY <1>1, <1>2, <1>3, ApplyFacts
<1>. QED  BY <1>1, <1>2, <1>3, <1>4 DEF Update, Send, AtOnce, Shape

LEMMA SnapshotFacts ==
    ASSUME NEW m \in Model
    PROVE  Snapshot(m) \in Model /\ (front = "cli" => Snapshot(m) = m)
BY DEF Snapshot, NewModel, Model

(* What is published keeps the types. *)
LEMMA PublishTypes ==
    ASSUME Shape, NEW e \in Event, Publish(e), Course(e)
    PROVE  /\ queue' \in Seq(Event) /\ Len(queue') <= Cap
           /\ truth' \in Truth /\ files' \in 0..Total /\ truth'.ok + truth'.other <= files'
<1>1. truth \in Truth /\ truth.ok \in Nat /\ truth.other \in Nat /\ files \in Nat
  BY TelemetryAssumption DEF Shape, Truth
<1>2. queue' \in Seq(Event) /\ Len(queue') <= Cap
  BY QueuedFacts DEF Shape, Publish
<1>3. /\ truth' \in Truth
      /\ truth'.ok = truth.ok + (IF e \in OkFiles THEN 1 ELSE 0)
      /\ truth'.other = truth.other + (IF e \in BadFiles THEN 1 ELSE 0)
  BY <1>1, HappenedFacts DEF Publish
<1>4. truth'.ok + truth'.other <= files'
  <2>1. truth.ok + truth.other <= files /\ files' = IF e.kind = "file" THEN files + 1 ELSE files
    BY DEF Course, Shape
  <2>2. ~(e \in OkFiles /\ e \in BadFiles) /\ (e \in OkFiles \/ e \in BadFiles => e.kind = "file")
    BY EventSets
  <2>. QED  BY <1>1, <1>3, <2>1, <2>2
<1>. QED  BY <1>2, <1>3, <1>4 DEF Course

(* The variables of the pipeline and of the user. *)
Control ==
    /\ at \in {"idle", "setup", "scan", "scanned", "work", "end", "failing", "over"}
    /\ restoring \in BOOLEAN /\ cancel \in BOOLEAN
    /\ notes \in 0..MaxNotes /\ clicks \in 0..MaxClicks

LEMMA ControlStep ==
    ASSUME Control, PipelineStep \/ Cancel \/ Reset
    PROVE  Control'
<1>0. \A n \in Nat : \A i \in 0..n : i < n => i + 1 \in 0..n
  OBVIOUS
<1>1. CASE SetupDone \/ Fails \/ ScanCancelled \/ ScanDone \/ ProcessingStarts \/ RunCompleted
  BY <1>1 DEF Control, SetupDone, Fails, ScanCancelled, ScanDone, ProcessingStarts, RunCompleted,
       Becomes, Quiet
<1>2. CASE AnnounceRestoring \/ WorkDone \/ \E status \in {"ok", "error"} : ReportFile(status)
  BY <1>2 DEF Control, AnnounceRestoring, WorkDone, ReportFile, Becomes, Quiet
<1>3. CASE \E e \in Event : ScanNote(e) \/ WorkNote(e)
  BY <1>0, <1>3, TelemetryAssumption DEF Control, ScanNote, WorkNote, Quiet
<1>4. CASE DiskFull
  BY <1>0, <1>4, TelemetryAssumption DEF Control, DiskFull
<1>5. CASE Cancel
  BY <1>0, <1>5, TelemetryAssumption DEF Control, Cancel, Click, pipeline
<1>6. CASE Reset
  BY <1>0, <1>6, TelemetryAssumption DEF Control, Reset, Click, pipeline
<1>. QED  BY <1>1, <1>2, <1>3, <1>4, <1>5, <1>6 DEF PipelineStep

(* Every step keeps the types. *)
LEMMA ShapeStep ==
    ASSUME Shape, [Next]_vars
    PROVE  Shape'
<1>0. Control /\ truth \in Truth
  BY DEF Shape, Control
<1>1. CASE PipelineStep \/ Cancel \/ Reset
  <2>1. Control' /\ UNCHANGED <<front, runs, updater, main>>
    BY <1>0, <1>1, ControlStep, Publishes
  <2>2. /\ queue' \in Seq(Event) /\ Len(queue') <= Cap
        /\ truth' \in Truth /\ files' \in 0..Total /\ truth'.ok + truth'.other <= files'
    <3>1. CASE Silent
      BY <1>0, <3>1 DEF Silent, Shape, Truth
    <3>2. CASE \E e \in Event : Publish(e) /\ Course(e)
      BY <3>2, PublishTypes
    <3>. QED  BY <1>1, <3>1, <3>2, Publishes
  <2>. QED  BY <2>1, <2>2 DEF Shape, Control, updater, main
<1>2. ASSUME NEW resumed \in BOOLEAN, Start(resumed)
      PROVE  Shape'
  <2>1. 0 \in 0..Total /\ 0 + 0 <= 0
    BY TelemetryAssumption
  <2>. QED  BY <1>2, <2>1, StartFacts DEF Shape, updater, main
<1>3. CASE Update
  <2>1. vm' \in Model /\ shown \in Model
    BY <1>3, UpdateFacts DEF Shape, Sound
  <2>2. shown' \in Model
    <3>1. Snapshot(vm') \in Model
      BY <2>1, SnapshotFacts
    <3>. QED  BY <1>3, <2>1, <3>1, UpdateFacts
  <2>. QED  BY <1>3, <2>2, UpdateFacts DEF Shape, pipeline, main
<1>4. CASE UpdateIdle
  <2>1. shown' \in Model /\ fresh' \in BOOLEAN
    BY <1>4, SnapshotFacts DEF UpdateIdle, Send, Shape, Sound
  <2>. QED  BY <1>4, <2>1 DEF Shape, UpdateIdle, pipeline, main
<1>5. CASE MainStep
  BY <1>5 DEF Shape, MainStep, Look, Join, PrintSummary, pipeline, updater
<1>6. CASE UNCHANGED vars
  BY <1>6 DEF Shape, vars, pipeline, updater, main
<1>. QED  BY <1>1, <1>2, <1>3, <1>4, <1>5, <1>6 DEF Next, UpdaterStep


-----------------------------------------------------------------------------
(* What becomes of the queue.                                               *)

(* An event that was not dropped is the last one. *)
LEMMA PublishFacts ==
    ASSUME Shape, NEW e \in Event, Publish(e)
    PROVE  /\ truth \in Truth /\ truth' \in Truth /\ queue \in Seq(Event)
           /\ truth.ok \in Nat /\ truth.other \in Nat
           /\ truth'.ok = truth.ok + (IF e \in OkFiles THEN 1 ELSE 0)
           /\ truth'.other = truth.other + (IF e \in BadFiles THEN 1 ELSE 0)
           /\ truth'.erred <=> e.kind # "reset" /\ (truth.erred \/ e \in Erring)
           /\ truth'.fatal <=> truth.fatal \/ e \in Fatal
           /\ truth'.cancelled <=> truth.cancelled \/ e.kind = "cancelled"
           /\ ~truth'.dropped => ~truth.dropped /\ queue' = Append(queue, e)
<1>1. truth \in Truth /\ truth.ok \in Nat /\ truth.other \in Nat
  BY DEF Shape, Truth
<1>. QED  BY <1>1, HappenedFacts, QueuedFacts DEF Shape, Publish

(* What a silent step leaves alone. *)
LEMMA SilentFacts ==
    ASSUME Shape, Silent
    PROVE  /\ queue' = queue /\ files' = files /\ truth' \in Truth /\ truth \in Truth
           /\ truth'.ok = truth.ok /\ truth'.other = truth.other /\ truth'.erred = truth.erred
           /\ truth'.fatal = truth.fatal /\ truth'.cancelled = truth.cancelled
           /\ truth'.dropped = truth.dropped
BY DEF Silent, Shape, Truth

-----------------------------------------------------------------------------
(* Files come after a phase of their run.                                   *)

(* A place at or before the end of the queue is left in order by an append, *)
LEMMA InOrderKept ==
    ASSUME NEW q \in Seq(Event), NEW e \in Event, NEW m,
           NEW i \in 1..(Len(q) + 1), InOrder(q, m, i)
    PROVE  InOrder(Append(q, e), m, i)
<1>1. Len(q) \in Nat /\ \A j \in 1..Len(q) : Append(q, e)[j] = q[j]
  BY AppendShape
<1>2. \A j \in 1..(i - 1) : Append(q, e)[j] = q[j]
  BY <1>1
<1>3. \A j \in 1..(i - 1) : \A k \in (j + 1)..(i - 1) : k \in 1..(i - 1)
  BY <1>1
<1>4. ASSUME NEW j \in 1..(i - 1), Append(q, e)[j].kind = "completed"
      PROVE  \E k \in (j + 1)..(i - 1) : Append(q, e)[k].kind = "phase"
  <2>1. PICK k \in (j + 1)..(i - 1) : q[k].kind = "phase"
    BY <1>2, <1>4 DEF InOrder
  <2>. QED  BY <1>2, <1>3, <2>1
<1>5. ASSUME m.terminal = "completed"
      PROVE  \E k \in 1..(i - 1) : Append(q, e)[k].kind = "phase"
  BY <1>2, <1>5 DEF InOrder
<1>. QED  BY <1>4, <1>5 DEF InOrder

(* and so is the end itself, unless a run ends with this event. *)
LEMMA InOrderMoves ==
    ASSUME NEW q \in Seq(Event), NEW e \in Event, NEW m,
           \/ e.kind = "phase"
           \/ e.kind # "completed" /\ InOrder(q, m, Len(q) + 1)
    PROVE  InOrder(Append(q, e), m, Len(q) + 2)
<1>. DEFINE n == Len(q)
            a == Append(q, e)
<1>1. n \in Nat /\ a[n + 1] = e /\ \A j \in 1..n : a[j] = q[j]
  BY AppendShape
<1>2. \/ e.kind = "phase"
      \/ e.kind # "completed" /\ InOrder(q, m, n + 1)
  OBVIOUS
<1>. HIDE DEF n, a
<1>3. (n + 2) - 1 = n + 1 /\ (n + 1) - 1 = n /\ n + 1 \in 1..(n + 1)
  BY <1>1
<1>4. \A j \in 1..(n + 1) : j # n + 1 => j \in 1..n /\ n + 1 \in (j + 1)..(n + 1)
  BY <1>1
<1>5. CASE e.kind = "phase"
  <2>1. \A j \in 1..(n + 1) : a[j].kind = "completed" => n + 1 \in (j + 1)..(n + 1)
    BY <1>1, <1>4, <1>5
  <2>2. InOrder(a, m, n + 2)
    BY <1>1, <1>3, <1>5, <2>1 DEF InOrder
  <2>. QED  BY <2>2 DEF n, a
<1>6. CASE e.kind # "completed" /\ InOrder(q, m, n + 1)
  <2>1. ASSUME NEW j \in 1..(n + 1), a[j].kind = "completed"
        PROVE  \E k \in (j + 1)..(n + 1) : a[k].kind = "phase"
    <3>1. j \in 1..n /\ q[j].kind = "completed"
      BY <1>1, <1>4, <1>6, <2>1
    <3>2. PICK k \in (j + 1)..n : q[k].kind = "phase"
      BY <1>3, <1>6, <3>1 DEF InOrder
    <3>3. k \in 1..n /\ k \in (j + 1)..(n + 1)
      BY <1>1, <3>1, <3>2
    <3>. QED  BY <1>1, <3>2, <3>3
  <2>2. ASSUME m.terminal = "completed"
        PROVE  \E k \in 1..(n + 1) : a[k].kind = "phase"
    <3>1. PICK k \in 1..n : q[k].kind = "phase"
      BY <1>3, <1>6, <2>2 DEF InOrder
    <3>2. k \in 1..(n + 1)
      BY <1>1, <3>1
    <3>. QED  BY <1>1, <3>1, <3>2
  <2>3. InOrder(a, m, n + 2)
    BY <1>3, <2>1, <2>2 DEF InOrder
  <2>. QED  BY <2>3 DEF n, a
<1>. QED  BY <1>2, <1>5, <1>6 DEF n

(* What the updater takes from the head leaves the places behind it in order. *)
LEMMA InOrderShifts ==
    ASSUME NEW q \in Seq(Event), q # <<>>, NEW m, Sound(m),
           NEW i \in 1..Len(q), InOrder(q, m, i + 1)
    PROVE  InOrder(Tail(q), Apply(m, q[1]), i)
<1>. DEFINE r == Tail(q)
            n == Apply(m, q[1])
<1>1. /\ Len(q) \in Nat \ {0} /\ q[1] \in Event
      /\ \A j \in 1..(Len(q) - 1) : r[j] = q[j + 1]
  BY TailShape
<1>2. /\ i \in Nat \ {0} /\ (i + 1) - 1 = i
      /\ \A j \in 1..(i - 1) : r[j] = q[j + 1] /\ j + 1 \in 1..i
  BY <1>1
<1>3. n.terminal = "completed" =>
         \/ q[1].kind = "completed"
         \/ m.terminal = "completed" /\ q[1].kind # "phase"
  BY <1>1, ApplyFacts
<1>. HIDE DEF r, n
<1>4. /\ \A j \in 1..i : q[j].kind = "completed" => \E k \in (j + 1)..i : q[k].kind = "phase"
      /\ m.terminal = "completed" => \E k \in 1..i : q[k].kind = "phase"
  BY <1>2 DEF InOrder
<1>5. ASSUME NEW l \in 0..(i - 1), \E k \in (l + 2)..i : q[k].kind = "phase"
      PROVE  \E p \in (l + 1)..(i - 1) : r[p].kind = "phase"
  <2>1. PICK k \in (l + 2)..i : q[k].kind = "phase"
    BY <1>5
  <2>2. k - 1 \in (l + 1)..(i - 1) /\ k - 1 \in 1..(i - 1) /\ (k - 1) + 1 = k
    BY <1>2, <2>1
  <2>. QED  BY <1>2, <2>1, <2>2
<1>6. ASSUME NEW j \in 1..(i - 1), r[j].kind = "completed"
      PROVE  \E k \in (j + 1)..(i - 1) : r[k].kind = "phase"
  <2>1. j + 1 \in 1..i /\ (j + 1) + 1 = j + 2 /\ j \in 0..(i - 1)
    BY <1>2
  <2>2. q[j + 1].kind = "completed"
    BY <1>2, <1>6
  <2>3. \E k \in (j + 2)..i : q[k].kind = "phase"
    BY <1>4, <2>1, <2>2
  <2>. QED  BY <1>5, <2>1, <2>3
<1>7. ASSUME n.terminal = "completed"
      PROVE  \E k \in 1..(i - 1) : r[k].kind = "phase"
  <2>0. 0 \in 0..(i - 1) /\ 0 + 1 = 1 /\ 0 + 2 = 2 /\ 1 + 1 = 2 /\ 1 \in 1..i
    BY <1>2
  <2>1. \E k \in 2..i : q[k].kind = "phase"
    <3>1. CASE q[1].kind = "completed"
      BY <1>4, <2>0, <3>1
    <3>2. CASE m.terminal = "completed" /\ q[1].kind # "phase"
      <4>1. PICK k \in 1..i : q[k].kind = "phase"
        BY <1>4, <3>2
      <4>2. k \in 2..i
        BY <1>2, <3>2, <4>1
      <4>. QED  BY <4>1, <4>2
    <3>. QED  BY <1>3, <1>7, <3>1, <3>2
  <2>. QED  BY <1>5, <2>0, <2>1
<1>8. InOrder(r, n, i)
  BY <1>6, <1>7 DEF InOrder
<1>. QED  BY <1>8 DEF r, n

LEMMA FilesInOrderStep ==
    ASSUME Shape, FilesInOrder, [Next]_vars
    PROVE  FilesInOrder'
<1>. DEFINE Goal == /\ \A i \in DOMAIN queue' : queue'[i].kind = "file" => InOrder(queue', vm', i)
                    /\ at' \in InPhase => InOrder(queue', vm', Len(queue') + 1)
<1>. SUFFICES ASSUME ~truth'.dropped PROVE Goal
  BY DEF FilesInOrder, InPhase
<1>0. queue \in Seq(Event) /\ Len(queue) \in Nat /\ DOMAIN queue = 1..Len(queue)
  BY DEF Shape
<1>1. CASE PipelineStep \/ Cancel \/ Reset
  <2>0. vm' = vm
    BY <1>1, Publishes DEF updater
  <2>1. CASE Silent
    <3>1. queue' = queue /\ ~truth.dropped /\ (at' \in InPhase => at \in InPhase)
      BY <2>1, SilentFacts DEF Silent
    <3>. QED  BY <2>0, <3>1 DEF FilesInOrder, InPhase
  <2>2. ASSUME NEW e \in Event, Publish(e), Course(e)
        PROVE  Goal
    <3>1. ~truth.dropped /\ queue' = Append(queue, e)
      BY <2>2, PublishFacts
    <3>2. /\ \A i \in 1..Len(queue) : queue[i].kind = "file" => InOrder(queue, vm, i)
          /\ at \in InPhase => InOrder(queue, vm, Len(queue) + 1)
      BY <1>0, <3>1 DEF FilesInOrder, InPhase
    <3>3. /\ Len(queue') = Len(queue) + 1 /\ DOMAIN queue' = 1..(Len(queue) + 1)
          /\ \A i \in 1..Len(queue) : queue'[i] = queue[i]
          /\ queue'[Len(queue) + 1] = e
      BY <1>0, <3>1, AppendShape
    <3>4. ASSUME NEW i \in DOMAIN queue', queue'[i].kind = "file"
          PROVE  InOrder(queue', vm', i)
      <4>1. i \in 1..(Len(queue) + 1) /\ (i = Len(queue) + 1 \/ i \in 1..Len(queue))
        BY <1>0, <3>3, <3>4
      <4>2. i = Len(queue) + 1 => at \in InPhase
        BY <2>2, <3>3, <3>4 DEF Course, InPhase
      <4>3. InOrder(queue, vm, i)
        BY <3>2, <3>3, <3>4, <4>1, <4>2
      <4>. QED  BY <1>0, <2>0, <3>1, <4>1, <4>3, InOrderKept
    <3>5. ASSUME at' \in InPhase
          PROVE  InOrder(queue', vm', Len(queue') + 1)
      <4>1. \/ e.kind = "phase"
            \/ e.kind # "completed" /\ InOrder(queue, vm, Len(queue) + 1)
        BY <2>2, <3>2, <3>5 DEF Course, InPhase
      <4>2. InOrder(queue', vm', Len(queue) + 2)
        BY <1>0, <2>0, <3>1, <4>1, InOrderMoves
      <4>3. Len(queue') + 1 = Len(queue) + 2
        BY <1>0, <3>3
      <4>. QED  BY <4>2, <4>3
    <3>. QED  BY <3>4, <3>5
  <2>. HIDE DEF Goal
  <2>. QED  BY <1>1, <2>1, <2>2, Publishes
<1>2. ASSUME NEW resumed \in BOOLEAN, Start(resumed)
      PROVE  Goal
  <2>1. vm' = vm /\ at' \notin InPhase /\ ~truth.dropped
    BY <1>2, StartFacts DEF updater, InPhase
  <2>2. CASE queue' = queue
    BY <2>1, <2>2 DEF FilesInOrder
  <2>3. CASE queue' = Append(queue, Phase("Resuming"))
    <3>1. Phase("Resuming") \in Event /\ Phase("Resuming").kind = "phase"
      BY EventsMade DEF Phases
    <3>2. /\ DOMAIN queue' = 1..(Len(queue) + 1)
          /\ \A i \in 1..Len(queue) : queue'[i] = queue[i]
          /\ queue'[Len(queue) + 1].kind = "phase"
      BY <1>0, <2>3, <3>1, AppendShape
    <3>3. ASSUME NEW i \in DOMAIN queue', queue'[i].kind = "file"
          PROVE  InOrder(queue', vm', i)
      <4>1. i \in 1..(Len(queue) + 1) /\ (i = Len(queue) + 1 \/ i \in 1..Len(queue))
        BY <1>0, <3>2, <3>3
      <4>2. InOrder(queue, vm, i)
        BY <1>0, <2>1, <3>2, <3>3, <4>1 DEF FilesInOrder
      <4>. QED  BY <1>0, <2>1, <2>3, <3>1, <4>1, <4>2, InOrderKept
    <3>. QED  BY <2>1, <3>3
  <2>. QED  BY <1>2, <2>2, <2>3, StartFacts
<1>3. CASE Update
  <2>0. queue' = Tail(queue) /\ queue # <<>> /\ vm' = Apply(vm, queue[1]) /\ Sound(vm)
    BY <1>3, UpdateFacts DEF Shape
  <2>1. ~truth.dropped /\ at' = at
    BY <1>3, UpdateFacts DEF pipeline
  <2>2. /\ Len(queue') = Len(queue) - 1 /\ DOMAIN queue' = 1..(Len(queue) - 1)
        /\ Len(queue) \in Nat \ {0}
        /\ \A i \in 1..(Len(queue) - 1) : queue'[i] = queue[i + 1]
    BY <1>0, <2>0, TailShape
  <2>3. \A i \in 1..Len(queue) : InOrder(queue, vm, i + 1) => InOrder(queue', vm', i)
    BY <1>0, <2>0, InOrderShifts
  <2>4. ASSUME NEW i \in DOMAIN queue', queue'[i].kind = "file"
        PROVE  InOrder(queue', vm', i)
    <3>1. i \in 1..Len(queue) /\ i + 1 \in DOMAIN queue /\ queue[i + 1].kind = "file"
      BY <1>0, <2>2, <2>4
    <3>. QED  BY <2>1, <2>3, <3>1 DEF FilesInOrder
  <2>5. ASSUME at' \in InPhase
        PROVE  InOrder(queue', vm', Len(queue') + 1)
    <3>1. InOrder(queue, vm, Len(queue) + 1)
      BY <2>1, <2>5 DEF FilesInOrder, InPhase
    <3>2. Len(queue') + 1 = Len(queue) /\ Len(queue) \in 1..Len(queue)
      BY <2>2
    <3>. QED  BY <2>3, <3>1, <3>2
  <2>. QED  BY <2>4, <2>5
<1>4. CASE UpdateIdle \/ MainStep \/ UNCHANGED vars
  <2>1. UNCHANGED <<at, queue, vm, truth>>
    BY <1>4 DEF UpdateIdle, MainStep, Look, Join, PrintSummary, vars, pipeline, updater
  <2>. QED  BY <2>1 DEF FilesInOrder, InPhase
<1>. HIDE DEF Goal
<1>. QED  BY <1>1, <1>2, <1>3, <1>4 DEF Next, UpdaterStep

-----------------------------------------------------------------------------
(* Errors.                                                                  *)

LEMMA CleanCompletedStep ==
    ASSUME Shape, FilesInOrder, CleanCompleted, [Next]_vars
    PROVE  CleanCompleted'
<1>1. CASE PipelineStep \/ Cancel \/ Reset
  <2>1. vm' = vm /\ (~truth'.dropped => ~truth.dropped)
    BY <1>1, Publishes, PublishFacts, SilentFacts DEF updater
  <2>. QED  BY <2>1 DEF CleanCompleted
<1>2. ASSUME NEW resumed \in BOOLEAN, Start(resumed)
      PROVE  CleanCompleted'
  BY <1>2, StartFacts DEF CleanCompleted, updater
<1>3. CASE Update
  <2>. SUFFICES ASSUME ~truth.dropped, vm'.terminal = "completed", vm'.errors
                PROVE  FALSE
    BY <1>3, UpdateFacts DEF CleanCompleted
  <2>1. /\ queue[1] \in Event /\ Sound(vm) /\ vm' = Apply(vm, queue[1]) /\ 1 \in DOMAIN queue
    BY <1>3, UpdateFacts, TailShape DEF Shape
  <2>2. /\ vm.terminal = "completed"
        /\ queue[1].kind \notin {"completed", "phase", "warning", "error", "reset"}
    BY <2>1, ApplyFacts
  <2>3. vm.errors \/ queue[1] \in Erring
    BY <2>1, <2>2, ApplyFacts
  <2>4. queue[1].kind = "file"
    BY <2>1, <2>2, <2>3, EventSets DEF CleanCompleted
  <2>5. \E k \in 1..(1 - 1) : queue[k].kind = "phase"
    BY <2>1, <2>2, <2>4 DEF FilesInOrder, InOrder
  <2>. QED  BY <2>5
<1>4. CASE UpdateIdle \/ MainStep \/ UNCHANGED vars
  BY <1>4 DEF CleanCompleted, UpdateIdle, MainStep, Look, Join, PrintSummary, vars, updater
<1>. QED  BY <1>1, <1>2, <1>3, <1>4 DEF Next, UpdaterStep

LEMMA ErrorsKeptStep ==
    ASSUME Shape, ErrorsKept, [Next]_vars
    PROVE  ErrorsKept'
<1>. DEFINE Goal == \/ vm'.errors /\ \A i \in DOMAIN queue' : queue'[i].kind # "reset"
                    \/ \E i \in DOMAIN queue' :
                          /\ queue'[i] \in Erring
                          /\ \A j \in DOMAIN queue' : j > i => queue'[j].kind # "reset"
<1>. SUFFICES ASSUME ~truth'.dropped, truth'.erred PROVE Goal
  BY DEF ErrorsKept
<1>0. queue \in Seq(Event) /\ Len(queue) \in Nat /\ DOMAIN queue = 1..Len(queue)
  BY DEF Shape
<1>1. ASSUME NEW e \in Event, e.kind # "reset", truth.erred \/ e \in Erring, ~truth.dropped,
             queue' = Append(queue, e), vm' = vm
      PROVE  Goal
  <2>1. /\ DOMAIN queue' = 1..(Len(queue) + 1)
        /\ \A i \in 1..Len(queue) : queue'[i] = queue[i]
        /\ queue'[Len(queue) + 1] = e
    BY <1>0, <1>1, AppendShape
  <2>2. \A i \in DOMAIN queue' : i \in 1..Len(queue) \/ i = Len(queue) + 1
    BY <1>0, <2>1
  <2>3. CASE e \in Erring
    <3>1. Len(queue) + 1 \in DOMAIN queue' /\ ~ \E j \in DOMAIN queue' : j > Len(queue) + 1
      BY <1>0, <2>1
    <3>. QED  BY <2>1, <2>3, <3>1
  <2>4. CASE vm.errors /\ \A i \in DOMAIN queue : queue[i].kind # "reset"
    BY <1>0, <1>1, <2>1, <2>2, <2>4
  <2>5. ASSUME NEW i \in DOMAIN queue, queue[i] \in Erring,
               \A j \in DOMAIN queue : j > i => queue[j].kind # "reset"
        PROVE  Goal
    <3>1. i \in DOMAIN queue' /\ queue'[i] \in Erring
      BY <1>0, <2>1, <2>5
    <3>2. \A j \in DOMAIN queue' : j > i => queue'[j].kind # "reset"
      BY <1>0, <1>1, <2>1, <2>2, <2>5
    <3>. QED  BY <3>1, <3>2
  <2>. HIDE DEF Goal
  <2>. QED  BY <1>1, <2>3, <2>4, <2>5 DEF ErrorsKept
<1>2. CASE PipelineStep \/ Cancel \/ Reset
  <2>1. vm' = vm
    BY <1>2, Publishes DEF updater
  <2>2. CASE Silent
    BY <2>1, <2>2, SilentFacts DEF ErrorsKept
  <2>3. ASSUME NEW e \in Event, Publish(e), Course(e)
        PROVE  Goal
    <3>1. /\ e.kind # "reset" /\ ~truth.dropped /\ queue' = Append(queue, e)
          /\ truth.erred \/ e \in Erring
      BY <2>3, PublishFacts
    <3>. HIDE DEF Goal
    <3>. QED  BY <1>1, <2>1, <3>1
  <2>. HIDE DEF Goal
  <2>. QED  BY <1>2, <2>2, <2>3, Publishes
<1>3. ASSUME NEW resumed \in BOOLEAN, Start(resumed)
      PROVE  Goal
  <2>1. vm' = vm /\ ~truth.dropped /\ truth.erred
    BY <1>3, StartFacts DEF updater
  <2>2. CASE queue' = queue
    BY <2>1, <2>2 DEF ErrorsKept
  <2>3. CASE queue' = Append(queue, Phase("Resuming"))
    <3>1. Phase("Resuming") \in Event /\ Phase("Resuming").kind # "reset"
      BY EventsMade DEF Phases
    <3>. HIDE DEF Goal
    <3>. QED  BY <1>1, <2>1, <2>3, <3>1
  <2>. HIDE DEF Goal
  <2>. QED  BY <1>3, <2>2, <2>3, StartFacts
<1>4. CASE Update
  <2>0. /\ queue' = Tail(queue) /\ queue # <<>> /\ vm' = Apply(vm, queue[1]) /\ Sound(vm)
        /\ truth' = truth /\ queue[1] \in Event
    BY <1>4, UpdateFacts DEF Shape
  <2>1. /\ DOMAIN queue' = 1..(Len(queue) - 1) /\ Len(queue) \in Nat \ {0}
        /\ \A i \in 1..(Len(queue) - 1) : queue'[i] = queue[i + 1]
    BY <1>0, <2>0, TailShape
  <2>2. \A i \in DOMAIN queue' : i + 1 \in DOMAIN queue /\ i + 1 > 1 /\ queue'[i] = queue[i + 1]
    BY <1>0, <2>1
  <2>3. 1 \in DOMAIN queue
    BY <1>0, <2>1
  <2>4. queue[1].kind # "reset" => (vm'.errors <=> vm.errors \/ queue[1] \in Erring)
    BY <2>0, ApplyFacts
  <2>5. CASE vm.errors /\ \A i \in DOMAIN queue : queue[i].kind # "reset"
    BY <2>2, <2>3, <2>4, <2>5
  <2>6. ASSUME NEW i \in DOMAIN queue, queue[i] \in Erring,
               \A j \in DOMAIN queue : j > i => queue[j].kind # "reset"
        PROVE  Goal
    <3>1. CASE i = 1
      <4>1. queue[1].kind # "reset"
        BY <2>0, <2>6, <3>1, EventSets
      <4>. QED  BY <2>2, <2>4, <2>6, <3>1, <4>1
    <3>2. CASE i # 1
      <4>1. i - 1 \in DOMAIN queue' /\ (i - 1) + 1 = i
        BY <1>0, <2>1, <3>2
      <4>2. \A j \in DOMAIN queue' : j > i - 1 => j + 1 > i
        BY <1>0, <2>1
      <4>. QED  BY <2>2, <2>6, <4>1, <4>2
    <3>. QED  BY <3>1, <3>2
  <2>. HIDE DEF Goal
  <2>. QED  BY <2>0, <2>5, <2>6 DEF ErrorsKept
<1>5. CASE UpdateIdle \/ MainStep \/ UNCHANGED vars
  <2>1. UNCHANGED <<queue, vm, truth>>
    BY <1>5 DEF UpdateIdle, MainStep, Look, Join, PrintSummary, vars, updater
  <2>. QED  BY <2>1 DEF ErrorsKept
<1>. HIDE DEF Goal
<1>. QED  BY <1>2, <1>3, <1>4, <1>5 DEF Next, UpdaterStep

-----------------------------------------------------------------------------
(* The command line.                                                        *)

LEMMA OneRunStep ==
    ASSUME Shape, OneRun, [Next]_vars
    PROVE  OneRun'
<1>0. queue \in Seq(Event) /\ Len(queue) \in Nat /\ DOMAIN queue = 1..Len(queue) /\ runs \in Nat
  BY TelemetryAssumption DEF Shape
<1>1. ASSUME PipelineStep \/ Cancel \/ Reset
      PROVE  OneRun'
  <2>0. UNCHANGED <<front, runs, shown, cli, printed>>
    BY <1>1, Publishes DEF updater, main
  <2>1. front = "cli" => runs # 0
    BY <1>0, <1>1, Publishes DEF OneRun
  <2>2. ASSUME front = "cli"
        PROVE  \A i \in DOMAIN queue' : queue'[i].kind # "reset"
    <3>1. CASE Silent
      BY <2>2, <3>1, SilentFacts DEF OneRun
    <3>2. ASSUME NEW e \in Event, Publish(e), Course(e)
          PROVE  \A i \in DOMAIN queue' : queue'[i].kind # "reset"
      <4>1. queue' = Append(queue, e) \/ queue' = queue
        BY <3>2 DEF Publish, Queued
      <4>2. e.kind # "reset"
        BY <2>2, <3>2 DEF Course
      <4>3. \A i \in DOMAIN Append(queue, e) :
               Append(queue, e)[i] = e \/ (i \in DOMAIN queue /\ Append(queue, e)[i] = queue[i])
        BY <1>0, AppendShape
      <4>. QED  BY <2>2, <4>1, <4>2, <4>3 DEF OneRun
    <3>. QED  BY <1>1, <3>1, <3>2, Publishes
  <2>. QED  BY <2>0, <2>1, <2>2 DEF OneRun
<1>2. ASSUME NEW resumed \in BOOLEAN, Start(resumed)
      PROVE  OneRun'
  <2>1. UNCHANGED <<front, cli, shown, printed>> /\ runs' = runs + 1
    BY <1>2, StartFacts DEF updater, main
  <2>2. front = "cli" => queue' = queue
    BY <1>2, StartFacts
  <2>. QED  BY <1>0, <2>1, <2>2 DEF OneRun
<1>3. CASE cli # "exit" /\ Update
  <2>1. /\ UNCHANGED <<front, runs, cli>> /\ queue # <<>>
    BY <1>3, UpdateFacts DEF pipeline, main
  <2>2. \A i \in DOMAIN queue' : i + 1 \in DOMAIN queue /\ queue'[i] = queue[i + 1]
    BY <1>0, <1>3, UpdateFacts, TailShape
  <2>. QED  BY <1>3, <2>1, <2>2 DEF OneRun
<1>4. CASE cli # "exit" /\ UpdateIdle
  <2>1. ~NewModel.processing
    BY DEF NewModel
  <2>. QED  BY <1>4, <2>1 DEF OneRun, UpdateIdle, pipeline, main
<1>5. CASE cli # "exit" /\ MainStep
  <2>1. ~NewModel.finished
    BY DEF NewModel
  <2>. QED  BY <1>5, <2>1 DEF OneRun, MainStep, Look, Join, PrintSummary, pipeline, updater
<1>6. CASE UNCHANGED vars
  BY <1>6 DEF OneRun, vars, pipeline, updater, main
<1>. QED  BY <1>1, <1>2, <1>3, <1>4, <1>5, <1>6 DEF Next, UpdaterStep

(* Nothing has been counted before the run of the command line. *)
LEMMA TallyStart ==
    ASSUME queue = <<>>, vm = NewModel, truth.ok = 0, truth.other = 0, ~truth.erred
    PROVE  Tally
<1>1. ASSUME NEW P
      PROVE  Cardinality(Places(queue, P)) = 0 /\ Places(queue, P) = {}
  BY FS_EmptySet DEF Places
<1>2. vm.ok = 0 /\ vm.other = 0 /\ ~vm.errors
  BY DEF NewModel
<1>. QED  BY <1>1, <1>2 DEF Tally

LEMMA TallyStep ==
    ASSUME Shape, OneRun, Tally, [Next]_vars
    PROVE  Tally'
<1>0. /\ queue \in Seq(Event) /\ Sound(vm) /\ vm.ok \in Nat /\ vm.other \in Nat
      /\ \A P : Cardinality(Places(queue, P)) \in Nat
  BY PlacesFinite DEF Shape, Sound, Model
<1>1. ASSUME PipelineStep \/ Cancel \/ Reset
      PROVE  Tally'
  <2>0. front' = front /\ vm' = vm
    BY <1>1, Publishes DEF updater
  <2>1. CASE Silent
    BY <2>0, <2>1, SilentFacts DEF Tally, Undisturbed
  <2>2. ASSUME NEW e \in Event, Publish(e), Course(e)
        PROVE  Tally'
    <3>. SUFFICES ASSUME Undisturbed'
                  PROVE  /\ truth'.ok = vm'.ok + Cardinality(Places(queue', OkFiles))
                         /\ truth'.other = vm'.other + Cardinality(Places(queue', BadFiles))
                         /\ truth'.erred <=> vm'.errors \/ Places(queue', Erring) # {}
      BY DEF Tally
    <3>1. Undisturbed /\ queue' = Append(queue, e) /\ e.kind # "reset"
      BY <2>0, <2>2, PublishFacts DEF Undisturbed, Course
    <3>2. \A P : Cardinality(Places(queue', P)) =
                    Cardinality(Places(queue, P)) + IF e \in P THEN 1 ELSE 0
      BY <1>0, <3>1, PlacesAppend
    <3>3. Places(queue', Erring) # {} <=> Places(queue, Erring) # {} \/ e \in Erring
      BY <1>0, <3>1, AppendShape DEF Places
    <3>4. /\ truth.ok = vm.ok + Cardinality(Places(queue, OkFiles))
          /\ truth.other = vm.other + Cardinality(Places(queue, BadFiles))
          /\ truth.erred <=> vm.errors \/ Places(queue, Erring) # {}
      BY <3>1 DEF Tally
    <3>5. /\ truth'.ok = truth.ok + (IF e \in OkFiles THEN 1 ELSE 0)
          /\ truth'.other = truth.other + (IF e \in BadFiles THEN 1 ELSE 0)
          /\ truth'.erred <=> truth.erred \/ e \in Erring
      BY <2>2, <3>1, PublishFacts
    <3>6. truth'.ok = vm'.ok + Cardinality(Places(queue', OkFiles))
      <4>1. /\ Cardinality(Places(queue, OkFiles)) \in Nat
            /\ Cardinality(Places(queue', OkFiles)) =
                   Cardinality(Places(queue, OkFiles)) + IF e \in OkFiles THEN 1 ELSE 0
        BY <1>0, <3>2
      <4>. QED  BY <1>0, <2>0, <3>4, <3>5, <4>1
    <3>7. truth'.other = vm'.other + Cardinality(Places(queue', BadFiles))
      <4>1. /\ Cardinality(Places(queue, BadFiles)) \in Nat
            /\ Cardinality(Places(queue', BadFiles)) =
                   Cardinality(Places(queue, BadFiles)) + IF e \in BadFiles THEN 1 ELSE 0
        BY <1>0, <3>2
      <4>. QED  BY <1>0, <2>0, <3>4, <3>5, <4>1
    <3>. QED  BY <2>0, <3>3, <3>4, <3>5, <3>6, <3>7
  <2>. QED  BY <1>1, <2>1, <2>2, Publishes
<1>2. ASSUME NEW resumed \in BOOLEAN, Start(resumed)
      PROVE  Tally'
  <2>1. CASE front = "cli"
    <3>1. queue' = <<>> /\ vm' = NewModel /\ truth'.ok = 0 /\ truth'.other = 0 /\ ~truth'.erred
      BY <1>2, <2>1, StartFacts DEF OneRun, updater
    <3>2. ASSUME NEW P
          PROVE  Cardinality(Places(queue', P)) = 0 /\ Places(queue', P) = {}
      BY <3>1, FS_EmptySet DEF Places
    <3>3. vm'.ok = 0 /\ vm'.other = 0 /\ ~vm'.errors
      BY <3>1 DEF NewModel
    <3>. QED  BY <3>1, <3>2, <3>3 DEF Tally
  <2>2. CASE front # "cli"
    BY <1>2, <2>2, StartFacts DEF Tally, Undisturbed
  <2>. QED  BY <2>1, <2>2
<1>3. CASE Update
  <2>. SUFFICES ASSUME Undisturbed
                PROVE  /\ truth.ok = vm'.ok + Cardinality(Places(queue', OkFiles))
                       /\ truth.other = vm'.other + Cardinality(Places(queue', BadFiles))
                       /\ truth.erred <=> vm'.errors \/ Places(queue', Erring) # {}
    BY <1>3, UpdateFacts DEF Tally, Undisturbed
  <2>1. /\ queue # <<>> /\ queue' = Tail(queue) /\ vm' = Apply(vm, queue[1])
        /\ queue[1] = Head(queue) /\ queue[1] \in Event /\ 1 \in DOMAIN queue
        /\ queue' \in Seq(Event)
    BY <1>0, <1>3, UpdateFacts, TailShape
  <2>2. queue[1].kind # "reset"
    BY <2>1 DEF Undisturbed, OneRun
  <2>3. /\ vm'.ok = vm.ok + (IF queue[1] \in OkFiles THEN 1 ELSE 0)
        /\ vm'.other = vm.other + (IF queue[1] \in BadFiles THEN 1 ELSE 0)
        /\ vm'.errors <=> vm.errors \/ queue[1] \in Erring
    BY <1>0, <2>1, <2>2, ApplyFacts
  <2>4. \A P : /\ Cardinality(Places(queue, P)) =
                     Cardinality(Places(queue', P)) + IF queue[1] \in P THEN 1 ELSE 0
               /\ Cardinality(Places(queue', P)) \in Nat
    <3>1. ASSUME NEW P
          PROVE  /\ Cardinality(Places(queue, P)) =
                        Cardinality(Places(queue', P)) + IF queue[1] \in P THEN 1 ELSE 0
                 /\ Cardinality(Places(queue', P)) \in Nat
      <4>1. Cardinality(Places(queue', P)) \in Nat
        BY <2>1, PlacesFinite
      <4>2. Cardinality(Places(queue, P)) =
               Cardinality(Places(Tail(queue), P)) + IF Head(queue) \in P THEN 1 ELSE 0
        BY <1>0, <2>1, PlacesTail
      <4>. QED  BY <2>1, <4>1, <4>2
    <3>. QED  BY <3>1
  <2>5. Places(queue, Erring) # {} <=> Places(queue', Erring) # {} \/ queue[1] \in Erring
    <3>1. /\ DOMAIN queue = 1..Len(queue) /\ DOMAIN queue' = 1..(Len(queue) - 1)
          /\ Len(queue) \in Nat \ {0}
          /\ \A i \in DOMAIN queue' : queue'[i] = queue[i + 1]
      BY <1>0, <2>1, TailShape
    <3>2. \A i \in DOMAIN queue : i = 1 \/ (i - 1 \in DOMAIN queue' /\ queue'[i - 1] = queue[i])
      BY <3>1
    <3>3. \A i \in DOMAIN queue' : i + 1 \in DOMAIN queue
      BY <3>1
    <3>. QED  BY <2>1, <3>1, <3>2, <3>3 DEF Places
  <2>6. /\ truth.ok = vm.ok + Cardinality(Places(queue, OkFiles))
        /\ truth.other = vm.other + Cardinality(Places(queue, BadFiles))
        /\ truth.erred <=> vm.errors \/ Places(queue, Erring) # {}
    BY DEF Tally
  <2>7. truth.ok = vm'.ok + Cardinality(Places(queue', OkFiles))
    <3>1. /\ Cardinality(Places(queue', OkFiles)) \in Nat
          /\ Cardinality(Places(queue, OkFiles)) =
                 Cardinality(Places(queue', OkFiles)) + IF queue[1] \in OkFiles THEN 1 ELSE 0
      BY <2>4
    <3>2. /\ truth.ok = vm.ok + Cardinality(Places(queue, OkFiles))
          /\ vm'.ok = vm.ok + (IF queue[1] \in OkFiles THEN 1 ELSE 0)
          /\ vm.ok \in Nat
      BY <1>0, <2>3, <2>6
    <3>. QED  BY <3>1, <3>2
  <2>8. truth.other = vm'.other + Cardinality(Places(queue', BadFiles))
    <3>1. /\ Cardinality(Places(queue', BadFiles)) \in Nat
          /\ Cardinality(Places(queue, BadFiles)) =
                 Cardinality(Places(queue', BadFiles)) + IF queue[1] \in BadFiles THEN 1 ELSE 0
      BY <2>4
    <3>2. /\ truth.other = vm.other + Cardinality(Places(queue, BadFiles))
          /\ vm'.other = vm.other + (IF queue[1] \in BadFiles THEN 1 ELSE 0)
          /\ vm.other \in Nat
      BY <1>0, <2>3, <2>6
    <3>. QED  BY <3>1, <3>2
  <2>. QED  BY <2>3, <2>5, <2>6, <2>7, <2>8
<1>4. CASE UpdateIdle \/ MainStep \/ UNCHANGED vars
  <2>1. UNCHANGED <<front, queue, vm, truth>>
    BY <1>4 DEF UpdateIdle, MainStep, Look, Join, PrintSummary, vars, updater
  <2>. QED  BY <2>1 DEF Tally, Undisturbed
<1>. QED  BY <1>1, <1>2, <1>3, <1>4 DEF Next, UpdaterStep

LEMMA LastWordStep ==
    ASSUME Shape, OneRun, LastWord, [Next]_vars
    PROVE  LastWord'
<1>0. /\ queue \in Seq(Event) /\ Len(queue) \in Nat /\ DOMAIN queue = 1..Len(queue)
      /\ Sound(vm) /\ vm \in Model
  BY DEF Shape, Sound
<1>1. ASSUME PipelineStep \/ Cancel \/ Reset
      PROVE  LastWord'
  <2>0. UNCHANGED <<front, vm, shown, cli>>
    BY <1>1, Publishes DEF updater, main
  <2>1. CASE Silent
    <3>1. at \notin {"idle", "over"} /\ at' # "failing" /\ queue' = queue
      BY <2>1 DEF Silent
    <3>2. Undisturbed' <=> Undisturbed
      BY <2>0, <2>1, SilentFacts DEF Undisturbed
    <3>. QED  BY <2>0, <3>1, <3>2 DEF LastWord
  <2>2. ASSUME NEW e \in Event, Publish(e), Course(e)
        PROVE  LastWord'
    <3>. SUFFICES ASSUME Undisturbed'
                  PROVE  LastWord'
      BY DEF LastWord
    <3>1. /\ Undisturbed /\ queue' = Append(queue, e)
          /\ e.kind \notin {"reset", "cancelled"} /\ e \notin Fatal
      BY <2>0, <2>2, PublishFacts DEF Undisturbed, Course
    <3>2. at # "over" /\ at' # "failing" /\ (e.kind = "completed" => at' = "over")
      BY <2>2, <3>1 DEF Course, LastWord
    <3>3. /\ DOMAIN queue' = 1..(Len(queue) + 1) /\ Len(queue') = Len(queue) + 1
          /\ \A i \in 1..Len(queue) : queue'[i] = queue[i]
          /\ queue'[Len(queue) + 1] = e
      BY <1>0, <3>1, AppendShape
    <3>4. ASSUME NEW i \in DOMAIN queue'
          PROVE  /\ queue'[i].kind # "cancelled" /\ queue'[i] \notin Fatal
                 /\ queue'[i].kind = "completed" => i = Len(queue') /\ at' = "over"
      <4>1. CASE i \in DOMAIN queue
        BY <1>0, <3>1, <3>2, <3>3, <4>1 DEF LastWord
      <4>2. CASE i = Len(queue) + 1
        BY <3>1, <3>2, <3>3, <4>2
      <4>. QED  BY <1>0, <3>3, <4>1, <4>2
    <3>. QED  BY <2>0, <3>1, <3>2, <3>4 DEF LastWord
  <2>. QED  BY <1>1, <2>1, <2>2, Publishes
<1>2. ASSUME NEW resumed \in BOOLEAN, Start(resumed)
      PROVE  LastWord'
  <2>0. ~NewModel.finished
    BY DEF NewModel
  <2>1. UNCHANGED <<front, vm, shown, cli>> /\ at' = "setup"
    BY <1>2, StartFacts DEF updater, main
  <2>2. CASE front = "cli"
    <3>1. queue' = <<>> /\ vm = NewModel /\ shown = NewModel /\ cli = "loop"
      BY <1>2, <2>2, StartFacts DEF OneRun
    <3>2. DOMAIN queue' = {}
      BY <3>1
    <3>. QED  BY <2>0, <2>1, <3>1, <3>2 DEF LastWord
  <2>. QED  BY <2>1, <2>2 DEF LastWord, Undisturbed
<1>3. CASE Update
  <2>. SUFFICES ASSUME Undisturbed
                PROVE  LastWord'
    BY <1>3, UpdateFacts DEF LastWord, Undisturbed
  <2>1. /\ queue # <<>> /\ queue' = Tail(queue) /\ vm' = Apply(vm, queue[1]) /\ queue[1] \in Event
        /\ UNCHANGED <<front, at, cli>>
    BY <1>3, UpdateFacts DEF pipeline, main
  <2>2. /\ DOMAIN queue' = 1..(Len(queue) - 1) /\ Len(queue') = Len(queue) - 1
        /\ Len(queue) \in Nat \ {0} /\ 1 \in DOMAIN queue
        /\ \A i \in DOMAIN queue' : i + 1 \in DOMAIN queue /\ queue'[i] = queue[i + 1]
    BY <1>0, <2>1, TailShape
  <2>3. ~vm.finished /\ ~shown.finished /\ cli \notin {"join", "print", "exit"}
    BY <2>1 DEF LastWord
  <2>4. queue[1].kind # "cancelled" /\ queue[1] \notin Fatal
    BY <2>2 DEF LastWord
  <2>5. vm'.finished => queue' = <<>> /\ at' = "over"
    <3>1. vm'.finished => queue[1].kind = "completed"
      BY <1>0, <2>1, <2>3, <2>4, ApplyFacts
    <3>2. queue[1].kind = "completed" => 1 = Len(queue) /\ at = "over"
      BY <2>2 DEF LastWord
    <3>3. 1 = Len(queue) => queue' = <<>>
      <4>1. queue' \in Seq(Event)
        BY <1>3, UpdateFacts
      <4>2. \A q \in Seq(Event) : q # <<>> => Len(q) # 0
        BY EmptySeq
      <4>3. ASSUME 1 = Len(queue)
            PROVE  Len(queue') = 0
        <5>1. Len(queue') = 1 - 1
          BY <2>2, <4>3
        <5>. QED  BY <5>1
      <4>. QED  BY <4>1, <4>2, <4>3
    <3>. QED  BY <2>1, <3>1, <3>2, <3>3
  <2>6. shown'.finished => shown' = vm'
    <3>1. vm' \in Model /\ front = "cli"
      BY <1>3, UpdateFacts DEF Sound, Undisturbed
    <3>. QED  BY <1>3, <2>3, <3>1, UpdateFacts, SnapshotFacts
  <2>7. ASSUME NEW i \in DOMAIN queue'
        PROVE  /\ queue'[i].kind # "cancelled" /\ queue'[i] \notin Fatal
               /\ queue'[i].kind = "completed" => i = Len(queue') /\ at' = "over"
    <3>1. /\ queue[i + 1].kind # "cancelled" /\ queue[i + 1] \notin Fatal
          /\ queue[i + 1].kind = "completed" => i + 1 = Len(queue) /\ at = "over"
      BY <2>2 DEF LastWord
    <3>2. i \in Nat
      BY <2>2
    <3>. QED  BY <2>1, <2>2, <3>1, <3>2
  <2>. QED  BY <2>1, <2>3, <2>5, <2>6, <2>7 DEF LastWord
<1>4. CASE UpdateIdle
  <2>1. UNCHANGED <<front, at, queue, vm, cli, truth>> /\ vm.processing /\ shown' = Snapshot(vm)
    BY <1>4 DEF UpdateIdle, Send, pipeline, main
  <2>2. ~vm.finished
    BY <1>0, <2>1 DEF Sound
  <2>3. front = "cli" => shown' = vm
    BY <1>0, <2>1, SnapshotFacts
  <2>. QED  BY <2>1, <2>2, <2>3 DEF LastWord, Undisturbed
<1>5. CASE MainStep \/ UNCHANGED vars
  BY <1>5 DEF LastWord, Undisturbed, MainStep, Look, Join, PrintSummary, vars, pipeline, updater, main
<1>. QED  BY <1>1, <1>2, <1>3, <1>4, <1>5 DEF Next, UpdaterStep

-----------------------------------------------------------------------------
(* The invariant.                                                           *)

Inv == Shape /\ FilesInOrder /\ CleanCompleted /\ ErrorsKept /\ OneRun /\ Tally /\ LastWord

LEMMA InvInit == Init => Inv
<1>. SUFFICES ASSUME Init PROVE Inv
  OBVIOUS
<1>1. Sound(NewModel) /\ NewModel \in Model /\ ~NewModel.finished /\ NewModel.terminal = "idle"
  BY DEF Sound, NewModel, Model
<1>2. /\ queue = <<>> /\ DOMAIN queue = {} /\ Len(queue) = 0 /\ queue \in Seq(Event)
      /\ vm = NewModel /\ shown = NewModel /\ at = "idle"
  BY DEF Init
<1>3. /\ truth \in Truth /\ truth.ok = 0 /\ truth.other = 0 /\ ~truth.erred
  BY DEF Init, Truth
<1>4. Shape
  <2>1. \A n \in Nat : 0 \in 0..n
    OBVIOUS
  <2>2. 0 \in 0..Total /\ 0 \in 0..MaxNotes /\ 0 \in 0..MaxRuns /\ 0 \in 0..MaxClicks /\ 0 <= Cap
    BY <2>1, TelemetryAssumption
  <2>3. /\ front \in {"cli", "gui"} /\ cli \in {"none", "loop", "join", "print", "exit"}
        /\ printed = NewModel /\ files = 0 /\ notes = 0 /\ runs = 0 /\ clicks = 0
        /\ restoring \in BOOLEAN /\ cancel \in BOOLEAN /\ fresh \in BOOLEAN
    BY DEF Init
  <2>4. truth.ok + truth.other <= files
    BY <1>3, <2>3
  <2>5. Len(queue) <= Cap
    BY <1>2, <2>2
  <2>. QED  BY <1>1, <1>2, <1>3, <2>2, <2>3, <2>4, <2>5 DEF Shape
<1>5. Tally
  BY <1>2, <1>3, TallyStart
<1>6. FilesInOrder /\ CleanCompleted /\ ErrorsKept
  BY <1>1, <1>2, <1>3 DEF FilesInOrder, CleanCompleted, ErrorsKept
<1>7. OneRun
  BY <1>1, <1>2, <1>3 DEF OneRun, Init
<1>8. LastWord
  BY <1>1, <1>2 DEF LastWord, Init
<1>. QED  BY <1>4, <1>5, <1>6, <1>7, <1>8 DEF Inv

LEMMA InvNext == Inv /\ [Next]_vars => Inv'
BY ShapeStep, FilesInOrderStep, CleanCompletedStep, ErrorsKeptStep, OneRunStep, TallyStep,
   LastWordStep DEF Inv

LEMMA Invariance == Spec => []Inv
BY InvInit, InvNext, PTL DEF Spec

-----------------------------------------------------------------------------
(* The theorems.                                                            *)

(* The view model never counts more than its total, is never processing and *)
(* finished at once, and the subscriber's queue keeps its capacity, however *)
(* events are dropped, runs follow each other and the user interferes       *)
(* (apply_event in view_models.rs, try_send in events.rs).                  *)
THEOREM TelemetryTypes == Spec => []TypeOK
<1>1. Inv => TypeOK
  <2>. SUFFICES ASSUME Shape PROVE TypeOK
    BY DEF Inv
  <2>1. truth.ok \in 0..Total /\ truth.other \in 0..Total
    BY TelemetryAssumption DEF Shape, Truth
  <2>2. truth \in [ok : 0..Total, other : 0..Total, erred : BOOLEAN, fatal : BOOLEAN,
                   cancelled : BOOLEAN, dropped : BOOLEAN, unended : BOOLEAN, phase : BOOLEAN]
    BY <2>1 DEF Shape, Truth
  <2>. QED  BY <2>2 DEF Shape, Sound, TypeOK
<1>. QED  BY <1>1, Invariance, PTL

(* When the updater has applied every event and none was dropped, a view    *)
(* model that says "completed" follows no error and no warning since the    *)
(* last reset: apply_event keeps has_errors through phases, cancels and     *)
(* further runs, and only a phase can come between a RunCompleted and the   *)
(* next FileProcessed, since the pipeline announces Scanning first.         *)
THEOREM SuccessesAreClean == Spec => []SuccessIsClean
<1>1. Inv => SuccessIsClean
  BY DEF Inv, CleanCompleted, ErrorsKept, SuccessIsClean
<1>. QED  BY <1>1, Invariance, PTL

(* What the command line prints at the end of a run that was not cancelled, *)
(* met no fatal error and lost no event is what happened: RunCompleted is   *)
(* the last event, so the first finished snapshot - the one the main loop   *)
(* leaves on - already holds the counts of all events, and no later one     *)
(* replaces it before the summary is printed (main.rs).                     *)
THEOREM SummariesAreExact == Spec => []SummaryIsExact
<1>1. Inv => SummaryIsExact
  <2>. SUFFICES ASSUME Inv, cli = "exit", ~(truth.cancelled \/ truth.fatal \/ truth.dropped)
                PROVE  /\ at = "over"
                       /\ printed.ok = truth.ok /\ printed.other = truth.other
                       /\ printed.errors = truth.erred
    BY DEF SummaryIsExact
  <2>1. Undisturbed
    BY DEF Inv, Shape, OneRun, Undisturbed
  <2>2. shown = vm /\ queue = <<>> /\ at = "over"
    BY <2>1 DEF Inv, LastWord
  <2>3. printed = vm
    BY <2>1, <2>2 DEF Inv, OneRun, Undisturbed
  <2>4. ASSUME NEW P
        PROVE  Cardinality(Places(queue, P)) = 0 /\ Places(queue, P) = {}
    BY <2>2, FS_EmptySet DEF Places
  <2>5. truth.ok = vm.ok + 0 /\ truth.other = vm.other + 0 /\ (truth.erred <=> vm.errors)
    BY <2>1, <2>4 DEF Inv, Tally
  <2>6. /\ vm.ok \in Nat /\ vm.other \in Nat /\ vm.errors \in BOOLEAN /\ truth.erred \in BOOLEAN
    BY DEF Inv, Shape, Sound, Model, Truth
  <2>. QED  BY <2>2, <2>3, <2>5, <2>6
<1>. QED  BY <1>1, Invariance, PTL
=============================================================================
