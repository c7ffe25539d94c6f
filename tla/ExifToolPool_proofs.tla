------------------------ MODULE ExifToolPool_proofs ------------------------
(***************************************************************************)
(* Proofs about ExifToolPool: that engines are neither lost nor shared,    *)
(* that the clean-up knows every live process, and that a call succeeds on *)
(* the answer to its own command only, for any number of engines and       *)
(* consumers.                                                              *)
(***************************************************************************)
EXTENDS ExifToolPool, FiniteSetTheorems, TLAPS

-----------------------------------------------------------------------------
(* The inductive invariant, in named parts.                                 *)

WithProcess == {"register", "warm", "write", "read", "drop", "unregister"}

(* Where threads are when, and what they hold there. *)
ThreadOK ==
    /\ \A t \in Threads :
          /\ held[t] # None <=> pc[t] \notin {"idle", "checkout"}
          /\ pc[t] \in WithProcess => Proc(t) # None
          /\ outcome[t] = "error" => pc[t] \in {"drop", "unregister", "giveback"}
          /\ outcome[t] \in {"success", "failure"} => pc[t] = "giveback"
    /\ \A c \in Callers : pc[c] # "idle" => phase = "serve"
    /\ pc[Owner] \notin {"checkout", "count", "write", "read"}
    /\ pc[Owner] \in {"ensure", "register", "warm", "giveback"} => phase = "create"
    /\ pc[Owner] \in {"drop", "unregister"} =>
          IF outcome[Owner] = "error" THEN phase = "create" ELSE phase = "shutdown"

(* An engine is at one place. *)
Alone ==
    /\ \A t, u \in Threads : held[t] # None /\ held[t] = held[u] => t = u
    /\ \A i, j \in DOMAIN pool : pool[i] = pool[j] => i = j
    /\ \A t \in Threads, i \in DOMAIN pool : pool[i] # held[t]

(* No engine is missing while the consumers work. *)
AllThere ==
    phase = "serve" =>
        \A e \in Engines : (\E t \in Threads : held[t] = e) \/ (\E i \in DOMAIN pool : pool[i] = e)

(* A process has one engine; it is gone before the engine lets go of it. *)
OwnProcess ==
    /\ \A e, f \in Engines : slot[e] # None /\ slot[e] = slot[f] => e = f
    /\ \A e \in Engines : slot[e] # None => child[slot[e]] # "free"
    /\ \A p \in Pids : child[p] = "live" => \E e \in Engines : slot[e] = p
    /\ \A t \in Threads : pc[t] = "unregister" => child[Proc(t)] = "gone"

(* The clean-up knows a live process, or is about to hear of it. *)
Known ==
    /\ \A e \in Engines : slot[e] # None /\ child[slot[e]] = "live" =>
          \/ slot[e] \in registered \cup doomed
          \/ \E t \in Threads : held[t] = e /\ pc[t] = "register"
    /\ exit = "no" => doomed = {}

(* The command that a thread waits for. *)
Awaited(t) == IF pc[t] = "warm" THEN <<t, 0>> ELSE Cmd(t)

(* A process that owes an answer to command c: the command is all it has to   *)
(* do, or it has said {ready} and nothing after it; all lines are of c.       *)
InStep(todo, said, c) ==
    /\ \A i \in DOMAIN said : said[i].of = c
    /\ \/ todo = <<c>> /\ \A i \in DOMAIN said : said[i].says # "ready"
       \/ todo = <<>> /\ \A i \in DOMAIN said : said[i].says = "ready" <=> i = Len(said)

(* A process is in step with the thread that waits for it; one that is given  *)
(* up has commands of that thread only; any other has nothing to do and       *)
(* nothing to say.                                                           *)
Dialogue ==
    /\ \A t \in Threads : pc[t] \in {"warm", "read"} =>
          InStep(stdin[Proc(t)], lines[Proc(t)], Awaited(t))
    /\ \A t \in Threads : pc[t] = "drop" => \A i \in DOMAIN stdin[Proc(t)] : stdin[Proc(t)][i][1] = t
    /\ \A e \in Engines :
          slot[e] # None /\ (\A t \in Threads : held[t] = e => pc[t] \notin {"warm", "read", "drop"}) =>
              stdin[slot[e]] = <<>> /\ lines[slot[e]] = <<>>
    /\ \A p \in Pids : child[p] = "free" => stdin[p] = <<>> /\ lines[p] = <<>>

(* What a consumer has read is of its command. *)
OwnAnswer ==
    \A c \in Callers :
        /\ \A l \in got[c] : l.of = Cmd(c)
        /\ got[c] # {} => \/ pc[c] \in {"read", "giveback"}
                          \/ pc[c] \in {"drop", "unregister"} /\ outcome[c] = "error"
        /\ outcome[c] = "success" => got[c] # {}

-----------------------------------------------------------------------------
(* Threads.                                                                 *)

(* The owner is a thread that is not a consumer, and consumers are threads. *)
LEMMA ThreadsSplit ==
    /\ Owner \in Threads /\ Owner \notin Callers
    /\ \A c \in Callers : c \in Threads /\ c # Owner
    /\ \A t \in Threads : t # Owner => t \in Callers
BY PoolAssumption DEF Threads

-----------------------------------------------------------------------------
(* Sequences.                                                               *)

(* Taking the first element moves every other one a place forward. *)
LEMMA TailOf ==
    ASSUME NEW S, NEW s \in Seq(S), s # <<>>
    PROVE  /\ Tail(s) \in Seq(S) /\ Head(s) \in S
           /\ 1 \in DOMAIN s /\ Head(s) = s[1] /\ Len(Tail(s)) = Len(s) - 1 /\ Len(s) \in Nat
           /\ \A i \in DOMAIN Tail(s) : i \in Nat \ {0} /\ i + 1 \in DOMAIN s /\ Tail(s)[i] = s[i + 1]
           /\ \A j \in DOMAIN s : j = 1 \/ (j - 1 \in DOMAIN Tail(s) /\ Tail(s)[j - 1] = s[j])
OBVIOUS

(* An appended element is the last one; the others keep their places. *)
LEMMA AppendOf ==
    ASSUME NEW S, NEW s \in Seq(S), NEW x \in S
    PROVE  /\ Append(s, x) \in Seq(S) /\ Len(s) \in Nat /\ Len(Append(s, x)) = Len(s) + 1
           /\ DOMAIN Append(s, x) = DOMAIN s \cup {Len(s) + 1}
           /\ Append(s, x)[Len(s) + 1] = x
           /\ \A i \in DOMAIN s : i # Len(s) + 1 /\ Append(s, x)[i] = s[i]
OBVIOUS

(* As many different engines as there are engines are all of them. *)
LEMMA FullPool ==
    ASSUME pool \in Seq(Engines), \A i, j \in DOMAIN pool : pool[i] = pool[j] => i = j,
           Len(pool) = Cardinality(Engines)
    PROVE  \A e \in Engines : \E i \in DOMAIN pool : pool[i] = e
<1>. DEFINE at == [i \in 1..Len(pool) |-> pool[i]]
<1>1. Len(pool) \in Nat /\ DOMAIN pool = 1..Len(pool)
  OBVIOUS
<1>2. Cardinality(1..Len(pool)) = Len(pool)
  BY <1>1, FS_Interval
<1>3. at \in Injection(1..Len(pool), Engines)
  BY <1>1 DEF Injection, IsInjective
<1>. HIDE DEF at
<1>4. at \in Surjection(1..Len(pool), Engines)
  BY <1>2, <1>3, PoolAssumption, FS_Injection
<1>. QED  BY <1>1, <1>4 DEF Surjection, at

(* The bound on all calls bounds those of each consumer. *)
LEMMA CallsBounded ==
    ASSUME TypeOK, NEW c \in Callers, Cardinality(Made) < MaxCalls
    PROVE  calls[c] < MaxCalls
<1>1. calls[c] \in 0..MaxCalls /\ MaxCalls \in Nat /\ \A d \in Callers : calls[d] \in 0..MaxCalls
  BY PoolAssumption DEF TypeOK
<1>2. IsFiniteSet(1..MaxCalls) /\ IsFiniteSet(1..calls[c]) /\ Cardinality(1..calls[c]) = calls[c]
  <2>1. 1 \in Int /\ MaxCalls \in Int /\ calls[c] \in Int
    BY <1>1
  <2>2. IsFiniteSet(1..MaxCalls) /\ IsFiniteSet(1..calls[c])
    BY <2>1, FS_Interval
  <2>3. Cardinality(1..calls[c]) = IF 1 > calls[c] THEN 0 ELSE calls[c] - 1 + 1
    BY <2>1, FS_Interval
  <2>. QED  BY <1>1, <2>2, <2>3
<1>3. IsFiniteSet(Callers \X (1..MaxCalls))
  BY <1>2, PoolAssumption, FS_Product
<1>4. IsFiniteSet(Made)
  BY <1>3, FS_Subset DEF Made
<1>5. Cardinality({c} \X (1..calls[c])) = calls[c]
  <2>1. IsFiniteSet({c}) /\ Cardinality({c}) = 1
    BY FS_Singleton
  <2>2. Cardinality({c} \X (1..calls[c])) = Cardinality({c}) * Cardinality(1..calls[c])
    BY <1>2, <2>1, FS_Product
  <2>. QED  BY <1>1, <1>2, <2>1, <2>2
<1>6. {c} \X (1..calls[c]) \subseteq Made
  BY <1>1 DEF Made
<1>7. Cardinality({c} \X (1..calls[c])) <= Cardinality(Made) /\ Cardinality(Made) \in Nat
  BY <1>4, <1>6, FS_Subset, FS_CardinalityType
<1>. QED  BY <1>1, <1>5, <1>7

-----------------------------------------------------------------------------
(* Engines and their processes.                                             *)

(* A thread with a process has an engine, and the process is a process. *)
LEMMA ProcType ==
    ASSUME TypeOK, ThreadOK, NEW t \in Threads, pc[t] \in WithProcess
    PROVE  held[t] \in Engines /\ held[t] # None /\ Proc(t) \in Pids /\ Proc(t) # None
BY PoolAssumption, ZenonT(30) DEF TypeOK, ThreadOK, WithProcess, Proc

(* Two threads never use one process. *)
LEMMA SameProc ==
    ASSUME TypeOK, ThreadOK, Alone, OwnProcess, NEW t \in Threads, NEW u \in Threads,
           pc[t] \in WithProcess, pc[u] \in WithProcess, Proc(t) = Proc(u)
    PROVE  t = u
<1>1. /\ held[t] \in Engines /\ held[t] # None /\ held[u] \in Engines
      /\ slot[held[t]] # None /\ slot[held[t]] = slot[held[u]]
  BY ProcType DEF Proc
<1>2. held[t] = held[u]
  BY <1>1 DEF OwnProcess
<1>. QED  BY <1>1, <1>2 DEF Alone

(* A live process with something to do has a thread that waits for it or is  *)
(* about to give it up.                                                      *)
LEMMA Partner ==
    ASSUME TypeOK, OwnProcess, Dialogue, NEW p \in Pids, child[p] = "live", stdin[p] # <<>>
    PROVE  \E t \in Threads : pc[t] \in {"warm", "read", "drop"} /\ Proc(t) = p /\ held[t] \in Engines
<1>1. PICK e \in Engines : slot[e] = p
  BY DEF OwnProcess
<1>2. p # None
  BY PoolAssumption
<1>3. \E t \in Threads : held[t] = e /\ pc[t] \in {"warm", "read", "drop"}
  BY <1>1, <1>2 DEF Dialogue
<1>. QED  BY <1>1, <1>3 DEF Proc

(* What a thread does after it has unregistered a process. *)
LEMMA UnregisterWrites ==
    ASSUME TypeOK, ThreadOK, NEW t \in Threads, Unregister(t)
    PROVE  /\ pc[t] = "unregister" /\ held[t] \in Engines
           /\ slot' = [slot EXCEPT ![held[t]] = None]
           /\ registered' = registered \ {Proc(t)}
           /\ \/ outcome[t] = "error" /\ pc' = [pc EXCEPT ![t] = "giveback"] /\ held' = held
              \/ /\ outcome[t] # "error" /\ t = Owner
                 /\ pc' = [pc EXCEPT ![t] = "idle"] /\ held' = [held EXCEPT ![t] = None]
              \/ /\ outcome[t] # "error" /\ t \in Callers
                 /\ pc' = [pc EXCEPT ![t] = "ensure"] /\ held' = held
           /\ UNCHANGED <<phase, pool, ops, calls, got, outcome, child, stdin, lines, spoke, doomed,
                          exit, deaths>>
<1>1. pc[t] = "unregister" /\ held[t] \in Engines
  BY PoolAssumption DEF TypeOK, ThreadOK, Unregister, At
<1>2. t = Owner \/ t \in Callers
  BY ThreadsSplit
<1>. QED  BY <1>1, <1>2 DEF Unregister, Goto, Proc, os, exiting

-----------------------------------------------------------------------------
(* The dialogue with a process.                                             *)

(* It begins with a command to a silent process. *)
LEMMA InStepBegin ==
    ASSUME NEW c
    PROVE  InStep(Append(<<>>, c), <<>>, c)
BY DEF InStep

(* A line other than {ready} leaves the rest in step. *)
LEMMA InStepLine ==
    ASSUME NEW todo, NEW said \in Seq(Line), NEW c, InStep(todo, said, c), said # <<>>,
           Head(said).says # "ready"
    PROVE  InStep(todo, Tail(said), c)
<1>1. /\ Len(Tail(said)) = Len(said) - 1 /\ Len(said) \in Nat
      /\ \A i \in DOMAIN Tail(said) : i \in Nat \ {0} /\ i + 1 \in DOMAIN said /\ Tail(said)[i] = said[i + 1]
  BY TailOf
<1>. QED  BY <1>1 DEF InStep

(* With {ready} the process has nothing left to do or to say. *)
LEMMA InStepEnd ==
    ASSUME NEW todo, NEW said \in Seq(Line), NEW c, InStep(todo, said, c), said # <<>>,
           Head(said).says = "ready"
    PROVE  todo = <<>> /\ Tail(said) = <<>>
<1>1. 1 \in DOMAIN said /\ Head(said) = said[1]
  BY TailOf
<1>2. todo = <<>> /\ 1 = Len(said)
  BY <1>1 DEF InStep
<1>. DEFINE rest == Tail(said)
<1>3. rest \in Seq(Line) /\ Len(rest) = 0
  BY <1>2, TailOf
<1>. HIDE DEF rest
<1>4. rest = <<>>
  BY <1>3
<1>. QED  BY <1>2, <1>4 DEF rest

(* An answer is of the command, and {ready} ends it. *)
LEMMA InStepSay ==
    ASSUME NEW todo, NEW said \in Seq(Line), NEW c, InStep(todo, said, c), todo # <<>>, NEW says \in Says,
           c \in Request
    PROVE  /\ Head(todo) = c /\ Tail(todo) = <<>>
           /\ says # "ready" => InStep(todo, Append(said, [of |-> c, says |-> says]), c)
           /\ says = "ready" => InStep(<<>>, Append(said, [of |-> c, says |-> says]), c)
<1>. DEFINE line == [of |-> c, says |-> says]
            more == Append(said, line)
<1>1. todo = <<c>> /\ \A i \in DOMAIN said : said[i].of = c /\ said[i].says # "ready"
  BY DEF InStep
<1>2. line \in Line /\ line.of = c /\ line.says = says
  BY DEF Line
<1>. HIDE DEF line
<1>3. /\ Len(said) \in Nat /\ Len(more) = Len(said) + 1 /\ DOMAIN more = DOMAIN said \cup {Len(said) + 1}
      /\ more[Len(said) + 1] = line
      /\ \A i \in DOMAIN said : i # Len(said) + 1 /\ more[i] = said[i]
  BY <1>2, AppendOf
<1>. HIDE DEF more
<1>4. \A i \in DOMAIN more : more[i].of = c /\ (more[i].says = "ready" <=> says = "ready" /\ i = Len(more))
  BY <1>1, <1>2, <1>3
<1>5. Head(todo) = c /\ Tail(todo) = <<>>
  BY <1>1
<1>6. says # "ready" => InStep(todo, more, c)
  BY <1>1, <1>4 DEF InStep
<1>7. says = "ready" => InStep(<<>>, more, c)
  BY <1>4 DEF InStep
<1>. QED  BY <1>5, <1>6, <1>7 DEF more, line

(* The commands of a process in step are of the thread that waits. *)
LEMMA InStepOwn ==
    ASSUME NEW todo, NEW said, NEW t \in Threads, InStep(todo, said, Awaited(t))
    PROVE  \A i \in DOMAIN todo : todo[i][1] = t
<1>1. Awaited(t)[1] = t
  BY DEF Awaited, Cmd
<1>. QED  BY <1>1 DEF InStep

(* Steps that leave the processes alone: nobody begins to wait, and who      *)
(* waited goes on or gives up.                                               *)
LEMMA DialogueFrame ==
    ASSUME Dialogue, UNCHANGED <<slot, child, stdin, lines>>,
           \A t \in Threads : pc'[t] \in {"warm", "read"} =>
              pc'[t] = pc[t] /\ held'[t] = held[t] /\ Cmd(t)' = Cmd(t),
           \A t \in Threads : pc'[t] = "drop" =>
              \/ pc[t] \in {"warm", "read", "drop"} /\ held'[t] = held[t]
              \/ /\ held'[t] \in Engines /\ slot[held'[t]] # None
                 /\ \A u \in Threads : held[u] = held'[t] => pc[u] \notin {"warm", "read", "drop"},
           \A t \in Threads : pc[t] \in {"warm", "read", "drop"} =>
              held'[t] = held[t] /\ pc'[t] \in {"warm", "read", "drop"}
    PROVE  Dialogue'
<1>1. ASSUME NEW t \in Threads, pc'[t] \in {"warm", "read"}
      PROVE  InStep(stdin[Proc(t)], lines[Proc(t)], Awaited(t))'
  <2>1. Proc(t)' = Proc(t) /\ Awaited(t)' = Awaited(t)
    BY <1>1 DEF Proc, Awaited
  <2>2. InStep(stdin[Proc(t)], lines[Proc(t)], Awaited(t))
    BY <1>1 DEF Dialogue
  <2>. QED  BY <2>1, <2>2 DEF InStep
<1>2. ASSUME NEW t \in Threads, pc'[t] = "drop"
      PROVE  \A i \in DOMAIN stdin[Proc(t)'] : stdin[Proc(t)'][i][1] = t
  <2>1. CASE pc[t] \in {"warm", "read"} /\ held'[t] = held[t]
    <3>1. InStep(stdin[Proc(t)], lines[Proc(t)], Awaited(t)) /\ Proc(t)' = Proc(t)
      BY <2>1 DEF Dialogue, Proc
    <3>. QED  BY <3>1, InStepOwn
  <2>2. CASE pc[t] = "drop" /\ held'[t] = held[t]
    BY <2>2 DEF Dialogue, Proc
  <2>3. CASE /\ held'[t] \in Engines /\ slot[held'[t]] # None
             /\ \A u \in Threads : held[u] = held'[t] => pc[u] \notin {"warm", "read", "drop"}
    <3>1. stdin[Proc(t)'] = <<>>
      BY <2>3 DEF Dialogue, Proc
    <3>. QED  BY <3>1
  <2>. QED  BY <1>2, <2>1, <2>2, <2>3
<1>3. ASSUME NEW e \in Engines, slot[e] # None,
             \A t \in Threads : held'[t] = e => pc'[t] \notin {"warm", "read", "drop"}
      PROVE  stdin[slot[e]] = <<>> /\ lines[slot[e]] = <<>>
  <2>1. \A t \in Threads : held[t] = e => pc[t] \notin {"warm", "read", "drop"}
    BY <1>3
  <2>. QED  BY <1>3, <2>1 DEF Dialogue
<1>. QED  BY <1>1, <1>2, <1>3 DEF Dialogue

-----------------------------------------------------------------------------
(* The parts of the invariant, step by step.                                *)

(* Every step keeps the types.                                              *)
LEMMA TypeStep ==
    ASSUME TypeOK, ThreadOK, Next
    PROVE  TypeOK'
<1>. USE PoolAssumption, ThreadsSplit
<1>1. ASSUME NEW e \in Engines, CreateEngine(e)
     PROVE  TypeOK'
  BY <1>1 DEF TypeOK, ThreadOK, Proc, WithProcess, Threads, Pc, CreateEngine, At, Goto, engines, os,
       exiting
<1>2. ASSUME PoolComplete
     PROVE  TypeOK'
  BY <1>2 DEF TypeOK, PoolComplete, At, engines, threads, os, exiting
<1>3. ASSUME NEW c \in Callers, Call(c)
     PROVE  TypeOK'
  <2>1. calls[c] < MaxCalls /\ calls[c] \in 0..MaxCalls /\ MaxCalls \in Nat
    BY <1>3, CallsBounded DEF Call, TypeOK
  <2>. QED  BY <1>3, <2>1 DEF TypeOK, Call, At, Goto, engines, os, exiting, Pc
<1>4. ASSUME NEW c \in Callers, Checkout(c)
     PROVE  TypeOK'
  BY <1>4 DEF TypeOK, ThreadOK, Proc, WithProcess, Threads, Pc, Checkout, At, Goto, os, exiting
<1>5. ASSUME NEW c \in Callers, CheckoutTimeout(c)
     PROVE  TypeOK'
  BY <1>5 DEF TypeOK, ThreadOK, Proc, WithProcess, Threads, Pc, CheckoutTimeout, At, Goto, engines,
       os, exiting
<1>6. ASSUME NEW c \in Callers, CountOp(c)
     PROVE  TypeOK'
  BY <1>6 DEF TypeOK, ThreadOK, Proc, WithProcess, Threads, Pc, CountOp, At, Goto, os, exiting
<1>7. ASSUME NEW t \in Threads, NEW p \in Pids, Spawn(t, p)
     PROVE  TypeOK'
  BY <1>7 DEF TypeOK, ThreadOK, Proc, WithProcess, Threads, Pc, Spawn, At, Goto, exiting
<1>8. ASSUME NEW t \in Threads, SpawnFails(t)
     PROVE  TypeOK'
  BY <1>8 DEF TypeOK, ThreadOK, Proc, WithProcess, Threads, Pc, SpawnFails, At, Goto, End, engines,
       os, exiting
<1>9. ASSUME NEW t \in Threads, Register(t)
     PROVE  TypeOK'
  <2>1. Proc(t) \in Pids /\ <<t, 0>> \in Request
    BY <1>9, ProcType DEF TypeOK, Register, At, WithProcess, Cmd, Request
  <2>2. stdin' \in [Pids -> Seq(Request)]
    <3>1. CASE child[Proc(t)] = "live"
      <4>1. stdin' = [stdin EXCEPT ![Proc(t)] = Append(@, <<t, 0>>)]
        BY <1>9, <3>1 DEF Register, WriteCmd
      <4>2. stdin[Proc(t)] \in Seq(Request)
        BY <2>1 DEF TypeOK
      <4>3. Append(stdin[Proc(t)], <<t, 0>>) \in Seq(Request)
        BY <2>1, <4>2, AppendOf
      <4>. QED  BY <4>1, <4>3 DEF TypeOK
    <3>2. CASE child[Proc(t)] # "live"
      BY <1>9, <3>2 DEF Register, WriteCmd, TypeOK
    <3>. QED  BY <3>1, <3>2
  <2>3. pc' \in [Threads -> Pc] /\ outcome' \in [Threads -> {"none", "success", "failure", "error"}]
    BY <1>9 DEF Register, WriteCmd, Goto, End, TypeOK, Pc
  <2>. QED  BY <1>9, <2>1, <2>2, <2>3 DEF TypeOK, Register, engines, exiting
<1>10. ASSUME NEW t \in Threads, WarmLine(t)
      PROVE  TypeOK'
  <2>1. /\ Proc(t) \in Pids /\ lines[Proc(t)] \in Seq(Line) /\ lines[Proc(t)] # <<>>
        /\ lines' = [lines EXCEPT ![Proc(t)] = Tail(lines[Proc(t)])]
    BY <1>10, ProcType DEF TypeOK, WarmLine, At, WithProcess, HasLine, TakeLine
  <2>2. Tail(lines[Proc(t)]) \in Seq(Line) /\ NextLine(t) \in Line
    BY <2>1, TailOf DEF NextLine
  <2>3. lines' \in [Pids -> Seq(Line)]
    BY <2>1, <2>2 DEF TypeOK
  <2>4. pc' \in [Threads -> Pc]
    BY <1>10 DEF WarmLine, Goto, TypeOK, Pc
  <2>. QED  BY <1>10, <2>3, <2>4 DEF TypeOK, WarmLine, engines, exiting
<1>11. ASSUME NEW c \in Callers, SendCommand(c)
      PROVE  TypeOK'
  <2>1. Proc(c) \in Pids /\ Cmd(c) \in Request
    BY <1>11, ProcType DEF TypeOK, SendCommand, At, WithProcess, Cmd, Request
  <2>2. stdin' \in [Pids -> Seq(Request)]
    <3>1. CASE child[Proc(c)] = "live"
      <4>1. stdin' = [stdin EXCEPT ![Proc(c)] = Append(@, Cmd(c))]
        BY <1>11, <3>1 DEF SendCommand, WriteCmd
      <4>2. stdin[Proc(c)] \in Seq(Request)
        BY <2>1 DEF TypeOK
      <4>3. Append(stdin[Proc(c)], Cmd(c)) \in Seq(Request)
        BY <2>1, <4>2, AppendOf
      <4>. QED  BY <4>1, <4>3 DEF TypeOK
    <3>2. CASE child[Proc(c)] # "live"
      BY <1>11, <3>2 DEF SendCommand, WriteCmd, TypeOK
    <3>. QED  BY <3>1, <3>2
  <2>3. pc' \in [Threads -> Pc] /\ outcome' \in [Threads -> {"none", "success", "failure", "error"}]
    BY <1>11 DEF SendCommand, WriteCmd, Goto, End, TypeOK, Pc
  <2>. QED  BY <1>11, <2>1, <2>2, <2>3 DEF TypeOK, SendCommand, engines, exiting
<1>12. ASSUME NEW c \in Callers, ReadLine(c)
      PROVE  TypeOK'
  <2>1. /\ Proc(c) \in Pids /\ lines[Proc(c)] \in Seq(Line) /\ lines[Proc(c)] # <<>>
        /\ lines' = [lines EXCEPT ![Proc(c)] = Tail(lines[Proc(c)])]
    BY <1>12, ProcType DEF TypeOK, ReadLine, At, WithProcess, HasLine, TakeLine
  <2>2. Tail(lines[Proc(c)]) \in Seq(Line) /\ NextLine(c) \in Line
    BY <2>1, TailOf DEF NextLine
  <2>3. lines' \in [Pids -> Seq(Line)]
    BY <2>1, <2>2 DEF TypeOK
  <2>4. /\ pc' \in [Threads -> Pc] /\ got' \in [Callers -> SUBSET Line]
        /\ outcome' \in [Threads -> {"none", "success", "failure", "error"}]
    <3>1. CASE NextLine(c).says # "ready"
      <4>1. got' = [got EXCEPT ![c] = @ \cup {NextLine(c)}] /\ pc' = pc /\ outcome' = outcome
        BY <1>12, <3>1 DEF ReadLine
      <4>. QED  BY <2>2, <4>1 DEF TypeOK
    <3>2. CASE NextLine(c).says = "ready"
      <4>1. /\ got' = got /\ pc' = [pc EXCEPT ![c] = "giveback"]
            /\ outcome' = [outcome EXCEPT ![c] = Parse(got[c])]
        BY <1>12, <3>2 DEF ReadLine, Goto, End
      <4>2. Parse(got[c]) \in {"success", "failure"}
        BY DEF Parse
      <4>. QED  BY <4>1, <4>2 DEF TypeOK, Pc
    <3>. QED  BY <3>1, <3>2
  <2>. QED  BY <1>12, <2>3, <2>4 DEF TypeOK, ReadLine, engines, exiting
<1>13. ASSUME NEW t \in Threads, ReadFails(t)
      PROVE  TypeOK'
  BY <1>13 DEF TypeOK, ThreadOK, Proc, WithProcess, Threads, Pc, ReadFails, Goto, End, HasLine,
       engines, os, exiting
<1>14. ASSUME NEW t \in Threads, DropProcess(t)
      PROVE  TypeOK'
  BY <1>14 DEF TypeOK, ThreadOK, Proc, WithProcess, Threads, Pc, DropProcess, At, Goto, engines,
       exiting
<1>15. ASSUME NEW t \in Threads, Unregister(t)
      PROVE  TypeOK'
  <2>1. /\ slot' = [slot EXCEPT ![held[t]] = None] /\ held[t] \in Engines
        /\ registered' = registered \ {Proc(t)}
        /\ \E l \in {"giveback", "idle", "ensure"} : pc' = [pc EXCEPT ![t] = l]
        /\ held' = held \/ held' = [held EXCEPT ![t] = None]
    BY <1>15, UnregisterWrites
  <2>2. slot' \in [Engines -> Pids \cup {None}] /\ registered' \subseteq Pids
    BY <2>1 DEF TypeOK
  <2>3. pc' \in [Threads -> Pc]
    BY <2>1 DEF TypeOK, Pc
  <2>4. held' \in [Threads -> Engines \cup {None}]
    <3>1. held \in [Threads -> Engines \cup {None}]
      BY DEF TypeOK
    <3>2. CASE held' = held
      BY <3>1, <3>2
    <3>3. CASE held' = [held EXCEPT ![t] = None]
      BY <3>1, <3>3
    <3>. QED  BY <2>1, <3>2, <3>3
  <2>5. UNCHANGED <<phase, pool, ops, calls, got, outcome, child, stdin, lines, spoke, doomed, exit, deaths>>
    BY <1>15, UnregisterWrites
  <2>6. /\ phase \in {"create", "serve", "shutdown", "over"} /\ pool \in Seq(Engines)
        /\ ops \in [Engines -> 0..OpLimit] /\ calls \in [Callers -> 0..MaxCalls]
        /\ got \in [Callers -> SUBSET Line]
        /\ outcome \in [Threads -> {"none", "success", "failure", "error"}]
        /\ child \in [Pids -> {"free", "live", "dead", "gone"}]
        /\ stdin \in [Pids -> Seq(Request)] /\ lines \in [Pids -> Seq(Line)] /\ spoke \in [Pids -> BOOLEAN]
        /\ doomed \subseteq Pids /\ exit \in {"no", "killing", "exited"} /\ deaths \in 0..MaxDeaths
    BY DEF TypeOK
  <2>. QED  BY <2>2, <2>3, <2>4, <2>5, <2>6, Zenon DEF TypeOK
<1>16. ASSUME NEW t \in Threads, GiveBack(t)
      PROVE  TypeOK'
  BY <1>16 DEF TypeOK, ThreadOK, Proc, WithProcess, Threads, Pc, GiveBack, At, Goto, Return, End,
       os, exiting
<1>17. ASSUME BeginShutdown
      PROVE  TypeOK'
  BY <1>17 DEF TypeOK, BeginShutdown, At, engines, threads, os, exiting
<1>18. ASSUME ShutdownEngine
      PROVE  TypeOK'
  BY <1>18 DEF TypeOK, ThreadOK, Proc, WithProcess, Threads, Pc, ShutdownEngine, At, Goto, os,
       exiting
<1>19. ASSUME ShutdownDone
      PROVE  TypeOK'
  BY <1>19 DEF TypeOK, ShutdownDone, At, engines, threads, os, exiting
<1>20. ASSUME NEW p \in Pids, NEW s \in Answers, Answer(p, s)
      PROVE  TypeOK'
  <2>1. lines[p] \in Seq(Line) /\ stdin[p] \in Seq(Request) /\ stdin[p] # <<>>
    BY <1>20 DEF TypeOK, Answer
  <2>2. Head(stdin[p]) \in Request /\ Tail(stdin[p]) \in Seq(Request)
    BY <2>1, TailOf
  <2>3. [of |-> Head(stdin[p]), says |-> s] \in Line
    BY <2>2 DEF Line, Says
  <2>4. Append(lines[p], [of |-> Head(stdin[p]), says |-> s]) \in Seq(Line)
    BY <2>1, <2>3, AppendOf
  <2>5. lines' \in [Pids -> Seq(Line)]
    BY <1>20, <2>4 DEF TypeOK, Answer, Emit
  <2>. QED  BY <1>20, <2>2, <2>5 DEF TypeOK, Answer, engines, threads, exiting
<1>21. ASSUME NEW p \in Pids, Ready(p)
      PROVE  TypeOK'
  <2>1. lines[p] \in Seq(Line) /\ stdin[p] \in Seq(Request) /\ stdin[p] # <<>>
    BY <1>21 DEF TypeOK, Ready
  <2>2. Head(stdin[p]) \in Request /\ Tail(stdin[p]) \in Seq(Request)
    BY <2>1, TailOf
  <2>3. [of |-> Head(stdin[p]), says |-> "ready"] \in Line
    BY <2>2 DEF Line, Says
  <2>4. Append(lines[p], [of |-> Head(stdin[p]), says |-> "ready"]) \in Seq(Line)
    BY <2>1, <2>3, AppendOf
  <2>5. lines' \in [Pids -> Seq(Line)]
    BY <1>21, <2>4 DEF TypeOK, Ready, Emit
  <2>. QED  BY <1>21, <2>2, <2>5 DEF TypeOK, Ready, engines, threads, exiting
<1>22. ASSUME NEW p \in Pids, ProcessDies(p)
      PROVE  TypeOK'
  BY <1>22 DEF TypeOK, ProcessDies, engines, threads, exiting
<1>23. ASSUME CleanupBegin
      PROVE  TypeOK'
  BY <1>23 DEF TypeOK, CleanupBegin, engines, threads, os
<1>24. ASSUME NEW p \in Pids, CleanupKill(p)
      PROVE  TypeOK'
  BY <1>24 DEF TypeOK, CleanupKill, engines, threads
<1>25. ASSUME Exit
      PROVE  TypeOK'
  BY <1>25 DEF TypeOK, Exit, engines, threads, os
<1>. QED
  BY <1>1, <1>2, <1>3, <1>4, <1>5, <1>6, <1>7, <1>8, <1>9, <1>10, <1>11, <1>12, <1>13,
     <1>14, <1>15, <1>16, <1>17, <1>18, <1>19, <1>20, <1>21, <1>22, <1>23, <1>24, <1>25
     DEF Next, ThreadStep, CallerStep, OwnerStep, EngineStep

(* Threads hold what they need.                                             *)
LEMMA ThreadOKStep ==
    ASSUME TypeOK, ThreadOK, Alone, Next
    PROVE  ThreadOK'
<1>. USE PoolAssumption, ThreadsSplit
<1>1. ASSUME NEW e \in Engines, CreateEngine(e)
     PROVE  ThreadOK'
  BY <1>1 DEF TypeOK, ThreadOK, Proc, WithProcess, CreateEngine, At, Goto, engines, os, exiting
<1>2. ASSUME PoolComplete
     PROVE  ThreadOK'
  BY <1>2 DEF ThreadOK, Proc, WithProcess, PoolComplete, At, engines, threads, os, exiting
<1>3. ASSUME NEW c \in Callers, Call(c)
     PROVE  ThreadOK'
  BY <1>3 DEF ThreadOK, Proc, WithProcess, Call, At, Goto, engines, os, exiting
<1>4. ASSUME NEW c \in Callers, Checkout(c)
     PROVE  ThreadOK'
  BY <1>4 DEF TypeOK, ThreadOK, Proc, WithProcess, Checkout, At, Goto, os, exiting
<1>5. ASSUME NEW c \in Callers, CheckoutTimeout(c)
     PROVE  ThreadOK'
  BY <1>5 DEF ThreadOK, Proc, WithProcess, CheckoutTimeout, At, Goto, engines, os, exiting
<1>6. ASSUME NEW c \in Callers, CountOp(c)
     PROVE  ThreadOK'
  BY <1>6 DEF ThreadOK, Proc, WithProcess, CountOp, At, Goto, os, exiting
<1>7. ASSUME NEW t \in Threads, NEW p \in Pids, Spawn(t, p)
     PROVE  ThreadOK'
  BY <1>7 DEF TypeOK, ThreadOK, Proc, WithProcess, Spawn, At, Goto, exiting
<1>8. ASSUME NEW t \in Threads, SpawnFails(t)
     PROVE  ThreadOK'
  BY <1>8 DEF TypeOK, ThreadOK, Proc, WithProcess, SpawnFails, At, Goto, End, engines, os, exiting
<1>9. ASSUME NEW t \in Threads, Register(t)
     PROVE  ThreadOK'
  BY <1>9 DEF TypeOK, ThreadOK, Proc, WithProcess, Register, At, Goto, End, WriteCmd, engines,
       exiting
<1>10. ASSUME NEW t \in Threads, WarmLine(t)
      PROVE  ThreadOK'
  BY <1>10 DEF TypeOK, ThreadOK, Proc, WithProcess, WarmLine, At, Goto, HasLine, NextLine, TakeLine,
       engines, exiting
<1>11. ASSUME NEW c \in Callers, SendCommand(c)
      PROVE  ThreadOK'
  BY <1>11 DEF TypeOK, ThreadOK, Proc, WithProcess, SendCommand, At, Goto, End, WriteCmd, engines,
       exiting
<1>12. ASSUME NEW c \in Callers, ReadLine(c)
      PROVE  ThreadOK'
  BY <1>12 DEF TypeOK, ThreadOK, Proc, WithProcess, ReadLine, At, Goto, End, HasLine, NextLine,
       TakeLine, engines, exiting
<1>13. ASSUME NEW t \in Threads, ReadFails(t)
      PROVE  ThreadOK'
  BY <1>13 DEF TypeOK, ThreadOK, Proc, WithProcess, ReadFails, Goto, End, HasLine, engines, os,
       exiting
<1>14. ASSUME NEW t \in Threads, DropProcess(t)
      PROVE  ThreadOK'
  BY <1>14 DEF ThreadOK, Proc, WithProcess, DropProcess, At, Goto, engines, exiting
<1>15. ASSUME NEW t \in Threads, Unregister(t)
      PROVE  ThreadOK'
  <2>0. /\ held' = held \/ held' = [held EXCEPT ![t] = None]
        /\ \E l \in Pc : pc' = [pc EXCEPT ![t] = l]
        /\ outcome' = outcome
    BY <1>15, UnregisterWrites DEF Pc
  <2>1. \A u \in Threads \ {t} : held'[u] = held[u] /\ pc'[u] = pc[u] /\ outcome'[u] = outcome[u]
    BY <2>0 DEF TypeOK
  <2>2. \A u \in Threads \ {t} : pc[u] \in WithProcess => Proc(u)' = Proc(u)
    BY <1>15, <2>1, UnregisterWrites, ProcType DEF TypeOK, Alone, Proc
  <2>3. /\ pc'[t] \in {"giveback", "idle", "ensure"} /\ outcome'[t] = outcome[t]
        /\ pc[t] = "unregister" /\ phase' = phase
    BY <1>15, UnregisterWrites DEF TypeOK
  <2>4. /\ held'[t] # None <=> pc'[t] # "idle"
        /\ outcome'[t] = "error" => pc'[t] = "giveback"
        /\ t = Owner => pc'[t] \in {"giveback", "idle"} /\ (pc'[t] = "giveback" => phase = "create")
        /\ t # Owner => phase = "serve"
    BY <1>15, UnregisterWrites DEF TypeOK, ThreadOK
  <2>. QED  BY <2>1, <2>2, <2>3, <2>4 DEF ThreadOK, WithProcess
<1>16. ASSUME NEW t \in Threads, GiveBack(t)
      PROVE  ThreadOK'
  BY <1>16 DEF TypeOK, ThreadOK, Proc, WithProcess, GiveBack, At, Goto, Return, End, os, exiting
<1>17. ASSUME BeginShutdown
      PROVE  ThreadOK'
  BY <1>17 DEF ThreadOK, Proc, WithProcess, BeginShutdown, At, engines, threads, os, exiting
<1>18. ASSUME ShutdownEngine
      PROVE  ThreadOK'
  BY <1>18 DEF TypeOK, ThreadOK, Proc, WithProcess, ShutdownEngine, At, Goto, os, exiting
<1>19. ASSUME ShutdownDone
      PROVE  ThreadOK'
  BY <1>19 DEF ThreadOK, Proc, WithProcess, ShutdownDone, At, engines, threads, os, exiting
<1>20. ASSUME NEW p \in Pids, NEW s \in Answers, Answer(p, s)
      PROVE  ThreadOK'
  BY <1>20 DEF ThreadOK, Proc, WithProcess, Answer, Emit, engines, threads, exiting
<1>21. ASSUME NEW p \in Pids, Ready(p)
      PROVE  ThreadOK'
  BY <1>21 DEF ThreadOK, Proc, WithProcess, Ready, Emit, engines, threads, exiting
<1>22. ASSUME NEW p \in Pids, ProcessDies(p)
      PROVE  ThreadOK'
  BY <1>22 DEF ThreadOK, Proc, WithProcess, ProcessDies, engines, threads, exiting
<1>23. ASSUME CleanupBegin
      PROVE  ThreadOK'
  BY <1>23 DEF ThreadOK, Proc, WithProcess, CleanupBegin, engines, threads, os
<1>24. ASSUME NEW p \in Pids, CleanupKill(p)
      PROVE  ThreadOK'
  BY <1>24 DEF ThreadOK, Proc, WithProcess, CleanupKill, engines, threads
<1>25. ASSUME Exit
      PROVE  ThreadOK'
  BY <1>25 DEF ThreadOK, Proc, WithProcess, Exit, engines, threads, os
<1>. QED
  BY <1>1, <1>2, <1>3, <1>4, <1>5, <1>6, <1>7, <1>8, <1>9, <1>10, <1>11, <1>12, <1>13,
     <1>14, <1>15, <1>16, <1>17, <1>18, <1>19, <1>20, <1>21, <1>22, <1>23, <1>24, <1>25
     DEF Next, ThreadStep, CallerStep, OwnerStep, EngineStep

(* Engines move from one place to the next.                                 *)
LEMMA AloneStep ==
    ASSUME TypeOK, ThreadOK, Alone, Next
    PROVE  Alone'
<1>. USE PoolAssumption, ThreadsSplit
<1>1. ASSUME NEW e \in Engines, CreateEngine(e)
     PROVE  Alone'
  BY <1>1 DEF TypeOK, ThreadOK, Alone, CreateEngine, At, Goto, engines, os, exiting
<1>2. ASSUME PoolComplete
     PROVE  Alone'
  BY <1>2 DEF Alone, PoolComplete, At, engines, threads, os, exiting
<1>3. ASSUME NEW c \in Callers, Call(c)
     PROVE  Alone'
  BY <1>3 DEF Alone, Call, At, Goto, engines, os, exiting
<1>4. ASSUME NEW c \in Callers, Checkout(c)
     PROVE  Alone'
  <2>1. /\ pool \in Seq(Engines) /\ pool # <<>> /\ pool' = Tail(pool)
        /\ held' = [held EXCEPT ![c] = Head(pool)]
    BY <1>4 DEF TypeOK, Checkout
  <2>2. \A i \in DOMAIN pool' : /\ i \in Nat \ {0} /\ i + 1 \in DOMAIN pool /\ i + 1 # 1
                               /\ pool'[i] = pool[i + 1]
    BY <2>1, TailOf
  <2>3. 1 \in DOMAIN pool /\ Head(pool) = pool[1]
    BY <2>1, TailOf
  <2>4. \A i, j \in DOMAIN pool' : pool'[i] = pool'[j] => i = j
    <3>. TAKE i \in DOMAIN pool', j \in DOMAIN pool'
    <3>1. pool'[i] = pool'[j] => i + 1 = j + 1
      BY <2>2 DEF Alone
    <3>. QED  BY <2>2, <3>1
  <2>5. CASE held' = [held EXCEPT ![c] = Head(pool)]
    <3>1. \A t \in Threads : held'[t] = IF t = c THEN pool[1] ELSE held[t]
      BY <2>3, <2>5 DEF TypeOK
    <3>2. \A t \in Threads, i \in DOMAIN pool' : pool'[i] # held'[t]
      BY <2>2, <2>3, <3>1 DEF Alone
    <3>3. \A t, u \in Threads : held'[t] # None /\ held'[t] = held'[u] => t = u
      BY <2>3, <3>1 DEF Alone
    <3>. QED  BY <2>4, <3>2, <3>3 DEF Alone
  <2>. QED  BY <2>1, <2>5
<1>5. ASSUME NEW c \in Callers, CheckoutTimeout(c)
     PROVE  Alone'
  BY <1>5 DEF Alone, CheckoutTimeout, At, Goto, engines, os, exiting
<1>6. ASSUME NEW c \in Callers, CountOp(c)
     PROVE  Alone'
  BY <1>6 DEF Alone, CountOp, At, Goto, Proc, os, exiting
<1>7. ASSUME NEW t \in Threads, NEW p \in Pids, Spawn(t, p)
     PROVE  Alone'
  BY <1>7 DEF Alone, Spawn, At, Goto, Proc, exiting
<1>8. ASSUME NEW t \in Threads, SpawnFails(t)
     PROVE  Alone'
  BY <1>8 DEF Alone, SpawnFails, At, Goto, Proc, End, engines, os, exiting
<1>9. ASSUME NEW t \in Threads, Register(t)
     PROVE  Alone'
  BY <1>9 DEF Alone, Register, At, Goto, Proc, End, WriteCmd, engines, exiting
<1>10. ASSUME NEW t \in Threads, WarmLine(t)
      PROVE  Alone'
  BY <1>10 DEF Alone, WarmLine, At, Goto, Proc, HasLine, NextLine, TakeLine, engines, exiting
<1>11. ASSUME NEW c \in Callers, SendCommand(c)
      PROVE  Alone'
  BY <1>11 DEF Alone, SendCommand, At, Goto, Proc, End, WriteCmd, engines, exiting
<1>12. ASSUME NEW c \in Callers, ReadLine(c)
      PROVE  Alone'
  BY <1>12 DEF Alone, ReadLine, At, Goto, Proc, End, HasLine, NextLine, TakeLine, engines, exiting
<1>13. ASSUME NEW t \in Threads, ReadFails(t)
      PROVE  Alone'
  BY <1>13 DEF Alone, ReadFails, Goto, Proc, End, HasLine, engines, os, exiting
<1>14. ASSUME NEW t \in Threads, DropProcess(t)
      PROVE  Alone'
  BY <1>14 DEF Alone, DropProcess, At, Goto, Proc, engines, exiting
<1>15. ASSUME NEW t \in Threads, Unregister(t)
      PROVE  Alone'
  <2>1. pool' = pool /\ (held' = held \/ held' = [held EXCEPT ![t] = None])
    BY <1>15, UnregisterWrites
  <2>2. \A u \in Threads : held'[u] = held[u] \/ held'[u] = None
    BY <2>1 DEF TypeOK
  <2>3. \A i \in DOMAIN pool : pool[i] # None
    BY DEF TypeOK
  <2>. QED  BY <2>1, <2>2, <2>3 DEF Alone
<1>16. ASSUME NEW t \in Threads, GiveBack(t)
      PROVE  Alone'
  BY <1>16, SMTT(30) DEF TypeOK, ThreadOK, Alone, GiveBack, At, Goto, Return, End, os, exiting
<1>17. ASSUME BeginShutdown
      PROVE  Alone'
  BY <1>17 DEF Alone, BeginShutdown, At, engines, threads, os, exiting
<1>18. ASSUME ShutdownEngine
      PROVE  Alone'
  <2>1. /\ pool \in Seq(Engines) /\ pool # <<>> /\ pool' = Tail(pool)
        /\ held' = held \/ held' = [held EXCEPT ![Owner] = Head(pool)]
    BY <1>18 DEF TypeOK, ShutdownEngine
  <2>2. \A i \in DOMAIN pool' : /\ i \in Nat \ {0} /\ i + 1 \in DOMAIN pool /\ i + 1 # 1
                               /\ pool'[i] = pool[i + 1]
    BY <2>1, TailOf
  <2>3. 1 \in DOMAIN pool /\ Head(pool) = pool[1]
    BY <2>1, TailOf
  <2>4. \A i, j \in DOMAIN pool' : pool'[i] = pool'[j] => i = j
    <3>. TAKE i \in DOMAIN pool', j \in DOMAIN pool'
    <3>1. pool'[i] = pool'[j] => i + 1 = j + 1
      BY <2>2 DEF Alone
    <3>. QED  BY <2>2, <3>1
  <2>5. CASE held' = held
    BY <2>2, <2>4, <2>5 DEF Alone
  <2>6. CASE held' = [held EXCEPT ![Owner] = Head(pool)]
    <3>1. \A t \in Threads : held'[t] = IF t = Owner THEN pool[1] ELSE held[t]
      BY <2>3, <2>6 DEF TypeOK
    <3>2. \A t \in Threads, i \in DOMAIN pool' : pool'[i] # held'[t]
      BY <2>2, <2>3, <3>1 DEF Alone
    <3>3. \A t, u \in Threads : held'[t] # None /\ held'[t] = held'[u] => t = u
      BY <2>3, <3>1 DEF Alone
    <3>. QED  BY <2>4, <3>2, <3>3 DEF Alone
  <2>. QED  BY <2>1, <2>5, <2>6
<1>19. ASSUME ShutdownDone
      PROVE  Alone'
  BY <1>19 DEF Alone, ShutdownDone, At, engines, threads, os, exiting
<1>20. ASSUME NEW p \in Pids, NEW s \in Answers, Answer(p, s)
      PROVE  Alone'
  BY <1>20 DEF Alone, Answer, Emit, engines, threads, exiting
<1>21. ASSUME NEW p \in Pids, Ready(p)
      PROVE  Alone'
  BY <1>21 DEF Alone, Ready, Emit, engines, threads, exiting
<1>22. ASSUME NEW p \in Pids, ProcessDies(p)
      PROVE  Alone'
  BY <1>22 DEF Alone, ProcessDies, engines, threads, exiting
<1>23. ASSUME CleanupBegin
      PROVE  Alone'
  BY <1>23 DEF Alone, CleanupBegin, engines, threads, os
<1>24. ASSUME NEW p \in Pids, CleanupKill(p)
      PROVE  Alone'
  BY <1>24 DEF Alone, CleanupKill, engines, threads
<1>25. ASSUME Exit
      PROVE  Alone'
  BY <1>25 DEF Alone, Exit, engines, threads, os
<1>. QED
  BY <1>1, <1>2, <1>3, <1>4, <1>5, <1>6, <1>7, <1>8, <1>9, <1>10, <1>11, <1>12, <1>13,
     <1>14, <1>15, <1>16, <1>17, <1>18, <1>19, <1>20, <1>21, <1>22, <1>23, <1>24, <1>25
     DEF Next, ThreadStep, CallerStep, OwnerStep, EngineStep

(* No engine is lost on the way.                                            *)
LEMMA AllThereStep ==
    ASSUME TypeOK, ThreadOK, Alone, AllThere, Next
    PROVE  AllThere'
<1>. USE PoolAssumption, ThreadsSplit
<1>1. ASSUME NEW e \in Engines, CreateEngine(e)
     PROVE  AllThere'
  BY <1>1 DEF AllThere, CreateEngine, At, Goto, engines, os, exiting
<1>2. ASSUME PoolComplete
     PROVE  AllThere'
  <2>1. Len(pool) = Cardinality(Engines) /\ pool' = pool
    BY <1>2 DEF PoolComplete, engines
  <2>2. \A e \in Engines : \E i \in DOMAIN pool : pool[i] = e
    BY <2>1, FullPool DEF TypeOK, Alone
  <2>. QED  BY <2>1, <2>2 DEF AllThere
<1>3. ASSUME NEW c \in Callers, Call(c)
     PROVE  AllThere'
  BY <1>3 DEF AllThere, Call, At, Goto, engines, os, exiting
<1>4. ASSUME NEW c \in Callers, Checkout(c)
     PROVE  AllThere'
  <2>1. /\ pool \in Seq(Engines) /\ pool # <<>> /\ pool' = Tail(pool) /\ phase' = phase
        /\ held' = [held EXCEPT ![c] = Head(pool)] /\ held[c] = None /\ c \in Threads
    BY <1>4 DEF TypeOK, ThreadOK, Checkout, At
  <2>2. \A i \in DOMAIN pool : pool[i] = Head(pool) \/ (i - 1 \in DOMAIN pool' /\ pool'[i - 1] = pool[i])
    BY <2>1, TailOf
  <2>3. held'[c] = Head(pool) /\ \A t \in Threads : held[t] # None => held'[t] = held[t]
    BY <2>1 DEF TypeOK
  <2>4. None \notin Engines
    OBVIOUS
  <2>5. ASSUME NEW e \in Engines, phase = "serve"
        PROVE  (\E t \in Threads : held'[t] = e) \/ (\E i \in DOMAIN pool' : pool'[i] = e)
    <3>1. CASE \E t \in Threads : held[t] = e
      BY <2>3, <2>4, <3>1
    <3>2. CASE \E i \in DOMAIN pool : pool[i] = e
      <4>1. PICK i \in DOMAIN pool : pool[i] = e
        BY <3>2
      <4>2. Head(pool) = e \/ \E j \in DOMAIN pool' : pool'[j] = e
        BY <2>2, <4>1
      <4>. QED  BY <2>1, <2>3, <4>2
    <3>. QED  BY <2>5, <3>1, <3>2 DEF AllThere
  <2>. QED  BY <2>1, <2>5 DEF AllThere
<1>5. ASSUME NEW c \in Callers, CheckoutTimeout(c)
     PROVE  AllThere'
  BY <1>5 DEF AllThere, CheckoutTimeout, At, Goto, engines, os, exiting
<1>6. ASSUME NEW c \in Callers, CountOp(c)
     PROVE  AllThere'
  BY <1>6 DEF AllThere, CountOp, At, Goto, Proc, os, exiting
<1>7. ASSUME NEW t \in Threads, NEW p \in Pids, Spawn(t, p)
     PROVE  AllThere'
  BY <1>7 DEF AllThere, Spawn, At, Goto, Proc, exiting
<1>8. ASSUME NEW t \in Threads, SpawnFails(t)
     PROVE  AllThere'
  BY <1>8 DEF AllThere, SpawnFails, At, Goto, Proc, End, engines, os, exiting
<1>9. ASSUME NEW t \in Threads, Register(t)
     PROVE  AllThere'
  BY <1>9 DEF AllThere, Register, At, Goto, Proc, End, WriteCmd, engines, exiting
<1>10. ASSUME NEW t \in Threads, WarmLine(t)
      PROVE  AllThere'
  BY <1>10 DEF AllThere, WarmLine, At, Goto, Proc, HasLine, NextLine, TakeLine, engines, exiting
<1>11. ASSUME NEW c \in Callers, SendCommand(c)
      PROVE  AllThere'
  BY <1>11 DEF AllThere, SendCommand, At, Goto, Proc, End, WriteCmd, engines, exiting
<1>12. ASSUME NEW c \in Callers, ReadLine(c)
      PROVE  AllThere'
  BY <1>12 DEF AllThere, ReadLine, At, Goto, Proc, End, HasLine, NextLine, TakeLine, engines,
       exiting
<1>13. ASSUME NEW t \in Threads, ReadFails(t)
      PROVE  AllThere'
  BY <1>13 DEF AllThere, ReadFails, Goto, Proc, End, HasLine, engines, os, exiting
<1>14. ASSUME NEW t \in Threads, DropProcess(t)
      PROVE  AllThere'
  BY <1>14 DEF AllThere, DropProcess, At, Goto, Proc, engines, exiting
<1>15. ASSUME NEW t \in Threads, Unregister(t)
      PROVE  AllThere'
  <2>1. phase' = phase /\ pool' = pool
    BY <1>15, UnregisterWrites
  <2>2. CASE held' = held
    BY <2>1, <2>2 DEF AllThere
  <2>3. CASE held' # held
    <3>1. t = Owner /\ pc[t] = "unregister"
      BY <1>15, <2>3, UnregisterWrites
    <3>. QED  BY <2>1, <3>1 DEF AllThere, ThreadOK
  <2>. QED  BY <2>2, <2>3
<1>16. ASSUME NEW t \in Threads, GiveBack(t)
      PROVE  AllThere'
  BY <1>16 DEF AllThere, GiveBack, At, Goto, Return, End, os, exiting
<1>17. ASSUME BeginShutdown
      PROVE  AllThere'
  BY <1>17 DEF AllThere, BeginShutdown, At, engines, threads, os, exiting
<1>18. ASSUME ShutdownEngine
      PROVE  AllThere'
  BY <1>18 DEF AllThere, ShutdownEngine, At, Goto, os, exiting
<1>19. ASSUME ShutdownDone
      PROVE  AllThere'
  BY <1>19 DEF AllThere, ShutdownDone, At, engines, threads, os, exiting
<1>20. ASSUME NEW p \in Pids, NEW s \in Answers, Answer(p, s)
      PROVE  AllThere'
  BY <1>20 DEF AllThere, Answer, Emit, engines, threads, exiting
<1>21. ASSUME NEW p \in Pids, Ready(p)
      PROVE  AllThere'
  BY <1>21 DEF AllThere, Ready, Emit, engines, threads, exiting
<1>22. ASSUME NEW p \in Pids, ProcessDies(p)
      PROVE  AllThere'
  BY <1>22 DEF AllThere, ProcessDies, engines, threads, exiting
<1>23. ASSUME CleanupBegin
      PROVE  AllThere'
  BY <1>23 DEF AllThere, CleanupBegin, engines, threads, os
<1>24. ASSUME NEW p \in Pids, CleanupKill(p)
      PROVE  AllThere'
  BY <1>24 DEF AllThere, CleanupKill, engines, threads
<1>25. ASSUME Exit
      PROVE  AllThere'
  BY <1>25 DEF AllThere, Exit, engines, threads, os
<1>. QED
  BY <1>1, <1>2, <1>3, <1>4, <1>5, <1>6, <1>7, <1>8, <1>9, <1>10, <1>11, <1>12, <1>13,
     <1>14, <1>15, <1>16, <1>17, <1>18, <1>19, <1>20, <1>21, <1>22, <1>23, <1>24, <1>25
     DEF Next, ThreadStep, CallerStep, OwnerStep, EngineStep

(* Processes stay with their engines until they are gone.                   *)
LEMMA OwnProcessStep ==
    ASSUME TypeOK, ThreadOK, Alone, OwnProcess, Next
    PROVE  OwnProcess'
<1>. USE PoolAssumption, ThreadsSplit
<1>1. ASSUME NEW e \in Engines, CreateEngine(e)
     PROVE  OwnProcess'
  BY <1>1 DEF OwnProcess, Proc, CreateEngine, At, Goto, engines, os, exiting
<1>2. ASSUME PoolComplete
     PROVE  OwnProcess'
  BY <1>2 DEF OwnProcess, Proc, PoolComplete, At, engines, threads, os, exiting
<1>3. ASSUME NEW c \in Callers, Call(c)
     PROVE  OwnProcess'
  BY <1>3 DEF OwnProcess, Proc, Call, At, Goto, engines, os, exiting
<1>4. ASSUME NEW c \in Callers, Checkout(c)
     PROVE  OwnProcess'
  BY <1>4 DEF OwnProcess, Proc, Checkout, At, Goto, os, exiting
<1>5. ASSUME NEW c \in Callers, CheckoutTimeout(c)
     PROVE  OwnProcess'
  BY <1>5 DEF OwnProcess, Proc, CheckoutTimeout, At, Goto, engines, os, exiting
<1>6. ASSUME NEW c \in Callers, CountOp(c)
     PROVE  OwnProcess'
  BY <1>6 DEF OwnProcess, Proc, CountOp, At, Goto, os, exiting
<1>7. ASSUME NEW t \in Threads, NEW p \in Pids, Spawn(t, p)
     PROVE  OwnProcess'
  BY <1>7 DEF TypeOK, ThreadOK, WithProcess, Alone, Threads, OwnProcess, Proc, Spawn, At, Goto,
       exiting
<1>8. ASSUME NEW t \in Threads, SpawnFails(t)
     PROVE  OwnProcess'
  BY <1>8 DEF OwnProcess, Proc, SpawnFails, At, Goto, End, engines, os, exiting
<1>9. ASSUME NEW t \in Threads, Register(t)
     PROVE  OwnProcess'
  BY <1>9 DEF TypeOK, OwnProcess, Proc, Register, At, Goto, End, WriteCmd, engines, exiting
<1>10. ASSUME NEW t \in Threads, WarmLine(t)
      PROVE  OwnProcess'
  BY <1>10 DEF TypeOK, OwnProcess, Proc, WarmLine, At, Goto, HasLine, NextLine, TakeLine, engines,
       exiting
<1>11. ASSUME NEW c \in Callers, SendCommand(c)
      PROVE  OwnProcess'
  BY <1>11 DEF TypeOK, OwnProcess, Proc, SendCommand, At, Goto, End, WriteCmd, engines, exiting
<1>12. ASSUME NEW c \in Callers, ReadLine(c)
      PROVE  OwnProcess'
  BY <1>12 DEF TypeOK, OwnProcess, Proc, ReadLine, At, Goto, End, HasLine, NextLine, TakeLine,
       engines, exiting
<1>13. ASSUME NEW t \in Threads, ReadFails(t)
      PROVE  OwnProcess'
  BY <1>13 DEF OwnProcess, Proc, ReadFails, Goto, End, HasLine, engines, os, exiting
<1>14. ASSUME NEW t \in Threads, DropProcess(t)
      PROVE  OwnProcess'
  BY <1>14 DEF TypeOK, ThreadOK, WithProcess, Alone, Threads, OwnProcess, Proc, DropProcess, At,
       Goto, engines, exiting
<1>15. ASSUME NEW t \in Threads, Unregister(t)
      PROVE  OwnProcess'
  BY <1>15 DEF TypeOK, ThreadOK, WithProcess, Alone, Threads, OwnProcess, Proc, Unregister, At,
       Goto, os, exiting
<1>16. ASSUME NEW t \in Threads, GiveBack(t)
      PROVE  OwnProcess'
  BY <1>16 DEF OwnProcess, Proc, GiveBack, At, Goto, Return, End, os, exiting
<1>17. ASSUME BeginShutdown
      PROVE  OwnProcess'
  BY <1>17 DEF OwnProcess, Proc, BeginShutdown, At, engines, threads, os, exiting
<1>18. ASSUME ShutdownEngine
      PROVE  OwnProcess'
  BY <1>18 DEF TypeOK, OwnProcess, Proc, ShutdownEngine, At, Goto, os, exiting
<1>19. ASSUME ShutdownDone
      PROVE  OwnProcess'
  BY <1>19 DEF OwnProcess, Proc, ShutdownDone, At, engines, threads, os, exiting
<1>20. ASSUME NEW p \in Pids, NEW s \in Answers, Answer(p, s)
      PROVE  OwnProcess'
  BY <1>20 DEF OwnProcess, Proc, Answer, Emit, engines, threads, exiting
<1>21. ASSUME NEW p \in Pids, Ready(p)
      PROVE  OwnProcess'
  BY <1>21 DEF OwnProcess, Proc, Ready, Emit, engines, threads, exiting
<1>22. ASSUME NEW p \in Pids, ProcessDies(p)
      PROVE  OwnProcess'
  BY <1>22 DEF OwnProcess, Proc, ProcessDies, engines, threads, exiting
<1>23. ASSUME CleanupBegin
      PROVE  OwnProcess'
  BY <1>23 DEF OwnProcess, Proc, CleanupBegin, engines, threads, os
<1>24. ASSUME NEW p \in Pids, CleanupKill(p)
      PROVE  OwnProcess'
  BY <1>24 DEF OwnProcess, Proc, CleanupKill, engines, threads
<1>25. ASSUME Exit
      PROVE  OwnProcess'
  BY <1>25 DEF OwnProcess, Proc, Exit, engines, threads, os
<1>. QED
  BY <1>1, <1>2, <1>3, <1>4, <1>5, <1>6, <1>7, <1>8, <1>9, <1>10, <1>11, <1>12, <1>13,
     <1>14, <1>15, <1>16, <1>17, <1>18, <1>19, <1>20, <1>21, <1>22, <1>23, <1>24, <1>25
     DEF Next, ThreadStep, CallerStep, OwnerStep, EngineStep

(* The register of processes keeps up.                                      *)
LEMMA KnownStep ==
    ASSUME TypeOK, ThreadOK, Alone, OwnProcess, Known, Next
    PROVE  Known'
<1>. USE PoolAssumption, ThreadsSplit
<1>1. ASSUME NEW e \in Engines, CreateEngine(e)
     PROVE  Known'
  BY <1>1 DEF Known, Proc, CreateEngine, At, Goto, engines, os, exiting
<1>2. ASSUME PoolComplete
     PROVE  Known'
  BY <1>2 DEF Known, Proc, PoolComplete, At, engines, threads, os, exiting
<1>3. ASSUME NEW c \in Callers, Call(c)
     PROVE  Known'
  BY <1>3 DEF Known, Proc, Call, At, Goto, engines, os, exiting
<1>4. ASSUME NEW c \in Callers, Checkout(c)
     PROVE  Known'
  BY <1>4 DEF Known, Proc, Checkout, At, Goto, os, exiting
<1>5. ASSUME NEW c \in Callers, CheckoutTimeout(c)
     PROVE  Known'
  BY <1>5 DEF Known, Proc, CheckoutTimeout, At, Goto, engines, os, exiting
<1>6. ASSUME NEW c \in Callers, CountOp(c)
     PROVE  Known'
  BY <1>6 DEF Known, Proc, CountOp, At, Goto, os, exiting
<1>7. ASSUME NEW t \in Threads, NEW p \in Pids, Spawn(t, p)
     PROVE  Known'
  BY <1>7 DEF TypeOK, ThreadOK, WithProcess, Alone, OwnProcess, Threads, Known, Proc, Spawn, At,
       Goto, exiting
<1>8. ASSUME NEW t \in Threads, SpawnFails(t)
     PROVE  Known'
  BY <1>8 DEF Known, Proc, SpawnFails, At, Goto, End, engines, os, exiting
<1>9. ASSUME NEW t \in Threads, Register(t)
     PROVE  Known'
  BY <1>9 DEF TypeOK, Known, Proc, Register, At, Goto, End, WriteCmd, engines, exiting
<1>10. ASSUME NEW t \in Threads, WarmLine(t)
      PROVE  Known'
  BY <1>10 DEF TypeOK, Known, Proc, WarmLine, At, Goto, HasLine, NextLine, TakeLine, engines,
       exiting
<1>11. ASSUME NEW c \in Callers, SendCommand(c)
      PROVE  Known'
  BY <1>11 DEF TypeOK, Known, Proc, SendCommand, At, Goto, End, WriteCmd, engines, exiting
<1>12. ASSUME NEW c \in Callers, ReadLine(c)
      PROVE  Known'
  BY <1>12 DEF TypeOK, Known, Proc, ReadLine, At, Goto, End, HasLine, NextLine, TakeLine, engines,
       exiting
<1>13. ASSUME NEW t \in Threads, ReadFails(t)
      PROVE  Known'
  BY <1>13 DEF Known, Proc, ReadFails, Goto, End, HasLine, engines, os, exiting
<1>14. ASSUME NEW t \in Threads, DropProcess(t)
      PROVE  Known'
  BY <1>14 DEF Known, Proc, DropProcess, At, Goto, engines, exiting
<1>15. ASSUME NEW t \in Threads, Unregister(t)
      PROVE  Known'
  <2>1. /\ child[Proc(t)] = "gone" /\ child' = child /\ doomed' = doomed /\ exit' = exit
        /\ registered' = registered \ {Proc(t)} /\ held[t] \in Engines
        /\ slot' = [slot EXCEPT ![held[t]] = None]
    BY <1>15, UnregisterWrites DEF OwnProcess
  <2>2. \A u \in Threads : pc[u] = "register" => pc'[u] = "register" /\ held'[u] = held[u]
    BY <1>15, UnregisterWrites, ZenonT(30) DEF TypeOK
  <2>3. \A e \in Engines : slot'[e] # None => slot'[e] = slot[e]
    BY <2>1 DEF TypeOK
  <2>. QED  BY <2>1, <2>2, <2>3 DEF Known
<1>16. ASSUME NEW t \in Threads, GiveBack(t)
      PROVE  Known'
  BY <1>16 DEF Known, Proc, GiveBack, At, Goto, Return, End, os, exiting
<1>17. ASSUME BeginShutdown
      PROVE  Known'
  BY <1>17 DEF Known, Proc, BeginShutdown, At, engines, threads, os, exiting
<1>18. ASSUME ShutdownEngine
      PROVE  Known'
  BY <1>18 DEF TypeOK, ThreadOK, WithProcess, Known, Proc, ShutdownEngine, At, Goto, os, exiting
<1>19. ASSUME ShutdownDone
      PROVE  Known'
  BY <1>19 DEF Known, Proc, ShutdownDone, At, engines, threads, os, exiting
<1>20. ASSUME NEW p \in Pids, NEW s \in Answers, Answer(p, s)
      PROVE  Known'
  BY <1>20 DEF Known, Proc, Answer, Emit, engines, threads, exiting
<1>21. ASSUME NEW p \in Pids, Ready(p)
      PROVE  Known'
  BY <1>21 DEF Known, Proc, Ready, Emit, engines, threads, exiting
<1>22. ASSUME NEW p \in Pids, ProcessDies(p)
      PROVE  Known'
  BY <1>22 DEF Known, Proc, ProcessDies, engines, threads, exiting
<1>23. ASSUME CleanupBegin
      PROVE  Known'
  <2>1. exit = "no" /\ exit' = "killing" /\ doomed' = registered /\ UNCHANGED <<slot, child, held, pc>>
    BY <1>23 DEF CleanupBegin, engines, threads, os
  <2>. QED  BY <2>1 DEF Known
<1>24. ASSUME NEW p \in Pids, CleanupKill(p)
      PROVE  Known'
  BY <1>24 DEF TypeOK, Known, Proc, CleanupKill, engines, threads
<1>25. ASSUME Exit
      PROVE  Known'
  BY <1>25 DEF Known, Proc, Exit, engines, threads, os
<1>. QED
  BY <1>1, <1>2, <1>3, <1>4, <1>5, <1>6, <1>7, <1>8, <1>9, <1>10, <1>11, <1>12, <1>13,
     <1>14, <1>15, <1>16, <1>17, <1>18, <1>19, <1>20, <1>21, <1>22, <1>23, <1>24, <1>25
     DEF Next, ThreadStep, CallerStep, OwnerStep, EngineStep

(* Commands and answers stay in step.                                       *)
LEMMA DialogueStep ==
    ASSUME TypeOK, ThreadOK, Alone, OwnProcess, Dialogue, Next
    PROVE  Dialogue'
<1>. USE PoolAssumption, ThreadsSplit
<1>1. ASSUME NEW e \in Engines, CreateEngine(e)
     PROVE  Dialogue'
  <2>1. UNCHANGED <<slot, child, stdin, lines, calls>> /\ pc[Owner] = "idle" /\ pc'[Owner] = "ensure"
    BY <1>1 DEF TypeOK, CreateEngine, At, Goto, engines, os
  <2>2. \A t \in Threads \ {Owner} : pc'[t] = pc[t] /\ held'[t] = held[t]
    BY <1>1 DEF TypeOK, CreateEngine, Goto
  <2>3. \A t \in Threads : Cmd(t)' = Cmd(t)
    BY <2>1 DEF Cmd
  <2>. QED  BY <2>1, <2>2, <2>3, DialogueFrame
<1>2. ASSUME PoolComplete
     PROVE  Dialogue'
  BY <1>2 DEF TypeOK, ThreadOK, WithProcess, Dialogue, InStep, Proc, Cmd, Awaited, PoolComplete, At,
       engines, threads, os, exiting
<1>3. ASSUME NEW c \in Callers, Call(c)
     PROVE  Dialogue'
  <2>1. UNCHANGED <<slot, child, stdin, lines>>
    BY <1>3 DEF Call, engines, os
  <2>2. \A t \in Threads : pc'[t] \in {"warm", "read"} =>
           pc'[t] = pc[t] /\ held'[t] = held[t] /\ Cmd(t)' = Cmd(t)
    BY <1>3 DEF TypeOK, ThreadOK, Threads, Call, At, Goto, Cmd
  <2>3. \A t \in Threads : pc'[t] = "drop" =>
           \/ pc[t] \in {"warm", "read", "drop"} /\ held'[t] = held[t]
           \/ /\ held'[t] \in Engines /\ slot[held'[t]] # None
              /\ \A u \in Threads : held[u] = held'[t] => pc[u] \notin {"warm", "read", "drop"}
    BY <1>3 DEF TypeOK, ThreadOK, Threads, Call, At, Goto
  <2>4. \A t \in Threads : pc[t] \in {"warm", "read", "drop"} =>
           held'[t] = held[t] /\ pc'[t] \in {"warm", "read", "drop"}
    BY <1>3 DEF TypeOK, ThreadOK, Threads, Call, At, Goto
  <2>. QED  BY <2>1, <2>2, <2>3, <2>4, DialogueFrame
<1>4. ASSUME NEW c \in Callers, Checkout(c)
     PROVE  Dialogue'
  <2>1. UNCHANGED <<slot, child, stdin, lines>>
    BY <1>4 DEF Checkout, engines, os
  <2>2. \A t \in Threads : pc'[t] \in {"warm", "read"} =>
           pc'[t] = pc[t] /\ held'[t] = held[t] /\ Cmd(t)' = Cmd(t)
    BY <1>4 DEF TypeOK, Checkout, At, Goto, Cmd
  <2>3. \A t \in Threads : pc'[t] = "drop" =>
           \/ pc[t] \in {"warm", "read", "drop"} /\ held'[t] = held[t]
           \/ /\ held'[t] \in Engines /\ slot[held'[t]] # None
              /\ \A u \in Threads : held[u] = held'[t] => pc[u] \notin {"warm", "read", "drop"}
    BY <1>4 DEF TypeOK, Checkout, At, Goto
  <2>4. \A t \in Threads : pc[t] \in {"warm", "read", "drop"} =>
           held'[t] = held[t] /\ pc'[t] \in {"warm", "read", "drop"}
    BY <1>4 DEF TypeOK, Checkout, At, Goto
  <2>. QED  BY <2>1, <2>2, <2>3, <2>4, DialogueFrame
<1>5. ASSUME NEW c \in Callers, CheckoutTimeout(c)
     PROVE  Dialogue'
  <2>1. UNCHANGED <<slot, child, stdin, lines>>
    BY <1>5 DEF CheckoutTimeout, engines, os
  <2>2. \A t \in Threads : pc'[t] \in {"warm", "read"} =>
           pc'[t] = pc[t] /\ held'[t] = held[t] /\ Cmd(t)' = Cmd(t)
    BY <1>5 DEF TypeOK, CheckoutTimeout, At, Goto, Cmd
  <2>3. \A t \in Threads : pc'[t] = "drop" =>
           \/ pc[t] \in {"warm", "read", "drop"} /\ held'[t] = held[t]
           \/ /\ held'[t] \in Engines /\ slot[held'[t]] # None
              /\ \A u \in Threads : held[u] = held'[t] => pc[u] \notin {"warm", "read", "drop"}
    BY <1>5 DEF TypeOK, CheckoutTimeout, At, Goto
  <2>4. \A t \in Threads : pc[t] \in {"warm", "read", "drop"} =>
           held'[t] = held[t] /\ pc'[t] \in {"warm", "read", "drop"}
    BY <1>5 DEF TypeOK, CheckoutTimeout, At, Goto
  <2>. QED  BY <2>1, <2>2, <2>3, <2>4, DialogueFrame
<1>6. ASSUME NEW c \in Callers, CountOp(c)
     PROVE  Dialogue'
  <2>1. UNCHANGED <<slot, child, stdin, lines>>
    BY <1>6 DEF CountOp, engines, os
  <2>2. \A t \in Threads : pc'[t] \in {"warm", "read"} =>
           pc'[t] = pc[t] /\ held'[t] = held[t] /\ Cmd(t)' = Cmd(t)
    BY <1>6 DEF TypeOK, CountOp, At, Goto, Cmd
  <2>3. \A t \in Threads : pc'[t] = "drop" =>
           \/ pc[t] \in {"warm", "read", "drop"} /\ held'[t] = held[t]
           \/ /\ held'[t] \in Engines /\ slot[held'[t]] # None
              /\ \A u \in Threads : held[u] = held'[t] => pc[u] \notin {"warm", "read", "drop"}
    <3>1. /\ pc[c] = "count" /\ c \in Threads /\ held[c] \in Engines /\ held[c] # None /\ held' = held
      BY <1>6 DEF TypeOK, ThreadOK, CountOp, At
    <3>2. pc'[c] = "drop" => slot[held[c]] # None
      BY <1>6, <3>1 DEF TypeOK, CountOp, Goto, Proc
    <3>3. \A u \in Threads : held[u] = held[c] => pc[u] \notin {"warm", "read", "drop"}
      BY <3>1 DEF Alone
    <3>4. \A t \in Threads \ {c} : pc'[t] = pc[t]
      BY <1>6 DEF TypeOK, CountOp, Goto
    <3>. QED  BY <3>1, <3>2, <3>3, <3>4
  <2>4. \A t \in Threads : pc[t] \in {"warm", "read", "drop"} =>
           held'[t] = held[t] /\ pc'[t] \in {"warm", "read", "drop"}
    BY <1>6 DEF TypeOK, CountOp, At, Goto
  <2>. QED  BY <2>1, <2>2, <2>3, <2>4, DialogueFrame
<1>7. ASSUME NEW t \in Threads, NEW p \in Pids, Spawn(t, p)
     PROVE  Dialogue'
  <2>1. /\ pc[t] = "ensure" /\ held[t] \in Engines /\ held[t] # None /\ slot[held[t]] = None /\ child[p] = "free"
        /\ slot' = [slot EXCEPT ![held[t]] = p] /\ pc' = [pc EXCEPT ![t] = "register"]
        /\ child' = [child EXCEPT ![p] = "live"] /\ UNCHANGED <<held, calls, stdin, lines>>
    <3>1. /\ pc[t] = "ensure" /\ Proc(t) = None /\ child[p] = "free"
          /\ slot' = [slot EXCEPT ![held[t]] = p] /\ pc' = [pc EXCEPT ![t] = "register"]
          /\ child' = [child EXCEPT ![p] = "live"] /\ UNCHANGED <<held, calls, stdin, lines>>
      BY <1>7 DEF Spawn, At, Goto
    <3>2. held[t] \in Engines /\ held[t] # None
      BY <3>1, ZenonT(30) DEF TypeOK, ThreadOK
    <3>. QED  BY <3>1, <3>2 DEF Proc
  <2>2. \A u \in Threads \ {t} : /\ pc'[u] = pc[u] /\ Awaited(u)' = Awaited(u)
                                 /\ pc[u] \in {"warm", "read", "drop"} => Proc(u)' = Proc(u)
    <3>1. \A u \in Threads \ {t} : pc'[u] = pc[u]
      BY <2>1 DEF TypeOK
    <3>2. \A u \in Threads \ {t} : pc[u] \in {"warm", "read", "drop"} => held[u] # held[t] /\ held[u] \in Engines
      BY <2>1, ProcType DEF Alone, WithProcess
    <3>3. \A u \in Threads \ {t} : pc[u] \in {"warm", "read", "drop"} => Proc(u)' = Proc(u)
      BY <2>1, <3>2 DEF TypeOK, Proc
    <3>. QED  BY <2>1, <3>1, <3>3 DEF Awaited, Cmd
  <2>3. pc'[t] = "register"
    BY <2>1 DEF TypeOK
  <2>4. \A u \in Threads : pc'[u] \in {"warm", "read"} =>
           InStep(stdin'[Proc(u)'], lines'[Proc(u)'], Awaited(u)')
    BY <2>1, <2>2, <2>3 DEF Dialogue
  <2>5. \A u \in Threads : pc'[u] = "drop" => \A i \in DOMAIN stdin'[Proc(u)'] : stdin'[Proc(u)'][i][1] = u
    BY <2>1, <2>2, <2>3 DEF Dialogue
  <2>6. \A e \in Engines :
           slot'[e] # None /\ (\A u \in Threads : held[u] = e => pc'[u] \notin {"warm", "read", "drop"}) =>
              stdin[slot'[e]] = <<>> /\ lines[slot'[e]] = <<>>
    <3>1. \A e \in Engines : slot'[e] = IF e = held[t] THEN p ELSE slot[e]
      BY <2>1 DEF TypeOK
    <3>2. \A u \in Threads : pc[u] \in {"warm", "read", "drop"} => pc'[u] = pc[u]
      BY <2>1, <2>2
    <3>. QED  BY <2>1, <3>1, <3>2 DEF Dialogue
  <2>7. \A q \in Pids : child'[q] = "free" => child[q] = "free"
    BY <2>1 DEF TypeOK
  <2>. QED  BY <2>1, <2>4, <2>5, <2>6, <2>7 DEF Dialogue
<1>8. ASSUME NEW t \in Threads, SpawnFails(t)
     PROVE  Dialogue'
  BY <1>8 DEF TypeOK, ThreadOK, WithProcess, Dialogue, InStep, Proc, Cmd, Awaited, SpawnFails, At,
       Goto, End, engines, os, exiting
<1>9. ASSUME NEW t \in Threads, Register(t)
     PROVE  Dialogue'
  <2>. DEFINE p == Proc(t)
  <2>1. /\ pc[t] = "register" /\ t \in Threads /\ held[t] \in Engines /\ held[t] # None
        /\ p \in Pids /\ p # None /\ slot[held[t]] = p
    BY <1>9, ProcType DEF Register, At, WithProcess, Proc
  <2>2. stdin[p] = <<>> /\ lines[p] = <<>>
    <3>1. \A u \in Threads : held[u] = held[t] => pc[u] \notin {"warm", "read", "drop"}
      BY <2>1 DEF Alone
    <3>. QED  BY <2>1, <3>1 DEF Dialogue
  <2>3. /\ UNCHANGED <<slot, held, calls, child, lines>>
        /\ IF child[p] = "live"
           THEN stdin' = [stdin EXCEPT ![p] = Append(@, <<t, 0>>)] /\ pc' = [pc EXCEPT ![t] = "warm"]
           ELSE stdin' = stdin /\ pc' = [pc EXCEPT ![t] = "drop"]
    BY <1>9 DEF Register, WriteCmd, Goto, engines
  <2>4. /\ \A u \in Threads : Proc(u)' = Proc(u) /\ Cmd(u)' = Cmd(u)
        /\ \A u \in Threads \ {t} : pc'[u] = pc[u] /\ Awaited(u)' = Awaited(u)
    BY <2>3 DEF TypeOK, Proc, Cmd, Awaited
  <2>5. \A u \in Threads \ {t} : pc[u] \in {"warm", "read", "drop"} => Proc(u) # p /\ Proc(u) \in Pids
    BY <2>1, SameProc, ProcType DEF WithProcess
  <2>6. \A q \in Pids \ {p} : stdin'[q] = stdin[q]
    BY <2>3 DEF TypeOK
  <2>7. \A e \in Engines : slot[e] = p => e = held[t]
    BY <2>1 DEF OwnProcess
  <2>8. pc'[t] \in {"warm", "drop"} /\ child[p] # "free"
    BY <2>1, <2>3 DEF TypeOK, OwnProcess
  <2>9. ASSUME pc'[t] = "warm"
        PROVE  InStep(stdin'[p], lines'[p], Awaited(t)')
    <3>1. stdin' = [stdin EXCEPT ![p] = Append(@, <<t, 0>>)]
      BY <2>1, <2>3, <2>9 DEF TypeOK
    <3>2. stdin'[p] = Append(<<>>, <<t, 0>>) /\ lines'[p] = <<>>
      BY <2>1, <2>2, <2>3, <3>1 DEF TypeOK
    <3>3. Awaited(t)' = <<t, 0>>
      BY <2>4, <2>9 DEF Awaited
    <3>. QED  BY <3>2, <3>3, InStepBegin
  <2>10. pc'[t] = "drop" => stdin'[p] = <<>>
    BY <2>1, <2>2, <2>3 DEF TypeOK
  <2>. HIDE DEF p
  <2>11. \A u \in Threads : pc'[u] \in {"warm", "read"} =>
            InStep(stdin'[Proc(u)'], lines'[Proc(u)'], Awaited(u)')
    <3>1. ASSUME NEW u \in Threads \ {t}, pc'[u] \in {"warm", "read"}
          PROVE  InStep(stdin'[Proc(u)'], lines'[Proc(u)'], Awaited(u)')
      <4>1. InStep(stdin[Proc(u)], lines[Proc(u)], Awaited(u))
        BY <2>4, <3>1 DEF Dialogue
      <4>. QED  BY <2>3, <2>4, <2>5, <2>6, <3>1, <4>1
    <3>2. pc'[t] \in {"warm", "read"} => InStep(stdin'[Proc(t)'], lines'[Proc(t)'], Awaited(t)')
      BY <2>1, <2>4, <2>8, <2>9 DEF p
    <3>. QED  BY <3>1, <3>2
  <2>12. \A u \in Threads : pc'[u] = "drop" => \A i \in DOMAIN stdin'[Proc(u)'] : stdin'[Proc(u)'][i][1] = u
    <3>1. \A u \in Threads \ {t} : pc'[u] = "drop" => stdin'[Proc(u)'] = stdin[Proc(u)] /\ pc[u] = "drop"
      BY <2>4, <2>5, <2>6
    <3>2. pc'[t] = "drop" => stdin'[Proc(t)'] = <<>>
      BY <2>1, <2>4, <2>10 DEF p
    <3>. QED  BY <3>1, <3>2 DEF Dialogue
  <2>13. \A e \in Engines :
            slot[e] # None /\ (\A u \in Threads : held[u] = e => pc'[u] \notin {"warm", "read", "drop"}) =>
               stdin'[slot[e]] = <<>> /\ lines'[slot[e]] = <<>>
    <3>. SUFFICES ASSUME NEW e \in Engines, slot[e] # None,
                         \A u \in Threads : held[u] = e => pc'[u] \notin {"warm", "read", "drop"}
                  PROVE  stdin'[slot[e]] = <<>> /\ lines'[slot[e]] = <<>>
      OBVIOUS
    <3>1. e # held[t] /\ \A u \in Threads : held[u] = e => pc[u] \notin {"warm", "read", "drop"}
      BY <2>1, <2>4, <2>8
    <3>2. slot[e] \in Pids \ {p}
      BY <2>7, <3>1 DEF TypeOK
    <3>. QED  BY <2>3, <2>6, <3>1, <3>2 DEF Dialogue
  <2>14. \A q \in Pids : child'[q] = "free" => stdin'[q] = <<>> /\ lines'[q] = <<>>
    BY <2>3, <2>6, <2>8 DEF Dialogue
  <2>. QED  BY <2>3, <2>11, <2>12, <2>13, <2>14 DEF Dialogue
<1>10. ASSUME NEW t \in Threads, WarmLine(t)
      PROVE  Dialogue'
  <2>. DEFINE p == Proc(t)
  <2>1. /\ pc[t] = "warm" /\ t \in Threads /\ held[t] \in Engines /\ held[t] # None
        /\ p \in Pids /\ p # None /\ slot[held[t]] = p
    BY <1>10, ProcType DEF WarmLine, At, WithProcess, Proc
  <2>2. lines[p] \in Seq(Line) /\ lines[p] # <<>> /\ InStep(stdin[p], lines[p], Awaited(t))
    BY <1>10, <2>1 DEF WarmLine, HasLine, TypeOK, Dialogue
  <2>3. /\ UNCHANGED <<slot, held, calls, child, stdin>> /\ lines' = [lines EXCEPT ![p] = Tail(@)]
        /\ IF Head(lines[p]).says # "ready"
           THEN pc' = pc
           ELSE \E l \in {"giveback", "write"} : pc' = [pc EXCEPT ![t] = l]
    BY <1>10 DEF WarmLine, NextLine, TakeLine, Goto, engines
  <2>4. /\ \A u \in Threads : Proc(u)' = Proc(u) /\ Cmd(u)' = Cmd(u)
        /\ \A u \in Threads \ {t} : pc'[u] = pc[u] /\ Awaited(u)' = Awaited(u)
    BY <2>3 DEF TypeOK, Proc, Cmd, Awaited
  <2>5. \A u \in Threads \ {t} : pc[u] \in {"warm", "read", "drop"} => Proc(u) # p /\ Proc(u) \in Pids
    BY <2>1, SameProc, ProcType DEF WithProcess
  <2>6. lines'[p] = Tail(lines[p]) /\ \A q \in Pids \ {p} : lines'[q] = lines[q]
    BY <2>1, <2>3 DEF TypeOK
  <2>7. \A e \in Engines : slot[e] = p => e = held[t]
    BY <2>1 DEF OwnProcess
  <2>8. child[p] # "free"
    BY <2>1 DEF OwnProcess
  <2>9. \/ pc'[t] = "warm" /\ Awaited(t)' = Awaited(t) /\ InStep(stdin'[p], lines'[p], Awaited(t))
        \/ pc'[t] \in {"giveback", "write"} /\ stdin'[p] = <<>> /\ lines'[p] = <<>>
    <3>1. CASE Head(lines[p]).says # "ready"
      <4>1. InStep(stdin[p], Tail(lines[p]), Awaited(t))
        BY <2>2, <3>1, InStepLine
      <4>2. pc' = pc /\ Awaited(t)' = Awaited(t)
        BY <2>3, <2>4, <3>1, <2>1 DEF Awaited
      <4>. QED  BY <2>1, <2>3, <2>6, <4>1, <4>2
    <3>2. CASE Head(lines[p]).says = "ready"
      <4>1. stdin[p] = <<>> /\ Tail(lines[p]) = <<>>
        BY <2>2, <3>2, InStepEnd
      <4>2. pc'[t] \in {"giveback", "write"}
        BY <2>1, <2>3, <3>2 DEF TypeOK
      <4>. QED  BY <2>3, <2>6, <4>1, <4>2
    <3>. QED  BY <3>1, <3>2
  <2>10. p = Proc(t)'
    BY <2>1, <2>4
  <2>. HIDE DEF p
  <2>11. \A u \in Threads : pc'[u] \in {"warm", "read"} =>
            InStep(stdin'[Proc(u)'], lines'[Proc(u)'], Awaited(u)')
    <3>1. ASSUME NEW u \in Threads \ {t}, pc'[u] \in {"warm", "read"}
          PROVE  InStep(stdin'[Proc(u)'], lines'[Proc(u)'], Awaited(u)')
      <4>1. InStep(stdin[Proc(u)], lines[Proc(u)], Awaited(u))
        BY <2>4, <3>1 DEF Dialogue
      <4>. QED  BY <2>3, <2>4, <2>5, <2>6, <3>1, <4>1
    <3>2. pc'[t] \in {"warm", "read"} => InStep(stdin'[Proc(t)'], lines'[Proc(t)'], Awaited(t)')
      BY <2>9, <2>10
    <3>. QED  BY <3>1, <3>2
  <2>12. \A u \in Threads : pc'[u] = "drop" => \A i \in DOMAIN stdin'[Proc(u)'] : stdin'[Proc(u)'][i][1] = u
    BY <2>3, <2>4, <2>9 DEF Dialogue
  <2>13. \A e \in Engines :
            slot[e] # None /\ (\A u \in Threads : held[u] = e => pc'[u] \notin {"warm", "read", "drop"}) =>
               stdin'[slot[e]] = <<>> /\ lines'[slot[e]] = <<>>
    <3>. SUFFICES ASSUME NEW e \in Engines, slot[e] # None,
                         \A u \in Threads : held[u] = e => pc'[u] \notin {"warm", "read", "drop"}
                  PROVE  stdin'[slot[e]] = <<>> /\ lines'[slot[e]] = <<>>
      OBVIOUS
    <3>1. CASE slot[e] = p
      <4>1. pc'[t] \notin {"warm", "read", "drop"}
        BY <2>1, <2>7, <3>1
      <4>. QED  BY <2>9, <3>1, <4>1
    <3>2. CASE slot[e] # p
      <4>1. e # held[t] /\ slot[e] \in Pids \ {p}
        BY <2>1, <3>2 DEF TypeOK
      <4>2. \A u \in Threads : held[u] = e => pc[u] \notin {"warm", "read", "drop"}
        BY <2>4, <4>1
      <4>. QED  BY <2>3, <2>6, <4>1, <4>2 DEF Dialogue
    <3>. QED  BY <3>1, <3>2
  <2>14. \A q \in Pids : child'[q] = "free" => stdin'[q] = <<>> /\ lines'[q] = <<>>
    BY <2>3, <2>6, <2>8 DEF Dialogue
  <2>. QED  BY <2>3, <2>11, <2>12, <2>13, <2>14 DEF Dialogue
<1>11. ASSUME NEW c \in Callers, SendCommand(c)
      PROVE  Dialogue'
  <2>. DEFINE p == Proc(c)
  <2>1. /\ pc[c] = "write" /\ c \in Threads /\ held[c] \in Engines /\ held[c] # None
        /\ p \in Pids /\ p # None /\ slot[held[c]] = p
    BY <1>11, ProcType DEF SendCommand, At, WithProcess, Proc
  <2>2. stdin[p] = <<>> /\ lines[p] = <<>>
    <3>1. \A u \in Threads : held[u] = held[c] => pc[u] \notin {"warm", "read", "drop"}
      BY <2>1 DEF Alone
    <3>. QED  BY <2>1, <3>1 DEF Dialogue
  <2>3. /\ UNCHANGED <<slot, held, calls, child, lines>>
        /\ IF child[p] = "live"
           THEN stdin' = [stdin EXCEPT ![p] = Append(@, Cmd(c))] /\ pc' = [pc EXCEPT ![c] = "read"]
           ELSE stdin' = stdin /\ pc' = [pc EXCEPT ![c] = "drop"]
    BY <1>11 DEF SendCommand, WriteCmd, Goto, engines
  <2>4. /\ \A u \in Threads : Proc(u)' = Proc(u) /\ Cmd(u)' = Cmd(u)
        /\ \A u \in Threads \ {c} : pc'[u] = pc[u] /\ Awaited(u)' = Awaited(u)
    BY <2>3 DEF TypeOK, Proc, Cmd, Awaited
  <2>5. \A u \in Threads \ {c} : pc[u] \in {"warm", "read", "drop"} => Proc(u) # p /\ Proc(u) \in Pids
    BY <2>1, SameProc, ProcType DEF WithProcess
  <2>6. \A q \in Pids \ {p} : stdin'[q] = stdin[q]
    BY <2>3 DEF TypeOK
  <2>7. \A e \in Engines : slot[e] = p => e = held[c]
    BY <2>1 DEF OwnProcess
  <2>8. pc'[c] \in {"read", "drop"} /\ child[p] # "free"
    BY <2>1, <2>3 DEF TypeOK, OwnProcess
  <2>9. ASSUME pc'[c] = "read"
        PROVE  InStep(stdin'[p], lines'[p], Awaited(c)')
    <3>1. stdin' = [stdin EXCEPT ![p] = Append(@, Cmd(c))]
      BY <2>1, <2>3, <2>9 DEF TypeOK
    <3>2. stdin'[p] = Append(<<>>, Cmd(c)) /\ lines'[p] = <<>>
      BY <2>1, <2>2, <2>3, <3>1 DEF TypeOK
    <3>3. Awaited(c)' = Cmd(c)
      BY <2>4, <2>9 DEF Awaited
    <3>. QED  BY <3>2, <3>3, InStepBegin
  <2>10. pc'[c] = "drop" => stdin'[p] = <<>>
    BY <2>1, <2>2, <2>3 DEF TypeOK
  <2>. HIDE DEF p
  <2>11. \A u \in Threads : pc'[u] \in {"warm", "read"} =>
            InStep(stdin'[Proc(u)'], lines'[Proc(u)'], Awaited(u)')
    <3>1. ASSUME NEW u \in Threads \ {c}, pc'[u] \in {"warm", "read"}
          PROVE  InStep(stdin'[Proc(u)'], lines'[Proc(u)'], Awaited(u)')
      <4>1. InStep(stdin[Proc(u)], lines[Proc(u)], Awaited(u))
        BY <2>4, <3>1 DEF Dialogue
      <4>. QED  BY <2>3, <2>4, <2>5, <2>6, <3>1, <4>1
    <3>2. pc'[c] \in {"warm", "read"} => InStep(stdin'[Proc(c)'], lines'[Proc(c)'], Awaited(c)')
      BY <2>1, <2>4, <2>8, <2>9 DEF p
    <3>. QED  BY <3>1, <3>2
  <2>12. \A u \in Threads : pc'[u] = "drop" => \A i \in DOMAIN stdin'[Proc(u)'] : stdin'[Proc(u)'][i][1] = u
    <3>1. \A u \in Threads \ {c} : pc'[u] = "drop" => stdin'[Proc(u)'] = stdin[Proc(u)] /\ pc[u] = "drop"
      BY <2>4, <2>5, <2>6
    <3>2. pc'[c] = "drop" => stdin'[Proc(c)'] = <<>>
      BY <2>1, <2>4, <2>10 DEF p
    <3>. QED  BY <3>1, <3>2 DEF Dialogue
  <2>13. \A e \in Engines :
            slot[e] # None /\ (\A u \in Threads : held[u] = e => pc'[u] \notin {"warm", "read", "drop"}) =>
               stdin'[slot[e]] = <<>> /\ lines'[slot[e]] = <<>>
    <3>. SUFFICES ASSUME NEW e \in Engines, slot[e] # None,
                         \A u \in Threads : held[u] = e => pc'[u] \notin {"warm", "read", "drop"}
                  PROVE  stdin'[slot[e]] = <<>> /\ lines'[slot[e]] = <<>>
      OBVIOUS
    <3>1. e # held[c] /\ \A u \in Threads : held[u] = e => pc[u] \notin {"warm", "read", "drop"}
      BY <2>1, <2>4, <2>8
    <3>2. slot[e] \in Pids \ {p}
      BY <2>7, <3>1 DEF TypeOK
    <3>. QED  BY <2>3, <2>6, <3>1, <3>2 DEF Dialogue
  <2>14. \A q \in Pids : child'[q] = "free" => stdin'[q] = <<>> /\ lines'[q] = <<>>
    BY <2>3, <2>6, <2>8 DEF Dialogue
  <2>. QED  BY <2>3, <2>11, <2>12, <2>13, <2>14 DEF Dialogue
<1>12. ASSUME NEW c \in Callers, ReadLine(c)
      PROVE  Dialogue'
  <2>. DEFINE p == Proc(c)
  <2>1. /\ pc[c] = "read" /\ c \in Threads /\ held[c] \in Engines /\ held[c] # None
        /\ p \in Pids /\ p # None /\ slot[held[c]] = p
    BY <1>12, ProcType DEF ReadLine, At, WithProcess, Proc
  <2>2. lines[p] \in Seq(Line) /\ lines[p] # <<>> /\ InStep(stdin[p], lines[p], Awaited(c))
    BY <1>12, <2>1 DEF ReadLine, HasLine, TypeOK, Dialogue
  <2>3. /\ UNCHANGED <<slot, held, calls, child, stdin>> /\ lines' = [lines EXCEPT ![p] = Tail(@)]
        /\ IF Head(lines[p]).says # "ready"
           THEN pc' = pc
           ELSE \E l \in {"giveback"} : pc' = [pc EXCEPT ![c] = l]
    BY <1>12 DEF ReadLine, NextLine, TakeLine, Goto, engines
  <2>4. /\ \A u \in Threads : Proc(u)' = Proc(u) /\ Cmd(u)' = Cmd(u)
        /\ \A u \in Threads \ {c} : pc'[u] = pc[u] /\ Awaited(u)' = Awaited(u)
    BY <2>3 DEF TypeOK, Proc, Cmd, Awaited
  <2>5. \A u \in Threads \ {c} : pc[u] \in {"warm", "read", "drop"} => Proc(u) # p /\ Proc(u) \in Pids
    BY <2>1, SameProc, ProcType DEF WithProcess
  <2>6. lines'[p] = Tail(lines[p]) /\ \A q \in Pids \ {p} : lines'[q] = lines[q]
    BY <2>1, <2>3 DEF TypeOK
  <2>7. \A e \in Engines : slot[e] = p => e = held[c]
    BY <2>1 DEF OwnProcess
  <2>8. child[p] # "free"
    BY <2>1 DEF OwnProcess
  <2>9. \/ pc'[c] = "read" /\ Awaited(c)' = Awaited(c) /\ InStep(stdin'[p], lines'[p], Awaited(c))
        \/ pc'[c] \in {"giveback"} /\ stdin'[p] = <<>> /\ lines'[p] = <<>>
    <3>1. CASE Head(lines[p]).says # "ready"
      <4>1. InStep(stdin[p], Tail(lines[p]), Awaited(c))
        BY <2>2, <3>1, InStepLine
      <4>2. pc' = pc /\ Awaited(c)' = Awaited(c)
        BY <2>3, <2>4, <3>1, <2>1 DEF Awaited
      <4>. QED  BY <2>1, <2>3, <2>6, <4>1, <4>2
    <3>2. CASE Head(lines[p]).says = "ready"
      <4>1. stdin[p] = <<>> /\ Tail(lines[p]) = <<>>
        BY <2>2, <3>2, InStepEnd
      <4>2. pc'[c] \in {"giveback"}
        BY <2>1, <2>3, <3>2 DEF TypeOK
      <4>. QED  BY <2>3, <2>6, <4>1, <4>2
    <3>. QED  BY <3>1, <3>2
  <2>10. p = Proc(c)'
    BY <2>1, <2>4
  <2>. HIDE DEF p
  <2>11. \A u \in Threads : pc'[u] \in {"warm", "read"} =>
            InStep(stdin'[Proc(u)'], lines'[Proc(u)'], Awaited(u)')
    <3>1. ASSUME NEW u \in Threads \ {c}, pc'[u] \in {"warm", "read"}
          PROVE  InStep(stdin'[Proc(u)'], lines'[Proc(u)'], Awaited(u)')
      <4>1. InStep(stdin[Proc(u)], lines[Proc(u)], Awaited(u))
        BY <2>4, <3>1 DEF Dialogue
      <4>. QED  BY <2>3, <2>4, <2>5, <2>6, <3>1, <4>1
    <3>2. pc'[c] \in {"warm", "read"} => InStep(stdin'[Proc(c)'], lines'[Proc(c)'], Awaited(c)')
      BY <2>9, <2>10
    <3>. QED  BY <3>1, <3>2
  <2>12. \A u \in Threads : pc'[u] = "drop" => \A i \in DOMAIN stdin'[Proc(u)'] : stdin'[Proc(u)'][i][1] = u
    BY <2>3, <2>4, <2>9 DEF Dialogue
  <2>13. \A e \in Engines :
            slot[e] # None /\ (\A u \in Threads : held[u] = e => pc'[u] \notin {"warm", "read", "drop"}) =>
               stdin'[slot[e]] = <<>> /\ lines'[slot[e]] = <<>>
    <3>. SUFFICES ASSUME NEW e \in Engines, slot[e] # None,
                         \A u \in Threads : held[u] = e => pc'[u] \notin {"warm", "read", "drop"}
                  PROVE  stdin'[slot[e]] = <<>> /\ lines'[slot[e]] = <<>>
      OBVIOUS
    <3>1. CASE slot[e] = p
      <4>1. pc'[c] \notin {"warm", "read", "drop"}
        BY <2>1, <2>7, <3>1
      <4>. QED  BY <2>9, <3>1, <4>1
    <3>2. CASE slot[e] # p
      <4>1. e # held[c] /\ slot[e] \in Pids \ {p}
        BY <2>1, <3>2 DEF TypeOK
      <4>2. \A u \in Threads : held[u] = e => pc[u] \notin {"warm", "read", "drop"}
        BY <2>4, <4>1
      <4>. QED  BY <2>3, <2>6, <4>1, <4>2 DEF Dialogue
    <3>. QED  BY <3>1, <3>2
  <2>14. \A q \in Pids : child'[q] = "free" => stdin'[q] = <<>> /\ lines'[q] = <<>>
    BY <2>3, <2>6, <2>8 DEF Dialogue
  <2>. QED  BY <2>3, <2>11, <2>12, <2>13, <2>14 DEF Dialogue
<1>13. ASSUME NEW t \in Threads, ReadFails(t)
      PROVE  Dialogue'
  <2>1. UNCHANGED <<slot, child, stdin, lines>>
    BY <1>13 DEF ReadFails, engines, os
  <2>2. \A x \in Threads : pc'[x] \in {"warm", "read"} =>
           pc'[x] = pc[x] /\ held'[x] = held[x] /\ Cmd(x)' = Cmd(x)
    BY <1>13 DEF TypeOK, ReadFails, Goto, Cmd
  <2>3. \A x \in Threads : pc'[x] = "drop" =>
           \/ pc[x] \in {"warm", "read", "drop"} /\ held'[x] = held[x]
           \/ /\ held'[x] \in Engines /\ slot[held'[x]] # None
              /\ \A u \in Threads : held[u] = held'[x] => pc[u] \notin {"warm", "read", "drop"}
    BY <1>13 DEF TypeOK, ReadFails, Goto
  <2>4. \A x \in Threads : pc[x] \in {"warm", "read", "drop"} =>
           held'[x] = held[x] /\ pc'[x] \in {"warm", "read", "drop"}
    BY <1>13 DEF TypeOK, ReadFails, Goto
  <2>. QED  BY <2>1, <2>2, <2>3, <2>4, DialogueFrame
<1>14. ASSUME NEW t \in Threads, DropProcess(t)
      PROVE  Dialogue'
  <2>1. /\ pc[t] = "drop" /\ UNCHANGED <<slot, held, calls>>
        /\ pc' = [pc EXCEPT ![t] = "unregister"]
        /\ child' = [child EXCEPT ![Proc(t)] = "gone"]
        /\ stdin' = [stdin EXCEPT ![Proc(t)] = <<>>]
        /\ lines' = [lines EXCEPT ![Proc(t)] = <<>>]
    BY <1>14 DEF DropProcess, At, Goto, engines
  <2>2. pc'[t] = "unregister" /\ \A u \in Threads \ {t} : pc'[u] = pc[u]
    BY <2>1 DEF TypeOK
  <2>3. \A p \in Pids : \/ stdin'[p] = <<>> /\ lines'[p] = <<>>
                        \/ stdin'[p] = stdin[p] /\ lines'[p] = lines[p]
    BY <2>1 DEF TypeOK
  <2>4. Proc(t) \in Pids /\ held[t] \in Engines /\ stdin'[Proc(t)] = <<>> /\ lines'[Proc(t)] = <<>>
    <3>1. held[t] \in Engines
      <4>1. held[t] # None
        BY <2>1 DEF ThreadOK
      <4>2. held[t] \in Engines \cup {None}
        BY DEF TypeOK
      <4>. QED  BY <4>1, <4>2
    <3>2. Proc(t) # None
      BY <2>1 DEF ThreadOK, WithProcess
    <3>3. Proc(t) \in Pids
      BY <3>1, <3>2 DEF TypeOK, Proc
    <3>4. stdin \in [Pids -> Seq(Request)] /\ lines \in [Pids -> Seq(Line)]
      BY DEF TypeOK
    <3>. QED  BY <2>1, <3>1, <3>3, <3>4
  <2>5. ASSUME NEW u \in Threads, pc'[u] \in {"warm", "read", "drop"}
        PROVE  u # t /\ pc[u] = pc'[u] /\ Proc(u) \in Pids /\ Proc(u)' = Proc(u) /\ Awaited(u)' = Awaited(u)
    BY <2>1, <2>2, <2>5 DEF TypeOK, ThreadOK, WithProcess, Proc, Awaited, Cmd
  <2>6. ASSUME NEW u \in Threads, pc'[u] \in {"warm", "read"}
        PROVE  InStep(stdin[Proc(u)], lines[Proc(u)], Awaited(u))'
    <3>1. InStep(stdin[Proc(u)], lines[Proc(u)], Awaited(u))
      BY <2>5, <2>6 DEF Dialogue
    <3>2. InStep(<<>>, <<>>, Awaited(u))
      BY DEF InStep
    <3>. QED  BY <2>3, <2>5, <2>6, <3>1, <3>2 DEF InStep
  <2>7. ASSUME NEW u \in Threads, pc'[u] = "drop"
        PROVE  \A i \in DOMAIN stdin'[Proc(u)'] : stdin'[Proc(u)'][i][1] = u
    BY <2>3, <2>5, <2>7 DEF Dialogue
  <2>8. ASSUME NEW e \in Engines, slot'[e] # None,
               \A u \in Threads : held'[u] = e => pc'[u] \notin {"warm", "read", "drop"}
        PROVE  stdin'[slot'[e]] = <<>> /\ lines'[slot'[e]] = <<>>
    <3>1. CASE slot[e] = Proc(t)
      BY <2>1, <2>4, <3>1
    <3>2. CASE slot[e] # Proc(t)
      <4>1. held[t] # e
        BY <3>2 DEF Proc
      <4>2. \A u \in Threads : held[u] = e => pc[u] \notin {"warm", "read", "drop"}
        BY <2>1, <2>2, <2>8, <4>1
      <4>3. slot[e] \in Pids /\ stdin[slot[e]] = <<>> /\ lines[slot[e]] = <<>>
        BY <2>1, <2>8, <4>2 DEF Dialogue, TypeOK
      <4>. QED  BY <2>1, <2>3, <4>3
    <3>. QED  BY <3>1, <3>2
  <2>9. \A p \in Pids : child'[p] = "free" => stdin'[p] = <<>> /\ lines'[p] = <<>>
    <3>1. \A p \in Pids : child'[p] = "free" => child[p] = "free"
      BY <2>1, <2>4 DEF TypeOK
    <3>. QED  BY <2>3, <3>1 DEF Dialogue
  <2>. QED  BY <2>6, <2>7, <2>8, <2>9 DEF Dialogue
<1>15. ASSUME NEW t \in Threads, Unregister(t)
      PROVE  Dialogue'
  <2>1. /\ pc[t] = "unregister" /\ held[t] \in Engines /\ slot' = [slot EXCEPT ![held[t]] = None]
        /\ \E l \in {"giveback", "idle", "ensure"} : pc' = [pc EXCEPT ![t] = l]
        /\ held' = held \/ held' = [held EXCEPT ![t] = None]
        /\ UNCHANGED <<calls, child, stdin, lines>>
    BY <1>15, UnregisterWrites
  <2>2. /\ pc'[t] \in {"giveback", "idle", "ensure"}
        /\ \A u \in Threads \ {t} : pc'[u] = pc[u] /\ held'[u] = held[u]
    BY <2>1 DEF TypeOK
  <2>3. \A e \in Engines : slot'[e] = IF e = held[t] THEN None ELSE slot[e]
    BY <2>1 DEF TypeOK
  <2>4. \A u \in Threads \ {t} : /\ Awaited(u)' = Awaited(u)
                                 /\ pc[u] \in {"warm", "read", "drop"} => Proc(u)' = Proc(u)
    <3>1. \A u \in Threads \ {t} : pc[u] \in {"warm", "read", "drop"} => held[u] # held[t] /\ held[u] \in Engines
      BY <2>1, ProcType DEF Alone, WithProcess
    <3>. QED  BY <2>1, <2>2, <2>3, <3>1 DEF Awaited, Cmd, Proc
  <2>5. \A u \in Threads : pc'[u] \in {"warm", "read"} =>
           InStep(stdin'[Proc(u)'], lines'[Proc(u)'], Awaited(u)')
    BY <2>1, <2>2, <2>4 DEF Dialogue
  <2>6. \A u \in Threads : pc'[u] = "drop" => \A i \in DOMAIN stdin'[Proc(u)'] : stdin'[Proc(u)'][i][1] = u
    BY <2>1, <2>2, <2>4 DEF Dialogue
  <2>7. \A e \in Engines :
           slot'[e] # None /\ (\A u \in Threads : held'[u] = e => pc'[u] \notin {"warm", "read", "drop"}) =>
              stdin[slot'[e]] = <<>> /\ lines[slot'[e]] = <<>>
    <3>. SUFFICES ASSUME NEW e \in Engines, slot'[e] # None,
                         \A u \in Threads : held'[u] = e => pc'[u] \notin {"warm", "read", "drop"}
                  PROVE  stdin[slot[e]] = <<>> /\ lines[slot[e]] = <<>> /\ slot'[e] = slot[e]
      BY <2>3
    <3>1. \A u \in Threads : held[u] = e => pc[u] \notin {"warm", "read", "drop"}
      BY <2>1, <2>2
    <3>. QED  BY <2>3, <3>1 DEF Dialogue
  <2>. QED  BY <2>1, <2>5, <2>6, <2>7 DEF Dialogue
<1>16. ASSUME NEW t \in Threads, GiveBack(t)
      PROVE  Dialogue'
  <2>1. UNCHANGED <<slot, child, stdin, lines>>
    BY <1>16 DEF GiveBack, engines, os
  <2>2. \A x \in Threads : pc'[x] \in {"warm", "read"} =>
           pc'[x] = pc[x] /\ held'[x] = held[x] /\ Cmd(x)' = Cmd(x)
    BY <1>16 DEF TypeOK, GiveBack, At, Return, Goto, Cmd
  <2>3. \A x \in Threads : pc'[x] = "drop" =>
           \/ pc[x] \in {"warm", "read", "drop"} /\ held'[x] = held[x]
           \/ /\ held'[x] \in Engines /\ slot[held'[x]] # None
              /\ \A u \in Threads : held[u] = held'[x] => pc[u] \notin {"warm", "read", "drop"}
    BY <1>16 DEF TypeOK, GiveBack, At, Return, Goto
  <2>4. \A x \in Threads : pc[x] \in {"warm", "read", "drop"} =>
           held'[x] = held[x] /\ pc'[x] \in {"warm", "read", "drop"}
    BY <1>16 DEF TypeOK, GiveBack, At, Return, Goto
  <2>. QED  BY <2>1, <2>2, <2>3, <2>4, DialogueFrame
<1>17. ASSUME BeginShutdown
      PROVE  Dialogue'
  BY <1>17 DEF TypeOK, ThreadOK, WithProcess, Dialogue, InStep, Proc, Cmd, Awaited, BeginShutdown,
       At, engines, threads, os, exiting
<1>18. ASSUME ShutdownEngine
      PROVE  Dialogue'
  <2>1. UNCHANGED <<slot, child, stdin, lines>>
    BY <1>18 DEF ShutdownEngine, engines, os
  <2>2. \A t \in Threads : pc'[t] \in {"warm", "read"} =>
           pc'[t] = pc[t] /\ held'[t] = held[t] /\ Cmd(t)' = Cmd(t)
    BY <1>18 DEF TypeOK, ThreadOK, ShutdownEngine, At, Goto, Cmd
  <2>3. \A t \in Threads : pc'[t] = "drop" =>
           \/ pc[t] \in {"warm", "read", "drop"} /\ held'[t] = held[t]
           \/ /\ held'[t] \in Engines /\ slot[held'[t]] # None
              /\ \A u \in Threads : held[u] = held'[t] => pc[u] \notin {"warm", "read", "drop"}
    <3>1. /\ pc[Owner] = "idle" /\ pool \in Seq(Engines) /\ pool # <<>>
          /\ \/ pc' = pc /\ held' = held
             \/ /\ slot[Head(pool)] # None
                /\ held' = [held EXCEPT ![Owner] = Head(pool)] /\ pc' = [pc EXCEPT ![Owner] = "drop"]
      BY <1>18 DEF TypeOK, ShutdownEngine, At, Goto
    <3>2. Head(pool) \in Engines /\ \A u \in Threads : held[u] # Head(pool)
      BY <3>1, TailOf DEF Alone
    <3>3. CASE pc' = pc /\ held' = held
      BY <3>3
    <3>4. CASE /\ slot[Head(pool)] # None
               /\ held' = [held EXCEPT ![Owner] = Head(pool)] /\ pc' = [pc EXCEPT ![Owner] = "drop"]
      <4>1. /\ held'[Owner] = Head(pool)
            /\ \A t \in Threads \ {Owner} : held'[t] = held[t] /\ pc'[t] = pc[t]
        BY <3>4 DEF TypeOK
      <4>. QED  BY <3>2, <3>4, <4>1
    <3>. QED  BY <3>1, <3>3, <3>4
  <2>4. \A t \in Threads : pc[t] \in {"warm", "read", "drop"} =>
           held'[t] = held[t] /\ pc'[t] \in {"warm", "read", "drop"}
    BY <1>18 DEF TypeOK, ThreadOK, ShutdownEngine, At, Goto
  <2>. QED  BY <2>1, <2>2, <2>3, <2>4, DialogueFrame
<1>19. ASSUME ShutdownDone
      PROVE  Dialogue'
  BY <1>19 DEF Dialogue, InStep, Proc, Cmd, Awaited, ShutdownDone, At, engines, threads, os, exiting
<1>20. ASSUME NEW p \in Pids, NEW s \in Answers, Answer(p, s)
      PROVE  Dialogue'
  <2>1. /\ child[p] = "live" /\ stdin[p] \in Seq(Request) /\ stdin[p] # <<>> /\ lines[p] \in Seq(Line) /\ p # None
        /\ UNCHANGED <<slot, held, calls, child, pc>>
        /\ lines' = [lines EXCEPT ![p] = Append(@, [of |-> Head(stdin[p]), says |-> s])]
        /\ stdin' = stdin
    BY <1>20 DEF TypeOK, Answer, Emit, engines, threads
  <2>2. PICK t \in Threads : pc[t] \in {"warm", "read", "drop"} /\ Proc(t) = p /\ held[t] \in Engines
    BY <2>1, Partner
  <2>3. \A u \in Threads : Proc(u)' = Proc(u) /\ Awaited(u)' = Awaited(u)
    BY <2>1 DEF Proc, Awaited, Cmd
  <2>4. \A u \in Threads \ {t} : pc[u] \in {"warm", "read", "drop"} => Proc(u) # p /\ Proc(u) \in Pids
    BY <2>2, SameProc, ProcType DEF WithProcess
  <2>5. \A q \in Pids \ {p} : stdin'[q] = stdin[q] /\ lines'[q] = lines[q]
    BY <2>1 DEF TypeOK
  <2>6. \A e \in Engines : slot[e] = p => e = held[t]
    BY <2>1, <2>2 DEF OwnProcess, Proc
  <2>7. ASSUME pc[t] \in {"warm", "read"}
        PROVE  InStep(stdin'[p], lines'[p], Awaited(t))
    <3>1. InStep(stdin[p], lines[p], Awaited(t))
      BY <2>2, <2>7 DEF Dialogue
    <3>2. Head(stdin[p]) \in Request
      BY <2>1, TailOf
    <3>3. Awaited(t) = Head(stdin[p])
      BY <2>1, <3>1 DEF InStep
    <3>4. s \in Says
      BY DEF Says
    <3>5. lines'[p] = Append(lines[p], [of |-> Awaited(t), says |-> s])
      BY <2>1, <3>3 DEF TypeOK
    <3>6. stdin'[p] = stdin[p]
      BY <2>1 DEF TypeOK
    <3>. QED  BY <2>1, <3>1, <3>2, <3>3, <3>4, <3>5, <3>6, InStepSay, PoolAssumption
  <2>8. ASSUME pc[t] = "drop"
        PROVE  \A i \in DOMAIN stdin'[p] : stdin'[p][i][1] = t
    <3>1. \A i \in DOMAIN stdin[p] : stdin[p][i][1] = t
      BY <2>2, <2>8 DEF Dialogue
    <3>2. stdin'[p] = stdin[p]
      BY <2>1 DEF TypeOK
    <3>. QED  BY <3>1, <3>2
  <2>9. \A u \in Threads : pc[u] \in {"warm", "read"} =>
           InStep(stdin'[Proc(u)], lines'[Proc(u)], Awaited(u))
    <3>1. ASSUME NEW u \in Threads \ {t}, pc[u] \in {"warm", "read"}
          PROVE  InStep(stdin'[Proc(u)], lines'[Proc(u)], Awaited(u))
      <4>1. InStep(stdin[Proc(u)], lines[Proc(u)], Awaited(u))
        BY <3>1 DEF Dialogue
      <4>. QED  BY <2>4, <2>5, <3>1, <4>1
    <3>. QED  BY <2>2, <2>7, <3>1
  <2>10. \A u \in Threads : pc[u] = "drop" => \A i \in DOMAIN stdin'[Proc(u)] : stdin'[Proc(u)][i][1] = u
    <3>1. \A u \in Threads \ {t} : pc[u] = "drop" => stdin'[Proc(u)] = stdin[Proc(u)]
      BY <2>4, <2>5
    <3>. QED  BY <2>2, <2>8, <3>1 DEF Dialogue
  <2>11. \A e \in Engines :
            slot[e] # None /\ (\A u \in Threads : held[u] = e => pc[u] \notin {"warm", "read", "drop"}) =>
               stdin'[slot[e]] = <<>> /\ lines'[slot[e]] = <<>>
    <3>. SUFFICES ASSUME NEW e \in Engines, slot[e] # None,
                         \A u \in Threads : held[u] = e => pc[u] \notin {"warm", "read", "drop"}
                  PROVE  stdin'[slot[e]] = <<>> /\ lines'[slot[e]] = <<>>
      OBVIOUS
    <3>1. slot[e] \in Pids \ {p}
      BY <2>2, <2>6 DEF TypeOK
    <3>. QED  BY <2>5, <3>1 DEF Dialogue
  <2>12. \A q \in Pids : child[q] = "free" => stdin'[q] = <<>> /\ lines'[q] = <<>>
    BY <2>1, <2>5 DEF Dialogue
  <2>13. /\ \A u \in Threads : pc'[u] \in {"warm", "read"} =>
               InStep(stdin'[Proc(u)'], lines'[Proc(u)'], Awaited(u)')
         /\ \A u \in Threads : pc'[u] = "drop" => \A i \in DOMAIN stdin'[Proc(u)'] : stdin'[Proc(u)'][i][1] = u
    BY <2>1, <2>3, <2>9, <2>10
  <2>. QED  BY <2>1, <2>11, <2>12, <2>13 DEF Dialogue
<1>21. ASSUME NEW p \in Pids, Ready(p)
      PROVE  Dialogue'
  <2>1. /\ child[p] = "live" /\ stdin[p] \in Seq(Request) /\ stdin[p] # <<>> /\ lines[p] \in Seq(Line) /\ p # None
        /\ UNCHANGED <<slot, held, calls, child, pc>>
        /\ lines' = [lines EXCEPT ![p] = Append(@, [of |-> Head(stdin[p]), says |-> "ready"])]
        /\ stdin' = [stdin EXCEPT ![p] = Tail(@)]
    BY <1>21 DEF TypeOK, Ready, Emit, engines, threads
  <2>2. PICK t \in Threads : pc[t] \in {"warm", "read", "drop"} /\ Proc(t) = p /\ held[t] \in Engines
    BY <2>1, Partner
  <2>3. \A u \in Threads : Proc(u)' = Proc(u) /\ Awaited(u)' = Awaited(u)
    BY <2>1 DEF Proc, Awaited, Cmd
  <2>4. \A u \in Threads \ {t} : pc[u] \in {"warm", "read", "drop"} => Proc(u) # p /\ Proc(u) \in Pids
    BY <2>2, SameProc, ProcType DEF WithProcess
  <2>5. \A q \in Pids \ {p} : stdin'[q] = stdin[q] /\ lines'[q] = lines[q]
    BY <2>1 DEF TypeOK
  <2>6. \A e \in Engines : slot[e] = p => e = held[t]
    BY <2>1, <2>2 DEF OwnProcess, Proc
  <2>7. ASSUME pc[t] \in {"warm", "read"}
        PROVE  InStep(stdin'[p], lines'[p], Awaited(t))
    <3>1. InStep(stdin[p], lines[p], Awaited(t))
      BY <2>2, <2>7 DEF Dialogue
    <3>2. Head(stdin[p]) \in Request
      BY <2>1, TailOf
    <3>3. Awaited(t) = Head(stdin[p])
      BY <2>1, <3>1 DEF InStep
    <3>4. "ready" \in Says
      BY DEF Says
    <3>5. lines'[p] = Append(lines[p], [of |-> Awaited(t), says |-> "ready"])
      BY <2>1, <3>3 DEF TypeOK
    <3>6. stdin'[p] = Tail(stdin[p])
      BY <2>1 DEF TypeOK
    <3>7. Tail(stdin[p]) = <<>> /\ InStep(<<>>, Append(lines[p], [of |-> Awaited(t), says |-> "ready"]), Awaited(t))
      BY <2>1, <3>1, <3>2, <3>3, <3>4, InStepSay
    <3>. QED  BY <3>5, <3>6, <3>7
  <2>8. ASSUME pc[t] = "drop"
        PROVE  \A i \in DOMAIN stdin'[p] : stdin'[p][i][1] = t
    <3>1. \A i \in DOMAIN stdin[p] : stdin[p][i][1] = t
      BY <2>2, <2>8 DEF Dialogue
    <3>2. stdin'[p] = Tail(stdin[p])
      BY <2>1 DEF TypeOK
    <3>3. \A i \in DOMAIN Tail(stdin[p]) : i + 1 \in DOMAIN stdin[p] /\ Tail(stdin[p])[i] = stdin[p][i + 1]
      BY <2>1, TailOf
    <3>. QED  BY <3>1, <3>2, <3>3
  <2>9. \A u \in Threads : pc[u] \in {"warm", "read"} =>
           InStep(stdin'[Proc(u)], lines'[Proc(u)], Awaited(u))
    <3>1. ASSUME NEW u \in Threads \ {t}, pc[u] \in {"warm", "read"}
          PROVE  InStep(stdin'[Proc(u)], lines'[Proc(u)], Awaited(u))
      <4>1. InStep(stdin[Proc(u)], lines[Proc(u)], Awaited(u))
        BY <3>1 DEF Dialogue
      <4>. QED  BY <2>4, <2>5, <3>1, <4>1
    <3>. QED  BY <2>2, <2>7, <3>1
  <2>10. \A u \in Threads : pc[u] = "drop" => \A i \in DOMAIN stdin'[Proc(u)] : stdin'[Proc(u)][i][1] = u
    <3>1. \A u \in Threads \ {t} : pc[u] = "drop" => stdin'[Proc(u)] = stdin[Proc(u)]
      BY <2>4, <2>5
    <3>. QED  BY <2>2, <2>8, <3>1 DEF Dialogue
  <2>11. \A e \in Engines :
            slot[e] # None /\ (\A u \in Threads : held[u] = e => pc[u] \notin {"warm", "read", "drop"}) =>
               stdin'[slot[e]] = <<>> /\ lines'[slot[e]] = <<>>
    <3>. SUFFICES ASSUME NEW e \in Engines, slot[e] # None,
                         \A u \in Threads : held[u] = e => pc[u] \notin {"warm", "read", "drop"}
                  PROVE  stdin'[slot[e]] = <<>> /\ lines'[slot[e]] = <<>>
      OBVIOUS
    <3>1. slot[e] \in Pids \ {p}
      BY <2>2, <2>6 DEF TypeOK
    <3>. QED  BY <2>5, <3>1 DEF Dialogue
  <2>12. \A q \in Pids : child[q] = "free" => stdin'[q] = <<>> /\ lines'[q] = <<>>
    BY <2>1, <2>5 DEF Dialogue
  <2>13. /\ \A u \in Threads : pc'[u] \in {"warm", "read"} =>
               InStep(stdin'[Proc(u)'], lines'[Proc(u)'], Awaited(u)')
         /\ \A u \in Threads : pc'[u] = "drop" => \A i \in DOMAIN stdin'[Proc(u)'] : stdin'[Proc(u)'][i][1] = u
    BY <2>1, <2>3, <2>9, <2>10
  <2>. QED  BY <2>1, <2>11, <2>12, <2>13 DEF Dialogue
<1>22. ASSUME NEW p \in Pids, ProcessDies(p)
      PROVE  Dialogue'
  <2>1. /\ UNCHANGED <<slot, held, pc, calls, stdin, lines>>
        /\ child' = [child EXCEPT ![p] = "dead"]
    BY <1>22 DEF ProcessDies, engines, threads
  <2>2. \A q \in Pids : child'[q] = "free" => child[q] = "free"
    BY <2>1 DEF TypeOK
  <2>3. \A t \in Threads : Proc(t)' = Proc(t) /\ Awaited(t)' = Awaited(t)
    BY <2>1 DEF Proc, Awaited, Cmd
  <2>4. \A t \in Threads : pc'[t] \in {"warm", "read"} =>
           InStep(stdin'[Proc(t)'], lines'[Proc(t)'], Awaited(t)')
    BY <2>1, <2>3 DEF Dialogue
  <2>. QED  BY <2>1, <2>2, <2>3, <2>4 DEF Dialogue
<1>23. ASSUME CleanupBegin
      PROVE  Dialogue'
  <2>1. UNCHANGED <<slot, held, pc, calls, child, stdin, lines>>
    BY <1>23 DEF CleanupBegin, engines, threads, os
  <2>2. \A t \in Threads : Proc(t)' = Proc(t) /\ Awaited(t)' = Awaited(t)
    BY <2>1 DEF Proc, Awaited, Cmd
  <2>3. \A t \in Threads : pc'[t] \in {"warm", "read"} =>
           InStep(stdin'[Proc(t)'], lines'[Proc(t)'], Awaited(t)')
    BY <2>1, <2>2 DEF Dialogue
  <2>. QED  BY <2>1, <2>2, <2>3 DEF Dialogue
<1>24. ASSUME NEW p \in Pids, CleanupKill(p)
      PROVE  Dialogue'
  <2>1. /\ UNCHANGED <<slot, held, pc, calls, stdin, lines>>
        /\ child' = [child EXCEPT ![p] = "dead"] \/ child' = child
    BY <1>24 DEF CleanupKill, engines, threads
  <2>2. \A q \in Pids : child'[q] = "free" => child[q] = "free"
    BY <2>1 DEF TypeOK
  <2>3. \A t \in Threads : Proc(t)' = Proc(t) /\ Awaited(t)' = Awaited(t)
    BY <2>1 DEF Proc, Awaited, Cmd
  <2>4. \A t \in Threads : pc'[t] \in {"warm", "read"} =>
           InStep(stdin'[Proc(t)'], lines'[Proc(t)'], Awaited(t)')
    BY <2>1, <2>3 DEF Dialogue
  <2>. QED  BY <2>1, <2>2, <2>3, <2>4 DEF Dialogue
<1>25. ASSUME Exit
      PROVE  Dialogue'
  <2>1. UNCHANGED <<slot, held, pc, calls, child, stdin, lines>>
    BY <1>25 DEF Exit, engines, threads, os
  <2>2. \A t \in Threads : Proc(t)' = Proc(t) /\ Awaited(t)' = Awaited(t)
    BY <2>1 DEF Proc, Awaited, Cmd
  <2>3. \A t \in Threads : pc'[t] \in {"warm", "read"} =>
           InStep(stdin'[Proc(t)'], lines'[Proc(t)'], Awaited(t)')
    BY <2>1, <2>2 DEF Dialogue
  <2>. QED  BY <2>1, <2>2, <2>3 DEF Dialogue
<1>. QED
  BY <1>1, <1>2, <1>3, <1>4, <1>5, <1>6, <1>7, <1>8, <1>9, <1>10, <1>11, <1>12, <1>13,
     <1>14, <1>15, <1>16, <1>17, <1>18, <1>19, <1>20, <1>21, <1>22, <1>23, <1>24, <1>25
     DEF Next, ThreadStep, CallerStep, OwnerStep, EngineStep

(* A consumer reads only what answers its command.                          *)
LEMMA OwnAnswerStep ==
    ASSUME TypeOK, ThreadOK, Dialogue, OwnAnswer, Next
    PROVE  OwnAnswer'
<1>. USE PoolAssumption, ThreadsSplit
<1>1. ASSUME NEW e \in Engines, CreateEngine(e)
     PROVE  OwnAnswer'
  BY <1>1 DEF OwnAnswer, Cmd, CreateEngine, At, Goto, engines, os, exiting
<1>2. ASSUME PoolComplete
     PROVE  OwnAnswer'
  BY <1>2 DEF OwnAnswer, Cmd, PoolComplete, At, engines, threads, os, exiting
<1>3. ASSUME NEW c \in Callers, Call(c)
     PROVE  OwnAnswer'
  BY <1>3 DEF OwnAnswer, Cmd, Call, At, Goto, engines, os, exiting
<1>4. ASSUME NEW c \in Callers, Checkout(c)
     PROVE  OwnAnswer'
  BY <1>4 DEF OwnAnswer, Cmd, Checkout, At, Goto, os, exiting
<1>5. ASSUME NEW c \in Callers, CheckoutTimeout(c)
     PROVE  OwnAnswer'
  BY <1>5 DEF OwnAnswer, Cmd, CheckoutTimeout, At, Goto, engines, os, exiting
<1>6. ASSUME NEW c \in Callers, CountOp(c)
     PROVE  OwnAnswer'
  BY <1>6 DEF OwnAnswer, Cmd, CountOp, At, Goto, Proc, os, exiting
<1>7. ASSUME NEW t \in Threads, NEW p \in Pids, Spawn(t, p)
     PROVE  OwnAnswer'
  BY <1>7 DEF OwnAnswer, Cmd, Spawn, At, Goto, Proc, exiting
<1>8. ASSUME NEW t \in Threads, SpawnFails(t)
     PROVE  OwnAnswer'
  BY <1>8 DEF OwnAnswer, Cmd, SpawnFails, At, Goto, Proc, End, engines, os, exiting
<1>9. ASSUME NEW t \in Threads, Register(t)
     PROVE  OwnAnswer'
  <2>1. got' = got /\ calls' = calls
    BY <1>9 DEF Register
  <2>2. \A d \in Callers : got[d] # {} => d # t
    BY <1>9 DEF OwnAnswer, Register, At
  <2>3. \A d \in Callers : \/ pc'[d] = pc[d] /\ outcome'[d] = outcome[d]
                           \/ d = t /\ outcome'[d] # "success"
    <3>1. outcome[t] # "success"
      BY <1>9 DEF ThreadOK, Register, At
    <3>2. /\ \E l \in Pc : pc' = [pc EXCEPT ![t] = l]
          /\ outcome' = outcome \/ outcome' = [outcome EXCEPT ![t] = "error"]
      BY <1>9 DEF Register, WriteCmd, Goto, End, Pc
    <3>3. \A d \in Callers \ {t} : pc'[d] = pc[d] /\ outcome'[d] = outcome[d]
      BY <3>2, ThreadsSplit DEF TypeOK
    <3>4. outcome'[t] # "success"
      BY <3>1, <3>2 DEF TypeOK
    <3>. QED  BY <3>3, <3>4
  <2>. QED  BY <2>1, <2>2, <2>3 DEF OwnAnswer, Cmd
<1>10. ASSUME NEW t \in Threads, WarmLine(t)
      PROVE  OwnAnswer'
  BY <1>10 DEF TypeOK, OwnAnswer, Cmd, WarmLine, At, Goto, Proc, HasLine, NextLine, TakeLine,
       engines, exiting
<1>11. ASSUME NEW c \in Callers, SendCommand(c)
      PROVE  OwnAnswer'
  <2>1. got' = got /\ calls' = calls /\ pc[c] = "write" /\ outcome[c] \notin {"success", "failure"}
    BY <1>11 DEF ThreadOK, Threads, SendCommand, At
  <2>2. /\ \E l \in {"read", "drop"} : pc' = [pc EXCEPT ![c] = l]
        /\ outcome' = outcome \/ outcome' = [outcome EXCEPT ![c] = "error"]
    BY <1>11 DEF SendCommand, WriteCmd, Goto, End
  <2>3. \A d \in Callers \ {c} : pc'[d] = pc[d] /\ outcome'[d] = outcome[d]
    BY <2>2 DEF TypeOK
  <2>4. outcome'[c] # "success"
    BY <2>1, <2>2 DEF TypeOK
  <2>5. got[c] = {}
    BY <2>1 DEF OwnAnswer
  <2>. QED  BY <2>1, <2>3, <2>4, <2>5 DEF OwnAnswer, Cmd
<1>12. ASSUME NEW c \in Callers, ReadLine(c)
      PROVE  OwnAnswer'
  <2>1. /\ pc[c] = "read" /\ lines[Proc(c)] \in Seq(Line) /\ lines[Proc(c)] # <<>>
        /\ calls' = calls /\ c \in Threads
    BY <1>12, ProcType DEF TypeOK, ReadLine, At, HasLine, WithProcess
  <2>2. NextLine(c) = lines[Proc(c)][1] /\ 1 \in DOMAIN lines[Proc(c)]
    BY <2>1, TailOf DEF NextLine
  <2>3. NextLine(c).of = Cmd(c)
    <3>1. lines[Proc(c)][1].of = Awaited(c)
      <4>1. InStep(stdin[Proc(c)], lines[Proc(c)], Awaited(c))
        BY <2>1 DEF Dialogue
      <4>. QED  BY <2>2, <4>1 DEF InStep
    <3>2. Awaited(c) = Cmd(c)
      BY <2>1 DEF Awaited
    <3>. QED  BY <2>2, <3>1, <3>2
  <2>4. CASE NextLine(c).says # "ready"
    <3>1. got' = [got EXCEPT ![c] = @ \cup {NextLine(c)}] /\ pc' = pc /\ outcome' = outcome
      BY <1>12, <2>4 DEF ReadLine
    <3>2. \A d \in Callers : got'[d] = IF d = c THEN got[d] \cup {NextLine(c)} ELSE got[d]
      BY <3>1 DEF TypeOK
    <3>3. outcome[c] # "success"
      BY <2>1 DEF ThreadOK
    <3>4. \A d \in Callers : Cmd(d)' = Cmd(d)
      BY <2>1 DEF Cmd
    <3>5. \A d \in Callers \ {c} : got'[d] = got[d]
      BY <3>2
    <3>6. got'[c] = got[c] \cup {NextLine(c)}
      BY <1>12, <3>2
    <3>. QED  BY <2>1, <2>3, <3>1, <3>3, <3>4, <3>5, <3>6 DEF OwnAnswer
  <2>5. CASE NextLine(c).says = "ready"
    <3>1. got' = got /\ pc' = [pc EXCEPT ![c] = "giveback"] /\ outcome' = [outcome EXCEPT ![c] = Parse(got[c])]
      BY <1>12, <2>5 DEF ReadLine, Goto, End
    <3>2. Parse(got[c]) = "success" => got[c] # {}
      BY DEF Parse
    <3>3. /\ \A d \in Callers \ {c} : pc'[d] = pc[d] /\ outcome'[d] = outcome[d]
          /\ pc'[c] = "giveback" /\ outcome'[c] = Parse(got[c])
      BY <2>1, <3>1 DEF TypeOK
    <3>4. \A d \in Callers : Cmd(d)' = Cmd(d)
      BY <2>1 DEF Cmd
    <3>. QED  BY <3>1, <3>2, <3>3, <3>4 DEF OwnAnswer
  <2>. QED  BY <2>4, <2>5
<1>13. ASSUME NEW t \in Threads, ReadFails(t)
      PROVE  OwnAnswer'
  BY <1>13 DEF TypeOK, OwnAnswer, Cmd, ReadFails, Goto, Proc, End, HasLine, engines, os, exiting
<1>14. ASSUME NEW t \in Threads, DropProcess(t)
      PROVE  OwnAnswer'
  BY <1>14 DEF OwnAnswer, Cmd, DropProcess, At, Goto, Proc, engines, exiting
<1>15. ASSUME NEW t \in Threads, Unregister(t)
      PROVE  OwnAnswer'
  <2>1. got' = got /\ calls' = calls /\ outcome' = outcome /\ pc[t] = "unregister"
    BY <1>15, UnregisterWrites
  <2>2. /\ \E l \in Pc : pc' = [pc EXCEPT ![t] = l]
        /\ pc'[t] = "giveback" \/ outcome[t] # "error"
    BY <1>15, UnregisterWrites DEF TypeOK, Pc
  <2>. QED  BY <2>1, <2>2 DEF TypeOK, OwnAnswer, Cmd
<1>16. ASSUME NEW t \in Threads, GiveBack(t)
      PROVE  OwnAnswer'
  BY <1>16 DEF TypeOK, OwnAnswer, Cmd, GiveBack, At, Goto, Return, End, os, exiting
<1>17. ASSUME BeginShutdown
      PROVE  OwnAnswer'
  BY <1>17 DEF OwnAnswer, Cmd, BeginShutdown, At, engines, threads, os, exiting
<1>18. ASSUME ShutdownEngine
      PROVE  OwnAnswer'
  BY <1>18 DEF TypeOK, OwnAnswer, Cmd, ShutdownEngine, At, Goto, os, exiting
<1>19. ASSUME ShutdownDone
      PROVE  OwnAnswer'
  BY <1>19 DEF OwnAnswer, Cmd, ShutdownDone, At, engines, threads, os, exiting
<1>20. ASSUME NEW p \in Pids, NEW s \in Answers, Answer(p, s)
      PROVE  OwnAnswer'
  BY <1>20 DEF OwnAnswer, Cmd, Answer, Emit, engines, threads, exiting
<1>21. ASSUME NEW p \in Pids, Ready(p)
      PROVE  OwnAnswer'
  BY <1>21 DEF OwnAnswer, Cmd, Ready, Emit, engines, threads, exiting
<1>22. ASSUME NEW p \in Pids, ProcessDies(p)
      PROVE  OwnAnswer'
  BY <1>22 DEF OwnAnswer, Cmd, ProcessDies, engines, threads, exiting
<1>23. ASSUME CleanupBegin
      PROVE  OwnAnswer'
  BY <1>23 DEF OwnAnswer, Cmd, CleanupBegin, engines, threads, os
<1>24. ASSUME NEW p \in Pids, CleanupKill(p)
      PROVE  OwnAnswer'
  BY <1>24 DEF OwnAnswer, Cmd, CleanupKill, engines, threads
<1>25. ASSUME Exit
      PROVE  OwnAnswer'
  BY <1>25 DEF OwnAnswer, Cmd, Exit, engines, threads, os
<1>. QED
  BY <1>1, <1>2, <1>3, <1>4, <1>5, <1>6, <1>7, <1>8, <1>9, <1>10, <1>11, <1>12, <1>13,
     <1>14, <1>15, <1>16, <1>17, <1>18, <1>19, <1>20, <1>21, <1>22, <1>23, <1>24, <1>25
     DEF Next, ThreadStep, CallerStep, OwnerStep, EngineStep

-----------------------------------------------------------------------------
(* The invariant.                                                           *)

PoolInv ==
    TypeOK /\ ThreadOK /\ Alone /\ AllThere /\ OwnProcess /\ Known /\ Dialogue /\ OwnAnswer

(* It holds before the first engine is created. *)
LEMMA InvInit == Init => PoolInv
<1>. SUFFICES ASSUME Init PROVE PoolInv
  OBVIOUS
<1>. USE PoolAssumption, ThreadsSplit
<1>1. TypeOK
  BY DEF Init, TypeOK, Pc
<1>2. /\ \A t \in Threads : pc[t] = "idle" /\ held[t] = None /\ outcome[t] = "none"
      /\ \A e \in Engines : slot[e] = None
      /\ \A p \in Pids : child[p] = "free" /\ stdin[p] = <<>> /\ lines[p] = <<>>
      /\ \A c \in Callers : got[c] = {}
      /\ phase = "create" /\ pool = <<>> /\ exit = "no" /\ doomed = {}
  BY DEF Init
<1>3. ThreadOK
  BY <1>2 DEF ThreadOK, WithProcess
<1>4. Alone /\ AllThere
  BY <1>2 DEF Alone, AllThere
<1>5. OwnProcess /\ Known
  BY <1>2 DEF OwnProcess, Known
<1>6. Dialogue
  BY <1>2 DEF Dialogue
<1>7. OwnAnswer
  BY <1>2 DEF OwnAnswer
<1>. QED  BY <1>1, <1>3, <1>4, <1>5, <1>6, <1>7 DEF PoolInv

(* Every step keeps it. *)
LEMMA InvNext == PoolInv /\ [Next]_vars => PoolInv'
<1>1. ASSUME PoolInv, Next PROVE PoolInv'
  BY <1>1, TypeStep, ThreadOKStep, AloneStep, AllThereStep, OwnProcessStep, KnownStep, DialogueStep,
     OwnAnswerStep DEF PoolInv
<1>2. ASSUME PoolInv, UNCHANGED vars PROVE PoolInv'
  <2>1. /\ UNCHANGED <<phase, pool, slot, ops, pc, held, calls, got, outcome, child, stdin, lines>>
        /\ UNCHANGED <<spoke, registered, doomed, exit, deaths>>
    BY <1>2 DEF vars, engines, threads, os, exiting
  <2>2. TypeOK'
    BY <1>2, <2>1 DEF PoolInv, TypeOK
  <2>3. ThreadOK' /\ Alone' /\ AllThere'
    BY <1>2, <2>1 DEF PoolInv, ThreadOK, Alone, AllThere, Proc
  <2>4. OwnProcess' /\ Known'
    BY <1>2, <2>1 DEF PoolInv, OwnProcess, Known, Proc
  <2>5. Dialogue'
    BY <1>2, <2>1 DEF PoolInv, Dialogue, InStep, Awaited, Cmd, Proc
  <2>6. OwnAnswer'
    BY <1>2, <2>1 DEF PoolInv, OwnAnswer, Cmd
  <2>. QED  BY <2>2, <2>3, <2>4, <2>5, <2>6 DEF PoolInv
<1>. QED  BY <1>1, <1>2

LEMMA Invariance == Spec => []PoolInv
BY InvInit, InvNext, PTL DEF Spec

-----------------------------------------------------------------------------
(* What the pool promises.                                                  *)

(* The variables keep their types, through time-outs, crashes and forced    *)
(* exits.                                                                   *)
THEOREM PoolTypes == Spec => []TypeOK
<1>1. PoolInv => TypeOK
  BY DEF PoolInv
<1>. QED  BY <1>1, Invariance, PTL

(* No call succeeds on the answer to an earlier one (execute), however many *)
(* engines and consumers there are and whatever failed before.              *)
THEOREM AnswersAreOwn == Spec => []SuccessIsOwn
<1>1. PoolInv => SuccessIsOwn
  BY DEF PoolInv, OwnAnswer, SuccessIsOwn
<1>. QED  BY <1>1, Invariance, PTL

(* No live process has work for a thread that has gone on: a process whose  *)
(* answer did not come is dropped first (ProcessState::drop).               *)
THEOREM ReturnsAreQuiet == Spec => []QuietAfterReturn
<1>1. PoolInv => QuietAfterReturn
  <2>. SUFFICES ASSUME PoolInv, NEW p \in Pids, child[p] = "live", NEW i \in DOMAIN stdin[p]
                PROVE  \E t \in Threads : /\ stdin[p][i][1] = t
                                          /\ pc[t] \in {"warm", "read", "drop"}
                                          /\ held[t] # None /\ Proc(t) = p
    BY DEF QuietAfterReturn
  <2>1. TypeOK /\ ThreadOK /\ OwnProcess /\ Dialogue
    BY DEF PoolInv
  <2>2. stdin[p] # <<>>
    OBVIOUS
  <2>3. PICK t \in Threads : pc[t] \in {"warm", "read", "drop"} /\ Proc(t) = p /\ held[t] \in Engines
    BY <2>1, <2>2, Partner
  <2>4. \A j \in DOMAIN stdin[p] : stdin[p][j][1] = t
    <3>1. CASE pc[t] \in {"warm", "read"}
      <4>1. InStep(stdin[p], lines[p], Awaited(t))
        BY <2>1, <2>3, <3>1 DEF Dialogue
      <4>. QED  BY <4>1, InStepOwn
    <3>2. CASE pc[t] = "drop"
      BY <2>1, <2>3, <3>2 DEF Dialogue
    <3>. QED  BY <2>3, <3>1, <3>2
  <2>. QED  BY <2>3, <2>4, PoolAssumption
<1>. QED  BY <1>1, Invariance, PTL

(* The guard of execute brings every engine back once: none is lost to a    *)
(* failed call and none is in two hands.                                    *)
THEOREM EnginesStay == Spec => []EnginesConserved
<1>1. PoolInv => EnginesConserved
  <2>. SUFFICES ASSUME PoolInv PROVE EnginesConserved
    OBVIOUS
  <2>. DEFINE Holders(e) == {t \in Threads : held[t] = e}
              Places(e)  == {i \in DOMAIN pool : pool[i] = e}
  <2>1. Alone /\ AllThere
    BY DEF PoolInv
  <2>2. Cardinality({}) = 0
    BY FS_EmptySet
  <2>3. ASSUME NEW e \in Engines
        PROVE  /\ Cardinality(Holders(e)) + Cardinality(Places(e)) <= 1
               /\ phase = "serve" => Cardinality(Holders(e)) + Cardinality(Places(e)) = 1
    <3>1. e # None
      BY PoolAssumption
    <3>2. CASE \E t \in Threads : held[t] = e
      <4>1. PICK t \in Threads : held[t] = e
        BY <3>2
      <4>2. Holders(e) = {t} /\ Places(e) = {}
        BY <2>1, <3>1, <4>1 DEF Alone
      <4>3. Cardinality({t}) = 1
        BY FS_Singleton
      <4>. QED  BY <2>2, <4>2, <4>3
    <3>3. CASE \E i \in DOMAIN pool : pool[i] = e
      <4>1. PICK i \in DOMAIN pool : pool[i] = e
        BY <3>3
      <4>2. Holders(e) = {} /\ Places(e) = {i}
        BY <2>1, <4>1 DEF Alone
      <4>3. Cardinality({i}) = 1
        BY FS_Singleton
      <4>. QED  BY <2>2, <4>2, <4>3, SMTT(30)
    <3>4. CASE ~(\E t \in Threads : held[t] = e) /\ ~(\E i \in DOMAIN pool : pool[i] = e)
      <4>1. Holders(e) = {} /\ Places(e) = {}
        BY <3>4
      <4>2. phase # "serve"
        BY <2>1, <3>4 DEF AllThere
      <4>. QED  BY <2>2, <4>1, <4>2
    <3>. QED  BY <3>2, <3>3, <3>4
  <2>. QED  BY <2>3 DEF EnginesConserved
<1>. QED  BY <1>1, Invariance, PTL

(* A forced exit misses no process that was warmed up before it began       *)
(* (register_pid, cleanup_all_processes).                                   *)
THEOREM CleanupKnows == Spec => []ChildrenAreKnown
<1>1. PoolInv => ChildrenAreKnown
  <2>. SUFFICES ASSUME PoolInv, NEW p \in Pids, child[p] = "live"
                PROVE  \E e \in Engines :
                          /\ slot[e] = p
                          /\ \A f \in Engines \ {e} : slot[f] # p
                          /\ \/ p \in registered \cup doomed
                             \/ \E t \in Threads : held[t] = e /\ pc[t] \in {"register", "unregister"}
    BY DEF ChildrenAreKnown
  <2>1. OwnProcess /\ Known /\ p # None
    BY PoolAssumption DEF PoolInv
  <2>2. PICK e \in Engines : slot[e] = p
    BY <2>1 DEF OwnProcess
  <2>3. \A f \in Engines \ {e} : slot[f] # p
    BY <2>1, <2>2 DEF OwnProcess
  <2>4. p \in registered \cup doomed \/ \E t \in Threads : held[t] = e /\ pc[t] = "register"
    BY <2>1, <2>2 DEF Known
  <2>. QED  BY <2>2, <2>3, <2>4
<1>. QED  BY <1>1, Invariance, PTL
=============================================================================
