---------------------------- MODULE ExifToolPool ----------------------------
(***************************************************************************)
(* The pool of exiftool engines of a run (crates/core/src/exiftool.rs).    *)
(* An engine keeps one child process that reads commands from its stdin    *)
(* and whose stdout a reader thread turns into a channel of lines.  The    *)
(* consumers of the processor check engines out, send one command each and *)
(* read lines up to {ready}; the pipeline thread (the owner) creates the   *)
(* pool and shuts it down.  Processes hang, crash and cannot be spawned,   *)
(* and a forced exit kills the registered ones under the feet of everybody.*)
(*                                                                         *)
(* Time is left out: a read that finds no line may always time out.        *)
(***************************************************************************)
EXTENDS Naturals, Sequences, FiniteSets

CONSTANTS
    Engines,      \* the engines of the pool
    Callers,      \* the consumers that write metadata
    Owner,        \* the pipeline thread
    Pids,         \* process identifiers, each of which is given out once
    None,         \* no engine, no process
    OpLimit,      \* operations before an engine recycles its process (2500)
    Answers,      \* what exiftool says of a file
    MaxCalls,     \* bound on the calls of all consumers
    MaxDeaths,    \* bound on the processes that die by themselves
    MayExit       \* may the application be forced to exit?

ASSUME PoolAssumption ==
    /\ Owner \notin Callers
    /\ None \notin Engines \cup Pids
    /\ IsFiniteSet(Engines) /\ IsFiniteSet(Callers)
    /\ OpLimit \in Nat \ {0} /\ MaxCalls \in Nat /\ MaxDeaths \in Nat
    /\ Answers \subseteq {"updated", "unchanged", "error"}
    /\ MayExit \in BOOLEAN

Threads == Callers \cup {Owner}

(* A command: the n-th of its thread; the 0-th is the -ver of a warm-up. *)
Request == Threads \X (0..MaxCalls)

(* What a line of exiftool's output says, and of which command. *)
Says == Answers \cup {"ready"}
Line == [of : Request, says : Says]

VARIABLES
    phase,       \* what the owner does with the pool
    pool,        \* the channel of idle engines
    slot,        \* slot[e]: the process of engine e
    ops,         \* ops[e]: its op_counter
    pc,          \* where each thread is
    held,        \* the engine each thread holds
    calls,       \* how many calls each consumer has made
    got,         \* got[c]: the lines of the answer read so far
    outcome,     \* how the last call of each thread ended
    child,       \* child[p]: what became of process p
    stdin,       \* stdin[p]: the commands process p has not finished
    lines,       \* lines[p]: the channel of its output lines
    spoke,       \* spoke[p]: it has printed what it says of its command
    registered,  \* SPAWNED_PIDS
    doomed,      \* the pids cleanup_all_processes is going to kill
    exit,        \* how far the forced exit is
    deaths       \* processes that died by themselves

threads == <<pc, held, calls, got, outcome>>
engines == <<pool, slot, ops>>
os      == <<child, stdin, lines, spoke>>
exiting == <<doomed, exit>>
vars    == <<phase, engines, threads, os, registered, exiting, deaths>>

Pc == {"idle", "checkout", "count", "ensure", "register", "warm", "write", "read", "drop",
       "unregister", "giveback"}

TypeOK ==
    /\ phase \in {"create", "serve", "shutdown", "over"}
    /\ pool \in Seq(Engines)
    /\ slot \in [Engines -> Pids \cup {None}]
    /\ ops \in [Engines -> 0..OpLimit]
    /\ pc \in [Threads -> Pc]
    /\ held \in [Threads -> Engines \cup {None}]
    /\ calls \in [Callers -> 0..MaxCalls]
    /\ got \in [Callers -> SUBSET Line]
    /\ outcome \in [Threads -> {"none", "success", "failure", "error"}]
    /\ child \in [Pids -> {"free", "live", "dead", "gone"}]
    /\ stdin \in [Pids -> Seq(Request)]
    /\ lines \in [Pids -> Seq(Line)]
    /\ spoke \in [Pids -> BOOLEAN]
    /\ registered \subseteq Pids /\ doomed \subseteq Pids
    /\ exit \in {"no", "killing", "exited"}
    /\ deaths \in 0..MaxDeaths

Init ==
    /\ phase = "create" /\ pool = <<>>
    /\ slot = [e \in Engines |-> None] /\ ops = [e \in Engines |-> 0]
    /\ pc = [t \in Threads |-> "idle"] /\ held = [t \in Threads |-> None]
    /\ calls = [c \in Callers |-> 0] /\ got = [c \in Callers |-> {}]
    /\ outcome = [t \in Threads |-> "none"]
    /\ child = [p \in Pids |-> "free"]
    /\ stdin = [p \in Pids |-> <<>>] /\ lines = [p \in Pids |-> <<>>]
    /\ spoke = [p \in Pids |-> FALSE]
    /\ registered = {} /\ doomed = {} /\ exit = "no"
    /\ deaths = 0

-----------------------------------------------------------------------------
(* Threads.                                                                 *)

At(t, l)  == pc[t] = l
Goto(t, l) == pc' = [pc EXCEPT ![t] = l]
End(t, o)  == outcome' = [outcome EXCEPT ![t] = o]

(* The process of the engine that t holds, and the command t is at. *)
Proc(t) == slot[held[t]]
Cmd(t)  == <<t, IF t = Owner THEN 0 ELSE calls[t]>>

(* Pool::new creates the next engine. *)
CreateEngine(e) ==
    /\ phase = "create" /\ At(Owner, "idle")
    /\ e \notin {pool[i] : i \in DOMAIN pool}
    /\ held' = [held EXCEPT ![Owner] = e]
    /\ Goto(Owner, "ensure")
    /\ UNCHANGED <<phase, engines, calls, got, outcome, os, registered, exiting, deaths>>

PoolComplete ==
    /\ phase = "create" /\ At(Owner, "idle")
    /\ Len(pool) = Cardinality(Engines)
    /\ phase' = "serve"
    /\ UNCHANGED <<engines, threads, os, registered, exiting, deaths>>

Made == {r \in Callers \X (1..MaxCalls) : r[2] <= calls[r[1]]}

(* A consumer calls pool.execute.  Before an exit is forced the run was     *)
(* cancelled, and the consumers drop their files instead.                   *)
Call(c) ==
    /\ phase = "serve" /\ exit = "no" /\ At(c, "idle") /\ Cardinality(Made) < MaxCalls
    /\ calls' = [calls EXCEPT ![c] = @ + 1]
    /\ Goto(c, "checkout")
    /\ UNCHANGED <<phase, engines, held, got, outcome, os, registered, exiting, deaths>>

Checkout(c) ==
    /\ At(c, "checkout") /\ pool # <<>>
    /\ held' = [held EXCEPT ![c] = Head(pool)]
    /\ pool' = Tail(pool)
    /\ Goto(c, "count")
    /\ UNCHANGED <<phase, slot, ops, calls, got, outcome, os, registered, exiting, deaths>>

(* No engine came back for 300 seconds. *)
CheckoutTimeout(c) ==
    /\ At(c, "checkout") /\ pool = <<>>
    /\ Goto(c, "idle")
    /\ UNCHANGED <<phase, engines, held, calls, got, outcome, os, registered, exiting, deaths>>

(* The beginning of execute: the counter, and the recycling of the process; *)
(* then ensure_running, for an engine that has a process.                   *)
CountOp(c) ==
    LET full == ops[held[c]] >= OpLimit IN
    /\ At(c, "count")
    /\ ops' = [ops EXCEPT ![held[c]] = IF full THEN 0 ELSE @ + 1]
    /\ Goto(c, IF Proc(c) = None THEN "ensure" ELSE IF full THEN "drop" ELSE "write")
    /\ UNCHANGED <<phase, pool, slot, held, calls, got, outcome, os, registered, exiting, deaths>>

(* ensure_running spawns a process for an engine without one, or cannot. *)
Spawn(t, p) ==
    /\ At(t, "ensure") /\ Proc(t) = None
    /\ child[p] = "free"
    /\ child' = [child EXCEPT ![p] = "live"]
    /\ slot' = [slot EXCEPT ![held[t]] = p]
    /\ Goto(t, "register")
    /\ UNCHANGED <<phase, pool, ops, held, calls, got, outcome, stdin, lines, spoke, registered, exiting,
                   deaths>>

SpawnFails(t) ==
    /\ At(t, "ensure") /\ Proc(t) = None
    /\ End(t, "error")
    /\ Goto(t, "giveback")
    /\ UNCHANGED <<phase, engines, held, calls, got, os, registered, exiting, deaths>>

(* A command is written to the process, or the pipe is broken. *)
WriteCmd(t, r, next) ==
    IF child[Proc(t)] = "live"
    THEN /\ stdin' = [stdin EXCEPT ![Proc(t)] = Append(@, r)]
         /\ Goto(t, next)
         /\ UNCHANGED outcome
    ELSE /\ End(t, "error")
         /\ Goto(t, "drop")
         /\ UNCHANGED stdin

(* register_pid, and the command of the warm-up. *)
Register(t) ==
    /\ At(t, "register")
    /\ registered' = registered \cup {Proc(t)}
    /\ WriteCmd(t, <<t, 0>>, "warm")
    /\ UNCHANGED <<phase, engines, held, calls, got, child, lines, spoke, exiting, deaths>>

(* The next line of the process. *)
HasLine(t)  == lines[Proc(t)] # <<>>
NextLine(t) == Head(lines[Proc(t)])
TakeLine(t) == lines' = [lines EXCEPT ![Proc(t)] = Tail(@)]

(* The warm-up skips lines up to {ready}. *)
WarmLine(t) ==
    /\ At(t, "warm") /\ HasLine(t)
    /\ TakeLine(t)
    /\ IF NextLine(t).says # "ready"
       THEN UNCHANGED pc
       ELSE Goto(t, IF t = Owner THEN "giveback" ELSE "write")
    /\ UNCHANGED <<phase, engines, held, calls, got, outcome, child, stdin, spoke, registered, exiting,
                   deaths>>

SendCommand(c) ==
    /\ At(c, "write")
    /\ WriteCmd(c, Cmd(c), "read")
    /\ UNCHANGED <<phase, engines, held, calls, got, child, lines, spoke, registered, exiting, deaths>>

(* parse_exiftool_output *)
Parse(answer) ==
    LET said == {l.says : l \in answer}
    IN  IF "error" \notin said /\ said \cap {"unchanged", "updated"} # {} THEN "success" ELSE "failure"

ReadLine(c) ==
    /\ At(c, "read") /\ HasLine(c)
    /\ TakeLine(c)
    /\ IF NextLine(c).says # "ready"
       THEN /\ got' = [got EXCEPT ![c] = @ \cup {NextLine(c)}]
            /\ UNCHANGED <<pc, outcome>>
       ELSE /\ End(c, Parse(got[c]))
            /\ Goto(c, "giveback")
            /\ UNCHANGED got
    /\ UNCHANGED <<phase, engines, held, calls, child, stdin, spoke, registered, exiting, deaths>>

(* A failed read that keeps the process (a deviation, not the code). *)
ReadFailsKeeping(t) ==
    /\ pc[t] \in {"warm", "read"} /\ ~HasLine(t)
    /\ End(t, "error")
    /\ Goto(t, "giveback")
    /\ UNCHANGED <<phase, engines, held, calls, got, os, registered, exiting, deaths>>

(* A read without a timeout (a deviation, not the code). *)
ReadFailsAtEnd(t) ==
    /\ pc[t] \in {"warm", "read"} /\ ~HasLine(t) /\ child[Proc(t)] # "live"
    /\ End(t, "error")
    /\ Goto(t, "drop")
    /\ UNCHANGED <<phase, engines, held, calls, got, os, registered, exiting, deaths>>

(* No line in time, or the channel is at its end: the process is given up. *)
ReadFails(t) ==
    /\ pc[t] \in {"warm", "read"} /\ ~HasLine(t)
    /\ End(t, "error")
    /\ Goto(t, "drop")
    /\ UNCHANGED <<phase, engines, held, calls, got, os, registered, exiting, deaths>>

(* Not killing a process that does not end by itself (a deviation, not the code). *)
DropWithoutKill(t) ==
    /\ At(t, "drop")
    /\ Goto(t, "unregister")
    /\ UNCHANGED <<phase, engines, held, calls, got, outcome, os, registered, exiting, deaths>>

(* ProcessState::drop: the process ends by itself within half a second or is *)
(* killed, and is reaped; its pipes and its channel go with it.              *)
DropProcess(t) ==
    /\ At(t, "drop")
    /\ child' = [child EXCEPT ![Proc(t)] = "gone"]
    /\ stdin' = [stdin EXCEPT ![Proc(t)] = <<>>]
    /\ lines' = [lines EXCEPT ![Proc(t)] = <<>>]
    /\ spoke' = [spoke EXCEPT ![Proc(t)] = FALSE]
    /\ Goto(t, "unregister")
    /\ UNCHANGED <<phase, engines, held, calls, got, outcome, registered, exiting, deaths>>

(* unregister_pid; then the thread goes on where it dropped the process. *)
Unregister(t) ==
    /\ At(t, "unregister")
    /\ registered' = registered \ {Proc(t)}
    /\ slot' = [slot EXCEPT ![held[t]] = None]
    /\ IF outcome[t] = "error"
       THEN Goto(t, "giveback") /\ UNCHANGED held
       ELSE IF t = Owner
       THEN Goto(t, "idle") /\ held' = [held EXCEPT ![t] = None]
       ELSE Goto(t, "ensure") /\ UNCHANGED held
    /\ UNCHANGED <<phase, pool, ops, calls, got, outcome, os, exiting, deaths>>

(* The call is over. *)
Return(t) ==
    /\ held' = [held EXCEPT ![t] = None]
    /\ got' = [c \in Callers |-> IF c = t THEN {} ELSE got[c]]
    /\ End(t, "none")
    /\ Goto(t, "idle")

(* An engine that comes back only from a good call (a deviation, not the code). *)
GiveBackGood(t) ==
    LET failed == outcome[t] = "error" IN
    /\ At(t, "giveback")
    /\ pool' = IF failed THEN pool ELSE Append(pool, held[t])
    /\ phase' = IF failed /\ t = Owner THEN "shutdown" ELSE phase
    /\ Return(t)
    /\ UNCHANGED <<slot, ops, calls, os, registered, exiting, deaths>>

(* The guard sends the engine back however the call ended.  When the owner  *)
(* could not start it, Pool::new fails and drops what it has created.       *)
GiveBack(t) ==
    LET failed == t = Owner /\ outcome[t] = "error" IN
    /\ At(t, "giveback")
    /\ pool' = IF failed THEN pool ELSE Append(pool, held[t])
    /\ phase' = IF failed THEN "shutdown" ELSE phase
    /\ Return(t)
    /\ UNCHANGED <<slot, ops, calls, os, registered, exiting, deaths>>

(* The consumers are done, and the pool is drained: shutdown, or its drop. *)
BeginShutdown ==
    /\ phase = "serve" /\ \A c \in Callers : At(c, "idle")
    /\ phase' = "shutdown"
    /\ UNCHANGED <<engines, threads, os, registered, exiting, deaths>>

ShutdownEngine ==
    /\ phase = "shutdown" /\ At(Owner, "idle") /\ pool # <<>>
    /\ pool' = Tail(pool)
    /\ IF slot[Head(pool)] = None
       THEN UNCHANGED <<pc, held>>
       ELSE held' = [held EXCEPT ![Owner] = Head(pool)] /\ Goto(Owner, "drop")
    /\ UNCHANGED <<phase, slot, ops, calls, got, outcome, os, registered, exiting, deaths>>

(* A shutdown that may leave engines in the pool (a deviation, not the code). *)
ShutdownDoneEarly ==
    /\ phase = "shutdown" /\ At(Owner, "idle")
    /\ phase' = "over"
    /\ UNCHANGED <<engines, threads, os, registered, exiting, deaths>>

ShutdownDone ==
    /\ phase = "shutdown" /\ At(Owner, "idle") /\ pool = <<>>
    /\ phase' = "over"
    /\ UNCHANGED <<engines, threads, os, registered, exiting, deaths>>

-----------------------------------------------------------------------------
(* The exiftool processes.                                                  *)

Emit(p, says) == lines' = [lines EXCEPT ![p] = Append(@, [of |-> Head(stdin[p]), says |-> says])]

(* A process answers its oldest command: a line of text ... *)
Answer(p, says) ==
    /\ child[p] = "live" /\ stdin[p] # <<>> /\ ~spoke[p]
    /\ Emit(p, says)
    /\ spoke' = [spoke EXCEPT ![p] = TRUE]
    /\ UNCHANGED <<phase, engines, threads, child, stdin, registered, exiting, deaths>>

(* ... and {ready}, which it prints after commands without output, too. *)
Ready(p) ==
    /\ child[p] = "live" /\ stdin[p] # <<>>
    /\ Emit(p, "ready")
    /\ stdin' = [stdin EXCEPT ![p] = Tail(@)]
    /\ spoke' = [spoke EXCEPT ![p] = FALSE]
    /\ UNCHANGED <<phase, engines, threads, child, registered, exiting, deaths>>

ProcessDies(p) ==
    /\ child[p] = "live" /\ deaths < MaxDeaths
    /\ child' = [child EXCEPT ![p] = "dead"]
    /\ deaths' = deaths + 1
    /\ UNCHANGED <<phase, engines, threads, stdin, lines, spoke, registered, exiting>>

-----------------------------------------------------------------------------
(* A forced exit: the second Ctrl-C, or the window closed during a run.     *)

(* cleanup_all_processes takes the registered pids ... *)
CleanupBegin ==
    /\ MayExit /\ exit = "no"
    /\ exit' = "killing"
    /\ doomed' = registered
    /\ registered' = {}
    /\ UNCHANGED <<phase, engines, threads, os, deaths>>

(* ... kills one after the other, while the threads go on ... *)
CleanupKill(p) ==
    /\ exit = "killing" /\ p \in doomed
    /\ doomed' = doomed \ {p}
    /\ child' = IF child[p] = "live" THEN [child EXCEPT ![p] = "dead"] ELSE child
    /\ UNCHANGED <<phase, engines, threads, stdin, lines, spoke, registered, exit, deaths>>

(* ... and the application exits. *)
Exit ==
    /\ exit = "killing" /\ doomed = {}
    /\ exit' = "exited"
    /\ UNCHANGED <<phase, engines, threads, os, registered, doomed, deaths>>

CallerStep(c) ==
    \/ Checkout(c) \/ CheckoutTimeout(c) \/ CountOp(c) \/ SendCommand(c) \/ ReadLine(c)

EngineStep(t) ==
    \/ SpawnFails(t) \/ Register(t) \/ WarmLine(t) \/ ReadFails(t)
    \/ DropProcess(t) \/ Unregister(t) \/ GiveBack(t)
    \/ \E p \in Pids : Spawn(t, p)

OwnerStep ==
    \/ PoolComplete \/ ShutdownEngine \/ ShutdownDone
    \/ \E e \in Engines : CreateEngine(e)

ThreadStep(t) ==
    /\ exit # "exited"
    /\ \/ t \in Callers /\ CallerStep(t)
       \/ t = Owner /\ OwnerStep
       \/ EngineStep(t)

Next ==
    \/ \E t \in Threads : ThreadStep(t)
    \/ /\ exit # "exited"
       /\ \/ \E c \in Callers : Call(c)
          \/ BeginShutdown
          \/ CleanupBegin \/ Exit
          \/ \E p \in Pids : CleanupKill(p) \/ Ready(p) \/ ProcessDies(p)
          \/ \E p \in Pids, s \in Answers : Answer(p, s)

Spec == Init /\ [][Next]_vars

(* The threads are scheduled and their timeouts expire; exiftool owes       *)
(* nobody an answer.  A forced exit is carried out.                         *)
Fairness ==
    /\ \A t \in Threads : WF_vars(ThreadStep(t))
    /\ WF_vars(exit # "exited" /\ (Exit \/ \E p \in Pids : CleanupKill(p)))

FairSpec == Spec /\ Fairness

-----------------------------------------------------------------------------
(* Properties.                                                              *)

(* A call succeeds only on what exiftool said of its own file: whatever     *)
(* timed out or crashed on the engine before, no late line is taken for an  *)
(* answer.                                                                  *)
SuccessIsOwn ==
    \A c \in Callers : outcome[c] = "success" => got[c] # {} /\ \A l \in got[c] : l.of = Cmd(c)

(* When a call has returned, with whatever result, no process works on its  *)
(* file any more: the processor moves the file next.                        *)
QuietAfterReturn ==
    \A p \in Pids : child[p] = "live" =>
        \A i \in DOMAIN stdin[p] :
            \E t \in Threads :
                /\ stdin[p][i][1] = t
                /\ pc[t] \in {"warm", "read", "drop"}
                /\ held[t] # None /\ Proc(t) = p

(* Engines are neither lost nor shared: each one is idle in the pool or in  *)
(* the hands of one thread, however its last call ended.                    *)
EnginesConserved ==
    LET Holders(e) == {t \in Threads : held[t] = e}
        Places(e)  == {i \in DOMAIN pool : pool[i] = e}
    IN  \A e \in Engines :
            /\ Cardinality(Holders(e)) + Cardinality(Places(e)) <= 1
            /\ phase = "serve" => Cardinality(Holders(e)) + Cardinality(Places(e)) = 1

(* A live process is the process of one engine, and once it is warmed up    *)
(* the clean-up knows it, or it was spawned after the clean-up began.       *)
ChildrenAreKnown ==
    \A p \in Pids : child[p] = "live" =>
        \E e \in Engines :
            /\ slot[e] = p
            /\ \A f \in Engines \ {e} : slot[f] # p
            /\ \/ p \in registered \cup doomed
               \/ \E t \in Threads : held[t] = e /\ pc[t] \in {"register", "unregister"}

(* Every call returns, although exiftool need not answer. *)
CallsReturn == \A c \in Callers : pc[c] # "idle" ~> pc[c] = "idle" \/ exit = "exited"

(* A shutdown, and a failed Pool::new, leave no process behind. *)
ShutdownEnds ==
    phase = "shutdown" ~> (phase = "over" /\ \A p \in Pids : child[p] \in {"free", "gone"}) \/ exit = "exited"
=============================================================================
