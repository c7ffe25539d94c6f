------------------------- MODULE Dispatcher_proofs -------------------------
(***************************************************************************)
(* Proofs about Dispatcher: that at most one pipeline works on a run, that *)
(* is_running tells the truth, and that a run has one destination, for any *)
(* number of instances, pipelines, runs and files.                         *)
(***************************************************************************)
EXTENDS Dispatcher, TLAPS

-----------------------------------------------------------------------------
(* The inductive invariant, in named parts.                                 *)

Locking == {"lock", "open", "contract", "work", "unlock"}
Opened  == {"contract", "work"}

(* What a pipeline thread holds at which point. *)
PipeOK ==
    \A p \in Pipes :
        /\ pipe[p].at \notin {"new", "ended"} => pipe[p].of \in Apps /\ pipe[p].out # None
        /\ pipe[p].at = "setup" /\ pipe[p].resume => pipe[p].db # None
        /\ pipe[p].at = "lockfile" \/ pipe[p].at \in Locking => pipe[p].db # None
        /\ pipe[p].at \in Locking <=> pipe[p].lock # None
        /\ pipe[p].at \in Opened => pipe[p].file # None
        /\ pipe[p].file # None => pipe[p].at \in Opened \cup {"unlock"}

(* What a command is about at which point. *)
CmdOK ==
    \A a \in Apps :
        /\ cmd[a].at \in {"probe", "release", "set", "open", "unlink", "unlock"} =>
               cmd[a].op \in {"resume", "recover", "delete"} /\ cmd[a].run # None
        /\ cmd[a].at = "set" => cmd[a].op = "resume"
        /\ cmd[a].at = "open" => cmd[a].op \in {"resume", "recover"}
        /\ cmd[a].at \in {"unlink", "unlock"} => cmd[a].op = "delete"
        /\ cmd[a].at = "release" <=> cmd[a].lock # None

(* Who holds which lock file. *)
LockHeld ==
    /\ \A p \in Pipes : Working(p) => locker[pipe[p].lock] = p
    /\ \A a \in Apps : cmd[a].at = "release" => locker[cmd[a].lock] = a

(* A pipeline has the lock file that everybody else would open. *)
LockShared ==
    \A p \in Pipes : pipe[p].lock # None /\ pipe[p].db \notin torn => lockFile[pipe[p].db] = pipe[p].lock

(* A database file belongs to one run. *)
FileOwned ==
    /\ \A r, s \in Runs : dbFile[r] = dbFile[s] /\ dbFile[r] # None => r = s
    /\ \A p \in Pipes, r \in Runs : pipe[p].file # None /\ dbFile[r] = pipe[p].file => pipe[p].db = r
    /\ \A p, q \in Pipes : pipe[p].file # None /\ pipe[q].file = pipe[p].file => pipe[p].db = pipe[q].db

(* Nobody can refer to an identifier that was not given out. *)
Unnamed ==
    \A r \in Runs \ named :
        /\ dbFile[r] = None
        /\ \A a \in Apps : app[a].db # r /\ cmd[a].run # r
        /\ \A p \in Pipes : pipe[p].db # r

(* A new run is its pipeline's alone until the database is there. *)
Naming(p) == ~pipe[p].resume /\ pipe[p].at \in {"lockfile", "lock", "open"}
Private ==
    \A p \in Pipes : Naming(p) =>
        /\ dbFile[pipe[p].db] = None
        /\ \A a \in Apps : app[a].db # pipe[p].db
        /\ \A a \in Apps : cmd[a].run = pipe[p].db => cmd[a].op = "delete"
        /\ \A q \in Pipes \ {p} : pipe[q].db # pipe[p].db

(* A pipeline restores to the stored destination, if it could read it; a new *)
(* run stores it before anything was restored.                               *)
WorksThere ==
    \A p \in Pipes : LET f == pipe[p].file IN pipe[p].db \notin torn =>
        /\ pipe[p].at = "work" /\ f \notin unread /\ contract[f] # None => pipe[p].out = contract[f]
        /\ pipe[p].at = "contract" /\ ~pipe[p].resume => wrote[f] = {}
-----------------------------------------------------------------------------
(* Type correctness.                                                        *)

(* Starting writes somewhere. *)
LEMMA StartOutputType ==
    ASSUME TypeOK, NEW a \in Apps
    PROVE  StartOutput(a) \in Outputs \cup {None}
BY DEF TypeOK, StartOutput, Outputs

(* The types hold in the initial states. *)
LEMMA InitType == Init => TypeOK
<1>. SUFFICES ASSUME Init PROVE TypeOK
  OBVIOUS
<1>1. PICK saved \in SUBSET Runs, given \in Runs \cup {None} :
         /\ named = saved \cup ({given} \cap Runs)
         /\ app = [a \in Apps |-> [NewApp EXCEPT !.db = given]]
         /\ \E db \in Injection(saved, Files), lock \in Injection(saved, Locks), dest \in Dests :
               /\ dbFile = [r \in Runs |-> IF r \in saved THEN db[r] ELSE None]
               /\ lockFile = [r \in Runs |-> IF r \in saved THEN lock[r] ELSE None]
               /\ contract = [f \in Files |-> IF \E r \in saved : db[r] = f THEN dest ELSE None]
  BY DEF Init
<1>2. PICK db \in Injection(saved, Files), lock \in Injection(saved, Locks), dest \in Dests :
         /\ dbFile = [r \in Runs |-> IF r \in saved THEN db[r] ELSE None]
         /\ lockFile = [r \in Runs |-> IF r \in saved THEN lock[r] ELSE None]
         /\ contract = [f \in Files |-> IF \E r \in saved : db[r] = f THEN dest ELSE None]
  BY <1>1
<1>3. db \in [saved -> Files] /\ lock \in [saved -> Locks]
  BY DEF Injection
<1>4. dbFile \in [Runs -> Files \cup {None}] /\ lockFile \in [Runs -> Locks \cup {None}]
  BY <1>2, <1>3
<1>5. contract \in [Files -> Outputs \cup {None}]
  BY <1>2 DEF Outputs
<1>6. app \in [Apps -> [running : BOOLEAN, inputs : BOOLEAN, output : Outputs \cup {None}, db : Runs \cup {None}]]
  BY <1>1 DEF NewApp
<1>. QED
  BY <1>1, <1>4, <1>5, <1>6, DispatcherAssumption, SMTT(30) DEF Init, TypeOK, NoCommand, NoPipe
-----------------------------------------------------------------------------
(* Type correctness and the shape of threads and commands, step by step.   *)

AppState == [running : BOOLEAN, inputs : BOOLEAN, output : Outputs \cup {None}, db : Runs \cup {None}]
CmdState == [op : {"none", "resume", "recover", "delete"},
             at : {"idle", "probe", "release", "set", "open", "start", "unlink", "unlock"},
             run : Runs \cup {None}, lock : Locks \cup {None}]
PipeAt == {"new", "setup", "lockfile", "lock", "open", "contract", "work", "unlock", "guard", "ended"}
PipeState == [at : PipeAt, of : Apps \cup {None}, db : Runs \cup {None}, out : Outputs \cup {None},
              resume : BOOLEAN, lock : Locks \cup {None}, file : Files \cup {None}]

(* An instance with one field set is an instance. *)
LEMMA AppUpdate ==
    ASSUME app \in [Apps -> AppState], NEW a \in Apps
    PROVE  /\ \A x \in BOOLEAN : [app EXCEPT ![a].inputs = x] \in [Apps -> AppState]
           /\ \A x \in BOOLEAN : [app EXCEPT ![a].running = x] \in [Apps -> AppState]
           /\ \A x \in Outputs \cup {None} : [app EXCEPT ![a].output = x] \in [Apps -> AppState]
           /\ \A x \in Runs \cup {None} : [app EXCEPT ![a].db = x] \in [Apps -> AppState]
<1>. app[a] \in AppState
  OBVIOUS
<1>1. ASSUME NEW x \in BOOLEAN PROVE [app EXCEPT ![a].inputs = x] \in [Apps -> AppState]
  BY DEF AppState
<1>2. ASSUME NEW x \in BOOLEAN PROVE [app EXCEPT ![a].running = x] \in [Apps -> AppState]
  BY DEF AppState
<1>3. ASSUME NEW x \in Outputs \cup {None} PROVE [app EXCEPT ![a].output = x] \in [Apps -> AppState]
  BY DEF AppState
<1>4. ASSUME NEW x \in Runs \cup {None} PROVE [app EXCEPT ![a].db = x] \in [Apps -> AppState]
  BY DEF AppState
<1>. QED  BY <1>1, <1>2, <1>3, <1>4

(* A command moved on is a command. *)
LEMMA CmdUpdate ==
    ASSUME cmd \in [Apps -> CmdState], NEW a \in Apps
    PROVE  [cmd EXCEPT ![a].at = "open"] \in [Apps -> CmdState]
BY DEF CmdState

(* A pipeline moved on is a pipeline. *)
LEMMA PipeUpdate ==
    ASSUME pipe \in [Pipes -> PipeState], NEW p \in Pipes, NEW at \in PipeAt
    PROVE  /\ [pipe EXCEPT ![p].at = at] \in [Pipes -> PipeState]
           /\ \A x \in Runs : [pipe EXCEPT ![p].at = at, ![p].db = x] \in [Pipes -> PipeState]
           /\ \A x \in Outputs : [pipe EXCEPT ![p].at = at, ![p].out = x] \in [Pipes -> PipeState]
           /\ \A x \in Files : [pipe EXCEPT ![p].at = at, ![p].file = x] \in [Pipes -> PipeState]
           /\ [pipe EXCEPT ![p].at = at, ![p].lock = None] \in [Pipes -> PipeState]
<1>1. [pipe EXCEPT ![p].at = at] \in [Pipes -> PipeState]
  BY DEF PipeState
<1>2. ASSUME NEW x \in Runs PROVE [pipe EXCEPT ![p].at = at, ![p].db = x] \in [Pipes -> PipeState]
  BY ZenonT(30) DEF PipeState
<1>3. ASSUME NEW x \in Outputs PROVE [pipe EXCEPT ![p].at = at, ![p].out = x] \in [Pipes -> PipeState]
  BY ZenonT(30) DEF PipeState
<1>4. ASSUME NEW x \in Files PROVE [pipe EXCEPT ![p].at = at, ![p].file = x] \in [Pipes -> PipeState]
  BY ZenonT(30) DEF PipeState
<1>5. ASSUME NEW x \in {None} PROVE [pipe EXCEPT ![p].at = at, ![p].lock = x] \in [Pipes -> PipeState]
  BY ZenonT(30) DEF PipeState
<1>. QED  BY <1>1, <1>2, <1>3, <1>4, <1>5

Shape == TypeOK /\ PipeOK /\ CmdOK

(* What a contract step writes: the pipeline goes to work with one output. *)
LEMMA ContractWrites ==
    ASSUME Shape, NEW p \in Pipes, Contract(p)
    PROVE  /\ pipe[p].at = "contract" /\ pipe[p].file \in Files
           /\ \E x \in Outputs : pipe' = [pipe EXCEPT ![p].at = "work", ![p].out = x]
<1>1. /\ pipe[p].at = "contract" /\ pipe[p].file \in Files
      /\ contract[pipe[p].file] \in Outputs \cup {None} /\ pipe[p].out \in Outputs
  BY DEF Shape, TypeOK, PipeOK, Contract, At, Opened
<1>2. CASE pipe[p].resume /\ contract[pipe[p].file] # None
  BY <1>1, <1>2 DEF Contract
<1>3. CASE pipe[p].resume /\ contract[pipe[p].file] = None
  BY <1>1, <1>3 DEF Contract
<1>4. CASE ~pipe[p].resume
  <2>1. pipe' = [pipe EXCEPT ![p].at = "work"]
    BY <1>4 DEF Contract, Goto
  <2>2. [pipe EXCEPT ![p].at = "work"] = [pipe EXCEPT ![p].at = "work", ![p].out = pipe[p].out]
    BY DEF Shape, TypeOK
  <2>. QED  BY <1>1, <2>1, <2>2
<1>. QED  BY <1>1, <1>2, <1>3, <1>4

(* It changes where one pipeline is and what it restores to, nothing else. *)
LEMMA ContractKeeps ==
    ASSUME Shape, NEW p \in Pipes, Contract(p)
    PROVE  /\ pipe[p].at = "contract" /\ pipe'[p].at = "work"
           /\ \A q \in Pipes \ {p} : pipe'[q] = pipe[q]
           /\ \A q \in Pipes : /\ pipe'[q].of = pipe[q].of /\ pipe'[q].db = pipe[q].db
                               /\ pipe'[q].lock = pipe[q].lock /\ pipe'[q].file = pipe[q].file
                               /\ pipe'[q].resume = pipe[q].resume
<1>1. pipe \in [Pipes -> PipeState]
  BY DEF Shape, TypeOK, PipeState, PipeAt
<1>2. pipe[p].at = "contract"
  BY ContractWrites
<1>3. PICK x \in Outputs : pipe' = [pipe EXCEPT ![p].at = "work", ![p].out = x]
  BY ContractWrites
<1>. QED  BY <1>1, <1>2, <1>3 DEF PipeState

(* What a command writes when it opens a database. *)
LEMMA OpenUnlockedWrites ==
    ASSUME NEW a \in Apps, NEW f \in Files, OpenUnlocked(a, f)
    PROVE  /\ app' = app \/ app' = [app EXCEPT ![a].output = contract[f]]
           /\ cmd' = [cmd EXCEPT ![a].at = "start"] \/ cmd' = [cmd EXCEPT ![a] = NoCommand]
           /\ UNCHANGED <<pipe, lockFile, contract, wrote, locker, history>>
BY DEF OpenUnlocked

(* A command that opens a database leaves alone whether the instance runs    *)
(* and which run is its current one; it goes on with its run or is over.    *)
LEMMA OpenUnlockedKeeps ==
    ASSUME Shape, NEW a \in Apps, NEW f \in Files, OpenUnlocked(a, f)
    PROVE  /\ \A b \in Apps : app'[b].running = app[b].running /\ app'[b].db = app[b].db
           /\ \A b \in Apps \ {a} : cmd'[b] = cmd[b]
           /\ cmd'[a].at \in {"start", "idle"}
           /\ \/ cmd'[a].run = cmd[a].run /\ cmd'[a].op = cmd[a].op
              \/ cmd'[a].run = None
           /\ pipe' = pipe /\ dishonest' = dishonest /\ locker' = locker /\ named' = named
<1>1. app \in [Apps -> AppState] /\ cmd \in [Apps -> CmdState]
  BY DEF Shape, TypeOK, AppState, CmdState
<1>2. app' = app \/ app' = [app EXCEPT ![a].output = contract[f]]
  BY OpenUnlockedWrites
<1>3. \A b \in Apps : app'[b].running = app[b].running /\ app'[b].db = app[b].db
  BY <1>1, <1>2 DEF AppState
<1>4. pipe' = pipe /\ dishonest' = dishonest /\ locker' = locker /\ named' = named
  BY OpenUnlockedWrites DEF history
<1>5. CASE cmd' = [cmd EXCEPT ![a].at = "start"]
  BY <1>1, <1>3, <1>4, <1>5 DEF CmdState
<1>6. CASE cmd' = [cmd EXCEPT ![a] = NoCommand]
  BY <1>1, <1>3, <1>4, <1>6 DEF NoCommand
<1>. QED  BY <1>5, <1>6, OpenUnlockedWrites

(* Every step keeps the types and what threads and commands hold. *)
LEMMA ShapeStep ==
    ASSUME Shape, Next
    PROVE  Shape'
<1>. USE StartOutputType, DispatcherAssumption DEF Shape
<1>1. ASSUME NEW a \in Apps, NEW some \in BOOLEAN, SelectInputs(a, some)
     PROVE  Shape'
  <2>1. TypeOK'
    BY <1>1, AppUpdate DEF TypeOK, SelectInputs, disk, history, AppState
  <2>2. PipeOK' /\ CmdOK'
    BY <1>1 DEF TypeOK, PipeOK, CmdOK, SelectInputs, disk, history
  <2>. QED  BY <2>1, <2>2
<1>2. ASSUME NEW a \in Apps, NEW d \in Dests, SelectOutput(a, d)
     PROVE  Shape'
  <2>1. d \in Outputs \cup {None}
    BY DEF Outputs
  <2>2. app' \in [Apps -> AppState]
    BY <1>2, <2>1, AppUpdate DEF TypeOK, SelectOutput, AppState
  <2>3. TypeOK'
    BY <1>2, <2>2 DEF TypeOK, SelectOutput, disk, history, AppState
  <2>4. PipeOK' /\ CmdOK'
    BY <1>2 DEF PipeOK, CmdOK, SelectOutput
  <2>. QED  BY <2>3, <2>4
<1>3. ASSUME NEW a \in Apps, StartActive(a)
     PROVE  Shape'
  <2>1. TypeOK'
    BY <1>3 DEF TypeOK, PipeOK, CmdOK, Locking, StartActive, NoCommand, disk, history
  <2>2. PipeOK' /\ CmdOK'
    BY <1>3 DEF TypeOK, PipeOK, CmdOK, Locking, Opened, StartActive, NoCommand, disk, history
  <2>. QED  BY <2>1, <2>2 DEF Shape
<1>4. ASSUME NEW a \in Apps, StartRefused(a)
     PROVE  Shape'
  <2>1. TypeOK'
    BY <1>4, AppUpdate DEF TypeOK, StartRefused, NoCommand, disk, history, AppState
  <2>2. PipeOK' /\ CmdOK'
    BY <1>4 DEF TypeOK, PipeOK, CmdOK, StartRefused, NoCommand, disk, history
  <2>. QED  BY <2>1, <2>2
<1>5. ASSUME NEW a \in Apps, NEW p \in Pipes, StartSpawn(a, p)
     PROVE  Shape'
  <2>1. StartOutput(a) \in Outputs /\ app[a].db \in Runs \cup {None} /\ a \in Apps
    BY <1>5 DEF TypeOK, StartSpawn
  <2>2. pipe' \in [Pipes -> PipeState]
    BY <1>5, <2>1 DEF TypeOK, StartSpawn, NoPipe, PipeState, PipeAt
  <2>3. app' \in [Apps -> AppState]
    BY <1>5, AppUpdate DEF TypeOK, StartSpawn, AppState
  <2>4. TypeOK'
    BY <1>5, <2>2, <2>3 DEF TypeOK, StartSpawn, NoCommand, disk, history, AppState, PipeState, PipeAt
  <2>5. PipeOK' /\ CmdOK'
    BY <1>5, <2>1 DEF TypeOK, PipeOK, CmdOK, StartSpawn, NoPipe, NoCommand, disk, history, Locking, Opened
  <2>. QED  BY <2>4, <2>5
<1>6. ASSUME NEW a \in Apps, Reset(a)
     PROVE  Shape'
  <2>1. TypeOK'
    BY <1>6 DEF TypeOK, PipeOK, CmdOK, Locking, Reset, NewApp, disk
  <2>2. PipeOK' /\ CmdOK'
    BY <1>6 DEF TypeOK, PipeOK, CmdOK, Locking, Opened, Reset, NewApp, disk
  <2>. QED  BY <2>1, <2>2 DEF Shape
<1>7. ASSUME NEW a \in Apps, NEW op \in {"resume", "recover", "delete"}, NEW r \in Runs, Command(a, op, r)
     PROVE  Shape'
  <2>1. TypeOK'
    BY <1>7 DEF TypeOK, PipeOK, CmdOK, Locking, Command, disk, history
  <2>2. PipeOK' /\ CmdOK'
    BY <1>7 DEF TypeOK, PipeOK, CmdOK, Locking, Opened, Command, disk, history
  <2>. QED  BY <2>1, <2>2 DEF Shape
<1>8. ASSUME NEW a \in Apps, ProbeMissing(a)
     PROVE  Shape'
  <2>1. TypeOK'
    BY <1>8 DEF TypeOK, PipeOK, CmdOK, Locking, ProbeMissing, AfterProbe, disk, history
  <2>2. PipeOK' /\ CmdOK'
    BY <1>8 DEF TypeOK, PipeOK, CmdOK, Locking, Opened, ProbeMissing, AfterProbe, disk, history
  <2>. QED  BY <2>1, <2>2 DEF Shape
<1>9. ASSUME NEW a \in Apps, ProbeActive(a)
     PROVE  Shape'
  <2>1. TypeOK'
    BY <1>9 DEF TypeOK, PipeOK, CmdOK, Locking, ProbeActive, NoCommand, disk, history
  <2>2. PipeOK' /\ CmdOK'
    BY <1>9 DEF TypeOK, PipeOK, CmdOK, Locking, Opened, ProbeActive, NoCommand, disk, history
  <2>. QED  BY <2>1, <2>2 DEF Shape
<1>10. ASSUME NEW a \in Apps, ProbeFree(a)
     PROVE  Shape'
  <2>1. TypeOK'
    BY <1>10 DEF TypeOK, PipeOK, CmdOK, Locking, ProbeFree, disk, history
  <2>2. PipeOK' /\ CmdOK'
    BY <1>10 DEF TypeOK, PipeOK, CmdOK, Locking, Opened, ProbeFree, disk, history
  <2>. QED  BY <2>1, <2>2 DEF Shape
<1>11. ASSUME NEW a \in Apps, Release(a)
     PROVE  Shape'
  <2>1. TypeOK'
    BY <1>11 DEF TypeOK, PipeOK, CmdOK, Locking, Release, AfterProbe, disk, history
  <2>2. PipeOK'
    BY <1>11 DEF PipeOK, Release
  <2>3. /\ cmd[a].at = "release" /\ cmd[a].run # None
        /\ cmd' = [cmd EXCEPT ![a].at = AfterProbe(cmd[a].op), ![a].lock = None]
    BY <1>11 DEF CmdOK, Release
  <2>4. /\ cmd'[a].at = AfterProbe(cmd[a].op) /\ cmd'[a].lock = None
        /\ cmd'[a].op = cmd[a].op /\ cmd'[a].run = cmd[a].run
        /\ \A b \in Apps \ {a} : cmd'[b] = cmd[b]
    BY <2>3 DEF TypeOK
  <2>5. \/ cmd[a].op = "resume"  /\ AfterProbe(cmd[a].op) = "set"
        \/ cmd[a].op = "recover" /\ AfterProbe(cmd[a].op) = "open"
        \/ cmd[a].op = "delete"  /\ AfterProbe(cmd[a].op) = "unlink"
    BY <2>3 DEF CmdOK, AfterProbe
  <2>6. /\ cmd'[a].op \in {"resume", "recover", "delete"} /\ cmd'[a].run # None
        /\ cmd'[a].at = "set" => cmd'[a].op = "resume"
        /\ cmd'[a].at = "open" => cmd'[a].op \in {"resume", "recover"}
        /\ cmd'[a].at \in {"unlink", "unlock"} => cmd'[a].op = "delete"
        /\ cmd'[a].at # "release" /\ cmd'[a].lock = None
    BY <2>3, <2>4, <2>5, SMTT(30)
  <2>7. \A b \in Apps \ {a} : cmd'[b] = cmd[b]
    BY <2>4
  <2>8. CmdOK'
    BY <2>6, <2>7 DEF CmdOK
  <2>. QED  BY <2>1, <2>2, <2>8 DEF Shape
<1>12. ASSUME NEW a \in Apps, ResumeSet(a)
     PROVE  Shape'
  <2>1. cmd[a].run \in Runs
    BY <1>12 DEF TypeOK, CmdOK, ResumeSet
  <2>2. app' \in [Apps -> AppState]
    BY <1>12, <2>1, AppUpdate DEF TypeOK, ResumeSet, AppState
  <2>3. TypeOK'
    <3>1. cmd' \in [Apps -> CmdState]
      <4>1. cmd' = [cmd EXCEPT ![a].at = "open"]
        BY <1>12 DEF ResumeSet
      <4>2. cmd \in [Apps -> CmdState]
        BY DEF TypeOK, CmdState
      <4>. QED  BY <4>1, <4>2, CmdUpdate
    <3>. QED  BY <1>12, <2>2, <3>1 DEF TypeOK, ResumeSet, disk, history, AppState, CmdState
  <2>4. PipeOK'
    BY <1>12 DEF PipeOK, ResumeSet
  <2>5. CmdOK'
    BY <1>12 DEF TypeOK, CmdOK, ResumeSet
  <2>. QED  BY <2>3, <2>4, <2>5
<1>13. ASSUME NEW a \in Apps, NEW f \in Files, OpenUnlocked(a, f)
     PROVE  Shape'
  <2>1. /\ app' = app \/ app' = [app EXCEPT ![a].output = contract[f]]
        /\ cmd' = [cmd EXCEPT ![a].at = "start"] \/ cmd' = [cmd EXCEPT ![a] = NoCommand]
        /\ UNCHANGED <<pipe, lockFile, contract, wrote, locker, history>>
    BY <1>13, OpenUnlockedWrites
  <2>2. app' \in [Apps -> AppState]
    <3>1. contract[f] \in Outputs \cup {None}
      BY <1>13 DEF TypeOK
    <3>2. app \in [Apps -> AppState]
      BY DEF TypeOK, AppState
    <3>3. app' = app \/ app' = [app EXCEPT ![a].output = contract[f]]
      BY <2>1
    <3>. QED  BY <3>1, <3>2, <3>3, AppUpdate
  <2>3. dbFile' \in [Runs -> Files \cup {None}]
    BY <1>13 DEF OpenUnlocked, OpenAt, TypeOK
  <2>4. cmd' \in [Apps -> CmdState] /\ CmdOK'
    <3>1. CASE cmd' = [cmd EXCEPT ![a].at = "start"]
      BY <3>1, <1>13 DEF TypeOK, CmdOK, OpenUnlocked, CmdState
    <3>2. CASE cmd' = [cmd EXCEPT ![a] = NoCommand]
      BY <3>2, <1>13 DEF TypeOK, CmdOK, NoCommand, CmdState
    <3>. QED  BY <2>1, <3>1, <3>2
  <2>5. TypeOK'
    BY <2>1, <2>2, <2>3, <2>4 DEF TypeOK, history, AppState, CmdState
  <2>6. PipeOK'
    BY <2>1 DEF PipeOK
  <2>. QED  BY <2>4, <2>5, <2>6
<1>14. ASSUME NEW a \in Apps, DeleteDb(a)
     PROVE  Shape'
  <2>1. TypeOK'
    BY <1>14 DEF TypeOK, PipeOK, CmdOK, Locking, DeleteDb, history
  <2>2. PipeOK' /\ CmdOK'
    BY <1>14 DEF TypeOK, PipeOK, CmdOK, Locking, Opened, DeleteDb, history
  <2>. QED  BY <2>1, <2>2 DEF Shape
<1>15. ASSUME NEW a \in Apps, DeleteLock(a)
     PROVE  Shape'
  <2>1. TypeOK'
    BY <1>15 DEF TypeOK, PipeOK, CmdOK, Locking, DeleteLock, NoCommand
  <2>2. PipeOK' /\ CmdOK'
    BY <1>15 DEF TypeOK, PipeOK, CmdOK, Locking, Opened, DeleteLock, NoCommand
  <2>. QED  BY <2>1, <2>2 DEF Shape
<1>16. ASSUME NEW p \in Pipes, SetupFails(p)
     PROVE  Shape'
  <2>1. TypeOK'
    BY <1>16, PipeUpdate DEF TypeOK, SetupFails, Goto, disk, history, PipeState, PipeAt
  <2>2. PipeOK' /\ CmdOK'
    BY <1>16 DEF TypeOK, PipeOK, CmdOK, SetupFails, Goto, At, disk, history, Locking, Opened
  <2>. QED  BY <2>1, <2>2
<1>17. ASSUME NEW p \in Pipes, NEW r \in Runs, SetupDone(p, r)
     PROVE  Shape'
  <2>1. TypeOK'
    BY <1>17, PipeUpdate, ZenonT(30) DEF TypeOK, SetupDone, disk, history, PipeState, PipeAt
  <2>2. PipeOK' /\ CmdOK'
    BY <1>17 DEF TypeOK, PipeOK, CmdOK, SetupDone, At, disk, history, Locking, Opened
  <2>. QED  BY <2>1, <2>2
<1>18. ASSUME NEW p \in Pipes, NEW l \in Locks, OpenLock(p, l)
     PROVE  Shape'
  <2>1. TypeOK'
    BY <1>18, SMTT(30) DEF TypeOK, PipeOK, CmdOK, Locking, OpenLock, At, history
  <2>2. PipeOK' /\ CmdOK'
    BY <1>18 DEF TypeOK, PipeOK, CmdOK, Locking, Opened, OpenLock, At, history
  <2>. QED  BY <2>1, <2>2 DEF Shape
<1>19. ASSUME NEW p \in Pipes, TryLock(p)
     PROVE  Shape'
  <2>1. TypeOK'
    <3>1. pipe \in [Pipes -> PipeState]
      BY DEF TypeOK, PipeState, PipeAt
    <3>2. [pipe EXCEPT ![p].at = "open"] \in [Pipes -> PipeState]
      BY <3>1, PipeUpdate DEF PipeAt
    <3>3. [pipe EXCEPT ![p].at = "guard", ![p].lock = None] \in [Pipes -> PipeState]
      BY <3>1, PipeUpdate DEF PipeAt
    <3>4. pipe' \in [Pipes -> PipeState]
      <4>1. CASE locker[pipe[p].lock] = None
        <5>1. pipe' = [pipe EXCEPT ![p].at = "open"]
          BY <1>19, <4>1, Zenon DEF TryLock
        <5>. QED  BY <3>2, <5>1
      <4>2. CASE locker[pipe[p].lock] # None
        <5>1. pipe' = [pipe EXCEPT ![p].at = "guard", ![p].lock = None]
          BY <1>19, <4>2, Zenon DEF TryLock
        <5>. QED  BY <3>3, <5>1
      <4>. QED  BY <4>1, <4>2
    <3>5. locker' \in [Locks -> Apps \cup Pipes \cup {None}]
      BY <1>19 DEF TypeOK, TryLock
    <3>. QED  BY <1>19, <3>4, <3>5, ZenonT(60) DEF TypeOK, TryLock, disk, history, PipeState, PipeAt
  <2>2. PipeOK'
    BY <1>19, SMTT(60) DEF TypeOK, PipeOK, Locking, Opened, TryLock, At, disk, history
  <2>3. CmdOK'
    BY <1>19 DEF CmdOK, TryLock
  <2>. QED  BY <2>1, <2>2, <2>3 DEF Shape
<1>20. ASSUME NEW p \in Pipes, NEW f \in Files, OpenDb(p, f)
     PROVE  Shape'
  <2>1. pipe[p].at = "open" /\ pipe[p].db \in Runs
    BY <1>20 DEF TypeOK, PipeOK, Locking, OpenDb, At
  <2>2. pipe' \in [Pipes -> PipeState]
    <3>1. pipe' = [pipe EXCEPT ![p].at = "contract", ![p].file = f]
      BY <1>20 DEF OpenDb
    <3>2. pipe \in [Pipes -> PipeState]
      BY DEF TypeOK, PipeState, PipeAt
    <3>3. "contract" \in PipeAt
      BY DEF PipeAt
    <3>. QED  BY <1>20, <3>1, <3>2, <3>3, PipeUpdate
  <2>3. dbFile' \in [Runs -> Files \cup {None}]
    BY <1>20, <2>1 DEF TypeOK, OpenDb, OpenAt
  <2>4. TypeOK'
    BY <1>20, <2>2, <2>3 DEF TypeOK, OpenDb, history, PipeState, PipeAt
  <2>5. PipeOK' /\ CmdOK'
    BY <1>20, <2>1 DEF TypeOK, PipeOK, CmdOK, Locking, Opened, OpenDb
  <2>. QED  BY <2>4, <2>5
<1>21. ASSUME NEW p \in Pipes, Contract(p)
     PROVE  Shape'
  <2>1. contract[pipe[p].file] \in Outputs \cup {None} /\ pipe[p].out \in Outputs
    BY <1>21 DEF TypeOK, PipeOK, Contract, At, Opened
  <2>2. PICK x \in Outputs : pipe' = [pipe EXCEPT ![p].at = "work", ![p].out = x]
    BY <1>21, ContractWrites
  <2>3. pipe' \in [Pipes -> PipeState]
    BY <2>2, PipeUpdate, ZenonT(60) DEF TypeOK, PipeState, PipeAt
  <2>4. TypeOK'
    BY <1>21, <2>1, <2>3, ZenonT(60) DEF TypeOK, Contract, history, PipeState, PipeAt
  <2>5. x # None
    BY DEF Outputs
  <2>6. PipeOK'
    BY <1>21, <2>2, <2>5 DEF TypeOK, PipeOK, Contract, At, Locking, Opened
  <2>7. CmdOK'
    BY <1>21 DEF CmdOK, Contract
  <2>. QED  BY <2>4, <2>6, <2>7
<1>22. ASSUME NEW p \in Pipes, Work(p)
     PROVE  Shape'
  <2>1. pipe[p].file \in Files /\ pipe[p].out \in Outputs
    BY <1>22 DEF TypeOK, PipeOK, Opened, Work, At
  <2>2. TypeOK'
    BY <1>22, <2>1 DEF TypeOK, Work, history
  <2>3. PipeOK' /\ CmdOK'
    BY <1>22 DEF PipeOK, CmdOK, Work
  <2>. QED  BY <2>2, <2>3
<1>23. ASSUME NEW p \in Pipes, Finish(p)
     PROVE  Shape'
  <2>1. TypeOK'
    BY <1>23, PipeUpdate DEF TypeOK, Finish, Goto, disk, history, PipeState, PipeAt
  <2>2. PipeOK' /\ CmdOK'
    BY <1>23 DEF TypeOK, PipeOK, CmdOK, Finish, Goto, disk, history, Locking, Opened
  <2>. QED  BY <2>1, <2>2
<1>24. ASSUME NEW p \in Pipes, Unlock(p)
     PROVE  Shape'
  <2>1. TypeOK'
    BY <1>24 DEF TypeOK, PipeOK, CmdOK, Locking, Unlock, At, disk, history
  <2>2. PipeOK' /\ CmdOK'
    BY <1>24 DEF TypeOK, PipeOK, CmdOK, Locking, Opened, Unlock, At, disk, history
  <2>. QED  BY <2>1, <2>2 DEF Shape
<1>25. ASSUME NEW p \in Pipes, Guard(p)
     PROVE  Shape'
  <2>1. pipe[p].of \in Apps
    BY <1>25 DEF PipeOK, Guard, At
  <2>2. TypeOK'
    BY <1>25, <2>1, AppUpdate, PipeUpdate DEF TypeOK, Guard, Goto, disk, history, PipeState, PipeAt, AppState
  <2>3. PipeOK' /\ CmdOK'
    BY <1>25 DEF TypeOK, PipeOK, CmdOK, Guard, Goto, At, disk, history, Locking, Opened
  <2>. QED  BY <2>2, <2>3
<1>26. ASSUME NEW a \in Apps, Crash(a)
     PROVE  Shape'
  <2>. DEFINE gone == {a} \cup Alive(a)
  <2>1. pipe' \in [Pipes -> PipeState]
    BY <1>26 DEF TypeOK, Crash, NoPipe, PipeState, PipeAt
  <2>2. app' \in [Apps -> AppState]
    BY <1>26 DEF TypeOK, Crash, NewApp, AppState
  <2>3. TypeOK'
    BY <1>26, <2>1, <2>2 DEF TypeOK, Crash, NoCommand, disk, PipeState, PipeAt, AppState
  <2>4. PipeOK' /\ CmdOK'
    BY <1>26 DEF TypeOK, PipeOK, CmdOK, Crash, NoPipe, NoCommand, disk, Locking, Opened
  <2>. QED  BY <2>3, <2>4
<1>27. ASSUME NEW p \in Pipes, ContractUnread(p)
     PROVE  Shape'
  <2>1. pipe[p].file \in Files
    BY <1>27 DEF TypeOK, PipeOK, Opened, ContractUnread, At
  <2>2. TypeOK'
    BY <1>27, <2>1, PipeUpdate DEF TypeOK, ContractUnread, Goto, disk, PipeState, PipeAt
  <2>3. PipeOK' /\ CmdOK'
    BY <1>27 DEF TypeOK, PipeOK, CmdOK, ContractUnread, Goto, At, Locking, Opened
  <2>. QED  BY <2>2, <2>3
<1>28. ASSUME NEW a \in Apps, ReadFails(a)
     PROVE  Shape'
  <2>1. cmd' \in [Apps -> CmdState] /\ CmdOK'
    <3>1. CASE cmd' = [cmd EXCEPT ![a].at = "start"]
      BY <1>28, <3>1 DEF TypeOK, CmdOK, ReadFails, CmdState
    <3>2. CASE cmd' = [cmd EXCEPT ![a] = NoCommand]
      BY <1>28, <3>2 DEF TypeOK, CmdOK, NoCommand, CmdState
    <3>. QED  BY <1>28, <3>1, <3>2 DEF ReadFails
  <2>2. TypeOK'
    BY <1>28, <2>1 DEF TypeOK, ReadFails, disk, history, CmdState
  <2>3. PipeOK'
    BY <1>28 DEF PipeOK, ReadFails
  <2>. QED  BY <2>1, <2>2, <2>3
<1>. HIDE DEF Shape
<1>. QED
  BY <1>1, <1>2, <1>3, <1>4, <1>5, <1>6, <1>7, <1>8, <1>9, <1>10, <1>11, <1>12,
     <1>13, <1>14, <1>15, <1>16, <1>17, <1>18, <1>19, <1>20, <1>21, <1>22, <1>23, <1>24, <1>25, <1>26,
     <1>27, <1>28
     DEF Next, PipeStep, CommandStep, UserStep

-----------------------------------------------------------------------------
(* The parts of the invariant, step by step.                                *)

(* A lock file is held by the pipeline that works under it, and by nobody    *)
(* else.                                                                    *)
LEMMA LockHeldStep ==
    ASSUME Shape, LockHeld, Next
    PROVE  LockHeld'
<1>. USE DispatcherAssumption DEF Shape
<1>1. ASSUME NEW a \in Apps, NEW some \in BOOLEAN, SelectInputs(a, some)
     PROVE  LockHeld'
  BY <1>1 DEF LockHeld, Working, SelectInputs, disk, history
<1>2. ASSUME NEW a \in Apps, NEW d \in Dests, SelectOutput(a, d)
     PROVE  LockHeld'
  BY <1>2 DEF LockHeld, Working, SelectOutput, disk, history
<1>3. ASSUME NEW a \in Apps, StartActive(a)
     PROVE  LockHeld'
  BY <1>3 DEF LockHeld, Working, StartActive, NoCommand, disk, history
<1>4. ASSUME NEW a \in Apps, StartRefused(a)
     PROVE  LockHeld'
  BY <1>4 DEF LockHeld, Working, StartRefused, MayStart, NoCommand, disk
<1>5. ASSUME NEW a \in Apps, NEW p \in Pipes, StartSpawn(a, p)
     PROVE  LockHeld'
  BY <1>5 DEF LockHeld, Working, StartSpawn, MayStart, NoPipe, NoCommand, disk, history
<1>6. ASSUME NEW a \in Apps, Reset(a)
     PROVE  LockHeld'
  BY <1>6 DEF LockHeld, Working, Reset, NewApp, disk
<1>7. ASSUME NEW a \in Apps, NEW op \in {"resume", "recover", "delete"}, NEW r \in Runs, Command(a, op, r)
     PROVE  LockHeld'
  BY <1>7 DEF LockHeld, Working, Command, disk, history
<1>8. ASSUME NEW a \in Apps, ProbeMissing(a)
     PROVE  LockHeld'
  BY <1>8 DEF TypeOK, PipeOK, Locking, CmdOK, LockHeld, Working, ProbeMissing, AfterProbe, disk,
       history
<1>9. ASSUME NEW a \in Apps, ProbeActive(a)
     PROVE  LockHeld'
  BY <1>9 DEF LockHeld, Working, ProbeActive, NoCommand, disk, history
<1>10. ASSUME NEW a \in Apps, ProbeFree(a)
     PROVE  LockHeld'
  BY <1>10 DEF TypeOK, LockHeld, Working, ProbeFree, disk, history
<1>11. ASSUME NEW a \in Apps, Release(a)
     PROVE  LockHeld'
  BY <1>11 DEF TypeOK, LockHeld, Working, Release, AfterProbe, disk, history
<1>12. ASSUME NEW a \in Apps, ResumeSet(a)
     PROVE  LockHeld'
  BY <1>12 DEF LockHeld, Working, ResumeSet, disk, history
<1>13. ASSUME NEW a \in Apps, NEW f \in Files, OpenUnlocked(a, f)
     PROVE  LockHeld'
  BY <1>13, OpenUnlockedKeeps DEF LockHeld, Working, OpenUnlocked, history
<1>14. ASSUME NEW a \in Apps, DeleteDb(a)
     PROVE  LockHeld'
  BY <1>14 DEF LockHeld, Working, DeleteDb, history
<1>15. ASSUME NEW a \in Apps, DeleteLock(a)
     PROVE  LockHeld'
  BY <1>15 DEF LockHeld, Working, DeleteLock, NoCommand
<1>16. ASSUME NEW p \in Pipes, SetupFails(p)
     PROVE  LockHeld'
  BY <1>16 DEF LockHeld, Working, SetupFails, At, Goto, disk, history
<1>17. ASSUME NEW p \in Pipes, NEW r \in Runs, SetupDone(p, r)
     PROVE  LockHeld'
  BY <1>17 DEF TypeOK, LockHeld, Working, SetupDone, At, disk
<1>18. ASSUME NEW p \in Pipes, NEW l \in Locks, OpenLock(p, l)
     PROVE  LockHeld'
  BY <1>18 DEF TypeOK, LockHeld, Working, OpenLock, At, history
<1>19. ASSUME NEW p \in Pipes, TryLock(p)
     PROVE  LockHeld'
  BY <1>19 DEF TypeOK, PipeOK, Locking, LockHeld, Working, TryLock, At, disk, history
<1>20. ASSUME NEW p \in Pipes, NEW f \in Files, OpenDb(p, f)
     PROVE  LockHeld'
  BY <1>20 DEF TypeOK, LockHeld, Working, OpenDb, At, OpenAt, history
<1>21. ASSUME NEW p \in Pipes, Contract(p)
     PROVE  LockHeld'
  BY <1>21, ContractKeeps DEF LockHeld, Working, Contract, history
<1>22. ASSUME NEW p \in Pipes, Work(p)
     PROVE  LockHeld'
  BY <1>22 DEF LockHeld, Working, Work, At, history
<1>23. ASSUME NEW p \in Pipes, Finish(p)
     PROVE  LockHeld'
  BY <1>23 DEF LockHeld, Working, Finish, Goto, disk, history
<1>24. ASSUME NEW p \in Pipes, Unlock(p)
     PROVE  LockHeld'
  BY <1>24 DEF TypeOK, LockHeld, Working, Unlock, At, disk, history
<1>25. ASSUME NEW p \in Pipes, Guard(p)
     PROVE  LockHeld'
  BY <1>25 DEF LockHeld, Working, Guard, At, Goto, disk, history
<1>26. ASSUME NEW a \in Apps, Crash(a)
     PROVE  LockHeld'
  <2>1. /\ \A q \in Pipes : pipe'[q].at \notin {"new", "ended"} => q \notin {a} \cup Alive(a) /\ pipe'[q] = pipe[q]
        /\ \A b \in Apps \ {a} : b \notin {a} \cup Alive(a) /\ cmd'[b] = cmd[b]
        /\ cmd'[a].at = "idle"
        /\ locker' = [l \in Locks |-> IF locker[l] \in {a} \cup Alive(a) THEN None ELSE locker[l]]
    BY <1>26 DEF TypeOK, Crash, Alive, NoPipe, NoCommand
  <2>2. \A q \in Pipes : Working(q)' => Working(q) /\ pipe[q].lock \in Locks
    BY <2>1 DEF TypeOK, PipeOK, Locking, Working
  <2>3. \A b \in Apps : cmd[b].at = "release" => cmd[b].lock \in Locks
    BY DEF TypeOK, CmdOK
  <2>. QED  BY <2>1, <2>2, <2>3 DEF LockHeld, Working
<1>27. ASSUME NEW p \in Pipes, ContractUnread(p)
     PROVE  LockHeld'
  BY <1>27 DEF LockHeld, Working, ContractUnread, At, Goto
<1>28. ASSUME NEW a \in Apps, ReadFails(a)
     PROVE  LockHeld'
  BY <1>28 DEF TypeOK, LockHeld, Working, ReadFails, NoCommand
<1>. QED
  BY <1>1, <1>2, <1>3, <1>4, <1>5, <1>6, <1>7, <1>8, <1>9, <1>10, <1>11, <1>12,
     <1>13, <1>14, <1>15, <1>16, <1>17, <1>18, <1>19, <1>20, <1>21, <1>22, <1>23, <1>24, <1>25, <1>26,
     <1>27, <1>28
     DEF Next, PipeStep, CommandStep, UserStep

(* The lock file of a run stays the one its pipelines have open, until a     *)
(* deletion tears it from them.                                             *)
LEMMA LockSharedStep ==
    ASSUME Shape, LockShared, Next
    PROVE  LockShared'
<1>. USE DispatcherAssumption DEF Shape
<1>1. ASSUME NEW a \in Apps, NEW some \in BOOLEAN, SelectInputs(a, some)
     PROVE  LockShared'
  BY <1>1 DEF LockShared, SelectInputs, disk, history
<1>2. ASSUME NEW a \in Apps, NEW d \in Dests, SelectOutput(a, d)
     PROVE  LockShared'
  BY <1>2 DEF LockShared, SelectOutput, disk, history
<1>3. ASSUME NEW a \in Apps, StartActive(a)
     PROVE  LockShared'
  BY <1>3 DEF LockShared, StartActive, NoCommand, disk, history
<1>4. ASSUME NEW a \in Apps, StartRefused(a)
     PROVE  LockShared'
  BY <1>4 DEF LockShared, StartRefused, MayStart, NoCommand, disk
<1>5. ASSUME NEW a \in Apps, NEW p \in Pipes, StartSpawn(a, p)
     PROVE  LockShared'
  BY <1>5 DEF LockShared, StartSpawn, MayStart, NoPipe, NoCommand, disk, history
<1>6. ASSUME NEW a \in Apps, Reset(a)
     PROVE  LockShared'
  BY <1>6 DEF LockShared, Reset, NewApp, disk
<1>7. ASSUME NEW a \in Apps, NEW op \in {"resume", "recover", "delete"}, NEW r \in Runs, Command(a, op, r)
     PROVE  LockShared'
  BY <1>7 DEF LockShared, Command, disk, history
<1>8. ASSUME NEW a \in Apps, ProbeMissing(a)
     PROVE  LockShared'
  BY <1>8 DEF LockShared, ProbeMissing, AfterProbe, disk, history
<1>9. ASSUME NEW a \in Apps, ProbeActive(a)
     PROVE  LockShared'
  BY <1>9 DEF LockShared, ProbeActive, NoCommand, disk, history
<1>10. ASSUME NEW a \in Apps, ProbeFree(a)
     PROVE  LockShared'
  BY <1>10 DEF LockShared, ProbeFree, disk, history
<1>11. ASSUME NEW a \in Apps, Release(a)
     PROVE  LockShared'
  BY <1>11 DEF LockShared, Release, AfterProbe, disk, history
<1>12. ASSUME NEW a \in Apps, ResumeSet(a)
     PROVE  LockShared'
  BY <1>12 DEF LockShared, ResumeSet, disk, history
<1>13. ASSUME NEW a \in Apps, NEW f \in Files, OpenUnlocked(a, f)
     PROVE  LockShared'
  BY <1>13 DEF LockShared, OpenUnlocked, OpenAt, NoCommand, history
<1>14. ASSUME NEW a \in Apps, DeleteDb(a)
     PROVE  LockShared'
  BY <1>14 DEF LockShared, DeleteDb, history
<1>15. ASSUME NEW a \in Apps, DeleteLock(a)
     PROVE  LockShared'
  BY <1>15 DEF LockShared, DeleteLock, NoCommand
<1>16. ASSUME NEW p \in Pipes, SetupFails(p)
     PROVE  LockShared'
  BY <1>16 DEF LockShared, SetupFails, At, Goto, disk, history
<1>17. ASSUME NEW p \in Pipes, NEW r \in Runs, SetupDone(p, r)
     PROVE  LockShared'
  BY <1>17 DEF TypeOK, LockShared, SetupDone, At, disk
<1>18. ASSUME NEW p \in Pipes, NEW l \in Locks, OpenLock(p, l)
     PROVE  LockShared'
  BY <1>18 DEF TypeOK, PipeOK, Locking, LockShared, OpenLock, At, history
<1>19. ASSUME NEW p \in Pipes, TryLock(p)
     PROVE  LockShared'
  BY <1>19 DEF TypeOK, LockShared, TryLock, At, disk, history
<1>20. ASSUME NEW p \in Pipes, NEW f \in Files, OpenDb(p, f)
     PROVE  LockShared'
  BY <1>20 DEF TypeOK, LockShared, OpenDb, At, OpenAt, history
<1>21. ASSUME NEW p \in Pipes, Contract(p)
     PROVE  LockShared'
  BY <1>21, ContractKeeps DEF LockShared, Contract, history
<1>22. ASSUME NEW p \in Pipes, Work(p)
     PROVE  LockShared'
  BY <1>22 DEF LockShared, Work, At, history
<1>23. ASSUME NEW p \in Pipes, Finish(p)
     PROVE  LockShared'
  BY <1>23 DEF LockShared, Finish, Goto, disk, history
<1>24. ASSUME NEW p \in Pipes, Unlock(p)
     PROVE  LockShared'
  BY <1>24 DEF TypeOK, LockShared, Unlock, At, disk, history
<1>25. ASSUME NEW p \in Pipes, Guard(p)
     PROVE  LockShared'
  BY <1>25 DEF LockShared, Guard, At, Goto, disk, history
<1>26. ASSUME NEW a \in Apps, Crash(a)
     PROVE  LockShared'
  BY <1>26 DEF LockShared, Crash, NoCommand, NoPipe, NewApp, disk
<1>27. ASSUME NEW p \in Pipes, ContractUnread(p)
     PROVE  LockShared'
  BY <1>27 DEF LockShared, ContractUnread, At, Goto, disk
<1>28. ASSUME NEW a \in Apps, ReadFails(a)
     PROVE  LockShared'
  BY <1>28 DEF LockShared, ReadFails, disk, history
<1>. QED
  BY <1>1, <1>2, <1>3, <1>4, <1>5, <1>6, <1>7, <1>8, <1>9, <1>10, <1>11, <1>12,
     <1>13, <1>14, <1>15, <1>16, <1>17, <1>18, <1>19, <1>20, <1>21, <1>22, <1>23, <1>24, <1>25, <1>26,
     <1>27, <1>28
     DEF Next, PipeStep, CommandStep, UserStep

(* is_running goes up with the start of the only pipeline and down with its  *)
(* end.                                                                     *)
LEMMA FlagStep ==
    ASSUME Shape, FlagIsHonest, Next
    PROVE  FlagIsHonest'
<1>. USE DispatcherAssumption DEF Shape
<1>1. ASSUME NEW a \in Apps, NEW some \in BOOLEAN, SelectInputs(a, some)
     PROVE  FlagIsHonest'
  BY <1>1 DEF FlagIsHonest, Alive, SelectInputs, disk, history
<1>2. ASSUME NEW a \in Apps, NEW d \in Dests, SelectOutput(a, d)
     PROVE  FlagIsHonest'
  BY <1>2 DEF FlagIsHonest, Alive, SelectOutput, disk, history
<1>3. ASSUME NEW a \in Apps, StartActive(a)
     PROVE  FlagIsHonest'
  BY <1>3 DEF FlagIsHonest, Alive, StartActive, NoCommand, disk, history
<1>4. ASSUME NEW a \in Apps, StartRefused(a)
     PROVE  FlagIsHonest'
  BY <1>4 DEF FlagIsHonest, Alive, StartRefused, MayStart, NoCommand, disk
<1>5. ASSUME NEW a \in Apps, NEW p \in Pipes, StartSpawn(a, p)
     PROVE  FlagIsHonest'
  BY <1>5 DEF TypeOK, FlagIsHonest, Alive, StartSpawn, MayStart, NoPipe, NoCommand, disk, history
<1>6. ASSUME NEW a \in Apps, Reset(a)
     PROVE  FlagIsHonest'
  BY <1>6 DEF TypeOK, FlagIsHonest, Alive, Reset, NewApp, disk
<1>7. ASSUME NEW a \in Apps, NEW op \in {"resume", "recover", "delete"}, NEW r \in Runs, Command(a, op, r)
     PROVE  FlagIsHonest'
  BY <1>7 DEF FlagIsHonest, Alive, Command, disk, history
<1>8. ASSUME NEW a \in Apps, ProbeMissing(a)
     PROVE  FlagIsHonest'
  BY <1>8 DEF FlagIsHonest, Alive, ProbeMissing, AfterProbe, disk, history
<1>9. ASSUME NEW a \in Apps, ProbeActive(a)
     PROVE  FlagIsHonest'
  BY <1>9 DEF FlagIsHonest, Alive, ProbeActive, NoCommand, disk, history
<1>10. ASSUME NEW a \in Apps, ProbeFree(a)
     PROVE  FlagIsHonest'
  BY <1>10 DEF FlagIsHonest, Alive, ProbeFree, disk, history
<1>11. ASSUME NEW a \in Apps, Release(a)
     PROVE  FlagIsHonest'
  BY <1>11 DEF FlagIsHonest, Alive, Release, AfterProbe, disk, history
<1>12. ASSUME NEW a \in Apps, ResumeSet(a)
     PROVE  FlagIsHonest'
  BY <1>12 DEF FlagIsHonest, Alive, ResumeSet, disk, history
<1>13. ASSUME NEW a \in Apps, NEW f \in Files, OpenUnlocked(a, f)
     PROVE  FlagIsHonest'
  BY <1>13, OpenUnlockedKeeps DEF FlagIsHonest, Alive, OpenUnlocked, history
<1>14. ASSUME NEW a \in Apps, DeleteDb(a)
     PROVE  FlagIsHonest'
  BY <1>14 DEF FlagIsHonest, Alive, DeleteDb, history
<1>15. ASSUME NEW a \in Apps, DeleteLock(a)
     PROVE  FlagIsHonest'
  BY <1>15 DEF FlagIsHonest, Alive, DeleteLock, NoCommand
<1>16. ASSUME NEW p \in Pipes, SetupFails(p)
     PROVE  FlagIsHonest'
  BY <1>16 DEF FlagIsHonest, Alive, SetupFails, At, Goto, disk, history
<1>17. ASSUME NEW p \in Pipes, NEW r \in Runs, SetupDone(p, r)
     PROVE  FlagIsHonest'
  <2>1. \A q \in Pipes : /\ pipe'[q].of = pipe[q].of
                         /\ pipe'[q].at \in {"new", "ended"} <=> pipe[q].at \in {"new", "ended"}
    BY <1>17 DEF TypeOK, SetupDone, At
  <2>2. app' = app /\ dishonest' = dishonest
    BY <1>17 DEF SetupDone, history
  <2>3. \A b \in Apps : Alive(b)' = Alive(b)
    BY <2>1 DEF Alive
  <2>. QED  BY <2>2, <2>3 DEF FlagIsHonest
<1>18. ASSUME NEW p \in Pipes, NEW l \in Locks, OpenLock(p, l)
     PROVE  FlagIsHonest'
  <2>1. \A q \in Pipes : /\ pipe'[q].of = pipe[q].of
                         /\ pipe'[q].at \in {"new", "ended"} <=> pipe[q].at \in {"new", "ended"}
    BY <1>18 DEF TypeOK, OpenLock, At
  <2>2. app' = app /\ dishonest' = dishonest
    BY <1>18 DEF OpenLock, history
  <2>3. \A b \in Apps : Alive(b)' = Alive(b)
    BY <2>1 DEF Alive
  <2>. QED  BY <2>2, <2>3 DEF FlagIsHonest
<1>19. ASSUME NEW p \in Pipes, TryLock(p)
     PROVE  FlagIsHonest'
  BY <1>19 DEF TypeOK, FlagIsHonest, Alive, TryLock, At, disk, history
<1>20. ASSUME NEW p \in Pipes, NEW f \in Files, OpenDb(p, f)
     PROVE  FlagIsHonest'
  <2>1. \A q \in Pipes : /\ pipe'[q].of = pipe[q].of
                         /\ pipe'[q].at \in {"new", "ended"} <=> pipe[q].at \in {"new", "ended"}
    BY <1>20 DEF TypeOK, OpenDb, At
  <2>2. app' = app /\ dishonest' = dishonest
    BY <1>20 DEF OpenDb, history
  <2>3. \A b \in Apps : Alive(b)' = Alive(b)
    BY <2>1 DEF Alive
  <2>. QED  BY <2>2, <2>3 DEF FlagIsHonest
<1>21. ASSUME NEW p \in Pipes, Contract(p)
     PROVE  FlagIsHonest'
  <2>1. \A q \in Pipes : /\ pipe'[q].of = pipe[q].of
                         /\ pipe'[q].at \in {"new", "ended"} <=> pipe[q].at \in {"new", "ended"}
    BY <1>21, ContractKeeps
  <2>2. app' = app /\ dishonest' = dishonest
    BY <1>21 DEF Contract, history
  <2>3. \A b \in Apps : Alive(b)' = Alive(b)
    BY <2>1 DEF Alive
  <2>. QED  BY <2>2, <2>3 DEF FlagIsHonest
<1>22. ASSUME NEW p \in Pipes, Work(p)
     PROVE  FlagIsHonest'
  BY <1>22 DEF FlagIsHonest, Alive, Work, At, history
<1>23. ASSUME NEW p \in Pipes, Finish(p)
     PROVE  FlagIsHonest'
  BY <1>23 DEF FlagIsHonest, Alive, Finish, Goto, disk, history
<1>24. ASSUME NEW p \in Pipes, Unlock(p)
     PROVE  FlagIsHonest'
  BY <1>24, SMTT(30) DEF TypeOK, PipeOK, FlagIsHonest, Alive, Unlock, At, disk, history
<1>25. ASSUME NEW p \in Pipes, Guard(p)
     PROVE  FlagIsHonest'
  BY <1>25, SMTT(30) DEF TypeOK, FlagIsHonest, Alive, Guard, At, Goto, disk, history
<1>26. ASSUME NEW a \in Apps, Crash(a)
     PROVE  FlagIsHonest'
  <2>1. Alive(a)' = {} /\ \A b \in Apps \ {a} : Alive(b)' = Alive(b) /\ app'[b] = app[b]
    BY <1>26 DEF TypeOK, Crash, Alive, NoPipe
  <2>2. app'[a].running = FALSE /\ \A b \in Apps \ {a} : b \in dishonest' <=> b \in dishonest
    BY <1>26 DEF TypeOK, Crash, NewApp
  <2>. QED  BY <2>1, <2>2 DEF FlagIsHonest
<1>27. ASSUME NEW p \in Pipes, ContractUnread(p)
     PROVE  FlagIsHonest'
  BY <1>27 DEF FlagIsHonest, Alive, ContractUnread, At, Goto
<1>28. ASSUME NEW a \in Apps, ReadFails(a)
     PROVE  FlagIsHonest'
  BY <1>28 DEF FlagIsHonest, Alive, ReadFails, history
<1>. QED
  BY <1>1, <1>2, <1>3, <1>4, <1>5, <1>6, <1>7, <1>8, <1>9, <1>10, <1>11, <1>12,
     <1>13, <1>14, <1>15, <1>16, <1>17, <1>18, <1>19, <1>20, <1>21, <1>22, <1>23, <1>24, <1>25, <1>26,
     <1>27, <1>28
     DEF Next, PipeStep, CommandStep, UserStep

(* A database file never changes its run.                                   *)
LEMMA FileOwnedStep ==
    ASSUME Shape, FileOwned, Next
    PROVE  FileOwned'
<1>. USE DispatcherAssumption DEF Shape
<1>1. ASSUME NEW a \in Apps, NEW some \in BOOLEAN, SelectInputs(a, some)
     PROVE  FileOwned'
  BY <1>1 DEF FileOwned, FreshFile, SelectInputs, disk, history
<1>2. ASSUME NEW a \in Apps, NEW d \in Dests, SelectOutput(a, d)
     PROVE  FileOwned'
  BY <1>2 DEF FileOwned, FreshFile, SelectOutput, disk, history
<1>3. ASSUME NEW a \in Apps, StartActive(a)
     PROVE  FileOwned'
  BY <1>3 DEF FileOwned, FreshFile, StartActive, NoCommand, disk, history
<1>4. ASSUME NEW a \in Apps, StartRefused(a)
     PROVE  FileOwned'
  BY <1>4 DEF FileOwned, FreshFile, StartRefused, MayStart, NoCommand, disk
<1>5. ASSUME NEW a \in Apps, NEW p \in Pipes, StartSpawn(a, p)
     PROVE  FileOwned'
  BY <1>5 DEF FileOwned, FreshFile, StartSpawn, MayStart, NoPipe, NoCommand, disk, history
<1>6. ASSUME NEW a \in Apps, Reset(a)
     PROVE  FileOwned'
  BY <1>6 DEF FileOwned, FreshFile, Reset, NewApp, disk
<1>7. ASSUME NEW a \in Apps, NEW op \in {"resume", "recover", "delete"}, NEW r \in Runs, Command(a, op, r)
     PROVE  FileOwned'
  BY <1>7 DEF FileOwned, FreshFile, Command, disk, history
<1>8. ASSUME NEW a \in Apps, ProbeMissing(a)
     PROVE  FileOwned'
  BY <1>8 DEF FileOwned, FreshFile, ProbeMissing, AfterProbe, disk, history
<1>9. ASSUME NEW a \in Apps, ProbeActive(a)
     PROVE  FileOwned'
  BY <1>9 DEF FileOwned, FreshFile, ProbeActive, NoCommand, disk, history
<1>10. ASSUME NEW a \in Apps, ProbeFree(a)
     PROVE  FileOwned'
  BY <1>10 DEF FileOwned, FreshFile, ProbeFree, disk, history
<1>11. ASSUME NEW a \in Apps, Release(a)
     PROVE  FileOwned'
  BY <1>11 DEF FileOwned, FreshFile, Release, AfterProbe, disk, history
<1>12. ASSUME NEW a \in Apps, ResumeSet(a)
     PROVE  FileOwned'
  BY <1>12 DEF FileOwned, FreshFile, ResumeSet, disk, history
<1>13. ASSUME NEW a \in Apps, NEW f \in Files, OpenUnlocked(a, f)
     PROVE  FileOwned'
  <2>1. pipe' = pipe
    BY <1>13, OpenUnlockedKeeps
  <2>2. CASE dbFile[cmd[a].run] = None
    <3>1. FreshFile(f) /\ dbFile' = [dbFile EXCEPT ![cmd[a].run] = f]
      BY <1>13, <2>2 DEF OpenUnlocked, OpenAt
    <3>. QED  BY <2>1, <3>1 DEF TypeOK, FileOwned, FreshFile
  <2>3. CASE dbFile[cmd[a].run] # None
    <3>1. dbFile' = dbFile
      BY <1>13, <2>3 DEF OpenUnlocked, OpenAt
    <3>. QED  BY <2>1, <3>1 DEF FileOwned
  <2>. QED  BY <2>2, <2>3
<1>14. ASSUME NEW a \in Apps, DeleteDb(a)
     PROVE  FileOwned'
  BY <1>14 DEF FileOwned, FreshFile, DeleteDb, history
<1>15. ASSUME NEW a \in Apps, DeleteLock(a)
     PROVE  FileOwned'
  BY <1>15 DEF FileOwned, FreshFile, DeleteLock, NoCommand
<1>16. ASSUME NEW p \in Pipes, SetupFails(p)
     PROVE  FileOwned'
  BY <1>16 DEF FileOwned, FreshFile, SetupFails, At, Goto, disk, history
<1>17. ASSUME NEW p \in Pipes, NEW r \in Runs, SetupDone(p, r)
     PROVE  FileOwned'
  <2>1. pipe[p].file = None
    BY <1>17 DEF PipeOK, SetupDone, At, Opened
  <2>2. \A q \in Pipes : pipe'[q].file = pipe[q].file /\ (q # p => pipe'[q].db = pipe[q].db)
    BY <1>17 DEF TypeOK, SetupDone
  <2>3. dbFile' = dbFile
    BY <1>17 DEF SetupDone, disk
  <2>. QED  BY <2>1, <2>2, <2>3 DEF FileOwned
<1>18. ASSUME NEW p \in Pipes, NEW l \in Locks, OpenLock(p, l)
     PROVE  FileOwned'
  BY <1>18, SMTT(30) DEF TypeOK, FileOwned, FreshFile, OpenLock, At, history
<1>19. ASSUME NEW p \in Pipes, TryLock(p)
     PROVE  FileOwned'
  BY <1>19 DEF TypeOK, FileOwned, FreshFile, TryLock, At, disk, history
<1>20. ASSUME NEW p \in Pipes, NEW f \in Files, OpenDb(p, f)
     PROVE  FileOwned'
  BY <1>20 DEF TypeOK, FileOwned, FreshFile, OpenDb, At, OpenAt, history
<1>21. ASSUME NEW p \in Pipes, Contract(p)
     PROVE  FileOwned'
  BY <1>21, ContractKeeps DEF FileOwned, Contract, history
<1>22. ASSUME NEW p \in Pipes, Work(p)
     PROVE  FileOwned'
  BY <1>22 DEF FileOwned, FreshFile, Work, At, history
<1>23. ASSUME NEW p \in Pipes, Finish(p)
     PROVE  FileOwned'
  BY <1>23 DEF FileOwned, FreshFile, Finish, Goto, disk, history
<1>24. ASSUME NEW p \in Pipes, Unlock(p)
     PROVE  FileOwned'
  BY <1>24 DEF TypeOK, FileOwned, FreshFile, Unlock, At, disk, history
<1>25. ASSUME NEW p \in Pipes, Guard(p)
     PROVE  FileOwned'
  BY <1>25 DEF FileOwned, FreshFile, Guard, At, Goto, disk, history
<1>26. ASSUME NEW a \in Apps, Crash(a)
     PROVE  FileOwned'
  BY <1>26 DEF FileOwned, FreshFile, Crash, NoCommand, NoPipe, NewApp, disk
<1>27. ASSUME NEW p \in Pipes, ContractUnread(p)
     PROVE  FileOwned'
  BY <1>27 DEF FileOwned, ContractUnread, At, Goto, disk
<1>28. ASSUME NEW a \in Apps, ReadFails(a)
     PROVE  FileOwned'
  BY <1>28 DEF FileOwned, ReadFails, disk
<1>. QED
  BY <1>1, <1>2, <1>3, <1>4, <1>5, <1>6, <1>7, <1>8, <1>9, <1>10, <1>11, <1>12,
     <1>13, <1>14, <1>15, <1>16, <1>17, <1>18, <1>19, <1>20, <1>21, <1>22, <1>23, <1>24, <1>25, <1>26,
     <1>27, <1>28
     DEF Next, PipeStep, CommandStep, UserStep

(* Identifiers are known before anybody refers to them.                     *)
LEMMA UnnamedStep ==
    ASSUME Shape, Unnamed, Next
    PROVE  Unnamed'
<1>. USE DispatcherAssumption DEF Shape
<1>1. ASSUME NEW a \in Apps, NEW some \in BOOLEAN, SelectInputs(a, some)
     PROVE  Unnamed'
  BY <1>1 DEF Unnamed, SelectInputs, disk, history
<1>2. ASSUME NEW a \in Apps, NEW d \in Dests, SelectOutput(a, d)
     PROVE  Unnamed'
  BY <1>2 DEF Unnamed, SelectOutput, disk, history
<1>3. ASSUME NEW a \in Apps, StartActive(a)
     PROVE  Unnamed'
  BY <1>3 DEF Unnamed, StartActive, NoCommand, disk, history
<1>4. ASSUME NEW a \in Apps, StartRefused(a)
     PROVE  Unnamed'
  BY <1>4 DEF Unnamed, StartRefused, MayStart, NoCommand, disk
<1>5. ASSUME NEW a \in Apps, NEW p \in Pipes, StartSpawn(a, p)
     PROVE  Unnamed'
  BY <1>5 DEF Unnamed, StartSpawn, MayStart, NoPipe, NoCommand, disk, history
<1>6. ASSUME NEW a \in Apps, Reset(a)
     PROVE  Unnamed'
  BY <1>6 DEF Unnamed, Reset, NewApp, disk
<1>7. ASSUME NEW a \in Apps, NEW op \in {"resume", "recover", "delete"}, NEW r \in Runs, Command(a, op, r)
     PROVE  Unnamed'
  BY <1>7 DEF Unnamed, Command, disk, history
<1>8. ASSUME NEW a \in Apps, ProbeMissing(a)
     PROVE  Unnamed'
  BY <1>8 DEF Unnamed, ProbeMissing, AfterProbe, disk, history
<1>9. ASSUME NEW a \in Apps, ProbeActive(a)
     PROVE  Unnamed'
  BY <1>9 DEF Unnamed, ProbeActive, NoCommand, disk, history
<1>10. ASSUME NEW a \in Apps, ProbeFree(a)
     PROVE  Unnamed'
  BY <1>10 DEF TypeOK, Unnamed, ProbeFree, disk, history
<1>11. ASSUME NEW a \in Apps, Release(a)
     PROVE  Unnamed'
  BY <1>11 DEF TypeOK, Unnamed, Release, AfterProbe, disk, history
<1>12. ASSUME NEW a \in Apps, ResumeSet(a)
     PROVE  Unnamed'
  BY <1>12 DEF Unnamed, ResumeSet, disk, history
<1>13. ASSUME NEW a \in Apps, NEW f \in Files, OpenUnlocked(a, f)
     PROVE  Unnamed'
  <2>1. cmd[a].run \in Runs /\ cmd[a].run \in named
    BY <1>13 DEF TypeOK, CmdOK, Unnamed, OpenUnlocked
  <2>2. \A r \in Runs \ named : dbFile'[r] = dbFile[r]
    BY <2>1, <1>13 DEF TypeOK, OpenUnlocked, OpenAt
  <2>3. None \notin Runs /\ \A b \in Apps : cmd'[b].run = cmd[b].run \/ cmd'[b].run = None
    BY <1>13, OpenUnlockedKeeps
  <2>. QED  BY <2>2, <2>3, <1>13, OpenUnlockedKeeps DEF Unnamed
<1>14. ASSUME NEW a \in Apps, DeleteDb(a)
     PROVE  Unnamed'
  BY <1>14 DEF Unnamed, DeleteDb, history
<1>15. ASSUME NEW a \in Apps, DeleteLock(a)
     PROVE  Unnamed'
  BY <1>15 DEF Unnamed, DeleteLock, NoCommand
<1>16. ASSUME NEW p \in Pipes, SetupFails(p)
     PROVE  Unnamed'
  BY <1>16 DEF Unnamed, SetupFails, At, Goto, disk, history
<1>17. ASSUME NEW p \in Pipes, NEW r \in Runs, SetupDone(p, r)
     PROVE  Unnamed'
  BY <1>17 DEF TypeOK, Unnamed, SetupDone, At, disk
<1>18. ASSUME NEW p \in Pipes, NEW l \in Locks, OpenLock(p, l)
     PROVE  Unnamed'
  BY <1>18 DEF TypeOK, Unnamed, OpenLock, At, history
<1>19. ASSUME NEW p \in Pipes, TryLock(p)
     PROVE  Unnamed'
  BY <1>19 DEF TypeOK, Unnamed, TryLock, At, disk, history
<1>20. ASSUME NEW p \in Pipes, NEW f \in Files, OpenDb(p, f)
     PROVE  Unnamed'
  BY <1>20 DEF TypeOK, Unnamed, OpenDb, At, OpenAt, history
<1>21. ASSUME NEW p \in Pipes, Contract(p)
     PROVE  Unnamed'
  BY <1>21, ContractKeeps DEF Unnamed, Contract, history
<1>22. ASSUME NEW p \in Pipes, Work(p)
     PROVE  Unnamed'
  BY <1>22 DEF Unnamed, Work, At, history
<1>23. ASSUME NEW p \in Pipes, Finish(p)
     PROVE  Unnamed'
  BY <1>23 DEF Unnamed, Finish, Goto, disk, history
<1>24. ASSUME NEW p \in Pipes, Unlock(p)
     PROVE  Unnamed'
  BY <1>24 DEF TypeOK, Unnamed, Unlock, At, disk, history
<1>25. ASSUME NEW p \in Pipes, Guard(p)
     PROVE  Unnamed'
  BY <1>25 DEF Unnamed, Guard, At, Goto, disk, history
<1>26. ASSUME NEW a \in Apps, Crash(a)
     PROVE  Unnamed'
  BY <1>26 DEF Unnamed, Crash, NoCommand, NoPipe, NewApp, disk
<1>27. ASSUME NEW p \in Pipes, ContractUnread(p)
     PROVE  Unnamed'
  BY <1>27 DEF Unnamed, ContractUnread, At, Goto, disk
<1>28. ASSUME NEW a \in Apps, ReadFails(a)
     PROVE  Unnamed'
  BY <1>28 DEF TypeOK, Unnamed, ReadFails, NoCommand, disk, history
<1>. QED
  BY <1>1, <1>2, <1>3, <1>4, <1>5, <1>6, <1>7, <1>8, <1>9, <1>10, <1>11, <1>12,
     <1>13, <1>14, <1>15, <1>16, <1>17, <1>18, <1>19, <1>20, <1>21, <1>22, <1>23, <1>24, <1>25, <1>26,
     <1>27, <1>28
     DEF Next, PipeStep, CommandStep, UserStep

(* Nobody gets in between the naming of a run and its database.             *)
LEMMA PrivateStep ==
    ASSUME Shape, Unnamed, Private, Next
    PROVE  Private'
<1>. USE DispatcherAssumption DEF Shape
<1>1. ASSUME NEW a \in Apps, NEW some \in BOOLEAN, SelectInputs(a, some)
     PROVE  Private'
  BY <1>1 DEF Private, Naming, SelectInputs, disk, history
<1>2. ASSUME NEW a \in Apps, NEW d \in Dests, SelectOutput(a, d)
     PROVE  Private'
  BY <1>2 DEF Private, Naming, SelectOutput, disk, history
<1>3. ASSUME NEW a \in Apps, StartActive(a)
     PROVE  Private'
  BY <1>3 DEF TypeOK, PipeOK, Locking, Unnamed, Private, Naming, StartActive, NoCommand, disk,
       history
<1>4. ASSUME NEW a \in Apps, StartRefused(a)
     PROVE  Private'
  BY <1>4 DEF TypeOK, PipeOK, Locking, Unnamed, Private, Naming, StartRefused, MayStart, NoCommand,
       disk
<1>5. ASSUME NEW a \in Apps, NEW p \in Pipes, StartSpawn(a, p)
     PROVE  Private'
  BY <1>5 DEF TypeOK, PipeOK, Locking, Unnamed, Private, Naming, StartSpawn, MayStart, NoPipe,
       NoCommand, disk, history
<1>6. ASSUME NEW a \in Apps, Reset(a)
     PROVE  Private'
  BY <1>6 DEF TypeOK, PipeOK, Locking, Unnamed, Private, Naming, Reset, NewApp, disk
<1>7. ASSUME NEW a \in Apps, NEW op \in {"resume", "recover", "delete"}, NEW r \in Runs, Command(a, op, r)
     PROVE  Private'
  BY <1>7 DEF Private, Naming, Command, disk, history
<1>8. ASSUME NEW a \in Apps, ProbeMissing(a)
     PROVE  Private'
  BY <1>8 DEF Private, Naming, ProbeMissing, AfterProbe, disk, history
<1>9. ASSUME NEW a \in Apps, ProbeActive(a)
     PROVE  Private'
  BY <1>9 DEF TypeOK, PipeOK, Locking, Unnamed, Private, Naming, ProbeActive, NoCommand, disk,
       history
<1>10. ASSUME NEW a \in Apps, ProbeFree(a)
     PROVE  Private'
  BY <1>10 DEF TypeOK, Private, Naming, ProbeFree, disk, history
<1>11. ASSUME NEW a \in Apps, Release(a)
     PROVE  Private'
  BY <1>11 DEF TypeOK, Private, Naming, Release, AfterProbe, disk, history
<1>12. ASSUME NEW a \in Apps, ResumeSet(a)
     PROVE  Private'
  <2>1. \A q \in Pipes : Naming(q) => cmd[a].run # pipe[q].db
    BY <1>12 DEF TypeOK, CmdOK, Private, ResumeSet
  <2>. QED  BY <2>1, <1>12 DEF TypeOK, Private, Naming, ResumeSet, disk
<1>13. ASSUME NEW a \in Apps, NEW f \in Files, OpenUnlocked(a, f)
     PROVE  Private'
  <2>1. \A q \in Pipes : Naming(q) => cmd[a].run # pipe[q].db /\ pipe[q].db \in Runs
    BY <1>13 DEF TypeOK, PipeOK, CmdOK, Private, Naming, Locking, OpenUnlocked
  <2>2. \A r \in Runs \ {cmd[a].run} : dbFile'[r] = dbFile[r]
    BY <1>13 DEF TypeOK, OpenUnlocked, OpenAt
  <2>. QED  BY <2>1, <2>2, <1>13, OpenUnlockedKeeps DEF Private, Naming
<1>14. ASSUME NEW a \in Apps, DeleteDb(a)
     PROVE  Private'
  BY <1>14 DEF Private, Naming, DeleteDb, history
<1>15. ASSUME NEW a \in Apps, DeleteLock(a)
     PROVE  Private'
  BY <1>15 DEF TypeOK, PipeOK, Locking, Unnamed, Private, Naming, DeleteLock, NoCommand
<1>16. ASSUME NEW p \in Pipes, SetupFails(p)
     PROVE  Private'
  BY <1>16 DEF Private, Naming, SetupFails, At, Goto, disk, history
<1>17. ASSUME NEW p \in Pipes, NEW r \in Runs, SetupDone(p, r)
     PROVE  Private'
  BY <1>17 DEF TypeOK, PipeOK, Locking, Unnamed, Private, Naming, SetupDone, At, disk
<1>18. ASSUME NEW p \in Pipes, NEW l \in Locks, OpenLock(p, l)
     PROVE  Private'
  BY <1>18 DEF TypeOK, Private, Naming, OpenLock, At, history
<1>19. ASSUME NEW p \in Pipes, TryLock(p)
     PROVE  Private'
  BY <1>19 DEF TypeOK, Private, Naming, TryLock, At, disk, history
<1>20. ASSUME NEW p \in Pipes, NEW f \in Files, OpenDb(p, f)
     PROVE  Private'
  BY <1>20 DEF TypeOK, PipeOK, Locking, Unnamed, Private, Naming, OpenDb, At, OpenAt, history
<1>21. ASSUME NEW p \in Pipes, Contract(p)
     PROVE  Private'
  BY <1>21, ContractKeeps DEF Private, Naming, Contract, history
<1>22. ASSUME NEW p \in Pipes, Work(p)
     PROVE  Private'
  BY <1>22 DEF Private, Naming, Work, At, history
<1>23. ASSUME NEW p \in Pipes, Finish(p)
     PROVE  Private'
  BY <1>23 DEF Private, Naming, Finish, Goto, disk, history
<1>24. ASSUME NEW p \in Pipes, Unlock(p)
     PROVE  Private'
  BY <1>24 DEF TypeOK, Private, Naming, Unlock, At, disk, history
<1>25. ASSUME NEW p \in Pipes, Guard(p)
     PROVE  Private'
  BY <1>25 DEF Private, Naming, Guard, At, Goto, disk, history
<1>26. ASSUME NEW a \in Apps, Crash(a)
     PROVE  Private'
  BY <1>26 DEF TypeOK, PipeOK, Locking, Unnamed, Private, Naming, Crash, NoCommand, NoPipe, NewApp,
       disk
<1>27. ASSUME NEW p \in Pipes, ContractUnread(p)
     PROVE  Private'
  BY <1>27 DEF Private, Naming, ContractUnread, At, Goto, disk
<1>28. ASSUME NEW a \in Apps, ReadFails(a)
     PROVE  Private'
  BY <1>28 DEF TypeOK, PipeOK, Locking, Private, Naming, ReadFails, NoCommand, disk
<1>. QED
  BY <1>1, <1>2, <1>3, <1>4, <1>5, <1>6, <1>7, <1>8, <1>9, <1>10, <1>11, <1>12,
     <1>13, <1>14, <1>15, <1>16, <1>17, <1>18, <1>19, <1>20, <1>21, <1>22, <1>23, <1>24, <1>25, <1>26,
     <1>27, <1>28
     DEF Next, PipeStep, CommandStep, UserStep

(* A pipeline works with the destination of its database.                   *)
LEMMA WorksThereStep ==
    ASSUME Shape, FileOwned, Private, OneWorker, WorksThere, Next
    PROVE  WorksThere'
<1>. USE DispatcherAssumption DEF Shape
<1>1. ASSUME NEW a \in Apps, NEW some \in BOOLEAN, SelectInputs(a, some)
     PROVE  WorksThere'
  BY <1>1 DEF WorksThere, SelectInputs, disk, history
<1>2. ASSUME NEW a \in Apps, NEW d \in Dests, SelectOutput(a, d)
     PROVE  WorksThere'
  BY <1>2 DEF WorksThere, SelectOutput, disk, history
<1>3. ASSUME NEW a \in Apps, StartActive(a)
     PROVE  WorksThere'
  BY <1>3 DEF WorksThere, StartActive, NoCommand, disk, history
<1>4. ASSUME NEW a \in Apps, StartRefused(a)
     PROVE  WorksThere'
  BY <1>4 DEF WorksThere, StartRefused, MayStart, NoCommand, disk
<1>5. ASSUME NEW a \in Apps, NEW p \in Pipes, StartSpawn(a, p)
     PROVE  WorksThere'
  <2>1. pipe'[p].at = "setup"
    BY <1>5 DEF TypeOK, StartSpawn, NoPipe
  <2>2. \A q \in Pipes \ {p} : pipe'[q] = pipe[q]
    BY <1>5 DEF TypeOK, StartSpawn
  <2>3. UNCHANGED <<contract, wrote, torn, unread>>
    BY <1>5 DEF StartSpawn, disk, history
  <2>. QED  BY <2>1, <2>2, <2>3 DEF WorksThere
<1>6. ASSUME NEW a \in Apps, Reset(a)
     PROVE  WorksThere'
  BY <1>6 DEF WorksThere, Reset, NewApp, disk
<1>7. ASSUME NEW a \in Apps, NEW op \in {"resume", "recover", "delete"}, NEW r \in Runs, Command(a, op, r)
     PROVE  WorksThere'
  BY <1>7 DEF WorksThere, Command, disk, history
<1>8. ASSUME NEW a \in Apps, ProbeMissing(a)
     PROVE  WorksThere'
  BY <1>8 DEF WorksThere, ProbeMissing, AfterProbe, disk, history
<1>9. ASSUME NEW a \in Apps, ProbeActive(a)
     PROVE  WorksThere'
  BY <1>9 DEF WorksThere, ProbeActive, NoCommand, disk, history
<1>10. ASSUME NEW a \in Apps, ProbeFree(a)
     PROVE  WorksThere'
  BY <1>10 DEF WorksThere, ProbeFree, disk, history
<1>11. ASSUME NEW a \in Apps, Release(a)
     PROVE  WorksThere'
  BY <1>11 DEF WorksThere, Release, AfterProbe, disk, history
<1>12. ASSUME NEW a \in Apps, ResumeSet(a)
     PROVE  WorksThere'
  BY <1>12 DEF WorksThere, ResumeSet, disk, history
<1>13. ASSUME NEW a \in Apps, NEW f \in Files, OpenUnlocked(a, f)
     PROVE  WorksThere'
  BY <1>13 DEF WorksThere, OpenUnlocked, OpenAt, NoCommand, history
<1>14. ASSUME NEW a \in Apps, DeleteDb(a)
     PROVE  WorksThere'
  BY <1>14 DEF WorksThere, DeleteDb, history
<1>15. ASSUME NEW a \in Apps, DeleteLock(a)
     PROVE  WorksThere'
  BY <1>15 DEF WorksThere, DeleteLock, NoCommand
<1>16. ASSUME NEW p \in Pipes, SetupFails(p)
     PROVE  WorksThere'
  BY <1>16 DEF WorksThere, SetupFails, At, Goto, disk, history
<1>17. ASSUME NEW p \in Pipes, NEW r \in Runs, SetupDone(p, r)
     PROVE  WorksThere'
  BY <1>17 DEF TypeOK, PipeOK, Locking, Opened, WorksThere, SetupDone, At, disk
<1>18. ASSUME NEW p \in Pipes, NEW l \in Locks, OpenLock(p, l)
     PROVE  WorksThere'
  BY <1>18 DEF TypeOK, PipeOK, Locking, Opened, WorksThere, OpenLock, At, history
<1>19. ASSUME NEW p \in Pipes, TryLock(p)
     PROVE  WorksThere'
  BY <1>19 DEF TypeOK, PipeOK, Locking, Opened, WorksThere, TryLock, At, disk, history
<1>20. ASSUME NEW p \in Pipes, NEW f \in Files, OpenDb(p, f)
     PROVE  WorksThere'
  BY <1>20 DEF TypeOK, PipeOK, Locking, Opened, WorksThere, OpenDb, At, OpenAt, history
<1>21. ASSUME NEW p \in Pipes, Contract(p)
     PROVE  WorksThere'
  BY <1>21 DEF TypeOK, PipeOK, Locking, Opened, FileOwned, FreshFile, OneWorker, Working, Private,
       Naming, CmdOK, WorksThere, Contract, At, Goto, history
<1>22. ASSUME NEW p \in Pipes, Work(p)
     PROVE  WorksThere'
  BY <1>22 DEF TypeOK, PipeOK, Locking, Opened, FileOwned, FreshFile, OneWorker, Working, Private,
       Naming, CmdOK, WorksThere, Work, At, history
<1>23. ASSUME NEW p \in Pipes, Finish(p)
     PROVE  WorksThere'
  BY <1>23 DEF WorksThere, Finish, Goto, disk, history
<1>24. ASSUME NEW p \in Pipes, Unlock(p)
     PROVE  WorksThere'
  BY <1>24 DEF TypeOK, PipeOK, Locking, Opened, WorksThere, Unlock, At, disk, history
<1>25. ASSUME NEW p \in Pipes, Guard(p)
     PROVE  WorksThere'
  BY <1>25 DEF WorksThere, Guard, At, Goto, disk, history
<1>26. ASSUME NEW a \in Apps, Crash(a)
     PROVE  WorksThere'
  BY <1>26 DEF WorksThere, Crash, NoCommand, NoPipe, NewApp, disk
<1>27. ASSUME NEW p \in Pipes, ContractUnread(p)
     PROVE  WorksThere'
  BY <1>27 DEF TypeOK, PipeOK, Opened, WorksThere, ContractUnread, At, Goto, disk
<1>28. ASSUME NEW a \in Apps, ReadFails(a)
     PROVE  WorksThere'
  BY <1>28 DEF WorksThere, ReadFails, disk, history
<1>. QED
  BY <1>1, <1>2, <1>3, <1>4, <1>5, <1>6, <1>7, <1>8, <1>9, <1>10, <1>11, <1>12,
     <1>13, <1>14, <1>15, <1>16, <1>17, <1>18, <1>19, <1>20, <1>21, <1>22, <1>23, <1>24, <1>25, <1>26,
     <1>27, <1>28
     DEF Next, PipeStep, CommandStep, UserStep

(* Whatever is restored goes where the database of the run says.            *)
LEMMA DestinationStep ==
    ASSUME Shape, FileOwned, WorksThere, OneDestination, Next
    PROVE  OneDestination'
<1>. USE DispatcherAssumption DEF Shape
<1>1. ASSUME NEW a \in Apps, NEW some \in BOOLEAN, SelectInputs(a, some)
     PROVE  OneDestination'
  BY <1>1 DEF OneDestination, SelectInputs, disk, history
<1>2. ASSUME NEW a \in Apps, NEW d \in Dests, SelectOutput(a, d)
     PROVE  OneDestination'
  BY <1>2 DEF OneDestination, SelectOutput, disk, history
<1>3. ASSUME NEW a \in Apps, StartActive(a)
     PROVE  OneDestination'
  BY <1>3 DEF OneDestination, StartActive, NoCommand, disk, history
<1>4. ASSUME NEW a \in Apps, StartRefused(a)
     PROVE  OneDestination'
  BY <1>4 DEF OneDestination, StartRefused, MayStart, NoCommand, disk
<1>5. ASSUME NEW a \in Apps, NEW p \in Pipes, StartSpawn(a, p)
     PROVE  OneDestination'
  BY <1>5 DEF OneDestination, StartSpawn, MayStart, NoPipe, NoCommand, disk, history
<1>6. ASSUME NEW a \in Apps, Reset(a)
     PROVE  OneDestination'
  BY <1>6 DEF OneDestination, Reset, NewApp, disk
<1>7. ASSUME NEW a \in Apps, NEW op \in {"resume", "recover", "delete"}, NEW r \in Runs, Command(a, op, r)
     PROVE  OneDestination'
  BY <1>7 DEF OneDestination, Command, disk, history
<1>8. ASSUME NEW a \in Apps, ProbeMissing(a)
     PROVE  OneDestination'
  BY <1>8 DEF OneDestination, ProbeMissing, AfterProbe, disk, history
<1>9. ASSUME NEW a \in Apps, ProbeActive(a)
     PROVE  OneDestination'
  BY <1>9 DEF OneDestination, ProbeActive, NoCommand, disk, history
<1>10. ASSUME NEW a \in Apps, ProbeFree(a)
     PROVE  OneDestination'
  BY <1>10 DEF OneDestination, ProbeFree, disk, history
<1>11. ASSUME NEW a \in Apps, Release(a)
     PROVE  OneDestination'
  BY <1>11 DEF OneDestination, Release, AfterProbe, disk, history
<1>12. ASSUME NEW a \in Apps, ResumeSet(a)
     PROVE  OneDestination'
  BY <1>12 DEF OneDestination, ResumeSet, disk, history
<1>13. ASSUME NEW a \in Apps, NEW f \in Files, OpenUnlocked(a, f)
     PROVE  OneDestination'
  BY <1>13, SMTT(30) DEF TypeOK, PipeOK, Opened, FileOwned, FreshFile, WorksThere, CmdOK, Locking,
       OneDestination, OpenUnlocked, OpenAt, NoCommand, history
<1>14. ASSUME NEW a \in Apps, DeleteDb(a)
     PROVE  OneDestination'
  BY <1>14 DEF OneDestination, DeleteDb, history
<1>15. ASSUME NEW a \in Apps, DeleteLock(a)
     PROVE  OneDestination'
  BY <1>15 DEF OneDestination, DeleteLock, NoCommand
<1>16. ASSUME NEW p \in Pipes, SetupFails(p)
     PROVE  OneDestination'
  BY <1>16 DEF OneDestination, SetupFails, At, Goto, disk, history
<1>17. ASSUME NEW p \in Pipes, NEW r \in Runs, SetupDone(p, r)
     PROVE  OneDestination'
  BY <1>17 DEF OneDestination, SetupDone, At, disk
<1>18. ASSUME NEW p \in Pipes, NEW l \in Locks, OpenLock(p, l)
     PROVE  OneDestination'
  BY <1>18 DEF OneDestination, OpenLock, At, history
<1>19. ASSUME NEW p \in Pipes, TryLock(p)
     PROVE  OneDestination'
  BY <1>19 DEF OneDestination, TryLock, At, disk, history
<1>20. ASSUME NEW p \in Pipes, NEW f \in Files, OpenDb(p, f)
     PROVE  OneDestination'
  BY <1>20 DEF TypeOK, PipeOK, Opened, FileOwned, OneDestination, OpenDb, At, OpenAt, history
<1>21. ASSUME NEW p \in Pipes, Contract(p)
     PROVE  OneDestination'
  BY <1>21 DEF TypeOK, PipeOK, Opened, FileOwned, FreshFile, WorksThere, CmdOK, Locking,
       OneDestination, Contract, At, Goto, history
<1>22. ASSUME NEW p \in Pipes, Work(p)
     PROVE  OneDestination'
  BY <1>22 DEF TypeOK, PipeOK, Opened, FileOwned, FreshFile, WorksThere, CmdOK, Locking,
       OneDestination, Work, At, history
<1>23. ASSUME NEW p \in Pipes, Finish(p)
     PROVE  OneDestination'
  BY <1>23 DEF OneDestination, Finish, Goto, disk, history
<1>24. ASSUME NEW p \in Pipes, Unlock(p)
     PROVE  OneDestination'
  BY <1>24 DEF OneDestination, Unlock, At, disk, history
<1>25. ASSUME NEW p \in Pipes, Guard(p)
     PROVE  OneDestination'
  BY <1>25 DEF OneDestination, Guard, At, Goto, disk, history
<1>26. ASSUME NEW a \in Apps, Crash(a)
     PROVE  OneDestination'
  BY <1>26 DEF OneDestination, Crash, NoCommand, NoPipe, NewApp, disk
<1>27. ASSUME NEW p \in Pipes, ContractUnread(p)
     PROVE  OneDestination'
  BY <1>27 DEF OneDestination, ContractUnread, At, Goto, disk
<1>28. ASSUME NEW a \in Apps, ReadFails(a)
     PROVE  OneDestination'
  BY <1>28 DEF OneDestination, ReadFails, disk, history
<1>. QED
  BY <1>1, <1>2, <1>3, <1>4, <1>5, <1>6, <1>7, <1>8, <1>9, <1>10, <1>11, <1>12,
     <1>13, <1>14, <1>15, <1>16, <1>17, <1>18, <1>19, <1>20, <1>21, <1>22, <1>23, <1>24, <1>25, <1>26,
     <1>27, <1>28
     DEF Next, PipeStep, CommandStep, UserStep

-----------------------------------------------------------------------------
(* The invariant.                                                           *)

Inv == /\ Shape /\ LockHeld /\ LockShared /\ FlagIsHonest
       /\ FileOwned /\ Unnamed /\ Private /\ WorksThere /\ OneDestination

(* Two pipelines that work on one run would hold one lock file. *)
LEMMA OneWorkerFromLocks ==
    ASSUME Shape, LockHeld, LockShared
    PROVE  OneWorker
BY DispatcherAssumption DEF Shape, PipeOK, Locking, LockHeld, LockShared, OneWorker, Working

(* It holds when the first instance starts: nobody has a command, a          *)
(* pipeline or a lock, and earlier sessions left every run its own files.   *)
LEMMA InvInit == Init => Inv
<1>. SUFFICES ASSUME Init PROVE Inv
  OBVIOUS
<1>1. PICK saved \in SUBSET Runs, given \in Runs \cup {None} :
         /\ named = saved \cup ({given} \cap Runs)
         /\ app = [a \in Apps |-> [NewApp EXCEPT !.db = given]]
         /\ \E db \in Injection(saved, Files), lock \in Injection(saved, Locks), dest \in Dests :
               dbFile = [r \in Runs |-> IF r \in saved THEN db[r] ELSE None]
  BY DEF Init
<1>2. PICK db \in Injection(saved, Files) :
         dbFile = [r \in Runs |-> IF r \in saved THEN db[r] ELSE None]
  BY <1>1
<1>3. /\ db \in [saved -> Files]
      /\ \A r, s \in saved : db[r] = db[s] => r = s
  BY DEF Injection, IsInjective
<1>4. /\ \A a \in Apps : cmd[a] = NoCommand /\ app[a].db = given /\ app[a].running = FALSE
      /\ \A p \in Pipes : pipe[p] = NoPipe
      /\ \A f \in Files : wrote[f] = {}
  BY <1>1 DEF Init, NewApp
<1>5. Shape
  BY <1>4, InitType DEF Shape, PipeOK, CmdOK, NoPipe, NoCommand, Locking, Opened
<1>6. LockHeld /\ LockShared /\ FlagIsHonest
  BY <1>4 DEF LockHeld, LockShared, FlagIsHonest, Alive, Working, NoPipe, NoCommand
<1>7. FileOwned
  BY <1>2, <1>3, <1>4, DispatcherAssumption DEF FileOwned, NoPipe
<1>8. Unnamed
  BY <1>1, <1>2, <1>4, DispatcherAssumption DEF Unnamed, NoPipe, NoCommand
<1>9. Private /\ WorksThere
  BY <1>4 DEF Private, Naming, WorksThere, NoPipe
<1>10. OneDestination
  BY <1>2, <1>3, <1>4, DispatcherAssumption DEF OneDestination
<1>. QED  BY <1>5, <1>6, <1>7, <1>8, <1>9, <1>10 DEF Inv

(* Every step keeps it. *)
LEMMA InvNext == Inv /\ [Next]_vars => Inv'
<1>. SUFFICES ASSUME Inv, [Next]_vars PROVE Inv'
  OBVIOUS
<1>1. CASE Next
  <2>1. OneWorker
    BY OneWorkerFromLocks DEF Inv
  <2>. QED
    BY <1>1, <2>1, ShapeStep, LockHeldStep, LockSharedStep, FlagStep, FileOwnedStep, UnnamedStep,
       PrivateStep, WorksThereStep, DestinationStep DEF Inv
<1>2. CASE UNCHANGED vars
  <2>. USE <1>2 DEF vars, disk, history
  <2>1. Shape' /\ LockHeld' /\ LockShared'
    BY DEF Inv, Shape, TypeOK, PipeOK, CmdOK, LockHeld, LockShared, Working
  <2>2. FlagIsHonest' /\ FileOwned' /\ Unnamed'
    BY DEF Inv, FlagIsHonest, Alive, FileOwned, Unnamed
  <2>3. Private' /\ WorksThere' /\ OneDestination'
    BY DEF Inv, Private, Naming, WorksThere, OneDestination
  <2>. QED  BY <2>1, <2>2, <2>3 DEF Inv
<1>. QED  BY <1>1, <1>2

(* The inductive invariant holds in every reachable state. *)
LEMMA Invariance == Spec => []Inv
<1>1. Init => Inv
  BY InvInit
<1>2. Inv /\ [Next]_vars => Inv'
  BY InvNext
<1>. QED  BY <1>1, <1>2, PTL DEF Spec

-----------------------------------------------------------------------------
(* Theorems.                                                                *)

(* Type correctness of instances, commands, pipelines and files. *)
THEOREM DispatcherTypes == Spec => []TypeOK
<1>1. Inv => TypeOK
  BY DEF Inv, Shape
<1>. QED  BY <1>1, Invariance, PTL

(* However many instances start, resume, recover, delete and crash: two      *)
(* pipelines never work on one run, unless a deletion unlinked a lock file   *)
(* that a pipeline had opened (the exclusion of run_core_pipeline).          *)
THEOREM Exclusion == Spec => []OneWorker
<1>1. Inv => OneWorker
  BY OneWorkerFromLocks DEF Inv
<1>. QED  BY <1>1, Invariance, PTL

(* is_running is up exactly while the instance has its one pipeline, unless  *)
(* a start was refused late or the state reset under a pipeline.             *)
THEOREM HonestFlag == Spec => []FlagIsHonest
<1>1. Inv => FlagIsHonest
  BY DEF Inv
<1>. QED  BY <1>1, Invariance, PTL

(* All files of a run go to the destination its database records, however    *)
(* often and with whatever selection it is resumed, as long as the database  *)
(* can be read (run_core_pipeline and load_execution_contract).              *)
THEOREM SingleDestination == Spec => []OneDestination
<1>1. Inv => OneDestination
  BY DEF Inv
<1>. QED  BY <1>1, Invariance, PTL
=============================================================================
