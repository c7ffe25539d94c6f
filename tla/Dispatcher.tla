----------------------------- MODULE Dispatcher -----------------------------
(***************************************************************************)
(* The command dispatcher (CoreDispatcher, crates/app/src/lib.rs), the     *)
(* pipeline threads it starts and the files by which they exclude each     *)
(* other: every saved run has a database state_<id>.db and a lock file     *)
(* state_<id>.lock in the configuration directory, which all instances of  *)
(* the application share.                                                  *)
(*                                                                         *)
(* An instance has one thread that dispatches commands.  Commands that     *)
(* look at the lock file do so in several steps, and the pipelines of this *)
(* and of other instances go on between them.  Files have identities: a    *)
(* path can be unlinked and created anew while somebody has the old file   *)
(* open.  What a pipeline does with the files of a run, and its tokens,    *)
(* are the subject of Pipeline.                                            *)
(***************************************************************************)
EXTENDS Naturals, Functions

CONSTANTS
    Apps,       \* instances of the application
    Pipes,      \* pipeline threads, each started once
    Runs,       \* run identifiers
    Dests,      \* directories that can be selected for the output
    Nowhere,    \* the empty path
    Source,     \* the first selected input, restored in place
    None,       \* nothing
    InPlace,    \* is the output mode in-place?
    Locks,      \* identities of lock files, each given out once
    Files,      \* identities of database files, each given out once
    MaxCrashes  \* bound on the crashes of instances

ASSUME DispatcherAssumption ==
    /\ None \notin Pipes \cup Apps \cup Runs \cup Locks \cup Files \cup Dests \cup {Nowhere, Source}
    /\ Apps \cap Pipes = {}
    /\ InPlace \in BOOLEAN /\ MaxCrashes \in Nat

Outputs == Dests \cup {Nowhere, Source}

VARIABLES
    app,       \* app[a]: is_running, input_dirs, output_dir and db_path of the instance
    cmd,       \* cmd[a]: the command its thread executes
    pipe,      \* pipe[p]: a pipeline thread
    lockFile,  \* lockFile[r]: the file at the path of r's lock, or None
    dbFile,    \* dbFile[r]: the file at the path of r's database, or None
    locker,    \* locker[l]: who holds the exclusive lock of file l
    contract,  \* contract[f]: the destination stored in database f
    wrote,     \* wrote[f]: the directories restored to from database f
    named,     \* run identifiers given out so far
    torn,      \* runs whose lock file was unlinked under a pipeline that had it open
    dishonest, \* instances that refused a start late, or were reset under a pipeline
    unread,    \* databases whose destination a resumed pipeline could not read
    crashes    \* crashes so far

disk    == <<lockFile, dbFile, contract, wrote>>
history == <<named, torn, dishonest, unread, crashes>>
vars    == <<app, cmd, pipe, disk, locker, history>>

NoCommand == [op |-> "none", at |-> "idle", run |-> None, lock |-> None]
NoPipe    == [at |-> "new", of |-> None, db |-> None, out |-> None, resume |-> FALSE,
              lock |-> None, file |-> None]
NewApp    == [running |-> FALSE, inputs |-> FALSE, output |-> None, db |-> None]

TypeOK ==
    /\ app \in [Apps -> [running : BOOLEAN, inputs : BOOLEAN, output : Outputs \cup {None},
                         db : Runs \cup {None}]]
    /\ cmd \in [Apps -> [op : {"none", "resume", "recover", "delete"},
                         at : {"idle", "probe", "release", "set", "open", "start", "unlink", "unlock"},
                         run : Runs \cup {None}, lock : Locks \cup {None}]]
    /\ pipe \in [Pipes -> [at : {"new", "setup", "lockfile", "lock", "open", "contract", "work",
                                 "unlock", "guard", "ended"},
                           of : Apps \cup {None}, db : Runs \cup {None},
                           out : Outputs \cup {None}, resume : BOOLEAN,
                           lock : Locks \cup {None}, file : Files \cup {None}]]
    /\ lockFile \in [Runs -> Locks \cup {None}]
    /\ dbFile \in [Runs -> Files \cup {None}]
    /\ locker \in [Locks -> Apps \cup Pipes \cup {None}]
    /\ contract \in [Files -> Outputs \cup {None}]
    /\ wrote \in [Files -> SUBSET Outputs]
    /\ named \subseteq Runs /\ torn \subseteq Runs /\ dishonest \subseteq Apps
    /\ unread \subseteq Files
    /\ crashes \in 0..MaxCrashes

(* Earlier sessions left the files of some runs.  A command line can name   *)
(* any database to go on with.                                              *)
Init ==
    /\ \E saved \in SUBSET Runs, given \in Runs \cup {None} :
          /\ named = saved \cup ({given} \cap Runs)
          /\ app = [a \in Apps |-> [NewApp EXCEPT !.db = given]]
          /\ \E db \in Injection(saved, Files), lock \in Injection(saved, Locks), dest \in Dests :
                /\ dbFile = [r \in Runs |-> IF r \in saved THEN db[r] ELSE None]
                /\ lockFile = [r \in Runs |-> IF r \in saved THEN lock[r] ELSE None]
                /\ contract = [f \in Files |-> IF \E r \in saved : db[r] = f THEN dest ELSE None]
    /\ cmd = [a \in Apps |-> NoCommand] /\ pipe = [p \in Pipes |-> NoPipe]
    /\ locker = [l \in Locks |-> None] /\ wrote = [f \in Files |-> {}]
    /\ torn = {} /\ dishonest = {} /\ unread = {} /\ crashes = 0

(* The pipelines of instance a whose thread has not ended. *)
Alive(a) == {p \in Pipes : pipe[p].of = a /\ pipe[p].at \notin {"new", "ended"}}

(* File identities that were never used. *)
FreshLock(l) == (\A r \in Runs : lockFile[r] # l) /\ (\A p \in Pipes : pipe[p].lock # l)
                /\ \A a \in Apps : cmd[a].lock # l
FreshFile(f) == contract[f] = None /\ wrote[f] = {} /\ (\A r \in Runs : dbFile[r] # f)
                /\ \A p \in Pipes : pipe[p].file # f

-----------------------------------------------------------------------------
(* Commands.                                                                *)

SelectInputs(a, some) ==
    /\ cmd[a].at = "idle"
    /\ app' = [app EXCEPT ![a].inputs = some]
    /\ UNCHANGED <<cmd, pipe, disk, locker, history>>

SelectOutput(a, d) ==
    /\ cmd[a].at = "idle"
    /\ app' = [app EXCEPT ![a].output = d]
    /\ UNCHANGED <<cmd, pipe, disk, locker, history>>

(* Where a start would write; None when it has to be refused. *)
StartOutput(a) ==
    CASE ~app[a].inputs /\ app[a].db = None        -> None
      [] app[a].inputs \/ app[a].db # None         ->
           IF app[a].output # None THEN app[a].output
           ELSE IF app[a].db # None THEN Nowhere
           ELSE IF InPlace THEN Source ELSE None

(* StartProcessing, also at the end of ResumeRun.  It takes is_running ...  *)
MayStart(a) == cmd[a].at \in {"idle", "start"}

(* ... which may be taken already ... *)
StartActive(a) ==
    /\ cmd[a].at = "start" /\ app[a].running
    /\ cmd' = [cmd EXCEPT ![a] = NoCommand]
    /\ UNCHANGED <<app, pipe, disk, locker, history>>

(* ... and keeps it when nothing to restore or no output is selected. *)
StartRefused(a) ==
    /\ MayStart(a) /\ ~app[a].running /\ StartOutput(a) = None
    /\ app' = [app EXCEPT ![a].running = TRUE]
    /\ cmd' = [cmd EXCEPT ![a] = NoCommand]
    /\ dishonest' = dishonest \cup {a}
    /\ UNCHANGED <<pipe, disk, locker, named, torn, unread, crashes>>

(* A start without is_running (a deviation, not the code). *)
StartUnguarded(a, p) ==
    /\ MayStart(a) /\ StartOutput(a) # None
    /\ pipe[p].at = "new"
    /\ app' = [app EXCEPT ![a].running = TRUE]
    /\ pipe' = [pipe EXCEPT ![p] = [NoPipe EXCEPT !.at = "setup", !.of = a, !.db = app[a].db,
                                    !.out = StartOutput(a), !.resume = app[a].db # None]]
    /\ cmd' = [cmd EXCEPT ![a] = NoCommand]
    /\ UNCHANGED <<disk, locker, history>>

(* ... or a pipeline thread starts with copies of the selection. *)
StartSpawn(a, p) ==
    /\ MayStart(a) /\ ~app[a].running /\ StartOutput(a) # None
    /\ pipe[p].at = "new"
    /\ app' = [app EXCEPT ![a].running = TRUE]
    /\ pipe' = [pipe EXCEPT ![p] = [NoPipe EXCEPT !.at = "setup", !.of = a, !.db = app[a].db,
                                    !.out = StartOutput(a), !.resume = app[a].db # None]]
    /\ cmd' = [cmd EXCEPT ![a] = NoCommand]
    /\ UNCHANGED <<disk, locker, history>>

(* ResetState forgets the selection and clears is_running, whoever runs. *)
Reset(a) ==
    /\ cmd[a].at = "idle"
    /\ app' = [app EXCEPT ![a] = NewApp]
    /\ dishonest' = IF Alive(a) = {} THEN dishonest \ {a} ELSE dishonest \cup {a}
    /\ UNCHANGED <<cmd, pipe, disk, locker, named, torn, unread, crashes>>

(* ResumeRun, RecoverRun and DeleteRun (ClearAllRuns is a DeleteRun of each *)
(* run) begin with a look at the lock file.                                 *)
Command(a, op, r) ==
    /\ cmd[a].at = "idle" /\ r \in named
    /\ op \in {"resume", "recover"} => dbFile[r] # None
    /\ cmd' = [cmd EXCEPT ![a] = [op |-> op, at |-> "probe", run |-> r, lock |-> None]]
    /\ UNCHANGED <<app, pipe, disk, locker, history>>

AfterProbe(op) ==
    CASE op = "resume" -> "set" [] op = "recover" -> "open" [] op = "delete" -> "unlink"

ProbeMissing(a) ==
    /\ cmd[a].at = "probe" /\ lockFile[cmd[a].run] = None
    /\ cmd' = [cmd EXCEPT ![a].at = AfterProbe(cmd[a].op)]
    /\ UNCHANGED <<app, pipe, disk, locker, history>>

(* Somebody has the lock: the run is active. *)
ProbeActive(a) ==
    LET l == lockFile[cmd[a].run] IN
    /\ cmd[a].at = "probe" /\ l # None /\ locker[l] # None
    /\ cmd' = [cmd EXCEPT ![a] = NoCommand]
    /\ UNCHANGED <<app, pipe, disk, locker, history>>

(* The lock is free.  It is taken for a moment ... *)
ProbeFree(a) ==
    LET l == lockFile[cmd[a].run] IN
    /\ cmd[a].at = "probe" /\ l # None /\ locker[l] = None
    /\ locker' = [locker EXCEPT ![l] = a]
    /\ cmd' = [cmd EXCEPT ![a].at = "release", ![a].lock = l]
    /\ UNCHANGED <<app, pipe, disk, history>>

(* ... and goes with the file handle. *)
Release(a) ==
    /\ cmd[a].at = "release"
    /\ locker' = [locker EXCEPT ![cmd[a].lock] = None]
    /\ cmd' = [cmd EXCEPT ![a].at = AfterProbe(cmd[a].op), ![a].lock = None]
    /\ UNCHANGED <<app, pipe, disk, history>>

(* resume_recent_run makes the run the current one (and clears the tokens), *)
(* without the lock ...                                                     *)
ResumeSet(a) ==
    /\ cmd[a].at = "set"
    /\ app' = [app EXCEPT ![a].db = cmd[a].run]
    /\ cmd' = [cmd EXCEPT ![a].at = "open"]
    /\ UNCHANGED <<pipe, disk, locker, history>>

(* A database is opened, and created when there is no file at its path. *)
OpenAt(r, f) ==
    IF dbFile[r] = None
    THEN FreshFile(f) /\ dbFile' = [dbFile EXCEPT ![r] = f]
    ELSE f = dbFile[r] /\ UNCHANGED dbFile

(* ... takes the destination from its database, if there is one, and then  *)
(* starts; recover_recent_run only opens it and applies the log.            *)
OpenUnlocked(a, f) ==
    /\ cmd[a].at = "open"
    /\ OpenAt(cmd[a].run, f)
    /\ IF cmd[a].op = "resume"
       THEN /\ app' = IF contract[f] # None THEN [app EXCEPT ![a].output = contract[f]] ELSE app
            /\ cmd' = [cmd EXCEPT ![a].at = "start"]
       ELSE /\ cmd' = [cmd EXCEPT ![a] = NoCommand]
            /\ UNCHANGED app
    /\ UNCHANGED <<pipe, lockFile, contract, wrote, locker, history>>

(* The database cannot be opened or the query fails: a resume starts with   *)
(* the output that is selected, and a recovery ends.                        *)
ReadFails(a) ==
    /\ cmd[a].at = "open"
    /\ cmd' = IF cmd[a].op = "resume" THEN [cmd EXCEPT ![a].at = "start"] ELSE [cmd EXCEPT ![a] = NoCommand]
    /\ UNCHANGED <<app, pipe, disk, locker, history>>

(* delete_recent_run unlinks the database ... *)
DeleteDb(a) ==
    /\ cmd[a].at = "unlink"
    /\ dbFile' = [dbFile EXCEPT ![cmd[a].run] = None]
    /\ cmd' = [cmd EXCEPT ![a].at = "unlock"]
    /\ UNCHANGED <<app, pipe, lockFile, contract, wrote, locker, history>>

(* ... and then the lock file. *)
DeleteLock(a) ==
    LET r == cmd[a].run IN
    /\ cmd[a].at = "unlock"
    /\ lockFile' = [lockFile EXCEPT ![r] = None]
    /\ torn' = IF \E p \in Pipes : pipe[p].lock # None /\ pipe[p].lock = lockFile[r]
               THEN torn \cup {r} ELSE torn
    /\ cmd' = [cmd EXCEPT ![a] = NoCommand]
    /\ UNCHANGED <<app, pipe, dbFile, contract, wrote, locker, named, dishonest, unread, crashes>>

-----------------------------------------------------------------------------
(* The pipeline thread: run_core_pipeline.                                  *)

At(p, at) == pipe[p].at = at
Goto(p, at) == pipe' = [pipe EXCEPT ![p].at = at]

(* Settings, exiftool and the pool; any of them may fail. *)
SetupFails(p) ==
    /\ At(p, "setup")
    /\ Goto(p, "guard")
    /\ UNCHANGED <<app, cmd, disk, locker, history>>

(* A run that is not resumed is named after the time. *)
SetupDone(p, r) ==
    /\ At(p, "setup")
    /\ IF pipe[p].resume THEN r = pipe[p].db ELSE r \notin named
    /\ pipe' = [pipe EXCEPT ![p].at = "lockfile", ![p].db = r]
    /\ named' = named \cup {r}
    /\ UNCHANGED <<app, cmd, disk, locker, torn, dishonest, unread, crashes>>

(* The lock file is opened, or created ... *)
OpenLock(p, l) ==
    LET r == pipe[p].db IN
    /\ At(p, "lockfile")
    /\ IF lockFile[r] = None
       THEN FreshLock(l) /\ lockFile' = [lockFile EXCEPT ![r] = l]
       ELSE l = lockFile[r] /\ UNCHANGED lockFile
    /\ pipe' = [pipe EXCEPT ![p].at = "lock", ![p].lock = l]
    /\ UNCHANGED <<app, cmd, dbFile, contract, wrote, locker, history>>

(* Going on whether or not the lock was free (a deviation, not the code). *)
TryLockIgnored(p) ==
    /\ At(p, "lock")
    /\ locker' = IF locker[pipe[p].lock] = None THEN [locker EXCEPT ![pipe[p].lock] = p] ELSE locker
    /\ Goto(p, "open")
    /\ UNCHANGED <<app, cmd, disk, history>>

(* ... and locked, or else the pipeline ends. *)
TryLock(p) ==
    LET free == locker[pipe[p].lock] = None IN
    /\ At(p, "lock")
    /\ locker' = IF free THEN [locker EXCEPT ![pipe[p].lock] = p] ELSE locker
    /\ pipe' = IF free THEN [pipe EXCEPT ![p].at = "open"]
                       ELSE [pipe EXCEPT ![p].at = "guard", ![p].lock = None]
    /\ UNCHANGED <<app, cmd, disk, history>>

OpenDb(p, f) ==
    /\ At(p, "open")
    /\ OpenAt(pipe[p].db, f)
    /\ pipe' = [pipe EXCEPT ![p].at = "contract", ![p].file = f]
    /\ UNCHANGED <<app, cmd, lockFile, contract, wrote, locker, history>>

(* A resumed run that keeps the selected output (a deviation, not the code). *)
ContractKept(p) ==
    /\ At(p, "contract")
    /\ contract' = IF pipe[p].resume THEN contract ELSE [contract EXCEPT ![pipe[p].file] = pipe[p].out]
    /\ Goto(p, "work")
    /\ UNCHANGED <<app, cmd, lockFile, dbFile, wrote, locker, history>>

(* A new run stores where it restores to, and a resumed one reads it. *)
Contract(p) ==
    LET f == pipe[p].file IN
    /\ At(p, "contract")
    /\ IF pipe[p].resume
       THEN /\ pipe' = [pipe EXCEPT ![p].at = "work",
                                    ![p].out = IF contract[f] # None THEN contract[f] ELSE @]
            /\ UNCHANGED contract
       ELSE /\ contract' = [contract EXCEPT ![f] = pipe[p].out]
            /\ Goto(p, "work")
    /\ UNCHANGED <<app, cmd, lockFile, dbFile, wrote, locker, history>>

(* Its query fails, which load_execution_contract does not tell from a      *)
(* destination that is not stored: the resumed run goes on with another one *)
(* that was selected.                                                       *)
ContractUnread(p) ==
    LET f == pipe[p].file IN
    /\ At(p, "contract") /\ pipe[p].resume
    /\ contract[f] \notin {None, pipe[p].out}
    /\ Goto(p, "work")
    /\ unread' = unread \cup {f}
    /\ UNCHANGED <<app, cmd, disk, locker, named, torn, dishonest, crashes>>

(* Scanning, matching and processing. *)
Work(p) ==
    /\ At(p, "work")
    /\ wrote' = [wrote EXCEPT ![pipe[p].file] = @ \cup {pipe[p].out}]
    /\ UNCHANGED <<app, cmd, pipe, lockFile, dbFile, contract, locker, history>>

(* The phases are over, were cancelled, or an error leaves them. *)
Finish(p) ==
    /\ pipe[p].at \in {"open", "contract", "work"}
    /\ Goto(p, "unlock")
    /\ UNCHANGED <<app, cmd, disk, locker, history>>

(* run_core_pipeline returns: the lock goes with its file handle ... *)
Unlock(p) ==
    /\ At(p, "unlock")
    /\ locker' = [locker EXCEPT ![pipe[p].lock] = None]
    /\ pipe' = [pipe EXCEPT ![p].at = "guard", ![p].lock = None, ![p].file = None]
    /\ UNCHANGED <<app, cmd, disk, history>>

(* ... and last the RunningGuard clears is_running, whoever set it. *)
Guard(p) ==
    /\ At(p, "guard")
    /\ app' = [app EXCEPT ![pipe[p].of].running = FALSE]
    /\ Goto(p, "ended")
    /\ UNCHANGED <<cmd, disk, locker, history>>

-----------------------------------------------------------------------------
(* The instance dies, or its window is closed: its threads end where they   *)
(* are, and the system releases their locks.                                *)
Crash(a) ==
    LET gone == {a} \cup Alive(a) IN
    /\ crashes < MaxCrashes
    /\ crashes' = crashes + 1
    /\ app' = [app EXCEPT ![a] = NewApp]
    /\ cmd' = [cmd EXCEPT ![a] = NoCommand]
    /\ pipe' = [p \in Pipes |-> IF p \in gone THEN [NoPipe EXCEPT !.at = "ended", !.of = a] ELSE pipe[p]]
    /\ locker' = [l \in Locks |-> IF locker[l] \in gone THEN None ELSE locker[l]]
    /\ dishonest' = dishonest \ {a}
    /\ UNCHANGED <<disk, named, torn, unread>>

PipeStep(p) ==
    \/ SetupFails(p) \/ TryLock(p) \/ Contract(p) \/ ContractUnread(p) \/ Finish(p) \/ Unlock(p) \/ Guard(p)
    \/ \E r \in Runs : SetupDone(p, r)
    \/ \E l \in Locks : OpenLock(p, l)
    \/ \E f \in Files : OpenDb(p, f)

CommandStep(a) ==
    \/ StartActive(a) \/ ProbeMissing(a) \/ ProbeActive(a) \/ ProbeFree(a) \/ Release(a)
    \/ ResumeSet(a) \/ ReadFails(a) \/ DeleteDb(a) \/ DeleteLock(a)
    \/ \E f \in Files : OpenUnlocked(a, f)

UserStep(a) ==
    \/ \E some \in BOOLEAN : SelectInputs(a, some)
    \/ \E d \in Dests : SelectOutput(a, d)
    \/ StartRefused(a) \/ Reset(a)
    \/ \E p \in Pipes : StartSpawn(a, p)
    \/ \E op \in {"resume", "recover", "delete"}, r \in Runs : Command(a, op, r)

Next ==
    \/ \E p \in Pipes : PipeStep(p) \/ Work(p)
    \/ \E a \in Apps : CommandStep(a) \/ UserStep(a) \/ Crash(a)

Spec == Init /\ [][Next]_vars

-----------------------------------------------------------------------------
(* Properties.                                                              *)

Working(p) == pipe[p].at \in {"open", "contract", "work", "unlock"}

(* At most one pipeline of all instances works on a run, unless a deletion  *)
(* unlinked the run's lock file under a pipeline that had opened it.        *)
OneWorker ==
    \A p, q \in Pipes :
        Working(p) /\ Working(q) /\ pipe[p].db = pipe[q].db /\ p # q => pipe[p].db \in torn

(* is_running tells whether the instance has a pipeline, and it has no      *)
(* second one - unless a start was refused after it had taken the flag, or  *)
(* the state was reset under a pipeline.                                    *)
FlagIsHonest ==
    \A a \in Apps \ dishonest :
        /\ app[a].running <=> Alive(a) # {}
        /\ \A p, q \in Alive(a) : p = q

(* Whatever is selected when a run is resumed, and however often, all of    *)
(* its files go to the destination its database records - with the          *)
(* exception of OneWorker, and of a run that was resumed while its database *)
(* did not answer the question where to.                                    *)
OneDestination ==
    \A r \in Runs \ torn : LET f == dbFile[r] IN
        f # None /\ f \notin unread /\ contract[f] # None => wrote[f] \subseteq {contract[f]}
=============================================================================
