------------------------------ MODULE Outputs -------------------------------
(***************************************************************************)
(* Files on the disk while they are restored: which name a file gets, who  *)
(* may move what where, and what is at a path when somebody uses it        *)
(* (resolve_collision, the moves and the auto-heal of                      *)
(* crates/core/src/processor.rs).  Consumers work side by side; their      *)
(* process may die at any step and be started again.                       *)
(***************************************************************************)
EXTENDS Integers, Sequences

CONSTANTS
    Files,            \* the rows of media_files
    Real,             \* those that lie in a directory; the others are entries of archives
    InPlaceMode,      \* output_mode is InPlace
    Home,             \* the directory of a real file
    Folder,           \* the same relative to its input, or the folder in the archive
    Filename,         \* the name of a file: its stem and extension
    Format,           \* the extension that its first bytes call for, or NoFormat
    NoFormat,
    Matched,          \* the files that have a sidecar
    UnmatchedEnabled, \* are the others restored, too?
    Earlier,          \* paths of the output directories that are taken from the start
    Stranger,         \* whose files those are
    Nobody,           \* no holder of the mutex
    MaxTries,         \* numbers tried for a name (10 000)
    MaxSessions       \* bound on the starts of the process

(* A path.  A stem is a sequence of parts, so that appending a number in   *)
(* parentheses to a name appends a part to its stem.                       *)
Places     == {"Input", "Staging", "Completed", "Unmatched", "Errors"}
Folders    == {Home[f] : f \in Files} \cup {Folder[f] : f \in Files} \cup Files \cup {p.folder : p \in Earlier}
Extensions == {Filename[f].ext : f \in Files} \cup {Format[f] : f \in Files} \cup {p.ext : p \in Earlier}
Given      == [kind : {"letters", "number"}, of : Nat]
Part       == Given \cup [kind : {"dup"}, of : Nat]
Path       == [place : Places, folder : Folders, stem : Seq(Part), ext : Extensions]
At(place, folder, name) == [place |-> place, folder |-> folder, stem |-> name.stem, ext |-> name.ext]

InPlace(f) == InPlaceMode /\ f \in Real
Source(f)  == At("Input", Home[f], Filename[f])      \* the path in the row of a real file
(* resolve_staging_path: a directory for each file. *)
Staging(f) == At("Staging", f, Filename[f])

(* What is on the disk: a file of the row f, complete or not. *)
Content    == [of : Files \cup {Stranger}, whole : BOOLEAN]
Picture(f) == [of |-> f, whole |-> TRUE]
Torn(f)    == [of |-> f, whole |-> FALSE]

ASSUME OutputsAssumption ==
    /\ Real \subseteq Files /\ Matched \subseteq Files
    /\ InPlaceMode \in BOOLEAN /\ UnmatchedEnabled \in BOOLEAN
    /\ Stranger \notin Files /\ Nobody \notin Files
    /\ \A f \in Files : Filename[f].stem \in Seq(Given)
    /\ \A f, g \in Real : f # g => Source(f) # Source(g)
    /\ Earlier \subseteq {p \in Path : p.place \notin {"Input", "Staging"} /\ p.stem \in Seq(Given)}
    /\ MaxTries \in Nat /\ MaxSessions \in Nat

VARIABLES
    disk,      \* what is at the paths that exist
    row,       \* what the database says of a file ("Open": claimable or claimed)
    pc,        \* how far the consumer of a file is
    target,    \* its target_path
    dest,      \* the path it moves to, and final_path after the move
    holder,    \* who holds FILE_MOVE_MUTEX
    outcome,   \* what it reports
    now,       \* the clock
    touched,   \* whose metadata was written to whose picture
    session

vars == <<disk, row, pc, target, dest, holder, outcome, now, touched, session>>

Outcomes == {"Completed", "Error", "Skipped"}
Holding  == {"healing", "moving", "copying", "failing", "copying error"}
Steps    == {"idle", "taken", "heal", "write", "move", "check", "fail", "report", "reported"} \cup Holding

TypeOK ==
    /\ DOMAIN disk \subseteq Path /\ disk \in [DOMAIN disk -> Content]
    /\ row \in [Files -> {"Open"} \cup Outcomes]
    /\ pc \in [Files -> Steps]
    /\ target \in [Files -> Path] /\ dest \in [Files -> Path]
    /\ \A f \in Files : target[f].place = "Input" \/ (target[f].place = "Staging" /\ target[f].folder = f)
    /\ holder \in Files \cup {Nobody}
    /\ outcome \in [Files -> Outcomes]
    /\ now \in Nat /\ touched \subseteq Files \X (Files \cup {Stranger})
    /\ session \in Nat

Existing == DOMAIN disk
With(d, p, c)   == [q \in DOMAIN d \cup {p} |-> IF q = p THEN c ELSE d[q]]
Without(d, P)   == [q \in DOMAIN d \ P |-> d[q]]
(* fs::rename replaces what is at the new path. *)
Moved(d, p, to) == With(Without(d, {p}), to, d[p])

Init ==
    /\ disk = [p \in {Source(f) : f \in Real} \cup Earlier |->
                  IF p \in Earlier THEN Picture(Stranger) ELSE Picture(CHOOSE f \in Real : Source(f) = p)]
    /\ row = [f \in Files |-> "Open"]
    /\ pc = [f \in Files |-> "idle"]
    /\ target = [f \in Files |-> Staging(f)] /\ dest = target
    /\ holder = Nobody /\ outcome = [f \in Files |-> "Error"]
    /\ now = 0 /\ touched = {} /\ session = 1

Goto(f, step) == pc' = [pc EXCEPT ![f] = step]

-----------------------------------------------------------------------------
(* Names.                                                                   *)

Numbered(p, k)  == IF k = 0 THEN p ELSE [p EXCEPT !.stem = Append(@, [kind |-> "number", of |-> k])]
Duplicate(p, t) == [p EXCEPT !.stem = Append(@, [kind |-> "dup", of |-> t])]
Free(p) == {k \in 0..MaxTries : Numbered(p, k) \notin Existing}

(* The last name tried is taken although it exists (a deviation, not the code). *)
ResolveOrReplace(p) ==
    IF Free(p) = {} THEN Numbered(p, MaxTries)
    ELSE Numbered(p, CHOOSE k \in Free(p) : \A j \in Free(p) : k <= j)

(* resolve_collision: the name itself, or with the first number that is free; *)
(* when all are taken a name made of the time, which is not looked up.        *)
ResolveCollision(p) ==
    IF Free(p) = {} THEN Duplicate(p, now)
    ELSE Numbered(p, CHOOSE k \in Free(p) : \A j \in Free(p) : k <= j)

(* Where a file of this step is to go. *)
OutputPath(f) == At(IF f \in Matched THEN "Completed" ELSE "Unmatched", Folder[f], target[f])
ErrorPath(f)  == At("Errors", Folder[f], target[f])
HealedPath(f) == [target[f] EXCEPT !.ext = Format[disk[target[f]].of]]
Wanted(f) == CASE pc[f] = "heal" -> HealedPath(f)
               [] pc[f] = "move" -> OutputPath(f)
               [] pc[f] = "fail" -> ErrorPath(f)

(* Originals that failed are moved to Errors (a deviation, not the code). *)
StaysUnlessFailed(f) == pc[f] = "move" /\ InPlace(f)

(* move_to_output_subdir and move_to_error_subdir return at once. *)
StaysInPlace(f) == pc[f] \in {"move", "fail"} /\ InPlace(f)

(* Whoever moves a file holds the mutex from the search for a name to the  *)
(* end of the move or the copy.                                            *)
Begin(f) ==
    /\ pc[f] \in {"heal", "move", "fail"} /\ ~StaysInPlace(f)
    /\ Goto(f, CASE pc[f] = "heal" -> "healing" [] pc[f] = "move" -> "moving" [] pc[f] = "fail" -> "failing")
    /\ holder' = f
    /\ dest' = [dest EXCEPT ![f] = ResolveCollision(Wanted(f))]
    /\ now' = IF Free(Wanted(f)) = {} THEN now + 1 ELSE now
    /\ UNCHANGED <<disk, row, target, outcome, touched, session>>

(* A search without the mutex (a deviation, not the code). *)
ChooseUnlocked(f) == Begin(f)

Choose(f) == holder = Nobody /\ Begin(f)

-----------------------------------------------------------------------------
(* A file on its way.                                                       *)

(* The producer copies or extracts a file into its staging directory; in   *)
(* place a real file is handed over where its row says it is.              *)
Stage(f) ==
    /\ pc[f] = "idle" /\ row[f] = "Open"
    /\ target' = [target EXCEPT ![f] = IF InPlace(f) THEN Source(f) ELSE Staging(f)]
    /\ disk' = IF InPlace(f) THEN disk ELSE With(disk, Staging(f), Picture(f))
    /\ Goto(f, "taken")
    /\ UNCHANGED <<row, dest, holder, outcome, now, touched, session>>

(* get_correction looks at the first bytes of what is at the path, if anything. *)
NeedsCorrection(f) ==
    /\ target[f] \in Existing
    /\ disk[target[f]].of \in Files
    /\ Format[disk[target[f]].of] \notin {NoFormat, Filename[f].ext}

Inspect(f) ==
    /\ pc[f] = "taken"
    /\ Goto(f, IF NeedsCorrection(f) THEN "heal" ELSE "write")
    /\ UNCHANGED <<disk, row, target, dest, holder, outcome, now, touched, session>>

(* Auto-heal: the extension is corrected, unless the rename fails. *)
Heal(f) ==
    /\ pc[f] = "healing"
    /\ \/ /\ disk' = Moved(disk, target[f], dest[f])
          /\ target' = [target EXCEPT ![f] = dest[f]]
       \/ UNCHANGED <<disk, target>>
    /\ holder' = Nobody /\ Goto(f, "write")
    /\ UNCHANGED <<row, dest, outcome, now, touched, session>>

(* process_metadata, for a file with a sidecar: exiftool writes to what is *)
(* at the target path, or something on the way fails.                      *)
WriteMetadata(f) ==
    /\ pc[f] = "write" /\ f \in Matched
    /\ \/ /\ target[f] \in Existing
          /\ touched' = touched \cup {<<f, disk[target[f]].of>>}
          /\ Goto(f, "move")
       \/ touched' = touched /\ Goto(f, "fail")
    /\ UNCHANGED <<disk, row, target, dest, holder, outcome, now, session>>

StagedOf(f) == {p \in Existing : p.place = "Staging" /\ p.folder = f}

(* A file without one is restored as it is, or skipped and its copy removed. *)
LeaveMetadata(f) ==
    /\ pc[f] = "write" /\ f \notin Matched
    /\ IF UnmatchedEnabled
       THEN Goto(f, "move") /\ UNCHANGED <<disk, outcome>>
       ELSE /\ disk' = IF InPlaceMode THEN disk ELSE Without(disk, StagedOf(f))
            /\ outcome' = [outcome EXCEPT ![f] = "Skipped"]
            /\ Goto(f, "reported")
    /\ UNCHANGED <<row, target, dest, holder, now, touched, session>>

StayInPlace(f) ==
    /\ StaysInPlace(f)
    /\ dest' = [dest EXCEPT ![f] = target[f]]
    /\ IF pc[f] = "move" THEN Goto(f, "check") /\ UNCHANGED outcome
                         ELSE Goto(f, "report") /\ outcome' = [outcome EXCEPT ![f] = "Error"]
    /\ UNCHANGED <<disk, row, target, holder, now, touched, session>>

Arrived(f) ==
    IF pc[f] \in {"moving", "copying"} THEN Goto(f, "check") /\ UNCHANGED outcome
                                  ELSE Goto(f, "report") /\ outcome' = [outcome EXCEPT ![f] = "Error"]

MoveFile(f) ==
    /\ pc[f] \in {"moving", "failing"}
    /\ disk' = Moved(disk, target[f], dest[f])
    /\ holder' = Nobody /\ Arrived(f)
    /\ UNCHANGED <<row, target, dest, now, touched, session>>

(* A rename that fails (another file system) is followed by a copy, which *)
(* creates the file before it fills it.                                   *)
BeginCopy(f) ==
    /\ pc[f] \in {"moving", "failing"}
    /\ disk' = With(disk, dest[f], Torn(disk[target[f]].of))
    /\ Goto(f, IF pc[f] = "moving" THEN "copying" ELSE "copying error")
    /\ UNCHANGED <<row, target, dest, holder, outcome, now, touched, session>>

(* The failure to remove the original is ignored. *)
EndCopy(f) ==
    /\ pc[f] \in {"copying", "copying error"}
    /\ LET copied == With(disk, dest[f], disk[target[f]])
       IN  disk' \in {copied, Without(copied, {target[f]})}
    /\ holder' = Nobody /\ Arrived(f)
    /\ UNCHANGED <<row, target, dest, now, touched, session>>

(* The failure is not noticed (a deviation, not the code). *)
MoveFailsUnseen(f) ==
    /\ pc[f] \in Holding \ {"healing"}
    /\ holder' = Nobody /\ Arrived(f)
    /\ UNCHANGED <<disk, row, target, dest, now, touched, session>>

(* Neither rename nor copy works, and what was written so far stays.  The  *)
(* next attempt goes to Errors; if that fails, too, the file stays.        *)
MoveFails(f) ==
    /\ pc[f] \in Holding \ {"healing"}
    /\ IF pc[f] \in {"moving", "copying"}
       THEN Goto(f, "fail") /\ UNCHANGED <<dest, outcome>>
       ELSE /\ Goto(f, "report")
            /\ dest' = [dest EXCEPT ![f] = target[f]]
            /\ outcome' = [outcome EXCEPT ![f] = "Error"]
    /\ holder' = Nobody
    /\ UNCHANGED <<disk, row, target, now, touched, session>>

(* The timestamps of the result are set and its presence is verified. *)
Check(f) ==
    /\ pc[f] = "check"
    /\ IF dest[f] \in Existing
       THEN /\ touched' = IF f \in Matched THEN touched \cup {<<f, disk[dest[f]].of>>} ELSE touched
            /\ outcome' = [outcome EXCEPT ![f] = "Completed"]
            /\ Goto(f, "report")
       ELSE Goto(f, "fail") /\ UNCHANGED <<touched, outcome>>
    /\ UNCHANGED <<disk, row, target, dest, holder, now, session>>

(* The outcome is enqueued, and the staging directory of the file removed *)
(* unless the file is still in it.                                        *)
Report(f) ==
    /\ pc[f] = "report"
    /\ disk' = IF InPlaceMode \/ dest[f].place = "Staging" THEN disk ELSE Without(disk, StagedOf(f))
    /\ Goto(f, "reported")
    /\ UNCHANGED <<row, target, dest, holder, outcome, now, touched, session>>

(* The writer stores it. *)
Store(f) ==
    /\ pc[f] = "reported" /\ row[f] = "Open"
    /\ row' = [row EXCEPT ![f] = outcome[f]]
    /\ UNCHANGED <<disk, pc, target, dest, holder, outcome, now, touched, session>>

(* The process dies and is started again.  The new one sweeps the staging  *)
(* directory of its run, except in place.                                  *)
Restart ==
    /\ session < MaxSessions
    /\ session' = session + 1
    /\ pc' = [f \in Files |-> "idle"] /\ holder' = Nobody
    /\ disk' = IF InPlaceMode THEN disk ELSE Without(disk, {p \in Existing : p.place = "Staging"})
    /\ target' = [f \in Files |-> Staging(f)] /\ dest' = target'
    /\ outcome' = [f \in Files |-> "Error"]
    /\ UNCHANGED <<row, now, touched>>

Advance(f) ==
    \/ Choose(f) \/ Stage(f) \/ Inspect(f) \/ Heal(f)
    \/ WriteMetadata(f) \/ LeaveMetadata(f)
    \/ StayInPlace(f) \/ MoveFile(f) \/ BeginCopy(f) \/ EndCopy(f) \/ MoveFails(f)
    \/ Check(f) \/ Report(f) \/ Store(f)

Next == Restart \/ \E f \in Files : Advance(f)

Spec == Init /\ [][Next]_vars

-----------------------------------------------------------------------------
(* Properties.                                                              *)

(* resolve_collision and the mutex: no step replaces what somebody has     *)
(* outside of the staging directories, not even by a restart in the middle *)
(* of a copy.  A file of the user may get another name in its directory.   *)
Kept(p) == p \in DOMAIN disk' /\ disk'[p].of = disk[p].of /\ (disk[p].whole => disk'[p].whole)
Renamed(p) == \E q \in DOMAIN disk' \ DOMAIN disk :
                 /\ p.place = "Input" /\ q.place = "Input" /\ q.folder = p.folder
                 /\ disk'[q] = disk[p]
NothingOverwritten == [][\A p \in DOMAIN disk : p.place = "Staging" \/ Kept(p) \/ Renamed(p)]_vars

(* The renames of auto-heal and the copies: the picture of a real file is  *)
(* always in its directory, complete and once, in copy mode where it was.  *)
OriginalsSurvive ==
    \A f \in Real : \E p \in DOMAIN disk :
        /\ p.folder = Home[f] /\ (InPlaceMode \/ p = Source(f))
        /\ disk[p] = Picture(f)
        /\ \A q \in DOMAIN disk : q.place = "Input" /\ disk[q].of = f <=> q = p

(* A file that the database calls completed is there and complete, whoever *)
(* wanted the same name, and whatever failed or died on the way.           *)
ResultPlace(f, p) ==
    IF InPlace(f) THEN p.place = "Input" /\ p.folder = Home[f]
    ELSE p.place = (IF f \in Matched THEN "Completed" ELSE "Unmatched") /\ p.folder = Folder[f]
CompletedHasPicture ==
    \A f \in Files : row[f] = "Completed" =>
        \E p \in DOMAIN disk : ResultPlace(f, p) /\ disk[p] = Picture(f)

(* process_metadata and set_file_timestamps write to a path: it holds the  *)
(* picture the sidecar belongs to, in place until the process dies.  After *)
(* that a row may name the new path of another file.                       *)
MetadataIsOwn == \A t \in touched : t[1] = t[2] \/ (InPlace(t[1]) /\ session > 1)
=============================================================================
