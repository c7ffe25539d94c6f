--------------------------- MODULE Outputs_proofs ---------------------------
(***************************************************************************)
(* Outputs, for any files, names and formats, any number of tries and of   *)
(* restarts: nothing is overwritten, originals survive, what is called     *)
(* completed is there, and metadata goes to the picture it belongs to.     *)
(***************************************************************************)
EXTENDS Outputs, TLAPS, SequenceTheorems, WellFoundedInduction

USE DEF Existing

-----------------------------------------------------------------------------
(* Paths.                                                                   *)

Old(p) == \A k \in DOMAIN p.stem : p.stem[k].kind = "dup" => p.stem[k].of < now

LEMMA PathShape ==
    ASSUME NEW p \in Path
    PROVE  /\ p.place \in Places /\ p.folder \in Folders /\ p.stem \in Seq(Part) /\ p.ext \in Extensions
           /\ p = [place |-> p.place, folder |-> p.folder, stem |-> p.stem, ext |-> p.ext]
  BY DEF Path

LEMMA GivenStems ==
    ASSUME NEW s \in Seq(Given)
    PROVE  s \in Seq(Part) /\ \A k \in DOMAIN s : s[k].kind # "dup"
<1>1. Given \subseteq Part
  BY DEF Part
<1>2. s \in Seq(Part)
  <2>1. \A k \in 1..Len(s) : s[k] \in Part
    BY <1>1, ElementOfSeq
  <2>. QED  BY <2>1, LenProperties, IsASeq
<1>3. \A k \in DOMAIN s : s[k] \in Given
  BY ElementOfSeq, LenProperties
<1>. QED  BY <1>2, <1>3 DEF Given

LEMMA RowPaths ==
    ASSUME NEW f \in Files
    PROVE  /\ Source(f) \in Path /\ Staging(f) \in Path
           /\ Source(f).place = "Input" /\ Source(f).folder = Home[f] /\ Source(f).ext = Filename[f].ext
           /\ Staging(f).place = "Staging" /\ Staging(f).folder = f
           /\ Old(Source(f)) /\ Old(Staging(f))
           /\ Home[f] \in Folders /\ Folder[f] \in Folders /\ f \in Folders
           /\ Filename[f].ext \in Extensions /\ Format[f] \in Extensions
<1>1. Home[f] \in Folders /\ Folder[f] \in Folders /\ f \in Folders
  BY DEF Folders
<1>2. Filename[f].ext \in Extensions /\ Format[f] \in Extensions
  BY DEF Extensions
<1>3. Filename[f].stem \in Seq(Part) /\ \A k \in DOMAIN Filename[f].stem : Filename[f].stem[k].kind # "dup"
  BY GivenStems, OutputsAssumption
<1>. QED  BY <1>1, <1>2, <1>3 DEF Source, Staging, At, Path, Places, Old

LEMMA NumberedPath ==
    ASSUME NEW p \in Path, NEW k \in Nat
    PROVE  /\ Numbered(p, k) \in Path
           /\ Numbered(p, k).place = p.place /\ Numbered(p, k).folder = p.folder /\ Numbered(p, k).ext = p.ext
           /\ Old(p) => Old(Numbered(p, k))
<1>. DEFINE n == [kind |-> "number", of |-> k]
<1>1. n \in Part
  BY DEF Part, Given
<1>2. /\ Append(p.stem, n) \in Seq(Part)
      /\ DOMAIN Append(p.stem, n) = 1..(Len(p.stem) + 1) /\ DOMAIN p.stem = 1..Len(p.stem)
      /\ \A i \in 1..Len(p.stem) : Append(p.stem, n)[i] = p.stem[i]
      /\ Append(p.stem, n)[Len(p.stem) + 1] = n
      /\ Len(p.stem) \in Nat
  BY <1>1, PathShape, AppendProperties, LenProperties
<1>3. CASE k = 0
  BY <1>3 DEF Numbered
<1>4. CASE k # 0
  <2>. DEFINE q == Numbered(p, k)
  <2>1. q = [place |-> p.place, folder |-> p.folder, stem |-> Append(p.stem, n), ext |-> p.ext]
    BY <1>4 DEF Numbered, Path
  <2>2. q \in Path /\ q.place = p.place /\ q.folder = p.folder /\ q.ext = p.ext
    BY <2>1, <1>2, PathShape DEF Path
  <2>3. ASSUME Old(p), NEW i \in DOMAIN q.stem, q.stem[i].kind = "dup"
        PROVE  q.stem[i].of < now
    <3>1. q.stem = Append(p.stem, n)
      BY <2>1
    <3>2. i \in 1..(Len(p.stem) + 1) /\ i # Len(p.stem) + 1
      BY <3>1, <1>2, <2>3
    <3>3. i \in 1..Len(p.stem)
      BY <3>2, <1>2
    <3>. QED  BY <3>1, <3>3, <1>2, <2>3 DEF Old
  <2>. QED  BY <2>2, <2>3 DEF Old
<1>. QED  BY <1>3, <1>4

LEMMA DuplicatePath ==
    ASSUME NEW p \in Path, now \in Nat
    PROVE  LET d == Duplicate(p, now)
           IN  /\ d \in Path /\ d.place = p.place /\ d.folder = p.folder /\ d.ext = p.ext
               /\ ~Old(d)
               /\ Old(p) => \A k \in DOMAIN d.stem : d.stem[k].kind = "dup" => d.stem[k].of < now + 1
<1>. DEFINE n == [kind |-> "dup", of |-> now]
            d == Duplicate(p, now)
<1>1. n \in Part
  BY DEF Part
<1>2. /\ Append(p.stem, n) \in Seq(Part)
      /\ DOMAIN Append(p.stem, n) = 1..(Len(p.stem) + 1) /\ DOMAIN p.stem = 1..Len(p.stem)
      /\ \A i \in 1..Len(p.stem) : Append(p.stem, n)[i] = p.stem[i]
      /\ Append(p.stem, n)[Len(p.stem) + 1] = n
      /\ Len(p.stem) \in Nat
  BY <1>1, PathShape, AppendProperties, LenProperties
<1>3. d = [place |-> p.place, folder |-> p.folder, stem |-> Append(p.stem, n), ext |-> p.ext]
  <2>1. d = [p EXCEPT !.stem = Append(p.stem, n)]
    BY DEF Duplicate
  <2>. HIDE DEF n, d
  <2>. QED  BY <2>1 DEF Path
<1>4. d \in Path /\ d.place = p.place /\ d.folder = p.folder /\ d.ext = p.ext
  BY <1>3, <1>2, PathShape DEF Path
<1>5. ~Old(d)
  <2>1. Len(p.stem) + 1 \in DOMAIN d.stem /\ d.stem[Len(p.stem) + 1] = n
    BY <1>3, <1>2
  <2>. QED  BY <2>1 DEF Old
<1>6. ASSUME Old(p), NEW i \in DOMAIN d.stem, d.stem[i].kind = "dup"
      PROVE  d.stem[i].of < now + 1
  <2>0. d.stem = Append(p.stem, n)
    BY <1>3
  <2>1. CASE i = Len(p.stem) + 1
    BY <2>0, <2>1, <1>2
  <2>2. CASE i # Len(p.stem) + 1
    <3>1. i \in 1..Len(p.stem)
      BY <2>0, <2>2, <1>2, <1>6
    <3>2. p.stem[i] \in Part /\ p.stem[i].kind = "dup" /\ d.stem[i] = p.stem[i]
      BY <3>1, <2>0, <1>2, <1>6, PathShape, ElementOfSeq
    <3>3. p.stem[i].of \in Nat
      BY <3>2 DEF Part, Given
    <3>4. p.stem[i].of < now
      BY <3>1, <3>2, <1>2, <1>6 DEF Old
    <3>. QED  BY <3>2, <3>3, <3>4
  <2>. QED  BY <2>1, <2>2
<1>. QED  BY <1>4, <1>5, <1>6

(* resolve_collision answers with a name in the same directory that nobody has. *)
LEMMA ResolvedIsFree ==
    ASSUME NEW p \in Path, Old(p), now \in Nat, \A q \in DOMAIN disk : Old(q)
    PROVE  LET d == ResolveCollision(p)
               t == IF Free(p) = {} THEN now + 1 ELSE now
           IN  /\ d \in Path /\ d \notin DOMAIN disk
               /\ d.place = p.place /\ d.folder = p.folder /\ d.ext = p.ext
               /\ \A k \in DOMAIN d.stem : d.stem[k].kind = "dup" => d.stem[k].of < t
<1>1. CASE Free(p) = {}
  <2>1. ResolveCollision(p) = Duplicate(p, now)
    BY <1>1 DEF ResolveCollision
  <2>. QED  BY <1>1, <2>1, DuplicatePath
<1>2. CASE Free(p) # {}
  <2>1. Free(p) \subseteq Nat
    BY OutputsAssumption DEF Free
  <2>2. \E k \in Free(p) : \A j \in Free(p) : k <= j
    <3>1. IsWellFoundedOn(OpToRel(<, Nat), Nat)
      BY NatLessThanWellFounded
    <3>2. PICK k \in Free(p) : \A j \in Free(p) : ~(<<j, k>> \in OpToRel(<, Nat))
      BY <3>1, <1>2, <2>1, WFMin, Zenon
    <3>3. \A j \in Free(p) : ~(j < k)
      BY <3>2, <2>1 DEF OpToRel
    <3>. QED  BY <3>3, <2>1
  <2>3. PICK k \in Free(p) : ResolveCollision(p) = Numbered(p, k)
    BY <1>2, <2>2 DEF ResolveCollision
  <2>4. k \in Nat /\ Numbered(p, k) \notin DOMAIN disk
    BY <2>1 DEF Free
  <2>5. ResolveCollision(p) = Numbered(p, k) /\ Old(Numbered(p, k))
    BY <2>3, <2>4, NumberedPath
  <2>. QED  BY <1>2, <2>4, <2>5, NumberedPath DEF Old
<1>. QED  BY <1>1, <1>2

-----------------------------------------------------------------------------
(* The disk.                                                                *)

LEMMA DiskType ==
    ASSUME NEW d, DOMAIN d \subseteq Path, d \in [DOMAIN d -> Content]
    PROVE  /\ \A p \in Path, c \in Content :
                  DOMAIN With(d, p, c) \subseteq Path /\ With(d, p, c) \in [DOMAIN With(d, p, c) -> Content]
           /\ \A P : DOMAIN Without(d, P) \subseteq Path /\ Without(d, P) \in [DOMAIN Without(d, P) -> Content]
           /\ \A p \in DOMAIN d, to \in Path :
                  DOMAIN Moved(d, p, to) \subseteq Path /\ Moved(d, p, to) \in [DOMAIN Moved(d, p, to) -> Content]
<1>1. \A p \in Path, c \in Content :
         DOMAIN With(d, p, c) \subseteq Path /\ With(d, p, c) \in [DOMAIN With(d, p, c) -> Content]
  BY DEF With
<1>2. \A P : DOMAIN Without(d, P) \subseteq Path /\ Without(d, P) \in [DOMAIN Without(d, P) -> Content]
  BY DEF Without
<1>3. \A p \in DOMAIN d, to \in Path :
         DOMAIN Moved(d, p, to) \subseteq Path /\ Moved(d, p, to) \in [DOMAIN Moved(d, p, to) -> Content]
  BY DEF Moved, With, Without
<1>. QED  BY <1>1, <1>2, <1>3

LEMMA Contents ==
    ASSUME NEW f \in Files
    PROVE  Picture(f) \in Content /\ Torn(f) \in Content /\ Picture(f).of = f /\ Torn(f).of = f
           /\ Picture(f).whole /\ ~Torn(f).whole /\ Picture(f) # Torn(f)
           /\ \A g : Picture(f) = Picture(g) => f = g
  BY DEF Picture, Torn, Content

-----------------------------------------------------------------------------
(* The inductive invariant.                                                 *)

Has(p, f) == p \in DOMAIN disk /\ disk[p] = Picture(f)

(* Only the holder of the mutex is between its search and its move. *)
Mutex == \A f \in Files : pc[f] \in Holding => holder = f

(* A name made of the time is older than the clock. *)
Dated == /\ \A p \in DOMAIN disk : Old(p)
         /\ \A f \in Files : Old(target[f]) /\ Old(dest[f])

(* In the directories of the user there are originals, and a healed one has *)
(* its own extension.                                                       *)
Inputs == \A q \in DOMAIN disk : q.place = "Input" =>
             \E g \in Real : /\ disk[q] = Picture(g) /\ q.folder = Home[g]
                             /\ (q = Source(g) \/ q.ext = Format[g])

(* The file a consumer works on. *)
Carried(f) ==
    /\ pc[f] \in {"heal", "healing"} => Has(target[f], f)
    /\ ~InPlace(f) /\ pc[f] \notin {"idle", "check", "report", "reported"} =>
          target[f].place = "Staging" /\ Has(target[f], f)
    /\ InPlace(f) => pc[f] \notin Holding \ {"healing"}
    /\ InPlace(f) /\ pc[f] # "idle" => target[f].place = "Input"
    /\ InPlace(f) /\ pc[f] = "taken" => target[f] = Source(f)

(* The name the holder has chosen. *)
Chosen(f) ==
    /\ pc[f] \in {"healing", "moving", "failing"} => dest[f] \notin DOMAIN disk
    /\ pc[f] = "healing" =>
          dest[f].place = target[f].place /\ dest[f].folder = target[f].folder /\ dest[f].ext = Format[f]
    /\ pc[f] \in {"moving", "copying"} => ResultPlace(f, dest[f])
    /\ pc[f] \in {"failing", "copying error"} => dest[f].place = "Errors"
    /\ pc[f] \in {"copying", "copying error"} => dest[f] \in DOMAIN disk /\ disk[dest[f]] = Torn(f)

(* The result, in copy mode or of an archive. *)
Delivered(f) == \E p \in DOMAIN disk : ResultPlace(f, p) /\ disk[p] = Picture(f)
Result(f) ==
    /\ pc[f] = "check" => IF InPlace(f) THEN dest[f] = target[f]
                                         ELSE ResultPlace(f, dest[f]) /\ Has(dest[f], f)
    /\ ~InPlace(f) /\ (row[f] = "Completed" \/ (pc[f] \in {"report", "reported"} /\ outcome[f] = "Completed"))
          => Delivered(f)

(* In place, until the process dies: the picture is where the consumer thinks. *)
Unbroken(f) == InPlace(f) /\ session = 1 => Has(IF pc[f] = "idle" THEN Source(f) ELSE target[f], f)

Inv == /\ TypeOK /\ session # 0
       /\ Mutex /\ Dated /\ Inputs /\ OriginalsSurvive /\ MetadataIsOwn
       /\ \A f \in Files : Carried(f) /\ Chosen(f) /\ Result(f) /\ Unbroken(f)

-----------------------------------------------------------------------------
(* Types.                                                                   *)

LEMMA InitialDisk ==
    ASSUME Init
    PROVE  /\ DOMAIN disk = {Source(f) : f \in Real} \cup Earlier
           /\ \A p \in Earlier : disk[p] = Picture(Stranger) /\ p \in Path /\ p.place \notin {"Input", "Staging"}
                                /\ Old(p)
           /\ \A f \in Real : Source(f) \notin Earlier /\ disk[Source(f)] = Picture(f)
<1>1. \A p \in Earlier : p \in Path /\ p.place \notin {"Input", "Staging"} /\ Old(p)
  BY OutputsAssumption, GivenStems DEF Old
<1>2. \A f \in Real : Source(f) \notin Earlier
  BY <1>1, RowPaths, OutputsAssumption
<1>3. \A p \in Earlier : disk[p] = Picture(Stranger)
  BY DEF Init
<1>4. ASSUME NEW f \in Real
      PROVE  disk[Source(f)] = Picture(f)
  <2>1. (CHOOSE g \in Real : Source(g) = Source(f)) = f
    BY OutputsAssumption
  <2>. QED  BY <2>1, <1>2 DEF Init
<1>. QED  BY <1>1, <1>2, <1>3, <1>4 DEF Init

LEMMA InitialTypes == Init => TypeOK
<1>. SUFFICES ASSUME Init PROVE TypeOK
  OBVIOUS
<1>1. DOMAIN disk \subseteq Path
  BY InitialDisk, RowPaths, OutputsAssumption
<1>2. disk \in [DOMAIN disk -> Content]
  <2>1. \A p \in DOMAIN disk : disk[p] \in Content
    <3>0. \A f \in Files \cup {Stranger} : Picture(f) \in Content
      BY DEF Content, Picture
    <3>1. \A p \in Earlier : disk[p] = Picture(Stranger)
      BY InitialDisk
    <3>2. \A f \in Real : disk[Source(f)] = Picture(f)
      BY InitialDisk
    <3>3. Real \subseteq Files /\ DOMAIN disk = {Source(f) : f \in Real} \cup Earlier
      BY InitialDisk, OutputsAssumption
    <3>. QED  BY <3>0, <3>1, <3>2, <3>3
  <2>2. disk = [p \in DOMAIN disk |-> disk[p]]
    BY DEF Init
  <2>. QED  BY <2>1, <2>2
<1>3. /\ target \in [Files -> Path] /\ dest \in [Files -> Path]
      /\ \A f \in Files : target[f].place = "Staging" /\ target[f].folder = f
  BY RowPaths DEF Init
<1>4. /\ row \in [Files -> {"Open"} \cup Outcomes] /\ pc \in [Files -> Steps]
      /\ holder \in Files \cup {Nobody} /\ outcome \in [Files -> Outcomes]
      /\ now \in Nat /\ touched \subseteq Files \X (Files \cup {Stranger}) /\ session \in Nat
  BY DEF Init, Outcomes, Steps
<1>. QED  BY <1>1, <1>2, <1>3, <1>4 DEF TypeOK

(* Where a file of this step is to go is a path. *)
LEMMA WantedPath ==
    ASSUME TypeOK, NEW f \in Files, pc[f] \in {"heal", "move", "fail"},
           pc[f] = "heal" => Has(target[f], f)
    PROVE  /\ Wanted(f) \in Path /\ Wanted(f).stem = target[f].stem
           /\ pc[f] = "heal" => /\ Wanted(f).place = target[f].place /\ Wanted(f).folder = target[f].folder
                                /\ Wanted(f).ext = Format[f]
           /\ pc[f] = "move" => /\ Wanted(f).place = (IF f \in Matched THEN "Completed" ELSE "Unmatched")
                                /\ Wanted(f).folder = Folder[f]
           /\ pc[f] = "fail" => Wanted(f).place = "Errors"
<1>1. target[f] \in Path
  BY DEF TypeOK
<1>2. CASE pc[f] = "heal"
  <2>1. Wanted(f) = [target[f] EXCEPT !.ext = Format[f]]
    BY <1>2, Contents DEF Wanted, HealedPath, Has
  <2>2. Wanted(f) = [place |-> target[f].place, folder |-> target[f].folder,
                     stem |-> target[f].stem, ext |-> Format[f]]
    BY <2>1, <1>1 DEF Path
  <2>. QED  BY <1>1, <1>2, <2>2, RowPaths DEF Path
<1>3. CASE pc[f] = "move"
  <2>1. Wanted(f) = OutputPath(f)
    BY <1>3 DEF Wanted
  <2>. QED  BY <1>1, <1>3, <2>1, RowPaths DEF Path, OutputPath, At, Places
<1>4. CASE pc[f] = "fail"
  <2>1. Wanted(f) = ErrorPath(f)
    BY <1>4 DEF Wanted
  <2>. QED  BY <1>1, <1>4, <2>1, RowPaths DEF Path, ErrorPath, At, Places
<1>. QED  BY <1>2, <1>3, <1>4

(* What a search under the mutex finds. *)
LEMMA ChosenName ==
    ASSUME Inv, NEW f \in Files, Begin(f)
    PROVE  LET d == ResolveCollision(Wanted(f))
           IN  /\ dest' = [dest EXCEPT ![f] = d]
               /\ d \in Path /\ d \notin DOMAIN disk /\ d.place = Wanted(f).place
               /\ d.folder = Wanted(f).folder /\ d.ext = Wanted(f).ext
               /\ \A k \in DOMAIN d.stem : d.stem[k].kind = "dup" => d.stem[k].of < now'
               /\ now' \in Nat /\ now <= now'
<1>1. pc[f] \in {"heal", "move", "fail"} /\ (pc[f] = "heal" => Has(target[f], f))
  BY DEF Begin, Inv, Carried
<1>2. Wanted(f) \in Path /\ Old(Wanted(f))
  BY <1>1, WantedPath DEF Inv, Dated, Old
<1>3. now \in Nat /\ \A q \in DOMAIN disk : Old(q)
  BY DEF Inv, TypeOK, Dated
<1>4. now' = IF Free(Wanted(f)) = {} THEN now + 1 ELSE now
  BY DEF Begin
<1>5. LET d == ResolveCollision(Wanted(f))
      IN  \A k \in DOMAIN d.stem : d.stem[k].kind = "dup" => d.stem[k].of < now'
  BY <1>2, <1>3, <1>4, ResolvedIsFree
<1>. DEFINE d == ResolveCollision(Wanted(f))
<1>6. d \in Path /\ d \notin DOMAIN disk /\ d.place = Wanted(f).place
      /\ d.folder = Wanted(f).folder /\ d.ext = Wanted(f).ext
  BY <1>2, <1>3, ResolvedIsFree
<1>7. dest' = [dest EXCEPT ![f] = d]
  BY DEF Begin
<1>8. now' \in Nat /\ now <= now'
  BY <1>3, <1>4
<1>. QED  BY <1>5, <1>6, <1>7, <1>8

LEMMA StepTypes ==
    ASSUME Inv, NEW f \in Files, Advance(f)
    PROVE  TypeOK'
<1>. DEFINE Disk == DOMAIN disk \subseteq Path /\ disk \in [DOMAIN disk -> Content]
            Locals == /\ target \in [Files -> Path] /\ dest \in [Files -> Path]
                      /\ \A g \in Files : target[g].place = "Input"
                                          \/ (target[g].place = "Staging" /\ target[g].folder = g)
            Rest == /\ row \in [Files -> {"Open"} \cup Outcomes] /\ pc \in [Files -> Steps]
                    /\ holder \in Files \cup {Nobody} /\ outcome \in [Files -> Outcomes]
                    /\ now \in Nat /\ touched \subseteq Files \X (Files \cup {Stranger}) /\ session \in Nat
<1>0. Disk /\ Locals /\ Rest
  <2>1. TypeOK
    BY DEF Inv
  <2>2. Disk
    BY <2>1 DEF TypeOK
  <2>3. Locals
    BY <2>1 DEF TypeOK
  <2>4. Rest
    BY <2>1 DEF TypeOK
  <2>. QED  BY <2>2, <2>3, <2>4
<1>a. target[f] \in Path /\ dest[f] \in Path /\ Picture(f) \in Content
  BY <1>0, Contents
<1>b. \A p \in DOMAIN disk : disk[p] \in Content /\ disk[p].of \in Files \cup {Stranger}
  BY <1>0 DEF Content
<1>. SUFFICES Disk' /\ Locals' /\ Rest'
  BY DEF TypeOK
<1>1. CASE Choose(f)
  <2>1. Begin(f) /\ UNCHANGED <<disk, row, target, outcome, touched, session>> /\ holder' = f
    BY <1>1 DEF Choose, Begin
  <2>2. dest' \in [Files -> Path] /\ now' \in Nat
    BY <2>1, <1>0, ChosenName
  <2>3. pc' \in [Files -> Steps]
    BY <1>0, <2>1 DEF Begin, Goto, Steps, Holding
  <2>. QED  BY <1>0, <2>1, <2>2, <2>3
<1>2. CASE Stage(f)
  <2>1. target' = [target EXCEPT ![f] = IF InPlace(f) THEN Source(f) ELSE Staging(f)]
    BY <1>2 DEF Stage
  <2>2. Locals'
    BY <1>0, <1>2, <2>1, RowPaths DEF Stage
  <2>3. Disk'
    BY <1>0, <1>a, <1>2, RowPaths, DiskType DEF Stage
  <2>4. Rest'
    BY <1>0, <1>2 DEF Stage, Goto, Steps
  <2>. QED  BY <2>2, <2>3, <2>4
<1>3. CASE Inspect(f)
  BY <1>0, <1>3 DEF Inspect, Goto, Steps
<1>4. CASE Heal(f)
  <2>1. /\ pc[f] = "healing" /\ target[f] \in DOMAIN disk
        /\ dest[f].place = target[f].place /\ dest[f].folder = target[f].folder
    BY <1>4 DEF Heal, Inv, Carried, Chosen, Has
  <2>2. Disk'
    BY <1>0, <1>a, <1>4, <2>1, DiskType DEF Heal
  <2>3. Locals'
    BY <1>0, <1>a, <1>4, <2>1 DEF Heal
  <2>4. Rest'
    BY <1>0, <1>4 DEF Heal, Goto, Steps
  <2>. QED  BY <2>2, <2>3, <2>4
<1>5. CASE WriteMetadata(f)
  BY <1>0, <1>b, <1>5 DEF WriteMetadata, Goto, Steps
<1>6. CASE LeaveMetadata(f)
  <2>1. disk' = disk \/ disk' = Without(disk, StagedOf(f))
    BY <1>6 DEF LeaveMetadata
  <2>2. Disk'
    BY <1>0, <2>1, DiskType
  <2>. QED  BY <1>0, <1>6, <2>2 DEF LeaveMetadata, Goto, Steps, Outcomes
<1>7. CASE StayInPlace(f)
  BY <1>0, <1>a, <1>7 DEF StayInPlace, Goto, Steps, Outcomes
<1>8. CASE MoveFile(f)
  <2>1. target[f] \in DOMAIN disk
    BY <1>8 DEF MoveFile, Inv, Carried, Has, Holding
  <2>2. Disk'
    BY <1>0, <1>a, <1>8, <2>1, DiskType DEF MoveFile
  <2>. QED  BY <1>0, <1>8, <2>2 DEF MoveFile, Arrived, Goto, Steps, Outcomes
<1>9. CASE BeginCopy(f)
  <2>1. disk[target[f]] = Picture(f)
    BY <1>9 DEF BeginCopy, Inv, Carried, Has, Holding
  <2>2. Disk'
    BY <1>0, <1>a, <1>9, <2>1, Contents, DiskType DEF BeginCopy
  <2>. QED  BY <1>0, <1>9, <2>2 DEF BeginCopy, Goto, Steps, Holding
<1>10. CASE EndCopy(f)
  <2>1. disk[target[f]] = Picture(f)
    BY <1>10 DEF EndCopy, Inv, Carried, Has, Holding
  <2>. DEFINE copied == With(disk, dest[f], disk[target[f]])
  <2>2. DOMAIN copied \subseteq Path /\ copied \in [DOMAIN copied -> Content]
    BY <1>0, <1>a, <2>1, DiskType
  <2>3. disk' = copied \/ disk' = Without(copied, {target[f]})
    BY <1>10 DEF EndCopy
  <2>4. Disk'
    <3>. HIDE DEF copied
    <3>. QED  BY <2>2, <2>3, DiskType
  <2>. QED  BY <1>0, <1>10, <2>4 DEF EndCopy, Arrived, Goto, Steps, Outcomes
<1>11. CASE MoveFails(f)
  BY <1>0, <1>a, <1>11 DEF MoveFails, Goto, Steps, Outcomes
<1>12. CASE Check(f)
  BY <1>0, <1>b, <1>12 DEF Check, Goto, Steps, Outcomes
<1>13. CASE Report(f)
  <2>1. Disk'
    BY <1>0, <1>13, DiskType DEF Report
  <2>. QED  BY <1>0, <1>13, <2>1 DEF Report, Goto, Steps
<1>14. CASE Store(f)
  BY <1>0, <1>14 DEF Store
<1>. QED
  BY <1>1, <1>2, <1>3, <1>4, <1>5, <1>6, <1>7, <1>8, <1>9, <1>10, <1>11, <1>12, <1>13, <1>14 DEF Advance

-----------------------------------------------------------------------------
(* What a step does to the disk.                                            *)

(* A path that is there stays as it is, or is in the staging directory of   *)
(* the file, or the original that gets another name, or the copy that is    *)
(* being made.                                                              *)
Same(q)       == q \in DOMAIN disk' /\ disk'[q] = disk[q]
StagedBy(f, q) == q.place = "Staging" /\ q.folder = f
HealedAway(f, q) ==
    /\ pc[f] = "healing" /\ q = target[f] /\ disk[q] = Picture(f)
    /\ q \notin DOMAIN disk'
    /\ dest[f] \in DOMAIN disk' /\ dest[f] \notin DOMAIN disk /\ disk'[dest[f]] = Picture(f)
    /\ dest[f].place = q.place /\ dest[f].folder = q.folder
Filled(f, q)  ==
    /\ pc[f] \in {"copying", "copying error"} /\ q = dest[f]
    /\ disk[q] = Torn(f) /\ q \in DOMAIN disk' /\ disk'[q] = Picture(f)

(* A path that is new is there, too, or is the name that was chosen. *)
Fresh(f, q) ==
    \/ StagedBy(f, q)
    \/ q = dest[f] /\ pc[f] = "healing" /\ disk'[q] = Picture(f)
    \/ q = dest[f] /\ pc[f] \in {"moving", "failing"}

DiskChange(f) == /\ \A q \in DOMAIN disk : Same(q) \/ StagedBy(f, q) \/ HealedAway(f, q) \/ Filled(f, q)
                 /\ \A q \in DOMAIN disk' : q \in DOMAIN disk \/ Fresh(f, q)

LEMMA DiskSteps ==
    ASSUME Inv, NEW f \in Files, Advance(f)
    PROVE  DiskChange(f)
<1>0. Carried(f) /\ Chosen(f)
  BY DEF Inv
<1>a. ASSUME disk' = disk PROVE DiskChange(f)
  BY <1>a DEF DiskChange, Same
<1>b. ASSUME disk' = Without(disk, StagedOf(f)) PROVE DiskChange(f)
  BY <1>b DEF DiskChange, Same, StagedBy, StagedOf, Without
<1>c. ASSUME pc[f] \in {"moving", "copying", "failing", "copying error"}
      PROVE  ~InPlace(f) /\ StagedBy(f, target[f]) /\ target[f] \in DOMAIN disk /\ disk[target[f]] = Picture(f)
  <2>1. ~InPlace(f) /\ target[f].place = "Staging" /\ Has(target[f], f)
    BY <1>0, <1>c DEF Carried, Holding
  <2>2. target[f].folder = f
    BY <2>1 DEF Inv, TypeOK
  <2>. QED  BY <2>1, <2>2 DEF StagedBy, Has
<1>2. CASE Stage(f)
  <2>1. disk' = disk \/ disk' = With(disk, Staging(f), Picture(f))
    BY <1>2 DEF Stage
  <2>2. ASSUME disk' = With(disk, Staging(f), Picture(f)) PROVE DiskChange(f)
    <3>1. StagedBy(f, Staging(f))
      BY RowPaths DEF StagedBy
    <3>. QED  BY <2>2, <3>1 DEF DiskChange, Same, Fresh, With
  <2>. QED  BY <2>1, <2>2, <1>a
<1>4. CASE Heal(f)
  <2>1. /\ pc[f] = "healing" /\ target[f] \in DOMAIN disk /\ disk[target[f]] = Picture(f)
        /\ dest[f] \notin DOMAIN disk
        /\ dest[f].place = target[f].place /\ dest[f].folder = target[f].folder
    BY <1>0, <1>4 DEF Heal, Carried, Chosen, Has
  <2>2. disk' = disk \/ disk' = Moved(disk, target[f], dest[f])
    BY <1>4 DEF Heal
  <2>3. ASSUME disk' = Moved(disk, target[f], dest[f]) PROVE DiskChange(f)
    <3>1. /\ DOMAIN disk' = (DOMAIN disk \ {target[f]}) \cup {dest[f]}
          /\ disk'[dest[f]] = Picture(f)
          /\ \A q \in DOMAIN disk \ {target[f]} : disk'[q] = disk[q]
      BY <2>1, <2>3 DEF Moved, With, Without
    <3>. QED  BY <2>1, <3>1 DEF DiskChange, Same, HealedAway, Fresh
  <2>. QED  BY <2>2, <2>3, <1>a
<1>6. CASE LeaveMetadata(f)
  BY <1>6, <1>a, <1>b DEF LeaveMetadata
<1>8. CASE MoveFile(f)
  <2>1. pc[f] \in {"moving", "failing"} /\ dest[f] \notin DOMAIN disk
    BY <1>0, <1>8 DEF MoveFile, Chosen
  <2>2. /\ DOMAIN disk' = (DOMAIN disk \ {target[f]}) \cup {dest[f]}
        /\ \A q \in DOMAIN disk \ {target[f]} : disk'[q] = disk[q]
    BY <2>1, <1>c, <1>8 DEF MoveFile, Moved, With, Without
  <2>. QED  BY <2>1, <2>2, <1>c DEF DiskChange, Same, Fresh
<1>9. CASE BeginCopy(f)
  <2>1. pc[f] \in {"moving", "failing"} /\ dest[f] \notin DOMAIN disk
    BY <1>0, <1>9 DEF BeginCopy, Chosen
  <2>2. DOMAIN disk' = DOMAIN disk \cup {dest[f]} /\ \A q \in DOMAIN disk : disk'[q] = disk[q]
    BY <2>1, <1>9 DEF BeginCopy, With
  <2>. QED  BY <2>1, <2>2 DEF DiskChange, Same, Fresh
<1>10. CASE EndCopy(f)
  <2>1. /\ pc[f] \in {"copying", "copying error"} /\ dest[f] \in DOMAIN disk /\ disk[dest[f]] = Torn(f)
        /\ disk[target[f]] = Picture(f) /\ StagedBy(f, target[f])
    BY <1>0, <1>c, <1>10 DEF EndCopy, Chosen
  <2>2. dest[f] # target[f]
    BY <2>1, Contents
  <2>. DEFINE copied == With(disk, dest[f], disk[target[f]])
  <2>3. /\ DOMAIN copied = DOMAIN disk /\ copied[dest[f]] = Picture(f)
        /\ \A q \in DOMAIN disk : q # dest[f] => copied[q] = disk[q]
    BY <2>1 DEF With
  <2>4. disk' = copied \/ disk' = Without(copied, {target[f]})
    BY <1>10 DEF EndCopy
  <2>5. /\ \A q \in DOMAIN disk' : q \in DOMAIN disk
        /\ dest[f] \in DOMAIN disk' /\ disk'[dest[f]] = Picture(f)
        /\ \A q \in DOMAIN disk : q # dest[f] /\ q # target[f] => Same(q)
    <3>. HIDE DEF copied
    <3>1. CASE disk' = copied
      BY <3>1, <2>1, <2>3 DEF Same
    <3>2. CASE disk' = Without(copied, {target[f]})
      BY <3>2, <2>1, <2>2, <2>3 DEF Same, Without
    <3>. QED  BY <2>4, <3>1, <3>2
  <2>. QED  BY <2>1, <2>5 DEF DiskChange, Filled
<1>13. CASE Report(f)
  BY <1>13, <1>a, <1>b DEF Report
<1>14. CASE Choose(f) \/ Inspect(f) \/ WriteMetadata(f) \/ StayInPlace(f) \/ MoveFails(f) \/ Check(f) \/ Store(f)
  BY <1>14, <1>a DEF Choose, Begin, Inspect, WriteMetadata, StayInPlace, MoveFails, Check, Store
<1>. QED
  BY <1>2, <1>4, <1>6, <1>8, <1>9, <1>10, <1>13, <1>14 DEF Advance

(* A step of one file leaves the place of every other alone. *)
LEMMA OthersStay ==
    ASSUME Inv, NEW f \in Files, Advance(f), NEW g \in Files, g # f
    PROVE  /\ pc'[g] = pc[g] /\ target'[g] = target[g] /\ dest'[g] = dest[g]
           /\ row'[g] = row[g] /\ outcome'[g] = outcome[g]
<1>1. /\ pc \in [Files -> Steps] /\ target \in [Files -> Path] /\ dest \in [Files -> Path]
      /\ row \in [Files -> {"Open"} \cup Outcomes] /\ outcome \in [Files -> Outcomes]
  BY DEF Inv, TypeOK
<1>2. CASE Choose(f) \/ Stage(f) \/ Inspect(f) \/ Heal(f) \/ WriteMetadata(f) \/ LeaveMetadata(f)
  BY <1>1, <1>2 DEF Choose, Begin, Stage, Inspect, Heal, WriteMetadata, LeaveMetadata, Goto
<1>3. CASE StayInPlace(f) \/ MoveFile(f) \/ BeginCopy(f) \/ EndCopy(f) \/ MoveFails(f)
  BY <1>1, <1>3 DEF StayInPlace, MoveFile, BeginCopy, EndCopy, MoveFails, Arrived, Goto
<1>4. CASE Check(f) \/ Report(f) \/ Store(f)
  BY <1>1, <1>4 DEF Check, Report, Store, Goto
<1>. QED  BY <1>2, <1>3, <1>4 DEF Advance

-----------------------------------------------------------------------------
(* The parts of the invariant, step by step.                                *)

LEMMA StepMutex ==
    ASSUME Inv, NEW f \in Files, Advance(f)
    PROVE  Mutex'
<1>0. Mutex /\ pc \in [Files -> Steps] /\ holder \in Files \cup {Nobody} /\ Nobody \notin Files
  BY OutputsAssumption DEF Inv, TypeOK
<1>a. ASSUME pc'[f] \notin Holding, holder' = holder \/ (pc[f] \in Holding /\ holder' = Nobody)
      PROVE  Mutex'
  <2>. SUFFICES ASSUME NEW g \in Files, pc'[g] \in Holding PROVE holder' = g
    BY DEF Mutex
  <2>1. g # f /\ pc[g] \in Holding
    BY <1>a, OthersStay
  <2>. QED  BY <2>1, <1>0, <1>a DEF Mutex
<1>1. CASE Choose(f)
  <2>1. holder = Nobody /\ holder' = f
    BY <1>1 DEF Choose, Begin
  <2>. QED  BY <2>1, <1>0, OthersStay DEF Mutex
<1>2. CASE Stage(f) \/ Inspect(f) \/ WriteMetadata(f) \/ LeaveMetadata(f) \/ StayInPlace(f) \/ Check(f) \/ Report(f)
  <2>1. pc'[f] \notin Holding /\ holder' = holder
    BY <1>0, <1>2 DEF Stage, Inspect, WriteMetadata, LeaveMetadata, StayInPlace, Check, Report, Goto, Holding
  <2>. QED  BY <2>1, <1>a
<1>3. CASE Heal(f) \/ MoveFile(f) \/ EndCopy(f) \/ MoveFails(f)
  <2>1. pc'[f] \notin Holding /\ pc[f] \in Holding /\ holder' = Nobody
    BY <1>0, <1>3 DEF Heal, MoveFile, EndCopy, MoveFails, Arrived, Goto, Holding
  <2>. QED  BY <2>1, <1>a
<1>4. CASE BeginCopy(f)
  <2>1. pc[f] \in Holding /\ holder' = holder
    BY <1>4 DEF BeginCopy, Holding
  <2>. QED  BY <2>1, <1>0, OthersStay DEF Mutex
<1>5. CASE Store(f)
  BY <1>0, <1>5 DEF Store, Mutex
<1>. QED  BY <1>1, <1>2, <1>3, <1>4, <1>5 DEF Advance

(* The clock goes on. *)
LEMMA Clock ==
    ASSUME Inv, NEW f \in Files, Advance(f)
    PROVE  now \in Nat /\ now' \in Nat /\ now <= now'
<1>1. CASE Choose(f)
  BY <1>1, ChosenName DEF Choose, Inv, TypeOK
<1>2. CASE ~Choose(f)
  <2>1. now' = now
    BY <1>2 DEF Advance, Stage, Inspect, Heal, WriteMetadata, LeaveMetadata, StayInPlace, MoveFile,
                BeginCopy, EndCopy, MoveFails, Check, Report, Store
  <2>. QED  BY <2>1 DEF Inv, TypeOK
<1>. QED  BY <1>1, <1>2

LEMMA StillOld ==
    ASSUME NEW p \in Path, Old(p), now \in Nat, now' \in Nat, now <= now'
    PROVE  \A k \in DOMAIN p.stem : p.stem[k].kind = "dup" => p.stem[k].of < now'
<1>. SUFFICES ASSUME NEW k \in DOMAIN p.stem, p.stem[k].kind = "dup" PROVE p.stem[k].of < now'
  OBVIOUS
<1>1. p.stem[k] \in Part
  BY PathShape, LenProperties, ElementOfSeq
<1>2. p.stem[k].of \in Nat
  BY <1>1 DEF Part, Given
<1>. QED  BY <1>2 DEF Old

LEMMA StepDated ==
    ASSUME Inv, NEW f \in Files, Advance(f)
    PROVE  Dated'
<1>0. /\ Dated /\ DOMAIN disk \subseteq Path
      /\ pc \in [Files -> Steps] /\ target \in [Files -> Path] /\ dest \in [Files -> Path]
  BY DEF Inv, TypeOK
<1>. DEFINE Older(p) == \A k \in DOMAIN p.stem : p.stem[k].kind = "dup" => p.stem[k].of < now'
<1>1. \A p \in Path : Old(p) => Older(p)
  BY Clock, StillOld
<1>2. \A g \in Files : Older(target'[g]) /\ Older(dest'[g])
  <2>. SUFFICES ASSUME NEW g \in Files PROVE Older(target'[g]) /\ Older(dest'[g])
    OBVIOUS
  <2>1. Older(target[g]) /\ Older(dest[g])
    BY <1>0, <1>1 DEF Dated
  <2>2. CASE g # f
    BY <2>1, <2>2, OthersStay
  <2>3. CASE g = f /\ Choose(f)
    <3>1. target' = target /\ Begin(f)
      BY <2>3 DEF Choose, Begin
    <3>2. Older(dest'[f])
      BY <3>1, <1>0, ChosenName
    <3>. QED  BY <2>1, <2>3, <3>1, <3>2
  <2>4. CASE g = f /\ Stage(f)
    <3>1. target'[f] \in {Source(f), Staging(f)} /\ dest' = dest
      BY <1>0, <2>4 DEF Stage
    <3>. QED  BY <2>1, <2>4, <3>1, <1>1, RowPaths
  <2>5. CASE g = f /\ ~Choose(f) /\ ~Stage(f)
    <3>1. target'[f] \in {target[f], dest[f]} /\ dest'[f] \in {target[f], dest[f]}
      BY <1>0, <2>5 DEF Advance, Inspect, Heal, WriteMetadata, LeaveMetadata, StayInPlace, MoveFile,
                BeginCopy, EndCopy, MoveFails, Check, Report, Store
    <3>. QED  BY <2>1, <2>5, <3>1
  <2>. QED  BY <2>2, <2>3, <2>4, <2>5
<1>3. ASSUME NEW q \in DOMAIN disk'
      PROVE  Older(q)
  <2>1. CASE q \in DOMAIN disk
    BY <2>1, <1>0, <1>1 DEF Dated
  <2>2. CASE q \notin DOMAIN disk
    <3>1. q = Staging(f) \/ q = dest[f]
      <4>1. CASE Stage(f)
        BY <2>2, <4>1, <1>3 DEF Stage, With
      <4>2. CASE ~Stage(f)
        <5>1. CASE disk' = disk \/ disk' = Without(disk, StagedOf(f))
          BY <5>1, <1>3, <2>2 DEF Without
        <5>2. CASE disk' = Moved(disk, target[f], dest[f])
          BY <5>2, <1>3, <2>2 DEF Moved, With, Without
        <5>3. CASE \E c : disk' = With(disk, dest[f], c)
          BY <5>3, <1>3, <2>2 DEF With
        <5>4. CASE \E c : disk' = Without(With(disk, dest[f], c), {target[f]})
          BY <5>4, <1>3, <2>2 DEF With, Without
        <5>5. CASE Heal(f)
          BY <5>5, <5>1, <5>2 DEF Heal
        <5>6. CASE LeaveMetadata(f) \/ Report(f)
          BY <5>6, <5>1 DEF LeaveMetadata, Report
        <5>7. CASE MoveFile(f)
          BY <5>7, <5>2 DEF MoveFile
        <5>8. CASE BeginCopy(f)
          BY <5>8, <5>3 DEF BeginCopy
        <5>9. CASE EndCopy(f)
          BY <5>9, <5>3, <5>4 DEF EndCopy
        <5>10. CASE Choose(f) \/ Inspect(f) \/ WriteMetadata(f) \/ StayInPlace(f) \/ MoveFails(f) \/ Check(f) \/ Store(f)
          <6>1. disk' = disk
            BY <5>10 DEF Choose, Begin, Inspect, WriteMetadata, StayInPlace, MoveFails, Check, Store
          <6>. QED  BY <6>1, <5>1
        <5>. QED  BY <4>2, <5>5, <5>6, <5>7, <5>8, <5>9, <5>10 DEF Advance
      <4>. QED  BY <4>1, <4>2
    <3>2. Old(Staging(f)) /\ Staging(f) \in Path /\ Old(dest[f]) /\ dest[f] \in Path
      BY <1>0, RowPaths DEF Dated
    <3>. QED  BY <3>1, <3>2, <1>1
  <2>. QED  BY <2>1, <2>2
<1>. QED  BY <1>2, <1>3 DEF Dated, Old

LEMMA StepInputs ==
    ASSUME Inv, NEW f \in Files, Advance(f)
    PROVE  Inputs'
<1>0. Inputs /\ Carried(f) /\ Chosen(f) /\ Real \subseteq Files
  BY OutputsAssumption DEF Inv
<1>1. DiskChange(f)
  BY DiskSteps
<1>. SUFFICES ASSUME NEW q \in DOMAIN disk', q.place = "Input"
              PROVE  \E g \in Real : /\ disk'[q] = Picture(g) /\ q.folder = Home[g]
                                     /\ (q = Source(g) \/ q.ext = Format[g])
  BY DEF Inputs
<1>2. CASE q \in DOMAIN disk
  <2>1. ~Filled(f, q)
    BY <1>0 DEF Filled, Chosen, ResultPlace, Carried, Holding
  <2>2. disk'[q] = disk[q]
    BY <1>1, <1>2, <2>1 DEF DiskChange, Same, StagedBy, HealedAway
  <2>. QED  BY <1>0, <1>2, <2>2 DEF Inputs
<1>3. CASE q \notin DOMAIN disk
  <2>1. q = dest[f] /\ pc[f] = "healing" /\ disk'[q] = Picture(f)
    BY <1>0, <1>1, <1>3 DEF DiskChange, Fresh, StagedBy, Chosen, ResultPlace, Carried, Holding
  <2>2. /\ target[f] \in DOMAIN disk /\ disk[target[f]] = Picture(f)
        /\ target[f].place = "Input" /\ q.folder = target[f].folder /\ q.ext = Format[f]
    BY <1>0, <2>1 DEF Carried, Chosen, Has
  <2>3. PICK g \in Real : Picture(f) = Picture(g) /\ target[f].folder = Home[g]
    BY <1>0, <2>2 DEF Inputs
  <2>4. f = g
    BY <2>3, Contents
  <2>. QED  BY <2>1, <2>2, <2>3, <2>4
<1>. QED  BY <1>2, <1>3

LEMMA StepOriginals ==
    ASSUME Inv, NEW f \in Files, Advance(f)
    PROVE  OriginalsSurvive'
<1>0. Inputs /\ OriginalsSurvive /\ Carried(f) /\ Chosen(f) /\ Real \subseteq Files
  BY OutputsAssumption DEF Inv
<1>1. DiskChange(f) /\ Inputs'
  BY DiskSteps, StepInputs
<1>. SUFFICES ASSUME NEW g \in Real
              PROVE  \E p \in DOMAIN disk' :
                         /\ p.folder = Home[g] /\ (InPlaceMode \/ p = Source(g))
                         /\ disk'[p] = Picture(g)
                         /\ \A q \in DOMAIN disk' : q.place = "Input" /\ disk'[q].of = g <=> q = p
  BY DEF OriginalsSurvive
<1>2. PICK p \in DOMAIN disk :
         /\ p.folder = Home[g] /\ (InPlaceMode \/ p = Source(g))
         /\ disk[p] = Picture(g)
         /\ \A q \in DOMAIN disk : q.place = "Input" /\ disk[q].of = g <=> q = p
  BY <1>0 DEF OriginalsSurvive
<1>3. p.place = "Input"
  BY <1>2
(* What is new under Input has been healed. *)
<1>4. ASSUME NEW q \in DOMAIN disk', q \notin DOMAIN disk, q.place = "Input"
      PROVE  /\ q = dest[f] /\ pc[f] = "healing" /\ disk'[q] = Picture(f) /\ InPlaceMode
             /\ target[f] \in DOMAIN disk /\ disk[target[f]] = Picture(f) /\ target[f].place = "Input"
  <2>1. q = dest[f] /\ pc[f] = "healing" /\ disk'[q] = Picture(f)
    BY <1>0, <1>1, <1>4 DEF DiskChange, Fresh, StagedBy, Chosen, ResultPlace, Carried, Holding
  <2>2. /\ target[f] \in DOMAIN disk /\ disk[target[f]] = Picture(f) /\ target[f].place = "Input"
    BY <1>0, <1>4, <2>1 DEF Carried, Chosen, Has
  <2>3. InPlace(f)
    BY <1>0, <2>1, <2>2 DEF Carried
  <2>. QED  BY <2>1, <2>2, <2>3 DEF InPlace
<1>5. \A q \in DOMAIN disk : q.place = "Input" => Same(q) \/ HealedAway(f, q)
  BY <1>0, <1>1 DEF DiskChange, StagedBy, Filled, Chosen, ResultPlace, Carried, Holding
<1>6. CASE Same(p)
  <2>1. ASSUME NEW q \in DOMAIN disk', q.place = "Input", disk'[q].of = g
        PROVE  q = p
    <3>1. CASE q \in DOMAIN disk
      <4>1. Same(q)
        BY <2>1, <3>1, <1>5 DEF HealedAway
      <4>. QED  BY <2>1, <3>1, <4>1, <1>2 DEF Same
    <3>2. CASE q \notin DOMAIN disk
      <4>1. /\ q = dest[f] /\ pc[f] = "healing" /\ disk'[q] = Picture(f)
            /\ target[f] \in DOMAIN disk /\ disk[target[f]] = Picture(f) /\ target[f].place = "Input"
        BY <2>1, <3>2, <1>4
      <4>2. f = g
        BY <4>1, <2>1, Contents
      <4>3. target[f] = p
        BY <4>1, <4>2, <1>2, Contents
      <4>4. Heal(f)
        BY <4>1 DEF Advance, Choose, Begin, StaysInPlace, Stage, Inspect, Heal, WriteMetadata, LeaveMetadata,
                StayInPlace, MoveFile, BeginCopy, EndCopy, MoveFails, Check, Report, Store, Holding
      <4>5. disk' = disk \/ disk' = Moved(disk, target[f], dest[f])
        BY <4>4 DEF Heal
      <4>6. dest[f] # target[f]
        BY <4>1, <3>2
      <4>7. p \notin DOMAIN disk'
        BY <4>1, <4>3, <4>5, <4>6, <3>2, <2>1 DEF Moved, With, Without
      <4>. QED  BY <4>7, <1>6 DEF Same
    <3>. QED  BY <3>1, <3>2
  <2>2. p \in DOMAIN disk' /\ disk'[p] = Picture(g) /\ disk'[p].of = g
    BY <1>2, <1>6 DEF Same, Picture
  <2>. QED  BY <1>2, <1>3, <2>1, <2>2
<1>7. CASE HealedAway(f, p)
  <2>1. f = g
    BY <1>2, <1>7, Contents DEF HealedAway
  <2>. DEFINE d == dest[f]
  <2>2. d \in DOMAIN disk' /\ d \notin DOMAIN disk /\ d.place = "Input" /\ d.folder = Home[g] /\ disk'[d] = Picture(g)
    BY <1>2, <1>3, <1>7, <2>1 DEF HealedAway
  <2>3. InPlaceMode
    BY <1>4, <2>2
  <2>4. ASSUME NEW q \in DOMAIN disk', q.place = "Input", disk'[q].of = g
        PROVE  q = d
    <3>1. CASE q \in DOMAIN disk
      <4>1. Same(q)
        BY <2>4, <3>1, <1>5 DEF HealedAway
      <4>2. q = p
        BY <2>4, <3>1, <4>1, <1>2 DEF Same
      <4>. QED  BY <4>1, <4>2, <1>7 DEF Same, HealedAway
    <3>2. CASE q \notin DOMAIN disk
      BY <1>4, <2>4, <3>2
    <3>. QED  BY <3>1, <3>2
  <2>5. disk'[d].of = g
    BY <2>2 DEF Picture
  <2>. HIDE DEF d
  <2>. QED  BY <2>2, <2>3, <2>4, <2>5
<1>. QED  BY <1>3, <1>5, <1>6, <1>7

(* A picture of another file stays where it is. *)
HasThen(p, f) == p \in DOMAIN disk' /\ disk'[p] = Picture(f)

LEMMA StaysThere ==
    ASSUME Inv, NEW f \in Files, Advance(f), NEW g \in Files, g # f
    PROVE  \A q : ~StagedBy(f, q) =>
              /\ Has(q, g) => HasThen(q, g)
              /\ q \in DOMAIN disk /\ disk[q] = Torn(g) => q \in DOMAIN disk' /\ disk'[q] = Torn(g)
<1>1. DiskChange(f)
  BY DiskSteps
<1>2. /\ Picture(f) # Picture(g) /\ Torn(f) # Picture(g) /\ Torn(f) # Torn(g) /\ Picture(f) # Torn(g)
  BY DEF Picture, Torn
<1>. QED  BY <1>1, <1>2 DEF DiskChange, Same, HealedAway, Filled, Has, HasThen

LEMMA SameSession ==
    ASSUME NEW f \in Files, Advance(f)
    PROVE  session' = session
  BY DEF Advance, Choose, Begin, Stage, Inspect, Heal, WriteMetadata, LeaveMetadata, StayInPlace, MoveFile,
         BeginCopy, EndCopy, MoveFails, Check, Report, Store

LEMMA StepOthers ==
    ASSUME Inv, NEW f \in Files, Advance(f), NEW g \in Files, g # f
    PROVE  (Carried(g) /\ Chosen(g) /\ Result(g) /\ Unbroken(g))'
<1>0. /\ Carried(g) /\ Chosen(g) /\ Result(g) /\ Unbroken(g) /\ Mutex /\ TypeOK
      /\ pc'[g] = pc[g] /\ target'[g] = target[g] /\ dest'[g] = dest[g]
      /\ row'[g] = row[g] /\ outcome'[g] = outcome[g] /\ session' = session
  BY OthersStay, SameSession DEF Inv
<1>1. ~StagedBy(f, target[g]) /\ ~StagedBy(f, Source(g))
  BY <1>0, RowPaths DEF TypeOK, StagedBy
<1>2. \A p : ResultPlace(g, p) => ~StagedBy(f, p)
  BY DEF ResultPlace, StagedBy
<1>3. Carried(g)'
  <2>1. Has(target[g], g) => HasThen(target[g], g)
    BY <1>1, StaysThere
  <2>2. Has(target[g], g) => Has(target[g], g)'
    BY <2>1, <1>0 DEF Has, HasThen
  <2>. QED  BY <1>0, <2>2 DEF Carried
<1>4. Chosen(g)'
  <2>1. ASSUME pc[g] \in {"healing", "moving", "failing"}
        PROVE  dest[g] \notin DOMAIN disk'
    <3>1. ~StagedBy(f, dest[g])
      BY <1>0, <1>1, <1>2, <2>1 DEF Chosen, StagedBy
    <3>2. pc[f] \notin Holding
      BY <1>0, <2>1 DEF Mutex, Holding
    <3>3. DiskChange(f)
      BY DiskSteps
    <3>4. dest[g] \notin DOMAIN disk
      BY <1>0, <2>1 DEF Chosen
    <3>. QED  BY <3>1, <3>2, <3>3, <3>4 DEF DiskChange, Fresh, Holding
  <2>2. ASSUME pc[g] \in {"copying", "copying error"}
        PROVE  dest[g] \in DOMAIN disk' /\ disk'[dest[g]] = Torn(g)
    <3>1. ~StagedBy(f, dest[g])
      BY <1>0, <1>2, <2>2 DEF Chosen, StagedBy
    <3>2. dest[g] \in DOMAIN disk /\ disk[dest[g]] = Torn(g)
      BY <1>0, <2>2 DEF Chosen
    <3>. QED  BY <3>1, <3>2, StaysThere
  <2>. QED  BY <1>0, <2>1, <2>2 DEF Chosen
<1>5. Result(g)'
  <2>1. ASSUME Delivered(g) PROVE Delivered(g)'
    <3>1. PICK p \in DOMAIN disk : ResultPlace(g, p) /\ disk[p] = Picture(g)
      BY <2>1 DEF Delivered
    <3>2. HasThen(p, g)
      BY <3>1, <1>2, StaysThere DEF Has
    <3>. QED  BY <3>1, <3>2 DEF Delivered, HasThen
  <2>2. ASSUME pc[g] = "check", ~InPlace(g) PROVE Has(dest[g], g)'
    <3>1. ResultPlace(g, dest[g]) /\ Has(dest[g], g)
      BY <1>0, <2>2 DEF Result
    <3>2. HasThen(dest[g], g)
      BY <3>1, <1>2, StaysThere
    <3>. QED  BY <3>2, <1>0 DEF Has, HasThen
  <2>3. pc'[g] = "check" => IF InPlace(g) THEN dest'[g] = target'[g]
                                         ELSE ResultPlace(g, dest'[g]) /\ Has(dest[g], g)'
    BY <1>0, <2>2 DEF Result
  <2>. QED  BY <1>0, <2>1, <2>3 DEF Result
<1>6. Unbroken(g)'
  <2>. DEFINE q == IF pc[g] = "idle" THEN Source(g) ELSE target[g]
  <2>1. ~StagedBy(f, q) /\ (InPlace(g) /\ session = 1 => Has(q, g))
    BY <1>0, <1>1 DEF Unbroken
  <2>2. InPlace(g) /\ session = 1 => HasThen(q, g)
    BY <2>1, StaysThere
  <2>. QED  BY <1>0, <2>2 DEF Unbroken, Has, HasThen
<1>. QED  BY <1>3, <1>4, <1>5, <1>6

(* What a consumer knows when it holds the mutex. *)
LEMMA OwnFile ==
    ASSUME Inv, NEW f \in Files
    PROVE  /\ pc[f] \in {"heal", "healing"} => Has(target[f], f)
           /\ pc[f] \in {"moving", "copying", "failing", "copying error"} =>
                 ~InPlace(f) /\ target[f].place = "Staging" /\ Has(target[f], f)
           /\ pc[f] \in {"healing", "moving", "failing"} => dest[f] \notin DOMAIN disk /\ dest[f] # target[f]
           /\ pc[f] \in {"copying", "copying error"} =>
                 dest[f] \in DOMAIN disk /\ disk[dest[f]] = Torn(f) /\ dest[f] # target[f]
           /\ pc \in [Files -> Steps] /\ target \in [Files -> Path] /\ dest \in [Files -> Path]
           /\ row \in [Files -> {"Open"} \cup Outcomes] /\ outcome \in [Files -> Outcomes]
           /\ Carried(f) /\ Chosen(f) /\ Result(f) /\ Unbroken(f)
<1>1. Carried(f) /\ Chosen(f) /\ Result(f) /\ Unbroken(f) /\ TypeOK
  BY DEF Inv
<1>2. pc[f] \in {"heal", "healing"} => Has(target[f], f)
  BY <1>1 DEF Carried
<1>3. pc[f] \in {"moving", "copying", "failing", "copying error"} =>
          ~InPlace(f) /\ target[f].place = "Staging" /\ Has(target[f], f)
  BY <1>1 DEF Carried, Holding
<1>4. pc[f] \in {"healing", "moving", "failing"} => dest[f] \notin DOMAIN disk /\ dest[f] # target[f]
  BY <1>1, <1>2, <1>3 DEF Chosen, Has
<1>5. pc[f] \in {"copying", "copying error"} =>
          dest[f] \in DOMAIN disk /\ disk[dest[f]] = Torn(f) /\ dest[f] # target[f]
  BY <1>1, <1>3, Contents DEF Chosen, Has
<1>. QED  BY <1>1, <1>2, <1>3, <1>4, <1>5 DEF TypeOK

(* What the moves and the copies leave at the two paths. *)
LEMMA MovedDisk ==
    ASSUME Inv, NEW f \in Files
    PROVE  /\ Heal(f) => \/ disk' = disk /\ target'[f] = target[f]
                         \/ target'[f] = dest[f] /\ HasThen(dest[f], f)
           /\ MoveFile(f) => HasThen(dest[f], f)
           /\ BeginCopy(f) => /\ HasThen(target[f], f)
                              /\ dest[f] \in DOMAIN disk' /\ disk'[dest[f]] = Torn(f)
           /\ EndCopy(f) => HasThen(dest[f], f)
<1>1. ASSUME Heal(f)
      PROVE  \/ disk' = disk /\ target'[f] = target[f]
             \/ target'[f] = dest[f] /\ HasThen(dest[f], f)
  <2>1. pc[f] = "healing" /\ disk[target[f]] = Picture(f) /\ target \in [Files -> Path]
    BY <1>1, OwnFile DEF Heal, Has
  <2>. QED  BY <1>1, <2>1 DEF Heal, Moved, With, Without, HasThen
<1>2. ASSUME MoveFile(f) PROVE HasThen(dest[f], f)
  <2>1. disk[target[f]] = Picture(f)
    BY <1>2, OwnFile DEF MoveFile, Has
  <2>. QED  BY <1>2, <2>1 DEF MoveFile, Moved, With, Without, HasThen
<1>3. ASSUME BeginCopy(f)
      PROVE  /\ HasThen(target[f], f)
             /\ dest[f] \in DOMAIN disk' /\ disk'[dest[f]] = Torn(f)
  <2>1. target[f] \in DOMAIN disk /\ disk[target[f]] = Picture(f) /\ dest[f] # target[f]
    BY <1>3, OwnFile DEF BeginCopy, Has
  <2>2. disk' = With(disk, dest[f], Torn(f))
    BY <1>3, <2>1, Contents DEF BeginCopy
  <2>. QED  BY <2>1, <2>2 DEF With, HasThen
<1>4. ASSUME EndCopy(f) PROVE HasThen(dest[f], f)
  <2>1. disk[target[f]] = Picture(f) /\ dest[f] # target[f]
    BY <1>4, OwnFile DEF EndCopy, Has
  <2>2. disk' = With(disk, dest[f], Picture(f)) \/ disk' = Without(With(disk, dest[f], Picture(f)), {target[f]})
    BY <1>4, <2>1 DEF EndCopy
  <2>3. CASE disk' = With(disk, dest[f], Picture(f))
    BY <2>3 DEF With, HasThen
  <2>4. CASE disk' = Without(With(disk, dest[f], Picture(f)), {target[f]})
    BY <2>1, <2>4 DEF With, Without, HasThen
  <2>. QED  BY <2>2, <2>3, <2>4
<1>. QED  BY <1>1, <1>2, <1>3, <1>4

LEMMA StepCarried ==
    ASSUME Inv, NEW f \in Files, Advance(f)
    PROVE  Carried(f)'
<1>0. /\ Carried(f) /\ Chosen(f)
      /\ pc \in [Files -> Steps] /\ target \in [Files -> Path] /\ dest \in [Files -> Path]
  BY OwnFile
<1>1. CASE Choose(f)
  <2>1. /\ disk' = disk /\ target' = target
        /\ pc[f] \in {"heal", "move", "fail"} /\ ~(pc[f] \in {"move", "fail"} /\ InPlace(f))
        /\ pc'[f] = CASE pc[f] = "heal" -> "healing" [] pc[f] = "move" -> "moving" [] pc[f] = "fail" -> "failing"
    BY <1>0, <1>1 DEF Choose, Begin, StaysInPlace, Goto
  <2>2. CASE pc[f] = "heal"
    BY <1>0, <2>1, <2>2 DEF Carried, Holding, Has
  <2>3. CASE pc[f] = "move"
    BY <1>0, <2>1, <2>3 DEF Carried, Holding, Has
  <2>4. CASE pc[f] = "fail"
    BY <1>0, <2>1, <2>4 DEF Carried, Holding, Has
  <2>. QED  BY <2>1, <2>2, <2>3, <2>4
<1>2. CASE Stage(f)
  <2>1. pc'[f] = "taken" /\ target'[f] = IF InPlace(f) THEN Source(f) ELSE Staging(f)
    BY <1>0, <1>2 DEF Stage, Goto
  <2>2. ~InPlace(f) => HasThen(Staging(f), f)
    BY <1>2 DEF Stage, With, HasThen
  <2>3. ~InPlace(f) => Has(target[f], f)'
    BY <2>1, <2>2 DEF Has, HasThen
  <2>. QED  BY <2>1, <2>3, RowPaths DEF Carried, Holding
<1>3. CASE Inspect(f)
  <2>1. disk' = disk /\ target' = target /\ pc[f] = "taken" /\ pc'[f] = IF NeedsCorrection(f) THEN "heal" ELSE "write"
    BY <1>0, <1>3 DEF Inspect, Goto
  <2>2. ASSUME InPlace(f), NeedsCorrection(f) PROVE Has(target[f], f)
    <3>1. target[f] = Source(f) /\ Source(f) \in DOMAIN disk /\ Source(f).place = "Input"
          /\ Source(f).ext = Filename[f].ext /\ f \in Real
      BY <1>0, <2>1, <2>2, RowPaths DEF Carried, NeedsCorrection, InPlace
    <3>2. PICK g \in Real : disk[Source(f)] = Picture(g) /\ (Source(f) = Source(g) \/ Source(f).ext = Format[g])
      BY <3>1 DEF Inv, Inputs
    <3>3. Source(f).ext # Format[g]
      BY <2>2, <3>1, <3>2 DEF NeedsCorrection, Picture
    <3>4. f = g
      BY <3>1, <3>2, <3>3, OutputsAssumption
    <3>. QED  BY <3>1, <3>2, <3>4 DEF Has
  <2>3. Has(target[f], f) => Has(target[f], f)'
    BY <2>1 DEF Has
  <2>4. /\ ~InPlace(f) => target'[f].place = "Staging" /\ Has(target[f], f)'
        /\ InPlace(f) => target'[f].place = "Input"
        /\ InPlace(f) /\ NeedsCorrection(f) => Has(target[f], f)'
    BY <1>0, <2>1, <2>2, <2>3 DEF Carried
  <2>. QED  BY <2>1, <2>4 DEF Carried, Holding
<1>4. CASE Heal(f)
  <2>1. pc[f] = "healing" /\ pc'[f] = "write" /\ dest[f].place = target[f].place /\ Has(target[f], f)
    BY <1>0, <1>4 DEF Heal, Goto, Chosen, Carried
  <2>2. Has(target[f], f)' /\ target'[f].place = target[f].place
    <3>1. CASE disk' = disk /\ target'[f] = target[f]
      BY <2>1, <3>1 DEF Has
    <3>2. CASE target'[f] = dest[f] /\ HasThen(dest[f], f)
      BY <2>1, <3>2 DEF Has, HasThen
    <3>. QED  BY <1>4, <3>1, <3>2, MovedDisk
  <2>3. /\ ~InPlace(f) => target[f].place = "Staging"
        /\ InPlace(f) => target[f].place = "Input"
    BY <1>0, <2>1 DEF Carried
  <2>. QED  BY <2>1, <2>2, <2>3 DEF Carried, Holding
<1>5. CASE WriteMetadata(f)
  <2>1. disk' = disk /\ target' = target /\ pc[f] = "write" /\ pc'[f] \in {"move", "fail"}
    BY <1>0, <1>5 DEF WriteMetadata, Goto
  <2>. QED  BY <1>0, <2>1 DEF Carried, Has, Holding
<1>6. CASE LeaveMetadata(f)
  <2>1. target' = target /\ pc[f] = "write" /\ (pc'[f] = "reported" \/ (pc'[f] = "move" /\ disk' = disk))
    BY <1>0, <1>6 DEF LeaveMetadata, Goto
  <2>. QED  BY <1>0, <2>1 DEF Carried, Has, Holding
<1>7. CASE StayInPlace(f)
  <2>1. InPlace(f) /\ target' = target /\ pc[f] \in {"move", "fail"} /\ pc'[f] \in {"check", "report"}
    BY <1>0, <1>7 DEF StayInPlace, StaysInPlace, Goto
  <2>. QED  BY <1>0, <2>1 DEF Carried, Holding
<1>8. CASE MoveFile(f) \/ EndCopy(f)
  <2>1. ~InPlace(f) /\ pc'[f] \in {"check", "report"}
    BY <1>0, <1>8, OwnFile DEF MoveFile, EndCopy, Arrived, Goto
  <2>. QED  BY <2>1 DEF Carried
<1>9. CASE BeginCopy(f)
  <2>1. ~InPlace(f) /\ target[f].place = "Staging" /\ target' = target /\ pc'[f] \in {"copying", "copying error"}
    BY <1>0, <1>9, OwnFile DEF BeginCopy, Goto
  <2>2. Has(target[f], f)'
    BY <1>9, <2>1, MovedDisk DEF Has, HasThen
  <2>. QED  BY <2>1, <2>2 DEF Carried
<1>10. CASE MoveFails(f)
  <2>1. /\ ~InPlace(f) /\ target[f].place = "Staging" /\ Has(target[f], f)
        /\ disk' = disk /\ target' = target /\ pc'[f] \in {"fail", "report"}
    BY <1>0, <1>10, OwnFile DEF MoveFails, Goto, Holding
  <2>. QED  BY <2>1 DEF Carried, Has
<1>11. CASE Check(f)
  <2>1. /\ disk' = disk /\ target' = target /\ pc[f] = "check"
        /\ pc'[f] = "report" \/ (pc'[f] = "fail" /\ dest[f] \notin DOMAIN disk)
    BY <1>0, <1>11 DEF Check, Goto
  <2>2. ~InPlace(f) => dest[f] \in DOMAIN disk
    BY <2>1, OwnFile DEF Result, Has
  <2>3. InPlace(f) => target[f].place = "Input"
    BY <1>0, <2>1 DEF Carried
  <2>. QED  BY <2>1, <2>2, <2>3 DEF Carried, Holding
<1>12. CASE Report(f)
  <2>1. target' = target /\ pc[f] = "report" /\ pc'[f] = "reported"
    BY <1>0, <1>12 DEF Report, Goto
  <2>. QED  BY <1>0, <2>1 DEF Carried, Holding
<1>13. CASE Store(f)
  BY <1>0, <1>13 DEF Store, Carried, Has
<1>. QED
  BY <1>1, <1>2, <1>3, <1>4, <1>5, <1>6, <1>7, <1>8, <1>9, <1>10, <1>11, <1>12, <1>13 DEF Advance

LEMMA StepChosen ==
    ASSUME Inv, NEW f \in Files, Advance(f)
    PROVE  Chosen(f)'
<1>0. /\ Carried(f) /\ Chosen(f)
      /\ pc \in [Files -> Steps] /\ target \in [Files -> Path] /\ dest \in [Files -> Path]
  BY OwnFile
<1>1. CASE Choose(f)
  <2>1. /\ Begin(f) /\ disk' = disk /\ target' = target
        /\ pc[f] \in {"heal", "move", "fail"} /\ ~(pc[f] \in {"move", "fail"} /\ InPlace(f))
        /\ pc'[f] = CASE pc[f] = "heal" -> "healing" [] pc[f] = "move" -> "moving" [] pc[f] = "fail" -> "failing"
    BY <1>0, <1>1 DEF Choose, Begin, StaysInPlace, Goto
  <2>. DEFINE d == ResolveCollision(Wanted(f))
  <2>2. /\ dest'[f] = d /\ d \notin DOMAIN disk
        /\ d.place = Wanted(f).place /\ d.folder = Wanted(f).folder /\ d.ext = Wanted(f).ext
    BY <1>0, <2>1, ChosenName
  <2>3. TypeOK /\ (pc[f] = "heal" => Has(target[f], f))
    BY <1>0 DEF Inv, Carried
  <2>. HIDE DEF d
  <2>4. CASE pc[f] = "heal"
    <3>1. d.place = target[f].place /\ d.folder = target[f].folder /\ d.ext = Format[f]
      BY <2>2, <2>3, <2>4, WantedPath
    <3>. QED  BY <2>1, <2>2, <2>4, <3>1 DEF Chosen
  <2>5. CASE pc[f] = "move"
    <3>1. ResultPlace(f, d)
      BY <2>1, <2>2, <2>3, <2>5, WantedPath DEF ResultPlace
    <3>. QED  BY <2>1, <2>2, <2>5, <3>1 DEF Chosen
  <2>6. CASE pc[f] = "fail"
    <3>1. d.place = "Errors"
      BY <2>2, <2>3, <2>6, WantedPath
    <3>. QED  BY <2>1, <2>2, <2>6, <3>1 DEF Chosen
  <2>. QED  BY <2>1, <2>4, <2>5, <2>6
<1>2. CASE BeginCopy(f)
  <2>1. /\ dest' = dest
        /\ \/ pc[f] = "moving" /\ pc'[f] = "copying"
           \/ pc[f] = "failing" /\ pc'[f] = "copying error"
    BY <1>0, <1>2 DEF BeginCopy, Goto
  <2>. QED  BY <1>0, <1>2, <2>1, MovedDisk DEF Chosen
<1>3. CASE Store(f)
  BY <1>0, <1>3 DEF Store, Chosen
<1>4. CASE Stage(f) \/ Inspect(f) \/ Heal(f) \/ WriteMetadata(f) \/ LeaveMetadata(f)
  <2>1. pc'[f] \notin Holding
    BY <1>0, <1>4 DEF Stage, Inspect, Heal, WriteMetadata, LeaveMetadata, Goto, Holding
  <2>. QED  BY <2>1 DEF Chosen, Holding
<1>5. CASE StayInPlace(f) \/ MoveFile(f) \/ EndCopy(f) \/ MoveFails(f) \/ Check(f) \/ Report(f)
  <2>1. pc'[f] \notin Holding
    BY <1>0, <1>5 DEF StayInPlace, MoveFile, EndCopy, MoveFails, Arrived, Check, Report, Goto, Holding
  <2>. QED  BY <2>1 DEF Chosen, Holding
<1>. QED  BY <1>1, <1>2, <1>3, <1>4, <1>5 DEF Advance

(* A result that is there is not in the way of anything. *)
LEMMA DeliveredStays ==
    ASSUME Inv, NEW f \in Files, Advance(f), ~InPlace(f), Delivered(f)
    PROVE  Delivered(f)'
<1>1. PICK p \in DOMAIN disk : ResultPlace(f, p) /\ disk[p] = Picture(f)
  BY DEF Delivered
<1>2. p.place \in {"Completed", "Unmatched"}
  BY <1>1 DEF ResultPlace
<1>3. pc[f] = "healing" => target[f].place = "Staging"
  BY OwnFile DEF Carried, Holding
<1>4. Same(p) \/ StagedBy(f, p) \/ HealedAway(f, p) \/ Filled(f, p)
  BY DiskSteps DEF DiskChange
<1>5. Same(p)
  BY <1>1, <1>2, <1>3, <1>4, Contents DEF StagedBy, HealedAway, Filled
<1>. QED  BY <1>1, <1>5 DEF Delivered, Same

LEMMA StepResult ==
    ASSUME Inv, NEW f \in Files, Advance(f)
    PROVE  Result(f)'
<1>0. /\ Carried(f) /\ Chosen(f) /\ Result(f)
      /\ pc \in [Files -> Steps] /\ target \in [Files -> Path] /\ dest \in [Files -> Path]
      /\ row \in [Files -> {"Open"} \cup Outcomes] /\ outcome \in [Files -> Outcomes]
  BY OwnFile
<1>. DEFINE AtCheck == pc'[f] = "check" => IF InPlace(f) THEN dest'[f] = target'[f]
                                           ELSE ResultPlace(f, dest'[f]) /\ HasThen(dest'[f], f)
            Claims  == row[f] = "Completed" \/ (pc[f] \in {"report", "reported"} /\ outcome[f] = "Completed")
            ClaimsThen == row'[f] = "Completed" \/ (pc'[f] \in {"report", "reported"} /\ outcome'[f] = "Completed")
            Delivery == ~InPlace(f) /\ ClaimsThen => Claims \/ Delivered(f)'
<1>a. ASSUME AtCheck, Delivery PROVE Result(f)'
  <2>1. ~InPlace(f) /\ Claims => Delivered(f)'
    BY <1>0, DeliveredStays DEF Result
  <2>. QED  BY <1>a, <2>1 DEF Result, Has, HasThen
<1>1. CASE Choose(f) \/ Stage(f) \/ Inspect(f) \/ Heal(f) \/ WriteMetadata(f) \/ BeginCopy(f)
  <2>1. pc'[f] \notin {"check", "report", "reported"} /\ row' = row
    BY <1>0, <1>1 DEF Choose, Begin, Stage, Inspect, Heal, WriteMetadata, BeginCopy, Goto
  <2>. QED  BY <2>1, <1>a
<1>2. CASE LeaveMetadata(f)
  <2>1. row' = row /\ (pc'[f] = "move" \/ (pc'[f] = "reported" /\ outcome'[f] = "Skipped"))
    BY <1>0, <1>2 DEF LeaveMetadata, Goto
  <2>. QED  BY <2>1, <1>a
<1>3. CASE StayInPlace(f)
  <2>1. InPlace(f) /\ target'[f] = target[f] /\ dest'[f] = target[f]
    BY <1>0, <1>3 DEF StayInPlace, StaysInPlace
  <2>. QED  BY <2>1, <1>a
<1>4. CASE MoveFile(f) \/ EndCopy(f)
  <2>1. /\ row' = row /\ dest' = dest
        /\ \/ pc[f] \in {"moving", "copying"} /\ pc'[f] = "check"
           \/ pc'[f] = "report" /\ outcome'[f] = "Error"
    BY <1>0, <1>4 DEF MoveFile, EndCopy, Arrived, Goto
  <2>2. pc[f] \in {"moving", "copying"} => ResultPlace(f, dest[f]) /\ ~InPlace(f)
    BY <1>0, OwnFile DEF Chosen
  <2>3. HasThen(dest[f], f)
    BY <1>4, MovedDisk
  <2>. QED  BY <2>1, <2>2, <2>3, <1>a
<1>5. CASE MoveFails(f)
  <2>1. row' = row /\ (pc'[f] = "fail" \/ (pc'[f] = "report" /\ outcome'[f] = "Error"))
    BY <1>0, <1>5 DEF MoveFails, Goto
  <2>. QED  BY <2>1, <1>a
<1>6. CASE Check(f)
  <2>1. pc[f] = "check" /\ pc'[f] \in {"report", "fail"} /\ disk' = disk /\ dest' = dest /\ row' = row
    BY <1>0, <1>6 DEF Check, Goto
  <2>2. ~InPlace(f) => ResultPlace(f, dest[f]) /\ Has(dest[f], f)
    BY <2>1, <1>0 DEF Result
  <2>3. ~InPlace(f) => Delivered(f)'
    BY <2>1, <2>2 DEF Delivered, Has
  <2>. QED  BY <2>1, <2>3, <1>a
<1>7. CASE Report(f)
  <2>1. pc[f] = "report" /\ pc'[f] = "reported" /\ row' = row /\ outcome' = outcome
    BY <1>0, <1>7 DEF Report, Goto
  <2>. QED  BY <2>1, <1>a
<1>8. CASE Store(f)
  <2>1. pc[f] = "reported" /\ pc' = pc /\ outcome' = outcome /\ row'[f] = outcome[f]
    BY <1>0, <1>8 DEF Store
  <2>. QED  BY <2>1, <1>a
<1>. QED  BY <1>1, <1>2, <1>3, <1>4, <1>5, <1>6, <1>7, <1>8 DEF Advance

LEMMA StepUnbroken ==
    ASSUME Inv, NEW f \in Files, Advance(f)
    PROVE  Unbroken(f)'
<1>0. /\ Unbroken(f) /\ session' = session
      /\ pc \in [Files -> Steps] /\ target \in [Files -> Path] /\ dest \in [Files -> Path]
  BY OwnFile, SameSession
<1>. SUFFICES ASSUME InPlace(f), session = 1
              PROVE  HasThen(IF pc'[f] = "idle" THEN Source(f) ELSE target'[f], f)
  BY <1>0 DEF Unbroken, Has, HasThen
<1>1. CASE Stage(f)
  <2>1. pc[f] = "idle" /\ pc'[f] # "idle" /\ target'[f] = Source(f) /\ disk' = disk
    BY <1>0, <1>1 DEF Stage, Goto
  <2>. QED  BY <1>0, <2>1 DEF Unbroken, Has, HasThen
<1>2. CASE Heal(f)
  <2>1. pc[f] # "idle" /\ pc'[f] # "idle"
    BY <1>0, <1>2 DEF Heal, Goto
  <2>2. Has(target[f], f)
    BY <1>0, <2>1 DEF Unbroken
  <2>3. HasThen(target'[f], f)
    BY <1>2, <2>2, MovedDisk DEF Has, HasThen
  <2>. QED  BY <2>1, <2>3
<1>3. CASE MoveFile(f) \/ BeginCopy(f) \/ EndCopy(f) \/ MoveFails(f)
  <2>1. pc[f] \in {"moving", "copying", "failing", "copying error"}
    BY <1>3 DEF MoveFile, BeginCopy, EndCopy, MoveFails, Holding
  <2>. QED  BY <2>1, OwnFile
<1>4. CASE Choose(f) \/ Inspect(f) \/ WriteMetadata(f) \/ LeaveMetadata(f) \/ StayInPlace(f)
           \/ Check(f) \/ Report(f) \/ Store(f)
  <2>1. disk' = disk
    BY <1>4 DEF Choose, Begin, Inspect, WriteMetadata, LeaveMetadata, StayInPlace, Check, Report, Store, InPlace
  <2>2. target' = target /\ (pc[f] = "idle" <=> pc'[f] = "idle")
    <3>1. CASE Choose(f) \/ Inspect(f) \/ WriteMetadata(f) \/ LeaveMetadata(f)
      BY <1>0, <3>1 DEF Choose, Begin, Inspect, WriteMetadata, LeaveMetadata, Goto
    <3>2. CASE StayInPlace(f) \/ Check(f) \/ Report(f) \/ Store(f)
      BY <1>0, <3>2 DEF StayInPlace, StaysInPlace, Check, Report, Store, Goto
    <3>. QED  BY <1>4, <3>1, <3>2
  <2>. QED  BY <1>0, <2>1, <2>2 DEF Unbroken, Has, HasThen
<1>. QED  BY <1>1, <1>2, <1>3, <1>4 DEF Advance

LEMMA StepMetadata ==
    ASSUME Inv, NEW f \in Files, Advance(f)
    PROVE  MetadataIsOwn'
<1>0. /\ MetadataIsOwn /\ session' = session /\ session \in Nat /\ session # 0
  BY SameSession DEF Inv, TypeOK
<1>1. CASE touched' = touched
  BY <1>0, <1>1 DEF MetadataIsOwn
<1>2. CASE WriteMetadata(f) /\ touched' # touched
  <2>1. touched' = touched \cup {<<f, disk[target[f]].of>>} /\ pc[f] = "write"
    BY <1>2 DEF WriteMetadata
  <2>2. InPlace(f) /\ session = 1 => Has(target[f], f)
    BY <2>1, OwnFile DEF Unbroken
  <2>3. ~InPlace(f) => Has(target[f], f)
    BY <2>1, OwnFile DEF Carried
  <2>4. disk[target[f]].of = f \/ (InPlace(f) /\ session > 1)
    BY <1>0, <2>2, <2>3, Contents DEF Has
  <2>. QED  BY <1>0, <2>1, <2>4 DEF MetadataIsOwn
<1>3. CASE Check(f) /\ touched' # touched
  <2>1. touched' = touched \cup {<<f, disk[dest[f]].of>>} /\ pc[f] = "check"
    BY <1>3 DEF Check
  <2>2. InPlace(f) /\ session = 1 => Has(dest[f], f)
    BY <2>1, OwnFile DEF Unbroken, Result
  <2>3. ~InPlace(f) => Has(dest[f], f)
    BY <2>1, OwnFile DEF Result
  <2>4. disk[dest[f]].of = f \/ (InPlace(f) /\ session > 1)
    BY <1>0, <2>2, <2>3, Contents DEF Has
  <2>. QED  BY <1>0, <2>1, <2>4 DEF MetadataIsOwn
<1>4. CASE ~WriteMetadata(f) /\ ~Check(f)
  <2>1. touched' = touched
    BY <1>4 DEF Advance, Choose, Begin, Stage, Inspect, Heal, LeaveMetadata, StayInPlace, MoveFile,
         BeginCopy, EndCopy, MoveFails, Report, Store
  <2>. QED  BY <2>1, <1>1
<1>. QED  BY <1>1, <1>2, <1>3, <1>4

-----------------------------------------------------------------------------
(* The invariant holds.                                                     *)

LEMMA StepInv ==
    ASSUME Inv, NEW f \in Files, Advance(f)
    PROVE  Inv'
<1>1. TypeOK' /\ Mutex' /\ Dated' /\ Inputs' /\ OriginalsSurvive' /\ MetadataIsOwn'
  BY StepTypes, StepMutex, StepDated, StepInputs, StepOriginals, StepMetadata
<1>2. session' # 0
  BY SameSession DEF Inv
<1>3. ASSUME NEW g \in Files PROVE (Carried(g) /\ Chosen(g) /\ Result(g) /\ Unbroken(g))'
  <2>1. CASE g = f
    BY <2>1, StepCarried, StepChosen, StepResult, StepUnbroken
  <2>2. CASE g # f
    BY <2>2, StepOthers
  <2>. QED  BY <2>1, <2>2
<1>. QED  BY <1>1, <1>2, <1>3 DEF Inv

(* The start of another process: only what was staged is gone. *)
LEMMA RestartInv ==
    ASSUME Inv, Restart
    PROVE  Inv'
<1>0. /\ DOMAIN disk \subseteq Path /\ disk \in [DOMAIN disk -> Content] /\ row \in [Files -> {"Open"} \cup Outcomes]
      /\ now \in Nat /\ touched \subseteq Files \X (Files \cup {Stranger})
      /\ session \in Nat /\ session # 0 /\ Dated /\ Inputs /\ OriginalsSurvive /\ MetadataIsOwn
      /\ Real \subseteq Files
  BY OutputsAssumption DEF Inv, TypeOK
<1>1. /\ session' = session + 1 /\ row' = row /\ now' = now /\ touched' = touched /\ holder' = Nobody
      /\ \A f \in Files : pc'[f] = "idle" /\ target'[f] = Staging(f) /\ dest'[f] = Staging(f)
  BY DEF Restart
<1>2. /\ DOMAIN disk' \subseteq DOMAIN disk
      /\ \A p \in DOMAIN disk' : disk'[p] = disk[p]
      /\ \A p \in DOMAIN disk : p.place # "Staging" => p \in DOMAIN disk'
  <2>1. CASE disk' = disk
    BY <2>1
  <2>2. CASE disk' = Without(disk, {p \in DOMAIN disk : p.place = "Staging"})
    BY <2>2 DEF Without
  <2>. QED  BY <2>1, <2>2 DEF Restart
<1>3. TypeOK'
  <2>1. DOMAIN disk' \subseteq Path /\ disk' \in [DOMAIN disk' -> Content]
    <3>1. disk' = disk \/ disk' = Without(disk, {p \in DOMAIN disk : p.place = "Staging"})
      BY DEF Restart
    <3>. QED  BY <3>1, <1>0, DiskType
  <2>2. /\ target' \in [Files -> Path] /\ dest' \in [Files -> Path] /\ pc' \in [Files -> Steps]
        /\ outcome' \in [Files -> Outcomes]
    BY RowPaths DEF Restart, Steps, Outcomes
  <2>3. \A f \in Files : target'[f].place = "Staging" /\ target'[f].folder = f
    BY <1>1, RowPaths
  <2>. QED  BY <1>0, <1>1, <2>1, <2>2, <2>3 DEF TypeOK
<1>4. Mutex'
  BY <1>1 DEF Mutex, Holding
<1>5. Dated'
  <2>1. \A p \in DOMAIN disk' : Old(p)
    BY <1>0, <1>2 DEF Dated
  <2>2. \A f \in Files : Old(target'[f]) /\ Old(dest'[f])
    BY <1>1, RowPaths
  <2>. QED  BY <1>1, <2>1, <2>2 DEF Dated, Old
<1>6. Inputs'
  BY <1>0, <1>2 DEF Inputs
<1>7. OriginalsSurvive'
  <2>. SUFFICES ASSUME NEW f \in Real
                PROVE  \E p \in DOMAIN disk' :
                           /\ p.folder = Home[f] /\ (InPlaceMode \/ p = Source(f))
                           /\ disk'[p] = Picture(f)
                           /\ \A q \in DOMAIN disk' : q.place = "Input" /\ disk'[q].of = f <=> q = p
    BY DEF OriginalsSurvive
  <2>1. PICK p \in DOMAIN disk :
           /\ p.folder = Home[f] /\ (InPlaceMode \/ p = Source(f))
           /\ disk[p] = Picture(f)
           /\ \A q \in DOMAIN disk : q.place = "Input" /\ disk[q].of = f <=> q = p
    BY <1>0 DEF OriginalsSurvive
  <2>2. p.place = "Input" /\ p \in DOMAIN disk'
    BY <2>1, <1>2
  <2>. QED  BY <2>1, <2>2, <1>2
<1>8. MetadataIsOwn'
  BY <1>0, <1>1 DEF MetadataIsOwn
<1>9. ASSUME NEW f \in Files PROVE (Carried(f) /\ Chosen(f) /\ Result(f) /\ Unbroken(f))'
  <2>1. Carried(f)' /\ Chosen(f)'
    BY <1>1 DEF Carried, Chosen, Holding
  <2>2. Unbroken(f)'
    BY <1>0, <1>1 DEF Unbroken
  <2>3. Delivered(f) => Delivered(f)'
    BY <1>2 DEF Delivered, ResultPlace
  <2>4. ~InPlace(f) /\ row[f] = "Completed" => Delivered(f)
    BY DEF Inv, Result
  <2>5. Result(f)'
    BY <1>1, <2>3, <2>4 DEF Result
  <2>. QED  BY <2>1, <2>2, <2>5
<1>. QED  BY <1>0, <1>1, <1>3, <1>4, <1>5, <1>6, <1>7, <1>8, <1>9 DEF Inv

LEMMA InitialInv == Init => Inv
<1>. SUFFICES ASSUME Init PROVE Inv
  OBVIOUS
<1>0. TypeOK /\ Real \subseteq Files
  BY InitialTypes, OutputsAssumption
<1>1. /\ row = [f \in Files |-> "Open"] /\ pc = [f \in Files |-> "idle"]
      /\ target = [f \in Files |-> Staging(f)] /\ dest = target
      /\ now = 0 /\ touched = {} /\ session = 1
  BY DEF Init
<1>2. /\ \A p \in DOMAIN disk : (\E f \in Real : p = Source(f)) \/ (p \in Earlier /\ p.place # "Input" /\ Old(p))
      /\ \A f \in Real : Source(f) \in DOMAIN disk /\ disk[Source(f)] = Picture(f)
  BY InitialDisk
<1>3. Dated
  BY <1>0, <1>1, <1>2, RowPaths DEF Dated
<1>4. Inputs
  BY <1>0, <1>2, RowPaths DEF Inputs
<1>5. OriginalsSurvive
  <2>. SUFFICES ASSUME NEW f \in Real
                PROVE  /\ Source(f) \in DOMAIN disk /\ Source(f).folder = Home[f] /\ disk[Source(f)] = Picture(f)
                       /\ \A q \in DOMAIN disk : q.place = "Input" /\ disk[q].of = f <=> q = Source(f)
    BY DEF OriginalsSurvive
  <2>1. \A q \in DOMAIN disk : q.place = "Input" => \E g \in Real : q = Source(g) /\ disk[q] = Picture(g)
    BY <1>2
  <2>. QED  BY <1>0, <1>2, <2>1, RowPaths, Contents
<1>6. \A f \in Files : Carried(f) /\ Chosen(f) /\ Result(f) /\ Unbroken(f)
  <2>. TAKE f \in Files
  <2>1. Carried(f) /\ Chosen(f) /\ Result(f)
    BY <1>1 DEF Carried, Chosen, Result, Holding
  <2>2. Unbroken(f)
    BY <1>1, <1>2 DEF Unbroken, InPlace, Has
  <2>. QED  BY <2>1, <2>2
<1>7. Mutex /\ MetadataIsOwn /\ session # 0
  BY <1>1 DEF Mutex, Holding, MetadataIsOwn
<1>. QED  BY <1>0, <1>3, <1>4, <1>5, <1>6, <1>7 DEF Inv

LEMMA Invariance == Spec => []Inv
<1>1. Inv /\ [Next]_vars => Inv'
  <2>. SUFFICES ASSUME Inv, [Next]_vars PROVE Inv'
    OBVIOUS
  <2>1. CASE Restart
    BY <2>1, RestartInv
  <2>2. CASE \E f \in Files : Advance(f)
    BY <2>2, StepInv
  <2>3. CASE UNCHANGED vars
    <3>1. /\ disk' = disk /\ row' = row /\ pc' = pc /\ target' = target /\ dest' = dest /\ holder' = holder
          /\ outcome' = outcome /\ now' = now /\ touched' = touched /\ session' = session
      BY <2>3 DEF vars
    <3>2. TypeOK' /\ Mutex' /\ Dated' /\ Inputs' /\ OriginalsSurvive' /\ MetadataIsOwn' /\ session' # 0
      BY <3>1 DEF Inv, TypeOK, Mutex, Dated, Old, Inputs, OriginalsSurvive, MetadataIsOwn
    <3>3. ASSUME NEW f \in Files PROVE (Carried(f) /\ Chosen(f) /\ Result(f) /\ Unbroken(f))'
      <4>1. Carried(f) /\ Chosen(f) /\ Result(f) /\ Unbroken(f)
        BY DEF Inv
      <4>2. Carried(f)' /\ Chosen(f)'
        BY <3>1, <4>1 DEF Carried, Chosen, Has
      <4>3. Result(f)' /\ Unbroken(f)'
        BY <3>1, <4>1 DEF Result, Delivered, Unbroken, Has
      <4>. QED  BY <4>2, <4>3
    <3>. QED  BY <3>2, <3>3 DEF Inv
  <2>. QED  BY <2>1, <2>2, <2>3 DEF Next
<1>. QED  BY InitialInv, <1>1, PTL DEF Spec
-----------------------------------------------------------------------------
(* The theorems.                                                            *)

(* Types; what a consumer works on is an original or in its own directory. *)
THEOREM OutputTypes == Spec => []TypeOK
<1>1. Inv => TypeOK
  BY DEF Inv
<1>. QED  BY <1>1, Invariance, PTL

(* resolve_collision and the mutex: no step of any consumer, and no crash,  *)
(* replaces a file outside of the staging directories.                      *)
THEOREM OutputsKept == Spec => NothingOverwritten
<1>1. ASSUME Inv, NEW f \in Files, Advance(f), NEW p \in DOMAIN disk
      PROVE  p.place = "Staging" \/ Kept(p) \/ Renamed(p)
  <2>1. Same(p) \/ StagedBy(f, p) \/ HealedAway(f, p) \/ Filled(f, p)
    BY <1>1, DiskSteps DEF DiskChange
  <2>2. CASE Same(p)
    BY <2>2 DEF Same, Kept
  <2>3. CASE StagedBy(f, p)
    BY <2>3 DEF StagedBy
  <2>4. CASE HealedAway(f, p)
    <3>1. p.place \in {"Input", "Staging"}
      BY <1>1, <2>4 DEF HealedAway, Inv, TypeOK
    <3>. QED  BY <2>4, <3>1 DEF HealedAway, Renamed
  <2>5. CASE Filled(f, p)
    BY <1>1, <2>5, Contents DEF Filled, Kept
  <2>. QED  BY <2>1, <2>2, <2>3, <2>4, <2>5
<1>2. ASSUME Restart, NEW p \in DOMAIN disk PROVE p.place = "Staging" \/ Kept(p)
  <2>1. disk' = disk \/ disk' = Without(disk, {q \in DOMAIN disk : q.place = "Staging"})
    BY <1>2 DEF Restart
  <2>. QED  BY <2>1 DEF Without, Kept
<1>3. Inv /\ [Next]_vars => [\A p \in DOMAIN disk : p.place = "Staging" \/ Kept(p) \/ Renamed(p)]_vars
  BY <1>1, <1>2 DEF Next
<1>. QED  BY <1>3, Invariance, PTL DEF Spec, NothingOverwritten

(* The picture of a real file is in its directory, complete and once,      *)
(* whatever auto-heal renames and whenever the process dies.               *)
THEOREM OriginalsKept == Spec => []OriginalsSurvive
<1>1. Inv => OriginalsSurvive
  BY DEF Inv
<1>. QED  BY <1>1, Invariance, PTL

(* What the database calls completed is there and complete. *)
THEOREM CompletedThere == Spec => []CompletedHasPicture
<1>1. Inv => CompletedHasPicture
  <2>. SUFFICES ASSUME Inv, NEW f \in Files, row[f] = "Completed"
                PROVE  \E p \in DOMAIN disk : ResultPlace(f, p) /\ disk[p] = Picture(f)
    BY DEF CompletedHasPicture
  <2>1. CASE InPlace(f)
    <3>1. PICK p \in DOMAIN disk :
             /\ p.folder = Home[f] /\ disk[p] = Picture(f)
             /\ \A q \in DOMAIN disk : q.place = "Input" /\ disk[q].of = f <=> q = p
      BY <2>1 DEF Inv, OriginalsSurvive, InPlace
    <3>. QED  BY <2>1, <3>1 DEF ResultPlace
  <2>2. CASE ~InPlace(f)
    BY <2>2 DEF Inv, Result, Delivered
  <2>. QED  BY <2>1, <2>2
<1>. QED  BY <1>1, Invariance, PTL

(* exiftool and the timestamps reach the picture whose sidecar is applied, *)
(* in copy mode always and in place until the process dies.                *)
THEOREM MetadataOwn == Spec => []MetadataIsOwn
<1>1. Inv => MetadataIsOwn
  BY DEF Inv
<1>. QED  BY <1>1, Invariance, PTL
=============================================================================
