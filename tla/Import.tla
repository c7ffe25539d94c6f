------------------------------- MODULE Import -------------------------------
(***************************************************************************)
(* From the inputs to matched rows: the scan of directories and archives   *)
(* (crates/core/src/scanner.rs), the inserts into the run's database       *)
(* (state_db.rs), and the matching phase (Processor::run_matching_phase)   *)
(* that gives each row the sidecar that Matcher finds.  A run can be       *)
(* cancelled, can fail or die anywhere, and is resumed on the inputs that  *)
(* are selected then; the rows survive, everything else is forgotten.      *)
(***************************************************************************)
EXTENDS Matcher

CONSTANTS
    Inputs,       \* the directories and archives that can be selected
    Zips,         \* the archives among them
    Trees,        \* the contents of all inputs that are looked at, each a set of entries
    BatchCap,     \* rows collected before an insert (5000)
    MatchCap,     \* rows matched in one transaction (5000)
    MaxSessions   \* bound on the sessions of the run

ASSUME ImportAssumption ==
    /\ Zips \subseteq Inputs
    /\ \A t \in Trees : \A e \in t : e.name \in Seq(STRING)
    /\ BatchCap \in Nat \ {0} /\ MatchCap \in Nat \ {0} /\ MaxSessions \in Nat

VARIABLES
    tree,       \* what the inputs hold
    media,      \* media_files: an entry and its match, in the order of the ids
    sidecars,   \* json_files: entries in the order of the ids
    at,         \* where the pipeline thread is
    left,       \* entries of the selected inputs that the walk has not reached
    input,      \* the input it is in
    mediaBatch, \* rows collected, not yet inserted
    jsonBatch,
    missed,     \* has this session left an entry out?
    partial,    \* did any matching start without an entry?
    cancel,     \* the cancel token
    index,      \* the matcher's index of each folder
    order,      \* the order in which it iterates over the folder's sidecars
    lastId,     \* the last id of the previous batch
    sessions    \* sessions started

walk    == <<left, input, mediaBatch, jsonBatch, missed>>
matcher == <<index, order, lastId>>
vars    == <<tree, media, sidecars, at, walk, partial, cancel, matcher, sessions>>

Pending == [json |-> <<>>, tier |-> -1, confidence |-> 0]
Folder(e) == <<e.input, e.folder>>
Folders   == {Folder(e) : e \in tree}

(* What the scanner takes an entry for.  Content is looked at outside of    *)
(* archives only, and only when the extension says nothing.                 *)
Supported == {<<".heic">>, <<".jpg">>, <<".jpeg">>, <<".png">>, <<".mov">>, <<".mp4">>}
IsJson(e)  == Lower(ExtensionOf(e.name)) = JSON
IsMedia(e) == \/ Lower(ExtensionOf(e.name)) \in Supported
              \/ ~IsJson(e) /\ e.input \notin Zips /\ e.magic
(* An entry of an archive whose path has two dots in a row is skipped, as a  *)
(* "traversal attempt": no row, no warning, no error.  The folder           *)
(* "Trip to..." and the picture "img..jpg" have such a path.                *)
Skipped(e) == e.input \in Zips /\ e.dots
AsMedia(e) == IsMedia(e) /\ ~Skipped(e)
AsJson(e)  == IsJson(e) /\ ~Skipped(e)
(* MediaFile::extension; the matcher prefers the extension of the name. *)
ExtOf(e)   == IF ExtensionOf(e.name) = <<>> THEN <<".jpg">> ELSE ExtensionOf(e.name)

TypeOK ==
    /\ \A i \in DOMAIN media :
          media[i].entry \in tree /\ media[i].match.tier \in -1..7 /\ media[i].match.confidence \in 0..100
    /\ ToSet(sidecars) \cup ToSet(mediaBatch) \cup ToSet(jsonBatch) \cup left \subseteq tree
    /\ Len(mediaBatch) < BatchCap /\ Len(jsonBatch) < BatchCap
    /\ at \in {"closed", "scan", "scanned", "match", "matched"}
    /\ input \in Inputs \cup {"none"}
    /\ missed \in BOOLEAN /\ partial \in BOOLEAN /\ cancel \in BOOLEAN
    /\ \A f \in DOMAIN index : index[f].names = ToSet(order[f])
    /\ lastId \in 0..Len(media) /\ sessions \in 0..MaxSessions

Init ==
    /\ tree \in Trees
    /\ media = <<>> /\ sidecars = <<>> /\ at = "closed"
    /\ left = {} /\ input = "none" /\ mediaBatch = <<>> /\ jsonBatch = <<>> /\ missed = FALSE
    /\ partial = FALSE /\ cancel = FALSE /\ index = <<>> /\ order = <<>> /\ lastId = 0
    /\ sessions = 0

-----------------------------------------------------------------------------
(* The database.                                                            *)

(* An INSERT OR REPLACE (a deviation, not the code). *)
InsertMediaAnew(rows, batch) ==
    LET old == SelectSeq(rows, LAMBDA r : r.entry \notin ToSet(batch))
    IN  old \o [i \in DOMAIN batch |-> [entry |-> batch[i], match |-> Pending]]

(* insert_media_batch and insert_json_batch: INSERT OR IGNORE. *)
InsertMedia(rows, batch) ==
    LET new == Picked(batch, {k \in DOMAIN batch : \A i \in DOMAIN rows : rows[i].entry # batch[k]})
    IN  rows \o [i \in DOMAIN new |-> [entry |-> new[i], match |-> Pending]]
InsertJson(rows, batch) ==
    rows \o Picked(batch, {k \in DOMAIN batch : \A i \in DOMAIN rows : rows[i] # batch[k]})

(* Skipping the rows of the earlier batches by their number (a deviation, not the code). *)
NextBatchOffset(rows, last) ==
    LET ids == {i \in DOMAIN rows : rows[i].match = Pending}
    IN  {i \in ids : Cardinality({j \in ids : j <= i}) \in (last + 1)..(last + MatchCap)}

(* load_pending_media_batch: keyset pagination. *)
NextBatch(rows, last) ==
    LET ids == {i \in DOMAIN rows : rows[i].match = Pending /\ i > last}
    IN  {i \in ids : Cardinality({j \in ids : j <= i}) <= MatchCap}

-----------------------------------------------------------------------------
(* The scan.                                                                *)

Forgotten ==
    /\ left' = {} /\ input' = "none" /\ mediaBatch' = <<>> /\ jsonBatch' = <<>> /\ missed' = FALSE
    /\ index' = <<>> /\ order' = <<>> /\ lastId' = 0

(* A start, or a resume with the inputs that are selected by then. *)
Open(selected) ==
    /\ at = "closed" /\ sessions < MaxSessions
    /\ at' = "scan" /\ sessions' = sessions + 1 /\ cancel' = FALSE
    /\ left' = {e \in tree : e.input \in selected}
    /\ missed' = (left' # tree)
    /\ UNCHANGED <<tree, media, sidecars, input, mediaBatch, jsonBatch, partial, matcher>>

(* The walk ends one input before it begins the next; the order in one is open. *)
Reached(e) == e \in left /\ (e.input = input \/ \A d \in left : d.input # input)

(* An entry of a directory that cannot be read: a warning.  A file of an    *)
(* unknown extension whose first bytes cannot be read is left out silently. *)
Unreadable(e) ==
    /\ at = "scan" /\ ~cancel /\ Reached(e) /\ e.input \notin Zips
    /\ left' = left \ {e} /\ input' = e.input /\ missed' = TRUE
    /\ UNCHANGED <<tree, media, sidecars, at, mediaBatch, jsonBatch, partial, cancel, matcher, sessions>>

(* Inserting a batch when it has outgrown its size (a deviation, not the code). *)
FullBeyond(batch) == Len(batch) > BatchCap

Full(batch) == Len(batch) >= BatchCap

(* A full batch is inserted at once. *)
ScanEntry(e) ==
    LET m == IF AsMedia(e) THEN Append(mediaBatch, e) ELSE mediaBatch
        j == IF AsJson(e) THEN Append(jsonBatch, e) ELSE jsonBatch
    IN  /\ at = "scan" /\ ~cancel /\ Reached(e)
        /\ left' = left \ {e} /\ input' = e.input
        /\ IF Full(m) THEN media' = InsertMedia(media, m) /\ mediaBatch' = <<>>
                                 ELSE media' = media /\ mediaBatch' = m
        /\ IF Full(j) THEN sidecars' = InsertJson(sidecars, j) /\ jsonBatch' = <<>>
                                 ELSE sidecars' = sidecars /\ jsonBatch' = j
        /\ UNCHANGED <<tree, at, missed, partial, cancel, matcher, sessions>>

(* The walk is over or cancelled; what was collected is inserted. *)
ScanEnd ==
    /\ at = "scan" /\ (left = {} \/ cancel) /\ at' = "scanned"
    /\ media' = InsertMedia(media, mediaBatch) /\ mediaBatch' = <<>>
    /\ sidecars' = InsertJson(sidecars, jsonBatch) /\ jsonBatch' = <<>>
    /\ missed' = (missed \/ left # {})
    /\ UNCHANGED <<tree, left, input, partial, cancel, matcher, sessions>>

-----------------------------------------------------------------------------
(* The matching phase.                                                      *)

(* The names of a folder's sidecars, in the order of their ids. *)
NamesIn(f) ==
    LET own == Picked(sidecars, {i \in DOMAIN sidecars : Folder(sidecars[i]) = f})
    IN  [i \in DOMAIN own |-> own[i].name]

StopCancelled ==
    /\ at = "scanned" /\ cancel /\ at' = "closed" /\ Forgotten
    /\ UNCHANGED <<tree, media, sidecars, partial, cancel, sessions>>

LoadSidecars ==
    /\ at = "scanned" /\ ~cancel /\ at' = "match"
    /\ index' = [f \in Folders |-> IndexOf(NamesIn(f))]
    /\ order' \in [Folders -> UNION {SetToSeqs(ToSet(NamesIn(f))) : f \in Folders}]
    /\ \A f \in Folders : ToSet(order'[f]) = ToSet(NamesIn(f))
    /\ lastId' = 0 /\ partial' = (partial \/ missed)
    /\ UNCHANGED <<tree, media, sidecars, walk, cancel, sessions>>

Matched(e) == FindBestMatch(index[Folder(e)], order[Folder(e)], e.name, ExtOf(e))

(* One batch is matched, in parallel, and written in one transaction. *)
MatchBatch ==
    LET ids == NextBatch(media, lastId)
    IN  /\ at = "match" /\ ids # {}
        /\ media' = [i \in DOMAIN media |->
                        IF i \in ids THEN [media[i] EXCEPT !.match = Matched(media[i].entry)]
                        ELSE media[i]]
        /\ lastId' = Max(ids)
        /\ UNCHANGED <<tree, sidecars, at, walk, partial, cancel, index, order, sessions>>

MatchEnd ==
    /\ at = "match" /\ NextBatch(media, lastId) = {} /\ at' = "matched"
    /\ UNCHANGED <<tree, media, sidecars, walk, partial, cancel, matcher, sessions>>

-----------------------------------------------------------------------------
(* What comes from outside.                                                 *)

(* The run ends: an archive that cannot be read, an entry that looks like a *)
(* bomb, a statement that fails, the end of the process, or of the work.    *)
End ==
    /\ at # "closed" /\ at' = "closed" /\ Forgotten
    /\ UNCHANGED <<tree, media, sidecars, partial, cancel, sessions>>

(* Cancel, and the reset that takes it back while the run winds down. *)
Cancel(to) ==
    /\ at \in {"scan", "scanned"} /\ cancel # to /\ cancel' = to
    /\ UNCHANGED <<tree, media, sidecars, at, walk, partial, matcher, sessions>>

Next ==
    \/ \E selected \in SUBSET Inputs : Open(selected)
    \/ \E e \in left : Unreadable(e) \/ ScanEntry(e)
    \/ ScanEnd \/ StopCancelled \/ LoadSidecars \/ MatchBatch \/ MatchEnd
    \/ End
    \/ \E to \in BOOLEAN : Cancel(to)

Spec == Init /\ [][Next]_vars

-----------------------------------------------------------------------------
(* Properties.                                                              *)

(* When a session that left no entry unread has matched, every picture and  *)
(* video has exactly one row and every sidecar exactly one, however often   *)
(* the run was stopped and scanned again, and no row was left out of the    *)
(* batches.  Excepted are the entries of archives that the scan skips for   *)
(* two dots in their path: no session ever gives them a row, and none says  *)
(* so.                                                                      *)
ImportIsComplete ==
    at = "matched" /\ ~missed =>
        /\ \A e \in tree : IsMedia(e) =>
              Cardinality({i \in DOMAIN media : media[i].entry = e}) = IF Skipped(e) THEN 0 ELSE 1
        /\ \A e \in tree : IsJson(e) =>
              Cardinality({i \in DOMAIN sidecars : sidecars[i] = e}) = IF Skipped(e) THEN 0 ELSE 1
        /\ \A i \in DOMAIN media : media[i].match # Pending

(* The sidecars that the scan gives rows, in the folder of a picture. *)
SidecarsOf(e) == {d.name : d \in {d \in tree : AsJson(d) /\ Folder(d) = Folder(e)}}

(* No two sidecars of the folder differ in case only. *)
CaseDistinct(names) == \A n, m \in names : Lower(n) = Lower(m) => n = m

(* What a single pass over everything finds. *)
OnePass(e) ==
    LET names == SidecarsOf(e)
        folder == [names |-> names,
                   lower |-> [l \in {Lower(n) : n \in names} |-> CHOOSE n \in names : Lower(n) = l]]
    IN  FindBestMatch(folder, SetToSeq(names), e.name, ExtOf(e))

(* Matches are written in the matching phase only, so it is there that they  *)
(* are looked at.                                                           *)
Settled == {i \in DOMAIN media : media[i].match # Pending}

(* As long as no matching started without some entry, every match is the    *)
(* one of a single pass: neither the order of the walk or of a hash map nor *)
(* the batches nor the sessions show - unless two sidecars of the folder    *)
(* differ in case only, when the one that was found last answers for both.  *)
MatchesAreOnePass ==
    at = "match" /\ ~partial => \A i \in Settled :
        CaseDistinct(SidecarsOf(media[i].entry)) => media[i].match = OnePass(media[i].entry)

(* A file that has a sidecar of its own name gets it, whatever the sidecars *)
(* of its neighbours look like; and a file with a number for which there is *)
(* a sidecar of this number does not get that of another number.            *)
OwnSidecarWins ==
    at = "match" /\ ~partial => \A i \in Settled :
        LET e == media[i].entry
            own == e.name \o SM \o JSON
            old == e.name \o JSON
            stem == Stem(e.name)
            m == media[i].match
        IN  /\ own \in SidecarsOf(e) => m.json = own
            /\ old \in SidecarsOf(e) /\ Lower(own) \notin {Lower(n) : n \in SidecarsOf(e)} => m.json = old
            /\ m.tier = 3 /\ m.confidence = 100 /\ Front(stem) = Root(stem) =>
                 LET mine == Numbered(Root(stem), ExtOf(e), ValueOf(Last(stem)))
                 IN  (\E k \in DOMAIN mine : mine[k] \o JSON \in SidecarsOf(e)) =>
                     \E k \in DOMAIN mine : Lower(mine[k] \o JSON) = Lower(m.json)

(* A match that is called sure is of the same series of pictures; one that  *)
(* was guessed from a part of the name or from its likeness never is sure.  *)
SureIsSameSeries ==
    \A i \in Settled :
        media[i].match.confidence = 100 =>
            media[i].match.tier \in 1..5 /\ Series(media[i].match.json) = Series(media[i].entry.name)

(* A guess is the only one of its kind: no other sidecar of the folder is   *)
(* as near, none is named by the same beginning of the name.                *)
GuessesAreUnique ==
    at = "match" /\ ~partial => \A i \in Settled :
        LET e == media[i].entry
            m == media[i].match
            stem == Stem(e.name)
            others == SidecarsOf(e) \ {m.json}
            far(json) == Distance(Lower(stem), JsonStem(json))
            cuts == {c \in 0..Len(stem) : \E v \in ToSet(TruncatedNames(stem, ExtOf(e), c)) :
                                              Lower(v \o JSON) = Lower(m.json)}
        IN  /\ m.tier = 7 => \A json \in others : far(json) > far(m.json)
            /\ m.tier = 6 => \E c \in cuts : \A v \in ToSet(TruncatedNames(stem, ExtOf(e), c)) :
                                  v \o JSON \notin others

(* Scanning again or matching again never touches a row that has its match: *)
(* it may have been restored since.                                         *)
RowsAreKept ==
    [][\A i \in DOMAIN media :
          /\ i \in DOMAIN media' /\ media'[i].entry = media[i].entry
          /\ media[i].match # Pending => media'[i].match = media[i].match]_vars
=============================================================================
