----------------------------- MODULE FileStatus -----------------------------
(***************************************************************************)
(* The status of a media file (enum FileStatus of state_db.rs) and the     *)
(* statements that the database module runs on the rows of media_files.    *)
(***************************************************************************)
EXTENDS Integers, Sequences, FiniteSets

CONSTANTS
    Files,        \* the rows of media_files
    Confidences   \* the confidences that a match can carry

(* A fuzzy match at distance d carries 100 - 10 * d, the other tiers 90, 95 *)
(* or 100; with levenshtein_threshold below 10 none of them is 0.           *)
ASSUME ConfidencesAssumption == Confidences \subseteq 1..100

(* match_confidence is NULL for a file that was not matched. *)
Null == -1
Confidence == Confidences \cup {Null}

(* FileStatus::can_claim and FileStatus::is_terminal *)
Claimable == {"Matched", "MatchedLowConfidence", "Unmatched"}
Terminal  == {"Completed", "Error", "Skipped"}
Status    == {"Pending", "Processing"} \cup Claimable \cup Terminal

(* The status that match_batch derives from its candidate. *)
MatchStatus(c) ==
    CASE c = Null -> "Unmatched"
      [] c = 100  -> "Matched"
      [] OTHER    -> "MatchedLowConfidence"

(* Recovery that forgets the tier of a match (a deviation, not the code). *)
RecoveryStatusAnyTier(c) == IF c > 0 THEN "Matched" ELSE "Unmatched"

(* The CASE expression of recover_interrupted_processing. *)
RecoveryStatus(c) ==
    CASE c = 100             -> "Matched"
      [] c # 100 /\ c > 0    -> "MatchedLowConfidence"
      [] OTHER               -> "Unmatched"

(* recover_interrupted_processing: UPDATE ... WHERE status = Processing *)
Restored(st, conf) ==
    [f \in Files |-> IF st[f] = "Processing" THEN RecoveryStatus(conf[f]) ELSE st[f]]

(* Claiming without the status condition (a deviation, not the code). *)
ClaimedAnyStatus(st, S) ==
    [f \in Files |-> IF f \in S THEN "Processing" ELSE st[f]]

(* try_mark_batch_processing: UPDATE ... WHERE status IN (claimable) *)
Claimed(st, S) ==
    [f \in Files |-> IF f \in S /\ st[f] \in Claimable THEN "Processing" ELSE st[f]]

(* StatusUpdate::Completed, ::Error and ::Skipped, and RecoverableUpdate *)
Update == [file : Files, to : Terminal]

(* The elements of a sequence. *)
Held(seq) == {seq[i] : i \in DOMAIN seq}

Mentions(us, f) == \E i \in DOMAIN us : us[i].file = f

(* The index of the last update of f in us. *)
LastOf(us, f) ==
    CHOOSE i \in DOMAIN us : us[i].file = f /\ \A j \in DOMAIN us : us[j].file = f => j <= i

(* The rows after the updates us ran in order: the last one for a file decides. *)
Applied(st, us) ==
    [f \in Files |-> IF Mentions(us, f) THEN us[LastOf(us, f)].to ELSE st[f]]
=============================================================================
