---------------------------- MODULE StatusLedger ----------------------------
(***************************************************************************)
(* What the state database promises about the status of every media file,  *)
(* without saying how it keeps the promise: no channel, no batches, no     *)
(* retries.  A worker hands over the outcome of a file it claimed; from    *)
(* then on the outcome is in flight until it is stored in the file's row   *)
(* or parked in the recovery log.  Only a crash of the process may forget  *)
(* an outcome in flight, and closing the database cleanly never does.      *)
(* StateDb.tla is shown to implement this specification.                   *)
(***************************************************************************)
EXTENDS FileStatus

CONSTANT LogMayFail     \* may an append to the recovery log fail silently?

VARIABLES
    status,      \* status[f]: the status column of file f's row
    confidence,  \* confidence[f]: the match_confidence column
    live,        \* is a process holding the database open?
    inflight,    \* outcomes accepted from workers and not yet settled
    parked       \* outcomes in the recovery log

ledgerVars == <<status, confidence, live, inflight, parked>>

LedgerInit ==
    /\ status = [f \in Files |-> "Pending"]
    /\ confidence = [f \in Files |-> Null]
    /\ live = FALSE
    /\ inflight = {}
    /\ parked = {}

(* Opening hands every interrupted claim back. *)
Begin ==
    /\ ~live
    /\ live' = TRUE
    /\ status' = Restored(status, confidence)
    /\ UNCHANGED <<confidence, inflight, parked>>

(* A clean close leaves nothing in flight. *)
End ==
    /\ live
    /\ inflight = {}
    /\ live' = FALSE
    /\ UNCHANGED <<status, confidence, inflight, parked>>

Die ==
    /\ live
    /\ live' = FALSE
    /\ inflight' = {}
    /\ UNCHANGED <<status, confidence, parked>>

Match(m) ==
    /\ live
    /\ status' = [f \in Files |-> IF status[f] = "Pending" THEN MatchStatus(m[f]) ELSE status[f]]
    /\ confidence' = [f \in Files |-> IF status[f] = "Pending" THEN m[f] ELSE confidence[f]]
    /\ UNCHANGED <<live, inflight, parked>>

Take(S) ==
    /\ live
    /\ status' = Claimed(status, S)
    /\ UNCHANGED <<confidence, live, inflight, parked>>

(* An outcome is accepted for a claimed file, and for one file once. *)
Accept(u) ==
    /\ live
    /\ status[u.file] = "Processing"
    /\ \A v \in inflight : v.file # u.file
    /\ inflight' = inflight \cup {u}
    /\ UNCHANGED <<status, confidence, live, parked>>

(* The rows after the outcomes S were stored in any order. *)
RowsAfter(S) ==
    LET Last == {r \in [{u.file : u \in S} -> Terminal] :
                    \A f \in DOMAIN r : [file |-> f, to |-> r[f]] \in S}
    IN  {[f \in Files |-> IF f \in DOMAIN r THEN r[f] ELSE status[f]] : r \in Last}

(* Outcomes in flight reach their rows, some of them together. *)
Settle(S) ==
    /\ live
    /\ S \subseteq inflight
    /\ status' \in RowsAfter(S)
    /\ inflight' = inflight \ S
    /\ UNCHANGED <<confidence, live, parked>>

Park(u) ==
    /\ live
    /\ u \in inflight
    /\ inflight' = inflight \ {u}
    /\ parked' = parked \cup {u}
    /\ UNCHANGED <<status, confidence, live>>

Forget(u) ==
    /\ LogMayFail
    /\ live
    /\ u \in inflight
    /\ inflight' = inflight \ {u}
    /\ UNCHANGED <<status, confidence, live, parked>>

(* The recovery log is applied: every file in it takes one of its logged outcomes. *)
Replay ==
    /\ live
    /\ inflight = {}
    /\ status' \in RowsAfter(parked)
    /\ UNCHANGED <<confidence, live, inflight, parked>>

Unlink ==
    /\ live
    /\ parked' = {}
    /\ \A u \in parked : status[u.file] \in Terminal
    /\ UNCHANGED <<status, confidence, live, inflight>>

LedgerNext ==
    \/ Begin \/ End \/ Die \/ Replay \/ Unlink
    \/ \E m \in [Files -> Confidence] : Match(m)
    \/ \E S \in SUBSET Files : Take(S)
    \/ \E u \in Update : Accept(u) \/ Park(u) \/ Forget(u)
    \/ \E S \in SUBSET inflight : Settle(S)

LedgerSpec == LedgerInit /\ [][LedgerNext]_ledgerVars
=============================================================================
