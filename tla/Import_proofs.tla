---------------------------- MODULE Import_proofs ----------------------------
(***************************************************************************)
(* Proofs about Import, for any inputs, names, batches and sessions: the   *)
(* types, that an import that saw everything and was matched to the end is *)
(* complete, that a row that has its match keeps it, that the matches are  *)
(* those of a single pass, that a file gets the sidecar of its own name or *)
(* number, that a sure match is of the same series, and that a guess is    *)
(* the only one of its kind.                                               *)
(***************************************************************************)
EXTENDS Import, Matcher_proofs

-----------------------------------------------------------------------------
(* The database.                                                            *)

IsRows(rows) ==
    /\ IsList(rows)
    /\ \A i \in DOMAIN rows : rows[i] = [entry |-> rows[i].entry, match |-> rows[i].match]
Entries(rows)  == {rows[i].entry : i \in DOMAIN rows}
OneRowEach(rows) == \A i, j \in DOMAIN rows : rows[i].entry = rows[j].entry => i = j

(* An insert keeps every row in its place, adds the entries that have none, *)
(* and gives no entry a second row (INSERT OR IGNORE).                      *)
LEMMA InsertMediaFacts ==
    ASSUME NEW rows, NEW batch, NEW all, all = InsertMedia(rows, batch),
           IsRows(rows), IsList(batch)
    PROVE  /\ IsRows(all)
           /\ Len(rows) <= Len(all)
           /\ \A i \in DOMAIN rows : i \in DOMAIN all /\ all[i] = rows[i]
           /\ \A i \in DOMAIN all : i \notin DOMAIN rows =>
                 all[i].match = Pending /\ all[i].entry \in ToSet(batch)
           /\ Entries(all) = Entries(rows) \cup ToSet(batch)
           /\ OneRowEach(rows) /\ Distinct(batch) => OneRowEach(all)
<1>. DEFINE P    == {k \in DOMAIN batch : \A i \in DOMAIN rows : rows[i].entry # batch[k]}
            new  == Picked(batch, P)
            more == [i \in DOMAIN new |-> [entry |-> new[i], match |-> Pending]]
<1>1. all = rows \o more
  BY DEF InsertMedia
<1>2. Len(rows) \in Nat /\ DOMAIN rows = 1..Len(rows) /\ Len(batch) \in Nat /\ DOMAIN batch = 1..Len(batch)
  BY ListFacts DEF IsRows
<1>3. P \in SUBSET (1..Len(batch))
  BY <1>2
<1>4. /\ IsList(new)
      /\ \A k \in DOMAIN new : \E i \in P : new[k] = batch[i]
      /\ \A i \in P : \E k \in DOMAIN new : new[k] = batch[i]
      /\ Distinct(batch) => Distinct(new)
  <2>. HIDE DEF P
  <2>1. IsList(new) /\ (\A k \in DOMAIN new : \E i \in P : new[k] = batch[i])
        /\ (\A i \in P : \E k \in DOMAIN new : new[k] = batch[i])
        /\ ((\A i, j \in P : batch[i] = batch[j] => i = j) => Distinct(new))
    BY <1>2, <1>3, PickedFacts DEF Distinct
  <2>2. Distinct(batch) => \A i, j \in P : batch[i] = batch[j] => i = j
    BY <1>2, <1>3 DEF Distinct
  <2>. QED  BY <2>1, <2>2
<1>5. \A k \in P : k \in DOMAIN batch /\ batch[k] \in ToSet(batch) /\ batch[k] \notin Entries(rows)
  BY DEF ToSet, Entries
<1>6. \A k \in DOMAIN batch : batch[k] \in Entries(rows) \/ k \in P
  BY DEF Entries
<1>. HIDE DEF P, new
<1>7. /\ IsList(more) /\ DOMAIN more = DOMAIN new
      /\ \A i \in DOMAIN new : more[i] = [entry |-> new[i], match |-> Pending]
  <2>1. Len(new) \in Nat /\ DOMAIN new = 1..Len(new)
    BY <1>4, ListFacts
  <2>2. DOMAIN more = 1..Len(new) /\ more = [i \in 1..Len(new) |-> more[i]]
    BY <2>1
  <2>3. \A i \in DOMAIN new : more[i] = [entry |-> new[i], match |-> Pending]
    OBVIOUS
  <2>. HIDE DEF more
  <2>. QED  BY <2>1, <2>2, <2>3, ListOf
<1>. HIDE DEF more
<1>8. \A i \in DOMAIN more : /\ more[i] = [entry |-> more[i].entry, match |-> more[i].match]
                             /\ more[i].match = Pending /\ more[i].entry = new[i]
                             /\ more[i].entry \in ToSet(batch) /\ more[i].entry \notin Entries(rows)
  BY <1>4, <1>5, <1>7
<1>9. /\ IsList(all) /\ Len(all) = Len(rows) + Len(more)
      /\ \A i \in 1..Len(rows) : all[i] = rows[i]
      /\ \A i \in 1..Len(more) : all[Len(rows) + i] = more[i]
      /\ \A i \in DOMAIN all : i \in DOMAIN rows \/ \E j \in DOMAIN more : i = Len(rows) + j
  <2>1. IsList(rows)
    BY DEF IsRows
  <2>2. Joined(all, rows, more)
    BY <1>1, <1>7, <2>1, ListConcat
  <2>. QED  BY <2>2 DEF Joined
<1>10. /\ Len(more) \in Nat /\ DOMAIN more = 1..Len(more)
       /\ Len(all) \in Nat /\ DOMAIN all = 1..Len(all)
  BY <1>7, <1>9, ListFacts
<1>11. /\ Len(rows) <= Len(all)
       /\ \A i \in DOMAIN rows : i \in DOMAIN all /\ all[i] = rows[i]
       /\ \A j \in DOMAIN more : Len(rows) + j \in DOMAIN all /\ all[Len(rows) + j] = more[j]
  BY <1>2, <1>9, <1>10
<1>12. \A i \in DOMAIN all :
          \/ i \in DOMAIN rows /\ all[i] = rows[i]
          \/ \E j \in DOMAIN more : i = Len(rows) + j /\ all[i] = more[j]
  BY <1>9, <1>11
<1>13. IsRows(all)
  BY <1>8, <1>9, <1>12 DEF IsRows
<1>14. \A i \in DOMAIN all : i \notin DOMAIN rows =>
          all[i].match = Pending /\ all[i].entry \in ToSet(batch)
  BY <1>8, <1>12
<1>15. Entries(all) = Entries(rows) \cup ToSet(batch)
  <2>1. ASSUME NEW e \in Entries(all) PROVE e \in Entries(rows) \cup ToSet(batch)
    BY <1>8, <1>12 DEF Entries
  <2>2. ASSUME NEW e \in Entries(rows) PROVE e \in Entries(all)
    BY <1>11 DEF Entries
  <2>3. ASSUME NEW k \in DOMAIN batch PROVE batch[k] \in Entries(all)
    <3>1. CASE batch[k] \in Entries(rows)
      BY <2>2, <3>1
    <3>2. CASE k \in P
      <4>1. PICK j \in DOMAIN new : new[j] = batch[k]
        BY <1>4, <3>2
      <4>2. Len(rows) + j \in DOMAIN all /\ all[Len(rows) + j].entry = batch[k]
        BY <1>7, <1>8, <1>11, <4>1
      <4>. QED  BY <4>2 DEF Entries
    <3>. QED  BY <1>6, <3>1, <3>2
  <2>. QED  BY <2>1, <2>2, <2>3 DEF ToSet
<1>16. ASSUME OneRowEach(rows), Distinct(batch),
              NEW i \in DOMAIN all, NEW k \in DOMAIN all, all[i].entry = all[k].entry
       PROVE  i = k
  <2>1. CASE i \in DOMAIN rows /\ k \in DOMAIN rows
    BY <1>11, <1>16, <2>1 DEF OneRowEach
  <2>2. ASSUME NEW x \in DOMAIN rows, NEW j \in DOMAIN more PROVE rows[x].entry # more[j].entry
    BY <1>8 DEF Entries
  <2>3. ASSUME NEW j \in DOMAIN more, NEW l \in DOMAIN more, more[j].entry = more[l].entry
        PROVE  j = l
    BY <1>4, <1>7, <1>8, <1>16, <2>3 DEF Distinct
  <2>. QED  BY <1>12, <1>16, <2>1, <2>2, <2>3
<1>. QED  BY <1>11, <1>13, <1>14, <1>15, <1>16 DEF OneRowEach

LEMMA InsertJsonFacts ==
    ASSUME NEW rows, NEW batch, NEW all, all = InsertJson(rows, batch),
           IsList(rows), IsList(batch)
    PROVE  /\ IsList(all)
           /\ ToSet(all) = ToSet(rows) \cup ToSet(batch)
           /\ Distinct(rows) /\ Distinct(batch) => Distinct(all)
<1>. DEFINE P    == {k \in DOMAIN batch : \A i \in DOMAIN rows : rows[i] # batch[k]}
            new  == Picked(batch, P)
<1>1. all = rows \o new
  BY DEF InsertJson
<1>2. Len(rows) \in Nat /\ DOMAIN rows = 1..Len(rows) /\ Len(batch) \in Nat /\ DOMAIN batch = 1..Len(batch)
  BY ListFacts
<1>3. P \in SUBSET (1..Len(batch))
  BY <1>2
<1>4. /\ IsList(new)
      /\ \A k \in DOMAIN new : \E i \in P : new[k] = batch[i]
      /\ \A i \in P : \E k \in DOMAIN new : new[k] = batch[i]
      /\ Distinct(batch) => Distinct(new)
  <2>. HIDE DEF P
  <2>1. IsList(new) /\ (\A k \in DOMAIN new : \E i \in P : new[k] = batch[i])
        /\ (\A i \in P : \E k \in DOMAIN new : new[k] = batch[i])
        /\ ((\A i, j \in P : batch[i] = batch[j] => i = j) => Distinct(new))
    BY <1>2, <1>3, PickedFacts DEF Distinct
  <2>2. Distinct(batch) => \A i, j \in P : batch[i] = batch[j] => i = j
    BY <1>2, <1>3 DEF Distinct
  <2>. QED  BY <2>1, <2>2
<1>5. \A k \in P : k \in DOMAIN batch /\ batch[k] \in ToSet(batch) /\ batch[k] \notin ToSet(rows)
  BY DEF ToSet
<1>6. \A k \in DOMAIN batch : batch[k] \in ToSet(rows) \/ k \in P
  BY DEF ToSet
<1>. HIDE DEF P, new
<1>8. \A i \in DOMAIN new : new[i] \in ToSet(batch) /\ new[i] \notin ToSet(rows)
  BY <1>4, <1>5
<1>9. /\ IsList(all) /\ Len(all) = Len(rows) + Len(new)
      /\ \A i \in 1..Len(rows) : all[i] = rows[i]
      /\ \A i \in 1..Len(new) : all[Len(rows) + i] = new[i]
      /\ \A i \in DOMAIN all : i \in DOMAIN rows \/ \E j \in DOMAIN new : i = Len(rows) + j
  <2>1. Joined(all, rows, new)
    BY <1>1, <1>4, ListConcat
  <2>. QED  BY <2>1 DEF Joined
<1>10. /\ Len(new) \in Nat /\ DOMAIN new = 1..Len(new)
       /\ Len(all) \in Nat /\ DOMAIN all = 1..Len(all)
  BY <1>4, <1>9, ListFacts
<1>11. /\ \A i \in DOMAIN rows : i \in DOMAIN all /\ all[i] = rows[i]
       /\ \A j \in DOMAIN new : Len(rows) + j \in DOMAIN all /\ all[Len(rows) + j] = new[j]
  BY <1>2, <1>9, <1>10
<1>12. \A i \in DOMAIN all :
          \/ i \in DOMAIN rows /\ all[i] = rows[i]
          \/ \E j \in DOMAIN new : i = Len(rows) + j /\ all[i] = new[j]
  BY <1>9, <1>11
<1>15. ToSet(all) = ToSet(rows) \cup ToSet(batch)
  <2>1. ASSUME NEW e \in ToSet(all) PROVE e \in ToSet(rows) \cup ToSet(batch)
    BY <1>8, <1>12 DEF ToSet
  <2>2. ASSUME NEW e \in ToSet(rows) PROVE e \in ToSet(all)
    BY <1>11 DEF ToSet
  <2>3. ASSUME NEW k \in DOMAIN batch PROVE batch[k] \in ToSet(all)
    <3>1. CASE batch[k] \in ToSet(rows)
      BY <2>2, <3>1
    <3>2. CASE k \in P
      <4>1. PICK j \in DOMAIN new : new[j] = batch[k]
        BY <1>4, <3>2
      <4>. QED  BY <1>11, <4>1 DEF ToSet
    <3>. QED  BY <1>6, <3>1, <3>2
  <2>. QED  BY <2>1, <2>2, <2>3 DEF ToSet
<1>16. ASSUME Distinct(rows), Distinct(batch),
              NEW i \in DOMAIN all, NEW k \in DOMAIN all, all[i] = all[k]
       PROVE  i = k
  <2>1. CASE i \in DOMAIN rows /\ k \in DOMAIN rows
    BY <1>11, <1>16, <2>1 DEF Distinct
  <2>2. ASSUME NEW x \in DOMAIN rows, NEW j \in DOMAIN new PROVE rows[x] # new[j]
    BY <1>8 DEF ToSet
  <2>3. ASSUME NEW j \in DOMAIN new, NEW l \in DOMAIN new, new[j] = new[l]
        PROVE  j = l
    BY <1>4, <1>16, <2>3 DEF Distinct
  <2>. QED  BY <1>12, <1>16, <2>1, <2>2, <2>3
<1>. QED  BY <1>9, <1>15, <1>16 DEF Distinct

(* A batch takes the first pending rows after the last one, at least one if *)
(* there is one.                                                            *)
LEMMA NextBatchFacts ==
    ASSUME NEW rows, IsList(rows), NEW last, NEW ids,
           ids = {i \in DOMAIN rows : rows[i].match = Pending /\ i > last}
    PROVE  /\ NextBatch(rows, last) \subseteq ids
           /\ NextBatch(rows, last) = {} => ids = {}
           /\ \A i \in ids, j \in NextBatch(rows, last) : i <= j => i \in NextBatch(rows, last)
<1>. DEFINE n == Len(rows)
            B == NextBatch(rows, last)
<1>1. n \in Nat /\ ids \in SUBSET (1..n)
  BY ListFacts
<1>2. B = {i \in ids : Rank(ids, i) <= MatchCap}
  BY DEF NextBatch, Rank
<1>. HIDE DEF n, B
<1>3. /\ Cardinality(ids) \in Nat
      /\ \A i \in ids : Rank(ids, i) \in 1..Cardinality(ids)
      /\ \A i, k \in ids : i < k => Rank(ids, i) < Rank(ids, k)
      /\ \A k \in 1..Cardinality(ids) : \E i \in ids : Rank(ids, i) = k
  BY <1>1, RankFacts
<1>4. MatchCap \in Nat \ {0}
  BY ImportAssumption
<1>5. B \subseteq ids
  BY <1>2
<1>6. ASSUME NEW i \in ids
      PROVE  B # {}
  <2>1. 1 \in 1..Cardinality(ids)
    BY <1>3
  <2>2. PICK k \in ids : Rank(ids, k) = 1
    BY <1>3, <2>1
  <2>. QED  BY <1>2, <1>4, <2>2
<1>7. ASSUME NEW i \in ids, NEW j \in B, i <= j
      PROVE  i \in B
  <2>1. CASE i = j
    BY <2>1
  <2>2. CASE i < j
    <3>1. Rank(ids, i) < Rank(ids, j) /\ Rank(ids, j) <= MatchCap
      BY <1>2, <1>3, <1>5, <2>2
    <3>2. Rank(ids, i) \in Nat /\ Rank(ids, j) \in Nat
      BY <1>2, <1>3
    <3>. QED  BY <1>2, <1>4, <3>1, <3>2
  <2>3. i \in Nat /\ j \in Nat
    BY <1>1, <1>5
  <2>. QED  BY <1>7, <2>1, <2>2, <2>3
<1>. QED  BY <1>5, <1>6, <1>7 DEF B

-----------------------------------------------------------------------------
(* The inductive invariant, part by part.                                   *)

(* What is stored and collected are entries of the inputs that the scan     *)
(* does not skip; the batches are empty but during the walk.                *)
Shape ==
    /\ at \in {"closed", "scan", "scanned", "match", "matched"}
    /\ missed \in BOOLEAN /\ partial \in BOOLEAN /\ lastId \in Nat
    /\ IsRows(media) /\ IsList(sidecars) /\ IsList(mediaBatch) /\ IsList(jsonBatch)
    /\ left \subseteq tree
    /\ Entries(media) \cup ToSet(mediaBatch) \subseteq {e \in tree : ~Skipped(e)}
    /\ ToSet(sidecars) \cup ToSet(jsonBatch) \subseteq {e \in tree : AsJson(e)}
    /\ at # "scan" => mediaBatch = <<>> /\ jsonBatch = <<>>

(* The bounds; a full batch is never kept. *)
Typed ==
    /\ tree \in Trees /\ cancel \in BOOLEAN /\ sessions \in 0..MaxSessions
    /\ input \in Inputs \cup {"none"} /\ \A e \in left : e.input \in Inputs
    /\ Len(mediaBatch) < BatchCap /\ Len(jsonBatch) < BatchCap
    /\ lastId <= Len(media)
    /\ \A f \in DOMAIN index : index[f].names = ToSet(order[f])

(* No entry is stored or collected twice. *)
Once ==
    /\ OneRowEach(media) /\ Distinct(sidecars)
    /\ Distinct(mediaBatch) /\ Distinct(jsonBatch)
    /\ left \cap (ToSet(mediaBatch) \cup ToSet(jsonBatch)) = {}

(* A session that misses nothing has stored or collected what the walk has  *)
(* reached.                                                                 *)
Seen ==
    at # "closed" /\ ~missed =>
        /\ at # "scan" => left = {}
        /\ \A e \in tree \ left :
              /\ AsMedia(e) => e \in Entries(media) \cup ToSet(mediaBatch)
              /\ AsJson(e) => e \in ToSet(sidecars) \cup ToSet(jsonBatch)

(* The pages that were loaded are matched. *)
Paged ==
    /\ at = "match" => \A i \in DOMAIN media : i <= lastId => media[i].match # Pending
    /\ at = "matched" => \A i \in DOMAIN media : media[i].match # Pending

(* The matcher works on the stored sidecars of each folder, in some order,  *)
(* and on all of them unless something was missed.                          *)
IsOrder(ord, names) == IsList(ord) /\ Distinct(ord) /\ ToSet(ord) = names
Indexed ==
    at = "match" =>
        /\ index = [f \in Folders |-> IndexOf(NamesIn(f))]
        /\ \A f \in Folders : IsOrder(order[f], ToSet(NamesIn(f)))
        /\ ~partial => ~missed

(* The match m is what the matcher finds for the entry e among some of the  *)
(* sidecars all - among all, if whole.                                      *)
Came(e, all, whole, m) ==
    \E ix, ord, names :
        /\ Searched(ix, ord, names)
        /\ names \subseteq all /\ (whole => names = all)
        /\ m = FindBestMatch(ix, ord, e.name, ExtOf(e))

(* Every match came from the matcher, and as long as no matching started    *)
(* without some entry, from all sidecars of the folder.                     *)
ByMatcher ==
    \A i \in Settled : Came(media[i].entry, SidecarsOf(media[i].entry), ~partial, media[i].match)

Inv == Shape /\ Typed /\ Once /\ Seen /\ Paged /\ Indexed /\ ByMatcher

-----------------------------------------------------------------------------
(* The sidecars of a folder and the orders of them.                         *)

(* A list has finitely many elements. *)
LEMMA ListIsFinite ==
    ASSUME NEW s, IsList(s)
    PROVE  IsFiniteSet(ToSet(s)) /\ Cardinality(ToSet(s)) \in Nat
<1>. PICK n, T : n = Len(s) /\ T = ToSet(s)
  OBVIOUS
<1>1. n \in Nat /\ DOMAIN s = 1..n /\ s \in [1..n -> T]
  <2>1. s \in Seq(T)
    BY DEF IsList
  <2>. QED  BY <2>1, ListFacts, LenProperties
<1>2. IsFiniteSet(1..n)
  <2>1. n \in Int /\ 1 \in Int
    BY <1>1
  <2>. QED  BY <2>1, FS_Interval, Zenon
<1>3. s \in Surjection(1..n, T)
  <2>1. \A t \in T : \E x \in 1..n : s[x] = t
    BY <1>1 DEF ToSet
  <2>. QED  BY <1>1, <2>1 DEF Surjection
<1>. QED  BY <1>2, <1>3, FS_Surjection, FS_CardinalityType

(* What SetToSeqs and SetToSeq give for the elements of a list.             *)
LEMMA SetToSeqsFacts ==
    ASSUME NEW s, IsList(s), NEW ord \in SetToSeqs(ToSet(s))
    PROVE  IsList(ord) /\ Distinct(ord)
<1>. PICK n : n = Cardinality(ToSet(s))
  OBVIOUS
<1>1. n \in Nat
  BY ListIsFinite
<1>2. ord \in [1..n -> ToSet(s)] /\ \A i, j \in 1..n : i # j => ord[i] # ord[j]
  BY DEF SetToSeqs
<1>3. DOMAIN ord = 1..n /\ ord = [i \in 1..n |-> ord[i]]
  BY <1>2
<1>. QED  BY <1>1, <1>2, <1>3, ListOf DEF Distinct

LEMMA SetToSeqFacts ==
    ASSUME NEW names, NEW s, IsOrder(s, names)
    PROVE  IsOrder(SetToSeq(names), names)
<1>. PICK n, f : n = Len(s) /\ f = SetToSeq(names)
  OBVIOUS
<1>1. n \in Nat /\ DOMAIN s = 1..n /\ s \in [1..n -> names] /\ Cardinality(names) = n
  <2>1. s \in Seq(names)
    BY DEF IsOrder, IsList
  <2>. QED  BY <2>1, ListFacts, LenProperties, DistinctLength DEF IsOrder
<1>2. IsFiniteSet(names)
  BY ListIsFinite DEF IsOrder
<1>3. IsInjective(s)
  BY DEF IsOrder, Distinct, IsInjective
<1>4. f \in [1..n -> names] /\ IsInjective(f)
  <2>1. f = CHOOSE g \in [1..n -> names] : IsInjective(g)
    BY <1>1 DEF SetToSeq
  <2>2. \E g \in [1..n -> names] : IsInjective(g)
    BY <1>1, <1>3
  <2>. QED  BY <2>1, <2>2, Zenon
<1>5. DOMAIN f = 1..n /\ f = [i \in 1..n |-> f[i]]
  BY <1>4
<1>6. IsList(f) /\ Distinct(f)
  BY <1>1, <1>4, <1>5, ListOf DEF Distinct, IsInjective
<1>7. IsFiniteSet(1..n) /\ Cardinality(1..n) = n
  <2>1. n \in Int /\ 1 \in Int
    BY <1>1
  <2>2. IsFiniteSet(1..n) /\ Cardinality(1..n) = IF 1 > n THEN 0 ELSE n - 1 + 1
    BY <2>1, FS_Interval, Zenon
  <2>3. (IF 1 > n THEN 0 ELSE n - 1 + 1) = n
    BY <1>1
  <2>. QED  BY <2>2, <2>3
<1>8. f \in Injection(1..n, names)
  BY <1>4 DEF Injection
<1>9. f \in Surjection(1..n, names)
  BY <1>1, <1>2, <1>7, <1>8, FS_Injection
<1>10. ToSet(f) = names
  BY <1>4, <1>5, <1>9 DEF Surjection, ToSet
<1>. QED  BY <1>6, <1>10 DEF IsOrder

(* Entries have names that the matcher can work with. *)
LEMMA TreeNames ==
    ASSUME NEW t \in Trees, NEW e \in t
    PROVE  IsFile(e.name, ExtOf(e)) /\ (IsJson(e) => IsSidecar(e.name))
<1>. PICK name : name = e.name
  OBVIOUS
<1>1. name \in Seq(STRING)
  BY ImportAssumption
<1>2. IsList(name)
  <2>1. Len(name) \in Nat /\ DOMAIN name = 1..Len(name) /\ name = [i \in 1..Len(name) |-> name[i]]
    BY <1>1, LenProperties
  <2>. QED  BY <2>1, ListOf
<1>3. IsTail(ExtOf(e)) /\ IsTail(Lower(ExtOf(e)))
  <2>1. ".jpg" \in Extensions
    <3>1. 3 \in DOMAIN ImageExts /\ ImageExts[3] = ".jpg"
      BY DEF ImageExts
    <3>2. ".jpg" \in ToSet(ImageExts)
      BY <3>1 DEF ToSet
    <3>. QED  BY <3>2 DEF Extensions
  <2>2. \E p \in Extensions : ExtOf(e) = <<p>>
    BY <2>1 DEF ExtOf, ExtensionOf
  <2>3. PICK p : p \in Extensions /\ ExtOf(e) = <<p>>
    BY <2>2
  <2>. QED  BY <2>3, TailParts
<1>. QED  BY <1>2, <1>3 DEF IsFile, IsJson, IsSidecar

(* What the invariant says of an entry that was matched among some of its   *)
(* sidecars stays when more is known to be missing.                         *)
LEMMA CameWeaker ==
    ASSUME NEW e, NEW all, NEW whole, NEW m, Came(e, all, whole, m), NEW less, less => whole
    PROVE  Came(e, all, less, m)
BY DEF Came

(* What the matcher finds is never the mark of a row without a match. *)
LEMMA CameNotPending ==
    ASSUME NEW t \in Trees, NEW e \in t, NEW all, NEW whole, NEW m, Came(e, all, whole, m)
    PROVE  m # Pending
<1>1. PICK ix, ord, names : Searched(ix, ord, names) /\ m = FindBestMatch(ix, ord, e.name, ExtOf(e))
  BY DEF Came
<1>2. m.tier \in 0..7
  BY <1>1, TreeNames, MatchFacts
<1>. QED  BY <1>2 DEF Pending

-----------------------------------------------------------------------------
(* A file gets the sidecar of its own name, or of its own number.           *)

(* The names of the sidecars of e with the extension, of the same number. *)
Mine(e) == LET stem == Stem(e.name) IN Numbered(Root(stem), ExtOf(e), ValueOf(Last(stem)))

(* The match m of the entry e is its own sidecar, if one of names is. *)
OwnFound(e, names, m) ==
    LET own == e.name \o SM \o JSON
        old == e.name \o JSON
    IN  /\ own \in names => m.json = own
        /\ old \in names /\ Lower(own) \notin {Lower(n) : n \in names} => m.json = old
        /\ /\ m.tier = 3 /\ m.confidence = 100 /\ Front(Stem(e.name)) = Root(Stem(e.name))
           /\ \E k \in DOMAIN Mine(e) : Mine(e)[k] \o JSON \in names
           => \E k \in DOMAIN Mine(e) : Lower(Mine(e)[k] \o JSON) = Lower(m.json)

LEMMA MineIsList ==
    ASSUME NEW e
    PROVE  IsList(Mine(e))
<1>1. DOMAIN Mine(e) = 1..11 /\ Mine(e) = [i \in 1..11 |-> Mine(e)[i]] /\ 11 \in Nat
  BY DEF Mine, Numbered
<1>. QED  BY <1>1, ListOf

LEMMA OwnSidecarFound ==
    ASSUME NEW e, NEW names, NEW ix, NEW ord, Searched(ix, ord, names), IsFile(e.name, ExtOf(e)),
           NEW m, m = FindBestMatch(ix, ord, e.name, ExtOf(e))
    PROVE  OwnFound(e, names, m)
<1>. DEFINE own   == e.name \o SM \o JSON
            old   == e.name \o JSON
            stem  == Stem(e.name)
            ext   == ExtOf(e)
            tries == Attempts(e.name, ext)
            owns  == OwnAttempts(e.name, ext)
            number == NumberAttempts(stem, ext)
            named == Named(ix, e.name, ext)
            first == tries[1]
<1>1. /\ OfTiers(tries, 1..5)
      /\ 1 \in DOMAIN tries /\ first = owns[1]
      /\ \A i \in DOMAIN tries : tries[i].tier = 3 => i > 2 /\ number # <<>>
      /\ 1 \in DOMAIN number => 3 \in DOMAIN tries /\ tries[3] = number[1]
  BY AttemptsFacts
<1>2. /\ first.tier = 1 /\ IsList(first.names) /\ DOMAIN first.names = 1..4
      /\ first.names[1] = own /\ first.names[2] = old
  <2>1. /\ owns[1].tier = 1 /\ IsList(owns[1].names) /\ DOMAIN owns[1].names = 1..4
        /\ owns[1].names[1] = own /\ owns[1].names[2] = old
    <3>1. StartOwn(owns, e.name)
      BY OwnAttemptsFacts
    <3>. HIDE DEF owns
    <3>. QED  BY <3>1 DEF StartOwn
  <2>. HIDE DEF owns, own, old, first
  <2>. QED  BY <1>1, <2>1
<1>3. /\ m.tier \in 1..5 => m = named
      /\ ix.names # {} /\ named # NoMatch => m = named
      /\ IsIndex(ix, names)
  <2>1. m.tier \in 1..5 => m = named
    BY MatchFacts
  <2>2. ix.names # {} /\ named # NoMatch => m = named
    BY FindCases
  <2>. QED  BY <2>1, <2>2 DEF Searched
<1>4. /\ \/ named = NoMatch
         \/ \E q \in DOMAIN tries :
               /\ named = Hit(ix, tries[q]) /\ named # NoMatch /\ named.tier = tries[q].tier
               /\ \A p \in DOMAIN tries : Hit(ix, tries[p]) # NoMatch => q <= p
      /\ \A p \in DOMAIN tries : Hit(ix, tries[p]) # NoMatch => named # NoMatch
  BY NamedFacts
<1>5. Len(tries) \in Nat /\ DOMAIN tries = 1..Len(tries)
  BY <1>1, ListFacts DEF OfTiers
<1>6. ix.names = names
  BY <1>3, IsIndexFields
<1>. HIDE DEF own, old, tries, number, named, owns, first, ext
(* If the first attempt hits, it is what is found. *)
<1>7. ASSUME NEW i \in DOMAIN first.names, first.names[i] \in names,
             \A j \in DOMAIN first.names : j < i => Lookup(ix, first.names[j]) = {}
      PROVE  m.json = first.names[i]
  <2>. DEFINE t == first.names[i]
  <2>1. Lookup(ix, t) = {t}
    BY <1>3, <1>7, LookupFacts
  <2>2. Hit(ix, first) # NoMatch
    BY <1>2, <1>7, <2>1, HitTier
  <2>3. PICK q \in DOMAIN tries :
           named = Hit(ix, tries[q]) /\ \A p \in DOMAIN tries : Hit(ix, tries[p]) # NoMatch => q <= p
    BY <1>1, <1>4, <2>2 DEF first
  <2>4. q <= 1
    BY <1>1, <2>2, <2>3 DEF first
  <2>5. q = 1
    BY <1>5, <2>4
  <2>6. named = Hit(ix, first) /\ m = named
    BY <1>3, <1>6, <1>7, <2>2, <2>3, <2>5 DEF first
  <2>7. PICK k \in DOMAIN first.names :
           /\ Lookup(ix, first.names[k]) # {}
           /\ Hit(ix, first).json = CHOOSE c \in Lookup(ix, first.names[k]) : TRUE
           /\ \A j \in DOMAIN first.names : Lookup(ix, first.names[j]) # {} => k <= j
    BY <1>2, <2>2, HitFacts
  <2>8. k = i
    <3>1. k <= i
      BY <1>7, <2>1, <2>7
    <3>2. ~(k < i)
      BY <1>7, <2>7
    <3>. QED  BY <1>2, <3>1, <3>2
  <2>. HIDE DEF t
  <2>9. Lookup(ix, first.names[k]) = {t}
    BY <2>1, <2>8 DEF t
  <2>10. Hit(ix, first).json = t
    BY <2>7, <2>9
  <2>. QED  BY <2>6, <2>10 DEF t
<1>8. own \in names => m.json = own
  <2>1. 1 \in DOMAIN first.names /\ \A j \in DOMAIN first.names : ~(j < 1)
    BY <1>2
  <2>. QED  BY <1>2, <1>7, <2>1
<1>9. old \in names /\ Lower(own) \notin {Lower(n) : n \in names} => m.json = old
  <2>. SUFFICES ASSUME old \in names, Lower(own) \notin {Lower(n) : n \in names} PROVE m.json = old
    OBVIOUS
  <2>1. Lookup(ix, own) = {}
    BY <1>3, LookupFacts
  <2>2. 2 \in DOMAIN first.names /\ \A j \in DOMAIN first.names : j < 2 => j = 1
    BY <1>2
  <2>. QED  BY <1>2, <1>7, <2>1, <2>2
<1>10. ASSUME m.tier = 3, Front(stem) = Root(stem),
              NEW k \in DOMAIN Mine(e), Mine(e)[k] \o JSON \in names
       PROVE  \E l \in DOMAIN Mine(e) : Lower(Mine(e)[l] \o JSON) = Lower(m.json)
  <2>1. m = named /\ named # NoMatch
    <3>1. NoMatch.tier = 0
      BY DEF NoMatch
    <3>2. 3 \in 1..5
      OBVIOUS
    <3>. QED  BY <1>3, <1>10, <3>1, <3>2
  <2>2. PICK q \in DOMAIN tries :
           /\ named = Hit(ix, tries[q]) /\ named.tier = tries[q].tier
           /\ \A p \in DOMAIN tries : Hit(ix, tries[p]) # NoMatch => q <= p
    BY <1>4, <2>1
  <2>3. q > 2
    BY <1>1, <1>10, <2>1, <2>2
  <2>4. /\ 3 \in DOMAIN tries
        /\ tries[3] = Attempt(3, 100, Mine(e))
    <3>1. number # <<>>
      BY <1>1, <1>10, <2>1, <2>2
    <3>2. IsNumbered(stem)
      BY <3>1 DEF number, NumberAttempts
    <3>3. 1 \in DOMAIN number /\ number[1] = Attempt(3, 100, Numbered(Root(stem), ext, ValueOf(Last(stem))))
      BY <1>10, <3>2, NumberAttemptsFacts DEF number
    <3>. QED  BY <1>1, <3>3 DEF Mine, ext
  <2>. DEFINE a == Attempt(3, 100, Mine(e))
  <2>5. /\ a.tier = 3 /\ IsList(a.names) /\ DOMAIN a.names = DOMAIN Mine(e)
        /\ \A i \in DOMAIN Mine(e) : a.names[i] = Mine(e)[i] \o JSON
    BY MineIsList, AttemptFacts
  <2>. HIDE DEF a
  <2>6. Lookup(ix, a.names[k]) # {}
    <3>. DEFINE t == Mine(e)[k] \o JSON
    <3>1. a.names[k] = t /\ t \in names
      BY <1>10, <2>5
    <3>. HIDE DEF t
    <3>. QED  BY <1>3, <3>1, LookupFacts
  <2>7. Hit(ix, a) # NoMatch
    <3>1. a.tier \in 1..5 /\ k \in DOMAIN a.names
      BY <1>10, <2>5
    <3>. QED  BY <2>6, <3>1, HitTier, Zenon
  <2>8. q = 3
    <3>1. q <= 3
      BY <2>2, <2>4, <2>7 DEF a
    <3>. QED  BY <1>5, <2>3, <3>1
  <2>9. PICK l \in DOMAIN a.names :
           /\ Lookup(ix, a.names[l]) # {}
           /\ Hit(ix, a).json = CHOOSE c \in Lookup(ix, a.names[l]) : TRUE
    BY <2>5, <2>7, HitFacts
  <2>10. m.json \in Lookup(ix, a.names[l])
    <3>1. m = Hit(ix, a)
      BY <2>1, <2>2, <2>4, <2>8 DEF a
    <3>. QED  BY <2>9, <3>1
  <2>11. Lower(m.json) = Lower(a.names[l])
    BY <1>3, <2>10, LookupFacts
  <2>. QED  BY <2>5, <2>11
<1>. QED  BY <1>8, <1>9, <1>10 DEF OwnFound, own, old, stem

-----------------------------------------------------------------------------
(* What the matcher finds, for the entries of a folder.                     *)

LEMMA CameOwn ==
    ASSUME NEW t \in Trees, NEW e \in t, NEW all, NEW m, Came(e, all, TRUE, m)
    PROVE  OwnFound(e, all, m)
<1>1. PICK ix, ord, names : Searched(ix, ord, names) /\ names = all /\ m = FindBestMatch(ix, ord, e.name, ExtOf(e))
  BY DEF Came
<1>. QED  BY <1>1, TreeNames, OwnSidecarFound

LEMMA CameSure ==
    ASSUME NEW t \in Trees, NEW e \in t, NEW all, NEW whole, NEW m, Came(e, all, whole, m)
    PROVE  /\ m.tier \in 0..7
           /\ Threshold <= 10 => m.confidence \in 0..100
           /\ Threshold < 128 /\ m.confidence = 100 => m.tier \in 1..5 /\ Series(m.json) = Series(e.name)
<1>1. PICK ix, ord, names : Searched(ix, ord, names) /\ m = FindBestMatch(ix, ord, e.name, ExtOf(e))
  BY DEF Came
<1>. QED  BY <1>1, TreeNames, SureFacts

(* The folder of a single pass is an index of its sidecars. *)
LEMMA OnePassFacts ==
    ASSUME NEW names, NEW s, IsOrder(s, names), \A n \in names : IsSidecar(n),
           NEW folder, folder = [names |-> names,
                                 lower |-> [l \in {Lower(n) : n \in names} |-> CHOOSE n \in names : Lower(n) = l]]
    PROVE  Searched(folder, SetToSeq(names), names)
<1>. PICK low : low = [l \in {Lower(n) : n \in names} |-> CHOOSE n \in names : Lower(n) = l]
  OBVIOUS
<1>1. \A l \in {Lower(n) : n \in names} : low[l] \in names /\ Lower(low[l]) = l
  OBVIOUS
<1>2. low = [l \in {Lower(n) : n \in names} |-> low[l]] /\ DOMAIN low = {Lower(n) : n \in names}
  OBVIOUS
<1>3. folder = [names |-> names, lower |-> low] /\ folder.lower = low
  OBVIOUS
<1>4. IsIndex(folder, names)
  BY <1>1, <1>2, <1>3 DEF IsIndex
<1>. QED  BY <1>4, SetToSeqFacts DEF IsOrder, Searched

(* What came from all sidecars is what a single pass finds. *)
LEMMA CameOnePass ==
    ASSUME tree \in Trees, NEW e \in tree, NEW m, Came(e, SidecarsOf(e), TRUE, m),
           CaseDistinct(SidecarsOf(e))
    PROVE  m = OnePass(e)
<1>. PICK all : all = SidecarsOf(e)
  OBVIOUS
<1>1. PICK ix, ord : Searched(ix, ord, all) /\ m = FindBestMatch(ix, ord, e.name, ExtOf(e))
  BY DEF Came
<1>2. OneCase(all)
  BY DEF CaseDistinct, OneCase
<1>3. PICK folder : folder = [names |-> all,
                              lower |-> [l \in {Lower(n) : n \in all} |-> CHOOSE n \in all : Lower(n) = l]]
  OBVIOUS
<1>4. IsOrder(ord, all) /\ \A n \in all : IsSidecar(n)
  BY <1>1 DEF Searched, IsOrder
<1>5. Searched(folder, SetToSeq(all), all)
  BY <1>3, <1>4, OnePassFacts
<1>6. OnePass(e) = FindBestMatch(folder, SetToSeq(all), e.name, ExtOf(e))
  BY <1>3 DEF OnePass
<1>7. IsFile(e.name, ExtOf(e))
  BY TreeNames
<1>. QED  BY <1>1, <1>2, <1>5, <1>6, <1>7, OneMatch

(* A guess is the only one of its kind. *)
Only(e, all, m) ==
    LET stem == Stem(e.name)
    IN  /\ m.tier = 7 => \A json \in all \ {m.json} : Far(stem, json) > Far(stem, m.json)
        /\ m.tier = 6 => \E c \in 0..Len(stem) :
              /\ \E v \in ToSet(TruncatedNames(stem, ExtOf(e), c)) : Lower(v \o JSON) = Lower(m.json)
              /\ \A v \in ToSet(TruncatedNames(stem, ExtOf(e), c)) : v \o JSON \notin all \ {m.json}

LEMMA CameOnly ==
    ASSUME NEW t \in Trees, NEW e \in t, NEW all, NEW m, Came(e, all, TRUE, m)
    PROVE  Only(e, all, m)
<1>1. PICK ix, ord : Searched(ix, ord, all) /\ m = FindBestMatch(ix, ord, e.name, ExtOf(e))
  BY DEF Came
<1>2. IsFile(e.name, ExtOf(e))
  BY TreeNames
<1>3. /\ m.tier = 7 => \A json \in all \ {m.json} : Far(Stem(e.name), json) > Far(Stem(e.name), m.json)
      /\ m.tier = 6 => OnlyBeginning(ix, Stem(e.name), ExtOf(e), m)
  BY <1>1, <1>2, GuessFacts
<1>4. IsIndex(ix, all)
  BY <1>1 DEF Searched
<1>5. m.tier = 6 => \E c \in 0..Len(Stem(e.name)) :
         /\ \E v \in ToSet(TruncatedNames(Stem(e.name), ExtOf(e), c)) : Lower(v \o JSON) = Lower(m.json)
         /\ \A v \in ToSet(TruncatedNames(Stem(e.name), ExtOf(e), c)) : v \o JSON \notin all \ {m.json}
  BY <1>3, <1>4, OnlyByBeginning
<1>. QED  BY <1>3, <1>5 DEF Only

-----------------------------------------------------------------------------
(* The steps.                                                               *)

(* all has the rows of rows, in their places, and others that are pending. *)
Grown(all, rows) ==
    /\ IsRows(all) /\ Len(rows) <= Len(all)
    /\ \A i \in DOMAIN rows : i \in DOMAIN all /\ all[i] = rows[i]
    /\ \A i \in DOMAIN all : i \notin DOMAIN rows => all[i].match = Pending

(* A batch is stored, or kept. *)
LEMMA StoreMedia ==
    ASSUME NEW rows, NEW batch, NEW all, NEW rest,
           IsRows(rows), IsList(batch), OneRowEach(rows), Distinct(batch),
           \/ all = InsertMedia(rows, batch) /\ rest = <<>>
           \/ all = rows /\ rest = batch
    PROVE  /\ Grown(all, rows) /\ OneRowEach(all) /\ IsList(rest) /\ Distinct(rest)
           /\ ToSet(rest) \subseteq ToSet(batch)
           /\ Entries(all) \cup ToSet(rest) = Entries(rows) \cup ToSet(batch)
<1>1. CASE all = InsertMedia(rows, batch) /\ rest = <<>>
  <2>1. Grown(all, rows) /\ OneRowEach(all) /\ Entries(all) = Entries(rows) \cup ToSet(batch)
    BY <1>1, InsertMediaFacts DEF Grown
  <2>2. IsList(rest) /\ Distinct(rest) /\ ToSet(rest) = {}
    BY <1>1, Nothing DEF Distinct, ToSet
  <2>. QED  BY <2>1, <2>2
<1>2. CASE all = rows /\ rest = batch
  <2>1. Len(rows) <= Len(rows)
    BY ListFacts DEF IsRows
  <2>. QED  BY <1>2, <2>1 DEF Grown
<1>. QED  BY <1>1, <1>2

LEMMA StoreJson ==
    ASSUME NEW rows, NEW batch, NEW all, NEW rest,
           IsList(rows), IsList(batch), Distinct(rows), Distinct(batch),
           \/ all = InsertJson(rows, batch) /\ rest = <<>>
           \/ all = rows /\ rest = batch
    PROVE  /\ IsList(all) /\ Distinct(all) /\ IsList(rest) /\ Distinct(rest)
           /\ ToSet(rest) \subseteq ToSet(batch)
           /\ ToSet(all) \cup ToSet(rest) = ToSet(rows) \cup ToSet(batch)
<1>1. CASE all = InsertJson(rows, batch) /\ rest = <<>>
  <2>1. IsList(all) /\ Distinct(all) /\ ToSet(all) = ToSet(rows) \cup ToSet(batch)
    BY <1>1, InsertJsonFacts
  <2>2. IsList(rest) /\ Distinct(rest) /\ ToSet(rest) = {}
    BY <1>1, Nothing DEF Distinct, ToSet
  <2>. QED  BY <2>1, <2>2
<1>2. CASE all = rows /\ rest = batch
  BY <1>2
<1>. QED  BY <1>1, <1>2

(* An entry that was not collected yet. *)
Collected(all, batch, new) ==
    IsList(all) /\ Distinct(all) /\ ToSet(all) = ToSet(batch) \cup new

LEMMA Collect ==
    ASSUME NEW batch, NEW e, NEW c \in BOOLEAN, NEW all, all = IF c THEN Append(batch, e) ELSE batch,
           IsList(batch), Distinct(batch), e \notin ToSet(batch)
    PROVE  Collected(all, batch, IF c THEN {e} ELSE {})
<1>1. CASE ~c
  BY <1>1 DEF Collected
<1>2. CASE c
  <2>. DEFINE n == Len(batch)
  <2>1. n \in Nat /\ DOMAIN batch = 1..n
    BY ListFacts
  <2>2. /\ DOMAIN all = 1..(n + 1) /\ all = [i \in 1..(n + 1) |-> all[i]]
        /\ all[n + 1] = e /\ \A i \in 1..n : all[i] = batch[i]
    <3>1. batch \in Seq(ToSet(batch) \cup {e})
      BY SeqMonotonic DEF IsList
    <3>2. all = Append(batch, e)
      BY <1>2
    <3>. QED  BY <3>1, <3>2
  <2>. HIDE DEF n
  <2>3. n + 1 \in Nat
    BY <2>1
  <2>4. IsList(all)
    BY <2>2, <2>3, ListOf
  <2>5. \A i \in 1..(n + 1) : i \in 1..n \/ i = n + 1
    BY <2>1
  <2>6. \A i \in 1..n : i \in 1..(n + 1)
    BY <2>1
  <2>7. ToSet(all) = ToSet(batch) \cup {e}
    <3>1. n + 1 \in 1..(n + 1)
      BY <2>1
    <3>. QED  BY <2>1, <2>2, <2>5, <2>6, <3>1 DEF ToSet
  <2>8. Distinct(all)
    <3>1. \A i \in 1..n : all[i] # e
      BY <2>1, <2>2 DEF ToSet
    <3>. QED  BY <2>1, <2>2, <2>5, <3>1 DEF Distinct
  <2>. QED  BY <1>2, <2>4, <2>7, <2>8 DEF Collected
<1>. QED  BY <1>1, <1>2

(* The names that are loaded are those of the folder's sidecars. *)
LEMMA NamesInFacts ==
    ASSUME IsList(sidecars), NEW f
    PROVE  /\ IsList(NamesIn(f))
           /\ ToSet(NamesIn(f)) = {d.name : d \in {d \in ToSet(sidecars) : Folder(d) = f}}
<1>. DEFINE S   == {i \in DOMAIN sidecars : Folder(sidecars[i]) = f}
            own == Picked(sidecars, S)
            all == [i \in DOMAIN own |-> own[i].name]
<1>1. NamesIn(f) = all
  BY DEF NamesIn
<1>2. Len(sidecars) \in Nat /\ S \in SUBSET (1..Len(sidecars))
  BY ListFacts
<1>3. /\ IsList(own)
      /\ \A k \in DOMAIN own : \E i \in S : own[k] = sidecars[i]
      /\ \A i \in S : \E k \in DOMAIN own : own[k] = sidecars[i]
  <2>. HIDE DEF S
  <2>. QED  BY <1>2, PickedFacts
<1>. HIDE DEF own
<1>4. DOMAIN own = 1..Len(own) /\ Len(own) \in Nat
  BY <1>3, ListFacts
<1>5. /\ DOMAIN all = 1..Len(own) /\ all = [i \in 1..Len(own) |-> all[i]]
      /\ \A i \in DOMAIN own : all[i] = own[i].name
  BY <1>4
<1>. HIDE DEF all
<1>6. IsList(all)
  BY <1>4, <1>5, ListOf
<1>7. ToSet(all) = {d.name : d \in {d \in ToSet(sidecars) : Folder(d) = f}}
  <2>1. ASSUME NEW k \in DOMAIN all
        PROVE  \E d \in ToSet(sidecars) : Folder(d) = f /\ all[k] = d.name
    <3>1. PICK i \in S : own[k] = sidecars[i]
      BY <1>3, <1>4, <1>5
    <3>. QED  BY <1>4, <1>5, <3>1 DEF ToSet
  <2>2. ASSUME NEW i \in S
        PROVE  \E k \in DOMAIN all : all[k] = sidecars[i].name
    BY <1>3, <1>4, <1>5
  <2>. QED  BY <2>1, <2>2 DEF ToSet
<1>. QED  BY <1>1, <1>6, <1>7

(* A batch that is kept has room for another row. *)
LEMMA Room ==
    ASSUME NEW batch, batch = <<>> \/ (IsList(batch) /\ ~Full(batch))
    PROVE  Len(batch) < BatchCap
<1>1. CASE batch = <<>>
  BY <1>1, Nothing, ImportAssumption
<1>2. CASE IsList(batch) /\ ~Full(batch)
  BY <1>2, ListFacts, ImportAssumption DEF Full
<1>. QED  BY <1>1, <1>2

LEMMA InvInit == Init => Inv
<1>. SUFFICES ASSUME Init PROVE Inv
  OBVIOUS
<1>1. IsList(<<>>) /\ DOMAIN <<>> = {} /\ Len(<<>>) = 0
  BY Nothing
<1>2. Shape /\ Once /\ Seen /\ Paged /\ Indexed /\ ByMatcher
  BY <1>1 DEF Init, Shape, Once, Seen, Paged, Indexed, ByMatcher, IsRows, OneRowEach, Distinct,
       Entries, ToSet, Settled
<1>3. Typed
  <2>1. Len(<<>>) < BatchCap
    BY Room
  <2>2. sessions \in 0..MaxSessions
    BY ImportAssumption DEF Init
  <2>3. \A f \in DOMAIN index : index[f].names = ToSet(order[f])
    BY <1>1 DEF Init
  <2>4. lastId <= Len(media) /\ left = {}
    BY <1>1 DEF Init
  <2>. QED  BY <2>1, <2>2, <2>3, <2>4 DEF Init, Typed
<1>. QED  BY <1>2, <1>3 DEF Inv

(* Rows that have grown have the matches they had. *)
LEMMA GrownByMatcher ==
    ASSUME ByMatcher, Grown(media', media), tree' = tree, partial' = partial
    PROVE  ByMatcher'
<1>. SUFFICES ASSUME NEW i \in Settled'
              PROVE  Came(media[i].entry, SidecarsOf(media[i].entry), ~partial, media[i].match)'
  BY DEF ByMatcher
<1>1. i \in Settled /\ media'[i] = media[i]
  BY DEF Grown, Settled
<1>2. SidecarsOf(media[i].entry)' = SidecarsOf(media[i].entry)
  BY <1>1 DEF SidecarsOf
<1>. QED  BY <1>1, <1>2 DEF ByMatcher

(* Rows that are left alone, too. *)
LEMMA SameByMatcher ==
    ASSUME ByMatcher, media' = media, tree' = tree, partial' = partial
    PROVE  ByMatcher'
<1>1. \A i \in Settled : Came(media[i].entry, SidecarsOf(media[i].entry), ~partial, media[i].match)
  BY DEF ByMatcher
<1>2. Settled' = Settled /\ \A e : SidecarsOf(e)' = SidecarsOf(e)
  BY DEF Settled, SidecarsOf
<1>. QED  BY <1>1, <1>2 DEF ByMatcher

LEMMA InvOpen ==
    ASSUME Inv, NEW selected \in SUBSET Inputs, Open(selected)
    PROVE  Inv'
<1>. USE DEF Open, matcher
<1>1. left' \subseteq tree
  OBVIOUS
<1>2. ToSet(<<>>) = {}
  BY DEF ToSet
<1>3. Shape'
  BY <1>1 DEF Inv, Shape
<1>4. Once'
  BY <1>2 DEF Inv, Shape, Once
<1>5. Seen' /\ Paged' /\ Indexed'
  BY DEF Seen, Paged, Indexed
<1>6. ByMatcher'
  BY SameByMatcher DEF Inv
<1>7. Typed'
  <2>1. /\ tree' = tree /\ cancel' = FALSE /\ sessions' = sessions + 1 /\ sessions < MaxSessions
        /\ UNCHANGED <<input, mediaBatch, jsonBatch, lastId, media, index, order>>
        /\ \A e \in left' : e.input \in Inputs
    OBVIOUS
  <2>2. sessions' \in 0..MaxSessions
    BY <2>1, ImportAssumption DEF Inv, Typed
  <2>. QED  BY <2>1, <2>2 DEF Inv, Typed
<1>. QED  BY <1>3, <1>4, <1>5, <1>6, <1>7 DEF Inv

LEMMA InvUnreadable ==
    ASSUME Inv, NEW e \in left, Unreadable(e)
    PROVE  Inv'
<1>. USE DEF Unreadable, matcher
<1>1. Shape' /\ Once'
  BY DEF Inv, Shape, Once
<1>2. Seen' /\ Paged' /\ Indexed'
  BY DEF Seen, Paged, Indexed
<1>3. ByMatcher'
  BY SameByMatcher DEF Inv
<1>4. Typed'
  <2>1. /\ left' \subseteq left /\ input' = e.input /\ e.input \in Inputs
        /\ UNCHANGED <<tree, cancel, sessions, mediaBatch, jsonBatch, lastId, media, index, order>>
    BY DEF Inv, Typed
  <2>. QED  BY <2>1 DEF Inv, Typed
<1>. QED  BY <1>1, <1>2, <1>3, <1>4 DEF Inv

LEMMA InvScanEntry ==
    ASSUME Inv, NEW e \in left, ScanEntry(e)
    PROVE  Inv' /\ Grown(media', media)
<1>. DEFINE m == IF AsMedia(e) THEN Append(mediaBatch, e) ELSE mediaBatch
            j == IF AsJson(e) THEN Append(jsonBatch, e) ELSE jsonBatch
<1>1. /\ at = "scan" /\ left' = left \ {e}
      /\ \/ media' = InsertMedia(media, m) /\ mediaBatch' = <<>>
         \/ media' = media /\ mediaBatch' = m
      /\ \/ sidecars' = InsertJson(sidecars, j) /\ jsonBatch' = <<>>
         \/ sidecars' = sidecars /\ jsonBatch' = j
      /\ UNCHANGED <<tree, at, missed, partial, lastId>>
  BY DEF ScanEntry, matcher
<1>2. /\ IsRows(media) /\ OneRowEach(media) /\ IsList(sidecars) /\ Distinct(sidecars)
      /\ IsList(mediaBatch) /\ Distinct(mediaBatch) /\ IsList(jsonBatch) /\ Distinct(jsonBatch)
      /\ e \notin ToSet(mediaBatch) /\ e \notin ToSet(jsonBatch) /\ e \in tree
  BY DEF Inv, Shape, Once
<1>3. AsMedia(e) \in BOOLEAN /\ AsJson(e) \in BOOLEAN
  BY DEF AsMedia, AsJson, Skipped
<1>4. /\ IsList(m) /\ Distinct(m)
      /\ ToSet(m) = ToSet(mediaBatch) \cup IF AsMedia(e) THEN {e} ELSE {}
  <2>1. Collected(m, mediaBatch, IF AsMedia(e) THEN {e} ELSE {})
    BY <1>2, <1>3, Collect
  <2>. HIDE DEF m
  <2>. QED  BY <2>1 DEF Collected
<1>5. /\ IsList(j) /\ Distinct(j)
      /\ ToSet(j) = ToSet(jsonBatch) \cup IF AsJson(e) THEN {e} ELSE {}
  <2>1. Collected(j, jsonBatch, IF AsJson(e) THEN {e} ELSE {})
    BY <1>2, <1>3, Collect
  <2>. HIDE DEF j
  <2>. QED  BY <2>1 DEF Collected
<1>. HIDE DEF m, j
<1>6. /\ Grown(media', media) /\ OneRowEach(media') /\ IsList(mediaBatch') /\ Distinct(mediaBatch')
      /\ ToSet(mediaBatch') \subseteq ToSet(m)
      /\ Entries(media') \cup ToSet(mediaBatch') = Entries(media) \cup ToSet(m)
  BY <1>1, <1>2, <1>4, StoreMedia
<1>7. /\ IsList(sidecars') /\ Distinct(sidecars') /\ IsList(jsonBatch') /\ Distinct(jsonBatch')
      /\ ToSet(jsonBatch') \subseteq ToSet(j)
      /\ ToSet(sidecars') \cup ToSet(jsonBatch') = ToSet(sidecars) \cup ToSet(j)
  BY <1>1, <1>2, <1>5, StoreJson
<1>8. Shape'
  <2>1. Entries(media') \cup ToSet(mediaBatch') \subseteq {d \in tree : ~Skipped(d)}
    BY <1>2, <1>4, <1>6 DEF Inv, Shape, AsMedia
  <2>2. ToSet(sidecars') \cup ToSet(jsonBatch') \subseteq {d \in tree : AsJson(d)}
    BY <1>2, <1>5, <1>7 DEF Inv, Shape
  <2>3. IsRows(media')
    BY <1>6 DEF Grown
  <2>. QED  BY <1>1, <1>6, <1>7, <2>1, <2>2, <2>3 DEF Inv, Shape
<1>9. Once'
  <2>1. left' \cap (ToSet(mediaBatch') \cup ToSet(jsonBatch')) = {}
    BY <1>1, <1>4, <1>5, <1>6, <1>7 DEF Inv, Once
  <2>. QED  BY <1>6, <1>7, <2>1 DEF Once
<1>10. Seen'
  <2>. SUFFICES ASSUME ~missed, NEW d \in tree, d \notin left \ {e}
                PROVE  /\ AsMedia(d) => d \in Entries(media') \cup ToSet(mediaBatch')
                       /\ AsJson(d) => d \in ToSet(sidecars') \cup ToSet(jsonBatch')
    BY <1>1 DEF Seen
  <2>1. CASE d = e
    BY <1>4, <1>5, <1>6, <1>7, <2>1
  <2>2. CASE d # e
    <3>1. /\ AsMedia(d) => d \in Entries(media) \cup ToSet(mediaBatch)
          /\ AsJson(d) => d \in ToSet(sidecars) \cup ToSet(jsonBatch)
      BY <1>1, <2>2 DEF Inv, Seen
    <3>. QED  BY <1>4, <1>5, <1>6, <1>7, <3>1
  <2>. QED  BY <2>1, <2>2
<1>11. Paged' /\ Indexed'
  BY <1>1 DEF Paged, Indexed
<1>12. ByMatcher'
  BY <1>1, <1>6, GrownByMatcher DEF Inv
<1>13. Typed'
  <2>1. /\ left' \subseteq left /\ input' = e.input /\ e.input \in Inputs
        /\ UNCHANGED <<tree, cancel, sessions, lastId, index, order>>
    BY DEF ScanEntry, matcher, Inv, Typed
  <2>2. /\ mediaBatch' = <<>> \/ ~Full(mediaBatch')
        /\ jsonBatch' = <<>> \/ ~Full(jsonBatch')
    BY DEF ScanEntry
  <2>3. Len(mediaBatch') < BatchCap /\ Len(jsonBatch') < BatchCap
    BY <1>6, <1>7, <2>2, Room
  <2>4. lastId' <= Len(media')
    <3>1. Len(media) \in Nat /\ Len(media') \in Nat /\ Len(media) <= Len(media')
      BY <1>2, <1>6, ListFacts DEF Grown, IsRows
    <3>. QED  BY <2>1, <3>1 DEF Inv, Shape, Typed
  <2>. QED  BY <2>1, <2>3, <2>4 DEF Inv, Typed
<1>. QED  BY <1>6, <1>8, <1>9, <1>10, <1>11, <1>12, <1>13 DEF Inv

LEMMA InvScanEnd ==
    ASSUME Inv, ScanEnd
    PROVE  Inv' /\ Grown(media', media)
<1>1. /\ at = "scan" /\ at' = "scanned" /\ left' = left
      /\ media' = InsertMedia(media, mediaBatch) /\ mediaBatch' = <<>>
      /\ sidecars' = InsertJson(sidecars, jsonBatch) /\ jsonBatch' = <<>>
      /\ missed' = (missed \/ left # {})
      /\ UNCHANGED <<tree, partial, lastId>>
  BY DEF ScanEnd, matcher
<1>2. /\ IsRows(media) /\ OneRowEach(media) /\ IsList(sidecars) /\ Distinct(sidecars)
      /\ IsList(mediaBatch) /\ Distinct(mediaBatch) /\ IsList(jsonBatch) /\ Distinct(jsonBatch)
  BY DEF Inv, Shape, Once
<1>3. /\ Grown(media', media) /\ OneRowEach(media') /\ IsList(mediaBatch') /\ Distinct(mediaBatch')
      /\ Entries(media') \cup ToSet(mediaBatch') = Entries(media) \cup ToSet(mediaBatch)
  BY <1>1, <1>2, StoreMedia
<1>4. /\ IsList(sidecars') /\ Distinct(sidecars') /\ IsList(jsonBatch') /\ Distinct(jsonBatch')
      /\ ToSet(sidecars') \cup ToSet(jsonBatch') = ToSet(sidecars) \cup ToSet(jsonBatch)
  <2>1. IsList(sidecars') /\ Distinct(sidecars') /\ ToSet(sidecars') = ToSet(sidecars) \cup ToSet(jsonBatch)
    <3>1. PICK all : all = InsertJson(sidecars, jsonBatch)
      OBVIOUS
    <3>2. IsList(all) /\ Distinct(all) /\ ToSet(all) = ToSet(sidecars) \cup ToSet(jsonBatch)
      BY <1>2, <3>1, InsertJsonFacts
    <3>. QED  BY <1>1, <3>1, <3>2
  <2>2. IsList(jsonBatch') /\ Distinct(jsonBatch') /\ ToSet(jsonBatch') = {}
    BY <1>1, Nothing DEF Distinct, ToSet
  <2>. QED  BY <2>1, <2>2
<1>5. Shape'
  <2>1. IsRows(media')
    BY <1>3 DEF Grown
  <2>2. missed' \in BOOLEAN
    BY <1>1
  <2>. QED  BY <1>1, <1>3, <1>4, <2>1, <2>2 DEF Inv, Shape
<1>6. Once'
  <2>1. ToSet(mediaBatch') = {} /\ ToSet(jsonBatch') = {}
    BY <1>1 DEF ToSet
  <2>. QED  BY <1>3, <1>4, <2>1 DEF Once
<1>7. Seen'
  BY <1>1, <1>3, <1>4 DEF Inv, Seen
<1>8. Paged' /\ Indexed'
  BY <1>1 DEF Paged, Indexed
<1>9. ByMatcher'
  BY <1>1, <1>3, GrownByMatcher DEF Inv
<1>10. Typed'
  <2>1. /\ mediaBatch' = <<>> /\ jsonBatch' = <<>>
        /\ UNCHANGED <<tree, left, input, cancel, sessions, lastId, index, order>>
    BY DEF ScanEnd, matcher
  <2>2. Len(mediaBatch') < BatchCap /\ Len(jsonBatch') < BatchCap
    BY <2>1, Room
  <2>3. lastId' <= Len(media')
    <3>1. Len(media) \in Nat /\ Len(media') \in Nat /\ Len(media) <= Len(media')
      BY <1>2, <1>3, ListFacts DEF Grown, IsRows
    <3>. QED  BY <2>1, <3>1 DEF Inv, Shape, Typed
  <2>. QED  BY <2>1, <2>2, <2>3 DEF Inv, Typed
<1>. QED  BY <1>3, <1>5, <1>6, <1>7, <1>8, <1>9, <1>10 DEF Inv

LEMMA InvLoadSidecars ==
    ASSUME Inv, LoadSidecars
    PROVE  Inv'
<1>. USE DEF LoadSidecars, walk
<1>1. Shape'
  BY DEF Inv, Shape
<1>2. Once' /\ Seen'
  BY DEF Inv, Once, Seen
<1>3. Paged'
  <2>1. \A i \in DOMAIN media : ~(i <= 0)
    BY ListFacts DEF Inv, Shape, IsRows
  <2>. QED  BY <2>1 DEF Paged
<1>4. \A f \in Folders : IsOrder(order'[f], ToSet(NamesIn(f)))
  <2>. SUFFICES ASSUME NEW f \in Folders PROVE IsOrder(order'[f], ToSet(NamesIn(f)))
    OBVIOUS
  <2>1. /\ order' \in [Folders -> UNION {SetToSeqs(ToSet(NamesIn(g))) : g \in Folders}]
        /\ ToSet(order'[f]) = ToSet(NamesIn(f))
    OBVIOUS
  <2>2. PICK g \in Folders : order'[f] \in SetToSeqs(ToSet(NamesIn(g)))
    BY <2>1
  <2>3. IsList(NamesIn(g))
    BY NamesInFacts DEF Inv, Shape
  <2>4. IsList(order'[f]) /\ Distinct(order'[f])
    BY <2>2, <2>3, SetToSeqsFacts
  <2>. QED  BY <2>1, <2>4 DEF IsOrder
<1>5. Folders' = Folders /\ \A f : NamesIn(f)' = NamesIn(f)
  BY DEF Folders, NamesIn
<1>6. Indexed'
  <2>1. ~partial' => ~missed'
    BY DEF Inv, Shape
  <2>2. index' = [f \in Folders' |-> IndexOf(NamesIn(f)')]
    BY <1>5
  <2>. QED  BY <1>4, <1>5, <2>1, <2>2 DEF Indexed
<1>7. ByMatcher'
  <2>. SUFFICES ASSUME NEW i \in Settled'
                PROVE  Came(media[i].entry, SidecarsOf(media[i].entry), ~partial, media[i].match)'
    BY DEF ByMatcher
  <2>1. i \in Settled /\ media' = media /\ SidecarsOf(media[i].entry)' = SidecarsOf(media[i].entry)
    BY DEF Settled, SidecarsOf
  <2>2. ~partial' => ~partial
    BY DEF Inv, Shape
  <2>3. Came(media[i].entry, SidecarsOf(media[i].entry), ~partial, media[i].match)
    BY <2>1 DEF Inv, ByMatcher
  <2>4. Came(media[i].entry, SidecarsOf(media[i].entry), ~partial', media[i].match)
    BY <2>2, <2>3, CameWeaker
  <2>. QED  BY <2>1, <2>4
<1>8. Typed'
  <2>1. lastId' <= Len(media')
    BY ListFacts DEF Inv, Shape, IsRows
  <2>2. ASSUME NEW f \in DOMAIN index'
        PROVE  index'[f].names = ToSet(order'[f])
    <3>1. f \in Folders /\ index'[f] = IndexOf(NamesIn(f))
      OBVIOUS
    <3>2. index'[f].names = ToSet(NamesIn(f))
      BY <3>1 DEF IndexOf
    <3>. QED  BY <3>1, <3>2
  <2>. QED  BY <2>1, <2>2 DEF Inv, Typed
<1>. QED  BY <1>1, <1>2, <1>3, <1>6, <1>7, <1>8 DEF Inv

(* The matcher works on all sidecars of a folder, if the session saw them.  *)
LEMMA MatchedFacts ==
    ASSUME Inv, at = "match", NEW e \in tree
    PROVE  /\ Matched(e) # Pending
           /\ Came(e, SidecarsOf(e), ~partial, Matched(e))
<1>. PICK f, names, ix, ord : /\ f = Folder(e) /\ names = ToSet(NamesIn(f))
                             /\ ix = index[f] /\ ord = order[f]
  OBVIOUS
<1>1. f \in Folders
  BY DEF Folders
<1>2. IsList(NamesIn(f)) /\ names = {d.name : d \in {d \in ToSet(sidecars) : Folder(d) = f}}
  BY NamesInFacts DEF Inv, Shape
<1>3. IsIndex(ix, names)
  <2>1. ix = IndexOf(NamesIn(f))
    BY <1>1 DEF Inv, Indexed
  <2>. QED  BY <1>2, <2>1, IndexOfFacts
<1>4. IsOrder(ord, names)
  BY <1>1 DEF Inv, Indexed
<1>5. names \subseteq SidecarsOf(e)
  <2>1. ToSet(sidecars) \subseteq {d \in tree : AsJson(d)}
    BY DEF Inv, Shape
  <2>. QED  BY <1>2, <2>1 DEF SidecarsOf
<1>6. ~partial => names = SidecarsOf(e)
  <2>. SUFFICES ASSUME ~partial PROVE names = SidecarsOf(e)
    OBVIOUS
  <2>1. ~missed
    BY DEF Inv, Indexed
  <2>2. ToSet(sidecars) = {d \in tree : AsJson(d)}
    <3>1. jsonBatch = <<>> /\ left = {}
      BY <2>1 DEF Inv, Shape, Seen
    <3>2. ToSet(jsonBatch) = {}
      BY <3>1 DEF ToSet
    <3>. QED  BY <2>1, <3>1, <3>2 DEF Inv, Shape, Seen
  <2>. QED  BY <1>2, <2>2 DEF SidecarsOf
<1>7. \A n \in names : IsSidecar(n)
  <2>1. \A n \in SidecarsOf(e) : \E d \in tree : IsJson(d) /\ n = d.name
    BY DEF SidecarsOf, AsJson
  <2>2. tree \in Trees
    BY DEF Inv, Typed
  <2>. QED  BY <1>5, <2>1, <2>2, TreeNames
<1>8. Searched(ix, ord, names)
  BY <1>3, <1>4, <1>7 DEF IsOrder, Searched
<1>9. Matched(e) = FindBestMatch(ix, ord, e.name, ExtOf(e))
  BY DEF Matched
<1>10. Came(e, SidecarsOf(e), ~partial, Matched(e))
  BY <1>5, <1>6, <1>8, <1>9 DEF Came
<1>. QED  BY <1>10, CameNotPending DEF Inv, Typed

(* What a batch does to the rows. *)
LEMMA MatchBatchRows ==
    ASSUME Inv, MatchBatch
    PROVE  /\ IsRows(media') /\ DOMAIN media' = DOMAIN media
           /\ \A i \in DOMAIN media :
                 /\ media'[i].entry = media[i].entry
                 /\ IF i \in NextBatch(media, lastId)
                    THEN media[i].match = Pending /\ media'[i].match = Matched(media[i].entry)
                    ELSE media'[i] = media[i]
<1>. DEFINE ids == NextBatch(media, lastId)
            n == Len(media)
<1>1. IsRows(media) /\ n \in Nat /\ DOMAIN media = 1..n
  BY ListFacts DEF Inv, Shape, IsRows
<1>2. \A i \in ids : i \in DOMAIN media /\ media[i].match = Pending
  BY DEF NextBatch
<1>. HIDE DEF ids, n
<1>3. /\ DOMAIN media' = 1..n
      /\ media' = [i \in 1..n |-> media'[i]]
      /\ \A i \in 1..n : media'[i] = IF i \in ids THEN [media[i] EXCEPT !.match = Matched(media[i].entry)]
                                     ELSE media[i]
  BY <1>1 DEF MatchBatch, ids
<1>4. ASSUME NEW i \in DOMAIN media
      PROVE  /\ media'[i].entry = media[i].entry
             /\ media'[i] = [entry |-> media'[i].entry, match |-> media'[i].match]
             /\ IF i \in ids THEN media[i].match = Pending /\ media'[i].match = Matched(media[i].entry)
                ELSE media'[i] = media[i]
  <2>1. PICK x, y : media[i] = [entry |-> x, match |-> y]
    BY <1>1 DEF IsRows
  <2>2. CASE i \in ids
    <3>1. media'[i] = [entry |-> x, match |-> Matched(media[i].entry)]
      BY <1>1, <1>3, <2>1, <2>2
    <3>. QED  BY <1>2, <2>1, <2>2, <3>1
  <2>3. CASE i \notin ids
    <3>1. media'[i] = [entry |-> x, match |-> y]
      BY <1>1, <1>3, <2>1, <2>3
    <3>. QED  BY <2>1, <2>3, <3>1
  <2>. QED  BY <2>2, <2>3
<1>5. IsList(media')
  BY <1>1, <1>3, ListOf
<1>6. IsRows(media')
  BY <1>1, <1>3, <1>4, <1>5 DEF IsRows
<1>. QED  BY <1>1, <1>3, <1>4, <1>6 DEF ids

LEMMA InvMatchBatch ==
    ASSUME Inv, MatchBatch
    PROVE  Inv'
<1>. DEFINE ids == NextBatch(media, lastId)
            open == {i \in DOMAIN media : media[i].match = Pending /\ i > lastId}
<1>1. /\ at = "match" /\ at' = "match" /\ ids # {} /\ lastId' = Max(ids)
      /\ UNCHANGED <<tree, sidecars, left, input, mediaBatch, jsonBatch, missed, partial, cancel,
                     index, order, sessions>>
  BY DEF MatchBatch, walk
<1>2. /\ IsRows(media') /\ DOMAIN media' = DOMAIN media
      /\ \A i \in DOMAIN media :
            /\ media'[i].entry = media[i].entry
            /\ IF i \in ids THEN media[i].match = Pending /\ media'[i].match = Matched(media[i].entry)
               ELSE media'[i] = media[i]
  BY MatchBatchRows
<1>3. /\ Len(media) \in Nat /\ DOMAIN media = 1..Len(media) /\ lastId \in Nat
      /\ \A i \in DOMAIN media : media[i].entry \in tree
  BY ListFacts DEF Inv, Shape, IsRows, Entries
<1>4. ids \subseteq open /\ \A i \in open, k \in ids : i <= k => i \in ids
  <2>1. IsList(media)
    BY DEF Inv, Shape, IsRows
  <2>. QED  BY <2>1, NextBatchFacts
<1>5. Max(ids) \in ids /\ ids \subseteq DOMAIN media
  <2>1. ids \in SUBSET (1..Len(media))
    BY <1>3, <1>4
  <2>. HIDE DEF ids
  <2>. QED  BY <1>1, <1>3, <2>1, Largest
<1>. HIDE DEF ids
<1>6. Entries(media') = Entries(media)
  BY <1>2 DEF Entries
<1>7. Shape'
  <2>1. lastId' \in Nat
    BY <1>1, <1>3, <1>5
  <2>. QED  BY <1>1, <1>2, <1>6, <2>1 DEF Inv, Shape
<1>8. Once'
  BY <1>1, <1>2 DEF Inv, Once, OneRowEach
<1>9. Seen'
  BY <1>1, <1>6 DEF Inv, Seen
<1>10. \A i \in ids : media'[i].match # Pending
  BY <1>1, <1>2, <1>3, <1>5, MatchedFacts
<1>11. Paged'
  <2>. SUFFICES ASSUME NEW i \in DOMAIN media, i <= Max(ids)
                PROVE  media'[i].match # Pending
    BY <1>1, <1>2 DEF Paged
  <2>1. CASE i \in ids
    BY <1>10, <2>1
  <2>2. CASE i \notin ids
    <3>1. i \notin open
      BY <1>4, <1>5, <2>2
    <3>2. media[i].match # Pending
      <4>1. i <= lastId \/ i > lastId
        BY <1>3
      <4>. QED  BY <1>1, <3>1, <4>1 DEF Inv, Paged
    <3>. QED  BY <1>2, <2>2, <3>2
  <2>. QED  BY <2>1, <2>2
<1>12. Indexed'
  <2>1. Folders' = Folders /\ \A f : NamesIn(f)' = NamesIn(f)
    BY <1>1 DEF Folders, NamesIn
  <2>2. index' = [f \in Folders' |-> IndexOf(NamesIn(f)')]
    BY <1>1, <2>1 DEF Inv, Indexed
  <2>3. \A f \in Folders' : IsOrder(order'[f], ToSet(NamesIn(f)'))
    BY <1>1, <2>1 DEF Inv, Indexed
  <2>4. ~partial' => ~missed'
    BY <1>1 DEF Inv, Indexed
  <2>. QED  BY <2>2, <2>3, <2>4 DEF Indexed
<1>13. ByMatcher'
  <2>. SUFFICES ASSUME NEW i \in DOMAIN media, media'[i].match # Pending
                PROVE  Came(media'[i].entry, SidecarsOf(media'[i].entry), ~partial, media'[i].match)
    <3>1. \A e : SidecarsOf(e)' = SidecarsOf(e)
      BY <1>1 DEF SidecarsOf
    <3>. QED  BY <1>1, <1>2, <3>1 DEF ByMatcher, Settled
  <2>1. CASE i \in ids
    <3>1. Came(media[i].entry, SidecarsOf(media[i].entry), ~partial, Matched(media[i].entry))
      BY <1>1, <1>3, MatchedFacts
    <3>. QED  BY <1>2, <2>1, <3>1
  <2>2. CASE i \notin ids
    <3>1. media'[i] = media[i]
      BY <1>2, <2>2
    <3>2. i \in Settled
      BY <3>1 DEF Settled
    <3>3. Came(media[i].entry, SidecarsOf(media[i].entry), ~partial, media[i].match)
      BY <3>2 DEF Inv, ByMatcher
    <3>. QED  BY <3>1, <3>3
  <2>. QED  BY <2>1, <2>2
<1>14. Typed'
  <2>1. lastId' <= Len(media')
    <3>1. IsList(media')
      BY <1>2 DEF IsRows
    <3>2. Len(media') \in Nat /\ lastId' \in 1..Len(media')
      BY <1>1, <1>2, <1>5, <3>1, ListFacts
    <3>. QED  BY <3>2
  <2>. QED  BY <1>1, <2>1 DEF Inv, Typed
<1>. QED  BY <1>7, <1>8, <1>9, <1>11, <1>12, <1>13, <1>14 DEF Inv

LEMMA InvMatchEnd ==
    ASSUME Inv, MatchEnd
    PROVE  Inv'
<1>. USE DEF MatchEnd, walk, matcher
<1>1. Shape' /\ Once' /\ Seen' /\ Indexed'
  BY DEF Inv, Shape, Once, Seen, Indexed
<1>2. Paged'
  <2>1. IsList(media)
    BY DEF Inv, Shape, IsRows
  <2>2. {i \in DOMAIN media : media[i].match = Pending /\ i > lastId} = {}
    BY <2>1, NextBatchFacts
  <2>3. \A i \in DOMAIN media : i <= lastId \/ i > lastId
    BY <2>1, ListFacts DEF Inv, Shape
  <2>. QED  BY <2>2, <2>3 DEF Inv, Paged
<1>3. ByMatcher'
  BY SameByMatcher DEF Inv
<1>4. Typed'
  BY DEF Inv, Typed
<1>. QED  BY <1>1, <1>2, <1>3, <1>4 DEF Inv

LEMMA InvForgotten ==
    ASSUME Inv, at' = "closed", Forgotten, UNCHANGED <<tree, media, sidecars, partial, cancel, sessions>>
    PROVE  Inv'
<1>. USE DEF Forgotten
<1>1. ToSet(<<>>) = {} /\ IsList(<<>>) /\ Distinct(<<>>)
  BY Nothing DEF ToSet, Distinct
<1>2. Shape' /\ Once'
  BY <1>1 DEF Inv, Shape, Once
<1>3. Seen' /\ Paged' /\ Indexed'
  BY DEF Seen, Paged, Indexed
<1>4. ByMatcher'
  BY SameByMatcher DEF Inv
<1>5. Typed'
  <2>1. Len(<<>>) < BatchCap /\ Len(media) \in Nat
    BY Room, ListFacts DEF Inv, Shape, IsRows
  <2>2. lastId' <= Len(media')
    BY <2>1
  <2>. QED  BY <2>1, <2>2 DEF Inv, Typed
<1>. QED  BY <1>2, <1>3, <1>4, <1>5 DEF Inv

LEMMA InvCancel ==
    ASSUME Inv, NEW to \in BOOLEAN, Cancel(to)
    PROVE  Inv'
<1>. USE DEF Cancel, walk, matcher
<1>1. Shape' /\ Once' /\ Seen' /\ Paged' /\ Indexed'
  BY DEF Inv, Shape, Once, Seen, Paged, Indexed
<1>2. ByMatcher'
  BY SameByMatcher DEF Inv
<1>3. Typed'
  BY DEF Inv, Typed
<1>. QED  BY <1>1, <1>2, <1>3 DEF Inv

(* A step leaves a row with its match alone. *)
Kept ==
    \A i \in DOMAIN media :
        /\ i \in DOMAIN media' /\ media'[i].entry = media[i].entry
        /\ media[i].match # Pending => media'[i].match = media[i].match

LEMMA InvNext ==
    ASSUME Inv, [Next]_vars
    PROVE  Inv' /\ Kept
<1>1. ASSUME NEW selected \in SUBSET Inputs, Open(selected) PROVE Inv' /\ Kept
  BY <1>1, InvOpen DEF Open, Kept
<1>2. ASSUME NEW e \in left, Unreadable(e) PROVE Inv' /\ Kept
  BY <1>2, InvUnreadable DEF Unreadable, Kept
<1>3. ASSUME NEW e \in left, ScanEntry(e) PROVE Inv' /\ Kept
  BY <1>3, InvScanEntry DEF Grown, Kept
<1>4. CASE ScanEnd
  BY <1>4, InvScanEnd DEF Grown, Kept
<1>5. CASE StopCancelled \/ End
  BY <1>5, InvForgotten DEF StopCancelled, End, Kept
<1>6. CASE LoadSidecars
  BY <1>6, InvLoadSidecars DEF LoadSidecars, Kept
<1>7. CASE MatchBatch
  BY <1>7, InvMatchBatch, MatchBatchRows DEF Kept
<1>8. CASE MatchEnd
  BY <1>8, InvMatchEnd DEF MatchEnd, Kept
<1>9. ASSUME NEW to \in BOOLEAN, Cancel(to) PROVE Inv' /\ Kept
  BY <1>9, InvCancel DEF Cancel, Kept
<1>10. CASE UNCHANGED vars
  <2>. USE <1>10 DEF vars, walk, matcher
  <2>1. Shape' /\ Once'
    BY DEF Inv, Shape, Once
  <2>2. Seen' /\ Paged'
    BY DEF Inv, Seen, Paged
  <2>3. Indexed'
    BY DEF Inv, Indexed, Folders, NamesIn
  <2>4. ByMatcher'
    BY SameByMatcher DEF Inv
  <2>5. Typed'
    BY DEF Inv, Typed
  <2>. QED  BY <2>1, <2>2, <2>3, <2>4, <2>5 DEF Inv, Kept
<1>. QED
  BY <1>1, <1>2, <1>3, <1>4, <1>5, <1>6, <1>7, <1>8, <1>9, <1>10 DEF Next

-----------------------------------------------------------------------------
(* Theorems.                                                                *)

LEMMA Invariance == Spec => []Inv
<1>1. Inv /\ [Next]_vars => Inv'
  BY InvNext
<1>. QED  BY <1>1, InvInit, PTL DEF Spec

(* What the invariant says of a row with a match. *)
LEMMA SettledCame ==
    ASSUME Inv, NEW i \in Settled
    PROVE  /\ tree \in Trees /\ media[i].entry \in tree
           /\ Came(media[i].entry, SidecarsOf(media[i].entry), ~partial, media[i].match)
           /\ ~partial => Came(media[i].entry, SidecarsOf(media[i].entry), TRUE, media[i].match)
<1>1. tree \in Trees /\ media[i].entry \in tree
  BY DEF Inv, Shape, Typed, Entries, Settled
<1>2. Came(media[i].entry, SidecarsOf(media[i].entry), ~partial, media[i].match)
  BY DEF Inv, ByMatcher
<1>3. ASSUME ~partial
      PROVE  Came(media[i].entry, SidecarsOf(media[i].entry), TRUE, media[i].match)
  <2>1. TRUE => ~partial
    BY <1>3
  <2>. QED  BY <1>2, <2>1, CameWeaker
<1>. QED  BY <1>1, <1>2, <1>3

(* Whatever is scanned again, resumed, cancelled or matched again, with any *)
(* inputs: a row keeps its id and its entry, and a match that was written   *)
(* is never written again (INSERT OR IGNORE, and keyset pagination over the *)
(* pending rows).                                                           *)
THEOREM KeptRows == Spec => RowsAreKept
<1>1. Inv /\ [Next]_vars => [Kept]_vars
  BY InvNext
<1>2. [][Kept]_vars => RowsAreKept
  BY PTL DEF RowsAreKept, Kept
<1>. QED  BY <1>1, <1>2, Invariance, PTL DEF Spec

(* When a session that left no entry unread has matched, each picture and   *)
(* video and each sidecar has exactly one row - but none at all the entries *)
(* of archives that the scan skips for two dots in their path - and no row  *)
(* is without its match, whatever the earlier sessions left behind and      *)
(* however the batches fall (scan_inputs and run_matching_phase).           *)
THEOREM ImportsAreComplete == Spec => []ImportIsComplete
<1>1. Inv => ImportIsComplete
  <2>. SUFFICES ASSUME Inv, at = "matched", ~missed
                PROVE  /\ \A e \in tree : IsMedia(e) =>
                             Cardinality({i \in DOMAIN media : media[i].entry = e}) = IF Skipped(e) THEN 0 ELSE 1
                       /\ \A e \in tree : IsJson(e) =>
                             Cardinality({i \in DOMAIN sidecars : sidecars[i] = e}) = IF Skipped(e) THEN 0 ELSE 1
                       /\ \A i \in DOMAIN media : media[i].match # Pending
    BY DEF ImportIsComplete
  <2>1. mediaBatch = <<>> /\ jsonBatch = <<>> /\ left = {}
    BY DEF Inv, Shape, Seen
  <2>2. ToSet(mediaBatch) = {} /\ ToSet(jsonBatch) = {}
    BY <2>1 DEF ToSet
  <2>3. \A e \in tree : /\ AsMedia(e) => e \in Entries(media)
                        /\ AsJson(e) => e \in ToSet(sidecars)
    BY <2>1, <2>2 DEF Inv, Seen
  <2>4. \A e \in tree : Skipped(e) => e \notin Entries(media) /\ e \notin ToSet(sidecars)
    BY DEF Inv, Shape, AsJson
  <2>5. ASSUME NEW e \in tree, IsMedia(e)
        PROVE  Cardinality({i \in DOMAIN media : media[i].entry = e}) = IF Skipped(e) THEN 0 ELSE 1
    <3>1. CASE Skipped(e)
      <4>1. {i \in DOMAIN media : media[i].entry = e} = {}
        BY <2>4, <3>1 DEF Entries
      <4>. QED  BY <3>1, <4>1, FS_EmptySet
    <3>2. CASE ~Skipped(e)
      <4>1. PICK k \in DOMAIN media : media[k].entry = e
        BY <2>3, <2>5, <3>2 DEF Entries, AsMedia
      <4>2. {i \in DOMAIN media : media[i].entry = e} = {k}
        BY <4>1 DEF Inv, Once, OneRowEach
      <4>. QED  BY <3>2, <4>2, FS_Singleton
    <3>. QED  BY <3>1, <3>2
  <2>6. ASSUME NEW e \in tree, IsJson(e)
        PROVE  Cardinality({i \in DOMAIN sidecars : sidecars[i] = e}) = IF Skipped(e) THEN 0 ELSE 1
    <3>1. CASE Skipped(e)
      <4>1. {i \in DOMAIN sidecars : sidecars[i] = e} = {}
        BY <2>4, <3>1 DEF ToSet
      <4>. QED  BY <3>1, <4>1, FS_EmptySet
    <3>2. CASE ~Skipped(e)
      <4>1. PICK k \in DOMAIN sidecars : sidecars[k] = e
        BY <2>3, <2>6, <3>2 DEF ToSet, AsJson
      <4>2. {i \in DOMAIN sidecars : sidecars[i] = e} = {k}
        BY <4>1 DEF Inv, Once, Distinct
      <4>. QED  BY <3>2, <4>2, FS_Singleton
    <3>. QED  BY <3>1, <3>2
  <2>7. \A i \in DOMAIN media : media[i].match # Pending
    BY DEF Inv, Paged
  <2>. QED  BY <2>5, <2>6, <2>7
<1>. QED  BY <1>1, Invariance, PTL

(* As long as no matching started without some entry, a file gets the       *)
(* sidecar of its own name if there is one, and a file that has a number    *)
(* gets no sidecar of another number while there is one of its own          *)
(* (find_best_match, over the index that Matcher::new builds).              *)
THEOREM OwnSidecarsWin == Spec => []OwnSidecarWins
<1>1. Inv => OwnSidecarWins
  <2>1. ASSUME Inv, ~partial, NEW i \in Settled
        PROVE  OwnFound(media[i].entry, SidecarsOf(media[i].entry), media[i].match)
    BY <2>1, SettledCame, CameOwn
  <2>. QED  BY <2>1 DEF OwnFound, Mine, OwnSidecarWins
<1>. QED  BY <1>1, Invariance, PTL

(* The rows and the batches hold entries of the inputs, with matches of the *)
(* known tiers and a confidence of at most one hundred; a full batch is     *)
(* never kept; the index and the list of a folder's sidecars are of the     *)
(* same names.  The confidence of a guess is computed in u8 as 100 minus    *)
(* ten times the distance (matcher.rs, fuzzy matching): it is in range if   *)
(* the configured threshold is at most ten.                                 *)
THEOREM ImportTypes ==
    ASSUME Threshold <= 10
    PROVE  Spec => []TypeOK
<1>1. Inv => TypeOK
  <2>. SUFFICES ASSUME Inv PROVE TypeOK
    OBVIOUS
  <2>1. ASSUME NEW i \in DOMAIN media
        PROVE  /\ media[i].entry \in tree
               /\ media[i].match.tier \in -1..7 /\ media[i].match.confidence \in 0..100
    <3>1. media[i].entry \in tree
      BY DEF Inv, Shape, Entries
    <3>2. CASE media[i].match = Pending
      BY <3>1, <3>2 DEF Pending
    <3>3. CASE i \in Settled
      <4>1. media[i].match.tier \in 0..7 /\ media[i].match.confidence \in 0..100
        BY <3>3, SettledCame, CameSure
      <4>. QED  BY <3>1, <4>1
    <3>. QED  BY <3>2, <3>3 DEF Settled
  <2>2. ToSet(sidecars) \cup ToSet(mediaBatch) \cup ToSet(jsonBatch) \cup left \subseteq tree
    BY DEF Inv, Shape
  <2>3. lastId \in 0..Len(media)
    BY ListFacts DEF Inv, Shape, Typed, IsRows
  <2>. QED  BY <2>1, <2>2, <2>3 DEF Inv, Shape, Typed, TypeOK
<1>. QED  BY <1>1, Invariance, PTL

(* As long as no matching started without some entry, every match is what   *)
(* one pass over all inputs finds: neither the order of the walk or of the  *)
(* hash map that Matcher::new fills, nor the batches and sessions show      *)
(* (run_matching_phase), unless two sidecars of a folder differ in case     *)
(* only.                                                                    *)
THEOREM MatchesOnePass == Spec => []MatchesAreOnePass
<1>1. Inv => MatchesAreOnePass
  <2>1. ASSUME Inv, ~partial, NEW i \in Settled, CaseDistinct(SidecarsOf(media[i].entry))
        PROVE  media[i].match = OnePass(media[i].entry)
    BY <2>1, SettledCame, CameOnePass
  <2>. QED  BY <2>1 DEF MatchesAreOnePass
<1>. QED  BY <1>1, Invariance, PTL

(* A match of confidence 100 comes from one of the tiers 1 to 5, and its    *)
(* sidecar begins with the letters of the file's name; likeness never is    *)
(* that sure, because a sidecar at distance zero is found by its name       *)
(* (find_best_match).  At a distance of 128 the confidence would be a       *)
(* hundred again, modulo 256; the threshold must exclude it.                *)
THEOREM SureSeries ==
    ASSUME Threshold < 128
    PROVE  Spec => []SureIsSameSeries
<1>1. Inv => SureIsSameSeries
  <2>1. ASSUME Inv, NEW i \in Settled, media[i].match.confidence = 100
        PROVE  media[i].match.tier \in 1..5 /\ Series(media[i].match.json) = Series(media[i].entry.name)
    <3>1. PICK e, m : e = media[i].entry /\ m = media[i].match
      OBVIOUS
    <3>2. tree \in Trees /\ e \in tree /\ Came(e, SidecarsOf(e), ~partial, m)
      BY <2>1, <3>1, SettledCame
    <3>3. m.tier \in 1..5 /\ Series(m.json) = Series(e.name)
      BY <2>1, <3>1, <3>2, CameSure
    <3>. QED  BY <3>1, <3>3
  <2>. QED  BY <2>1 DEF SureIsSameSeries
<1>. QED  BY <1>1, Invariance, PTL

(* As long as no matching started without some entry, a match by likeness   *)
(* is nearer than every other sidecar of the folder, and a match by the     *)
(* beginning of the name is the only sidecar of that beginning (the tie     *)
(* check of fuzzy matching and the single hit of truncation matching).      *)
THEOREM GuessesUnique == Spec => []GuessesAreUnique
<1>1. Inv => GuessesAreUnique
  <2>1. ASSUME Inv, ~partial, NEW i \in Settled
        PROVE  Only(media[i].entry, SidecarsOf(media[i].entry), media[i].match)
    BY <2>1, SettledCame, CameOnly
  <2>2. ASSUME NEW e, NEW m, Only(e, SidecarsOf(e), m)
        PROVE  LET stem == Stem(e.name)
                   others == SidecarsOf(e) \ {m.json}
                   far(json) == Distance(Lower(stem), JsonStem(json))
                   cuts == {c \in 0..Len(stem) : \E v \in ToSet(TruncatedNames(stem, ExtOf(e), c)) :
                                                    Lower(v \o JSON) = Lower(m.json)}
               IN  /\ m.tier = 7 => \A json \in others : far(json) > far(m.json)
                   /\ m.tier = 6 => \E c \in cuts : \A v \in ToSet(TruncatedNames(stem, ExtOf(e), c)) :
                                         v \o JSON \notin others
    BY <2>2 DEF Only, Far
  <2>. QED  BY <2>1, <2>2 DEF GuessesAreUnique
<1>. QED  BY <1>1, Invariance, PTL
=============================================================================
