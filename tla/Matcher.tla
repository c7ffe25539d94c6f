------------------------------- MODULE Matcher -------------------------------
(***************************************************************************)
(* Which sidecar a photo or video gets: crates/core/src/matcher.rs.        *)
(*                                                                         *)
(* A file name is a sequence of parts: letters, numbers in parentheses,    *)
(* the mark of an edited picture and extensions.  Concatenating sequences  *)
(* is what format! does to names, and two names are equal exactly when     *)
(* their sequences are.  What the regular expressions find at the end of a *)
(* stem are its last parts.  A space before a number, a number that does   *)
(* not fit u32 and a truncation inside a part are left out.                *)
(***************************************************************************)
EXTENDS Integers, Sequences, FiniteSets, SequencesExt, FiniteSetsExt, TLC

CONSTANTS
    MaxNumber,      \* largest number in parentheses
    MinTruncation,  \* min_truncation_length, in parts of a stem
    Threshold,      \* levenshtein_threshold
    FuzzyCap        \* sidecars of a folder beyond which fuzzy matching is skipped (5000)

ASSUME MatcherAssumption ==
    /\ MaxNumber \in Nat /\ MaxNumber >= 5   \* the numbers 1 to 5 are always looked for
    /\ MinTruncation \in Nat
    /\ Threshold \in Nat \ {0} /\ FuzzyCap \in Nat

(* The elements of s at the places S, in their order. *)
Picked(s, S) ==
    [k \in 1..Cardinality(S) |-> s[CHOOSE i \in S : Cardinality({j \in S : j <= i}) = k]]

(* The parts.                                                               *)
Number(n)   == "(" \o ToString(n) \o ")"
Numbers     == {Number(n) : n \in 0..MaxNumber}
ValueOf(p)  == CHOOSE n \in 0..MaxNumber : Number(n) = p
Marks       == {"-edited", "-EDITED"}
ImageExts   == <<".heic", ".HEIC", ".jpg", ".JPG", ".jpeg", ".JPEG", ".png", ".PNG">>
Extensions  == ToSet(ImageExts) \cup {".mov", ".MOV", ".mp4", ".mp", ".json", ".bin"}
SM          == <<".supplemental-metadata">>
JSON        == <<".json">>

(* to_lowercase, part by part; a part in parentheses is none of the others. *)
Lowered ==
    LET upper == <<".HEIC", ".JPG", ".JPEG", ".PNG", ".MOV", "-EDITED", "A", "B", "C">>
        lower == <<".heic", ".jpg", ".jpeg", ".png", ".mov", "-edited", "a", "b", "c">>
    IN  [p \in ToSet(upper) |-> lower[CHOOSE i \in DOMAIN upper : upper[i] = p]]
ASSUME PartsAssumption ==
    Numbers \cap (Marks \cup Extensions \cup ToSet(SM) \cup DOMAIN Lowered \cup ToSet(Lowered)) = {}
LowerPart(p) == IF p \in DOMAIN Lowered THEN Lowered[p] ELSE p
Lower(name)  == [i \in DOMAIN name |-> LowerPart(name[i])]

(* Path::extension, and file_stem; a name without one is all stem. *)
ExtensionOf(name) == IF name # <<>> /\ Last(name) \in Extensions THEN <<Last(name)>> ELSE <<>>
Stem(name)        == IF ExtensionOf(name) = <<>> THEN name ELSE Front(name)

(* LAST_SUFFIX_REGEX, MULTI_SUFFIX_REGEX, EDITED_REGEX *)
IsNumbered(stem) == stem # <<>> /\ Last(stem) \in Numbers
Root(stem) ==
    LET ends == {i \in 0..Len(stem) : \A j \in (i + 1)..Len(stem) : stem[j] \in Numbers}
    IN  SubSeq(stem, 1, Min(ends))
Unnumbered(stem) == IF IsNumbered(stem) THEN Front(stem) ELSE stem
IsEdited(stem)   == Unnumbered(stem) # <<>> /\ Last(Unnumbered(stem)) \in Marks

-----------------------------------------------------------------------------
(* The names that are looked up, in their order.                            *)

(* The sidecars of a name with the extension, in lower case and without. *)
Plain(base, ext) ==
    << base \o ext \o SM, base \o Lower(ext) \o SM, base \o SM,
       base \o ext, base \o Lower(ext), base >>

(* The sidecars of the k-th of several files of one name; those that end in *)
(* ".json(k)" are looked up too, but the scanner takes none for a sidecar.  *)
Numbered(base, ext, k) ==
    LET low == Lower(ext)
        n   == <<Number(k)>>
    IN  << base \o ext \o SM \o n, base \o low \o SM \o n, base \o SM \o n,
           base \o n \o ext \o SM, base \o n \o low \o SM, base \o n \o SM,
           base \o ext \o n, base \o low \o n, base \o n,
           base \o n \o ext, base \o n \o low >>

(* A search that starts below the number of the file (a deviation, not the code). *)
SearchOrderFromBelow(n) ==
    LET down == [i \in 1..n |-> n - i]
        rest == SelectSeq(<<1, 2, 3, 4, 5>>, LAMBDA k : k > n)
    IN  SelectSeq(down \o <<n>> \o rest, LAMBDA k : k > 0 \/ n = 0)

(* search_indices: the file's number, the lower ones, and the first five. *)
SearchOrder(n) ==
    LET down == IF n > 1 THEN [i \in 1..(n - 1) |-> n - i] ELSE IF n = 0 THEN <<1>> ELSE <<>>
        have == {n} \cup ToSet(down)
    IN  <<n>> \o down \o Picked(<<1, 2, 3, 4, 5>>, 1..5 \ have)

Attempt(tier, confidence, names) ==
    [tier |-> tier, confidence |-> confidence, names |-> [i \in DOMAIN names |-> names[i] \o JSON]]

OwnAttempts(name, ext) ==
    LET stem == Stem(name)
        low  == stem \o Lower(ext)
    IN  << Attempt(1, 100, << name \o SM, name, low \o SM, low >>),
           Attempt(2, 100, << stem \o SM, stem >>) >>

(* Tier 3, for a stem that ends in a number. *)
NumberAttempts(stem, ext) ==
    IF ~IsNumbered(stem) THEN <<>> ELSE
    LET root  == Root(stem)
        order == SearchOrder(ValueOf(Last(stem)))
        inner == IF Front(stem) # root THEN << Attempt(3, 100, Plain(Front(stem), ext)) >> ELSE <<>>
    IN  inner \o [i \in DOMAIN order |-> Attempt(3, 100, Numbered(root, ext, order[i]))]
              \o << Attempt(3, 95, Plain(root, ext)) >>

(* Tier 4, for an edited picture and for its unedited original. *)
EditedAttempts(name, stem, ext) ==
    LET base  == Front(Unnumbered(stem))
        n     == <<Last(stem)>>
        dup   == IF ~IsNumbered(stem) THEN <<>>
                 ELSE << base \o ext \o SM \o n, base \o Lower(ext) \o SM \o n, base \o SM \o n,
                         base \o ext \o n, base \o Lower(ext) \o n, base \o n >>
        own   == << name \o SM, name, stem \o SM, stem >>
        marked(mark) == << stem \o mark \o ext, stem \o mark \o Lower(ext), stem \o mark >>
    IN  (IF IsEdited(stem) THEN << Attempt(4, 100, own \o dup \o Plain(base, ext)) >> ELSE <<>>)
        \o << Attempt(4, 100, marked(<<"-edited">>) \o marked(<<"-EDITED">>)) >>

(* Tier 5: a video takes the sidecar of the picture it belongs to. *)
LiveNames(stem, image) ==
    LET root  == Root(stem)
        order == SearchOrder(ValueOf(Last(stem)))
        pair(base) == << base \o image \o SM, base \o image >>
        at(k) == LET n == <<Number(k)>> IN
                 << root \o image \o SM \o n, root \o image \o n,
                    root \o n \o image \o SM, root \o n \o image >>
    IN  pair(stem) \o
        (IF ~IsNumbered(stem) THEN <<>>
         ELSE (IF Front(stem) # root THEN pair(Front(stem)) ELSE <<>>)
              \o FlattenSeq([i \in DOMAIN order |-> at(order[i])]) \o pair(root))

LiveAttempts(stem, ext) ==
    IF Lower(ext) \notin {<<".mov">>, <<".mp4">>} THEN <<>>
    ELSE [i \in DOMAIN ImageExts |-> Attempt(5, 100, LiveNames(stem, <<ImageExts[i]>>))]
         \o (IF Lower(ext) = <<".mp4">> THEN << Attempt(5, 100, << stem \o <<".mp">> >>) >> ELSE <<>>)

Attempts(name, ext) ==
    LET stem == Stem(name)
    IN  OwnAttempts(name, ext) \o NumberAttempts(stem, ext)
        \o EditedAttempts(name, stem, ext) \o LiveAttempts(stem, ext)

-----------------------------------------------------------------------------
(* The index of a folder's sidecars: their names, and which of them answers *)
(* for a name in lower case - the one inserted last.                        *)

IndexOf(names) ==
    LET last(low) == Max({i \in DOMAIN names : Lower(names[i]) = low})
    IN  [names |-> ToSet(names),
         lower |-> [low \in {Lower(n) : n \in ToSet(names)} |-> names[last(low)]]]

(* get_candidate: the name as it is, else in lower case; at most one. *)
Lookup(index, target) ==
    IF target \in index.names THEN {target}
    ELSE IF Lower(target) \in DOMAIN index.lower THEN {index.lower[Lower(target)]}
    ELSE {}

NoMatch == [json |-> <<>>, tier |-> 0, confidence |-> 0]
Candidate(json, tier, confidence) == [json |-> json, tier |-> tier, confidence |-> confidence]

(* The first name of an attempt that is there. *)
Hit(index, attempt) ==
    LET at == {i \in DOMAIN attempt.names : Lookup(index, attempt.names[i]) # {}}
    IN  IF at = {} THEN NoMatch
        ELSE Candidate(CHOOSE c \in Lookup(index, attempt.names[Min(at)]) : TRUE,
                       attempt.tier, attempt.confidence)

(* Tiers 1 to 5: the first attempt that hits. *)
Named(index, name, ext) ==
    LET tries == Attempts(name, ext)
        at    == {i \in DOMAIN tries : Hit(index, tries[i]) # NoMatch}
    IN  IF at = {} THEN NoMatch ELSE Hit(index, tries[Min(at)])

(* Tier 6: the longest beginning of the stem for which one of the six names *)
(* is found, and only one.  A sidecar that two of the names find counts     *)
(* twice: one with an extension never fits.                                 *)
TruncatedNames(stem, ext, cut) ==
    LET base == SubSeq(stem, 1, cut)
        low  == Lower(ext)
    IN  << base \o SM, base \o ext \o SM, base \o low \o SM, base, base \o ext, base \o low >>

(* The first of several will do (a deviation, not the code). *)
TruncatedHitsAny(index, stem, ext, cut) ==
    LET found == {i \in 1..6 : Lookup(index, TruncatedNames(stem, ext, cut)[i] \o JSON) # {}}
    IN  {i \in found : \A j \in found : i <= j}

(* Which of the six names find a sidecar. *)
TruncatedHits(index, stem, ext, cut) ==
    {i \in 1..6 : Lookup(index, TruncatedNames(stem, ext, cut)[i] \o JSON) # {}}

Truncated(index, name, ext) ==
    LET stem == Stem(name)
        cuts == {c \in MinTruncation..Len(stem) : Cardinality(TruncatedHits(index, stem, ext, c)) = 1}
    IN  IF Len(stem) <= MinTruncation \/ cuts = {} THEN NoMatch
        ELSE LET cut == Max(cuts)
                 v == TruncatedNames(stem, ext, cut)[CHOOSE i \in TruncatedHits(index, stem, ext, cut) : TRUE]
             IN  Candidate(CHOOSE c \in Lookup(index, v \o JSON) : TRUE, 6, 90)

-----------------------------------------------------------------------------
(* Tier 7: edit distance, in characters.                                    *)

Size(p) == IF p \in Numbers \cup {".mp"} THEN 3
           ELSE IF p \in {".jpg", ".png", ".mov", ".mp4", ".bin"} THEN 4
           ELSE IF p \in {".heic", ".jpeg", ".json"} THEN 5
           ELSE IF p = "-edited" THEN 7
           ELSE IF p = ".supplemental-metadata" THEN 22
           ELSE 1

(* The characters of each beginning of a name, and of all of it. *)
Lengths(parts) ==
    LET n[k \in 0..Len(parts)] == IF k = 0 THEN 0 ELSE n[k - 1] + Size(parts[k])
    IN  n
Length(parts) == Lengths(parts)[Len(parts)]

(* Replacing a part; of two numbers only the digit differs. *)
Replacing(p, q) ==
    IF p = q THEN 0 ELSE IF p \in Numbers /\ q \in Numbers THEN 1 ELSE Max({Size(p), Size(q)})

(* The edits that turn the first p[1] parts of s into the first p[2] of t. *)
Distance(s, t) ==
    LET d[p \in (0..Len(s)) \X (0..Len(t))] ==
            LET i == p[1]
                j == p[2]
            IN  IF i = 0 THEN Lengths(t)[j]
                ELSE IF j = 0 THEN Lengths(s)[i]
                ELSE Min({d[<<i - 1, j>>] + Size(s[i]), d[<<i, j - 1>>] + Size(t[j]),
                          d[<<i - 1, j - 1>>] + Replacing(s[i], t[j])})
    IN  d[<<Len(s), Len(t)>>]

JsonStem(json) ==
    LET base == Front(Lower(json))
    IN  IF base # <<>> /\ <<Last(base)>> = SM THEN Front(base) ELSE base

DynamicThreshold(stem) == Min({Threshold, Max({1, Length(Lower(stem)) \div 10})})

Abs(n) == IF n < 0 THEN -n ELSE n

(* Two sidecars at the same distance: the first one wins (a deviation, not the code). *)
WeighGreedily(stem, best, json) ==
    LET d == Distance(Lower(stem), JsonStem(json))
    IN  IF d < best.least THEN [least |-> d, tie |-> FALSE, json |-> json] ELSE best

(* The loop body over the candidates; a tie at the least distance is noted. *)
Weigh(stem, best, json) ==
    LET limit == DynamicThreshold(stem)
        d     == Distance(Lower(stem), JsonStem(json))
    IN  IF Abs(Length(Lower(stem)) - Length(JsonStem(json))) > limit THEN best
        ELSE IF d < best.least THEN [least |-> d, tie |-> FALSE, json |-> json]
        ELSE IF d = best.least /\ best.least <= limit THEN [best EXCEPT !.tie = TRUE]
        ELSE best

(* The loop, in the order of a hash map. *)
Best(order, stem) ==
    LET best[k \in 0..Len(order)] ==
            IF k = 0 THEN [least |-> DynamicThreshold(stem) + 1, tie |-> FALSE, json |-> <<>>]
            ELSE Weigh(stem, best[k - 1], order[k])
    IN  best[Len(order)]

(* A distance of one is still sure (a deviation, not the code). *)
FuzzySure(order, name) ==
    LET stem == Stem(name)
        best == Best(order, stem)
    IN  IF Len(order) > FuzzyCap \/ best.tie \/ best.least > DynamicThreshold(stem) THEN NoMatch
        ELSE Candidate(best.json, 7, 100 - (best.least - 1) * 10)

(* Confidence is cast to u8. *)
Fuzzy(order, name) ==
    LET stem == Stem(name)
        best == Best(order, stem)
    IN  IF Len(order) > FuzzyCap \/ best.tie \/ best.least > DynamicThreshold(stem) THEN NoMatch
        ELSE Candidate(best.json, 7, (100 - best.least * 10) % 256)

(* find_best_match *)
FindBestMatch(index, order, name, ext) ==
    LET named     == Named(index, name, ext)
        truncated == Truncated(index, name, ext)
    IN  IF index.names = {} THEN NoMatch
        ELSE IF named # NoMatch THEN named
        ELSE IF truncated # NoMatch THEN truncated
        ELSE Fuzzy(order, name)

-----------------------------------------------------------------------------
(* What a match is judged by, in properties.                                *)

(* The letters a name begins with, without numbers, marks and extensions. *)
Series(name) ==
    LET other == {i \in DOMAIN name : name[i] \in Numbers \cup Marks \cup Extensions \cup ToSet(SM)}
    IN  Lower(SubSeq(name, 1, Min(other \cup {Len(name) + 1}) - 1))
=============================================================================
