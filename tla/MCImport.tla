------------------------------ MODULE MCImport ------------------------------
(* Instances of Import for TLC. *)
EXTENDS Import

abc == <<"a", "b", "c">>
Entry(i, name) == [input |-> i, folder |-> "f", name |-> name, magic |-> FALSE, dots |-> FALSE]
Odd(i, name)   == [Entry(i, name) EXCEPT !.magic = TRUE]
Dotted(i, name) == [Entry(i, name) EXCEPT !.dots = TRUE]

(* Photos, videos and sidecars of one folder, as exports have them. *)
MCMedia == { abc \o <<".JPG">>, abc \o <<"(2)", ".JPG">>, abc \o <<"-edited", ".JPG">>,
             abc \o <<"(1)", "(1)", ".mov">>, <<"a", "b", "d", ".heic">> }
MCJson == { abc \o <<".JPG">> \o SM \o JSON, abc \o <<".jpg">> \o JSON, abc \o JSON,
            abc \o <<".JPG">> \o SM \o <<"(1)">> \o JSON, abc \o <<".JPG">> \o SM \o <<"(2)">> \o JSON,
            abc \o <<"(1)", ".HEIC">> \o SM \o JSON, abc \o <<"-edited", ".jpg">> \o JSON,
            <<"a", "b", ".json">>, <<"a", "b", ".supplemental-metadata", ".json">>,
            <<"a", "b", "x", ".json">>, <<"a", "b", "y", ".json">>,
            <<"A", "b", "c", ".JPG">> \o SM \o JSON }
MCTrees ==
    { {Entry("dir", m)} \cup {Entry("dir", j) : j \in S} :
          m \in MCMedia, S \in kSubset(2, MCJson) }
    \cup
    { {Entry("dir", abc \o <<".JPG">>), Entry("dir", abc \o <<"(2)", ".JPG">>)} \cup
      {Entry("dir", j) : j \in S} :
          S \in kSubset(2, { abc \o <<".JPG">> \o SM \o JSON, abc \o <<"(2)">> \o JSON,
                            abc \o <<".JPG">> \o SM \o <<"(1)">> \o JSON, abc \o JSON }) }
    \cup
    { {Entry("dir", <<"a", "b", "d", ".heic">>)} \cup
      {Entry("dir", <<"a", "b", l, ".json">>) : l \in {"x", "y", "z"}} }
    \cup
    { { Entry("dir", abc \o <<".JPG">>), Odd("dir", abc), Entry("dir", <<"x", ".bin">>),
        Entry("zip", abc \o <<".JPG">>), Odd("zip", abc), Entry("zip", abc \o <<".JPG", ".json">>) } }
    \cup
    { { Dotted("dir", abc \o <<".JPG">>), Dotted("zip", abc \o <<".JPG">>),
        Entry("zip", abc \o <<"(2)", ".JPG">>), Entry("zip", abc \o <<".JPG", ".json">>),
        Dotted("zip", abc \o <<"(2)", ".JPG">> \o SM \o JSON) } }
=============================================================================
