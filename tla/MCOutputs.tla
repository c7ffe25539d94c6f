----------------------------- MODULE MCOutputs ------------------------------
(* An instance of Outputs for TLC.                                          *)
EXTENDS Outputs

Letters == [kind |-> "letters", of |-> 0]
Photo(ext) == [stem |-> <<Letters>>, ext |-> ext]

MCHome   == [f \in Files |-> "export/album"]
MCFolder == [f \in Files |-> "album"]

(* Two originals with wrong extensions that are healed to the same name, and *)
(* a file of an archive whose name and whose first number are taken in the   *)
(* output directory.                                                         *)
MCFilename == [f \in Files |-> Photo(IF f = "b" THEN "gif" ELSE "jpg")]
MCFormat   == [f \in Files |-> IF f = "c" THEN NoFormat ELSE "png"]
MCEarlier  == {[place |-> "Completed", folder |-> "album", stem |-> s, ext |-> "jpg"] :
                  s \in {<<Letters>>, <<Letters, [kind |-> "number", of |-> 1]>>}}
=============================================================================
