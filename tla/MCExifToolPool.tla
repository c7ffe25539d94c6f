--------------------------- MODULE MCExifToolPool ---------------------------
(* Instances of ExifToolPool for TLC. *)
EXTENDS ExifToolPool
=============================================================================
