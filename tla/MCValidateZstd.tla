--------------------------- MODULE MCValidateZstd ---------------------------
(* The same call on a file whose payload is a Zstandard block of two       *)
(* chunks, and which is written in place or removed.                       *)
EXTENDS ValidateFile

CONSTANTS i1, a, x
=============================================================================
