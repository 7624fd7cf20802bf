--------------------------- MODULE MCValidateFile ---------------------------
(* A path, the file it names and one that may be renamed over it; headers  *)
(* of two chunks.                                                          *)
EXTENDS ValidateFile

CONSTANTS i1, i2, a, b, x
=============================================================================
