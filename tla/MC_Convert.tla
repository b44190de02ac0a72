----------------------------- MODULE MC_Convert -----------------------------
(* Model-checking instance of the conversions: 2-bit int64/uint64 (so     *)
(* -1 and 2^64-1 meet as -1 and 3), one non-empty ID, two list items,     *)
(* lists one longer than every capacity.                                   *)
EXTENDS Convert

MCStrings == {"", "s"}
MCSeconds == {-1, 0, 1}
MCItems   == {"x", "y"}
=============================================================================
