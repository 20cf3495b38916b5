------------------------- MODULE MCMessagePatterns -------------------------
(* MessagePatterns with one request and one notification. *)
EXTENDS MessagePatterns
=============================================================================
