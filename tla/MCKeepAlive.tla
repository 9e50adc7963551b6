---------------------------- MODULE MCKeepAlive ----------------------------
(***************************************************************************)
(* KeepAlive.tla for a few calls against a well-behaved server: one that   *)
(* announces the end of the connection in the response that ends it.       *)
(***************************************************************************)
EXTENDS KeepAlive

Polite == AllFramings \ {"eof"}
=============================================================================
