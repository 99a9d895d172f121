----------------------------- MODULE MCRunLoop -----------------------------
(* Small instances of the full-screen run loop. *)
EXTENDS RunLoop, TLC

=============================================================================
