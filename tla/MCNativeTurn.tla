---------------------------- MODULE MCNativeTurn ----------------------------
(* Instances of NativeTurn for TLC: which calls a provider may ask for, each  *)
(* one a way through the gate.                                                *)
EXTENDS NativeTurn

CONSTANTS outer, blob, shell, denied, remote

MCTool == [c \in Calls |->
    CASE c \in {outer, blob}   -> "file_write"
      [] c \in {shell, denied} -> "shell"
      [] c = remote            -> "mcp"]

MCPolicy == [c \in Calls |->
    CASE c = outer  -> "allow"
      [] c = denied -> "deny"
      [] OTHER      -> "ask"]

MCTarget == [c \in Calls |-> IF c = outer THEN "outside" ELSE "inside"]

\* The file `blob` would overwrite is not text: its preview cannot be built.
MCPreviewable == [c \in Calls |-> c # blob]
=============================================================================
