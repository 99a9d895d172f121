---------------------------- MODULE McpRegistry ----------------------------
(***************************************************************************)
(* The names MCP tools are offered under (gritt-harness, mcp/registry.rs). *)
(*                                                                         *)
(* A name is made of the server's and the tool's, sanitized and cut to     *)
(* what a provider accepts, so two tools of one server or of two may come  *)
(* to the same base.  All tools here share one base: what is left of a     *)
(* name is its suffix.  Suffix 1 is the base itself, a number above it is  *)
(* appended.                                                               *)
(***************************************************************************)
EXTENDS Naturals, FiniteSets, SequencesExt

(* Faulty variant: the suffix counts the tools. *)
CountedName(reg) == Cardinality(reg) + 1

(* The first suffix nobody has.                                            *)
UniqueName(reg) ==
    CHOOSE n \in 1 .. Cardinality(reg) + 1 :
        /\ \A t \in reg : t.name # n
        /\ \A m \in 1 .. n - 1 : \E t \in reg : t.name = m

Insert(reg, s, tool) == reg \cup {[name |-> UniqueName(reg), srv |-> s, tool |-> tool]}

RemoveServer(reg, s) == {t \in reg : t.srv # s}

(* The registry after each of the tools of a list was inserted.            *)
Inserting(reg, s, list) ==
    LET after[i \in 0 .. Len(list)] ==
            IF i = 0 THEN reg ELSE Insert(after[i - 1], s, list[i])
    IN  after

(* remove_server followed by an insert per tool of the list.               *)
Relist(reg, s, list) == Inserting(RemoveServer(reg, s), s, list)[Len(list)]

=============================================================================
