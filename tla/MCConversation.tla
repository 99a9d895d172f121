---------------------------- MODULE MCConversation ----------------------------
(* Conversation for TLC, twice side by side: one instance takes its bounds    *)
(* from the cfg, for what is remembered; the other changes modes.  A          *)
(* behaviour belongs to one of them from beginning to end.                    *)
EXTENDS Conversation

VARIABLE instance

Moded == INSTANCE Conversation WITH
    Protocols <- {"chat_completions", "messages"}, Grants <- {"full_access"},
    MaxTurns <- 3, MaxRounds <- 0, MaxSwitches <- 1, MaxModeChanges <- 2,
    MaxModeFailures <- 1, MaxCrashes <- 1

BothInit == \/ instance = "memory" /\ Init
            \/ instance = "mode"   /\ Moded!Init
BothNext == \/ instance = "memory" /\ Next       /\ UNCHANGED instance
            \/ instance = "mode"   /\ Moded!Next /\ UNCHANGED instance
BothSpec == BothInit /\ [][BothNext]_<<instance, vars>>
===============================================================================
