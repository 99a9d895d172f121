----------------------------- MODULE MCOutside -----------------------------
(* Instances for TLC of what stands between gritt and the outside: the      *)
(* stream of a provider, the lines of an external agent, and what is found   *)
(* out about one.  As in MCParts, a behaviour is one component's from         *)
(* beginning to end, and all but the first share the variables v1 to v11.    *)
EXTENDS ProviderStream

CONSTANTS
    None,
    ToolCalls, MaxLines,                            \* Protocols
    Checks, Interval, StaleFallback, Evidence,      \* Discovery, with its bounds
    MaxClock, MaxNewest, MaxBegun, MaxReinstalls

VARIABLES part, v1, v2, v3, v4, v5, v6, v7, v8, v9, v10, v11

pool == <<v1, v2, v3, v4, v5, v6, v7, v8, v9, v10, v11>>

TwoCalls == {0, 1}

\* Each component's constants are what its source lets them be.  None is nothing
\* else; a refresh interval may be 0.
ASSUME ToolsAssumption ==
    /\ IsFiniteSet(ToolCalls)
    /\ None \notin {"main", "inner"} /\ \A c \in ToolCalls : None # [of |-> c]
ASSUME ChecksAssumption == Interval \in Nat /\ StaleFallback \in BOOLEAN

Lines == INSTANCE Protocols WITH
    Calls <- ToolCalls,
    protocol <- v1, session <- v2, terminal <- v3, tools <- v4, pending <- v5, out <- v6,
    verdict <- v7, gone <- v8, calls <- v9, said <- v10, lines <- v11
Found == INSTANCE Discovery WITH
    kind <- v1, clock <- v2, program <- v3, born <- v4, file <- v5, check <- v6,
    update <- v7, begun <- v8, moves <- v9

Idle1to9   == /\ v1 = None /\ v2 = None /\ v3 = None /\ v4 = None /\ v5 = None
              /\ v6 = None /\ v7 = None /\ v8 = None /\ v9 = None
Idle10to11 == v10 = None /\ v11 = None

\* A component that is not running one's own stands still at its first state.
StreamStands == Init /\ protocol = "messages"

OutsideInit ==
    \/ part = "wire"      /\ Init /\ Idle1to9 /\ Idle10to11
    \/ part = "lines"     /\ StreamStands /\ Lines!Init
    \/ part = "discovery" /\ StreamStands /\ Found!Init /\ Idle10to11

OutsideNext ==
    \/ part = "wire"      /\ Next       /\ UNCHANGED <<part, pool>>
    \/ part = "lines"     /\ Lines!Next /\ UNCHANGED <<part, vars>>
    \/ part = "discovery" /\ Found!Next /\ UNCHANGED <<part, vars, v10, v11>>

OutsideSpec == OutsideInit /\ [][OutsideNext]_<<part, vars, pool>>

(* The properties of the components, see there. *)
ReadAsMeant   == part = "lines" => Lines!ReadAsMeant
ShownIsHonest == part = "discovery" => Found!ShownIsHonest /\ Found!NoInstallerLeft
=============================================================================
