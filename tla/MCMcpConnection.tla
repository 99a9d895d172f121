--------------------------- MODULE MCMcpConnection ---------------------------
(* McpConnection for TLC.  Channels of one place and a pending table of one or *)
(* two make the full queue and the full table ordinary; callers and closers    *)
(* are model values.                                                           *)
EXTENDS McpConnection
===============================================================================
