---------------------------- MODULE MCConnectorTurn ----------------------------
(* ConnectorTurn for TLC.  Channels of one place make the full stream and the *)
(* full channel of lines ordinary.                                            *)
EXTENDS ConnectorTurn
===============================================================================
