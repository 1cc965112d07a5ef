---------------------------- MODULE MCSieveServer -----------------------------
(***************************************************************************)
(* Instances of SieveServer: k1 is accepted by Serve, d1 is given to       *)
(* ServeConn.                                                              *)
(***************************************************************************)
EXTENDS SieveServer

CONSTANTS k1, d1

MCOne    == {k1}
MCPair   == {k1, d1}
MCDirect == {d1}
MCNone   == {}
=============================================================================
