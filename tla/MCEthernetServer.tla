-------------------------- MODULE MCEthernetServer --------------------------
(***************************************************************************)
(* Two peers, one whose requests come in two segments and one whose        *)
(* requests come in one.                                                   *)
(***************************************************************************)
EXTENDS EthernetServer

CONSTANTS a, b

MCParts == [p \in Peer |-> IF p = a THEN 2 ELSE 1]
=============================================================================
