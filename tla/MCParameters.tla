---------------------------- MODULE MCParameters ----------------------------
(***************************************************************************)
(* Two hosts' worth of values; an address of the Ethernet port and the     *)
(* neighbours that are closest in the memory and next in the order.        *)
(***************************************************************************)
EXTENDS Parameters

CONSTANTS a, b

MCSettable == {"IP", "Rs485Add", "Kp1"}
=============================================================================
