---------------------------- MODULE MCBsmpServer ----------------------------
(***************************************************************************)
(* A variable without a check, one whose check lets only 0 pass and one    *)
(* that is read-only and of the largest size; with any hosts they are      *)
(* registered in any order.  Room for one group beside the standard ones:  *)
(* two hosts that make groups of one variable, of the same size, compete   *)
(* for it.  A curve of three blocks of three bytes, or of two; for three,  *)
(* data that end within a block, with one, within the last, and beyond it. *)
(***************************************************************************)
EXTENDS BsmpCurves

CONSTANTS free, checked, fixed

MCVar == {free, checked, fixed}
MCSize == free :> 1 @@ checked :> 1 @@ fixed :> 4
MCWritable == {free, checked}
MCAccepts == free :> {0, 1} @@ checked :> {0} @@ fixed :> {0, 1}
MCRegistration == <<free, checked, fixed>>
MCChoice == {<<0>>, <<1>>}
MCData == {[i \in 1 .. n |-> 1] : n \in {1, 6, 8, 10}}
MCOtherData == {<< >>, <<2>>, [i \in 1 .. BlockSize |-> 2], [i \in 1 .. BlockSize + 1 |-> 2]}
=============================================================================
