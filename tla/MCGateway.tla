------------------------------ MODULE MCGateway ------------------------------
(***************************************************************************)
(* Small instances of Gateway: interchangeable sessions with requests of   *)
(* one token.                                                              *)
(***************************************************************************)
EXTENDS Gateway, TLC

MCCosts == {[prompt_tokens |-> 1, output_tokens |-> 0]}

MCSymmetry == Permutations(Sessions)
=============================================================================
