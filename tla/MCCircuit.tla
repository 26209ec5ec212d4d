------------------------------ MODULE MCCircuit ------------------------------
(***************************************************************************)
(* A small instance of Circuit: interchangeable requests.                  *)
(***************************************************************************)
EXTENDS Circuit, TLC

MCSymmetry == Permutations(Requests)
=============================================================================
