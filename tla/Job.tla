--------------------------------- MODULE Job ---------------------------------
(* What every resumable labelling job promises: the set of answered items only
   grows, whatever is killed and started again, and the job is sealed once,
   when no item is missing; after that nothing changes.                      *)
CONSTANT Items
VARIABLES answered, sealed

Init == answered = {} /\ sealed = FALSE

Record ==
    /\ ~sealed
    /\ \E more \in SUBSET Items : answered' = answered \cup more
    /\ UNCHANGED sealed

Seal ==
    /\ ~sealed /\ answered = Items
    /\ sealed' = TRUE
    /\ UNCHANGED answered

Next == Record \/ Seal
Spec == Init /\ [][Next]_<<answered, sealed>>
=============================================================================
