---------------------------- MODULE MCAdmission ----------------------------
(***************************************************************************)
(* A small instance of Admission: a primary of two tokens, a fallback of   *)
(* three, a queue of two requests.  One request is too large for the       *)
(* primary, one saturates.                                                 *)
(***************************************************************************)
EXTENDS Admission

MCCosts == {[prompt_tokens |-> 1, output_tokens |-> 0],
            [prompt_tokens |-> 1, output_tokens |-> 1],
            [prompt_tokens |-> 2, output_tokens |-> 1],
            [prompt_tokens |-> 7, output_tokens |-> 2]}

MCServiceTimes == {0, 2}
=============================================================================
