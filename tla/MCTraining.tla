----------------------------- MODULE MCTraining -----------------------------
(* The ladder R1 on TRL, R1 on Unsloth, a DPO rung on TRL above the first,   *)
(* and a GRPO rung on both backends, which publish under one run id.         *)
EXTENDS Export

MCJobs == {"r1", "r1_unsloth", "r3", "r4", "r4_unsloth"}

MCRunId == [j \in MCJobs |-> IF j = "r4_unsloth" THEN "r4" ELSE j]

MCParent == [j \in MCJobs |-> CASE j = "r4_unsloth" -> "r1_unsloth"
                              [] j \in {"r3", "r4"} -> "r1"
                              [] OTHER -> Absent]

(* The third launch is of GRPO or of the export, the fourth only of the      *)
(* second GRPO backend.                                                      *)
MCMaxAttempts ==
    [t \in MCJobs \cup {"export"} |->
        CASE t = "r4_unsloth" -> 4 [] t \in {"r1", "r1_unsloth", "r3"} -> 2 [] OTHER -> 3]
=============================================================================
