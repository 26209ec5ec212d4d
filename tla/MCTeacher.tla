------------------------------ MODULE MCTeacher ------------------------------
(* Three complaints in batches of two, two requests per call.  A call costs its
   plan, more than its plan, or does not say.  2 is near 1 and 3, which are not
   near each other; 1 shares an n-gram with a TEST row.                      *)
EXTENDS TeacherGeneration

MCAnswers == {[cost |-> 1, grade |-> "accepted"], [cost |-> 2, grade |-> "accepted"],
              [cost |-> NoCost, grade |-> "schema_invalid"]}
MCSimilar == {<<1, 2>>, <<2, 1>>, <<2, 3>>, <<3, 2>>}
MCContaminated == {1}
=============================================================================
