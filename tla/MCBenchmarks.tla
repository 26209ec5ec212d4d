---------------------------- MODULE MCBenchmarks ----------------------------
(* Two offered rates, four commits of which the third holds another          *)
(* configuration with the same workload and the fourth another workload.     *)
(* Rates of errors differ by less than, by exactly and by more than MaxDelta, *)
(* in the upstream errors or in the others only.                             *)
EXTENDS Benchmarks

MCConfigOf == <<1, 1, 2, 3>>
MCScheduleOf == <<1, 1, 2>>
MCRates == {1, 2}
MCEndings ==
    [matrix |-> {Ending(0, 1, TRUE, TRUE), Ending(2, 2, TRUE, TRUE), Ending(0, 1, FALSE, TRUE)},
     burst |-> {Served, Ending(1, 1, TRUE, TRUE), Ending(0, 2, TRUE, FALSE)}]
MCTime == [serving |-> 8, phase5 |-> 12, finite |-> 11, sustained |-> 9]
MCAttempts == [serving |-> 2, phase5 |-> 0, finite |-> 0, sustained |-> 2]
MCDiscards == [serving |-> 1, phase5 |-> 0, finite |-> 1, sustained |-> 1]
=============================================================================
