---------------------------- MODULE MCLabelRuns ----------------------------
EXTENDS LabelRuns
MCSplitOrder == <<"cal", "test_drift">>
MCOutputOf == [cal |-> "cal", d23 |-> "test_drift", d24 |-> "test_drift"]
Clean == {<<1, "cal">>, <<2, "cal">>, <<4, "cal">>, <<3, "d23">>}
MCSnapshots == {Clean, Clean \cup {<<2, "d24">>}, Clean \cup {<<3, "d24">>}}
MCCosts == {1, 3, NoCost}
=============================================================================
