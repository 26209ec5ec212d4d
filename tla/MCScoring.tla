------------------------------ MODULE MCScoring ------------------------------
(* Answers: every combination of a right and a wrong value of each field. *)
EXTENDS Scoring

ToolAnswers == {<<t, Arguments(s, m)>> :
                   t \in ToolNames \cup {"other"}, s \in {"route_to_company", "close_no_action", "none"},
                   m \in BOOLEAN}
               \cup {<<t, Arguments(t, m)>> : t \in ToolNames, m \in BOOLEAN}

MCAnswers ==
    {Unparsed} \cup
    {Ticket(p, i, c, u, f, ta[1], ta[2]) :
        p \in {"card", "other"}, i \in {"telling", "empty"}, c \in {"slight", "null"},
        u \in {"low", "high", "other"}, f \in {"true", "false", "other"}, ta \in ToolAnswers}
=============================================================================
