------------------------------ MODULE Verifier ------------------------------
(* The label rules, the ticket schema, the scorer and the near-miss generator:
   data/labels.py, verify/schema.py, verify/verifier.py and the perturbations
   of teacher/filters.py, as operators.  A text is only what the rules ask of
   it (present or not, how long, which phrase lists it hits); the arguments of
   a tool call are the one argument schema they satisfy, and whether the free
   text they quote says anything (_meaningful_text).                        *)
EXTENDS Integers, Sequences, FiniteSets

Urgencies == <<"low", "medium", "high">>
ToolNames == {"escalate_to_regulator", "request_more_info", "route_to_company",
              "start_refund_workflow", "close_no_action"}
Products == {"card", "mortgage"}

(* A text as _meaningful_text judges it: a slight one is there, but it has
   fewer than three characters, no letter, or is a placeholder.             *)
Texts == {"slight", "telling"}
Meaningful(text) == text # "slight"

(* A complaint as derive_label reads it. *)
Rows == [issue: Texts \cup {"absent"}, company: Texts \cup {"absent"}, length: {"below_min", "short", "long"},
         ambiguous: BOOLEAN, high: BOOLEAN, medium: BOOLEAN,
         resolved: BOOLEAN, refund: BOOLEAN]

Arguments(shape, meaning) == [shape |-> shape, meaning |-> meaning]

(* A model output that is not a JSON object. *)
Unparsed == [parsed |-> FALSE]
IsParsed(o) == o.parsed

Ticket(product, issue, company, urgency, flag, tool, args) ==
    [parsed |-> TRUE, product |-> product, issue |-> issue, company |-> company,
     urgency |-> urgency, flag |-> flag, tool |-> tool, args |-> args]

-----------------------------------------------------------------------------
(* verify/schema.py: the enums, the lengths, the variant of the named tool and
   the two implications between the flag and the abstention tool.           *)
ArgumentsValid(tool, args) == tool \in ToolNames /\ args.shape = tool

IsSchemaValid(o) ==
    /\ IsParsed(o)
    /\ o.product \in Products
    /\ o.issue # "empty"
    /\ o.company # "empty"
    /\ \E i \in 1..3 : Urgencies[i] = o.urgency
    /\ o.flag \in {"true", "false"}
    /\ ArgumentsValid(o.tool, o.args)
    /\ (o.flag = "true") <=> (o.tool = "request_more_info")

-----------------------------------------------------------------------------
(* data/labels.py. *)
(* Mutant: a complaint without a company is not ambiguous. *)
MissingFieldsNoCompany(row) ==
    {f \in {"issue", "details"} :
        \/ f = "issue" /\ row.issue = "absent"
        \/ f = "details" /\ \/ row.length = "below_min"
                            \/ row.length # "long" /\ row.ambiguous}

MissingFields(row) ==
    {f \in {"issue", "company", "details"} :
        \/ f = "issue" /\ row.issue = "absent"
        \/ f = "company" /\ row.company = "absent"
        \/ f = "details" /\ \/ row.length = "below_min"
                            \/ row.length # "long" /\ row.ambiguous}

UrgencyOf(row) ==
    CASE row.high -> "high"
      [] ~row.high /\ row.medium -> "medium"
      [] OTHER -> "low"

(* The tool precedence: the first rule that applies decides. *)
ToolOf(row) ==
    CASE MissingFields(row) # {} -> "request_more_info"
      [] MissingFields(row) = {} /\ row.resolved -> "close_no_action"
      [] MissingFields(row) = {} /\ ~row.resolved /\ UrgencyOf(row) = "high" ->
            "escalate_to_regulator"
      [] MissingFields(row) = {} /\ ~row.resolved /\ UrgencyOf(row) # "high" /\ row.refund ->
            "start_refund_workflow"
      [] OTHER -> "route_to_company"

(* The arguments are filled from the row: an empty list of missing fields, an
   empty issue or a null company would not satisfy the tool's schema.  The
   question and the fixed reasons say something; an escalation quotes the
   issue, a routing or a refund the company and the issue.                  *)
Quotes(tool, issue, company) ==
    CASE tool = "escalate_to_regulator" -> Meaningful(issue)
      [] tool \in {"route_to_company", "start_refund_workflow"} ->
            Meaningful(issue) /\ Meaningful(company)
      [] OTHER -> TRUE

ArgumentsFor(row, tool) ==
    LET filled == CASE tool = "request_more_info" -> MissingFields(row) # {}
                    [] tool \in {"route_to_company", "start_refund_workflow"} ->
                          row.company # "absent"
                    [] OTHER -> TRUE
    IN  Arguments(IF filled THEN tool ELSE "none", Quotes(tool, row.issue, row.company))

DeriveLabel(row) ==
    Ticket("card", IF row.issue = "absent" THEN "unspecified" ELSE row.issue,
           IF row.company = "absent" THEN "null" ELSE row.company, UrgencyOf(row),
           IF MissingFields(row) # {} THEN "true" ELSE "false",
           ToolOf(row), ArgumentsFor(row, ToolOf(row)))

-----------------------------------------------------------------------------
(* verify/verifier.py. *)
SemanticallyValid(tool, args) ==
    ArgumentsValid(tool, args) /\ (tool = "close_no_action" \/ args.meaning)

IsAbstention(o) == o.flag = "true" /\ o.tool = "request_more_info"

Zero == [json |-> FALSE, valid |-> FALSE, decisions |-> {}, secondary |-> {},
         success |-> FALSE, reward |-> 0]

Decisions == {"urgency", "ambiguity_flag", "tool_choice", "tool_arguments_structural"}

DecisionChecks(label, o) ==
    {d \in Decisions :
        \/ d = "urgency" /\ o.urgency = label.urgency
        \/ d = "ambiguity_flag" /\ o.flag = label.flag
        \/ d = "tool_choice" /\ o.tool = label.tool
        \/ d = "tool_arguments_structural" /\ ArgumentsValid(o.tool, o.args)}

SecondaryMetrics(label, o) ==
    {s \in {"product", "issue", "company", "arguments_semantic", "abstention"} :
        \/ s = "product" /\ o.product = label.product
        \/ s = "issue" /\ o.issue = label.issue
        \/ s = "company" /\ o.company = label.company
        \/ s = "arguments_semantic" /\ SemanticallyValid(o.tool, o.args)
        \/ s = "abstention" /\ (IsAbstention(o) <=> IsAbstention(label))}

(* Mutant: the product match is rewarded too. *)
ScoreWithProduct(label, o) ==
    IF ~IsParsed(o) THEN Zero
    ELSE LET checks == DecisionChecks(label, o)
         IN  [json |-> TRUE, valid |-> IsSchemaValid(o), decisions |-> checks,
              secondary |-> SecondaryMetrics(label, o),
              success |-> IsSchemaValid(o) /\ checks = Decisions,
              reward |-> Cardinality(checks) + (IF o.product = label.product THEN 1 ELSE 0)]

(* Mutant: the answer is paid for its form only. *)
ScoreOfForm(label, o) ==
    IF ~IsParsed(o) THEN Zero
    ELSE LET checks == DecisionChecks(label, o) \ {"tool_choice", "urgency", "ambiguity_flag"}
         IN  [json |-> TRUE, valid |-> IsSchemaValid(o), decisions |-> checks,
              secondary |-> SecondaryMetrics(label, o),
              success |-> IsSchemaValid(o),
              reward |-> Cardinality(checks) + (IF IsSchemaValid(o) THEN 1 ELSE 0)]

(* The reward in fifths: schema validity and the four decision checks. *)
Score(label, o) ==
    IF ~IsParsed(o) THEN Zero
    ELSE LET checks == DecisionChecks(label, o)
         IN  [json |-> TRUE, valid |-> IsSchemaValid(o), decisions |-> checks,
              secondary |-> SecondaryMetrics(label, o),
              success |-> IsSchemaValid(o) /\ checks = Decisions,
              reward |-> Cardinality(checks) + (IF IsSchemaValid(o) THEN 1 ELSE 0)]

(* What the funnel of teacher/generate.py accepts. *)
Accepted(s) == s.valid /\ s.success /\ "arguments_semantic" \in s.secondary

-----------------------------------------------------------------------------
(* teacher/filters.py: the perturbations. *)
NoTool == "no_tool_call"

(* source: the complaint's own company, "absent" when it names none. *)
QuotedCompany(o, source) == IF o.company # "null" THEN o.company ELSE source

AlternativeTool(tool, o, source) ==
    IF /\ tool \in {"start_refund_workflow", "route_to_company"}
       /\ QuotedCompany(o, source) = "absent"
    THEN NoTool ELSE tool

(* The reason of a perturbed escalation is fixed; a schema-valid answer has an
   issue to quote.                                                          *)
WithTool(o, tool, source) ==
    [o EXCEPT !.tool = tool,
              !.args = Arguments(tool, \/ tool = "escalate_to_regulator"
                                       \/ Quotes(tool, o.issue, QuotedCompany(o, source)))]

SubstitutionOrder == <<"request_more_info", "close_no_action", "escalate_to_regulator",
                       "start_refund_workflow", "route_to_company">>

(* The first tool from a place given by the id's hash that is not the chosen
   one and whose arguments can be built.                                    *)
Substitute(o, offset, source) ==
    LET tool(k) == SubstitutionOrder[((offset + k) % 5) + 1]
        usable(k) == tool(k) # o.tool /\ AlternativeTool(tool(k), o, source) # NoTool
        k0 == CHOOSE k \in 0..4 : usable(k) /\ \A j \in 0..(k - 1) : ~usable(j)
    IN  [WithTool(o, tool(k0), source) EXCEPT
            !.flag = IF tool(k0) = "request_more_info" THEN "true" ELSE "false"]

CycleUrgency(o) ==
    LET i == CHOOSE i \in 1..3 : Urgencies[i] = o.urgency
    IN  [o EXCEPT !.urgency = Urgencies[(i % 3) + 1]]

FlipAmbiguity(o, source) ==
    IF o.flag = "true" THEN [WithTool(o, "close_no_action", source) EXCEPT !.flag = "false"]
    ELSE [WithTool(o, "request_more_info", source) EXCEPT !.flag = "true"]

ApplyPerturbation(name, o, offset, source) ==
    CASE name = "urgency_cycle" -> CycleUrgency(o)
      [] name = "ambiguity_flip" -> FlipAmbiguity(o, source)
      [] name = "tool_choice_substitution" -> Substitute(o, offset, source)

Taxonomy == <<"urgency_cycle", "tool_choice_substitution", "ambiguity_flip">>

(* perturb_near_miss: the first kind, from a place given by the id's hash,
   whose result is valid and scores lower; Unparsed stands for the raise.   *)
PerturbNearMiss(chosen, label, start, offset, source) ==
    LET name(k) == Taxonomy[((start + k) % 3) + 1]
        rejected(k) == ApplyPerturbation(name(k), chosen, offset, source)
        lower(k) == /\ IsSchemaValid(rejected(k))
                    /\ Score(label, rejected(k)).reward < Score(label, chosen).reward
    IN  IF \E k \in 0..2 : lower(k)
        THEN rejected(CHOOSE k \in 0..2 : lower(k) /\ \A j \in 0..(k - 1) : ~lower(j))
        ELSE Unparsed
=============================================================================
