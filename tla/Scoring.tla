------------------------------- MODULE Scoring -------------------------------
(* One complaint on its way through the rules: its label is derived
   (derive_label), a model answers (any answer), the answer is scored (score)
   and, when it is accepted, paired with a near miss (perturb_near_miss).    *)
EXTENDS Verifier

CONSTANT Answers    \* the outputs a model may give

ASSUME AnswersAssumption ==
    \A o \in Answers :
        \/ o = Unparsed
        \/ o = Ticket(o.product, o.issue, o.company, o.urgency, o.flag, o.tool,
                      Arguments(o.args.shape, o.args.meaning))

VARIABLES row, label, answer, rejected
scoring_vars == <<row, label, answer, rejected>>

None == [none |-> TRUE]

ScoringInit == row \in Rows /\ label = None /\ answer = None /\ rejected = None

(* Of the row only the company is read after this; the rest is forgotten. *)
Derive ==
    /\ label = None
    /\ label' = DeriveLabel(row)
    /\ row' = [row EXCEPT !.length = "long", !.ambiguous = FALSE, !.high = FALSE, !.medium = FALSE,
                          !.resolved = FALSE, !.refund = FALSE, !.issue = "telling"]
    /\ UNCHANGED <<answer, rejected>>

Answer(o) ==
    /\ label # None /\ answer = None
    /\ answer' = o
    /\ UNCHANGED <<row, label, rejected>>

(* The config's taxonomy, entered at any place the hash of the id may give. *)
Pair(start, offset) ==
    /\ answer # None /\ rejected = None
    /\ Accepted(Score(label, answer))
    /\ rejected' = PerturbNearMiss(answer, label, start, offset, row.company)
    /\ UNCHANGED <<row, label, answer>>

Done == label # None /\ answer # None /\ UNCHANGED scoring_vars

ScoringNext ==
    \/ Derive
    \/ \E o \in Answers : Answer(o)
    \/ \E start \in 0..2, offset \in 0..4 : Pair(start, offset)
    \/ Done

ScoringSpec == ScoringInit /\ [][ScoringNext]_scoring_vars

-----------------------------------------------------------------------------
(* Every row the rules can meet gets a label the schema accepts (the assertion
   at the end of derive_label cannot fail), which abstains exactly when a field
   is missing.  Given back as an answer it is a full success; the funnel still
   refuses it when the tool call quotes a company or an issue of the complaint
   that says too little, and for no other reason.                           *)
LabelsAreSound ==
    /\ label # None =>
          /\ IsSchemaValid(label)
          /\ Score(label, label).success /\ Score(label, label).reward = 5
          /\ label.company = "null" => label.tool = "request_more_info"
    /\ label = None =>
          LET l == DeriveLabel(row)
          IN  /\ IsAbstention(l) <=> MissingFields(row) # {}
              /\ Accepted(Score(l, l)) <=>
                    \/ MissingFields(row) # {} \/ row.resolved
                    \/ row.issue = "telling" /\ (row.high \/ row.company = "telling")

(* The reward is for decisions: it is full exactly on task success, and no
   change of product, issue, company or wording that keeps an answer valid
   moves it, so a policy cannot earn by imitating metadata.                  *)
RewardIsForDecisions ==
    (answer # None /\ label # None) =>
       LET s == Score(label, answer)
       IN  /\ (s.reward = 5) <=> s.success
           /\ (IsParsed(answer) /\ s.valid) =>
                 \A p \in Products, i \in Texts, c \in Texts \cup {"null"},
                    m \in BOOLEAN :
                       Score(label, [answer EXCEPT !.product = p, !.issue = i, !.company = c,
                                                   !.args = Arguments(@.shape, m)]).reward = s.reward

(* An accepted answer always has a rejected partner: valid, and strictly worse,
   from whatever place the hash of the id enters the taxonomy.               *)
NearMissIsWorse ==
    (rejected # None) =>
        /\ IsSchemaValid(rejected)
        /\ Score(label, rejected).reward < Score(label, answer).reward
        /\ IsSchemaValid(answer)
=============================================================================
