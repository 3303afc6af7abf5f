---------------------------- MODULE DecisionRules ----------------------------
(***************************************************************************)
(* The rules that decide without a model: engine/decide/rules.go. What a   *)
(* rule reads of its inputs is a number, a list of numbers, whether a      *)
(* field means yes, and the words of a text. Confidences in hundredths.    *)
(***************************************************************************)
EXTENDS Integers, Sequences, SequencesExt, FiniteSetsExt

\* Inputs: numbers [a set of paths -> number], yes: a set of fields, words: of the text
\* the task reads, history: the totals of the vendor's orders.
NoInputs == [numbers |-> <<>>, yes |-> {}, words |-> {}, history |-> <<>>]
IsInput(in) ==
  /\ in = [numbers |-> in.numbers, yes |-> in.yes, words |-> in.words, history |-> in.history]
  /\ \A p \in DOMAIN in.numbers : in.numbers[p] \in Int
  /\ in.history \in Seq(Int)

\* The first of the paths that holds a number, or 0.
InputNumber(in, paths) ==
  LET at == SelectInSeq(paths, LAMBDA p : p \in DOMAIN in.numbers)
  IN IF at = 0 THEN 0 ELSE in.numbers[paths[at]]
Mentions(in, words) == in.words \cap words # {}

Rule(when, decision, confidence) == [when |-> when, reply |-> [decision |-> decision, confidence |-> confidence]]
Otherwise(confidence) == Rule(TRUE, "APPROVE", confidence)

UnusualIfSmall(amount, highest) == 2 * amount < 3 * highest
UnusualAmount(amount, highest) == 2 * amount > 3 * highest
PurchaseOrderRules(in) ==
  LET amount == InputNumber(in, <<"amount_total", "order.amount_total", "amount">>)
      limit == InputNumber(in, <<"amount_limit", "policy.amount_limit">>)
  IN << Rule(amount <= 0, "REJECT", 90),
        Rule(limit > 0 /\ amount > limit, "ESCALATE", 70),
        Rule(in.history = <<>>, "ESCALATE", 68),
        Rule(UnusualAmount(amount, Max({0} \cup Range(in.history))), "ESCALATE", 70),
        Otherwise(86) >>

LeadRules(in) ==
  LET score == IF Mentions(in, {"vp", "chief", "head", "director", "c-level", "ceo", "cto", "cfo"}) THEN 85
               ELSE IF Mentions(in, {"manager", "lead", "senior"}) THEN 60 ELSE 30
  IN << Rule(score >= 80, "APPROVE", 80), Rule(score >= 55, "APPROVE", 80), Rule(score >= 30, "ESCALATE", 80),
        Rule(TRUE, "REJECT", 80) >>

\* The tasks with rules of their own; every other task has one rule.
RuledTasks == {"fraud_risk_assessment", "credit_risk_assessment", "content_moderation", "sentiment_analysis",
               "invoice_approval", "purchase_order_approval", "expense_audit", "lead_scoring",
               "supply_chain_exception", "offboarding_review"}
TaskRules(task, in) ==
  CASE task = "fraud_risk_assessment" ->
         LET amount == InputNumber(in, <<"amount", "transaction.amount">>)
         IN << Rule(amount > 5000, "ESCALATE", 71), Rule(amount > 2000, "ESCALATE", 67), Otherwise(87) >>
    [] task = "credit_risk_assessment" ->
         << Rule(InputNumber(in, <<"loan_amount">>) > 100000, "ESCALATE", 74), Otherwise(87) >>
    [] task = "content_moderation" ->
         << Rule(Mentions(in, {"spam", "hate", "violence", "scam"}), "REJECT", 95), Otherwise(87) >>
    [] task = "sentiment_analysis" -> << Otherwise(88) >>
    [] task = "invoice_approval" ->
         << Rule(InputNumber(in, <<"amount", "invoice.amount">>) > 10000, "ESCALATE", 72),
            Rule(in.yes \cap {"po_number", "matched_po"} = {}, "ESCALATE", 66), Otherwise(90) >>
    [] task = "purchase_order_approval" -> PurchaseOrderRules(in)
    [] task = "expense_audit" -> << Rule(InputNumber(in, <<"amount">>) > 1000, "ESCALATE", 70), Otherwise(88) >>
    [] task = "lead_scoring" -> LeadRules(in)
    [] task = "supply_chain_exception" ->
         << Rule(Mentions(in, {"critical", "high"}) \/ "stockout_risk" \in in.yes, "ESCALATE", 73), Otherwise(85) >>
    [] task = "offboarding_review" ->
         << Rule({"legal_hold", "disputed"} \cap in.yes # {} \/ Mentions(in, {"disputed"}), "ESCALATE", 78), Otherwise(90) >>
RulesOf(task, in) == IF task \in RuledTasks THEN TaskRules(task, in) ELSE << Otherwise(87) >>

\* The first rule that applies decides.
Rules(task, in) ==
  LET rules == RulesOf(task, in) IN rules[SelectInSeq(rules, LAMBDA r : r.when)].reply
-----------------------------------------------------------------------------
Amounts(in) == DOMAIN in.numbers \ {"amount_limit", "policy.amount_limit"}
WithAmounts(in, n) == [in EXCEPT !.numbers = [p \in DOMAIN @ |-> IF p \in Amounts(in) THEN n ELSE @[p]]]

\* What is approved would be approved for less (but not for nothing), and under the
\* default threshold exactly what the rules escalate is not sure enough to go on; a
\* cold lead is the exception.
Cautious(task, in, reply, lower) ==
  /\ reply.decision = "APPROVE" =>
       \A n \in lower : (\A p \in Amounts(in) : n <= in.numbers[p]) => Rules(task, WithAmounts(in, n)).decision = "APPROVE"
  /\ task # "lead_scoring" => (reply.decision = "ESCALATE" <=> reply.confidence < 80)
=============================================================================
