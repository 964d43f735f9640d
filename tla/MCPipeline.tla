----------------------------- MODULE MCPipeline -----------------------------
(***************************************************************************)
(* Small instances of the pipeline and its rules files for TLC.            *)
(***************************************************************************)
EXTENDS RuleFile

MCRule(name, priority, action, protect, confirm, match) ==
  [name |-> name, priority |-> priority, enabled |-> TRUE, action |-> action,
   protect |-> protect, confirm_with_llm |-> confirm, ephemeral |-> FALSE,
   match |-> match]

(* Criteria, and blocks that every message matches, or only message 1.     *)
Text(on) == [field |-> "text", on |-> on]
Plain == [field |-> "has_attachments", is |-> FALSE]
Known == [field |-> "known_contact", is |-> TRUE]
Everything == {{Text(Ids), Plain}, {Text({}), Plain}}
First == {{Text({1})}}

(* Ordinary mail from a stranger, old enough for both gates.               *)
MCFact == [has_attachments |-> FALSE, age |-> 9, known_contact |-> FALSE]
MCFacts == [m \in Ids |-> MCFact]

(* A tie in priority under a disabled rule; a rule that asks the LLM; a    *)
(* protect rule written before a trash rule that outranks it; no rule; and *)
(* a file that is refused, as it gives a name twice.                       *)
MCRuleFiles ==
  {<<[MCRule("off", 200, "keep", FALSE, FALSE, Everything) EXCEPT !.enabled = FALSE],
     MCRule("friends", 150, "archive", FALSE, FALSE, {{Text(Ids), Known}}),
     MCRule("shops", 100, "trash", FALSE, FALSE, Everything),
     MCRule("lists", 100, "archive", FALSE, FALSE, First)>>,
   <<MCRule("lists", 100, "archive", FALSE, TRUE, Everything)>>,
   <<MCRule("taxes", 50, NULL, TRUE, FALSE, Everything),
     MCRule("shops", 100, "trash", FALSE, TRUE, Everything)>>,
   <<>>,
   <<MCRule("shops", 100, "trash", FALSE, FALSE, Everything),
     MCRule("shops", 50, "keep", FALSE, FALSE, Everything)>>}

(* TLC evaluates MCCompiled once, and what a .cfg substitutes every time.  *)
MCCompiled == {OrderedRules(f) : f \in {g \in MCRuleFiles : Valid(g)}}
MCRuleSets == MCCompiled

MCAnswers ==
  {[action |-> a, confidence |-> FullConf, ephemeral |-> FALSE] :
     a \in {"archive", "trash"}}

MCParams ==
  {[trash_confidence |-> 1, archive_confidence |-> 1, llm_only_confidence |-> l,
    rule_only_trash |-> b, min_age |-> 5, ephemeral_min_age |-> 1] :
     b \in BOOLEAN, l \in {1}}
=============================================================================
