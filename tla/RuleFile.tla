------------------------------ MODULE RuleFile ------------------------------
(***************************************************************************)
(* rules.toml as the user writes it (rules/ruleset.py), compiled into the  *)
(* rule sets that the engine evaluates (rules/matcher.py): the pipeline of *)
(* Pipeline, with RuleSets being what the files compile to.                *)
(*                                                                         *)
(* A rule's match is a set of blocks, of which one must hold; a block is a *)
(* set of criteria, which must all hold.  The criteria on addresses,       *)
(* subject, body, labels and List-Unsubscribe are stood for by the set of  *)
(* messages whose text they accept.                                        *)
(***************************************************************************)
EXTENDS Pipeline

CONSTANT RuleFiles        \* the files the user may have written

Criteria == [field : {"text"}, on : SUBSET Ids]
              \cup [field : {"has_attachments", "known_contact"}, is : BOOLEAN]

FileRules == [name : STRING, priority : Int, enabled : BOOLEAN,
              action : Actions \cup {NULL}, protect : BOOLEAN,
              confirm_with_llm : BOOLEAN, ephemeral : BOOLEAN,
              match : SUBSET (SUBSET Criteria)]

(* action may be left out of a protect rule, which implies keep.           *)
ActionOf(r) == IF r.protect /\ r.action = NULL THEN "keep" ELSE r.action

ValidRule(r) ==
  /\ r.match # {} /\ {} \notin r.match
  /\ r.protect => ActionOf(r) = "keep" /\ ~r.confirm_with_llm
  /\ ActionOf(r) \in {"keep", "archive", "trash"}

(* load_ruleset: a file with any problem is refused as a whole.            *)
Valid(f) ==
  /\ \A i \in DOMAIN f : ValidRule(f[i])
  /\ \A i, j \in DOMAIN f : f[i].name = f[j].name => i = j

-----------------------------------------------------------------------------

Holds(c, m) == IF c.field = "text" THEN m \in c.on ELSE Facts[m][c.field] = c.is

Accepts(r, m) == \E block \in r.match : \A c \in block : Holds(c, m)

(* Mutant: equal priorities are ordered by the end of the file.            *)
BeforeFromEnd(f, i, j) ==
  \/ f[i].priority > f[j].priority
  \/ f[i].priority = f[j].priority /\ i > j

(* Priority, highest first; the stable sort keeps the order of the file.   *)
Before(f, i, j) ==
  \/ f[i].priority > f[j].priority
  \/ f[i].priority = f[j].priority /\ i < j

CompiledRule(r) ==
  [action |-> ActionOf(r), protect |-> r.protect,
   confirm_with_llm |-> r.confirm_with_llm, ephemeral |-> r.ephemeral,
   on |-> {m \in Ids : Accepts(r, m)}]

Enabled(f) == {i \in DOMAIN f : f[i].enabled}

(* Where the sort puts the i-th rule: after the enabled ones before it.    *)
Place(f, i) == Cardinality({j \in Enabled(f) : Before(f, j, i)}) + 1

(* The i-th rule of the file, for the k-th place.                          *)
RuleAt(f, k) == CHOOSE i \in Enabled(f) : Place(f, i) = k

OrderedRules(f) ==
  [k \in 1 .. Cardinality(Enabled(f)) |-> CompiledRule(f[RuleAt(f, k)])]

Compiled == [f \in {g \in RuleFiles : Valid(g)} |-> OrderedRules(f)]

ASSUME RuleFilesAssumption == RuleFiles \subseteq Seq(FileRules)

(* The rule sets of the pipeline are those that the valid files compile to.*)
ASSUME CompiledAssumption == RuleSets = {Compiled[f] : f \in DOMAIN Compiled}

-----------------------------------------------------------------------------
(* What the file's author reads off it, without the order of evaluation.   *)

Voting(f, m) ==
  {i \in {j \in DOMAIN f : f[j].enabled} :
     \E block \in f[i].match : \A c \in block :
        \/ c.field = "text" /\ m \in c.on
        \/ c.field \in DOMAIN Facts[m] /\ c.is = Facts[m][c.field]}

Deciding(f, m) ==
  LET top == {i \in Voting(f, m) : \A j \in Voting(f, m) : f[j].priority <= f[i].priority}
  IN  {i \in top : \A j \in top : i <= j}

(* A run rules each message by its file: the enabled rule of the highest   *)
(* priority among those that match decides, ties go to the rule written    *)
(* first, a protect rule has no say beyond its priority, and every rule    *)
(* that matches has its vote on record for the gates (ruleset.py:          *)
(* "highest wins; ties broken by file order"; matcher.py: criteria "AND    *)
(* together", blocks "OR together").                                       *)
RuledByTheFile ==
  [][\A p \in RulesRuns :
       rr_pc[p] = "chunk" /\ rr_pc'[p] = "select" =>
         \E f \in DOMAIN Compiled :
           /\ Compiled[f] = rr_set[p]
           /\ \A m \in rr_chunk[p] :
                /\ {ActionOf(f[i]) : i \in Voting(f, m)} \subseteq
                     {hit.action : hit \in hits'[m]}
                /\ row'[m].rule_action \in
                     IF Voting(f, m) = {} THEN {NULL}
                     ELSE {ActionOf(f[i]) : i \in Deciding(f, m)}]_vars
=============================================================================
