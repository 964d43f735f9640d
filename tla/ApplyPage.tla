------------------------------ MODULE ApplyPage ------------------------------
(***************************************************************************)
(* review/page_apply.py: the Apply page of the review UI, beside the apply *)
(* command on the same database and mailbox.                               *)
(*                                                                         *)
(* The page runs apply_actions inside the browser session's script.  A dry *)
(* run that returns unlocks execution for the session, an execution that   *)
(* returns locks it again; a run that is interrupted, by any other click   *)
(* or by an exception, leaves the latch as it is.                          *)
(*                                                                         *)
(* Streamlit is external: a click while a script runs ends that script     *)
(* (Die), a widget that is not drawn loses its value, a reloaded tab is a  *)
(* new session.                                                            *)
(***************************************************************************)
EXTENDS Runner

Page == "page"
ASSUME PageAssumption == Page \in Runs

VARIABLES session,    \* dry: apply_dry_run_done; typed: is "APPLY" typed?
          asked,      \* what the page's dry run under way was to examine (history)
          previewed   \* what the dry run that unlocked the page examined (history)

pageVars == <<session, asked, previewed>>
allVars == <<vars, pageVars>>

Locked == [dry |-> FALSE, typed |-> FALSE]
Unlocked == [dry |-> TRUE, typed |-> TRUE]
Rewritten == "rewritten"    \* others have written the row since it was examined

PageInit ==
  /\ Init
  /\ session = Locked /\ asked = Nothing /\ previewed = Nothing

(* Mutant: the latch is set when the dry run begins.                       *)
DryRunButtonLatching ==
  /\ StartApply(Page, FALSE, Cardinality(Ids))
  /\ session' = [session EXCEPT !.dry = TRUE]
  /\ asked' = run'[Page].action
  /\ UNCHANGED previewed

(* Both buttons take the whole queue; without one, neither is drawn.       *)
DryRunButton ==
  /\ StartApply(Page, FALSE, Cardinality(Ids))
  /\ asked' = run'[Page].action
  /\ UNCHANGED <<session, previewed>>

ExecuteButton ==
  /\ session = Unlocked
  /\ StartApply(Page, TRUE, Cardinality(Ids))
  /\ UNCHANGED pageVars

(* _run returns, and the page goes on to set the latch.                    *)
RunReturns ==
  /\ Finish(Page)
  /\ session' = [session EXCEPT !.dry = ~run[Page].execute]
  /\ previewed' = IF run[Page].execute THEN Nothing ELSE asked
  /\ asked' = Nothing

PageRuns ==
  /\ Unsettled(Page) # {}
  /\ RunStep(Page) \/ Die(Page)
  /\ UNCHANGED pageVars

(* The text box, which is disabled until a dry run is done, and which      *)
(* forgets its text when the page is left.                                 *)
TypeConfirmation ==
  /\ ~Active(Page)
  /\ \/ session.dry /\ session' = [session EXCEPT !.typed = TRUE]
     \/ session' = [session EXCEPT !.typed = FALSE]
     \/ session' = Locked
  /\ previewed' = IF session'.dry THEN previewed ELSE Nothing
  /\ UNCHANGED <<vars, asked>>

MarkRewritten(list) ==
  [m \in Ids |-> IF row'[m] # row[m] THEN Rewritten ELSE list[m]]

(* The command, the owner of the mailbox, and the other pages' buttons.    *)
OthersAct ==
  /\ \/ \E p \in Runs \ {Page} : Does(p)
     \/ \E x \in Mails : OwnerMoves(x)
     \/ Reviews
  /\ asked' = MarkRewritten(asked) /\ previewed' = MarkRewritten(previewed)
  /\ UNCHANGED session

PageNext ==
  \/ DryRunButton \/ ExecuteButton \/ RunReturns \/ PageRuns
  \/ TypeConfirmation
  \/ OthersAct

PageSpec == PageInit /\ [][PageNext]_allVars

-----------------------------------------------------------------------------
(* The page commits itself only to what a dry run of this session has      *)
(* shown, from its first row to its last, with the same action, and only   *)
(* once; the exception are rows that others have written since             *)
(* (page_apply.py: "Execution here requires a dry-run THIS session").      *)
PageActsOnPreviewed ==
  [][\A m \in Ids :
       LET intent == run'[Page].intent[m] IN
       intent # NULL /\ intent # run[Page].intent[m] =>
         previewed[m] \in {intent, Rewritten}]_allVars
=============================================================================
