----------------------------- MODULE ReviewPages -----------------------------
(***************************************************************************)
(* The bulk buttons of the review UI: the message grid of the Review page  *)
(* (review_browser) and the groups of the Senders page                     *)
(* (group_table_with_actions), in one browser session, next to the rest of *)
(* the pipeline.                                                           *)
(*                                                                         *)
(* Any use of a widget runs the page's script again.  What is on screen is *)
(* what the last run rendered, while the run that handles a click queries  *)
(* the table anew: the grid's buttons act on what that run finds, the      *)
(* groups' buttons on ids that an earlier run left in session_state.       *)
(*                                                                         *)
(* Streamlit is external.  A run is rendered before the next click; a      *)
(* button is known by its key, whatever count its label shows; and when a  *)
(* click has changed the rows of the page, what is selected may be kept or *)
(* dropped.                                                                *)
(***************************************************************************)
EXTENDS Pipeline

CONSTANTS GroupOf,      \* the sender, or sender's domain, of each message
          StartRows,    \* rows the table may hold when the page is opened
          GridLimit,    \* BROWSER_LIMIT
          Presets,      \* the filters of the grid that are tried
          Uncertain     \* cfg.uncertain_confidence_threshold

Filters == {"all", "pending trash", "needs decision", "disagreement",
            "uncertain", "no rule", "auto-approved"}

(* Of the rows that other stages have made before, no more is assumed than *)
(* what the pipeline always keeps.                                         *)
ASSUME PagesAssumption ==
  /\ Presets \subseteq Filters
  /\ StartRows \subseteq Rows /\ GridLimit \in Nat \ {0}
  /\ \A r \in StartRows :
       /\ r.rule_action = NULL => ~r.rule_protected /\ ~r.rule_ephemeral
       /\ r.staged_action = NULL <=> r.decision_source = NULL
       /\ r.decision_source = "human" =>
            r.review_status \notin {"pending", "auto_approved"}
  /\ Uncertain \in Confidences

VARIABLES ui_page,     \* "review" or "senders"
          ui_filter,   \* the filter of the grid
          ui_sel,      \* the selected positions of the grid
          ui_groups,   \* the selected groups
          ui_ids,      \* session_state: per action, the ids its button acts on
          ui_shown,    \* per row, the decision the grid displays, or Absent
          ui_marked,   \* the rows the grid displays as selected
          ui_fresh     \* is the table still as the page displays it?

pageVars ==
  <<ui_page, ui_filter, ui_sel, ui_groups, ui_ids, ui_shown, ui_marked, ui_fresh>>
pagesVars == <<vars, pageVars>>

Absent == "absent"
Groups == {GroupOf[m] : m \in Ids}
Positions == 0 .. GridLimit - 1

BrowserTypeOK ==
  /\ ui_page \in {"review", "senders"} /\ ui_filter \in Filters
  /\ ui_sel \subseteq Positions /\ ui_groups \subseteq Groups
  /\ ui_ids \in [Actionable -> SUBSET Ids]
  /\ ui_shown \in [Ids -> Actions \cup {NULL, Absent}]
  /\ ui_marked \subseteq {m \in Ids : ui_shown[m] # Absent}
  /\ ui_fresh \in BOOLEAN

PagesTypeOK == TypeOK /\ BrowserTypeOK

-----------------------------------------------------------------------------
(* The queries.                                                            *)

Passes(r, filter) ==
  CASE filter = "all" -> TRUE
    [] filter = "pending trash" -> r.review_status = "pending" /\ r.staged_action = "trash"
    [] filter = "needs decision" -> NeedsDecision(r)
    [] filter = "disagreement" ->
         r.rule_action # NULL /\ r.llm_action # NULL /\ r.llm_action # r.rule_action
    [] filter = "uncertain" ->
         Uncertain < FullConf => r.llm_confidence # NoConf /\ r.llm_confidence <= Uncertain
    [] filter = "no rule" -> r.ruled /\ r.rule_action = NULL
    [] filter = "auto-approved" -> r.review_status = "auto_approved"

(* ORDER BY date_epoch DESC, id DESC LIMIT n, newer messages having the    *)
(* higher ids.                                                             *)
NewestOf(S, n) == {m \in S : Cardinality({x \in S : x > m}) < n}

Grid(t, filter) == NewestOf({m \in Ids : Passes(t[m], filter)}, GridLimit)

(* view_df.iloc[sel]                                                       *)
At(grid, sel) == {m \in grid : Cardinality({x \in grid : x > m}) \in sel}

(* Mutant: the pending rows of the groups, whatever is staged for them.    *)
PendingAnyAction(t, groups, action) ==
  {m \in Ids : GroupOf[m] \in groups /\ t[m].review_status = "pending"}

PendingIds(t, groups, action) ==
  {m \in Ids : /\ GroupOf[m] \in groups
               /\ t[m].staged_action = action
               /\ t[m].review_status = "pending"}

-----------------------------------------------------------------------------
(* One run of a page's script, over the table as it leaves it.  The ids    *)
(* that stay in session_state while another page is open are replaced      *)
(* before any button can use them, and are dropped here.                   *)
Rendered ==
  LET grid == IF ui_page' = "review" THEN Grid(row', ui_filter') ELSE {} IN
  /\ ui_shown' = [m \in Ids |-> IF m \in grid THEN row'[m].staged_action ELSE Absent]
  /\ ui_marked' = At(grid, ui_sel') /\ ui_fresh' = TRUE
  /\ ui_ids' = IF ui_page' = "senders"
               THEN [a \in Actionable |-> PendingIds(row', ui_groups', a)]
               ELSE [a \in Actionable |-> {}]

(* Opening a page, or another filter: widgets start out unselected.        *)
Open(page, filter) ==
  /\ ui_page' = page /\ ui_filter' = filter
  /\ ui_sel' = {} /\ ui_groups' = {}
  /\ UNCHANGED vars
  /\ Rendered

Select(sel) ==
  /\ ui_page = "review"
  /\ sel \subseteq 0 .. Cardinality({m \in Ids : ui_shown[m] # Absent}) - 1
  /\ ui_sel' = sel
  /\ UNCHANGED <<ui_page, ui_filter, ui_groups>>
  /\ UNCHANGED vars
  /\ Rendered

TickGroups(groups) ==
  /\ ui_page = "senders"
  /\ ui_groups' = groups
  /\ UNCHANGED <<ui_page, ui_filter, ui_sel>>
  /\ UNCHANGED vars
  /\ Rendered

(* Mutant: the page is not run again after the write.                      *)
NotRerun == UNCHANGED pageVars

(* st.rerun() after a write.                                               *)
Rerun ==
  /\ UNCHANGED <<ui_page, ui_filter>>
  /\ ui_sel' \in {ui_sel, {}} /\ ui_groups' \in {ui_groups, {}}
  /\ Rendered

ByOthers == UNCHANGED <<rulesVars, classifyVars, applyVars>>

ClickSelected ==
  /\ ui_page = "review" /\ MayStart
  /\ UIStep(At(Grid(row, ui_filter), ui_sel))
  /\ Rerun
  /\ ByOthers

ClickAll ==
  /\ ui_page = "review" /\ MayStart
  /\ \E status \in {"approved", "rejected"} : SetStatus(Grid(row, ui_filter), status)
  /\ Rerun
  /\ ByOthers

(* Mutant: without the guard.                                              *)
UpdateStatus(ids, status) ==
  row' = [m \in Ids |-> IF m \in ids THEN [row[m] EXCEPT !.review_status = status]
                        ELSE row[m]]

UpdateStatusIfPending(ids, status) ==
  row' = [m \in Ids |-> IF m \in ids /\ row[m].review_status = "pending"
                        THEN [row[m] EXCEPT !.review_status = status] ELSE row[m]]

ClickGroups(action, status) ==
  /\ ui_page = "senders" /\ MayStart /\ WriteLockFree
  /\ UpdateStatusIfPending(ui_ids[action], status)
  /\ UNCHANGED <<hits, writer>>
  /\ Rerun
  /\ ByOthers

PagesInit ==
  /\ row \in [Ids -> StartRows] /\ hits = [m \in Ids |-> {}] /\ writer = NULL
  /\ RulesInit /\ ClassifyInit /\ ApplyInit
  /\ ui_page = "review" /\ ui_filter = "all" /\ ui_sel = {} /\ ui_groups = {}
  /\ ui_ids = [a \in Actionable |-> {}]
  /\ ui_shown = [m \in Ids |-> IF m \in Grid(row, "all") THEN row[m].staged_action ELSE Absent]
  /\ ui_marked = {} /\ ui_fresh = TRUE

Elsewhere ==
  /\ \/ StartRules \/ RunsRules
     \/ StartClassify \/ RunsClassify
     \/ RunsPolicy
     \/ StartApply \/ RunsApply
  /\ ui_fresh' = (ui_fresh /\ row' = row)
  /\ UNCHANGED <<ui_page, ui_filter, ui_sel, ui_groups, ui_ids, ui_shown, ui_marked>>

PagesNext ==
  \/ \E filter \in Presets : Open("review", filter)
  \/ Open("senders", "all")
  \/ \E sel \in SUBSET Positions : Select(sel)
  \/ \E groups \in SUBSET Groups : TickGroups(groups)
  \/ ClickSelected
  \/ ClickAll
  \/ \E action \in Actionable, status \in {"approved", "rejected"} :
       ClickGroups(action, status)
  \/ Elsewhere

PagesSpec == PagesInit /\ [][PagesNext]_pagesVars

-----------------------------------------------------------------------------
Changed == {m \in Ids : row'[m] # row[m]}

(* While nothing else writes, the grid's buttons act on what the user      *)
(* sees, with the decision the user sees: the selected rows, or "ALL       *)
(* shown", also when the click before has removed rows from the filter or  *)
(* moved others (queries.py: "positional row selection stays in sync       *)
(* across reruns").                                                        *)
GridActsAsShown ==
  [][/\ ui_fresh /\ ClickSelected => Changed \subseteq ui_marked
     /\ ui_fresh /\ (ClickSelected \/ ClickAll) =>
          \A m \in Changed : ui_shown[m] = row[m].staged_action]_pagesVars

ActsAsLabelled(action) ==
  \A m \in Changed : row[m].staged_action = action /\ GroupOf[m] \in ui_groups

(* While nothing else writes, a group button changes only what its label   *)
(* says: pending rows of the selected groups with that action, however the *)
(* ticks and the table have changed before (components.py,                 *)
(* group_table_with_actions).                                              *)
GroupActsAsLabelled ==
  [][\A action \in Actionable, status \in {"approved", "rejected"} :
       ui_fresh /\ ClickGroups(action, status) => ActsAsLabelled(action)]_pagesVars

(* The same whatever writes meanwhile: what was staged after the page was  *)
(* displayed is "never approved unseen" (components.py, the caption in     *)
(* group_table_with_actions).                                              *)
NothingActedOnUnseen ==
  [][\A action \in Actionable, status \in {"approved", "rejected"} :
       ClickGroups(action, status) => ActsAsLabelled(action)]_pagesVars

(* However old the ids a group button acts on, it changes no row of a      *)
(* group that is not ticked, and what was settled or decided since is left *)
(* alone (queries.py, update_status_if_pending: "never silently            *)
(* overwritten").                                                          *)
GroupNeverOverturns ==
  [][\A action \in Actionable, status \in {"approved", "rejected"} :
       ClickGroups(action, status) =>
         \A m \in Changed : row[m].review_status = "pending"
                             /\ GroupOf[m] \in ui_groups]_pagesVars
=============================================================================
