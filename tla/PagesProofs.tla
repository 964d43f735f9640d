---------------------------- MODULE PagesProofs ----------------------------
(***************************************************************************)
(* Proofs about ReviewPages for every set of messages, groups, filters and *)
(* sizes of the grid, whatever else the pipeline is doing.                 *)
(*                                                                         *)
(* The invariant has three parts: that of the pipeline, which the pages    *)
(* keep like any other writer; that the ids a button holds, however old,   *)
(* are of ticked groups; and that as long as nothing else has written, the *)
(* browser shows the table, and holds the ids, that the next run of the    *)
(* page's script is going to find.                                         *)
(***************************************************************************)
EXTENDS ReviewPages, PipelineProofs

ShownGrid == IF ui_page = "review" THEN Grid(row, ui_filter) ELSE {}

(* The browser displays what is in the table.                              *)
Displayed ==
  /\ ui_shown = [m \in Ids |-> IF m \in ShownGrid THEN row[m].staged_action ELSE Absent]
  /\ ui_marked = At(ShownGrid, ui_sel)
  /\ ui_ids = IF ui_page = "senders"
              THEN [a \in Actionable |-> PendingIds(row, ui_groups, a)]
              ELSE [a \in Actionable |-> {}]

IdsOfGroups == \A a \in Actionable : \A m \in ui_ids[a] : GroupOf[m] \in ui_groups

PagesInv ==
  /\ IInv
  /\ BrowserTypeOK
  /\ IdsOfGroups
  /\ ui_fresh => Displayed

-----------------------------------------------------------------------------
(* What a run of the script renders.                                       *)

(* A grid, and what is selected of it, are of the table's messages.        *)
LEMMA GridIsOfRows ==
  ASSUME NEW t, NEW filter, NEW sel
  PROVE  Grid(t, filter) \subseteq Ids /\ At(Grid(t, filter), sel) \subseteq Grid(t, filter)
  BY DEF Grid, NewestOf, At

(* What is rendered is what the table holds, and is well typed.            *)
LEMMA RenderingDisplays ==
  ASSUME Rendered, row' \in [Ids -> Rows],
         ui_page' \in {"review", "senders"}, ui_filter' \in Filters,
         ui_sel' \subseteq Positions, ui_groups' \subseteq Groups
  PROVE  BrowserTypeOK' /\ IdsOfGroups' /\ Displayed'
<1> DEFINE grid == IF ui_page' = "review" THEN Grid(row', ui_filter') ELSE {}
<1>1. /\ ui_shown' = [m \in Ids |-> IF m \in grid THEN row'[m].staged_action ELSE Absent]
      /\ ui_marked' = At(grid, ui_sel') /\ ui_fresh' = TRUE
      /\ ui_ids' = IF ui_page' = "senders"
                   THEN [a \in Actionable |-> PendingIds(row', ui_groups', a)]
                   ELSE [a \in Actionable |-> {}]
  BY DEF Rendered
<1>2. grid \subseteq Ids /\ At(grid, ui_sel') \subseteq grid
  BY GridIsOfRows DEF At
<1>3. grid = ShownGrid'
  BY DEF ShownGrid
<1>4. Displayed'
  <2> HIDE DEF grid
  <2> QED
    BY <1>1, <1>3 DEF Displayed
<1> HIDE DEF grid
<1>5. \A m \in Ids : row'[m].staged_action \in Actions \cup {NULL}
                     /\ row'[m].staged_action # Absent
  BY DEF Rows, Actions, NULL, Absent
<1>6. ui_shown' \in [Ids -> Actions \cup {NULL, Absent}]
  BY <1>1, <1>5
<1>7. ui_marked' \subseteq {m \in Ids : ui_shown'[m] # Absent}
  BY <1>1, <1>2, <1>5
<1>8. ui_ids' \in [Actionable -> SUBSET Ids]
  <2>1. \A a : PendingIds(row', ui_groups', a) \subseteq Ids
    BY DEF PendingIds
  <2> QED
    BY <1>1, <2>1
<1>9. IdsOfGroups'
  BY <1>1 DEF IdsOfGroups, PendingIds
<1> QED
  BY <1>1, <1>4, <1>6, <1>7, <1>8, <1>9 DEF BrowserTypeOK

-----------------------------------------------------------------------------
(* The steps.                                                              *)

(* A step that only turns to other widgets leaves the pipeline alone.      *)
LEMMA LookingKeepsRows ==
  ASSUME IInv, UNCHANGED vars
  PROVE  IInv' /\ KeepsApplied /\ row' \in [Ids -> Rows]
<1>1. IInv' /\ KeepsApplied
  BY NextIsSound
<1> QED
  BY <1>1 DEF IInv, TypeOK, DatabaseTypeOK

(* A click that keeps the rows sound leaves the rest of the pipeline alone.*)
LEMMA ClickKeepsRows ==
  ASSUME IInv, RowsKept, DatabaseTypeOK', ByOthers
  PROVE  IInv' /\ KeepsApplied /\ row' \in [Ids -> Rows]
<1>1. RulesTypeOK' /\ SoundPlans'
  BY DEF ByOthers, rulesVars, IInv, TypeOK, RulesTypeOK, SoundPlans
<1>2. ClassifyTypeOK'
  BY DEF ByOthers, classifyVars, IInv, TypeOK, ClassifyTypeOK
<1>3. SoundRows' /\ SoundTodo' /\ ApplyTypeOK' /\ KeepsApplied
  BY RowsKeptIsSound DEF ByOthers
<1> QED
  BY <1>1, <1>2, <1>3 DEF IInv, TypeOK, RowsKept

(* The guarded UPDATE of the group buttons keeps rows sound: it changes no *)
(* row but pending ones, which no human has decided.                       *)
LEMMA GroupUpdateKeeps ==
  ASSUME IInv, NEW ids, NEW status \in {"approved", "rejected"},
         UpdateStatusIfPending(ids, status), UNCHANGED <<hits, writer>>
  PROVE  RowsKept /\ DatabaseTypeOK'
<1>1. ASSUME NEW m \in Ids PROVE SoundRow(row'[m]) /\ Alike(row[m], row'[m])
  <2>1. SoundRow(row[m])
    BY DEF IInv, SoundRows
  <2>2. \/ row'[m] = row[m]
        \/ /\ row[m].review_status = "pending"
           /\ row'[m] = [row[m] EXCEPT !.review_status = status]
    BY DEF UpdateStatusIfPending
  <2>3. status \in Statuses \ {"pending", "auto_approved", "applied"}
    BY DEF Statuses, Approvable
  <2> QED
    BY <2>1, <2>2, <2>3, StatusIsSound DEF Alike, SoundRow, Rows
<1>2. RowsKept
  <2>1. row' = [m \in Ids |-> row'[m]]
    BY DEF UpdateStatusIfPending
  <2> QED
    BY <1>1, <2>1, EachRowKept
<1> QED
  BY <1>2 DEF RowsKept, IInv, TypeOK, DatabaseTypeOK

(* After a click, the page is rendered from the table the click left.      *)
LEMMA RerunDisplays ==
  ASSUME BrowserTypeOK, Rerun, row' \in [Ids -> Rows]
  PROVE  BrowserTypeOK' /\ IdsOfGroups' /\ Displayed'
<1>1. /\ ui_page' \in {"review", "senders"} /\ ui_filter' \in Filters
      /\ ui_sel' \subseteq Positions /\ ui_groups' \subseteq Groups
  BY DEF Rerun, BrowserTypeOK
<1> QED
  BY <1>1, RenderingDisplays DEF Rerun

(* The page that opens shows the table as it is.                           *)
LEMMA InitDisplays == PagesInit => PagesInv
<1> SUFFICES ASSUME PagesInit PROVE PagesInv
  OBVIOUS
<1> USE DEF PagesInit, RulesInit, ClassifyInit, ApplyInit
<1>1. ASSUME NEW m \in Ids PROVE SoundRow(row[m])
  <2>1. row[m] \in StartRows
    OBVIOUS
  <2> QED
    BY <2>1, PagesAssumption DEF SoundRow
<1>2. DatabaseTypeOK /\ SoundRows
  BY <1>1, PagesAssumption DEF DatabaseTypeOK, SoundRows
<1>3. RulesTypeOK /\ SoundPlans
  BY UndecidedIsSound DEF RulesTypeOK, SoundPlans, NoPlan, StageDecision
<1>4. ClassifyTypeOK
  BY DEF ClassifyTypeOK, Results
<1>5. ApplyTypeOK /\ SoundTodo
  BY DEF ApplyTypeOK, NothingToApply, SoundTodo, Unsettled
<1>6. Displayed
  <2>1. ShownGrid = Grid(row, "all")
    BY DEF ShownGrid
  <2>2. At(ShownGrid, ui_sel) = {}
    BY DEF At
  <2> QED
    BY <2>1, <2>2 DEF Displayed
<1>7. BrowserTypeOK
  <2>1. \A m \in Ids : row[m].staged_action \in Actions \cup {NULL}
    BY <1>1, RowColumns
  <2>2. "all" \in Filters
    BY DEF Filters
  <2>3. ui_shown \in [Ids -> Actions \cup {NULL, Absent}]
    BY <2>1
  <2> QED
    BY <2>2, <2>3 DEF BrowserTypeOK
<1>8. IdsOfGroups
  BY DEF IdsOfGroups
<1> QED
  BY <1>2, <1>3, <1>4, <1>5, <1>6, <1>7, <1>8 DEF PagesInv, IInv, TypeOK

(* Every step of the browser, and of the other stages, keeps that: what    *)
(* others write makes the page stale, and a rerun makes it fresh.          *)
LEMMA PagesStepsKeep ==
  PagesInv /\ [PagesNext]_pagesVars => PagesInv' /\ KeepsApplied
<1> SUFFICES ASSUME PagesInv, [PagesNext]_pagesVars PROVE PagesInv' /\ KeepsApplied
  OBVIOUS
<1> USE DEF PagesInv
<1>1. ASSUME NEW page \in {"review", "senders"}, NEW filter \in Filters, Open(page, filter)
      PROVE  PagesInv' /\ KeepsApplied
  <2>1. IInv' /\ KeepsApplied /\ row' \in [Ids -> Rows]
    BY <1>1, LookingKeepsRows DEF Open
  <2>2. BrowserTypeOK' /\ IdsOfGroups' /\ Displayed'
    BY <1>1, <2>1, RenderingDisplays DEF Open
  <2> QED
    BY <2>1, <2>2
<1>2. ASSUME NEW sel \in SUBSET Positions, Select(sel) PROVE PagesInv' /\ KeepsApplied
  <2>1. IInv' /\ KeepsApplied /\ row' \in [Ids -> Rows]
    BY <1>2, LookingKeepsRows DEF Select
  <2>2. BrowserTypeOK' /\ IdsOfGroups' /\ Displayed'
    BY <1>2, <2>1, RenderingDisplays DEF Select, BrowserTypeOK
  <2> QED
    BY <2>1, <2>2
<1>3. ASSUME NEW groups \in SUBSET Groups, TickGroups(groups) PROVE PagesInv' /\ KeepsApplied
  <2>1. IInv' /\ KeepsApplied /\ row' \in [Ids -> Rows]
    BY <1>3, LookingKeepsRows DEF TickGroups
  <2>2. BrowserTypeOK' /\ IdsOfGroups' /\ Displayed'
    BY <1>3, <2>1, RenderingDisplays DEF TickGroups, BrowserTypeOK
  <2> QED
    BY <2>1, <2>2
<1>4. ASSUME NEW ids \in SUBSET Ids, UIStep(ids), Rerun, ByOthers PROVE PagesInv' /\ KeepsApplied
  <2>1. IInv' /\ KeepsApplied /\ row' \in [Ids -> Rows]
    BY <1>4, ReviewKeeps, ClickKeepsRows
  <2> QED
    BY <1>4, <2>1, RerunDisplays
<1>5. CASE ClickSelected
  BY <1>4, <1>5, GridIsOfRows DEF ClickSelected
<1>6. CASE ClickAll
  BY <1>4, <1>6, GridIsOfRows DEF ClickAll, UIStep
<1>7. ASSUME NEW action \in Actionable, NEW status \in {"approved", "rejected"},
             ClickGroups(action, status)
      PROVE  PagesInv' /\ KeepsApplied
  <2>1. IInv' /\ KeepsApplied /\ row' \in [Ids -> Rows]
    BY <1>7, GroupUpdateKeeps, ClickKeepsRows DEF ClickGroups
  <2> QED
    BY <1>7, <2>1, RerunDisplays DEF ClickGroups
<1>8. CASE Elsewhere
  <2>1. Next
    BY <1>8 DEF Elsewhere, Next
  <2>2. IInv' /\ KeepsApplied
    BY <2>1, NextIsSound
  <2>3. BrowserTypeOK' /\ IdsOfGroups'
    BY <1>8 DEF Elsewhere, BrowserTypeOK, IdsOfGroups, Positions, Groups
  <2>4. ui_fresh' => Displayed'
    BY <1>8 DEF Elsewhere, Displayed, ShownGrid
  <2> QED
    BY <2>2, <2>3, <2>4
<1>9. CASE UNCHANGED pagesVars
  <2>1. IInv' /\ KeepsApplied
    BY <1>9, NextIsSound DEF pagesVars
  <2> QED
    BY <1>9, <2>1 DEF pagesVars, vars, dbVars, pageVars, BrowserTypeOK, IdsOfGroups, Displayed,
       ShownGrid, Positions, Groups
<1> QED
  <2>1. \A filter \in Presets : filter \in Filters
    BY PagesAssumption
  <2>2. "all" \in Filters
    BY DEF Filters
  <2> QED
    BY <1>1, <1>2, <1>3, <1>5, <1>6, <1>7, <1>8, <1>9, <2>1, <2>2 DEF PagesNext

(* In every session, what is displayed is what is there, unless something  *)
(* else has written since; and the pipeline's own invariant holds.         *)
THEOREM PagesAreSound == PagesSpec => []PagesInv
<1>1. PagesInit => PagesInv
  BY InitDisplays
<1>2. PagesInv /\ [PagesNext]_pagesVars => PagesInv'
  BY PagesStepsKeep
<1> QED
  BY <1>1, <1>2, PTL DEF PagesSpec

(* The bulk buttons leave what the pipeline always keeps as it is: rows    *)
(* are decided as a whole, and no human decision stands before a gate.     *)
THEOREM PagesKeepDecisions == PagesSpec => [](DecidedTogether /\ HumanNeverGated)
<1>1. PagesInv => DecidedTogether /\ HumanNeverGated
  BY DEF PagesInv, IInv, SoundRows, SoundRow, DecidedTogether, HumanNeverGated
<1> QED
  BY <1>1, PagesAreSound, PTL

(* No bulk button, with ids however old, takes back that a row has been    *)
(* applied.                                                                *)
THEOREM PagesKeepApplied == PagesSpec => AppliedIsFinal
<1>1. PagesInv /\ [PagesNext]_pagesVars => KeepsApplied
  BY PagesStepsKeep
<1>2. KeepsApplied => [KeepsApplied]_vars
  OBVIOUS
<1>3. PagesSpec => [][KeepsApplied]_vars
  BY <1>1, <1>2, PagesAreSound, PTL DEF PagesSpec
<1> QED
  BY <1>3 DEF AppliedIsFinal, KeepsApplied

-----------------------------------------------------------------------------
(* What the buttons do.                                                    *)

(* Every variable of the session keeps its type.                           *)
THEOREM PagesTypeCorrect == PagesSpec => []PagesTypeOK
<1>1. PagesInv => PagesTypeOK
  BY DEF PagesInv, IInv, PagesTypeOK
<1> QED
  BY <1>1, PagesAreSound, PTL

(* A button of the grid changes no row outside the ids it is given.        *)
LEMMA UIStepTouches ==
  ASSUME NEW ids, UIStep(ids)
  PROVE  Changed \subseteq ids
<1>1. \A m \in Ids : m \notin ids => row'[m] = row[m]
  BY DEF UIStep, SetStatus, SetDecision
<1> QED
  BY <1>1 DEF Changed

GridActs ==
  /\ ui_fresh /\ ClickSelected => Changed \subseteq ui_marked
  /\ ui_fresh /\ (ClickSelected \/ ClickAll) =>
       \A m \in Changed : ui_shown[m] = row[m].staged_action

(* The grid's buttons act on the marked rows, with the decisions shown,    *)
(* whatever the clicks before them have done to the filter's rows.         *)
THEOREM GridButtonsActAsShown == PagesSpec => GridActsAsShown
<1>1. PagesInv => GridActs
  <2> SUFFICES ASSUME PagesInv, ui_fresh PROVE GridActs
    BY DEF GridActs
  <2> DEFINE grid == Grid(row, ui_filter)
  <2>1. Displayed
    BY DEF PagesInv
  <2>2. ASSUME ui_page = "review"
        PROVE  /\ ui_marked = At(grid, ui_sel)
               /\ \A m \in grid : ui_shown[m] = row[m].staged_action
    BY <2>1, <2>2, GridIsOfRows DEF Displayed, ShownGrid
  <2>3. ASSUME ClickSelected
        PROVE  ui_page = "review" /\ Changed \subseteq At(grid, ui_sel)
    BY <2>3, UIStepTouches DEF ClickSelected
  <2>4. ASSUME ClickAll PROVE ui_page = "review" /\ Changed \subseteq grid
    BY <2>4, UIStepTouches DEF ClickAll, UIStep
  <2>5. At(grid, ui_sel) \subseteq grid
    BY GridIsOfRows
  <2> HIDE DEF grid
  <2> QED
    BY <2>2, <2>3, <2>4, <2>5 DEF GridActs
<1>2. PagesSpec => [][GridActs]_pagesVars
  BY <1>1, PagesAreSound, PTL DEF PagesSpec
<1> QED
  BY <1>2 DEF GridActsAsShown, GridActs

GroupActs ==
  \A action \in Actionable, status \in {"approved", "rejected"} :
    ui_fresh /\ ClickGroups(action, status) => ActsAsLabelled(action)

(* A group button changes only pending rows of the ticked groups that are  *)
(* staged for its own action.                                              *)
THEOREM GroupButtonsActAsLabelled == PagesSpec => GroupActsAsLabelled
<1>1. PagesInv => GroupActs
  <2> SUFFICES ASSUME PagesInv, NEW action \in Actionable,
                      NEW status \in {"approved", "rejected"},
                      ui_fresh, ClickGroups(action, status), NEW m \in Changed
               PROVE  row[m].staged_action = action /\ GroupOf[m] \in ui_groups
    BY DEF GroupActs, ActsAsLabelled
  <2>1. ui_ids[action] = PendingIds(row, ui_groups, action)
    BY DEF PagesInv, Displayed, ClickGroups
  <2>2. m \in ui_ids[action]
    BY DEF Changed, ClickGroups, UpdateStatusIfPending
  <2> QED
    BY <2>1, <2>2 DEF PendingIds
<1>2. PagesSpec => [][GroupActs]_pagesVars
  BY <1>1, PagesAreSound, PTL DEF PagesSpec
<1> QED
  BY <1>2 DEF GroupActsAsLabelled, GroupActs

GroupSpares ==
  \A action \in Actionable, status \in {"approved", "rejected"} :
    ClickGroups(action, status) =>
      \A m \in Changed : row[m].review_status = "pending" /\ GroupOf[m] \in ui_groups

(* Stale or not, a group button leaves rows of other groups, and decided   *)
(* and settled rows, alone.                                                *)
THEOREM GroupButtonsNeverOverturn == PagesSpec => GroupNeverOverturns
<1>1. PagesInv => GroupSpares
  <2> SUFFICES ASSUME PagesInv, NEW action \in Actionable,
                      NEW status \in {"approved", "rejected"},
                      ClickGroups(action, status), NEW m \in Changed
               PROVE  row[m].review_status = "pending" /\ GroupOf[m] \in ui_groups
    BY DEF GroupSpares
  <2>1. m \in ui_ids[action] /\ row[m].review_status = "pending"
    BY DEF Changed, ClickGroups, UpdateStatusIfPending
  <2> QED
    BY <2>1 DEF PagesInv, IdsOfGroups
<1>2. PagesSpec => [][GroupSpares]_pagesVars
  BY <1>1, PagesAreSound, PTL DEF PagesSpec
<1> QED
  BY <1>2 DEF GroupNeverOverturns, GroupSpares
=============================================================================
