------------------------------ MODULE MCFigures ------------------------------
(***************************************************************************)
(* The figures of the spend page and the lists they are joined with, for   *)
(* one run: Ledger, Paging, Budgets and Figures.  They share no state, so  *)
(* a behaviour picks a part and runs it alone, and each is checked over    *)
(* all its states; the two tables of Ledger are two parts.                 *)
(***************************************************************************)
EXTENDS Ledger, Paging, Budgets, Figures

ListPrices == [m \in {"paid", "own"} |-> IF m = "own" THEN 0 ELSE 1]

\* The owner that MONITOR_EXCLUDE_KEYS names.
BarredOwner == {<<"owner", "k1">>}

\* Totals of four buckets: steady, falling, and with a gap.
Steady == [b \in 0..3 |-> 1]
Shapes == {Steady, [Steady EXCEPT ![0] = 2, ![1] = 0], [Steady EXCEPT ![2] = -1, ![3] = 2]}

\* The lists and the panel, where another part runs.
NoServer == [size |-> 0, page |-> 1, totals |-> {}, heeds |-> TRUE]

PartInit ==
    /\ part \in {"daily", "rows", "charts", "counters", "work", "lists", "panel"}
    /\ LedgerInit /\ FigureInit
    /\ part # "work" => load = Steady /\ cumulative /\ bymodel
    /\ reported \subseteq IF part = "charts" THEN External ELSE {}
    /\ IF part = "lists" THEN WalkInit
       ELSE server = NoServer /\ cached = {} /\ walk = [c \in Callers |-> NewWalk("none")]
    /\ IF part = "panel" THEN PanelInit
       ELSE view = << >> /\ panel = {} /\ listing = Keys /\ merging = Keys

\* The writers of one table, while those of the other are idle.
Writing(actors) == LedgerNext /\ \A a \in Actors \ actors : pull'[a] = Nothing

PartNext ==
    \/ /\ part' = part /\ UNCHANGED <<charts, counters, work>>
       /\ \/ part = "daily" /\ Writing(DailyActors) /\ UNCHANGED <<walkVars, panelVars>>
          \/ part = "rows" /\ Writing(RowActors) /\ UNCHANGED <<walkVars, panelVars>>
          \/ part = "lists" /\ WalkNext /\ UNCHANGED <<ledgerVars, panelVars>>
          \/ part = "panel" /\ PanelNext /\ UNCHANGED <<ledgerVars, walkVars>>
    \/ FigureNext /\ UNCHANGED <<ledgerVars, walkVars, panelVars>>

PartSpec == PartInit /\ [][PartNext]_<<figures, ledgerVars, walkVars, panelVars>>
=============================================================================
