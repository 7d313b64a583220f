------------------------------ MODULE Budgets -------------------------------
(***************************************************************************)
(* The rows of the budgets panel (app.py:2379-2445; litellm.py:58-96,      *)
(* 1525-1573): the keys LiteLLM lists and the keys that spent, two views   *)
(* of the same keys that name them by different fields.  What they are     *)
(* joined on decides whether money is lost or counted twice.               *)
(*                                                                         *)
(* `view' is one pair of answers, chosen at the start; the two loops that  *)
(* read them take the keys in any order.                                   *)
(***************************************************************************)
EXTENDS Integers, FiniteSets

CONSTANTS Keys,            \* hashes, each of one key
          Aliases, Masked  \* names that keys may be given, and share

VARIABLES
    view,
    panel,   \* the rows so far
    listing, \* keys of /key/list not yet read
    merging  \* keys of the snapshot not yet folded in

panelVars == <<view, panel, listing, merging>>

\* A field that says nothing.
Blank == ""

\* What a source says of a key: an alias, a masked name, its hash; blank where it
\* says nothing.
Fields(k) == [alias : Aliases \cup {Blank}, name : Masked \cup {Blank}, hash : {Blank, k}]
Absent    == [alias |-> "absent", name |-> Blank, hash |-> Blank]

\* Each key has its own hash.
ViewOf == {f \in [Keys -> {Absent} \cup UNION {Fields(k) : k \in Keys}] :
              \A k \in Keys : f[k] = Absent \/ f[k] \in Fields(k)}

PanelInit == view \in [listed : ViewOf, spent : ViewOf] /\ panel = {} /\ listing = Keys /\ merging = Keys

-----------------------------------------------------------------------------
\* key_label: one field that the row has, the alias first.
Label(row) == IF row.alias # Blank THEN row.alias
              ELSE IF row.name # Blank THEN row.name ELSE row.hash
\* The fields no two keys share.
Strong(row) == {row.hash} \ {Blank}

\* A row of the panel; one that has no label is numbered.
PanelRow(k, id, nth) == [key |-> k, id |-> id, label |-> Label(id), nth |-> nth]
Unnamed == {r \in panel : r.nth > 0}

\* key_budgets: by label, the last row of a label counts; one without any identity
\* is left out.
List(k) ==
    /\ k \in listing /\ listing' = listing \ {k}
    /\ LET id == view.listed[k]
       IN  panel' = IF id = Absent \/ Label(id) = Blank THEN panel
                    ELSE {r \in panel : r.label # Label(id)} \cup {PanelRow(k, id, 0)}
    /\ UNCHANGED <<view, merging>>

\* Mutant of SameKey: any identity is compared with any other.
SameKeyAny(id, r) ==
    ({id.alias, id.name, id.hash} \ {Blank}) \cap {r.id.alias, r.id.name, r.id.hash} # {}

\* Two rows are of one key if they share a hash, or their label.
SameKey(id, r) ==
    \/ Strong(id) \cap Strong(r.id) # {}
    \/ Label(id) # Blank /\ Label(id) = r.label

\* merge_key_budgets: a key of the snapshot that is not there yet; one without any
\* identity gets a label of its own.
FoldIn(k) ==
    /\ listing = {} /\ k \in merging /\ merging' = merging \ {k}
    /\ LET id == view.spent[k]
       IN  panel' = IF id = Absent \/ \E r \in panel : SameKey(id, r) THEN panel
                    ELSE panel \cup {PanelRow(k, id, IF Label(id) # Blank THEN 0
                                                     ELSE Cardinality(Unnamed) + 1)}
    /\ UNCHANGED <<view, listing>>

Served == listing = {} /\ merging = {}

PanelNext == (\E k \in Keys : List(k) \/ FoldIn(k)) \/ (Served /\ UNCHANGED panelVars)
PanelSpec == PanelInit /\ [][PanelNext]_panelVars

-----------------------------------------------------------------------------
\* What the two sources say is enough to tell the keys apart: the rows of one key
\* share their hash or their label, and no two keys share a label.
Said(k) == {view.listed[k], view.spent[k]} \ {Absent}
Telling ==
    /\ \A k \in Keys : \A x, y \in Said(k) : (x.hash = y.hash /\ x.hash # Blank) \/ Label(x) = Label(y)
    /\ \A j, k \in Keys : \A x \in Said(j), y \in Said(k) :
          j # k /\ Label(x) = Label(y) => Label(x) = Blank

\* Each key that LiteLLM lists by some identity or that spent is in the panel once,
\* whatever fields it is named by: no spend is lost, none is counted twice
\* (app.py:2400-2440).
EachKeyOnce ==
    Served /\ Telling => \A k \in Keys :
        Cardinality({r \in panel : r.key = k})
            = IF \E x \in Said(k) : x = view.spent[k] \/ Label(x) # Blank THEN 1 ELSE 0

\* No two rows have the same label, on which teams, users and budgets are put over
\* them, even if the keys cannot be told apart (app.py:2429-2432).
LabelsUnique == \A r, s \in panel : r.label = s.label /\ r.nth = s.nth => r = s

\* The panel has each key once, under a label of its own.
PanelComplete == EachKeyOnce /\ LabelsUnique
=============================================================================
