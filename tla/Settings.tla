------------------------------ MODULE Settings ------------------------------
(***************************************************************************)
(* The settings an administrator may change while the program runs: an     *)
(* overlay over defaults taken from the environment (config.py), copied    *)
(* onto the module constants the rest of the program reads, and a table    *)
(* that brings it back after a restart (app.py, db.py).                    *)
(*                                                                         *)
(* Numbers are counted in halves, so that what int() cuts off is there.    *)
(* A write to the table may fail: the handler does not look, and answers   *)
(* as if it had succeeded.                                                 *)
(***************************************************************************)
EXTENDS Integers, FiniteSets

CONSTANTS Names,      \* the keys of TUNABLES
          Kind,       \* "float", "int", "bool" or "choice"
          Low, High,  \* bounds of the numeric ones, in halves
          Choices, On, \* words: of the choices, and for true
          Words,      \* bound: what the form may send besides numbers
          Halves,     \* bound: the numbers it may send
          Flags,      \* other keys kept in the same table
          Environments \* bound: what the environment may say, a default for each name

ASSUME SettingsAssumption ==
    /\ Kind \in [Names -> {"float", "int", "bool", "choice"}]
    /\ Low \in [Names -> Int] /\ High \in [Names -> Int]
    /\ Choices \subseteq Words /\ On \subseteq Words /\ Halves \subseteq Int
    /\ Flags \cap Names = {} /\ \A d \in Environments : DOMAIN d = Names

VARIABLES
    default,   \* what the environment of this process says
    overrides, \* _overrides: a function from the names overridden
    live,      \* the module constants
    stored,    \* the settings table
    unsaved    \* the names whose last change the table did not take (history)

vars == <<default, overrides, live, stored, unsaved>>

Number(h) == [is |-> "number", half |-> h, word |-> ""]
NaN       == [is |-> "nan", half |-> 0, word |-> ""]
Word(w)   == [is |-> "word", half |-> 0, word |-> w]
Truth(b)  == Number(IF b THEN 2 ELSE 0)

Raw     == {Number(h) : h \in Halves} \cup {Word(w) : w \in Words} \cup {NaN}

\* int(): towards zero.
Cut(h) == IF h >= 0 THEN (h \div 2) * 2 ELSE -(((-h) \div 2) * 2)

InBounds(n, h) == Low[n] <= h /\ h <= High[n]

\* validate_tunable: the value it lets in, or none.  No comparison with NaN holds,
\* so a float may be NaN; for an int the conversion raises.
Normal(n, raw) ==
    CASE Kind[n] = "choice" -> {raw} \cap {Word(w) : w \in Choices}
      [] Kind[n] = "bool"   -> {Truth(raw = Number(2) \/ raw.word \in On)}
      [] Kind[n] = "float"  -> {r \in {raw} : r = NaN \/ (r.is = "number" /\ InBounds(n, r.half))}
      [] Kind[n] = "int"    -> {Number(Cut(r.half)) : r \in {r \in {raw} :
                                    r.is = "number" /\ InBounds(n, Cut(r.half))}}

Without(f, n) == [m \in DOMAIN f \ {n} |-> f[m]]
With(f, n, v) == [m \in DOMAIN f \cup {n} |-> IF m = n THEN v ELSE f[m]]

\* tunable: the override if there is one.
Tunable(o, d, n) == IF n \in DOMAIN o THEN o[n] ELSE d[n]

\* load_overrides: only the keys it knows, then every constant is set again.
Loaded(items) == [n \in DOMAIN items \cap Names |-> items[n]]

Started(d, items) ==
    /\ default = d /\ overrides = Loaded(items)
    /\ live = [n \in Names |-> Tunable(Loaded(items), d, n)]

Init == \E d \in Environments : Started(d, << >>) /\ stored = << >> /\ unsaved = {}

-----------------------------------------------------------------------------
\* _apply, of one name.
Apply(n) == live' = [live EXCEPT ![n] = Tunable(overrides', default, n)]

\* A write to the table, or its failure.
Persist(n, table) ==
    \/ stored' = table /\ unsaved' = unsaved \ {n}
    \/ stored' = stored /\ unsaved' = unsaved \cup {n}

\* POST /api/admin/settings, action=set.
Set(n, raw) ==
    \E v \in Normal(n, raw) :
        /\ overrides' = With(overrides, n, v)
        /\ Apply(n) /\ Persist(n, With(stored, n, v))
        /\ UNCHANGED default

\* Mutant of Reset: the row stays.
ResetUnstored(n) ==
    /\ overrides' = Without(overrides, n)
    /\ Apply(n) /\ UNCHANGED <<stored, unsaved, default>>

\* action=reset.
Reset(n) ==
    /\ overrides' = Without(overrides, n)
    /\ Apply(n) /\ Persist(n, Without(stored, n))
    /\ UNCHANGED default

\* Other parts of the program keep a flag in the table (the spend backfill).
Flag(f) == /\ f \notin DOMAIN stored /\ stored' = With(stored, f, Truth(TRUE))
           /\ UNCHANGED <<default, overrides, live, unsaved>>

\* settings_all: a table that cannot be read counts as empty.
SettingsAll(readable) == IF readable THEN stored ELSE << >>

\* A restart, perhaps with another environment.
Restart(d, readable) ==
    /\ default' = d
    /\ overrides' = Loaded(SettingsAll(readable))
    /\ live' = [n \in Names |-> Tunable(overrides', d, n)]
    /\ unsaved' = IF readable THEN {} ELSE Names
    /\ UNCHANGED stored

Next ==
    \/ \E n \in Names : Reset(n) \/ \E raw \in Raw : Set(n, raw)
    \/ \E f \in Flags : Flag(f)
    \/ \E d \in Environments, readable \in BOOLEAN : Restart(d, readable)

Spec == Init /\ [][Next]_vars

-----------------------------------------------------------------------------
Valid(n, v) ==
    CASE Kind[n] = "choice" -> v \in {Word(w) : w \in Choices}
      [] Kind[n] = "bool"   -> v \in {Truth(TRUE), Truth(FALSE)}
      [] Kind[n] = "float"  -> v = NaN \/ (v.is = "number" /\ InBounds(n, v.half))
      [] Kind[n] = "int"    -> v.is = "number" /\ InBounds(n, v.half) /\ v.half % 2 = 0

TypeOK ==
    /\ DOMAIN overrides \subseteq Names /\ DOMAIN stored \subseteq Names \cup Flags
    /\ DOMAIN live = Names /\ unsaved \subseteq Names /\ default \in Environments

\* Whatever is overridden, now or in the table the next start reads without
\* looking, is a value of its kind within its bounds: but for NaN, which passes as
\* a float (config.py:712-735, 678-686).
OverridesValid ==
    /\ \A n \in DOMAIN overrides : Valid(n, overrides[n])
    /\ \A n \in DOMAIN stored \cap Names : Valid(n, stored[n])

\* What the program reads is what the settings page shows, at every moment and
\* for every way a value can come and go (config.py:652-675, 700-709).
LiveFollows == \A n \in Names : live[n] = Tunable(overrides, default, n)

\* A restart changes no overridden value and brings back no value that was reset,
\* save those whose last change the table did not take (app.py:1652-1660, 4367).
RestartKeeps ==
    [][\A n \in Names \ unsaved :
        (\E d \in Environments : Restart(d, TRUE)) =>
            /\ n \in DOMAIN overrides <=> n \in DOMAIN overrides'
            /\ n \in DOMAIN overrides => live'[n] = live[n]]_vars
=============================================================================
