------------------------------- MODULE Charts -------------------------------
(***************************************************************************)
(* The money charts of the spend page (app.py:3256-3650, 3835-3970;        *)
(* db.py:2293-2435; litellm.py:670-852): cost per model, cost per model    *)
(* and user, the card of periods, cost per key and the lines of the keys   *)
(* over time.  Five pieces of code cut the same usage by window, price it  *)
(* and fold its tail, and the page shows them side by side.                *)
(*                                                                         *)
(* The usage is a set of rows (day, model, key) of one token each.  The    *)
(* calendar is a small one: days from 0, months of MonthLen days.  Money   *)
(* is exact: the code rounds it to cents, and drops lines that round to    *)
(* nothing.                                                                *)
(***************************************************************************)
EXTENDS Integers, FiniteSets, FiniteSetsExt, Functions

CONSTANTS Models,    \* with their price from LiteLLM: [Models -> Nat]
          External,  \* those that cost real cash (classify_model)
          Labels,    \* the keys, by alias or else by hash
          Excluded,  \* those of MONITOR_EXCLUDE_KEYS
          Barred,    \* the owners it names
          Prices,    \* prices an operator may pin
          LastDay, MonthLen,
          Short,     \* the days of the window 30d
          Months,    \* the months of the window 12mo
          TopN,      \* how many lines a chart keeps
          MaxRows,   \* bound: rows
          Anchors    \* bound: days the page is panned to

VARIABLES
    used,     \* the rows
    reported, \* models whose own cash is in LiteLLM's activity, on all their days
    pin,      \* model_cost_price: the prices the operator pinned
    override, \* labels the admin has given to a user
    owned,    \* labels LiteLLM has named an owner for (known_keys.owner)
    hide      \* HIDE_UNASSIGNED_KEYS

vars == <<used, reported, pin, override, owned, hide>>

Day     == 0..LastDay
Windows == {"30d", "month", "12mo"}

Init == /\ used = {} /\ pin = << >> /\ override = {} /\ owned = {} /\ hide = FALSE
        /\ reported \in SUBSET DOMAIN Models

-----------------------------------------------------------------------------
\* A request of a key to a model, seen by LiteLLM's activity and by the rollup.
Use == \E d \in Day, m \in DOMAIN Models, k \in Labels :
    /\ Cardinality(used) < MaxRows
    /\ used' = used \cup {[day |-> d, model |-> m, key |-> k]}
    /\ UNCHANGED <<reported, pin, override, owned, hide>>

\* model_cost_price_set.
Pin == \E m \in DOMAIN Models, p \in Prices :
    /\ pin' = [x \in DOMAIN pin \cup {m} |-> IF x = m THEN p ELSE pin[x]]
    /\ UNCHANGED <<used, reported, override, owned, hide>>

\* model_cost_price_delete.
Unpin == \E m \in DOMAIN pin :
    /\ pin' = [x \in DOMAIN pin \ {m} |-> pin[x]]
    /\ UNCHANGED <<used, reported, override, owned, hide>>

Assign == \E k \in Labels : /\ override' = override \cup {k}
                            /\ UNCHANGED <<used, reported, pin, owned, hide>>
Learn == \E k \in Labels : /\ owned' = owned \cup {k}
                           /\ UNCHANGED <<used, reported, pin, override, hide>>
Hide == /\ hide' = ~hide /\ UNCHANGED <<used, reported, pin, override, owned>>

Next == Use \/ Pin \/ Unpin \/ Assign \/ Learn \/ Hide
Spec == Init /\ [][Next]_vars

-----------------------------------------------------------------------------
(* Prices, windows and the tail of a chart.                                *)

\* _apply_cost_overrides: the pinned price wins.
Price(m) == IF m \in DOMAIN pin THEN pin[m] ELSE Models[m]
Cost(r)  == Price(r.model)

\* The valuation of the model chart: LiteLLM's own cash, where it reports it, and the
\* price of the others.
Value(r) == IF r.model \in reported THEN Models[r.model] ELSE Cost(r)

Costs  == [r \in used |-> Cost(r)]
Values == [r \in used |-> Value(r)]
Amount(worth, rows) == SumFunction([r \in rows |-> worth[r]])
Worth(rows) == Amount(Costs, rows)

\* What LiteLLM billed.
Billed(rows) == SumFunction([r \in rows |-> Models[r.model]])

Month(d) == d \div MonthLen
Bucket(w, d) == IF w = "12mo" THEN Month(d) ELSE d

\* The first day of a window that ends on day a.
First(w, a) == CASE w = "30d"   -> a - Short
                 [] w = "month" -> Month(a) * MonthLen
                 [] w = "12mo"  -> a - Months * MonthLen
Within(w, a) == {r \in used : r.day \in First(w, a) .. a}

\* The lines that are kept, and one that holds the others.
Tail(lines, keep) ==
    [x \in keep \cup (IF keep = DOMAIN lines THEN {} ELSE {<<"Other">>}) |->
        IF x \in keep THEN lines[x]
        ELSE LET rest == DOMAIN lines \ keep IN
             [l \in DOMAIN lines[CHOOSE y \in rest : TRUE] |-> SumFunction([y \in rest |-> lines[y][l]])]]

Total(line) == SumFunction(line)

\* Sorted by total, the first TopN, the rest folded.
Chart(lines) ==
    LET size == IF Cardinality(DOMAIN lines) < TopN THEN Cardinality(DOMAIN lines) ELSE TopN
        keep == CHOOSE K \in kSubset(size, DOMAIN lines) :
                   \A x \in K, y \in DOMAIN lines \ K : Total(lines[x]) >= Total(lines[y])
    IN Tail(lines, keep)

Grand(chart) == SumFunction([x \in DOMAIN chart |-> Total(chart[x])])

\* The points of an axis, with what the rows are worth on each; a row is in a line when
\* its name is the line's.
Lines(rows, name, worth, w, axis) ==
    LET priced == {r \in rows : worth[r] > 0 /\ Bucket(w, r.day) \in axis} IN
    [x \in {name[r] : r \in priced} |->
        [l \in axis |-> Amount(worth, {r \in priced : name[r] = x /\ Bucket(w, r.day) = l})]]

MonthAxis(a) == Month(a) - Months + 1 .. Month(a)

-----------------------------------------------------------------------------
(* The charts.                                                             *)

\* What spend_model_series_handler asks LiteLLM for: a year back from today, wherever the
\* page is panned to.
Year     == Months * MonthLen
Activity == {r \in used : r.day >= LastDay - Year}

\* per_model_daily_series and bucket_model_series: its days are those with a value, be
\* it a cash of nothing.
ModelChart(w, a) ==
    LET dates == {r.day : r \in {r \in Activity : r.model \in reported \/ Cost(r) > 0}}
        axis  == IF w = "12mo" THEN MonthAxis(a) ELSE {d \in dates : d \in First(w, a) .. a}
    IN Chart(Lines(Activity, [r \in Activity |-> <<r.model>>], Values, w, axis))

\* _owner_of: the admin's override, then LiteLLM's owner, live or stored.
OwnerOf(k) == IF k \in override THEN <<"admin", k>>
              ELSE IF k \in owned THEN <<"owner", k>> ELSE <<"Unassigned">>

\* Mutant of Fetched: the days of the month that have passed, without today.
FetchedShort(w, a) == {r \in used : r.day \in a - (a - First(w, a)) + 1 .. a}

\* spend_model_user_rows, with the days back that its handler asks for.
Fetched(w, a) ==
    LET back == CASE w = "month" -> a - First(w, a) + 1
                  [] w = "12mo"  -> Months * MonthLen + 1
                  [] w = "30d"   -> Short
    IN {r \in used : r.day \in a - back .. a}

\* What the chart of models and users takes in: external models, without the keys that
\* are excluded by their own name or by their owner's.
Stacked(rows) == {r \in rows : r.model \in External /\ r.key \notin Excluded /\ OwnerOf(r.key) \notin Barred}

\* bucket_model_user_series: tokens at their price.
UserChart(w, a) ==
    LET rows == Fetched(w, a)
        axis == IF w = "12mo" THEN MonthAxis(a)
                ELSE {r.day : r \in {r \in rows : r.day >= First(w, a)}}
    IN Chart(Lines(Stacked(rows), [r \in rows |-> <<r.model, OwnerOf(r.key)>>], Costs, w, axis))

\* per_model_daily_cost: what the day's own models cost.
DayCost(d, real) == Worth({r \in used : r.day = d /\ (r.model \in External <=> real)})

\* apply_daily_cost: the cost of the days of a point's period.
Estimated(w, p, real) == SumFunction([d \in {d \in Day : Bucket(w, d) = p} |-> DayCost(d, real)])

\* per_model_daily_tokens: all models, priced or not.
DayTokens(d, real) == Cardinality({r \in used : r.day = d /\ (r.model \in External <=> real)})

\* apply_daily_tokens: the same periods.
Split(w, p, real) == SumFunction([d \in {d \in Day : Bucket(w, d) = p} |-> DayTokens(d, real)])

\* window_and_years and bucket_spend: a point for each day or month in the window,
\* with its tokens, and what LiteLLM billed.
Point(w, a, p) == LET rows == {r \in Within(w, a) : Bucket(w, r.day) = p} IN
    [tokens |-> Cardinality(rows), spend |-> Billed(rows)]

\* anchor_real_to_actual: as soon as anything was billed, external models cost what
\* was billed and not what they are priced at.
Real(w, a, p) ==
    IF \E r \in Within(w, a) : Models[r.model] > 0 THEN Point(w, a, p).spend
    ELSE Estimated(w, p, TRUE)

\* The card of spend_series_handler.
Points(w, a) ==
    [p \in {Bucket(w, r.day) : r \in Within(w, a)} |->
        [tokens |-> Point(w, a, p).tokens, real |-> Real(w, a, p), est |-> Estimated(w, p, FALSE),
         ext |-> Split(w, p, TRUE), int |-> Split(w, p, FALSE)]]

\* unassigned_labels: nothing before LiteLLM has named one owner.
Unassigned == IF owned = {} THEN {} ELSE Labels \ (owned \cup override)

\* _label_hidden, for charts of what was billed.
Hidden == Excluded \cup (IF hide THEN Unassigned ELSE {})

\* spend_keycost_handler and key_cost_window: what LiteLLM billed, by label; the hidden
\* ones fold into "Other".  Its days are one more than those of the window.
KeyRows(w, a) == {r \in used : r.day \in First(w, a) - 1 .. a}

Band(k) == IF k \in Hidden THEN <<"Other">> ELSE <<k>>

KeyCost(w, a) ==
    LET rows == KeyRows(w, a) IN
    [b \in {Band(r.key) : r \in rows} \cap ({<<k>> : k \in Labels} \cup {<<"Other">>}) |->
        Billed({r \in rows : Band(r.key) = b})]

\* key_cumulative: the running totals, over a year of days with rows, of the keys that
\* rank first; a row counts its requests or its cost.
Cumulative(a, worth) ==
    LET rows  == KeyRows("12mo", a)
        keys  == {r.key : r \in rows} \ Hidden
        until(k, d) == SumFunction([r \in {r \in rows : r.key = k /\ r.day <= d} |-> worth[r]])
        size  == IF Cardinality(keys) < TopN THEN Cardinality(keys) ELSE TopN
        top   == CHOOSE K \in kSubset(size, keys) :
                    \A k \in K, l \in keys \ K : until(k, a) >= until(l, a)
    IN [k \in top |-> [d \in {r.day : r \in rows} |-> until(k, d)]]

-----------------------------------------------------------------------------
TypeOK == /\ \A r \in used : r.day \in Day
          /\ reported \subseteq DOMAIN Models
          /\ override \cup owned \subseteq Labels /\ hide \in BOOLEAN

Views == {<<w, a>> : w \in Windows, a \in Anchors}
CostOf(rows, real) == Worth({r \in rows : r.model \in External <=> real})

\* The windows that the year of activity covers: of twelve months only the last.
Covered(w, a) == IF w = "12mo" THEN a = LastDay ELSE First(w, a) >= LastDay - Year

\* The top models and "Other" hold together what the window is worth, each row once: at
\* LiteLLM's cash where it is reported, else at the price, pinned or not
\* (app.py:3256-3305, litellm.py:797-827).
NothingOffTheChart ==
    \A v \in Views : v[1] # "12mo" /\ Covered(v[1], v[2]) =>
        Grand(ModelChart(v[1], v[2])) = Amount(Values, Within(v[1], v[2]))

\* The rows of a window as its charts cut it: by months in 12mo, by days in the others.
Span(w, a) == IF w = "12mo" THEN {r \in used : Month(r.day) \in MonthAxis(a)} ELSE Within(w, a)

\* The model chart and the model and user chart differ by nothing but what the second
\* leaves out, and by how far LiteLLM's cash is from the price of what both take in
\* (app.py:3330-3377, litellm.py:803-813): no row is lost or counted twice in either, at
\* the edge of a window, in a tail, or between two owners.
TwoChartsAgree ==
    \A v \in Views : Covered(v[1], v[2]) =>
        LET span == Span(v[1], v[2])
        IN  Grand(ModelChart(v[1], v[2])) - Grand(UserChart(v[1], v[2]))
                = Amount(Values, span \ Stacked(span))
                  + (Amount(Values, Stacked(span)) - Worth(Stacked(span)))

\* The points of the card add up to the window, kind by kind: its tokens to those of
\* both kinds, what external models cost to what was billed, if anything was, and what
\* own ones would cost to their price (app.py:3544-3548, 3574-3576, 3590-3601).
PointsAddUp ==
    \A v \in Views :
        LET w == v[1]
            pts == Points(w, v[2])
        IN  /\ SumFunction([p \in DOMAIN pts |-> pts[p].tokens]) = Cardinality(Within(w, v[2]))
            /\ w # "12mo" =>
                /\ \A p \in DOMAIN pts : pts[p].tokens = pts[p].ext + pts[p].int
                /\ SumFunction([p \in DOMAIN pts |-> pts[p].real]) =
                       LET billed == Billed(Within(w, v[2]))
                       IN  IF billed > 0 THEN billed ELSE CostOf(Within(w, v[2]), TRUE)
                /\ SumFunction([p \in DOMAIN pts |-> pts[p].est]) = CostOf(Within(w, v[2]), FALSE)

\* Hiding keys moves their money to "Other" and loses none of it (db.py:2413-2416).
KeyMoneyKept ==
    \A v \in Views :
        LET c == KeyCost(v[1], v[2]) IN
        SumFunction(c) = Billed(KeyRows(v[1], v[2]))

\* The lines of the keys over time never fall, and end where the bars of the same year
\* do; no key with a higher bar is left out (db.py:2313-2386, 2389-2434).
LinesEndAtBars ==
    \A a \in Anchors :
        LET lines == Cumulative(a, [r \in used |-> Models[r.model]])
            bars  == KeyCost("12mo", a)
        IN  \A k \in DOMAIN lines : \A d \in DOMAIN lines[k] :
                /\ \A e \in DOMAIN lines[k] : d < e => lines[k][d] <= lines[k][e]
                /\ (\A e \in DOMAIN lines[k] : e <= d) =>
                       /\ lines[k][d] = bars[<<k>>]
                       /\ \A l \in Labels \ DOMAIN lines :
                             <<l>> \in DOMAIN bars => bars[<<l>>] <= lines[k][d]

\* Hiding the unassigned keys never hides every key, before LiteLLM has named an owner
\* of a key that is not excluded (db.py:809-817).
SomeKeyNamed == Labels \subseteq Hidden => owned # {} /\ owned \subseteq Excluded

\* What bucket_model_user_series says, "the SAME basis as 'Cost per model over time', so
\* the two charts agree" (app.py:3334-3335): that chart takes LiteLLM's cash first.
TwoChartsOnOneBasis ==
    \A v \in Views : Covered(v[1], v[2]) =>
        LET span == Span(v[1], v[2])
        IN  Grand(ModelChart(v[1], v[2])) - Grand(UserChart(v[1], v[2]))
                = Amount(Values, span \ Stacked(span))

\* What spend_keycost_handler says it returns, "total spend per key WITHIN the selected
\* window" (app.py:3836): it counts the day before the window too.
KeyCostWithinWindow ==
    \A v \in Views :
        LET c == KeyCost(v[1], v[2]) IN
        SumFunction(c) = Billed(Within(v[1], v[2]))
=============================================================================
