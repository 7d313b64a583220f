----------------------------- MODULE PagesProofs -----------------------------
(***************************************************************************)
(* What the pages of the dashboard keep between requests.  First the two   *)
(* tables of days, for any number of days, requests and actors: whatever   *)
(* was read before it was written, nothing is counted twice and a day that *)
(* was read after its end is complete.  Then the four parts of Pages: each *)
(* runs there as it would alone, so what its own specification implies     *)
(* holds of it in the composite.                                           *)
(***************************************************************************)
EXTENDS Pages, Ledger, FiniteSetTheorems, TLAPS

DayRow == [requests : Nat, spend : Nat, cost : Nat]
Read   == UNION {[D -> Nat \cup [requests : Nat, spend : Nat]] : D \in SUBSET Day}
Pull   == [at : Int, usage : Read, cost : Read]

\* What an actor that read p by time n still knows of the truth t: no number is too
\* large, those of a day that had ended are exact, and a poll has missed no day of its
\* window.
Faithful(a, p, t, n) ==
    p.at # -1 =>
        /\ p.at \in 0..n
        /\ DOMAIN p.usage \subseteq Day /\ DOMAIN p.cost \subseteq Day
        /\ a \in RowActors => \A d \in DOMAIN p.usage :
              /\ p.usage[d] \in 0..t[d]
              /\ p.at >= End(d) => p.usage[d] = t[d]
        /\ a = "poll" => \A d \in Day \ DOMAIN p.usage :
              p.at \in End(d) .. End(d) + Window - 1 => t[d] = 0
        /\ a \in DailyActors => \A d \in DOMAIN p.usage :
              /\ p.usage[d] \in [requests : Nat, spend : Nat]
              /\ p.usage[d].requests <= t[d] /\ p.usage[d].spend <= t[d]
        /\ a \in DailyActors => \A d \in DOMAIN p.cost :
              /\ p.cost[d] \in 1..t[d]
              /\ p.at >= End(d) => p.cost[d] = t[d]

BooksTyped ==
    /\ now \in Nat /\ now < End(LastDay) /\ truth \in [Day -> Nat]
    /\ days \in [Day -> DayRow] /\ rows \in [Day -> Nat] /\ seeded \in BOOLEAN
    /\ pull \in [Actors -> Pull]
    /\ final \in [days : SUBSET Day, rows : SUBSET Day]

FinalEnded == \A d \in final.days \cup final.rows : End(d) <= now

BooksInv ==
    /\ BooksTyped /\ FinalEnded
    /\ \A a \in Actors : Faithful(a, pull[a], truth, now)
    /\ NothingTwice /\ EndedDaysComplete

\* A day is a number, its end a time.
LEMMA DayEnds ==
  /\ Day \subseteq Nat
  /\ \A d \in Day : End(d) \in Nat /\ End(d) >= 1
BY LedgerAssumption DEF LedgerAssumption, Day, End

\* A day that has ended is not today, and today is a day.
LEMMA TodayIs ==
  ASSUME NEW n \in Nat
  PROVE  /\ n \div DayLen \in Nat
         /\ n < End(LastDay) => n \div DayLen \in Day
         /\ \A d \in Day : End(d) <= n => d < n \div DayLen
<1>1. DayLen \in Nat /\ DayLen >= 1 /\ LastDay \in Nat
  BY LedgerAssumption DEF LedgerAssumption
<1> DEFINE q == n \div DayLen
<1>2. q \in Nat /\ q * DayLen <= n /\ n < (q + 1) * DayLen
  BY <1>1
<1> HIDE DEF q
<1>3. \A d \in Nat : (d + 1) * DayLen <= n => d < q
  <2> SUFFICES ASSUME NEW d \in Nat, (d + 1) * DayLen <= n, ~(d < q) PROVE FALSE
    OBVIOUS
  <2>1. q <= d
    BY <1>2
  <2>2. (q + 1) * DayLen <= (d + 1) * DayLen
    BY <1>1, <1>2, <2>1
  <2>3. QED BY <1>1, <1>2, <2>2
<1>4. ASSUME n < (LastDay + 1) * DayLen PROVE q <= LastDay
  <2> SUFFICES ASSUME q >= LastDay + 1 PROVE FALSE
    BY <1>1, <1>2
  <2>1. (LastDay + 1) * DayLen <= q * DayLen
    BY <1>1, <1>2
  <2>2. QED BY <1>1, <1>2, <1>4, <2>1
<1> QED
  BY <1>1, <1>2, <1>3, <1>4 DEF q, Day, End

\* The logs a poll reads reach back to every day that ended within the window.
LEMMA WindowReaches ==
  ASSUME NEW n \in Nat, NEW d \in Day, n \in End(d) .. End(d) + Window - 1
  PROVE  (n - Window) \div DayLen <= d /\ (n - Window) \div DayLen \in Int
<1>1. DayLen \in Nat /\ DayLen >= 1 /\ Window \in Nat /\ d \in Nat
  BY LedgerAssumption DEF LedgerAssumption, Day
<1> DEFINE x == n - Window
           q == x \div DayLen
<1>2. x \in Int /\ x < (d + 1) * DayLen
  BY <1>1 DEF End
<1>3. q \in Int /\ q * DayLen <= x
  BY <1>1, <1>2
<1> HIDE DEF q, x
<1>4. ~(q >= d + 1)
  <2> SUFFICES ASSUME q >= d + 1 PROVE FALSE
    OBVIOUS
  <2>1. (d + 1) * DayLen <= q * DayLen
    BY <1>1, <1>3
  <2>2. QED BY <1>1, <1>2, <1>3, <2>1
<1> QED
  BY <1>1, <1>3, <1>4 DEF q, x

\* What was read stays faithful while days grow, because those that ended do not.
LEMMA StaysFaithful ==
  ASSUME NEW a, NEW p, NEW t \in [Day -> Nat], NEW u \in [Day -> Nat],
         NEW n \in Nat, NEW m \in Nat, n <= m,
         \A d \in Day : t[d] <= u[d] /\ (End(d) <= n => u[d] = t[d]),
         Faithful(a, p, t, n)
  PROVE  Faithful(a, p, u, m)
<1> SUFFICES ASSUME p.at # -1 PROVE Faithful(a, p, u, m)
  BY DEF Faithful
<1>1. p.at \in 0..n /\ p.at \in 0..m /\ DOMAIN p.usage \subseteq Day /\ DOMAIN p.cost \subseteq Day
  BY DEF Faithful
<1>2. \A d \in Day : p.at >= End(d) => u[d] = t[d]
  BY <1>1, DayEnds
<1>3. ASSUME a \in RowActors, NEW d \in DOMAIN p.usage
      PROVE  p.usage[d] \in 0..u[d] /\ (p.at >= End(d) => p.usage[d] = u[d])
  <2>1. p.usage[d] \in 0..t[d] /\ (p.at >= End(d) => p.usage[d] = t[d]) /\ d \in Day
    BY <1>1, <1>3 DEF Faithful
  <2>2. QED BY <1>2, <2>1
<1>4. ASSUME a = "poll", NEW d \in Day \ DOMAIN p.usage, p.at \in End(d) .. End(d) + Window - 1
      PROVE  u[d] = 0
  <2>1. t[d] = 0
    BY <1>4 DEF Faithful
  <2>2. p.at >= End(d)
    BY <1>1, <1>4, DayEnds
  <2>3. QED BY <1>2, <2>1, <2>2
<1>5. ASSUME a \in DailyActors, NEW d \in DOMAIN p.usage
      PROVE  /\ p.usage[d] \in [requests : Nat, spend : Nat]
             /\ p.usage[d].requests <= u[d] /\ p.usage[d].spend <= u[d]
  <2>1. /\ p.usage[d] \in [requests : Nat, spend : Nat] /\ d \in Day
        /\ p.usage[d].requests <= t[d] /\ p.usage[d].spend <= t[d]
    BY <1>1, <1>5 DEF Faithful
  <2>2. QED BY <2>1
<1>6. ASSUME a \in DailyActors, NEW d \in DOMAIN p.cost
      PROVE  p.cost[d] \in 1..u[d] /\ (p.at >= End(d) => p.cost[d] = u[d])
  <2>1. p.cost[d] \in 1..t[d] /\ (p.at >= End(d) => p.cost[d] = t[d]) /\ d \in Day
    BY <1>1, <1>6 DEF Faithful
  <2>2. QED BY <1>2, <2>1
<1> QED
  BY <1>1, <1>3, <1>4, <1>5, <1>6 DEF Faithful

\* What LiteLLM reports of some days (litellm.py:1844-1880).
LEMMA LoggedIs ==
  ASSUME truth \in [Day -> Nat], NEW S
  PROVE  /\ Logged(S) \in Read /\ DOMAIN Logged(S) \subseteq Day
         /\ \A d \in Day : d \in DOMAIN Logged(S) <=> d \in S /\ truth[d] > 0
         /\ \A d \in DOMAIN Logged(S) : Logged(S)[d] = truth[d] /\ Logged(S)[d] \in 1..truth[d]
<1> DEFINE D == {d \in S \cap Day : truth[d] > 0}
<1>1. Logged(S) = [d \in D |-> truth[d]] /\ D \in SUBSET Day
  BY DEF Logged
<1>2. Logged(S) \in [D -> Nat \cup [requests : Nat, spend : Nat]]
  BY <1>1
<1>3. Logged(S) \in Read
  BY <1>1, <1>2 DEF Read
<1> QED
  BY <1>1, <1>3

LEMMA NothingIsRead == Nothing \in Pull /\ Nothing.at = -1
<1>1. << >> \in [{} -> Nat \cup [requests : Nat, spend : Nat]]
  OBVIOUS
<1>2. << >> \in Read
  BY <1>1 DEF Read
<1> QED
  BY <1>2 DEF Nothing, Pull

LEMMA InitBooks == LedgerInit => BooksInv
<1> SUFFICES ASSUME LedgerInit PROVE BooksInv
  OBVIOUS
<1> USE DEF LedgerInit
<1>1. End(LastDay) > 0 /\ LastDay \in Day
  BY LedgerAssumption, DayEnds DEF LedgerAssumption, Day
<1>2. BooksTyped
  BY <1>1, NothingIsRead DEF BooksTyped, DayRow, Empty
<1>3. \A a \in Actors : Faithful(a, pull[a], truth, now)
  BY NothingIsRead DEF Faithful
<1>4. NothingTwice /\ EndedDaysComplete /\ FinalEnded
  BY DEF NothingTwice, EndedDaysComplete, FinalEnded, Empty
<1> QED
  BY <1>2, <1>3, <1>4 DEF BooksInv

\* An action that only lets time pass or a request happen keeps what was read.
LEMMA ReadsStay ==
  ASSUME BooksInv, NEW a \in Actors, pull'[a] = pull[a],
         UNCHANGED <<now, truth>>
  PROVE  Faithful(a, pull'[a], truth', now')
BY DEF BooksInv

\* A request is one of today, and no day that has ended.
LEMMA BooksRequest == BooksInv /\ Request => BooksInv'
<1> SUFFICES ASSUME BooksInv, Request PROVE BooksInv'
  OBVIOUS
<1> USE DEF BooksInv, BooksTyped
<1>1. UNCHANGED <<now, days, rows, seeded, pull, final>> /\ truth' = [truth EXCEPT ![Today] = @ + 1]
  BY DEF Request
<1>2. Today \in Day /\ \A d \in Day : End(d) <= now => d < Today
  BY TodayIs DEF Today
<1>3. /\ truth' \in [Day -> Nat]
      /\ \A d \in Day : truth[d] <= truth'[d] /\ (End(d) <= now => truth'[d] = truth[d])
  BY <1>1, <1>2, DayEnds
<1>4. BooksTyped'
  BY <1>1, <1>3
<1>5. \A a \in Actors : Faithful(a, pull[a], truth', now)
  BY <1>3, StaysFaithful
<1>6. NothingTwice'
  <2> SUFFICES ASSUME NEW d \in Day
               PROVE  rows[d] <= truth'[d] /\ \A c \in DOMAIN Empty : days[d][c] <= truth'[d]
    BY <1>1 DEF NothingTwice
  <2>1. /\ rows[d] <= truth[d] /\ rows[d] \in Nat /\ truth[d] \in Nat /\ truth'[d] \in Nat
        /\ truth[d] <= truth'[d]
    BY <1>3 DEF NothingTwice
  <2>2. ASSUME NEW c \in DOMAIN Empty PROVE days[d][c] <= truth'[d]
    <3>1. days[d][c] <= truth[d] /\ days[d][c] \in Nat
      BY <2>2 DEF NothingTwice, DayRow, Empty
    <3>2. QED BY <2>1, <3>1
  <2>3. QED BY <2>1, <2>2
<1>7. EndedDaysComplete' /\ FinalEnded'
  BY <1>1, <1>3 DEF EndedDaysComplete, FinalEnded
<1> QED
  BY <1>1, <1>4, <1>5, <1>6, <1>7

LEMMA BooksTick == BooksInv /\ Tick => BooksInv'
<1> SUFFICES ASSUME BooksInv, Tick PROVE BooksInv'
  OBVIOUS
<1> USE DEF BooksInv, BooksTyped
<1>1. /\ now' = now + 1 /\ now + 1 < End(LastDay)
      /\ UNCHANGED <<truth, days, rows, seeded, pull, final>>
  BY DEF Tick
<1>2. BooksTyped'
  BY <1>1
<1>3. \A a \in Actors : Faithful(a, pull[a], truth, now + 1)
  BY StaysFaithful
<1>4. NothingTwice' /\ EndedDaysComplete'
  BY <1>1 DEF NothingTwice, EndedDaysComplete
<1>5. FinalEnded'
  BY <1>1, DayEnds DEF FinalEnded
<1> QED
  BY <1>1, <1>2, <1>3, <1>4, <1>5

\* Whoever reads usage reads it at this moment; the costs may come later.
LEMMA BooksPullUsage ==
  ASSUME BooksInv, NEW a \in Actors, NEW requests \in BOOLEAN, NEW spend \in BOOLEAN,
         PullUsage(a, requests, spend)
  PROVE  BooksInv'
<1> USE DEF BooksInv, BooksTyped
<1> DEFINE L == Logged(Today - Live .. Today)
           u == [d \in DOMAIN L |-> [requests |-> IF requests THEN L[d] ELSE 0,
                                     spend |-> IF spend THEN L[d] ELSE 0]]
           p == [at |-> now, cost |-> << >>, usage |-> u]
<1>1. /\ a \in DailyActors /\ pull' = [pull EXCEPT ![a] = p]
      /\ UNCHANGED <<now, truth, days, rows, seeded, final>>
  BY DEF PullUsage
<1>2. /\ DOMAIN L \subseteq Day
      /\ \A d \in DOMAIN L : L[d] = truth[d] /\ L[d] \in 1..truth[d]
  BY LoggedIs
<1> HIDE DEF L
<1>3. u \in Read
  <2>1. u \in [DOMAIN L -> Nat \cup [requests : Nat, spend : Nat]]
    BY <1>2
  <2>2. QED BY <1>2, <2>1 DEF Read
<1>4. p \in Pull
  BY <1>3, NothingIsRead DEF Pull, Nothing
<1>5. \A d \in DOMAIN u : /\ u[d] \in [requests : Nat, spend : Nat]
                          /\ u[d].requests <= truth[d] /\ u[d].spend <= truth[d]
  <2> SUFFICES ASSUME NEW d \in DOMAIN u
               PROVE  /\ u[d] \in [requests : Nat, spend : Nat]
                      /\ u[d].requests <= truth[d] /\ u[d].spend <= truth[d]
    OBVIOUS
  <2>1. u[d] = [requests |-> IF requests THEN L[d] ELSE 0, spend |-> IF spend THEN L[d] ELSE 0]
        /\ L[d] = truth[d] /\ truth[d] \in Nat
    BY <1>2
  <2>2. QED BY <2>1
<1>6. Faithful(a, p, truth, now)
  <2>1. a # "poll" /\ a \notin RowActors
    BY <1>1 DEF DailyActors, RowActors
  <2>2. DOMAIN p.usage = DOMAIN L /\ p.usage = u /\ DOMAIN p.cost = {} /\ p.at = now
    OBVIOUS
  <2> HIDE DEF p, u
  <2>3. QED BY <1>2, <1>5, <2>1, <2>2 DEF Faithful
<1> HIDE DEF p
<1>7. pull' \in [Actors -> Pull] /\ \A b \in Actors : Faithful(b, pull'[b], truth', now')
  BY <1>1, <1>4, <1>6
<1> QED
  BY <1>1, <1>7 DEF NothingTwice, EndedDaysComplete, FinalEnded

\* The costs are read by the same actor, perhaps on a later day.
LEMMA BooksPullCost ==
  ASSUME BooksInv, NEW a \in Actors, PullCost(a)
  PROVE  BooksInv'
<1> USE DEF BooksInv, BooksTyped
<1> DEFINE L == Logged(Today - Live .. Today)
           p == pull[a]
           q == [p EXCEPT !.cost = L]
<1>1. /\ a \in DailyActors /\ p.at # -1 /\ pull' = [pull EXCEPT ![a] = q]
      /\ UNCHANGED <<now, truth, days, rows, seeded, final>>
  BY DEF PullCost, Idle
<1>2. /\ L \in Read /\ DOMAIN L \subseteq Day
      /\ \A d \in DOMAIN L : L[d] = truth[d] /\ L[d] \in 1..truth[d]
  BY LoggedIs
<1> HIDE DEF L
<1>3. p \in Pull /\ Faithful(a, p, truth, now)
  OBVIOUS
<1> HIDE DEF p
<1>4. q \in Pull /\ q.at = p.at /\ q.usage = p.usage /\ q.cost = L
  BY <1>2, <1>3 DEF Pull
<1> HIDE DEF q
<1>5. a # "poll" /\ a \notin RowActors
  BY <1>1 DEF DailyActors, RowActors
<1>6. Faithful(a, q, truth, now)
  BY <1>1, <1>2, <1>3, <1>4, <1>5 DEF Faithful
<1>7. pull' \in [Actors -> Pull] /\ \A b \in Actors : Faithful(b, pull'[b], truth', now')
  BY <1>1, <1>4, <1>6
<1> QED
  BY <1>1, <1>7 DEF NothingTwice, EndedDaysComplete, FinalEnded

\* Who has written, or given up, knows nothing any more.
LEMMA ReadsForgotten ==
  ASSUME BooksInv, NEW a \in Actors, pull' = [pull EXCEPT ![a] = Nothing],
         UNCHANGED <<now, truth>>
  PROVE  pull' \in [Actors -> Pull] /\ \A b \in Actors : Faithful(b, pull'[b], truth', now')
BY NothingIsRead DEF BooksInv, BooksTyped, Faithful

\* What the days hold after a write of what was read.
LEMMA UpsertIs ==
  ASSUME BooksInv, NEW a \in Actors, a \in DailyActors, ~Idle(a),
         NEW d \in DOMAIN pull[a].usage
  PROVE  LET p == pull[a]  u == Upserted(days[d], Record(p, d)) IN
         /\ d \in Day /\ u \in DayRow
         /\ u.requests <= truth[d] /\ u.spend <= truth[d]
         /\ d \notin DOMAIN p.cost => u.cost = days[d].cost
         /\ d \in DOMAIN p.cost => u.cost = p.cost[d] /\ p.cost[d] \in 1..truth[d]
<1> DEFINE p == pull[a]
<1>1. Faithful(a, p, truth, now) /\ p.at # -1 /\ days \in [Day -> DayRow]
  BY DEF BooksInv, BooksTyped, Idle
<1> HIDE DEF p
<1>2. d \in Day /\ d \in DOMAIN p.usage
  BY <1>1 DEF Faithful, p
<1>3. /\ p.usage[d] \in [requests : Nat, spend : Nat]
      /\ p.usage[d].requests <= truth[d] /\ p.usage[d].spend <= truth[d]
      /\ d \in DOMAIN p.cost => p.cost[d] \in 1..truth[d]
  BY <1>1, <1>2 DEF Faithful
<1>4. days[d] \in DayRow /\ truth[d] \in Nat
  BY <1>1, <1>2 DEF BooksInv, BooksTyped
<1> DEFINE c == IF d \in DOMAIN p.cost THEN p.cost[d] ELSE 0
           u == [requests |-> p.usage[d].requests, spend |-> p.usage[d].spend,
                 cost |-> IF c = 0 THEN days[d].cost ELSE c]
<1>5. Upserted(days[d], Record(p, d)) = u
  BY DEF Upserted, Record
<1>6. c \in Nat /\ (d \in DOMAIN p.cost => c # 0)
  BY <1>3, <1>4
<1>7. u \in DayRow
  BY <1>3, <1>4, <1>6 DEF DayRow
<1> QED
  BY <1>2, <1>3, <1>5, <1>6, <1>7 DEF p

\* The write of a capture or a page.
LEMMA BooksWriteDays ==
  ASSUME BooksInv, NEW a \in Actors, WriteDays(a)
  PROVE  BooksInv'
<1> DEFINE p == pull[a]
           D == DOMAIN p.cost \cap DOMAIN p.usage
<1>1. /\ a \in DailyActors /\ ~Idle(a) /\ pull' = [pull EXCEPT ![a] = Nothing]
      /\ UNCHANGED <<now, truth, rows, seeded>>
  BY DEF WriteDays
<1>2. pull' \in [Actors -> Pull] /\ \A b \in Actors : Faithful(b, pull'[b], truth', now')
  BY <1>1, ReadsForgotten
<1>3. CASE UNCHANGED <<days, final>>
  BY <1>1, <1>2, <1>3 DEF BooksInv, BooksTyped, NothingTwice, EndedDaysComplete, FinalEnded
<1>4. CASE /\ days' = [d \in Day |-> IF d \in DOMAIN p.usage
                                     THEN Upserted(days[d], Record(p, d)) ELSE days[d]]
           /\ final' = Marked("days", D, p.at)
  <2>1. \A d \in DOMAIN p.usage :
           /\ d \in Day /\ days'[d] \in DayRow
           /\ days'[d].requests <= truth[d] /\ days'[d].spend <= truth[d]
           /\ d \notin DOMAIN p.cost => days'[d].cost = days[d].cost
           /\ d \in DOMAIN p.cost => days'[d].cost = p.cost[d] /\ p.cost[d] \in 1..truth[d]
    BY <1>1, <1>4, UpsertIs
  <2>2. \A d \in Day \ DOMAIN p.usage : days'[d] = days[d]
    BY <1>4
  <2>3. days \in [Day -> DayRow] /\ days' = [d \in Day |-> days'[d]] /\ truth \in [Day -> Nat]
    BY <1>4 DEF BooksInv, BooksTyped
  <2>4. days' \in [Day -> DayRow]
    BY <2>1, <2>2, <2>3
  <2>5. p.at \in 0..now /\ \A d \in D : p.at >= End(d) => p.cost[d] = truth[d]
    BY <1>1 DEF BooksInv, Faithful, Idle
  <2>6. /\ final \in [days : SUBSET Day, rows : SUBSET Day]
        /\ final' = [final EXCEPT !["days"] = {d \in @ \cup D : d \in D => p.at >= End(d)}]
    BY <1>4 DEF Marked, BooksInv, BooksTyped
  <2>7. /\ final' \in [days : SUBSET Day, rows : SUBSET Day] /\ final'.rows = final.rows
        /\ \A d \in final'.days : \/ d \in D /\ p.at >= End(d)
                                  \/ d \notin D /\ d \in final.days
    BY <2>1, <2>6
  <2> HIDE DEF p
  <2>8. FinalEnded'
    <3>1. \A d \in final'.days : End(d) <= now
      BY <2>1, <2>5, <2>7, DayEnds DEF BooksInv, BooksTyped, FinalEnded
    <3>2. \A d \in final'.rows : End(d) <= now
      BY <2>7 DEF BooksInv, FinalEnded
    <3>3. QED BY <1>1, <3>1, <3>2 DEF FinalEnded, End
  <2>9. \A d \in final'.days : days'[d].cost = truth[d]
    <3> SUFFICES ASSUME NEW d \in final'.days PROVE days'[d].cost = truth[d]
      OBVIOUS
    <3>1. CASE d \in D /\ p.at >= End(d)
      BY <2>1, <2>5, <3>1
    <3>2. CASE d \notin D /\ d \in final.days
      <4>1. days[d].cost = truth[d] /\ d \in Day
        BY <2>6, <3>2 DEF BooksInv, EndedDaysComplete
      <4>2. days'[d].cost = days[d].cost
        BY <2>1, <2>2, <3>2, <4>1
      <4>3. QED BY <4>1, <4>2
    <3>3. QED BY <2>7, <3>1, <3>2
  <2>10. EndedDaysComplete'
    BY <1>1, <2>7, <2>9 DEF EndedDaysComplete, BooksInv
  <2>11. NothingTwice'
    <3> SUFFICES ASSUME NEW d \in Day
                 PROVE  /\ days'[d].requests <= truth[d] /\ days'[d].spend <= truth[d]
                        /\ days'[d].cost <= truth[d]
      BY <1>1 DEF NothingTwice, BooksInv, Empty
    <3>1. /\ days[d].requests <= truth[d] /\ days[d].spend <= truth[d]
          /\ days[d].cost <= truth[d]
      BY DEF NothingTwice, BooksInv, Empty
    <3>2. QED BY <2>1, <2>2, <2>3, <3>1
  <2>12. BooksTyped'
    BY <1>1, <1>2, <2>4, <2>7 DEF BooksInv, BooksTyped, End
  <2> QED
    BY <1>2, <2>8, <2>10, <2>11, <2>12 DEF BooksInv
<1> QED
  BY <1>3, <1>4 DEF WriteDays

\* The logs, from a day that is early enough where it is the poll that reads them.
LEMMA LogsRead ==
  ASSUME BooksInv, NEW a \in Actors, a \in RowActors, NEW first \in Int,
         a = "poll" => first = StartDay, PullLogs(a, first),
         UNCHANGED <<now, truth, days, rows, seeded, final>>
  PROVE  BooksInv'
<1> USE DEF BooksInv, BooksTyped
<1> DEFINE L == Logged(first .. Today)
           p == [at |-> now, cost |-> << >>, usage |-> L]
<1>1. pull' = [pull EXCEPT ![a] = p]
  BY DEF PullLogs
<1>2. /\ L \in Read /\ DOMAIN L \subseteq Day
      /\ \A d \in Day : d \in DOMAIN L <=> d \in first .. Today /\ truth[d] > 0
      /\ \A d \in DOMAIN L : L[d] = truth[d] /\ L[d] \in 1..truth[d]
  BY LoggedIs
<1>3. ASSUME a = "poll", NEW d \in Day \ DOMAIN L, now \in End(d) .. End(d) + Window - 1
      PROVE  truth[d] = 0
  <2>1. first <= d
    BY <1>3, WindowReaches DEF StartDay
  <2>2. d < Today /\ Today \in Nat /\ d \in Nat
    <3>1. now \in Nat /\ End(d) \in Nat /\ d \in Nat
      BY DayEnds
    <3>2. End(d) <= now
      BY <1>3, <3>1, LedgerAssumption DEF LedgerAssumption
    <3>3. QED BY <3>1, <3>2, TodayIs DEF Today
  <2>3. d \in first .. Today
    BY <2>1, <2>2
  <2>4. QED BY <1>2, <1>3, <2>3
<1> HIDE DEF L
<1>4. p \in Pull
  BY <1>2, NothingIsRead DEF Pull, Nothing
<1>5. Faithful(a, p, truth, now)
  <2>1. a \notin DailyActors
    BY DEF DailyActors, RowActors
  <2>2. p.usage = L /\ DOMAIN p.cost = {} /\ p.at = now
    OBVIOUS
  <2>3. \A d \in DOMAIN p.usage : p.usage[d] \in 0..truth[d]
    BY <1>2, <2>2
  <2> HIDE DEF p
  <2>4. QED BY <1>2, <1>3, <2>1, <2>2, <2>3 DEF Faithful
<1> HIDE DEF p
<1>6. pull' \in [Actors -> Pull] /\ \A b \in Actors : Faithful(b, pull'[b], truth', now')
  BY <1>1, <1>4, <1>5
<1> QED
  BY <1>6 DEF NothingTwice, EndedDaysComplete, FinalEnded

LEMMA BooksReadLogs == BooksInv /\ (Poll \/ Seed) => BooksInv'
<1> SUFFICES ASSUME BooksInv, Poll \/ Seed PROVE BooksInv'
  OBVIOUS
<1>1. now \in Nat /\ Live \in Nat /\ Backfill \in Nat /\ Window \in Nat
  BY LedgerAssumption DEF LedgerAssumption, BooksInv, BooksTyped
<1>2. Today \in Nat /\ StartDay \in Int
  <2>1. DayLen \in Nat \ {0}
    BY LedgerAssumption DEF LedgerAssumption
  <2>2. now - Window \in Int
    BY <1>1
  <2> QED BY <1>1, <2>1, <2>2 DEF Today, StartDay
<1>3. CASE Poll
  BY <1>2, <1>3, LogsRead DEF Poll, RowActors
<1>4. CASE Seed
  <2>1. Today - Backfill \in Int
    BY <1>1, <1>2
  <2> QED BY <1>4, <2>1, LogsRead DEF Seed, RowActors
<1> QED
  BY <1>3, <1>4

\* The write of the poll or the backfill.
LEMMA BooksWriteRows ==
  ASSUME BooksInv, NEW a \in Actors, WriteRows(a)
  PROVE  BooksInv'
<1> DEFINE p == pull[a]
           D == {d \in Day : d \in DOMAIN p.usage \/
                                (a = "poll" /\ p.at \in End(d) .. End(d) + Window - 1)}
<1>1. /\ a \in RowActors /\ p.at # -1 /\ pull' = [pull EXCEPT ![a] = Nothing]
      /\ UNCHANGED <<now, truth, days>>
  BY DEF WriteRows, Idle
<1>2. pull' \in [Actors -> Pull] /\ \A b \in Actors : Faithful(b, pull'[b], truth', now')
  BY <1>1, ReadsForgotten
<1>3. seeded' \in BOOLEAN
  BY DEF WriteRows, BooksInv, BooksTyped
<1>4. CASE UNCHANGED <<rows, final>>
  BY <1>1, <1>2, <1>3, <1>4 DEF BooksInv, BooksTyped, NothingTwice, EndedDaysComplete, FinalEnded
<1>5. CASE /\ rows' = [d \in Day |-> IF d \in DOMAIN p.usage THEN Replaced(rows[d], p.usage[d])
                                     ELSE rows[d]]
           /\ final' = Marked("rows", D, p.at)
  <2>1. /\ p.at \in 0..now /\ DOMAIN p.usage \subseteq Day
        /\ \A d \in DOMAIN p.usage : /\ p.usage[d] \in 0..truth[d]
                                     /\ p.at >= End(d) => p.usage[d] = truth[d]
        /\ a = "poll" => \A d \in Day \ DOMAIN p.usage :
              p.at \in End(d) .. End(d) + Window - 1 => truth[d] = 0
    BY <1>1 DEF BooksInv, Faithful
  <2>2. rows \in [Day -> Nat] /\ truth \in [Day -> Nat] /\ \A d \in Day : rows[d] <= truth[d]
    BY DEF BooksInv, BooksTyped, NothingTwice
  <2>3. /\ final \in [days : SUBSET Day, rows : SUBSET Day]
        /\ final' = [final EXCEPT !["rows"] = {d \in @ \cup D : d \in D => p.at >= End(d)}]
    BY <1>5 DEF Marked, BooksInv, BooksTyped
  <2>4. /\ final' \in [days : SUBSET Day, rows : SUBSET Day] /\ final'.days = final.days
        /\ \A d \in final'.rows : \/ d \in D /\ p.at >= End(d)
                                  \/ d \notin D /\ d \in final.rows
    BY <2>3
  <2> HIDE DEF p
  <2>5. \A d \in Day : rows'[d] = IF d \in DOMAIN p.usage THEN p.usage[d] ELSE rows[d]
    BY <1>5 DEF Replaced
  <2>6. rows' \in [Day -> Nat] /\ \A d \in Day : rows'[d] <= truth[d]
    <3>1. rows' = [d \in Day |-> rows'[d]]
      BY <1>5
    <3>2. \A d \in Day : rows'[d] \in Nat /\ rows'[d] <= truth[d]
      BY <2>1, <2>2, <2>5
    <3>3. QED BY <3>1, <3>2
  <2>7. FinalEnded'
    <3>1. \A d \in final'.rows : End(d) <= now
      BY <2>1, <2>4, DayEnds DEF BooksInv, BooksTyped, FinalEnded
    <3>2. \A d \in final'.days : End(d) <= now
      BY <2>4 DEF BooksInv, FinalEnded
    <3>3. QED BY <1>1, <3>1, <3>2 DEF FinalEnded, End
  <2>8. \A d \in final'.rows : rows'[d] = truth[d]
    <3> SUFFICES ASSUME NEW d \in final'.rows PROVE rows'[d] = truth[d]
      OBVIOUS
    <3>0. d \in Day
      BY <2>4
    <3>1. CASE d \in DOMAIN p.usage
      <4>1. d \in D /\ p.at >= End(d)
        BY <2>4, <3>0, <3>1
      <4>2. QED BY <2>1, <2>5, <3>0, <3>1, <4>1
    <3>2. CASE d \notin DOMAIN p.usage /\ d \in D
      <4>1. truth[d] = 0
        BY <2>1, <3>0, <3>2
      <4>2. QED BY <2>2, <2>5, <3>0, <3>2, <4>1
    <3>3. CASE d \notin DOMAIN p.usage /\ d \notin D
      <4>1. rows[d] = truth[d]
        BY <2>4, <3>3 DEF BooksInv, EndedDaysComplete
      <4>2. QED BY <2>5, <3>0, <3>3, <4>1
    <3>4. QED BY <3>1, <3>2, <3>3
  <2>9. EndedDaysComplete'
    BY <1>1, <2>4, <2>8 DEF EndedDaysComplete, BooksInv
  <2>10. NothingTwice'
    BY <1>1, <2>6 DEF NothingTwice, BooksInv
  <2>11. BooksTyped'
    BY <1>1, <1>2, <1>3, <2>4, <2>6 DEF BooksInv, BooksTyped, End
  <2> QED
    BY <1>2, <2>7, <2>9, <2>10, <2>11 DEF BooksInv
<1> QED
  BY <1>4, <1>5 DEF WriteRows

LEMMA BooksAbandon ==
  ASSUME BooksInv, NEW a \in Actors, Abandon(a)
  PROVE  BooksInv'
<1>1. /\ pull' = [pull EXCEPT ![a] = Nothing] /\ seeded' \in BOOLEAN
      /\ UNCHANGED <<now, truth, days, rows, final>>
  BY DEF Abandon
<1>2. pull' \in [Actors -> Pull] /\ \A b \in Actors : Faithful(b, pull'[b], truth', now')
  BY <1>1, ReadsForgotten
<1> QED
  BY <1>1, <1>2 DEF BooksInv, BooksTyped, NothingTwice, EndedDaysComplete, FinalEnded

\* The prune forgets that a day was complete with the day.
LEMMA BooksPrune == BooksInv /\ Prune => BooksInv'
<1> SUFFICES ASSUME BooksInv, Prune PROVE BooksInv'
  OBVIOUS
<1> USE DEF BooksInv, BooksTyped
<1>1. /\ days' = [d \in Day |-> IF d \in Kept THEN days[d] ELSE Empty]
      /\ rows' = [d \in Day |-> IF d \in Kept THEN rows[d] ELSE 0]
      /\ final' = [t \in DOMAIN final |-> final[t] \cap Kept]
      /\ UNCHANGED <<now, truth, seeded, pull>>
  BY DEF Prune
<1> HIDE DEF Kept
<1>2. /\ final'.days = final.days \cap Kept /\ final'.rows = final.rows \cap Kept
      /\ final' \in [days : SUBSET Day, rows : SUBSET Day]
  BY <1>1
<1>3. Empty \in DayRow /\ Empty.requests = 0 /\ Empty.spend = 0 /\ Empty.cost = 0
  BY DEF Empty, DayRow
<1>4. days' \in [Day -> DayRow] /\ rows' \in [Day -> Nat]
  BY <1>1, <1>3
<1>5. NothingTwice'
  <2> SUFFICES ASSUME NEW d \in Day
               PROVE  rows'[d] <= truth[d] /\ \A c \in DOMAIN Empty : days'[d][c] <= truth[d]
    BY <1>1 DEF NothingTwice
  <2>1. /\ truth[d] \in Nat /\ rows[d] <= truth[d]
        /\ \A c \in DOMAIN Empty : days[d][c] <= truth[d]
    BY DEF NothingTwice
  <2>2. \A c \in DOMAIN Empty : Empty[c] = 0
    BY DEF Empty
  <2>3. QED BY <1>1, <2>1, <2>2
<1>6. EndedDaysComplete' /\ FinalEnded'
  BY <1>1, <1>2 DEF EndedDaysComplete, FinalEnded
<1> QED
  BY <1>1, <1>2, <1>4, <1>5, <1>6

LEMMA BooksRestart == BooksInv /\ LedgerRestart => BooksInv'
<1> SUFFICES ASSUME BooksInv, LedgerRestart PROVE BooksInv'
  OBVIOUS
<1>1. pull' = [a \in Actors |-> Nothing] /\ UNCHANGED <<now, truth, days, rows, seeded, final>>
  BY DEF LedgerRestart
<1>2. pull' \in [Actors -> Pull] /\ \A b \in Actors : Faithful(b, pull'[b], truth', now')
  BY <1>1, NothingIsRead DEF Faithful
<1> QED
  BY <1>1, <1>2 DEF BooksInv, BooksTyped, NothingTwice, EndedDaysComplete, FinalEnded

LEMMA BooksNext == BooksInv /\ [LedgerNext]_ledgerVars => BooksInv'
<1> SUFFICES ASSUME BooksInv, [LedgerNext]_ledgerVars PROVE BooksInv'
  OBVIOUS
<1>1. CASE Request
  BY <1>1, BooksRequest
<1>2. CASE Tick
  BY <1>2, BooksTick
<1>3. CASE Poll \/ Seed
  BY <1>3, BooksReadLogs
<1>4. CASE Prune
  BY <1>4, BooksPrune
<1>5. CASE LedgerRestart
  BY <1>5, BooksRestart
<1>6. ASSUME NEW a \in Actors, NEW requests \in BOOLEAN, NEW spend \in BOOLEAN,
             PullUsage(a, requests, spend)
      PROVE  BooksInv'
  BY <1>6, BooksPullUsage
<1>7. ASSUME NEW a \in Actors, PullCost(a) PROVE BooksInv'
  BY <1>7, BooksPullCost
<1>8. ASSUME NEW a \in Actors, WriteDays(a) PROVE BooksInv'
  BY <1>8, BooksWriteDays
<1>9. ASSUME NEW a \in Actors, WriteRows(a) PROVE BooksInv'
  BY <1>9, BooksWriteRows
<1>10. ASSUME NEW a \in Actors, Abandon(a) PROVE BooksInv'
  BY <1>10, BooksAbandon
<1>11. CASE UNCHANGED ledgerVars
  BY <1>11 DEF ledgerVars, BooksInv, BooksTyped, FinalEnded, NothingTwice, EndedDaysComplete, End
<1> QED
  BY <1>1, <1>2, <1>3, <1>4, <1>5, <1>6, <1>7, <1>8, <1>9, <1>10, <1>11 DEF LedgerNext

\* What an open page shows follows from what its actor read and what is stored.
LEMMA BooksShow == BooksInv => LedgerTypeOK /\ PageWhole
<1> SUFFICES ASSUME BooksInv PROVE LedgerTypeOK /\ PageWhole
  OBVIOUS
<1>1. LedgerTypeOK
  <2>1. now \in 0 .. End(LastDay) - 1
    BY DayEnds, LedgerAssumption DEF BooksInv, BooksTyped, LedgerAssumption, Day
  <2>2. \A d \in Day : DOMAIN days[d] = DOMAIN Empty
    BY DEF BooksInv, BooksTyped, DayRow, Empty
  <2>3. ASSUME NEW a \in Actors PROVE pull[a].at \in -1..now
    <3>1. pull[a] \in Pull /\ Faithful(a, pull[a], truth, now) /\ now \in Nat
      BY DEF BooksInv, BooksTyped
    <3>2. QED BY <3>1 DEF Faithful, Pull
  <2>4. QED BY <2>1, <2>2, <2>3 DEF BooksInv, BooksTyped, LedgerTypeOK
<1>2. ASSUME NEW a \in DailyActors, ~Idle(a), NEW d \in Day
      PROVE  LET p == pull[a] IN
             /\ \A c \in DOMAIN Empty : Shown(p, d)[c] <= truth[d]
             /\ (/\ d \in final.days /\ p.at >= End(d) /\ p.cost # << >>
                 /\ d \in DOMAIN p.usage => d \in DOMAIN p.cost)
                => Shown(p, d).cost = truth[d]
  <2> DEFINE p == pull[a]
  <2>1. a \in Actors /\ Faithful(a, p, truth, now) /\ p.at # -1
    BY <1>2 DEF BooksInv, Idle, DailyActors
  <2>2. /\ days[d] \in DayRow /\ truth[d] \in Nat /\ \A c \in DOMAIN Empty : days[d][c] <= truth[d]
        /\ d \in final.days => days[d].cost = truth[d]
    BY DEF BooksInv, BooksTyped, NothingTwice, EndedDaysComplete
  <2>3. /\ d \in DOMAIN p.usage => /\ p.usage[d] \in [requests : Nat, spend : Nat]
                                   /\ p.usage[d].requests <= truth[d]
                                   /\ p.usage[d].spend <= truth[d]
        /\ d \in DOMAIN p.cost => /\ p.cost[d] \in 1..truth[d]
                                  /\ p.at >= End(d) => p.cost[d] = truth[d]
    BY <1>2, <2>1 DEF Faithful
  <2> HIDE DEF p
  <2>4. /\ days[d].requests <= truth[d] /\ days[d].spend <= truth[d] /\ days[d].cost <= truth[d]
        /\ days[d].requests \in Nat /\ days[d].spend \in Nat /\ days[d].cost \in Nat
    BY <2>2 DEF Empty, DayRow
  <2> DEFINE s == Shown(p, d)
  <2>5. /\ s.requests = IF d \in DOMAIN p.usage THEN p.usage[d].requests ELSE days[d].requests
        /\ s.spend = IF d \in DOMAIN p.usage THEN p.usage[d].spend ELSE days[d].spend
        /\ s.cost = IF d \in DOMAIN p.cost THEN p.cost[d]
                    ELSE IF d \in DOMAIN p.usage THEN 0 ELSE days[d].cost
    BY DEF Shown, Stored
  <2> HIDE DEF s
  <2>6. s.requests <= truth[d] /\ s.spend <= truth[d] /\ s.cost <= truth[d]
    BY <2>2, <2>3, <2>4, <2>5
  <2>7. \A c \in DOMAIN Empty : s[c] <= truth[d]
    BY <2>6 DEF Empty
  <2>8. ASSUME d \in final.days, p.at >= End(d), d \in DOMAIN p.usage => d \in DOMAIN p.cost
        PROVE  s.cost = truth[d]
    BY <2>2, <2>3, <2>5, <2>8
  <2>9. QED BY <2>7, <2>8 DEF s, p
<1> QED
  BY <1>1, <1>2 DEF PageWhole

\* Only the prune drops a cost.
LEMMA BooksKeepCost ==
  ASSUME BooksInv, [LedgerNext]_ledgerVars,
         NEW d \in Day, days[d].cost > 0, d >= Today - Retention
  PROVE  days'[d].cost > 0
<1>1. days \in [Day -> DayRow] /\ days[d].cost \in Nat /\ truth[d] \in Nat
  BY DEF BooksInv, BooksTyped, DayRow
<1>2. CASE Prune
  <2>1. days' = [e \in Day |-> IF e \in Kept THEN days[e] ELSE Empty] /\ d \in Kept
    BY <1>2 DEF Prune, Kept
  <2>2. days'[d] = days[d]
    BY <2>1
  <2>3. QED BY <2>2
<1>3. ASSUME NEW a \in Actors, WriteDays(a) PROVE days'[d].cost > 0
  <2>1. a \in DailyActors /\ ~Idle(a)
    BY <1>3 DEF WriteDays
  <2>2. CASE UNCHANGED days
    BY <2>2
  <2>3. CASE days' = [e \in Day |-> IF e \in DOMAIN pull[a].usage
                                    THEN Upserted(days[e], Record(pull[a], e)) ELSE days[e]]
    <3>1. CASE d \in DOMAIN pull[a].usage
      <4> DEFINE u == Upserted(days[d], Record(pull[a], d))
      <4>1. /\ d \notin DOMAIN pull[a].cost => u.cost = days[d].cost
            /\ d \in DOMAIN pull[a].cost => u.cost = pull[a].cost[d] /\ pull[a].cost[d] \in 1..truth[d]
        BY <2>1, <3>1, UpsertIs
      <4>2. days'[d] = u
        BY <2>3, <3>1
      <4> HIDE DEF u
      <4>3. QED BY <1>1, <4>1, <4>2
    <3>2. CASE d \notin DOMAIN pull[a].usage
      <4>1. days'[d] = days[d]
        BY <2>3, <3>2
      <4>2. QED BY <4>1
    <3>3. QED BY <3>1, <3>2
  <2>4. QED BY <1>3, <2>2, <2>3 DEF WriteDays
<1>4. ASSUME UNCHANGED days PROVE days'[d].cost > 0
  BY <1>4
<1> QED
  BY <1>2, <1>3, <1>4
     DEF LedgerNext, ledgerVars, Request, Tick, Poll, Seed, LedgerRestart, PullUsage, PullCost,
         WriteRows, Abandon

\* Each table of days tells what LiteLLM logged and no more, complete where a day was
\* read after its end; so does a page laid over it, and a stored cost stays until the
\* prune (db.py:2470-2523; app.py:3653-3822; litellm.py:1233-1270, 1752-1905).
THEOREM TablesAreTrue == LedgerSpec => LedgerTrue
<1> DEFINE Keeps == \A d \in Day : days[d].cost > 0 /\ d >= Today - Retention => days[d].cost' > 0
<1>1. LedgerInit => BooksInv
  BY InitBooks
<1>2. BooksInv /\ [LedgerNext]_ledgerVars => BooksInv'
  BY BooksNext
<1>3. BooksInv => LedgerTypeOK /\ NothingTwice /\ PageWhole /\ EndedDaysComplete
  BY BooksShow DEF BooksInv
<1>4. BooksInv /\ [LedgerNext]_ledgerVars => Keeps
  <2> SUFFICES ASSUME BooksInv, [LedgerNext]_ledgerVars,
                      NEW d \in Day, days[d].cost > 0, d >= Today - Retention
               PROVE  days'[d].cost > 0
    OBVIOUS
  <2> QED BY BooksKeepCost
<1>5. LedgerSpec => []BooksInv
  BY <1>1, <1>2, PTL DEF LedgerSpec
<1>6. LedgerSpec => [][Keeps]_ledgerVars
  BY <1>4, <1>5, PTL DEF LedgerSpec
<1>7. LedgerSpec => [](LedgerTypeOK /\ NothingTwice /\ PageWhole /\ EndedDaysComplete)
  BY <1>3, <1>5, PTL
<1> QED
  BY <1>6, <1>7 DEF LedgerTrue, CostKept

-----------------------------------------------------------------------------
(***************************************************************************)
(* The settings.  A name whose last change the table took is in the table  *)
(* exactly as in the overlay, so that a start finds it there.              *)
(***************************************************************************)
Saved ==
    \A n \in Names \ unsaved :
        /\ n \in DOMAIN overrides <=> n \in DOMAIN stored
        /\ n \in DOMAIN overrides => overrides[n] = stored[n]

SettingsInv ==
    /\ TypeOK /\ OverridesValid /\ Saved
    /\ live = [n \in Names |-> Tunable(overrides, default, n)]

LEMMA CutIsEven == ASSUME NEW h \in Int PROVE Cut(h) \in Int /\ Cut(h) % 2 = 0
<1>1. \A q \in Int : (q * 2) \in Int /\ (q * 2) % 2 = 0 /\ (-(q * 2)) % 2 = 0
  OBVIOUS
<1>2. h \div 2 \in Int /\ (-h) \div 2 \in Int
  OBVIOUS
<1> QED
  BY <1>1, <1>2 DEF Cut

\* What is let in is valid: rounded before it is compared, not after (config.py:712-735).
LEMMA NormalIsValid ==
  ASSUME NEW n \in Names, NEW raw \in Raw, NEW v \in Normal(n, raw)
  PROVE  Valid(n, v)
<1>1. Kind[n] \in {"float", "int", "bool", "choice"} /\ Halves \subseteq Int
  BY SettingsAssumption DEF SettingsAssumption
<1>2. CASE Kind[n] = "choice"
  BY <1>2 DEF Normal, Valid
<1>3. CASE Kind[n] = "bool"
  BY <1>3 DEF Normal, Valid, Truth
<1>4. CASE Kind[n] = "float"
  BY <1>4 DEF Normal, Valid
<1>5. CASE Kind[n] = "int"
  <2>1. raw.is = "number" /\ InBounds(n, Cut(raw.half)) /\ v = Number(Cut(raw.half))
    BY <1>5 DEF Normal
  <2>2. raw.half \in Int
    <3>1. \A h \in Halves : Number(h).half \in Int
      BY <1>1 DEF Number
    <3>2. \A w \in Words : Word(w).half \in Int
      BY DEF Word
    <3>3. NaN.half \in Int
      BY DEF NaN
    <3>4. QED BY <3>1, <3>2, <3>3 DEF Raw
  <2>3. Cut(raw.half) % 2 = 0
    BY <2>2, CutIsEven
  <2>4. v.is = "number" /\ v.half = Cut(raw.half)
    BY <2>1 DEF Number
  <2>5. QED BY <1>5, <2>1, <2>3, <2>4 DEF Valid
<1> QED
  BY <1>1, <1>2, <1>3, <1>4, <1>5

LEMMA SettingsInit == Init => SettingsInv
<1> SUFFICES ASSUME NEW d \in Environments, Started(d, << >>), stored = << >>, unsaved = {}
             PROVE  SettingsInv
  BY DEF Init
<1>1. overrides = [n \in {} |-> << >>[n]] /\ DOMAIN overrides = {} /\ DOMAIN stored = {}
  BY DEF Started, Loaded
<1>2. Loaded(<< >>) = overrides /\ default = d
  BY DEF Started
<1> QED
  BY <1>1, <1>2 DEF SettingsInv, TypeOK, OverridesValid, Saved, Started

\* A set or a reset changes one name alike in the overlay, the constants and, if the
\* write succeeds, the table.
LEMMA SettingsChange ==
  ASSUME SettingsInv, NEW n \in Names, NEW o, NEW s, \* the overlay and the table it makes
         overrides' = o, default' = default, Apply(n), Persist(n, s),
         DOMAIN o \subseteq Names, DOMAIN s \subseteq Names \cup Flags,
         \A m \in Names \ {n} : /\ m \in DOMAIN o <=> m \in DOMAIN overrides
                                /\ m \in DOMAIN o => o[m] = overrides[m]
                                /\ m \in DOMAIN s <=> m \in DOMAIN stored
                                /\ m \in DOMAIN s => s[m] = stored[m],
         n \in DOMAIN o <=> n \in DOMAIN s,
         n \in DOMAIN o => o[n] = s[n] /\ Valid(n, o[n])
  PROVE  SettingsInv'
<1> USE DEF SettingsInv
<1>1. live' = [m \in Names |-> Tunable(overrides', default', m)]
  <2>1. live' = [live EXCEPT ![n] = Tunable(overrides', default, n)]
    BY DEF Apply
  <2>2. \A m \in Names \ {n} : Tunable(o, default, m) = Tunable(overrides, default, m)
    BY DEF Tunable
  <2>3. \A m \in Names : live'[m] = Tunable(o, default, m)
    BY <2>1, <2>2
  <2>4. live' = [m \in Names |-> live'[m]]
    BY <2>1
  <2>5. QED BY <2>3, <2>4
<1>2. /\ \/ stored' = s /\ unsaved' = unsaved \ {n}
         \/ stored' = stored /\ unsaved' = unsaved \cup {n}
  BY DEF Persist
<1>3. TypeOK'
  BY <1>1, <1>2 DEF TypeOK
<1>4. OverridesValid'
  BY <1>2 DEF OverridesValid, TypeOK
<1>5. Saved'
  BY <1>2 DEF Saved
<1> QED
  BY <1>1, <1>3, <1>4, <1>5

LEMMA SettingsStep == SettingsInv /\ [Next]_vars => SettingsInv'
<1> SUFFICES ASSUME SettingsInv, [Next]_vars PROVE SettingsInv'
  OBVIOUS
<1>0. DOMAIN overrides \subseteq Names /\ DOMAIN stored \subseteq Names \cup Flags
  BY DEF SettingsInv, TypeOK
<1>1. ASSUME NEW n \in Names, Reset(n) PROVE SettingsInv'
  <2> DEFINE o == Without(overrides, n)
             s == Without(stored, n)
  <2>1. overrides' = o /\ default' = default /\ Apply(n) /\ Persist(n, s)
    BY <1>1 DEF Reset
  <2>2. DOMAIN o = DOMAIN overrides \ {n} /\ DOMAIN s = DOMAIN stored \ {n}
        /\ \A m \in DOMAIN o : o[m] = overrides[m]
    BY DEF Without
  <2>3. \A m \in DOMAIN s : s[m] = stored[m]
    BY DEF Without
  <2> HIDE DEF o, s
  <2>4. QED BY <1>0, <2>1, <2>2, <2>3, SettingsChange
<1>2. ASSUME NEW n \in Names, NEW raw \in Raw, Set(n, raw) PROVE SettingsInv'
  <2>1. PICK v \in Normal(n, raw) :
              /\ overrides' = With(overrides, n, v) /\ Apply(n)
              /\ Persist(n, With(stored, n, v)) /\ default' = default
    BY <1>2 DEF Set
  <2> DEFINE o == With(overrides, n, v)
             s == With(stored, n, v)
  <2>2. DOMAIN o = DOMAIN overrides \cup {n} /\ o[n] = v
        /\ \A m \in DOMAIN overrides \ {n} : o[m] = overrides[m]
    BY DEF With
  <2>3. DOMAIN s = DOMAIN stored \cup {n} /\ s[n] = v
        /\ \A m \in DOMAIN stored \ {n} : s[m] = stored[m]
    BY DEF With
  <2>4. Valid(n, v)
    BY NormalIsValid
  <2>5. overrides' = o /\ default' = default /\ Apply(n) /\ Persist(n, s)
    BY <2>1
  <2> HIDE DEF o, s
  <2>6. QED BY <1>0, <2>2, <2>3, <2>4, <2>5, SettingsChange
<1>3. ASSUME NEW f \in Flags, Flag(f) PROVE SettingsInv'
  <2>1. /\ stored' = With(stored, f, Truth(TRUE)) /\ f \notin Names
        /\ UNCHANGED <<default, overrides, live, unsaved>>
    BY <1>3, SettingsAssumption DEF Flag, SettingsAssumption
  <2>2. DOMAIN stored' = DOMAIN stored \cup {f} /\ \A n \in DOMAIN stored \ {f} : stored'[n] = stored[n]
    BY <2>1 DEF With
  <2>3. \A n \in Names : (n \in DOMAIN stored' <=> n \in DOMAIN stored)
                         /\ (n \in DOMAIN stored => stored'[n] = stored[n])
    BY <2>1, <2>2
  <2>4. DOMAIN stored' \subseteq Names \cup Flags
    BY <1>0, <2>2
  <2>5. QED BY <2>1, <2>3, <2>4 DEF SettingsInv, TypeOK, OverridesValid, Saved
<1>4. ASSUME NEW d \in Environments, NEW readable \in BOOLEAN, Restart(d, readable)
      PROVE  SettingsInv'
  <2> DEFINE items == SettingsAll(readable)
  <2>1. /\ default' = d /\ overrides' = Loaded(items) /\ stored' = stored
        /\ live' = [n \in Names |-> Tunable(overrides', d, n)]
        /\ unsaved' = IF readable THEN {} ELSE Names
    BY <1>4 DEF Restart
  <2>2. DOMAIN overrides' = DOMAIN items \cap Names /\ \A n \in DOMAIN overrides' : overrides'[n] = items[n]
    BY <2>1 DEF Loaded
  <2>3. items = IF readable THEN stored ELSE << >>
    BY DEF SettingsAll
  <2> HIDE DEF items
  <2>4. \A n \in DOMAIN overrides' : /\ n \in DOMAIN stored \cap Names
                                     /\ overrides'[n] = stored[n]
    BY <2>2, <2>3
  <2>5. OverridesValid'
    BY <2>1, <2>4 DEF SettingsInv, OverridesValid
  <2>6. Saved'
    BY <2>1, <2>2, <2>3 DEF Saved
  <2>7. TypeOK'
    BY <2>1, <2>2 DEF SettingsInv, TypeOK
  <2>8. QED BY <2>1, <2>5, <2>6, <2>7 DEF SettingsInv
<1>5. CASE UNCHANGED vars
  BY <1>5 DEF vars, SettingsInv, TypeOK, OverridesValid, Saved
<1> QED
  BY <1>1, <1>2, <1>3, <1>4, <1>5 DEF Next

\* A restart of the process, under whatever environment, finds what the overlay held.
LEMMA SettingsReturn ==
  ASSUME SettingsInv, NEW n \in Names \ unsaved, NEW d \in Environments, Restart(d, TRUE)
  PROVE  /\ n \in DOMAIN overrides <=> n \in DOMAIN overrides'
         /\ n \in DOMAIN overrides => live'[n] = live[n]
<1>1. /\ overrides' = Loaded(stored) /\ live' = [m \in Names |-> Tunable(overrides', d, m)]
  BY DEF Restart, SettingsAll
<1>2. DOMAIN overrides' = DOMAIN stored \cap Names /\ \A m \in DOMAIN overrides' : overrides'[m] = stored[m]
  BY <1>1 DEF Loaded
<1> QED
  BY <1>1, <1>2 DEF SettingsInv, Saved, Tunable

\* What is overridden is valid, what the program reads is what the page shows, and a
\* restart keeps both for every name whose write succeeded (config.py:652-735;
\* app.py:1652-1660, 4367).
THEOREM SettingsAreSafe == Spec => [](TypeOK /\ OverridesValid /\ LiveFollows) /\ RestartKeeps
<1> DEFINE Keeps == \A n \in Names \ unsaved :
                       (\E d \in Environments : Restart(d, TRUE)) =>
                           /\ n \in DOMAIN overrides <=> n \in DOMAIN overrides'
                           /\ n \in DOMAIN overrides => live'[n] = live[n]
<1>1. SettingsInv => TypeOK /\ OverridesValid /\ LiveFollows
  BY DEF SettingsInv, LiveFollows
<1>2. SettingsInv /\ [Next]_vars => Keeps
  BY SettingsReturn
<1>3. Spec => []SettingsInv
  BY SettingsInit, SettingsStep, PTL DEF Spec
<1>4. Spec => [](TypeOK /\ OverridesValid /\ LiveFollows)
  BY <1>1, <1>3, PTL
<1>5. Spec => [][Keeps]_vars
  BY <1>2, <1>3, PTL DEF Spec
<1> QED
  BY <1>4, <1>5 DEF RestartKeeps

\* Each part of the composite runs as it would alone.
LEMMA PartsRun == PartSpec => Spec /\ Keyboard!Spec /\ Gated!Spec /\ Tokens!Spec
<1>1. PartInit => Init /\ Keyboard!Init /\ Gated!Init /\ Tokens!Init
  BY DEF PartInit
<1>2. [PartNext]_<<part, vars, keyboard, gated, tokens>> =>
          [Next]_vars /\ [Keyboard!Next]_(Keyboard!vars) /\ [Gated!Next]_(Gated!vars)
          /\ [Tokens!Next]_(Tokens!vars)
  BY DEF PartNext, vars, keyboard, gated, tokens, Keyboard!vars, Gated!vars, Gated!store, Tokens!vars
<1> QED
  BY <1>1, <1>2, PTL DEF PartSpec, Spec, Keyboard!Spec, Gated!Spec, Tokens!Spec

\* The same of the composite that the run checks.
THEOREM SettingsPartHolds == PartSpec => SettingsHold
<1>1. PartSpec => [](TypeOK /\ OverridesValid /\ LiveFollows) /\ RestartKeeps
  BY PartsRun, SettingsAreSafe
<1>2. PartSpec => [](part = "settings" => TypeOK /\ OverridesValid /\ LiveFollows)
  BY <1>1, PTL
<1> QED
  BY <1>1, <1>2 DEF SettingsHold

-----------------------------------------------------------------------------
(***************************************************************************)
(* The token counts.  The windows in flight and the requests that pull are *)
(* in one-to-one correspondence; what was good is what the cache holds;    *)
(* and while the breaker is open, each failed day has ended one pull.      *)
(***************************************************************************)
Running == {r \in Requests : req[r].at \in {"fetches", "parses"}}

TokenReq == [at : {"idle", "follows", "begins", "fetches", "parses"}, win : Windows \cup {""},
             since : Nat, day : Nat, ok : BOOLEAN]

PullsTyped ==
    /\ DOMAIN pulled \subseteq Windows /\ Cardinality(DOMAIN pulled) <= MaxEntries
    /\ \A w \in DOMAIN pulled : pulled[w] \in Nat
    /\ DOMAIN flight \subseteq Windows
    /\ req \in [Requests -> TokenReq]
    /\ \A r \in Requests : \/ req[r] = Tokens!Idle
                           \/ req[r].at # "idle" /\ req[r].win \in Windows /\ req[r].day < Days

Flights ==
    /\ \A w \in DOMAIN flight : /\ flight[w] \in Tokens!Pulling
                                /\ req[flight[w]].win = w
    /\ \A r \in Tokens!Pulling : req[r].win \in DOMAIN flight /\ flight[req[r].win] = r
    /\ \A r \in Tokens!Following : req[r].win \in DOMAIN flight

GoodIsCached == \A w \in DOMAIN good : w \in DOMAIN pulled /\ good[w] = pulled[w]

PullsInv == PullsTyped /\ Flights /\ GoodIsCached

Quiet ==
    /\ clock \in 0..MaxNow /\ breaker \in [fails : Nat, until : Nat] /\ late \in Nat
    /\ breaker.until <= clock + CbCooldown
    /\ Tokens!Open => late + Cardinality(Running) < Cardinality(Requests)
    /\ ~Tokens!Open => late = 0

TokensInv == PullsInv /\ Quiet

\* TokenTypes counts as every module does.
LEMMA CardinalityIs == \A S : Tokens!Cardinality(S) = Cardinality(S)
BY DEF Tokens!Cardinality, Cardinality

\* The cache keeps its cap, and what it keeps it does not change.
LEMMA StoredIs ==
  ASSUME PullsTyped, NEW w \in Windows, NEW at \in Nat, NEW c \in Tokens!Stored(w, at)
  PROVE  /\ DOMAIN c \subseteq DOMAIN pulled \cup {w} /\ Cardinality(DOMAIN c) <= MaxEntries
         /\ \A x \in DOMAIN c : c[x] = IF x = w THEN at ELSE pulled[x]
<1> DEFINE all  == Tokens!With(pulled, w, at)
           young == {x \in DOMAIN all : clock - all[x] < TokenTtl}
<1>1. DOMAIN all = DOMAIN pulled \cup {w} /\ \A x \in DOMAIN all : all[x] = IF x = w THEN at ELSE pulled[x]
  BY DEF Tokens!With
<1>2. Cardinality(young) \in Nat /\ MaxEntries \in Nat
  <2>1. young \subseteq Windows
    BY <1>1 DEF PullsTyped
  <2>2. IsFiniteSet(young)
    BY <2>1, TokensAssumption, FS_Subset DEF TokensAssumption
  <2>3. QED BY <2>2, FS_CardinalityType, TokensAssumption DEF TokensAssumption
<1> DEFINE Room(S) ==
             /\ Tokens!Cardinality(S) = (IF Tokens!Cardinality(young) < MaxEntries
                                         THEN Tokens!Cardinality(young) ELSE MaxEntries)
             /\ \A x \in S, y \in young \ S : all[x] >= all[y]
<1>5. c \in IF Tokens!Cardinality(DOMAIN all) <= MaxEntries THEN {all}
            ELSE {Tokens!Keep(all, S) : S \in {S \in SUBSET young : Room(S)}}
  BY Zenon DEF Tokens!Stored
<1> HIDE DEF Room
<1>3. CASE Cardinality(DOMAIN all) <= MaxEntries
  <2>1. c = all
    BY <1>3, <1>5, CardinalityIs
  <2>2. QED BY <1>1, <1>3, <2>1
<1>4. CASE ~(Cardinality(DOMAIN all) <= MaxEntries)
  <2>0. PICK S \in {S \in SUBSET young : Room(S)} : c = Tokens!Keep(all, S)
    BY <1>4, <1>5, CardinalityIs
  <2>1. /\ S \in SUBSET young
        /\ Cardinality(S) = (IF Cardinality(young) < MaxEntries THEN Cardinality(young) ELSE MaxEntries)
        /\ c = Tokens!Keep(all, S)
    BY <2>0, CardinalityIs DEF Room
  <2> HIDE DEF all
  <2>2. DOMAIN c = S /\ \A x \in S : c[x] = all[x] /\ x \in DOMAIN all
    BY <2>1 DEF Tokens!Keep
  <2> HIDE DEF young
  <2>3. Cardinality(S) <= MaxEntries
    BY <1>2, <2>1
  <2>4. QED BY <1>1, <2>2, <2>3
<1> QED
  BY <1>3, <1>4

\* The end of a pull ends what followed it and nothing else.
LEMMA PullsFinish ==
  ASSUME PullsInv, NEW r \in Tokens!Pulling, NEW available, Tokens!Finish(r, available)
  PROVE  PullsInv' /\ Running' = Running \ {r}
<1> DEFINE w == req[r].win
<1>1. r \in Requests /\ w \in Windows /\ req[r].since \in Nat /\ w \in DOMAIN flight /\ flight[w] = r
      /\ req[r].at \in {"begins", "fetches", "parses"}
  BY DEF PullsInv, PullsTyped, Flights, Tokens!Pulling, Tokens!Idle, TokenReq
<1>2. /\ req' = [x \in Requests |-> IF x = r \/ (x \in Tokens!Following /\ req[x].win = w)
                                    THEN Tokens!Idle ELSE req[x]]
      /\ flight' = Tokens!Keep(flight, Windows \ {w})
  BY DEF Tokens!Finish
<1>3. DOMAIN flight' = DOMAIN flight \ {w} /\ \A x \in DOMAIN flight' : flight'[x] = flight[x]
  BY <1>2 DEF Tokens!Keep, PullsInv, PullsTyped
<1>4. Tokens!Idle \in TokenReq /\ Tokens!Idle.at = "idle"
  BY DEF TokenReq, Tokens!Idle
<1>5. /\ DOMAIN pulled' \subseteq Windows /\ Cardinality(DOMAIN pulled') <= MaxEntries
      /\ \A x \in DOMAIN pulled' : pulled'[x] \in Nat
      /\ \A x \in DOMAIN good' : x \in DOMAIN pulled' /\ good'[x] = pulled'[x]
  <2>1. CASE available
    <3>1. /\ pulled' \in Tokens!Stored(w, req[r].since)
          /\ good' = Tokens!Keep(Tokens!With(good, w, req[r].since), DOMAIN pulled')
      BY <2>1 DEF Tokens!Finish
    <3>2. /\ DOMAIN pulled' \subseteq DOMAIN pulled \cup {w} /\ Cardinality(DOMAIN pulled') <= MaxEntries
          /\ \A x \in DOMAIN pulled' : pulled'[x] = IF x = w THEN req[r].since ELSE pulled[x]
      BY <1>1, <3>1, StoredIs DEF PullsInv
    <3>3. /\ DOMAIN good' = (DOMAIN good \cup {w}) \cap DOMAIN pulled'
          /\ \A x \in DOMAIN good' : good'[x] = IF x = w THEN req[r].since ELSE good[x]
      BY <3>1 DEF Tokens!Keep, Tokens!With
    <3> HIDE DEF w
    <3>4. QED BY <1>1, <3>2, <3>3 DEF PullsInv, PullsTyped, GoodIsCached
  <2>2. CASE ~available
    BY <2>2 DEF Tokens!Finish, PullsInv, PullsTyped, GoodIsCached
  <2>3. QED BY <2>1, <2>2
<1>6. \A x \in Requests : \/ req'[x] = Tokens!Idle /\ (x = r \/ x \in Tokens!Following)
                          \/ /\ req'[x] = req[x] /\ x # r
                             /\ req[x].at = "follows" => req[x].win # w
  BY <1>2 DEF Tokens!Following
<1>7. req' \in [Requests -> TokenReq]
  BY <1>2, <1>4 DEF PullsInv, PullsTyped
<1> HIDE DEF w
<1>8. PullsTyped'
  BY <1>3, <1>5, <1>6, <1>7 DEF PullsInv, PullsTyped, Tokens!Idle
<1>9. Tokens!Pulling' = Tokens!Pulling \ {r} /\ Running' = Running \ {r}
  BY <1>1, <1>4, <1>6 DEF Tokens!Pulling, Tokens!Following, Running
<1>10. Flights'
  <2>1. ASSUME NEW x \in DOMAIN flight'
        PROVE  flight'[x] \in Tokens!Pulling' /\ req'[flight'[x]].win = x
    <3>1. x \in DOMAIN flight /\ x # w /\ flight'[x] = flight[x]
      BY <1>3, <2>1
    <3>2. flight[x] \in Tokens!Pulling /\ req[flight[x]].win = x
      BY <3>1 DEF PullsInv, Flights
    <3>3. flight[x] # r
      BY <3>1, <3>2 DEF w
    <3>4. flight[x] \in Requests /\ flight[x] \notin Tokens!Following
      BY <3>2 DEF Tokens!Pulling, Tokens!Following
    <3>5. req'[flight[x]] = req[flight[x]]
      BY <1>6, <3>3, <3>4
    <3>6. QED BY <1>9, <3>1, <3>2, <3>3, <3>5
  <2>2. ASSUME NEW x \in Tokens!Pulling'
        PROVE  req'[x].win \in DOMAIN flight' /\ flight'[req'[x].win] = x
    <3>1. x \in Tokens!Pulling /\ x # r
      BY <1>9, <2>2
    <3>2. req[x].win \in DOMAIN flight /\ flight[req[x].win] = x
      BY <3>1 DEF PullsInv, Flights
    <3>3. req'[x] = req[x]
      BY <1>6, <3>1 DEF Tokens!Pulling, Tokens!Following
    <3>4. req[x].win # w
      BY <1>1, <3>1, <3>2
    <3>5. QED BY <1>3, <3>2, <3>3, <3>4
  <2>3. ASSUME NEW x \in Tokens!Following' PROVE req'[x].win \in DOMAIN flight'
    <3>1. x \in Requests /\ req'[x].at = "follows"
      BY <2>3 DEF Tokens!Following
    <3>2. req'[x] = req[x] /\ req[x].win # w /\ x \in Tokens!Following
      BY <1>4, <1>6, <3>1 DEF Tokens!Following
    <3>3. req[x].win \in DOMAIN flight
      BY <3>2 DEF PullsInv, Flights
    <3>4. QED BY <1>3, <3>2, <3>3
  <2>4. QED BY <2>1, <2>2, <2>3 DEF Flights
<1> QED
  BY <1>5, <1>8, <1>9, <1>10 DEF PullsInv, GoodIsCached

\* A request that only goes on within its pull.
LEMMA PullsGoOn ==
  ASSUME PullsInv, NEW r \in Tokens!Pulling, UNCHANGED <<pulled, flight, good>>,
         NEW q \in TokenReq, req' = [req EXCEPT ![r] = q],
         q.at \in {"fetches", "parses"}, q.win = req[r].win, q.day < Days
  PROVE  PullsInv' /\ Running' = Running \cup {r}
<1>1. r \in Requests /\ req[r].win \in Windows /\ req \in [Requests -> TokenReq]
  <2>1. r \in Requests /\ req[r].at # "idle"
    BY DEF Tokens!Pulling
  <2>2. Tokens!Idle.at = "idle"
    BY DEF Tokens!Idle
  <2>3. QED BY <2>1, <2>2 DEF PullsInv, PullsTyped
<1>2. req' \in [Requests -> TokenReq] /\ req'[r] = q /\ \A x \in Requests \ {r} : req'[x] = req[x]
  BY <1>1
<1>3. /\ Tokens!Pulling' = Tokens!Pulling /\ Tokens!Following' = Tokens!Following
      /\ Running' = Running \cup {r} /\ \A x \in Requests : req'[x].win = req[x].win
  BY <1>1, <1>2 DEF Tokens!Pulling, Tokens!Following, Running
<1>4. PullsTyped'
  BY <1>1, <1>2 DEF PullsInv, PullsTyped
<1>5. Flights'
  <2>1. Tokens!Pulling \subseteq Requests /\ Tokens!Following \subseteq Requests
    BY DEF Tokens!Pulling, Tokens!Following
  <2>2. QED BY <1>3, <2>1 DEF PullsInv, Flights
<1> QED
  BY <1>3, <1>4, <1>5 DEF PullsInv, GoodIsCached

\* The next day of a pull that runs, or its end.
LEMMA PullsContinue ==
  ASSUME PullsInv, NEW r \in Running, NEW ok \in BOOLEAN, Tokens!Continue(r, ok)
  PROVE  PullsInv' /\ Running' \subseteq Running
<1>1. r \in Tokens!Pulling /\ r \in Requests /\ req \in [Requests -> TokenReq]
  BY DEF Running, Tokens!Pulling, PullsInv, PullsTyped
<1>2. CASE req[r].day + 1 < Days /\ clock - req[r].since <= MaxSeconds
  <2> DEFINE q == [req[r] EXCEPT !.at = "fetches", !.day = @ + 1, !.ok = ok]
  <2>1. req' = [req EXCEPT ![r] = q] /\ UNCHANGED <<pulled, flight, good>>
    BY <1>1, <1>2 DEF Tokens!Continue
  <2>2. q \in TokenReq /\ q.at = "fetches" /\ q.win = req[r].win /\ q.day = req[r].day + 1
    <3>1. req[r] \in TokenReq
      BY <1>1
    <3>2. \A x \in TokenReq : x.day \in Nat
      BY DEF TokenReq
    <3> DEFINE r1 == [req[r] EXCEPT !.at = "fetches"]
               day == req[r].day + 1
               r2 == [r1 EXCEPT !.day = day]
    <3>3. r1 \in TokenReq /\ r1.at = "fetches" /\ r1.win = req[r].win /\ r1.day = req[r].day
      BY <3>1 DEF TokenReq
    <3>8. day \in Nat
      BY <3>1, <3>2
    <3> HIDE DEF r1, day
    <3>4. r2 \in TokenReq /\ r2.at = "fetches" /\ r2.win = req[r].win /\ r2.day = day
      BY <3>3, <3>8 DEF TokenReq
    <3> HIDE DEF r2
    <3>5. [r2 EXCEPT !.ok = ok] \in TokenReq
      BY <3>4 DEF TokenReq
    <3>6. q = [r2 EXCEPT !.ok = ok]
      BY <3>3 DEF r1, r2, day
    <3>7. QED BY <3>4, <3>5, <3>6 DEF TokenReq, day
  <2> HIDE DEF q
  <2>3. QED BY <1>1, <1>2, <2>1, <2>2, PullsGoOn
<1>3. CASE ~(req[r].day + 1 < Days /\ clock - req[r].since <= MaxSeconds)
  <2>1. Tokens!Finish(r, ok)
    BY <1>3 DEF Tokens!Continue
  <2>2. QED BY <1>1, <2>1, PullsFinish
<1> QED
  BY <1>2, <1>3

LEMMA RequestsCounted ==
  ASSUME NEW S \in SUBSET Requests
  PROVE  /\ Cardinality(S) \in Nat /\ Cardinality(Requests) \in Nat
         /\ Cardinality(S) <= Cardinality(Requests)
         /\ \A T \in SUBSET S : Cardinality(T) \in Nat /\ Cardinality(T) <= Cardinality(S)
         /\ \A r \in S : Cardinality(S \ {r}) = Cardinality(S) - 1
<1>1. IsFiniteSet(Requests) /\ IsFiniteSet(S)
  BY TokensAssumption, FS_Subset DEF TokensAssumption
<1>2. /\ Cardinality(S) \in Nat /\ Cardinality(Requests) \in Nat
      /\ Cardinality(S) <= Cardinality(Requests)
  BY <1>1, FS_Subset, FS_CardinalityType
<1>3. \A T \in SUBSET S : Cardinality(T) \in Nat /\ Cardinality(T) <= Cardinality(S)
  BY <1>1, FS_Subset, FS_CardinalityType
<1>4. \A r \in S : Cardinality(S \ {r}) = Cardinality(S) - 1
  BY <1>1, FS_RemoveElement
<1> QED
  BY <1>2, <1>3, <1>4

LEMMA TokensInit == Tokens!Init => TokensInv
<1> SUFFICES ASSUME Tokens!Init PROVE TokensInv
  OBVIOUS
<1>1. /\ clock = 0 /\ pulled = << >> /\ flight = << >> /\ good = << >> /\ late = 0
      /\ req = [r \in Requests |-> Tokens!Idle] /\ breaker = [fails |-> 0, until |-> 0]
  BY DEF Tokens!Init
<1>2. Tokens!Idle \in TokenReq /\ Tokens!Idle.at = "idle"
  BY DEF Tokens!Idle, TokenReq
<1>3. DOMAIN pulled = {} /\ DOMAIN flight = {} /\ DOMAIN good = {} /\ Cardinality({}) = 0
  BY <1>1, FS_EmptySet
<1>4. PullsInv
  BY <1>1, <1>2, <1>3, TokensAssumption
     DEF PullsInv, PullsTyped, Flights, GoodIsCached, Tokens!Pulling, Tokens!Following, TokensAssumption
<1>5. Quiet
  BY <1>1, TokensAssumption DEF Quiet, Tokens!Open, TokensAssumption
<1> QED
  BY <1>4, <1>5 DEF TokensInv

LEMMA TokensTick == TokensInv /\ Tokens!Tick => TokensInv'
<1> SUFFICES ASSUME TokensInv, Tokens!Tick PROVE TokensInv'
  OBVIOUS
<1>1. /\ clock < MaxNow /\ clock' = clock + 1 /\ UNCHANGED <<pulled, flight, req, breaker, good>>
      /\ late' = IF clock' < breaker.until THEN late ELSE 0
  BY DEF Tokens!Tick
<1>2. PullsInv'
  BY <1>1 DEF TokensInv, PullsInv, PullsTyped, Flights, GoodIsCached, Tokens!Pulling,
              Tokens!Following
<1>3. Cardinality(Running)' = Cardinality(Running)
  BY <1>1 DEF Running
<1>4. Quiet'
  BY <1>1, <1>3, TokensAssumption DEF TokensInv, Quiet, Tokens!Open, TokensAssumption
<1> QED
  BY <1>2, <1>4 DEF TokensInv

\* A request that finds no entry joins the pull of its window or leads one.
LEMMA TokensRequest ==
  ASSUME TokensInv, NEW r \in Requests, NEW w \in Windows,
         Tokens!Hit(r, w) \/ Tokens!Follow(r, w) \/ Tokens!Lead(r, w)
  PROVE  TokensInv'
<1> USE DEF TokensInv
<1>0. /\ req \in [Requests -> TokenReq] /\ clock \in Nat /\ Tokens!Idle.at = "idle"
      /\ DOMAIN flight \subseteq Windows
  <2>1. clock \in Nat
    BY TokensAssumption DEF Quiet, TokensAssumption
  <2>2. Tokens!Idle.at = "idle"
    BY DEF Tokens!Idle
  <2>3. QED BY <2>1, <2>2 DEF PullsInv, PullsTyped
<1>1. CASE Tokens!Hit(r, w)
  BY <1>1 DEF Tokens!Hit, Tokens!vars, PullsInv, PullsTyped, Flights, GoodIsCached, Tokens!Pulling,
              Tokens!Following, Quiet, Running, Tokens!Open
<1>2. ASSUME NEW q \in TokenReq, req[r] = Tokens!Idle, req' = [req EXCEPT ![r] = q],
             q.at \in {"follows", "begins"}, q.win = w, q.day = 0,
             UNCHANGED <<clock, pulled, breaker, good, late>>,
             \/ q.at = "follows" /\ w \in DOMAIN flight /\ flight' = flight
             \/ q.at = "begins" /\ w \notin DOMAIN flight /\ flight' = Tokens!With(flight, w, r)
      PROVE  TokensInv'
  <2>1. req' \in [Requests -> TokenReq] /\ req'[r] = q /\ \A x \in Requests \ {r} : req'[x] = req[x]
    BY <1>0, <1>2
  <2>2. Running' = Running
    BY <1>0, <1>2, <2>1 DEF Running
  <2>3. Cardinality(Running)' = Cardinality(Running)
    BY <2>2
  <2>4. Quiet'
    BY <1>2, <2>3 DEF Quiet, Tokens!Open
  <2>5. /\ DOMAIN flight' \subseteq Windows /\ w \in DOMAIN flight'
        /\ \A x \in DOMAIN flight : x \in DOMAIN flight' /\ flight'[x] = flight[x]
        /\ q.at = "begins" => flight'[w] = r
        /\ \A x \in DOMAIN flight' : x \in DOMAIN flight \/ (x = w /\ q.at = "begins")
    BY <1>0, <1>2 DEF Tokens!With
  <2>6. PullsTyped'
    BY <1>2, <2>1, <2>5, TokensAssumption DEF PullsInv, PullsTyped, TokensAssumption
  <2>7. /\ r \notin Tokens!Pulling /\ r \notin Tokens!Following
        /\ Tokens!Pulling' = IF q.at = "begins" THEN Tokens!Pulling \cup {r} ELSE Tokens!Pulling
        /\ Tokens!Following' = IF q.at = "begins" THEN Tokens!Following ELSE Tokens!Following \cup {r}
    BY <1>0, <1>2, <2>1 DEF Tokens!Pulling, Tokens!Following
  <2>8. \A x \in Tokens!Pulling \cup Tokens!Following : req'[x] = req[x]
    BY <2>1, <2>7 DEF Tokens!Pulling, Tokens!Following
  <2>9. Flights'
    <3>1. ASSUME NEW x \in DOMAIN flight'
          PROVE  flight'[x] \in Tokens!Pulling' /\ req'[flight'[x]].win = x
      <4>1. CASE x \in DOMAIN flight
        <5>1. flight[x] \in Tokens!Pulling /\ req[flight[x]].win = x /\ flight'[x] = flight[x]
          BY <2>5, <4>1 DEF PullsInv, Flights
        <5>2. QED BY <2>7, <2>8, <5>1
      <4>2. CASE x = w /\ q.at = "begins"
        BY <1>2, <2>1, <2>5, <2>7, <4>2
      <4>3. QED BY <2>5, <3>1, <4>1, <4>2
    <3>2. ASSUME NEW x \in Tokens!Pulling'
          PROVE  req'[x].win \in DOMAIN flight' /\ flight'[req'[x].win] = x
      <4>1. CASE x \in Tokens!Pulling
        <5>1. req[x].win \in DOMAIN flight /\ flight[req[x].win] = x
          BY <4>1 DEF PullsInv, Flights
        <5>2. QED BY <2>5, <2>8, <4>1, <5>1
      <4>2. CASE x = r /\ q.at = "begins"
        BY <1>2, <2>1, <2>5, <4>2
      <4>3. QED BY <2>7, <3>2, <4>1, <4>2
    <3>3. ASSUME NEW x \in Tokens!Following' PROVE req'[x].win \in DOMAIN flight'
      <4>1. CASE x \in Tokens!Following
        <5>1. req[x].win \in DOMAIN flight
          BY <4>1 DEF PullsInv, Flights
        <5>2. QED BY <2>5, <2>8, <4>1, <5>1
      <4>2. CASE x = r
        BY <1>2, <2>1, <2>5, <4>2
      <4>3. QED BY <2>7, <3>3, <4>1, <4>2
    <3>4. QED BY <3>1, <3>2, <3>3 DEF Flights
  <2>10. GoodIsCached'
    BY <1>2 DEF PullsInv, GoodIsCached
  <2>11. QED BY <2>4, <2>6, <2>9, <2>10 DEF PullsInv
<1>3. CASE Tokens!Follow(r, w)
  <2> DEFINE q == [Tokens!Idle EXCEPT !.at = "follows", !.win = w]
  <2> DEFINE q1 == [Tokens!Idle EXCEPT !.at = "follows"]
  <2>1. q1 \in TokenReq /\ q1.at = "follows" /\ q1.day = 0
    BY DEF Tokens!Idle, TokenReq
  <2>5. q = [q1 EXCEPT !.win = w]
    OBVIOUS
  <2> HIDE DEF q, q1
  <2>2. q \in TokenReq /\ q.at = "follows" /\ q.win = w /\ q.day = 0
    BY <2>1, <2>5 DEF TokenReq
  <2>3. /\ req[r] = Tokens!Idle /\ req' = [req EXCEPT ![r] = q] /\ w \in DOMAIN flight
        /\ UNCHANGED <<clock, pulled, flight, breaker, good, late>>
    BY <1>3 DEF Tokens!Follow, Tokens!Led, q
  <2>4. QED BY <1>2, <2>2, <2>3
<1>4. CASE Tokens!Lead(r, w)
  <2> DEFINE q == [at |-> "begins", win |-> w, since |-> clock, day |-> 0, ok |-> FALSE]
  <2>1. q \in TokenReq /\ q.at = "begins" /\ q.win = w /\ q.day = 0
    BY <1>0 DEF TokenReq
  <2>2. /\ req[r] = Tokens!Idle /\ req' = [req EXCEPT ![r] = q] /\ w \notin DOMAIN flight
        /\ flight' = Tokens!With(flight, w, r)
        /\ UNCHANGED <<clock, pulled, breaker, good, late>>
    BY <1>4 DEF Tokens!Lead, Tokens!Led
  <2> HIDE DEF q
  <2>3. QED BY <1>2, <2>1, <2>2
<1> QED
  BY <1>1, <1>3, <1>4

\* A pull that ends, or goes on, without a failure.
LEMMA TokensQuieter ==
  ASSUME TokensInv, Running' \subseteq Running, UNCHANGED <<clock, breaker, late>>
  PROVE  Quiet'
<1>1. Cardinality(Running') \in Nat /\ Cardinality(Running') <= Cardinality(Running)
      /\ Cardinality(Running) \in Nat /\ Cardinality(Requests) \in Nat
  BY RequestsCounted DEF Running
<1> DEFINE n == Cardinality(Running)
<1>2. n' = Cardinality(Running')
  OBVIOUS
<1> HIDE DEF n
<1>3. n' \in Nat /\ n' <= n /\ n \in Nat
  BY <1>1, <1>2 DEF n
<1>4. clock \in Nat /\ breaker.until \in Nat /\ late \in Nat
      /\ (clock < breaker.until => late + n < Cardinality(Requests))
      /\ (~(clock < breaker.until) => late = 0)
  BY DEF TokensInv, Quiet, Tokens!Open, n
<1>5. clock < breaker.until => late + n' < Cardinality(Requests)
  BY <1>1, <1>3, <1>4
<1> QED
  BY <1>4, <1>5 DEF TokensInv, Quiet, Tokens!Open, n

\* The head of a pull, a day that came back, one that was parsed, the time out.
LEMMA TokensPull ==
  ASSUME TokensInv, NEW r \in Requests,
         \/ \E blocked \in BOOLEAN : Tokens!Begin(r, blocked)
         \/ Tokens!DayOk(r) \/ Tokens!DayParsed(r) \/ Tokens!TimeOut(r)
  PROVE  TokensInv'
<1> USE DEF TokensInv
<1>0. req \in [Requests -> TokenReq] /\ Tokens!Idle.at = "idle"
      /\ (req[r].at # "idle" => req[r].win \in Windows /\ req[r].day < Days)
  <2>1. Tokens!Idle.at = "idle"
    BY DEF Tokens!Idle
  <2>2. QED BY <2>1 DEF PullsInv, PullsTyped
<1>1. ASSUME NEW blocked \in BOOLEAN, Tokens!Begin(r, blocked) PROVE TokensInv'
  <2>1. r \in Tokens!Pulling /\ r \notin Running /\ UNCHANGED <<clock, breaker, late>>
    BY <1>1 DEF Tokens!Begin, Tokens!Pulling, Running
  <2>2. CASE blocked \/ Tokens!Open
    <3>1. Tokens!Finish(r, FALSE)
      BY <1>1, <2>2 DEF Tokens!Begin
    <3>2. PullsInv' /\ Running' = Running \ {r}
      BY <2>1, <3>1, PullsFinish
    <3>3. QED BY <2>1, <3>2, TokensQuieter
  <2>3. CASE ~(blocked \/ Tokens!Open)
    <3> DEFINE q == [req[r] EXCEPT !.at = "fetches"]
    <3>1. req' = [req EXCEPT ![r] = q] /\ UNCHANGED <<pulled, flight, good>>
      BY <1>0, <1>1, <2>3 DEF Tokens!Begin
    <3>2. req[r].at = "begins"
      BY <1>1 DEF Tokens!Begin
    <3>3. q \in TokenReq /\ q.at = "fetches" /\ q.win = req[r].win /\ q.day = req[r].day
      BY <1>0 DEF TokenReq
    <3> HIDE DEF q
    <3>4. PullsInv' /\ Running' = Running \cup {r}
      BY <1>0, <2>1, <3>1, <3>2, <3>3, PullsGoOn
    <3>5. Quiet'
      BY <2>1, <2>3 DEF Quiet, Tokens!Open
    <3>6. QED BY <3>4, <3>5
  <2>4. QED BY <2>2, <2>3
<1>2. CASE Tokens!DayOk(r)
  <2> DEFINE q == [req[r] EXCEPT !.at = "parses"]
  <2>1. /\ req' = [req EXCEPT ![r] = q] /\ UNCHANGED <<clock, pulled, flight, good>>
        /\ req[r].at = "fetches" /\ breaker' = [fails |-> 0, until |-> 0] /\ late' = 0
    BY <1>0, <1>2 DEF Tokens!DayOk
  <2>2. q \in TokenReq /\ q.at = "parses" /\ q.win = req[r].win /\ q.day = req[r].day
    BY <1>0 DEF TokenReq
  <2>3. r \in Tokens!Pulling
    BY <2>1 DEF Tokens!Pulling
  <2> HIDE DEF q
  <2>4. PullsInv'
    BY <1>0, <2>1, <2>2, <2>3, PullsGoOn
  <2>5. Quiet'
    BY <2>1, TokensAssumption DEF Quiet, Tokens!Open, TokensAssumption
  <2>6. QED BY <2>4, <2>5
<1>3. CASE Tokens!DayParsed(r)
  <2>1. r \in Running /\ Tokens!Continue(r, TRUE) /\ UNCHANGED <<clock, breaker, late>>
    BY <1>3 DEF Tokens!DayParsed, Running
  <2>2. PullsInv' /\ Running' \subseteq Running
    BY <2>1, PullsContinue
  <2>3. QED BY <2>1, <2>2, TokensQuieter
<1>4. CASE Tokens!TimeOut(r)
  <2>1. r \in Tokens!Pulling /\ Tokens!Finish(r, FALSE) /\ UNCHANGED <<clock, breaker, late>>
    BY <1>4 DEF Tokens!TimeOut
  <2>2. PullsInv' /\ Running' = Running \ {r}
    BY <2>1, PullsFinish
  <2>3. QED BY <2>1, <2>2, TokensQuieter
<1> QED
  BY <1>1, <1>2, <1>3, <1>4

\* A failed day while the breaker is open ends its pull; one that opens it ends its own.
LEMMA TokensDayFails ==
  ASSUME TokensInv, NEW r \in Requests, Tokens!DayFails(r)
  PROVE  TokensInv'
<1> USE DEF TokensInv
<1>1. /\ req[r].at = "fetches" /\ clock' = clock /\ late' = IF Tokens!Open THEN late + 1 ELSE 0
      /\ breaker' = [fails |-> IF breaker.fails < CbThreshold THEN breaker.fails + 1 ELSE breaker.fails,
                     until |-> IF breaker.fails + 1 >= CbThreshold THEN clock + CbCooldown
                               ELSE breaker.until]
  BY DEF Tokens!DayFails
<1>2. r \in Running /\ r \in Tokens!Pulling /\ req[r].ok \in BOOLEAN
  BY <1>1 DEF Running, Tokens!Pulling, PullsInv, PullsTyped, TokenReq
<1>3. clock \in Nat /\ late \in Nat /\ breaker.fails \in Nat /\ breaker.until \in Nat
      /\ CbThreshold \in Nat /\ CbCooldown \in Nat /\ breaker.until <= clock + CbCooldown
  BY TokensAssumption DEF Quiet, TokensAssumption
<1>4. /\ breaker' \in [fails : Nat, until : Nat] /\ breaker'.until <= clock + CbCooldown
      /\ Tokens!Open => clock < breaker'.until
      /\ late' \in Nat
  BY <1>1, <1>3 DEF Tokens!Open
<1>5. CASE clock < breaker'.until
  <2>1. Tokens!Finish(r, req[r].ok)
    BY <1>1, <1>5 DEF Tokens!DayFails, Tokens!Stop
  <2>2. PullsInv' /\ Running' = Running \ {r}
    BY <1>2, <2>1, PullsFinish
  <2>3. /\ Cardinality(Running') = Cardinality(Running) - 1
        /\ Cardinality(Running) \in Nat /\ Cardinality(Requests) \in Nat
        /\ Cardinality(Running) <= Cardinality(Requests)
    BY <1>2, <2>2, RequestsCounted DEF Running
  <2>4. Tokens!Open => late + Cardinality(Running) < Cardinality(Requests)
    BY DEF Quiet
  <2>5. late' + Cardinality(Running') < Cardinality(Requests)
    BY <1>1, <1>3, <2>3, <2>4
  <2>6. Quiet'
    BY <1>1, <1>4, <1>5, <2>5 DEF Quiet, Tokens!Open
  <2>7. QED BY <2>2, <2>6
<1>6. CASE ~(clock < breaker'.until)
  <2>1. Tokens!Continue(r, req[r].ok)
    BY <1>1, <1>6 DEF Tokens!DayFails, Tokens!Stop
  <2>2. PullsInv'
    BY <1>2, <2>1, PullsContinue
  <2>3. Quiet'
    BY <1>1, <1>4, <1>6 DEF Quiet, Tokens!Open
  <2>4. QED BY <2>2, <2>3
<1> QED
  BY <1>5, <1>6

LEMMA TokensNext == TokensInv /\ [Tokens!Next]_(Tokens!vars) => TokensInv'
<1> SUFFICES ASSUME TokensInv, [Tokens!Next]_(Tokens!vars) PROVE TokensInv'
  OBVIOUS
<1>1. CASE Tokens!Tick
  BY <1>1, TokensTick
<1>2. ASSUME NEW r \in Requests, NEW w \in Windows,
             Tokens!Hit(r, w) \/ Tokens!Follow(r, w) \/ Tokens!Lead(r, w)
      PROVE  TokensInv'
  BY <1>2, TokensRequest
<1>3. ASSUME NEW r \in Requests, Tokens!Pull(r) PROVE TokensInv'
  BY <1>3, TokensPull, TokensDayFails DEF Tokens!Pull
<1>4. CASE UNCHANGED Tokens!vars
  BY <1>4 DEF Tokens!vars, TokensInv, PullsInv, PullsTyped, Flights, GoodIsCached, Tokens!Pulling,
              Tokens!Following, Quiet, Running, Tokens!Open
<1> QED
  BY <1>1, <1>2, <1>3, <1>4 DEF Tokens!Next

\* What the invariant says of the followers, of the breaker and of a new pull.
LEMMA TokensShow ==
  ASSUME TokensInv
  PROVE  /\ Tokens!TypeOK /\ Tokens!OneFlight /\ Tokens!OpenMeansQuiet
         /\ \A r \in Requests, w \in Windows :
               Tokens!Lead(r, w) => w \notin DOMAIN good \/ clock - good[w] >= TokenTtl
<1> USE DEF TokensInv
<1>1. Tokens!TypeOK
  BY CardinalityIs
     DEF Tokens!TypeOK, PullsInv, PullsTyped, Quiet, Flights, Tokens!Pulling, Tokens!Idle
<1>2. Tokens!OneFlight
  BY DEF Tokens!OneFlight, PullsInv, Flights
<1>3. Tokens!OpenMeansQuiet
  <2>1. Cardinality(Requests) \in Nat /\ Cardinality(Requests) # 0 /\ Cardinality(Running) \in Nat
    <3>1. IsFiniteSet(Requests) /\ Requests # {}
      BY TokensAssumption DEF TokensAssumption
    <3>2. Cardinality(Requests) # 0
      BY <3>1, FS_EmptySet
    <3>3. QED BY <3>2, RequestsCounted DEF Running
  <2>2. late < Cardinality(Requests)
    BY <2>1 DEF Quiet
  <2>3. QED BY <2>2, CardinalityIs DEF Tokens!OpenMeansQuiet
<1>4. ASSUME NEW r \in Requests, NEW w \in Windows, Tokens!Lead(r, w), w \in DOMAIN good
      PROVE  clock - good[w] >= TokenTtl
  <2>1. w \in DOMAIN pulled /\ good[w] = pulled[w] /\ pulled[w] \in Nat /\ clock \in Nat
        /\ TokenTtl \in Nat
    BY <1>4, TokensAssumption DEF PullsInv, PullsTyped, GoodIsCached, Quiet, TokensAssumption
  <2>2. ~(clock - pulled[w] < TokenTtl)
    BY <1>4, <2>1 DEF Tokens!Lead, Tokens!Fresh
  <2>3. QED BY <2>1, <2>2
<1> QED
  BY <1>1, <1>2, <1>3, <1>4

\* One pull of a window at a time, that whoever follows waits for; after the breaker
\* opens each pull fails once more at most; a good answer is not pulled again before
\* the TTL (app.py:3014-3019, 3106-3128; litellm.py:1980-1985).
THEOREM TokensPartHolds == PartSpec => TokensPulledOnce
<1> DEFINE Spaced == \A r \in Requests, w \in Windows :
                        Tokens!Lead(r, w) => w \notin DOMAIN good \/ clock - good[w] >= TokenTtl
<1>1. TokensInv => Tokens!TypeOK /\ Tokens!OneFlight /\ Tokens!OpenMeansQuiet
  BY TokensShow
<1>2. TokensInv => Spaced
  BY TokensShow
<1>3. Tokens!Spec => []TokensInv
  BY TokensInit, TokensNext, PTL DEF Tokens!Spec
<1>4. Tokens!Spec => [](part = "tokens" => Tokens!TypeOK /\ Tokens!OneFlight /\ Tokens!OpenMeansQuiet)
  BY <1>1, <1>3, PTL
<1>5. Tokens!Spec => [][Spaced]_(Tokens!vars)
  BY <1>2, <1>3, PTL DEF Tokens!Spec
<1> QED
  BY <1>4, <1>5, PartsRun DEF TokensPulledOnce, Tokens!PullsSpaced

-----------------------------------------------------------------------------
(***************************************************************************)
(* The board of keys.  Before the table is read nothing is cached and      *)
(* nobody asks; from then on the cache only gains, and says what its rows  *)
(* say, unless the process failed to read them.                            *)
(***************************************************************************)
\* What i says of a key, j says something of too.
Says(i, j) == (i.team # "" => j.team # "") /\ (i.name # "" => j.name # "")

BoardInv ==
    /\ Keyboard!TypeOK /\ Keyboard!NamesOnly
    /\ asking = [r \in Requests |-> asking[r]]
    /\ ~loaded => DOMAIN cache = {} /\ \A r \in Requests : asking[r] = Keyboard!Idle
    /\ ~loaded => ~misread
    /\ ~misread => \A k \in Keys : Says(Keyboard!Stored(k), Keyboard!Said(k))

\* What f says of a key is still said in g.
Gains(f, g) == \A k \in Keys : Says(Keyboard!At(f, k), Keyboard!At(g, k))

LEMMA PartialIs ==
  ASSUME NEW S, NEW T, NEW f
  PROVE  f \in Keyboard!PartialOn(S, T) <=>
            /\ f = [x \in DOMAIN f |-> f[x]] /\ DOMAIN f \subseteq S
            /\ \A x \in DOMAIN f : f[x] \in T
<1>1. ASSUME f \in Keyboard!PartialOn(S, T)
      PROVE  /\ f = [x \in DOMAIN f |-> f[x]] /\ DOMAIN f \subseteq S
             /\ \A x \in DOMAIN f : f[x] \in T
  <2>1. PICK D \in SUBSET S : f \in [D -> T]
    BY <1>1 DEF Keyboard!PartialOn
  <2>2. QED BY <2>1
<1>2. ASSUME f = [x \in DOMAIN f |-> f[x]], DOMAIN f \subseteq S, \A x \in DOMAIN f : f[x] \in T
      PROVE  f \in Keyboard!PartialOn(S, T)
  <2>1. f \in [DOMAIN f -> T] /\ DOMAIN f \in SUBSET S
    BY <1>2
  <2>2. QED BY <2>1 DEF Keyboard!PartialOn
<1> QED
  BY <1>1, <1>2

LEMMA CleanedIsInfo ==
  ASSUME NEW i \in Keyboard!Answer
  PROVE  Keyboard!Cleaned(i) \in Keyboard!Info
<1>1. i.team \in Teams \cup {"", Keyboard!RawId} /\ i.name \in Users \cup {"", Keyboard!RawId}
  BY DEF Keyboard!Answer
<1> QED
  BY <1>1 DEF Keyboard!Cleaned, Keyboard!Info

LEMMA InfoIsAnswer ==
  /\ Keyboard!Info \subseteq Keyboard!Answer /\ Keyboard!Info \subseteq Keyboard!Rows
  /\ Keyboard!Rows \subseteq Keyboard!Answer /\ Keyboard!Blank \in Keyboard!Info
BY DEF Keyboard!Info, Keyboard!Answer, Keyboard!Rows, Keyboard!Blank

\* Folding in an answer adds names and takes none away.
LEMMA FoldedGains ==
  ASSUME NEW c \in Keyboard!PartialOn(Keys, Keyboard!Info), NEW s \in Keyboard!Lives
  PROVE  /\ Keyboard!Folded(c, s) \in Keyboard!PartialOn(Keys, Keyboard!Info)
         /\ Gains(c, Keyboard!Folded(c, s))
<1> DEFINE g == Keyboard!Folded(c, s)
<1>1. /\ DOMAIN c \subseteq Keys /\ \A k \in DOMAIN c : c[k] \in Keyboard!Info
      /\ DOMAIN s \subseteq Keys /\ \A k \in DOMAIN s : s[k] \in Keyboard!Answer
  BY PartialIs DEF Keyboard!Lives
<1>2. /\ DOMAIN g = DOMAIN c \cup DOMAIN s /\ g = [k \in DOMAIN g |-> g[k]]
      /\ \A k \in DOMAIN s : g[k] = Keyboard!Merged(Keyboard!At(c, k), Keyboard!Cleaned(s[k]))
      /\ \A k \in DOMAIN c \ DOMAIN s : g[k] = c[k]
  BY DEF Keyboard!Folded
<1> HIDE DEF g
<1>3. ASSUME NEW old \in Keyboard!Info, NEW new \in Keyboard!Info
      PROVE  Keyboard!Merged(old, new) \in Keyboard!Info /\ Says(old, Keyboard!Merged(old, new))
  BY DEF Keyboard!Merged, Keyboard!Info, Says
<1>4. \A k \in DOMAIN s : Keyboard!Cleaned(s[k]) \in Keyboard!Info /\ Keyboard!At(c, k) \in Keyboard!Info
  BY <1>1, CleanedIsInfo, InfoIsAnswer DEF Keyboard!At
<1>5. \A k \in DOMAIN g : g[k] \in Keyboard!Info
  BY <1>1, <1>2, <1>3, <1>4
<1>6. ASSUME NEW k \in Keys
      PROVE  Says(Keyboard!At(c, k), Keyboard!At(g, k))
  <2>1. CASE k \in DOMAIN s
    <3>1. Keyboard!At(g, k) = g[k]
      BY <1>2, <2>1 DEF Keyboard!At
    <3>2. /\ g[k] = Keyboard!Merged(Keyboard!At(c, k), Keyboard!Cleaned(s[k]))
          /\ Keyboard!At(c, k) \in Keyboard!Info /\ Keyboard!Cleaned(s[k]) \in Keyboard!Info
      BY <1>2, <1>4, <2>1
    <3>3. QED BY <1>3, <3>1, <3>2
  <2>2. CASE k \in DOMAIN c \ DOMAIN s
    BY <1>2, <2>2 DEF Keyboard!At, Says
  <2>3. CASE k \notin DOMAIN c \cup DOMAIN s
    BY <1>2, <2>3 DEF Keyboard!At, Says
  <2>4. QED BY <2>1, <2>2, <2>3
<1>7. g \in Keyboard!PartialOn(Keys, Keyboard!Info)
  BY <1>1, <1>2, <1>5, PartialIs
<1> QED
  BY <1>6, <1>7 DEF Gains, g

\* A row whose team is replaced.
LEMMA TeamReplaced ==
  ASSUME NEW i \in Keyboard!Rows, NEW t \in Teams \cup {"", Keyboard!RawId}
  PROVE  [i EXCEPT !.team = t] \in Keyboard!Rows /\ [i EXCEPT !.team = t].team = t
         /\ [i EXCEPT !.team = t].name = i.name
BY DEF Keyboard!Rows

LEMMA RowsAgree ==
  ASSUME NEW T, NEW U, NEW i \in [team : T, name : U], NEW j \in [team : T, name : U],
         i.team = j.team, i.name = j.name
  PROVE  i = j
OBVIOUS

\* The cache as a request finds it says what the board said, if the table was read or
\* there was nothing to read.
LEMMA SeededSays ==
  ASSUME BoardInv, NEW read \in BOOLEAN
  PROVE  /\ Keyboard!Seeded(read) \in Keyboard!PartialOn(Keys, Keyboard!Info)
         /\ loaded \/ read \/ DOMAIN detected = {} =>
               \A k \in Keys : Says(Keyboard!Said(k), Keyboard!At(Keyboard!Seeded(read), k))
<1>1. /\ cache \in Keyboard!PartialOn(Keys, Keyboard!Answer)
      /\ detected \in Keyboard!PartialOn(Keys, Keyboard!Rows)
      /\ \A k \in DOMAIN cache : cache[k] \in Keyboard!Info
  BY DEF BoardInv, Keyboard!TypeOK, Keyboard!NamesOnly
<1>2. cache \in Keyboard!PartialOn(Keys, Keyboard!Info)
  BY <1>1, PartialIs
<1>3. CASE loaded
  BY <1>2, <1>3 DEF Keyboard!Seeded, Keyboard!Said, Says
<1>4. CASE ~loaded /\ DOMAIN detected = {}
  <2>1. Keyboard!Seeded(read) = cache
    BY <1>4 DEF Keyboard!Seeded
  <2>2. \A k \in Keys : Keyboard!Said(k) = Keyboard!Cleaned(Keyboard!Blank)
    BY <1>4 DEF Keyboard!Said, Keyboard!Stored, Keyboard!At
  <2>3. Keyboard!Cleaned(Keyboard!Blank) = Keyboard!Blank
    BY DEF Keyboard!Cleaned, Keyboard!Blank, Keyboard!RawId
  <2>4. Keyboard!Blank.team = "" /\ Keyboard!Blank.name = ""
    BY DEF Keyboard!Blank
  <2>5. QED BY <1>2, <2>1, <2>2, <2>3, <2>4 DEF Says
<1>5. CASE ~loaded /\ ~read /\ DOMAIN detected # {}
  BY <1>2, <1>5 DEF Keyboard!Seeded
<1>6. CASE ~loaded /\ read /\ DOMAIN detected # {}
  <2> DEFINE g == Keyboard!Seeded(read)
  <2>1. g = [k \in DOMAIN detected |->
                [detected[k] EXCEPT !.team = Keyboard!Cleaned(detected[k]).team]]
    BY <1>6 DEF Keyboard!Seeded
  <2>2. DOMAIN detected \subseteq Keys /\ \A k \in DOMAIN detected : detected[k] \in Keyboard!Rows
    BY <1>1, PartialIs
  <2>3. DOMAIN g = DOMAIN detected /\ g = [k \in DOMAIN g |-> g[k]]
    BY <2>1
  <2>4. ASSUME NEW k \in DOMAIN detected
        PROVE  g[k] \in Keyboard!Info /\ g[k] = Keyboard!Cleaned(detected[k])
    <3> DEFINE i == detected[k]
    <3>1. i \in Keyboard!Rows
      BY <2>2
    <3>2. g[k] = [i EXCEPT !.team = Keyboard!Cleaned(i).team]
      BY <2>1
    <3> HIDE DEF i, g
    <3>3. i.team \in Teams \cup {"", Keyboard!RawId} /\ i.name \in Users \cup {""}
          /\ i = [team |-> i.team, name |-> i.name]
      BY <3>1 DEF Keyboard!Rows
    <3>4. i.name # Keyboard!RawId
      BY <3>3, BoardAssumption DEF BoardAssumption, Keyboard!RawId
    <3>5. Keyboard!Cleaned(i) = [team |-> IF i.team = Keyboard!RawId THEN "" ELSE i.team, name |-> i.name]
      BY <3>4 DEF Keyboard!Cleaned
    <3>6. g[k] = Keyboard!Cleaned(i)
      <4> DEFINE t == Keyboard!Cleaned(i).team
      <4>1. t \in Teams \cup {"", Keyboard!RawId}
        BY <3>3 DEF Keyboard!Cleaned
      <4>2. Keyboard!Cleaned(i) \in Keyboard!Rows /\ Keyboard!Cleaned(i).name = i.name
        <5>1. Keyboard!Cleaned(i).name = i.name
          BY <3>4 DEF Keyboard!Cleaned
        <5>2. QED BY <3>1, <5>1, CleanedIsInfo, InfoIsAnswer
      <4>3. /\ [i EXCEPT !.team = t] \in Keyboard!Rows /\ [i EXCEPT !.team = t].team = t
            /\ [i EXCEPT !.team = t].name = i.name
        BY <3>1, <4>1, TeamReplaced
      <4>4. g[k] \in Keyboard!Rows /\ g[k].team = t /\ g[k].name = i.name
        BY <3>2, <4>3
      <4>5. QED BY <4>2, <4>4, RowsAgree DEF Keyboard!Rows
    <3>7. Keyboard!Cleaned(i) \in Keyboard!Info
      BY <3>1, CleanedIsInfo, InfoIsAnswer
    <3>8. QED BY <3>6, <3>7 DEF i
  <2> HIDE DEF g
  <2>5. g \in Keyboard!PartialOn(Keys, Keyboard!Info)
    BY <2>2, <2>3, <2>4, PartialIs
  <2>6. ASSUME NEW k \in Keys
        PROVE  Says(Keyboard!Said(k), Keyboard!At(g, k))
    <3>1. CASE k \in DOMAIN detected
      <4>1. Keyboard!Said(k) = Keyboard!Cleaned(detected[k]) /\ Keyboard!At(g, k) = g[k]
        BY <1>6, <2>3, <3>1 DEF Keyboard!Said, Keyboard!Stored, Keyboard!At
      <4>2. QED BY <2>4, <3>1, <4>1 DEF Says
    <3>2. CASE k \notin DOMAIN detected
      <4>1. Keyboard!Said(k) = Keyboard!Cleaned(Keyboard!Blank)
        BY <1>6, <3>2 DEF Keyboard!Said, Keyboard!Stored, Keyboard!At
      <4>2. Keyboard!Cleaned(Keyboard!Blank) = Keyboard!Blank
        BY DEF Keyboard!Cleaned, Keyboard!Blank, Keyboard!RawId
      <4>3. Keyboard!Blank.team = "" /\ Keyboard!Blank.name = ""
        BY DEF Keyboard!Blank
      <4>4. QED BY <4>1, <4>2, <4>3 DEF Says
    <3>3. QED BY <3>1, <3>2
  <2>7. QED BY <2>5, <2>6 DEF g
<1> QED
  BY <1>3, <1>4, <1>5, <1>6

\* Whatever is folded in, once or twice, the cache says more than it did, and every row
\* says what it said or what is now known.
LEMMA FoldInGains ==
  ASSUME BoardInv, NEW read \in BOOLEAN, NEW b, b = Keyboard!Seeded(read),
         b \in Keyboard!PartialOn(Keys, Keyboard!Info),
         NEW live0 \in Keyboard!Lives, NEW snap \in Keyboard!Lives,
         Keyboard!FoldIn(read, live0, snap)
  PROVE  /\ cache' \in Keyboard!PartialOn(Keys, Keyboard!Info) /\ Gains(b, cache')
         /\ detected' \in Keyboard!PartialOn(Keys, Keyboard!Rows)
         /\ DOMAIN detected \subseteq DOMAIN detected'
         /\ \A k \in DOMAIN detected' :
               \/ k \in DOMAIN detected /\ detected'[k] = detected[k]
               \/ /\ detected'[k] \in Keyboard!Info /\ Says(Keyboard!At(b, k), detected'[k])
                  /\ Says(detected'[k], Keyboard!At(cache', k))
<1> DEFINE mid == Keyboard!Folded(b, live0)
<1>1. cache' = Keyboard!Folded(mid, snap)
  BY DEF Keyboard!FoldIn
<1>2. /\ detected' \in Keyboard!PartialOn(Keys, Keyboard!Rows)
      /\ DOMAIN detected \subseteq DOMAIN detected'
      /\ \A k \in DOMAIN detected' :
            \/ k \in DOMAIN detected /\ detected'[k] = detected[k]
            \/ detected'[k] \in {Keyboard!At(mid, k), Keyboard!At(cache', k)}
  BY <1>1 DEF Keyboard!FoldIn, Keyboard!Persist
<1>3. mid \in Keyboard!PartialOn(Keys, Keyboard!Info) /\ Gains(b, mid)
  BY FoldedGains
<1> HIDE DEF mid
<1>4. cache' \in Keyboard!PartialOn(Keys, Keyboard!Info) /\ Gains(mid, cache')
  BY <1>1, <1>3, FoldedGains
<1>5. Gains(b, cache')
  BY <1>3, <1>4 DEF Gains, Says
<1>6. ASSUME NEW f \in Keyboard!PartialOn(Keys, Keyboard!Info), NEW k
      PROVE  Keyboard!At(f, k) \in Keyboard!Info
  <2>1. \A x \in DOMAIN f : f[x] \in Keyboard!Info
    BY PartialIs
  <2>2. QED BY <2>1, InfoIsAnswer DEF Keyboard!At
<1>7. ASSUME NEW k \in DOMAIN detected', detected'[k] \in {Keyboard!At(mid, k), Keyboard!At(cache', k)}
      PROVE  /\ detected'[k] \in Keyboard!Info /\ Says(Keyboard!At(b, k), detected'[k])
             /\ Says(detected'[k], Keyboard!At(cache', k))
  <2>1. k \in Keys
    BY <1>2, <1>7, PartialIs
  <2>2. /\ Says(Keyboard!At(b, k), Keyboard!At(mid, k)) /\ Says(Keyboard!At(mid, k), Keyboard!At(cache', k))
        /\ Says(Keyboard!At(b, k), Keyboard!At(cache', k))
    BY <1>3, <1>4, <1>5, <2>1 DEF Gains
  <2>3. Says(Keyboard!At(cache', k), Keyboard!At(cache', k))
    BY DEF Says
  <2>4. QED BY <1>3, <1>4, <1>6, <1>7, <2>2, <2>3
<1> QED
  BY <1>2, <1>4, <1>5, <1>7

LEMMA InfoCached ==
  ASSUME NEW f \in Keyboard!PartialOn(Keys, Keyboard!Info)
  PROVE  /\ f \in Keyboard!PartialOn(Keys, Keyboard!Answer)
         /\ \A k \in DOMAIN f : f[k] \in Keyboard!Info
<1>1. /\ f = [x \in DOMAIN f |-> f[x]] /\ DOMAIN f \subseteq Keys
      /\ \A x \in DOMAIN f : f[x] \in Keyboard!Info
  BY PartialIs
<1> QED
  BY <1>1, PartialIs, InfoIsAnswer

LEMMA NoAnswer == << >> \in Keyboard!Lives
<1>1. << >> = [x \in DOMAIN << >> |-> << >>[x]] /\ DOMAIN << >> = {}
  OBVIOUS
<1> QED
  BY <1>1, PartialIs DEF Keyboard!Lives

LEMMA BoardInit == Keyboard!Init => BoardInv
<1> SUFFICES ASSUME Keyboard!Init PROVE BoardInv
  OBVIOUS
<1>1. /\ loaded = FALSE /\ cache = << >> /\ detected \in Keyboard!PartialOn(Keys, Keyboard!Rows)
      /\ teamOvr = << >> /\ userOvr = << >> /\ asking = [r \in Requests |-> Keyboard!Idle]
      /\ misread = FALSE
  BY DEF Keyboard!Init
<1>2. << >> = [x \in DOMAIN << >> |-> << >>[x]] /\ DOMAIN << >> = {}
  OBVIOUS
<1>3. \A T : << >> \in Keyboard!PartialOn(Keys, T)
  BY <1>2, PartialIs
<1>4. \A k \in Keys : Says(Keyboard!Stored(k), Keyboard!Said(k))
  BY <1>1 DEF Keyboard!Said, Says
<1> QED
  BY <1>1, <1>2, <1>3, <1>4 DEF BoardInv, Keyboard!TypeOK, Keyboard!NamesOnly

\* An override is of a key that there is.
LEMMA OverrideTyped ==
  ASSUME NEW T, NEW f \in Keyboard!PartialOn(Keys, T), NEW k
  PROVE  /\ Keyboard!Without(f, k) \in Keyboard!PartialOn(Keys, T)
         /\ \A v \in T : k \in Keys => Keyboard!With(f, k, v) \in Keyboard!PartialOn(Keys, T)
<1>1. DOMAIN f \subseteq Keys /\ \A x \in DOMAIN f : f[x] \in T
  BY PartialIs
<1>2. Keyboard!Without(f, k) \in Keyboard!PartialOn(Keys, T)
  <2> DEFINE g == Keyboard!Without(f, k)
  <2>1. DOMAIN g = DOMAIN f \ {k} /\ g = [x \in DOMAIN g |-> g[x]] /\ \A x \in DOMAIN g : g[x] = f[x]
    BY DEF Keyboard!Without
  <2> HIDE DEF g
  <2>2. g \in Keyboard!PartialOn(Keys, T)
    BY <1>1, <2>1, PartialIs
  <2>3. QED BY <2>2 DEF g
<1>3. ASSUME NEW v \in T, k \in Keys PROVE Keyboard!With(f, k, v) \in Keyboard!PartialOn(Keys, T)
  <2> DEFINE g == Keyboard!With(f, k, v)
  <2>1. /\ DOMAIN g = DOMAIN f \cup {k} /\ g = [x \in DOMAIN g |-> g[x]]
        /\ \A x \in DOMAIN g : g[x] = IF x = k THEN v ELSE f[x]
    BY DEF Keyboard!With
  <2> HIDE DEF g
  <2>2. g \in Keyboard!PartialOn(Keys, T)
    BY <1>1, <1>3, <2>1, PartialIs
  <2>3. QED BY <2>2 DEF g
<1> QED
  BY <1>2, <1>3

\* A row that holds no identifier.
LEMMA CleanedIsSame ==
  ASSUME NEW i \in Keyboard!Info
  PROVE  Keyboard!Cleaned(i) = i
<1>1. i.team \in Teams \cup {""} /\ i.name \in Users \cup {""} /\ i = [team |-> i.team, name |-> i.name]
  BY DEF Keyboard!Info
<1>2. i.team # Keyboard!RawId /\ i.name # Keyboard!RawId
  BY <1>1, BoardAssumption DEF BoardAssumption, Keyboard!RawId
<1> QED
  BY <1>1, <1>2 DEF Keyboard!Cleaned

\* The board after an action that folds something in.
LEMMA BoardFolds ==
  ASSUME BoardInv, NEW read \in Keyboard!Reads,
         NEW live0 \in Keyboard!Lives, NEW snap \in Keyboard!Lives,
         Keyboard!FoldIn(read, live0, snap), Keyboard!Open(read),
         teamOvr' \in Keyboard!PartialOn(Keys, Teams), userOvr' = userOvr,
         asking' = [r \in Requests |-> asking'[r]]
  PROVE  /\ BoardInv'
         /\ (misread' => misread) => \A k \in Keys : Says(Keyboard!Said(k), Keyboard!Said(k)')
         /\ ~misread' => \A k \in Keys : Says(Keyboard!Stored(k), Keyboard!Stored(k)')
<1> DEFINE b == Keyboard!Seeded(read)
<1>1. /\ read \in BOOLEAN /\ loaded' = TRUE /\ loaded \in BOOLEAN /\ misread \in BOOLEAN
      /\ misread' = (misread \/ (~read /\ DOMAIN detected # {}))
      /\ (~loaded => ~misread) /\ (loaded => read)
  BY DEF BoardInv, Keyboard!TypeOK, Keyboard!Reads, Keyboard!Open
<1>2. /\ b \in Keyboard!PartialOn(Keys, Keyboard!Info)
      /\ loaded \/ read \/ DOMAIN detected = {} =>
            \A k \in Keys : Says(Keyboard!Said(k), Keyboard!At(b, k))
  BY <1>1, SeededSays
<1>3. /\ cache' \in Keyboard!PartialOn(Keys, Keyboard!Info) /\ Gains(b, cache')
      /\ detected' \in Keyboard!PartialOn(Keys, Keyboard!Rows)
      /\ DOMAIN detected \subseteq DOMAIN detected'
      /\ \A k \in DOMAIN detected' :
            \/ k \in DOMAIN detected /\ detected'[k] = detected[k]
            \/ /\ detected'[k] \in Keyboard!Info /\ Says(Keyboard!At(b, k), detected'[k])
               /\ Says(detected'[k], Keyboard!At(cache', k))
  BY <1>1, <1>2, FoldInGains
<1> HIDE DEF b
<1>4. \A k \in DOMAIN cache' : cache'[k] \in Keyboard!Info
  BY <1>3, InfoCached
<1>5. cache' \in Keyboard!PartialOn(Keys, Keyboard!Answer)
  BY <1>3, InfoCached
<1>6. \A k \in Keys : /\ (Keyboard!Said(k))' = Keyboard!At(cache', k)
                      /\ (Keyboard!Stored(k))' = Keyboard!Cleaned(Keyboard!At(detected', k))
  BY <1>1 DEF Keyboard!Said, Keyboard!Stored, Keyboard!At, Keyboard!Cleaned
<1>7. ASSUME misread' => misread, NEW k \in Keys
      PROVE  Says(Keyboard!Said(k), Keyboard!At(b, k)) /\ Says(Keyboard!Said(k), Keyboard!Said(k)')
  <2>1. loaded \/ read \/ DOMAIN detected = {}
    BY <1>1, <1>7
  <2>2. Says(Keyboard!Said(k), Keyboard!At(b, k))
    BY <1>2, <2>1
  <2>3. Says(Keyboard!At(b, k), Keyboard!At(cache', k))
    BY <1>3 DEF Gains
  <2>4. Says(Keyboard!Said(k), Keyboard!At(cache', k))
    BY <2>2, <2>3 DEF Says
  <2>5. QED BY <1>6, <2>2, <2>4
<1>8. ASSUME ~misread', NEW k \in Keys
      PROVE  Says(Keyboard!Stored(k), Keyboard!Stored(k)') /\ Says(Keyboard!Stored(k)', Keyboard!Said(k)')
  <2>1. ~misread
    BY <1>1, <1>8
  <2>2. Says(Keyboard!Stored(k), Keyboard!Said(k)) /\ Says(Keyboard!Said(k), Keyboard!At(b, k))
    BY <1>7, <1>8, <2>1 DEF BoardInv
  <2>3. Says(Keyboard!Stored(k), Keyboard!At(b, k)) /\ Says(Keyboard!At(b, k), Keyboard!At(cache', k))
    BY <1>3, <2>2 DEF Gains, Says
  <2>4. CASE k \notin DOMAIN detected'
    <3>1. k \notin DOMAIN detected
      BY <1>3, <2>4
    <3>2. Keyboard!Stored(k) = Keyboard!Cleaned(Keyboard!Blank)
          /\ (Keyboard!Stored(k))' = Keyboard!Cleaned(Keyboard!Blank)
      BY <1>6, <2>4, <3>1 DEF Keyboard!Stored, Keyboard!At
    <3>3. Keyboard!Cleaned(Keyboard!Blank) = Keyboard!Blank
      BY CleanedIsSame, InfoIsAnswer
    <3>4. Keyboard!Blank.team = "" /\ Keyboard!Blank.name = ""
      BY DEF Keyboard!Blank
    <3>5. QED BY <3>2, <3>3, <3>4 DEF Says
  <2>5. CASE k \in DOMAIN detected /\ k \in DOMAIN detected' /\ detected'[k] = detected[k]
    <3>1. (Keyboard!Stored(k))' = Keyboard!Stored(k)
      BY <1>6, <2>5 DEF Keyboard!Stored, Keyboard!At
    <3>2. Says(Keyboard!Stored(k), Keyboard!At(cache', k))
      BY <2>3 DEF Says
    <3>3. Says(Keyboard!Stored(k), Keyboard!Stored(k))
      BY DEF Says
    <3>4. QED BY <1>6, <3>1, <3>2, <3>3
  <2>6. CASE /\ k \in DOMAIN detected' /\ detected'[k] \in Keyboard!Info
             /\ Says(Keyboard!At(b, k), detected'[k]) /\ Says(detected'[k], Keyboard!At(cache', k))
    <3>1. Keyboard!Cleaned(detected'[k]) = detected'[k]
      BY <2>6, CleanedIsSame
    <3>2. (Keyboard!Stored(k))' = detected'[k]
      BY <1>6, <2>6, <3>1 DEF Keyboard!At
    <3>3. Says(Keyboard!Stored(k), detected'[k])
      BY <2>3, <2>6 DEF Says
    <3>4. QED BY <1>6, <2>6, <3>2, <3>3
  <2>7. QED BY <1>3, <2>4, <2>5, <2>6
<1>9. BoardInv'
  <2>1. Keyboard!TypeOK' /\ Keyboard!NamesOnly'
    BY <1>1, <1>3, <1>4, <1>5 DEF BoardInv, Keyboard!TypeOK, Keyboard!NamesOnly
  <2>2. ~misread' => \A k \in Keys : Says(Keyboard!Stored(k)', Keyboard!Said(k)')
    BY <1>8
  <2>3. QED BY <1>1, <2>1, <2>2 DEF BoardInv
<1> QED
  BY <1>7, <1>8, <1>9

\* Every action of the board, with what it may not take away.
BoardStep ==
    \A k \in Keys :
        /\ (Keyboard!Restart => ~Keyboard!Behind(k)) /\ (misread' => misread) =>
               Says(Keyboard!Said(k), Keyboard!Said(k)')
        /\ ~misread' => Says(Keyboard!Stored(k), Keyboard!Stored(k)')

LEMMA BoardNext == BoardInv /\ [Keyboard!Next]_(Keyboard!vars) => BoardInv' /\ BoardStep
<1> SUFFICES ASSUME BoardInv, [Keyboard!Next]_(Keyboard!vars) PROVE BoardInv' /\ BoardStep
  OBVIOUS
<1>0. /\ Keyboard!Snaps \subseteq Keyboard!Lives
      /\ teamOvr \in Keyboard!PartialOn(Keys, Teams) /\ userOvr \in Keyboard!PartialOn(Keys, Users)
      /\ asking = [r \in Requests |-> asking[r]]
  BY DEF Keyboard!Snaps, BoardInv, Keyboard!TypeOK
<1>1. ASSUME NEW read \in Keyboard!Reads, NEW snap \in Keyboard!Snaps, Keyboard!Load(read, snap)
      PROVE  BoardInv' /\ BoardStep
  <2>1. /\ Keyboard!Open(read) /\ Keyboard!FoldIn(read, << >>, snap)
        /\ UNCHANGED <<teamOvr, userOvr, asking>>
    BY <1>1 DEF Keyboard!Load, Keyboard!overrides
  <2>2. QED BY <1>0, <2>1, NoAnswer, BoardFolds DEF BoardStep
<1>2. ASSUME NEW read \in Keyboard!Reads, NEW r \in Requests, NEW k \in Keys,
             NEW kind \in {"load", "refresh", "sync"}, Keyboard!Ask(read, r, kind, k)
      PROVE  BoardInv' /\ BoardStep
  <2>1. /\ Keyboard!Open(read) /\ Keyboard!FoldIn(read, << >>, << >>)
        /\ asking' = [asking EXCEPT ![r] = [kind |-> kind, key |-> k]] /\ UNCHANGED <<teamOvr, userOvr>>
    BY <1>2 DEF Keyboard!Ask, Keyboard!overrides
  <2>2. asking' = [x \in Requests |-> asking'[x]]
    BY <1>0, <2>1
  <2>3. QED BY <1>0, <2>1, <2>2, NoAnswer, BoardFolds DEF BoardStep
<1>3. ASSUME NEW r \in Requests, NEW live0 \in Keyboard!Lives, NEW snap \in Keyboard!Snaps,
             Keyboard!Answered(r, live0, snap)
      PROVE  BoardInv' /\ BoardStep
  <2>1. /\ asking[r] # Keyboard!Idle /\ asking' = [asking EXCEPT ![r] = Keyboard!Idle]
        /\ Keyboard!FoldIn(TRUE, live0, snap) /\ UNCHANGED <<loaded, userOvr, misread>>
        /\ teamOvr' \in {teamOvr, Keyboard!Without(teamOvr, asking[r].key)}
    BY <1>3 DEF Keyboard!Answered
  <2>2. loaded = TRUE /\ TRUE \in Keyboard!Reads /\ misread \in BOOLEAN
    BY <2>1 DEF BoardInv, Keyboard!TypeOK, Keyboard!Reads
  <2>3. Keyboard!Open(TRUE)
    BY <2>1, <2>2 DEF Keyboard!Open
  <2>4. teamOvr' \in Keyboard!PartialOn(Keys, Teams)
    BY <1>0, <2>1, OverrideTyped
  <2>5. asking' = [x \in Requests |-> asking'[x]]
    BY <1>0, <2>1
  <2>6. QED BY <1>0, <2>1, <2>2, <2>3, <2>4, <2>5, BoardFolds DEF BoardStep
<1>4. ASSUME UNCHANGED <<loaded, cache, detected, asking, misread>>,
             teamOvr' \in Keyboard!PartialOn(Keys, Teams), userOvr' \in Keyboard!PartialOn(Keys, Users)
      PROVE  BoardInv' /\ BoardStep
  <2>1. \A k \in Keys : /\ (Keyboard!Said(k))' = Keyboard!Said(k)
                        /\ (Keyboard!Stored(k))' = Keyboard!Stored(k)
    BY <1>4 DEF Keyboard!Said, Keyboard!Stored, Keyboard!At, Keyboard!Cleaned
  <2>2. Keyboard!TypeOK' /\ Keyboard!NamesOnly'
    BY <1>4 DEF BoardInv, Keyboard!TypeOK, Keyboard!NamesOnly
  <2>3. BoardInv'
    BY <1>4, <2>1, <2>2 DEF BoardInv
  <2>4. QED BY <2>1, <2>3 DEF BoardStep, Says
<1>5. ASSUME NEW k \in Keys, NEW t \in Teams \cup {""}, Keyboard!AssignTeam(k, t)
      PROVE  BoardInv' /\ BoardStep
  <2>1. teamOvr' \in Keyboard!PartialOn(Keys, Teams)
    BY <1>0, <1>5, OverrideTyped DEF Keyboard!AssignTeam
  <2>2. QED BY <1>0, <1>4, <1>5, <2>1 DEF Keyboard!AssignTeam
<1>6. ASSUME NEW k \in Keys, NEW u \in Users \cup {""}, Keyboard!AssignUser(k, u)
      PROVE  BoardInv' /\ BoardStep
  <2>1. userOvr' \in Keyboard!PartialOn(Keys, Users)
    BY <1>0, <1>6, OverrideTyped DEF Keyboard!AssignUser
  <2>2. QED BY <1>0, <1>4, <1>6, <2>1 DEF Keyboard!AssignUser
<1>7. CASE Keyboard!Restart
  <2>1. /\ loaded' = FALSE /\ cache' = << >> /\ asking' = [r \in Requests |-> Keyboard!Idle]
        /\ misread' = FALSE /\ UNCHANGED <<detected, teamOvr, userOvr>>
    BY <1>7 DEF Keyboard!Restart, Keyboard!overrides
  <2>2. << >> \in Keyboard!PartialOn(Keys, Keyboard!Answer) /\ DOMAIN << >> = {}
    BY NoAnswer DEF Keyboard!Lives
  <2>3. \A k \in Keys : /\ (Keyboard!Stored(k))' = Keyboard!Stored(k)
                        /\ (Keyboard!Said(k))' = Keyboard!Stored(k)
    BY <2>1 DEF Keyboard!Said, Keyboard!Stored, Keyboard!Cleaned, Keyboard!At
  <2>4. Keyboard!TypeOK' /\ Keyboard!NamesOnly'
    BY <2>1, <2>2 DEF BoardInv, Keyboard!TypeOK, Keyboard!NamesOnly
  <2>5. BoardInv'
    <3>1. \A k \in Keys : Says(Keyboard!Stored(k)', Keyboard!Said(k)')
      BY <2>3 DEF Says
    <3>2. QED BY <2>1, <2>2, <2>4, <3>1 DEF BoardInv
  <2>6. ASSUME NEW k \in Keys, ~Keyboard!Behind(k) PROVE (Keyboard!Said(k))' = Keyboard!Said(k)
    <3>1. Keyboard!Said(k) = Keyboard!Stored(k)
      BY <2>6 DEF Keyboard!Behind, Keyboard!Said
    <3>2. QED BY <2>3, <3>1
  <2>7. BoardStep
    BY <1>7, <2>3, <2>6 DEF BoardStep, Says
  <2>8. QED BY <2>5, <2>7
<1>8. CASE UNCHANGED Keyboard!vars
  BY <1>0, <1>4, <1>8 DEF Keyboard!vars
<1> QED
  BY <1>1, <1>2, <1>3, <1>5, <1>6, <1>7, <1>8 DEF Keyboard!Next

\* The board shows no identifier for a name, what it has shown of a key it shows again,
\* whoever asks and over restarts, and what is stored stays stored: but for a row that
\* could not be written, or a table that the process could not read when it began
\* (app.py:2583-2588, 2601-2604, 2630-2643).
THEOREM BoardPartHolds == PartSpec => BoardHolds
<1>1. BoardInv => Keyboard!TypeOK /\ Keyboard!NamesOnly
  BY DEF BoardInv
<1>2. Keyboard!Spec => []BoardInv
  BY BoardInit, BoardNext, PTL DEF Keyboard!Spec
<1>3. Keyboard!Spec => [](part = "keyboard" => Keyboard!TypeOK /\ Keyboard!NamesOnly)
  BY <1>1, <1>2, PTL
<1>4. Keyboard!Spec => [][BoardStep]_(Keyboard!vars)
  BY <1>2, BoardNext, PTL DEF Keyboard!Spec
<1> DEFINE ShownStays ==
      \A k \in Keys : (Keyboard!Restart => ~Keyboard!Behind(k)) /\ (misread' => misread) =>
          /\ Keyboard!Said(k).team # "" => Keyboard!Said(k)'.team # ""
          /\ Keyboard!Said(k).name # "" => Keyboard!Said(k)'.name # ""
<1> DEFINE KeptStays ==
      ~misread' => \A k \in Keys :
          /\ Keyboard!Stored(k).team # "" => Keyboard!Stored(k)'.team # ""
          /\ Keyboard!Stored(k).name # "" => Keyboard!Stored(k)'.name # ""
<1>5. BoardStep => ShownStays /\ KeptStays
  BY DEF BoardStep, Says
<1> HIDE DEF ShownStays, KeptStays
<1>6. Keyboard!Spec => [][ShownStays]_(Keyboard!vars) /\ [][KeptStays]_(Keyboard!vars)
  BY <1>4, <1>5, PTL
<1>7. Keyboard!Spec => Keyboard!NeverBlinks /\ Keyboard!StoredKept
  BY <1>6 DEF ShownStays, KeptStays, Keyboard!NeverBlinks, Keyboard!StoredKept
<1> QED
  BY <1>3, <1>7, PartsRun DEF BoardHolds

-----------------------------------------------------------------------------
(***************************************************************************)
(* The visibility gate.  What a set says of a label is what it was when it *)
(* was read; a label that has not changed since, while no read failed, is  *)
(* told truly.  The thread reads no earlier than it began, the gate holds  *)
(* nothing that was read longer than MaxRead before its stamp.             *)
(***************************************************************************)
Owed == Gated!Unassigned(known, named, assigned)

GateTyped ==
    /\ named \subseteq known /\ known \subseteq Labels /\ assigned \subseteq Labels
    /\ shown \subseteq Labels
    /\ time \in Nat /\ Start <= time /\ time <= MaxTime
    /\ gate \in [known : SUBSET Labels, unassigned : SUBSET Labels, mono : Nat] /\ gate.mono <= time
    /\ thread \in [step : {"idle", "known", "unassigned"}, since : Nat, read : SUBSET Labels]
    /\ turned \in [Labels -> Nat] /\ fault \in Nat

ThreadTrue ==
    thread.step # "idle" =>
        /\ thread.since <= time /\ time <= thread.since + MaxRead
        /\ \A l \in Labels : turned[l] < thread.since /\ fault < thread.since =>
              /\ thread.step = "known" => (Gated!Known(l, thread.read) <=> Gated!Known(l, known))
              /\ thread.step = "unassigned" =>
                    /\ l \in thread.read <=> l \in Owed
                    /\ Gated!Known(l, gate.known) <=> Gated!Known(l, known)

GateTrue ==
    \A l \in Labels : turned[l] + MaxRead < gate.mono /\ fault + MaxRead < gate.mono =>
        /\ Gated!Known(l, gate.known) <=> Gated!Known(l, known)
        /\ l \in gate.unassigned <=> l \in Owed

GateInv == GateTyped /\ ThreadTrue /\ GateTrue

LEMMA GateInit == Gated!Init => GateInv
<1> SUFFICES ASSUME Gated!Init PROVE GateInv
  OBVIOUS
<1>1. /\ time = Start /\ known \in SUBSET Labels /\ named \in SUBSET known /\ assigned \in SUBSET Labels
      /\ gate = [known |-> {}, unassigned |-> {}, mono |-> 0]
      /\ thread = [step |-> "idle", since |-> 0, read |-> {}] /\ shown = {}
      /\ turned = [l \in Labels |-> 0] /\ fault = 0
  BY DEF Gated!Init, Gated!Idle
<1>2. GateTyped
  BY <1>1, GateAssumption DEF GateTyped, GateAssumption
<1>3. ThreadTrue
  BY <1>1 DEF ThreadTrue
<1>4. GateTrue
  BY <1>1, GateAssumption DEF GateTrue, GateAssumption
<1> QED
  BY <1>2, <1>3, <1>4 DEF GateInv

LEMMA OwedIsListed == GateTyped => Owed \subseteq Labels
BY DEF GateTyped, Owed, Gated!Unassigned

\* The store changes: a label of which something else is true than before has changed
\* now, the others are told as before.
LEMMA GateStore ==
  ASSUME GateInv, NEW listed \in SUBSET Labels, NEW owned \in SUBSET listed, NEW over \in SUBSET Labels,
         Gated!Store(listed, owned, over)
  PROVE  GateInv'
<1>1. /\ known' = listed /\ named' = owned /\ assigned' = over
      /\ turned' = [l \in Labels |->
                       IF Gated!Truth(l, listed, owned, over) = Gated!Truth(l, known, named, assigned)
                       THEN turned[l] ELSE time]
      /\ UNCHANGED <<time, gate, thread, shown, fault>>
  BY DEF Gated!Store
<1>2. GateTyped'
  BY <1>1 DEF GateInv, GateTyped
<1>3. Owed' = Gated!Unassigned(listed, owned, over)
  BY <1>1 DEF Owed, Gated!Unassigned
<1>4. ASSUME NEW l \in Labels
      PROVE  \/ turned'[l] = time
             \/ /\ turned'[l] = turned[l]
                /\ Gated!Known(l, known') <=> Gated!Known(l, known)
                /\ l \in Owed' <=> l \in Owed
  <2>1. CASE Gated!Truth(l, listed, owned, over) = Gated!Truth(l, known, named, assigned)
    <3>1. /\ Gated!Known(l, listed) = Gated!Known(l, known)
          /\ (l \in Gated!Unassigned(listed, owned, over)) = (l \in Owed)
      BY <2>1 DEF Gated!Truth, Owed
    <3>2. turned'[l] = turned[l]
      BY <1>1, <2>1
    <3>3. QED BY <1>1, <1>3, <3>1, <3>2
  <2>2. CASE Gated!Truth(l, listed, owned, over) # Gated!Truth(l, known, named, assigned)
    BY <1>1, <2>2
  <2>3. QED BY <2>1, <2>2
<1>5. /\ time \in Nat /\ gate.mono \in Nat /\ gate.mono <= time /\ MaxRead \in Nat /\ thread.since \in Nat
      /\ turned' \in [Labels -> Nat]
  BY <1>2, GateAssumption DEF GateInv, GateTyped, GateAssumption
<1>6. ThreadTrue'
  <2> SUFFICES ASSUME thread.step # "idle"
               PROVE  /\ thread.since <= time /\ time <= thread.since + MaxRead
                      /\ \A l \in Labels : turned'[l] < thread.since /\ fault < thread.since =>
                            /\ thread.step = "known" => (Gated!Known(l, thread.read) <=> Gated!Known(l, known'))
                            /\ thread.step = "unassigned" =>
                                  /\ l \in thread.read <=> l \in Owed'
                                  /\ Gated!Known(l, gate.known) <=> Gated!Known(l, known')
    BY <1>1 DEF ThreadTrue, Gated!Known
  <2>1. thread.since <= time /\ time <= thread.since + MaxRead
    BY DEF GateInv, ThreadTrue
  <2>2. ASSUME NEW l \in Labels, turned'[l] < thread.since, fault < thread.since
        PROVE  /\ thread.step = "known" => (Gated!Known(l, thread.read) <=> Gated!Known(l, known'))
               /\ thread.step = "unassigned" =>
                     /\ l \in thread.read <=> l \in Owed'
                     /\ Gated!Known(l, gate.known) <=> Gated!Known(l, known')
    <3>1. turned'[l] # time
      BY <1>5, <2>1, <2>2
    <3>2. turned[l] < thread.since /\ (Gated!Known(l, known') <=> Gated!Known(l, known))
          /\ (l \in Owed' <=> l \in Owed)
      BY <1>4, <2>2, <3>1
    <3>3. QED BY <2>2, <3>2 DEF GateInv, ThreadTrue
  <2>3. QED BY <2>1, <2>2
<1>7. GateTrue'
  <2> SUFFICES ASSUME NEW l \in Labels, turned'[l] + MaxRead < gate.mono, fault + MaxRead < gate.mono
               PROVE  /\ Gated!Known(l, gate.known) <=> Gated!Known(l, known')
                      /\ l \in gate.unassigned <=> l \in Owed'
    BY <1>1 DEF GateTrue, Gated!Known
  <2>1. turned'[l] # time
    BY <1>5
  <2>2. turned[l] + MaxRead < gate.mono /\ (Gated!Known(l, known') <=> Gated!Known(l, known))
        /\ (l \in Owed' <=> l \in Owed)
    BY <1>4, <2>1
  <2>3. QED BY <2>2 DEF GateInv, GateTrue
<1> QED
  BY <1>2, <1>6, <1>7 DEF GateInv

\* A read that failed has failed now.
LEMMA ReadIs ==
  ASSUME NEW set \in SUBSET Labels, NEW got, Gated!Read(set, got), fault \in Nat, time \in Nat
  PROVE  got \in SUBSET Labels /\ fault' \in Nat
         /\ ((fault' = fault /\ got = set) \/ fault' = time)
BY DEF Gated!Read, Gated!Works, Gated!Fails

\* The thread reads the first set.
LEMMA GateWarm == GateInv /\ Gated!Warm => GateInv'
<1> SUFFICES ASSUME GateInv, NEW got \in SUBSET Labels, Gated!Read(known, got),
                    thread' = [step |-> "known", since |-> time, read |-> got],
                    UNCHANGED <<time, known, named, assigned, gate, shown, turned>>
             PROVE  GateInv'
  BY DEF Gated!Warm, Gated!store
<1>1. /\ time \in Nat /\ gate.mono \in Nat /\ gate.mono <= time /\ MaxRead \in Nat
      /\ turned \in [Labels -> Nat] /\ fault \in Nat /\ known \in SUBSET Labels
  BY GateAssumption DEF GateInv, GateTyped, GateAssumption
<1>2. fault' \in Nat /\ ((fault' = fault /\ got = known) \/ fault' = time)
  BY <1>1, ReadIs
<1>3. GateTyped'
  BY <1>2 DEF GateInv, GateTyped
<1>4. Owed' = Owed
  BY DEF Owed, Gated!Unassigned
<1>5. ThreadTrue'
  <2>1. thread'.step = "known" /\ thread'.since = time /\ thread'.read = got
    OBVIOUS
  <2>2. ASSUME fault' < time PROVE got = known
    BY <1>1, <1>2, <2>2
  <2>3. QED BY <1>1, <2>1, <2>2 DEF ThreadTrue, Gated!Known
<1>6. GateTrue'
  <2>1. ASSUME fault' + MaxRead < gate.mono PROVE fault + MaxRead < gate.mono
    BY <1>1, <1>2, <2>1
  <2>2. QED BY <1>4, <2>1 DEF GateInv, GateTrue, Gated!Known
<1> QED
  BY <1>3, <1>5, <1>6 DEF GateInv

\* It puts it in place, older perhaps than what a request put there, and reads the
\* second.
LEMMA GateWarmKnown == GateInv /\ Gated!WarmKnown => GateInv'
<1> SUFFICES ASSUME GateInv, NEW got \in SUBSET Labels, thread.step = "known",
                    gate' = [gate EXCEPT !.known = thread.read],
                    Gated!Read(Owed, got),
                    thread' = [thread EXCEPT !.step = "unassigned", !.read = got],
                    UNCHANGED <<time, known, named, assigned, shown, turned>>
             PROVE  GateInv'
  BY DEF Gated!WarmKnown, Gated!store, Owed
<1>1. /\ time \in Nat /\ gate.mono \in Nat /\ gate.mono <= time /\ MaxRead \in Nat
      /\ turned \in [Labels -> Nat] /\ fault \in Nat /\ Owed \in SUBSET Labels
      /\ thread.since \in Nat /\ thread.read \in SUBSET Labels
  BY GateAssumption, OwedIsListed DEF GateInv, GateTyped, GateAssumption
<1>2. fault' \in Nat /\ ((fault' = fault /\ got = Owed) \/ fault' = time)
  BY <1>1, ReadIs
<1>3. /\ gate'.known = thread.read /\ gate'.unassigned = gate.unassigned /\ gate'.mono = gate.mono
      /\ gate' \in [known : SUBSET Labels, unassigned : SUBSET Labels, mono : Nat]
  BY <1>1 DEF GateInv, GateTyped
<1>4. /\ thread'.step = "unassigned" /\ thread'.since = thread.since /\ thread'.read = got
      /\ thread' \in [step : {"idle", "known", "unassigned"}, since : Nat, read : SUBSET Labels]
  BY <1>1 DEF GateInv, GateTyped
<1>5. GateTyped'
  BY <1>2, <1>3, <1>4 DEF GateInv, GateTyped
<1>6. Owed' = Owed
  BY DEF Owed, Gated!Unassigned
<1>7. /\ thread.since <= time /\ time <= thread.since + MaxRead
      /\ \A l \in Labels : turned[l] < thread.since /\ fault < thread.since =>
            (Gated!Known(l, thread.read) <=> Gated!Known(l, known))
  BY DEF GateInv, ThreadTrue
<1>8. ThreadTrue'
  <2>1. ASSUME fault' < thread.since PROVE fault < thread.since /\ got = Owed
    BY <1>1, <1>2, <1>7, <2>1
  <2>2. QED BY <1>3, <1>4, <1>6, <1>7, <2>1 DEF ThreadTrue, Gated!Known
<1>9. GateTrue'
  <2>1. ASSUME fault' + MaxRead < gate.mono
        PROVE  fault + MaxRead < gate.mono /\ fault < thread.since
    BY <1>1, <1>2, <1>7, <2>1
  <2>2. ASSUME NEW l \in Labels, turned[l] + MaxRead < gate.mono PROVE turned[l] < thread.since
    BY <1>1, <1>7, <2>2
  <2>3. ASSUME NEW l \in Labels, turned[l] + MaxRead < gate.mono, fault' + MaxRead < gate.mono
        PROVE  /\ Gated!Known(l, thread.read) <=> Gated!Known(l, known)
               /\ l \in gate.unassigned <=> l \in Owed
    BY <1>7, <2>1, <2>2, <2>3 DEF GateInv, GateTrue
  <2>4. QED BY <1>3, <1>6, <2>3 DEF GateTrue, Gated!Known
<1> QED
  BY <1>5, <1>8, <1>9 DEF GateInv

\* It puts the second in place and stamps both, though they were read before.
LEMMA GateWarmUnassigned == GateInv /\ Gated!WarmUnassigned => GateInv'
<1> SUFFICES ASSUME GateInv, thread.step = "unassigned",
                    gate' = [gate EXCEPT !.unassigned = thread.read, !.mono = time],
                    thread' = [step |-> "idle", since |-> 0, read |-> {}],
                    UNCHANGED <<time, known, named, assigned, shown, turned, fault>>
             PROVE  GateInv'
  BY DEF Gated!WarmUnassigned, Gated!store, Gated!Idle
<1>1. /\ time \in Nat /\ MaxRead \in Nat /\ thread.since \in Nat /\ thread.read \in SUBSET Labels
      /\ turned \in [Labels -> Nat] /\ fault \in Nat
  BY GateAssumption DEF GateInv, GateTyped, GateAssumption
<1>2. /\ gate'.known = gate.known /\ gate'.unassigned = thread.read /\ gate'.mono = time
      /\ gate' \in [known : SUBSET Labels, unassigned : SUBSET Labels, mono : Nat]
  BY <1>1 DEF GateInv, GateTyped
<1>3. GateTyped'
  BY <1>1, <1>2 DEF GateInv, GateTyped
<1>4. Owed' = Owed
  BY DEF Owed, Gated!Unassigned
<1>5. ThreadTrue'
  BY DEF ThreadTrue
<1>6. /\ time <= thread.since + MaxRead
      /\ \A l \in Labels : turned[l] < thread.since /\ fault < thread.since =>
            /\ l \in thread.read <=> l \in Owed
            /\ Gated!Known(l, gate.known) <=> Gated!Known(l, known)
  BY DEF GateInv, ThreadTrue
<1>7. GateTrue'
  <2>1. ASSUME NEW l \in Labels, turned[l] + MaxRead < time, fault + MaxRead < time
        PROVE  turned[l] < thread.since /\ fault < thread.since
    BY <1>1, <1>6, <2>1
  <2>2. QED BY <1>2, <1>4, <1>6, <2>1 DEF GateTrue, Gated!Known
<1> QED
  BY <1>3, <1>5, <1>7 DEF GateInv

\* What a response shows, and what a request that reads the sets itself leaves.
LEMMA GateServe ==
  ASSUME GateInv, Gated!Serve
  PROVE  GateInv' /\ Gated!ServedIsTrue
<1>1. PICK k \in SUBSET Labels, u \in SUBSET Labels :
         /\ \/ /\ Gated!Stale
               /\ \/ Gated!Works /\ k = known /\ u = Owed
                  \/ Gated!Fails
               /\ gate' = [known |-> k, unassigned |-> u, mono |-> time]
            \/ /\ ~Gated!Stale
               /\ Gated!Works /\ k = gate.known /\ u = gate.unassigned /\ gate' = gate
         /\ shown' = Gated!Visible(k, u)
         /\ UNCHANGED <<time, known, named, assigned, hiding, thread, turned>>
  BY DEF Gated!Serve, Gated!store, Owed
<1>2. /\ time \in Nat /\ MaxRead \in Nat /\ Ttl \in Nat /\ thread.since \in Nat
      /\ turned \in [Labels -> Nat] /\ fault \in Nat /\ gate.mono \in Nat /\ gate.mono <= time
  BY GateAssumption DEF GateInv, GateTyped, GateAssumption
<1>3. Owed' = Owed
  BY <1>1 DEF Owed, Gated!Unassigned
<1>4. fault' \in Nat /\ (Gated!Works => fault' = fault) /\ (Gated!Fails => fault' = time)
  BY <1>1, <1>2 DEF Gated!Works, Gated!Fails
<1>5. GateTyped'
  <2>1. shown' \subseteq Labels
    BY <1>1 DEF Gated!Visible
  <2>2. gate' \in [known : SUBSET Labels, unassigned : SUBSET Labels, mono : Nat] /\ gate'.mono <= time
    BY <1>1, <1>2 DEF GateInv, GateTyped
  <2>3. QED BY <1>1, <1>4, <2>1, <2>2 DEF GateInv, GateTyped
\* The three ways to be served: from the gate, from a read, from one that failed.
<1>6. \/ /\ fault' = fault /\ gate' = gate /\ k = gate.known /\ u = gate.unassigned
         /\ time - gate.mono < Ttl
      \/ /\ fault' = fault /\ gate'.known = known /\ gate'.unassigned = Owed /\ gate'.mono = time
         /\ k = known /\ u = Owed
      \/ fault' = time /\ gate'.mono = time
  BY <1>1, <1>2, <1>4 DEF Gated!Stale
<1>7. ThreadTrue'
  <2>1. thread.step # "idle" => thread.since <= time /\ time <= thread.since + MaxRead
    BY DEF GateInv, ThreadTrue
  <2>2. ASSUME thread.step # "idle", fault' < thread.since
        PROVE  fault' = fault /\ (gate' = gate \/ gate'.known = known)
    BY <1>2, <1>6, <2>1, <2>2
  <2>3. QED BY <1>1, <1>3, <2>1, <2>2 DEF GateInv, ThreadTrue, Gated!Known
<1>8. GateTrue'
  <2>1. ASSUME fault' + MaxRead < gate'.mono
        PROVE  fault' = fault /\ (gate' = gate \/ (gate'.known = known /\ gate'.unassigned = Owed))
    <3>1. CASE fault' = time /\ gate'.mono = time
      <4>1. time + MaxRead < time
        BY <2>1, <3>1
      <4>2. QED BY <1>2, <4>1
    <3>2. CASE fault' = fault /\ gate' = gate
      BY <3>2
    <3>3. CASE fault' = fault /\ gate'.known = known /\ gate'.unassigned = Owed
      BY <3>3
    <3>4. QED BY <1>6, <3>1, <3>2, <3>3
  <2>2. QED BY <1>1, <1>3, <2>1 DEF GateInv, GateTrue, Gated!Known
<1>9. ASSUME Gated!Settled(fault'), NEW l \in Labels, Gated!Settled(turned[l])
      PROVE  l \in shown' <=> l \in Gated!Visible(known, Owed)
  <2>1. time - fault' > Ttl + MaxRead /\ time - turned[l] > Ttl + MaxRead /\ turned[l] \in Nat
    BY <1>2, <1>9 DEF Gated!Settled
  <2>2. (Gated!Known(l, k) <=> Gated!Known(l, known)) /\ (l \in u <=> l \in Owed)
    <3>1. CASE /\ fault' = fault /\ k = gate.known /\ u = gate.unassigned
               /\ time - gate.mono < Ttl
      <4>1. turned[l] + MaxRead < gate.mono /\ fault + MaxRead < gate.mono
        BY <1>2, <2>1, <3>1
      <4>2. QED BY <3>1, <4>1 DEF GateInv, GateTrue
    <3>2. CASE k = known /\ u = Owed
      BY <3>2
    <3>3. CASE fault' = time
      BY <1>2, <2>1, <3>3
    <3>4. QED BY <1>6, <3>1, <3>2, <3>3
  <2>3. QED BY <1>1, <2>2 DEF Gated!Visible
<1> QED
  BY <1>5, <1>7, <1>8, <1>9 DEF GateInv, Gated!ServedIsTrue, Owed

LEMMA GateNext == GateInv /\ [Gated!Next]_(Gated!vars) => GateInv'
<1> SUFFICES ASSUME GateInv, [Gated!Next]_(Gated!vars) PROVE GateInv'
  OBVIOUS
<1>0. named \subseteq known /\ known \subseteq Labels /\ assigned \subseteq Labels
  BY DEF GateInv, GateTyped
<1>1. CASE Gated!List
  <2>1. PICK l \in Labels : \/ Gated!Store(known \cup {l}, named, assigned)
                            \/ Gated!Store(known \cup {l}, named \cup {l}, assigned)
    BY <1>1 DEF Gated!List
  <2>2. QED BY <1>0, <2>1, GateStore
<1>2. CASE Gated!Reown
  <2>1. PICK l \in known : Gated!Store(known, (named \cup {l}) \ (named \cap {l}), assigned)
    BY <1>2 DEF Gated!Reown
  <2>2. (named \cup {l}) \ (named \cap {l}) \in SUBSET known
    BY <1>0
  <2>3. QED BY <1>0, <2>1, <2>2, GateStore
<1>3. CASE Gated!Reassign
  <2>1. PICK l \in Labels : Gated!Store(known, named, (assigned \cup {l}) \ (assigned \cap {l}))
    BY <1>3 DEF Gated!Reassign
  <2>2. (assigned \cup {l}) \ (assigned \cap {l}) \in SUBSET Labels
    BY <1>0
  <2>3. QED BY <1>0, <2>1, <2>2, GateStore
<1>4. ASSUME UNCHANGED <<time, known, named, assigned, gate, thread, shown, turned, fault>>
      PROVE  GateInv'
  BY <1>4 DEF GateInv, GateTyped, ThreadTrue, GateTrue, Owed, Gated!Known, Gated!Unassigned
<1>5. CASE Gated!Toggle
  BY <1>4, <1>5 DEF Gated!Toggle
<1>6. CASE Gated!Pass
  <2>1. /\ time < MaxTime /\ time' = time + 1
        /\ thread = [step |-> "idle", since |-> 0, read |-> {}] \/ time - thread.since < MaxRead
        /\ UNCHANGED <<known, named, assigned, gate, thread, shown, turned, fault>>
    BY <1>6 DEF Gated!Pass, Gated!store, Gated!Idle
  <2>2. /\ time \in Nat /\ MaxRead \in Nat /\ MaxTime \in Nat /\ Start \in Nat /\ thread.since \in Nat
        /\ gate.mono \in Nat
    BY GateAssumption DEF GateInv, GateTyped, GateAssumption
  <2>3. GateTyped'
    BY <2>1, <2>2 DEF GateInv, GateTyped
  <2>4. Owed' = Owed
    BY <2>1 DEF Owed, Gated!Unassigned
  <2>5. ASSUME thread.step # "idle"
        PROVE  thread.since <= time + 1 /\ time + 1 <= thread.since + MaxRead
    <3>1. time - thread.since < MaxRead /\ thread.since <= time
      BY <2>1, <2>5 DEF GateInv, ThreadTrue
    <3>2. QED BY <2>2, <3>1
  <2>6. ThreadTrue'
    BY <2>1, <2>4, <2>5 DEF GateInv, ThreadTrue, Gated!Known
  <2>7. GateTrue'
    BY <2>1, <2>4 DEF GateInv, GateTrue, Gated!Known
  <2>8. QED BY <2>3, <2>6, <2>7 DEF GateInv
<1>7. CASE UNCHANGED Gated!vars
  BY <1>4, <1>7 DEF Gated!vars, Gated!store
<1> QED
  BY <1>1, <1>2, <1>3, <1>5, <1>6, <1>7, GateWarm, GateWarmKnown, GateWarmUnassigned, GateServe
     DEF Gated!Next

\* A response names exactly the keys that may be named: the toggle at once, whatever
\* changed, or failed to be read, within the TTL and one read (app.py:2057-2084).
THEOREM GatePartHolds == PartSpec => KeysGated
<1>1. GateInv => Gated!TypeOK
  BY DEF GateInv, GateTyped, Gated!TypeOK
<1>2. GateInv => Gated!ServedIsTrue
  <2> SUFFICES ASSUME GateInv PROVE Gated!ServedIsTrue
    OBVIOUS
  <2>1. CASE Gated!Serve
    BY <2>1, GateServe
  <2>2. CASE ~Gated!Serve
    BY <2>2 DEF Gated!ServedIsTrue
  <2>3. QED BY <2>1, <2>2
<1>3. Gated!Spec => []GateInv
  BY GateInit, GateNext, PTL DEF Gated!Spec
<1>4. Gated!Spec => [](part = "gate" => Gated!TypeOK)
  BY <1>1, <1>3, PTL
<1>5. Gated!Spec => [][part = "gate" => Gated!ServedIsTrue]_<<part, gated>>
  BY <1>2, <1>3, PTL
<1> QED
  BY <1>4, <1>5, PartsRun DEF KeysGated
=============================================================================
