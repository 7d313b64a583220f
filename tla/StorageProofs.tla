---------------------------- MODULE StorageProofs ----------------------------
(***************************************************************************)
(* What is stored and what is read back of it.  Rollup, for any tiers,     *)
(* intervals and retentions, as long as the grace and the retention of the *)
(* raw rows cover what fails, how long the process is down and what the    *)
(* clock loses: a rollup leaves the recent buckets exact and no row        *)
(* behind, nothing is pruned before it is in the tiers, and no chart is    *)
(* blank where a table has rows.  SiteLane, for any threshold: the lane of *)
(* the site hides no downtime, whichever table it is read from, and        *)
(* invents none where that table still has its rows.  Paging, for any      *)
(* number of callers and any lists: the lists are read to their end.       *)
(* Budgets, for any keys: the panel made of two such lists has each key    *)
(* once.                                                                   *)
(***************************************************************************)
EXTENDS SiteLane, Paging, Budgets, FiniteSetTheorems, WellFoundedInduction, TLAPS

\* What the clock has lost so far.
Lost == setbacks * MaxBack

Typed ==
    /\ now \in Nat /\ now >= Start /\ pc \in {"sample", "rollup", "prune"}
    /\ raw \subseteq recorded /\ folded \subseteq recorded /\ recorded \subseteq Row
    /\ hwm \in Nat /\ lastRollup \in Nat /\ lastPrune \in Nat
    /\ restarts \in 0..MaxRestarts /\ failures \in 0..MaxFailures /\ setbacks \in 0..MaxSetbacks

TiersTyped ==
    /\ DOMAIN tier = Sizes
    /\ \A s \in Sizes : \A b \in DOMAIN tier[s] :
          /\ b % s = 0 /\ tier[s][b] \subseteq folded
          /\ \E r \in folded : b = BucketOf(r, s)

\* A row that is gone from the raw table is old.
GoneIsOld == \A r \in recorded \ raw : r.ts + RawKeep < now + Lost

\* Neither mark is ahead of the clock by more than what it has lost, and a rollup is
\* tried once an interval.
MarksInv ==
    /\ hwm <= now + Lost /\ lastRollup <= now + Lost
    /\ lastRollup > 0 => now - lastRollup <= RollupEvery + (IF pc = "rollup" THEN 1 ELSE 0)
    /\ pc = "prune" => lastRollup > 0

\* How long there may have been no rollup: what failed, the time the process was down,
\* what the clock has lost, and the time since one was last tried.
Lag == failures * (RollupEvery + 1) + restarts * (MaxGap + 1) + Lost
         + (IF lastRollup = 0 THEN RollupEvery + (IF pc = "sample" THEN 0 ELSE 1)
            ELSE now - lastRollup)

\* A row that is in no tier is younger than that, and was stored after the last rollup.
UnfoldedIsYoung ==
    \A r \in raw \ folded : /\ hwm = 0 \/ hwm <= r.ts + Lost
                            /\ now <= r.ts + Lag

\* What a chart may look for is in its tier.
TiersHold ==
    setbacks = 0 => \A s \in Sizes, r \in folded :
        BucketOf(r, s) >= now - Keep[s] => BucketOf(r, s) \in DOMAIN tier[s]

IInv == Typed /\ TiersTyped /\ GoneIsOld /\ MarksInv /\ UnfoldedIsYoung /\ TiersHold

-----------------------------------------------------------------------------
\* A bucket begins at a multiple of its size, at or before its rows and less than its
\* size before them (db.py:1975-1976).
LEMMA BucketBounds ==
  ASSUME NEW t \in Nat, NEW s \in Nat \ {0}
  PROVE  /\ (t \div s) * s \in Nat /\ ((t \div s) * s) % s = 0
         /\ (t \div s) * s <= t /\ t < (t \div s) * s + s
<1>1. t \div s \in Nat /\ (t \div s) * s <= t /\ t < (t \div s) * s + s
  OBVIOUS
<1>2. \A q \in Nat : q * s \in Nat /\ (q * s) % s = 0
  OBVIOUS
<1> QED
  BY <1>1, <1>2

LEMMA RowBucket ==
  ASSUME NEW r \in Row, NEW s \in Sizes
  PROVE  /\ BucketOf(r, s) \in Nat /\ BucketOf(r, s) % s = 0
         /\ BucketOf(r, s) <= r.ts /\ r.ts < BucketOf(r, s) + s
<1>1. r.ts \in Nat /\ s \in Nat \ {0}
  BY RollupAssumption DEF Row, RollupAssumption
<1> QED
  BY <1>1, BucketBounds DEF BucketOf

\* What the clock has lost is bounded, and grows by no more than MaxBack at a setback.
LEMMA LostBounds ==
  ASSUME Typed
  PROVE  Lost \in Nat /\ Lost <= MaxSetbacks * MaxBack /\ MaxSetbacks * MaxBack \in Nat
<1>1. setbacks \in Nat /\ MaxSetbacks \in Nat /\ MaxBack \in Nat /\ setbacks <= MaxSetbacks
  BY RollupAssumption DEF Typed, RollupAssumption
<1>2. \A a, b, c \in Nat : a <= b => a * c <= b * c /\ a * c \in Nat /\ b * c \in Nat
  OBVIOUS
<1> QED
  BY <1>1, <1>2 DEF Lost

LEMMA LostGrows ==
  ASSUME Typed, setbacks' = setbacks + 1
  PROVE  setbacks' * MaxBack = Lost + MaxBack
<1>1. setbacks \in Nat /\ MaxBack \in Nat
  BY RollupAssumption DEF Typed, RollupAssumption
<1>2. (setbacks + 1) * MaxBack = setbacks * MaxBack + MaxBack
  BY <1>1
<1> QED
  BY <1>2 DEF Lost

\* Where the scan begins: not after the previous bucket of any tier, and not after any
\* row that is in none (db.py:1960-1963).
LEMMA ScanReaches ==
  ASSUME Typed, UnfoldedIsYoung
  PROVE  /\ LookFrom \in Nat
         /\ \A s \in Sizes, t \in Nat : now - 2 * s < t => LookFrom <= t
         /\ \A r \in raw \ folded : LookFrom <= r.ts
<1>1. now \in Nat /\ hwm \in Nat /\ Grace \in Nat
  BY RollupAssumption DEF Typed, RollupAssumption
<1>2. LookFrom \in Nat /\ LookFrom <= (IF now >= Grace THEN now - Grace ELSE 0)
      /\ (hwm = 0 => LookFrom = 0) /\ LookFrom <= (IF hwm >= Grace THEN hwm - Grace ELSE 0)
  BY <1>1 DEF LookFrom, Upper, Lower
<1>3. ASSUME NEW s \in Sizes, NEW t \in Nat, now - 2 * s < t PROVE LookFrom <= t
  <2>1. s \in Nat /\ 2 * s <= Grace
    BY RollupAssumption, GraceAssumption DEF RollupAssumption, GraceAssumption
  <2> QED
    BY <1>1, <1>2, <1>3, <2>1
<1>4. ASSUME NEW r \in raw \ folded PROVE LookFrom <= r.ts
  <2>1. r.ts \in Nat
    BY DEF Typed, Row
  <2>2. Lost \in Nat /\ Lost <= Grace
    BY LostBounds, GraceAssumption, <1>1 DEF GraceAssumption
  <2>3. hwm = 0 \/ hwm <= r.ts + Lost
    BY DEF UnfoldedIsYoung
  <2> QED
    BY <1>1, <1>2, <2>1, <2>2, <2>3
<1> QED
  BY <1>2, <1>3, <1>4

\* A bucket that is open, or was before it, begins less than two buckets ago.
LEMMA RecentBound ==
  ASSUME Typed, NEW s \in Sizes, NEW b \in OpenAndPrevious(s), NEW r \in Row, BucketOf(r, s) = b
  PROVE  now - 2 * s < r.ts
<1>1. now \in Nat /\ s \in Nat \ {0}
  BY RollupAssumption DEF Typed, RollupAssumption
<1>2. PICK age \in {0, s} : b = ((now - age) \div s) * s
  BY DEF OpenAndPrevious
<1>3. \A x \in Int : (x \div s) * s \in Int /\ x < (x \div s) * s + s
  BY <1>1
<1>4. b \in Int /\ now - age < b + s
  BY <1>1, <1>2, <1>3
<1>5. b <= r.ts /\ r.ts \in Nat
  BY RowBucket DEF Row
<1> QED
  BY <1>1, <1>2, <1>4, <1>5

\* The raw rows of a recent bucket are all there: what is gone is older
\* (app.py:522-533).
LEMMA RecentIsRaw ==
  ASSUME Typed, GoneIsOld, NEW s \in Sizes, NEW r \in recorded, now - 2 * s < r.ts
  PROVE  r \in raw
<1> SUFFICES ASSUME r \notin raw PROVE FALSE
  OBVIOUS
<1>1. r.ts + RawKeep < now + Lost
  BY DEF GoneIsOld
<1>2. MaxSetbacks * MaxBack + 2 * s <= RawKeep + 1 /\ RawKeep \in Nat /\ s \in Nat
  BY RetentionAssumption, RollupAssumption DEF RetentionAssumption, RollupAssumption
<1>3. Lost \in Nat /\ Lost <= MaxSetbacks * MaxBack /\ MaxSetbacks * MaxBack \in Nat
  BY LostBounds
<1>4. r.ts \in Nat /\ now \in Nat
  BY DEF Typed, Row
<1> DEFINE most == MaxSetbacks * MaxBack
<1> HIDE DEF most
<1>5. Lost <= most /\ most + 2 * s <= RawKeep + 1 /\ most \in Nat
  BY <1>2, <1>3 DEF most
<1> QED
  BY <1>1, <1>2, <1>3, <1>4, <1>5

\* A rollup puts the rows it scans into the bucket of each, and leaves every other
\* bucket alone (db.py:1969-1978).
LEMMA FoldIs ==
  ASSUME NEW buckets, NEW s
  PROVE  /\ DOMAIN Fold(buckets, s)
              = DOMAIN buckets \cup {BucketOf(r, s) : r \in {q \in raw : q.ts >= LookFrom}}
         /\ \A r \in raw : r.ts >= LookFrom =>
              /\ BucketOf(r, s) \in DOMAIN Fold(buckets, s)
              /\ Fold(buckets, s)[BucketOf(r, s)]
                   = {q \in raw : q.ts >= LookFrom /\ BucketOf(q, s) = BucketOf(r, s)}
         /\ \A b \in DOMAIN Fold(buckets, s) :
              \/ Fold(buckets, s)[b] \subseteq {q \in raw : q.ts >= LookFrom}
              \/ b \in DOMAIN buckets /\ Fold(buckets, s)[b] = buckets[b]
BY DEF Fold

\* A rollup leaves no row behind (db.py:1950-1963).
LEMMA RollUpFoldsAll ==
  ASSUME Typed, UnfoldedIsYoung, RollUp
  PROVE  raw \subseteq folded'
<1> SUFFICES ASSUME NEW r \in raw, r \notin folded PROVE r \in folded'
  BY DEF RollUp
<1>1. LookFrom <= r.ts /\ LookFrom \in Nat /\ r.ts \in Nat
  BY ScanReaches DEF Typed, Row
<1>2. r.ts >= LookFrom
  BY <1>1
<1> QED
  BY <1>2 DEF RollUp

-----------------------------------------------------------------------------
LEMMA InitIInv == Init => IInv
<1> SUFFICES ASSUME Init PROVE IInv
  OBVIOUS
<1> USE RollupAssumption DEF Init, RollupAssumption
<1>1. Typed
  BY DEF Typed
<1>2. TiersTyped
  BY DEF TiersTyped
<1>3. GoneIsOld /\ UnfoldedIsYoung /\ TiersHold
  BY DEF GoneIsOld, UnfoldedIsYoung, TiersHold
<1>4. Lost \in Nat
  BY <1>1, LostBounds
<1>5. MarksInv
  BY <1>4 DEF MarksInv
<1> QED
  BY <1>1, <1>2, <1>3, <1>5 DEF IInv

LEMMA NextTyped == Typed /\ Next => Typed'
<1> SUFFICES ASSUME Typed, Next PROVE Typed'
  OBVIOUS
<1> USE RollupAssumption DEF Typed, RollupAssumption, tables, loop, counts
<1>1. CASE Sample
  <2>1. [ts |-> now', era |-> setbacks] \in Row
    BY <1>1 DEF Sample, Row
  <2> QED
    BY <1>1, <2>1 DEF Sample
<1>2. CASE RollUp
  BY <1>2 DEF RollUp
<1>3. CASE RollUpFails
  BY <1>3 DEF RollUpFails
<1>4. CASE NoRollUp \/ NoPrune
  BY <1>4 DEF NoRollUp, NoPrune
<1>5. CASE Prune
  BY <1>5 DEF Prune
<1>6. CASE Stop
  BY <1>6 DEF Stop, vars
<1>7. ASSUME NEW gap \in Gaps, Restart(gap) PROVE Typed'
  BY <1>7 DEF Restart
<1>8. ASSUME NEW d \in Setbacks, SetBack(d) PROVE Typed'
  BY <1>8 DEF SetBack
<1> QED
  BY <1>1, <1>2, <1>3, <1>4, <1>5, <1>6, <1>7, <1>8 DEF Next

\* The tables of the tiers change by a rollup and by a prune.
LEMMA TiersChange ==
  ASSUME Next, TiersTyped
  PROVE  \/ UNCHANGED <<tier, folded>>
         \/ RollUp
         \/ Prune
<1> USE DEF tables, loop, counts
<1>1. CASE Sample \/ RollUpFails \/ NoRollUp \/ NoPrune \/ Stop
  BY <1>1 DEF Sample, RollUpFails, NoRollUp, NoPrune, Stop, vars
<1>2. ASSUME NEW gap \in Gaps, Restart(gap) PROVE UNCHANGED <<tier, folded>>
  BY <1>2 DEF Restart
<1>3. ASSUME NEW d \in Setbacks, SetBack(d) PROVE UNCHANGED <<tier, folded>>
  BY <1>3 DEF SetBack
<1> QED
  BY <1>1, <1>2, <1>3 DEF Next

LEMMA NextTiersTyped == Typed /\ TiersTyped /\ Next => TiersTyped'
<1> SUFFICES ASSUME Typed, TiersTyped, Next PROVE TiersTyped'
  OBVIOUS
<1>1. CASE UNCHANGED <<tier, folded>>
  BY <1>1 DEF TiersTyped
<1>2. CASE RollUp
  <2>1. DOMAIN tier' = Sizes /\ \A s \in Sizes : tier'[s] = Fold(tier[s], s)
    BY <1>2 DEF RollUp
  <2>2. /\ folded \subseteq folded'
        /\ {q \in raw : q.ts >= LookFrom} \subseteq folded'
    BY <1>2 DEF RollUp
  <2>3. ASSUME NEW s \in Sizes, NEW b \in DOMAIN Fold(tier[s], s)
        PROVE  /\ b % s = 0 /\ Fold(tier[s], s)[b] \subseteq folded'
               /\ \E r \in folded' : b = BucketOf(r, s)
    <3>1. b \in DOMAIN tier[s] \/ \E r \in {q \in raw : q.ts >= LookFrom} : b = BucketOf(r, s)
      BY <2>3 DEF Fold
    <3>2. b % s = 0
      BY <3>1, RowBucket DEF TiersTyped, Typed
    <3>4. \E r \in folded' : b = BucketOf(r, s)
      BY <2>2, <3>1 DEF TiersTyped
    <3>3. \/ Fold(tier[s], s)[b] \subseteq {q \in raw : q.ts >= LookFrom}
          \/ b \in DOMAIN tier[s] /\ Fold(tier[s], s)[b] = tier[s][b]
      BY <2>3 DEF Fold
    <3> QED
      BY <2>2, <3>2, <3>3, <3>4 DEF TiersTyped
  <2> QED
    BY <2>1, <2>3 DEF TiersTyped
<1>3. CASE Prune
  <2>1. folded' = folded
    BY <1>3 DEF Prune
  <2> QED
    BY <1>3, <2>1 DEF TiersTyped, Prune
<1> QED
  BY <1>1, <1>2, <1>3, TiersChange

\* The clock and what it has lost move on together, whatever step is taken.
LEMMA ClockMoves ==
  ASSUME Typed, Next
  PROVE  /\ Lost \in Nat /\ setbacks' * MaxBack \in Nat /\ Lost <= setbacks' * MaxBack
         /\ now \in Nat /\ now' \in Nat /\ now + Lost <= now' + setbacks' * MaxBack
<1> DEFINE lost == setbacks' * MaxBack
           next == now'
<1> HIDE DEF lost, next
<1> SUFFICES /\ Lost \in Nat /\ lost \in Nat /\ Lost <= lost
             /\ now \in Nat /\ next \in Nat /\ now + Lost <= next + lost
  BY DEF lost, next
<1> USE DEF tables, loop, counts
<1>1. Lost \in Nat /\ now \in Nat /\ next \in Nat /\ MaxBack \in Nat
  BY LostBounds, NextTyped, RollupAssumption DEF Typed, RollupAssumption, next
<1>2. ASSUME setbacks' = setbacks PROVE lost = Lost
  BY <1>2 DEF Lost, lost
<1>3. CASE Sample \/ RollUp \/ RollUpFails \/ NoRollUp \/ Prune \/ NoPrune \/ Stop
  <2>1. setbacks' = setbacks /\ (next = now \/ next = now + 1)
    BY <1>3 DEF Sample, RollUp, RollUpFails, NoRollUp, Prune, NoPrune, Stop, vars, next
  <2> QED
    BY <2>1, <1>1, <1>2
<1>4. ASSUME NEW gap \in Gaps, Restart(gap) PROVE setbacks' = setbacks /\ now <= next
  BY <1>1, <1>4, RollupAssumption DEF RollupAssumption, Restart, next
<1>5. ASSUME NEW d \in Setbacks, SetBack(d)
      PROVE  lost = Lost + MaxBack /\ now <= next + MaxBack
  BY <1>1, <1>5, LostGrows, RollupAssumption DEF RollupAssumption, SetBack, lost, next
<1> QED
  BY <1>1, <1>2, <1>3, <1>4, <1>5 DEF Next

LEMMA NextGoneIsOld == Typed /\ GoneIsOld /\ Next => GoneIsOld'
<1> SUFFICES ASSUME Typed, GoneIsOld, Next PROVE GoneIsOld'
  OBVIOUS
<1> DEFINE Stays == recorded' \ raw' \subseteq recorded \ raw
           lost == setbacks' * MaxBack
           next == now'
<1> HIDE DEF lost, next
<1>1. /\ Lost \in Nat /\ lost \in Nat /\ now \in Nat /\ next \in Nat
      /\ now + Lost <= next + lost /\ RawKeep \in Nat /\ \A r \in recorded : r.ts \in Nat
  BY ClockMoves, RollupAssumption DEF RollupAssumption, Typed, Row, lost, next
<1>2. CASE Stays
  <2> SUFFICES ASSUME NEW r \in recorded \ raw PROVE r.ts + RawKeep < next + lost
    BY <1>2 DEF GoneIsOld, Lost, lost, next
  <2>1. r.ts + RawKeep < now + Lost
    BY DEF GoneIsOld
  <2>2. r.ts \in Nat
    BY <1>1
  <2> QED
    BY <1>1, <2>1, <2>2
<1> USE DEF tables, loop, counts
<1>3. CASE Sample \/ RollUp \/ RollUpFails \/ NoRollUp \/ NoPrune \/ Stop
  <2>1. Stays
    BY <1>3 DEF Sample, RollUp, RollUpFails, NoRollUp, NoPrune, Stop, vars
  <2> QED
    BY <2>1, <1>2
<1>4. CASE \/ \E gap \in Gaps : Restart(gap)
           \/ \E d \in Setbacks : SetBack(d)
  <2>1. Stays
    BY <1>4 DEF Restart, SetBack
  <2> QED
    BY <2>1, <1>2
<1>5. CASE Prune
  <2>1. now' = now /\ recorded' = recorded /\ lost = Lost
    BY <1>5 DEF Prune, Lost, lost, next
  <2> SUFFICES ASSUME NEW r \in recorded, r \notin raw' PROVE r.ts + RawKeep < now + Lost
    BY <2>1 DEF GoneIsOld, Lost, lost, next
  <2>2. r \notin raw \/ r.ts < now - RawKeep
    BY <1>1, <1>5 DEF Prune
  <2> QED
    BY <1>1, <2>2 DEF GoneIsOld
<1> QED
  BY <1>3, <1>4, <1>5 DEF Next

LEMMA NextMarks == Typed /\ MarksInv /\ Next => MarksInv'
<1> DEFINE lost == setbacks' * MaxBack
<1> HIDE DEF lost
<1> SUFFICES ASSUME Typed, MarksInv, Next
             PROVE  /\ hwm' <= now' + lost /\ lastRollup' <= now' + lost
                    /\ lastRollup' > 0 =>
                          now' - lastRollup' <= RollupEvery + (IF pc' = "rollup" THEN 1 ELSE 0)
                    /\ pc' = "prune" => lastRollup' > 0
  BY DEF MarksInv, Lost, lost
<1>1. /\ Lost \in Nat /\ lost \in Nat /\ now \in Nat /\ now' \in Nat
      /\ now + Lost <= now' + lost /\ RollupEvery \in Nat
      /\ hwm \in Nat /\ lastRollup \in Nat /\ now > RollupEvery
  BY ClockMoves, RollupAssumption DEF RollupAssumption, Typed, lost
<1> DEFINE Goal == /\ hwm' <= now' + lost /\ lastRollup' <= now' + lost
                   /\ lastRollup' > 0 =>
                         now' - lastRollup' <= RollupEvery + (IF pc' = "rollup" THEN 1 ELSE 0)
                   /\ pc' = "prune" => lastRollup' > 0
<1> USE DEF tables, loop, counts
<1>2. CASE Sample
  BY <1>1, <1>2 DEF Sample, MarksInv
<1>3. CASE RollUp
  BY <1>1, <1>3 DEF RollUp, MarksInv
<1>4. CASE RollUpFails
  BY <1>1, <1>4 DEF RollUpFails, MarksInv
<1>5. CASE NoRollUp
  BY <1>1, <1>5 DEF NoRollUp, RollupDue, MarksInv
<1>6. CASE Prune \/ NoPrune
  BY <1>1, <1>6 DEF Prune, NoPrune, MarksInv
<1>7. CASE Stop
  BY <1>1, <1>7 DEF Stop, vars, MarksInv
<1>8. ASSUME NEW gap \in Gaps, Restart(gap) PROVE Goal
  BY <1>1, <1>8 DEF Restart, MarksInv
<1>9. ASSUME NEW d \in Setbacks, SetBack(d) PROVE Goal
  <2>1. d \in Nat /\ now' <= now
    BY <1>9, <1>1, RollupAssumption DEF RollupAssumption, SetBack
  <2> QED
    BY <1>1, <1>9, <2>1 DEF SetBack, MarksInv
<1> QED
  BY <1>2, <1>3, <1>4, <1>5, <1>6, <1>7, <1>8, <1>9 DEF Next

\* Whatever step is taken but a rollup, the time a row has waited for one grows by no
\* more than what is accounted for it.
LEMMA LagMoves ==
  ASSUME Typed, MarksInv, Next, ~RollUp,
         NEW lag, lag = failures' * (RollupEvery + 1) + restarts' * (MaxGap + 1)
                          + setbacks' * MaxBack
                          + (IF lastRollup' = 0
                             THEN RollupEvery + (IF pc' = "sample" THEN 0 ELSE 1)
                             ELSE now' - lastRollup'),
         NEW next, next = now'
  PROVE  /\ Lag \in Int /\ lag \in Int /\ next - now <= lag - Lag
         /\ Sample => lag >= 0
<1> DEFINE lost == setbacks' * MaxBack
           F  == failures * (RollupEvery + 1)
           R  == restarts * (MaxGap + 1)
           pos == IF lastRollup = 0 THEN RollupEvery + (IF pc = "sample" THEN 0 ELSE 1)
                  ELSE now - lastRollup
           F1 == failures' * (RollupEvery + 1)
           R1 == restarts' * (MaxGap + 1)
           tried == lastRollup'
           pos1 == IF tried = 0 THEN RollupEvery + (IF pc' = "sample" THEN 0 ELSE 1)
                   ELSE next - tried
<1>1. /\ now \in Nat /\ RollupEvery \in Nat /\ MaxGap \in Nat /\ MaxBack \in Nat
      /\ lastRollup \in Nat /\ now > RollupEvery
      /\ failures \in Nat /\ restarts \in Nat
      /\ Gaps \subseteq 0..MaxGap /\ Setbacks \subseteq 0..MaxBack
  BY RollupAssumption DEF RollupAssumption, Typed
<1>2. \A n, m \in Nat : /\ n * (m + 1) \in Nat
                        /\ (n + 1) * (m + 1) = n * (m + 1) + (m + 1)
  OBVIOUS
<1>3. F \in Nat /\ R \in Nat /\ (failures + 1) * (RollupEvery + 1) = F + RollupEvery + 1
      /\ (restarts + 1) * (MaxGap + 1) = R + MaxGap + 1
  BY <1>1, <1>2
<1>4. Lost \in Nat /\ lost \in Nat /\ Lost <= lost /\ next \in Nat /\ now + Lost <= next + lost
  BY ClockMoves
<1>5. Lag = F + R + Lost + pos
  BY DEF Lag
<1>6. lag = F1 + R1 + lost + pos1
  OBVIOUS
<1>7. /\ lastRollup <= now + Lost
      /\ lastRollup > 0 => now - lastRollup <= RollupEvery + (IF pc = "rollup" THEN 1 ELSE 0)
      /\ pc = "prune" => lastRollup > 0
  BY DEF MarksInv
<1> HIDE DEF lost, F, R, F1, R1, tried
<1> DEFINE Goal == /\ lag \in Int /\ next - now <= lag - Lag
                   /\ Sample => lag >= 0
<1>8. pos \in Int /\ Lag \in Int
  BY <1>1, <1>3, <1>4, <1>5
<1> SUFFICES Goal
  BY <1>8
<1>9. ASSUME failures' = failures PROVE F1 = F
  BY <1>9 DEF F, F1
<1>10. ASSUME restarts' = restarts PROVE R1 = R
  BY <1>10 DEF R, R1
<1>11. ASSUME setbacks' = setbacks PROVE lost = Lost
  BY <1>11 DEF Lost, lost
<1> USE DEF tables, loop, counts
<1>12. CASE Sample
  <2>1. /\ F1 = F /\ R1 = R /\ lost = Lost
        /\ tried = lastRollup /\ next = now + 1 /\ pc = "sample" /\ pc' = "rollup"
    BY <1>9, <1>10, <1>11, <1>12 DEF Sample, tried
  <2>2. pos1 = pos + 1 /\ pos1 + Lost >= 0
    BY <1>1, <1>4, <1>7, <2>1
  <2> HIDE DEF pos, pos1
  <2>3. lag = F + R + Lost + pos1 /\ lag = Lag + 1
    BY <1>3, <1>4, <1>5, <1>6, <1>8, <2>1, <2>2
  <2>4. lag >= 0
    BY <1>3, <1>4, <1>8, <2>2, <2>3
  <2> QED
    BY <1>1, <1>8, <2>1, <2>3, <2>4
<1>13. CASE RollUpFails
  <2>1. /\ F1 = F + RollupEvery + 1 /\ R1 = R /\ lost = Lost
        /\ tried = now /\ next = now /\ pc = "rollup" /\ ~Sample
    BY <1>3, <1>10, <1>11, <1>13 DEF RollUpFails, Sample, tried, F1
  <2>2. pos1 = 0 /\ pos <= RollupEvery + 1
    BY <1>1, <1>7, <2>1
  <2> HIDE DEF pos, pos1
  <2> QED
    BY <1>1, <1>3, <1>4, <1>5, <1>6, <1>8, <2>1, <2>2
<1>14. CASE NoRollUp \/ Prune \/ NoPrune \/ Stop
  <2>1. /\ F1 = F /\ R1 = R /\ lost = Lost /\ tried = lastRollup /\ next = now
        /\ ~Sample /\ (lastRollup = 0 => pc' = pc)
    <3>1. lastRollup = 0 => RollupDue
      BY <1>1 DEF RollupDue
    <3>2. /\ failures' = failures /\ restarts' = restarts /\ setbacks' = setbacks
          /\ lastRollup' = lastRollup /\ now' = now
      BY <1>14 DEF NoRollUp, Prune, NoPrune, Stop, vars
    <3>3. lastRollup = 0 => pc' = pc
      BY <1>1, <1>7, <1>14, <3>1 DEF NoRollUp, Prune, NoPrune, Stop, vars
    <3>4. ~Sample
      BY <1>1, <3>2 DEF Sample
    <3> QED
      BY <1>9, <1>10, <1>11, <3>2, <3>3, <3>4 DEF tried
  <2>2. pos1 = pos
    BY <2>1
  <2> HIDE DEF pos, pos1
  <2> QED
    BY <1>3, <1>4, <1>5, <1>6, <1>8, <2>1, <2>2
<1>15. ASSUME NEW gap \in Gaps, Restart(gap) PROVE Goal
  <2>1. /\ F1 = F /\ R1 = R + MaxGap + 1 /\ lost = Lost /\ tried = 0
        /\ next = now + gap /\ pc' = "sample" /\ ~Sample
    BY <1>3, <1>9, <1>11, <1>15 DEF Restart, Sample, tried, R1
  <2>2. pos1 = RollupEvery /\ pos <= RollupEvery + 1 /\ gap \in 0..MaxGap
    BY <1>1, <1>7, <2>1
  <2> HIDE DEF pos, pos1
  <2> QED
    BY <1>1, <1>3, <1>4, <1>5, <1>6, <1>8, <2>1, <2>2
<1>16. ASSUME NEW d \in Setbacks, SetBack(d) PROVE Goal
  <2>1. /\ F1 = F /\ R1 = R /\ lost = Lost + MaxBack /\ tried = lastRollup
        /\ next = now - d /\ pc' = pc /\ d \in 0..MaxBack
    BY <1>1, <1>9, <1>10, <1>16, LostGrows DEF SetBack, tried, lost
  <2>2. ~Sample
    BY <1>1, <2>1, <1>16 DEF Sample, SetBack
  <2>3. pos1 >= pos - d /\ pos1 \in Int
    BY <1>1, <2>1
  <2> HIDE DEF pos, pos1
  <2> QED
    BY <1>1, <1>3, <1>4, <1>5, <1>6, <1>8, <2>1, <2>2, <2>3
<1> QED
  BY <1>12, <1>13, <1>14, <1>15, <1>16 DEF Next

LEMMA NextUnfolded == Typed /\ MarksInv /\ UnfoldedIsYoung /\ Next => UnfoldedIsYoung'
<1> SUFFICES ASSUME Typed, MarksInv, UnfoldedIsYoung, Next PROVE UnfoldedIsYoung'
  OBVIOUS
<1> USE DEF tables, loop, counts
<1>1. CASE RollUp
  <2>1. raw' \subseteq folded'
    BY <1>1, RollUpFoldsAll DEF RollUp
  <2> QED
    BY <2>1 DEF UnfoldedIsYoung
<1>2. CASE ~RollUp
  <2> DEFINE lost == setbacks' * MaxBack
             lag == failures' * (RollupEvery + 1) + restarts' * (MaxGap + 1) + lost
                      + (IF lastRollup' = 0
                         THEN RollupEvery + (IF pc' = "sample" THEN 0 ELSE 1)
                         ELSE now' - lastRollup')
             next == now'
             mark == hwm'
  <2>1. Lag \in Int /\ lag \in Int /\ next - now <= lag - Lag /\ (Sample => lag >= 0)
    BY <1>2, LagMoves
  <2>2. SUFFICES ASSUME NEW r \in raw' \ folded'
                 PROVE  (mark = 0 \/ mark <= r.ts + lost) /\ next <= r.ts + lag
    BY DEF UnfoldedIsYoung, Lag, Lost
  <2> HIDE DEF lost, lag, next, mark
  <2>3. /\ Lost \in Nat /\ lost \in Nat /\ Lost <= lost /\ now \in Nat /\ next \in Nat
        /\ now + Lost <= next + lost
    BY ClockMoves DEF lost, next
  <2>4. mark = 0 \/ mark = hwm
    BY <1>2 DEF Next, Sample, RollUpFails, NoRollUp, Prune, NoPrune, Stop, vars, Restart,
                SetBack, mark
  <2>5. \/ r \in raw \ folded
        \/ Sample /\ r.ts = next
    <3>1. CASE Sample
      <4>1. raw' = raw \cup {[ts |-> now', era |-> setbacks]} /\ folded' = folded
        BY <3>1 DEF Sample
      <4> QED
        BY <3>1, <4>1 DEF next
    <3>2. CASE ~Sample
      <4>1. raw' \subseteq raw /\ folded' = folded
        BY <1>2, <3>2 DEF Next, RollUpFails, NoRollUp, Prune, NoPrune, Stop, vars, Restart,
                          SetBack
      <4> QED
        BY <4>1
    <3> QED
      BY <3>1, <3>2
  <2>6. CASE r \in raw \ folded
    <3>1. (hwm = 0 \/ hwm <= r.ts + Lost) /\ now <= r.ts + Lag /\ r.ts \in Nat /\ hwm \in Nat
      BY <2>6 DEF UnfoldedIsYoung, Typed, Row
    <3>2. mark = 0 \/ mark <= r.ts + lost
      BY <2>3, <2>4, <3>1
    <3>3. next <= r.ts + lag
      BY <2>1, <2>3, <3>1
    <3> QED
      BY <3>2, <3>3
  <2>7. CASE Sample /\ r.ts = next
    <3>1. hwm <= now + Lost /\ hwm \in Nat
      BY DEF MarksInv, Typed
    <3> QED
      BY <2>1, <2>3, <2>4, <2>7, <3>1
  <2> QED
    BY <2>5, <2>6, <2>7
<1> QED
  BY <1>1, <1>2

\* What a chart looks for leaves the tiers no earlier than the chart may (db.py:2004-
\* 2012).
LEMMA NextTiersHold == Typed /\ TiersTyped /\ TiersHold /\ Next => TiersHold'
<1> SUFFICES ASSUME Typed, TiersTyped, TiersHold, Next, setbacks' = 0,
                    NEW s \in Sizes, NEW r \in folded', BucketOf(r, s) >= now' - Keep[s]
             PROVE  BucketOf(r, s) \in DOMAIN tier'[s]
  BY DEF TiersHold, BucketOf
<1>1. setbacks = 0 /\ ~ \E d \in Setbacks : SetBack(d)
  <2>1. setbacks \in Nat
    BY DEF Typed
  <2>2. \A d \in Setbacks : SetBack(d) => setbacks' = setbacks + 1
    BY DEF SetBack
  <2>3. ~ \E d \in Setbacks : SetBack(d)
    BY <2>1, <2>2
  <2> QED
    BY <2>3 DEF Next, Sample, RollUp, RollUpFails, NoRollUp, Prune, NoPrune, Stop, vars, Restart,
                counts
<1>2. now \in Nat /\ now <= now' /\ now' \in Nat /\ Keep[s] \in Nat
  <2>1. now \in Nat /\ Keep[s] \in Nat
    BY RollupAssumption DEF Typed, RollupAssumption
  <2>2. \/ now' = now \/ now' = now + 1
        \/ \E gap \in Nat : now' = now + gap
    BY <1>1, RollupAssumption
    DEF RollupAssumption, Next, Sample, RollUp, RollUpFails, NoRollUp, Prune, NoPrune, Stop,
        vars, Restart
  <2> QED
    BY <2>1, <2>2
<1>3. r \in folded \/ (RollUp /\ r \in raw /\ r.ts >= LookFrom)
  BY <1>1 DEF Next, Sample, RollUp, RollUpFails, NoRollUp, Prune, NoPrune, Stop, vars, Restart
<1>4. r \in Row /\ BucketOf(r, s) \in Nat
  <2>1. r \in Row
    BY <1>3 DEF Typed
  <2> QED
    BY <2>1, RowBucket
<1>5. r \in folded => BucketOf(r, s) \in DOMAIN tier[s]
  <2>1. BucketOf(r, s) >= now - Keep[s]
    BY <1>2, <1>4
  <2> QED
    BY <1>1, <2>1 DEF TiersHold
<1>6. CASE UNCHANGED <<tier, folded>>
  BY <1>5, <1>6
<1>7. CASE RollUp
  <2>1. tier'[s] = Fold(tier[s], s)
    BY <1>7 DEF RollUp
  <2>2. BucketOf(r, s) \in DOMAIN Fold(tier[s], s)
    BY <1>3, <1>5 DEF Fold
  <2> QED
    BY <2>1, <2>2
<1>8. CASE Prune
  <2>1. now' = now /\ folded' = folded /\ tier'[s]
            = [b \in {x \in DOMAIN tier[s] : x >= now - Keep[s]} |-> tier[s][b]]
    BY <1>8 DEF Prune
  <2>2. r \in folded
    BY <2>1
  <2> QED
    BY <1>5, <2>1, <2>2
<1> QED
  BY <1>6, <1>7, <1>8, TiersChange

-----------------------------------------------------------------------------
LEMMA IInvHolds == Spec => []IInv
<1>1. IInv /\ Next => IInv'
  <2> SUFFICES ASSUME IInv, Next PROVE IInv'
    OBVIOUS
  <2> QED
    BY NextTyped, NextTiersTyped, NextGoneIsOld, NextMarks, NextUnfolded, NextTiersHold
    DEF IInv
<1>2. IInv /\ UNCHANGED vars => IInv'
  BY DEF IInv, Typed, TiersTyped, GoneIsOld, MarksInv, UnfoldedIsYoung, TiersHold, BucketOf,
         Lag, Lost, vars, tables, loop, counts
<1> QED
  BY InitIInv, <1>1, <1>2, PTL DEF Spec

\* For any tiers, a rollup leaves the open and the previous bucket of each averaging all
\* their rows, whatever failed or restarted (db.py:1943-1944).
THEOREM RecentBucketsStayExact == Spec => RecentBucketsExact
<1> DEFINE Exact == RollUp => \A s \in Sizes : \A b \in OpenAndPrevious(s) :
              InBucket(b, s) # {} => b \in DOMAIN tier'[s] /\ tier'[s][b] = InBucket(b, s)
<1>1. IInv => Exact
  <2> SUFFICES ASSUME IInv, RollUp, NEW s \in Sizes, NEW b \in OpenAndPrevious(s),
                      InBucket(b, s) # {}
               PROVE  b \in DOMAIN tier'[s] /\ tier'[s][b] = InBucket(b, s)
    OBVIOUS
  <2> USE DEF IInv
  <2>1. ASSUME NEW r \in InBucket(b, s)
        PROVE  r \in raw /\ r.ts >= LookFrom /\ BucketOf(r, s) = b
    <3>1. r \in recorded /\ r \in Row /\ BucketOf(r, s) = b
      BY <2>1 DEF InBucket, Typed
    <3>2. now - 2 * s < r.ts /\ r.ts \in Nat
      BY <3>1, RecentBound DEF Row
    <3>3. LookFrom <= r.ts /\ LookFrom \in Nat
      BY <3>2, ScanReaches
    <3>4. r \in raw
      BY <3>1, <3>2, RecentIsRaw
    <3> QED
      BY <3>1, <3>2, <3>3, <3>4
  <2>2. tier'[s] = Fold(tier[s], s)
    BY DEF RollUp
  <2>3. InBucket(b, s) = {q \in raw : q.ts >= LookFrom /\ BucketOf(q, s) = b}
    BY <2>1 DEF InBucket, Typed
  <2>4. PICK r \in raw : r.ts >= LookFrom /\ BucketOf(r, s) = b
    BY <2>1
  <2>5. b \in DOMAIN Fold(tier[s], s)
    BY <2>4 DEF Fold
  <2>6. Fold(tier[s], s)[b] = {q \in raw : q.ts >= LookFrom /\ BucketOf(q, s) = b}
    BY <2>4 DEF Fold
  <2> QED
    BY <2>2, <2>3, <2>5, <2>6
<1> HIDE DEF Exact
<1>2. Spec => [][Exact]_vars
  BY <1>1, IInvHolds, PTL DEF Spec
<1> QED
  BY <1>2 DEF RecentBucketsExact, Exact

\* The tier a chart reads: the raw rows for a window they cover, or one of the tiers
\* (db.py:575-593).
LEMMA PickedTier ==
  ASSUME NEW secs \in Spans, NEW end
  PROVE  \/ PickTier(secs, end) = 0 /\ Reach(secs, end) <= RawKeep
         \/ PickTier(secs, end) \in Sizes /\ PickTier(secs, end) # 0
<1>1. Finest \in Sizes /\ Coarsest \in Sizes
  BY TiersAssumption DEF TiersAssumption, Finest, Coarsest
<1>2. 0 \notin Sizes
  BY RollupAssumption DEF RollupAssumption
<1> QED
  BY <1>1, <1>2 DEF PickTier

\* A chart finds every row of its window in the table it picks (db.py:575-626).
LEMMA ChartsFind == IInv => NothingBlank
<1> SUFFICES ASSUME IInv, setbacks = 0, NEW secs \in Spans, NEW p \in Pans
             PROVE  LET end == now - p
                        size == PickTier(secs, end)
                        stamps == IF size = 0 THEN {r.ts : r \in recorded}
                                  ELSE {b \in {BucketOf(r, size) : r \in folded} :
                                           b >= now - Keep[size]}
                    IN  {t \in stamps : t \in end - secs .. end} \subseteq Series(secs, end)
  BY DEF NothingBlank
<1> DEFINE end == now - p
           size == PickTier(secs, end)
<1> USE DEF IInv
<1>1. now \in Nat /\ p \in Nat /\ secs \in Nat /\ RawKeep \in Nat /\ end \in Int
  BY RollupAssumption DEF Typed, RollupAssumption
<1>2. CASE size = 0 /\ Reach(secs, end) <= RawKeep
  <2> SUFFICES ASSUME NEW r \in recorded, r.ts \in end - secs .. end PROVE r \in raw
    BY <1>2 DEF Series
  <2>1. r.ts \in Nat /\ now - (end - secs) <= RawKeep
    BY <1>2 DEF Typed, Row, Reach
  <2>2. r.ts >= now - RawKeep
    BY <1>1, <2>1
  <2>3. Lost = 0
    <3>1. MaxBack \in Nat
      BY RollupAssumption DEF RollupAssumption
    <3> QED
      BY <3>1 DEF Lost
  <2> QED
    BY <1>1, <2>1, <2>2, <2>3 DEF GoneIsOld
<1>3. CASE size \in Sizes /\ size # 0
  <2> SUFFICES ASSUME NEW r \in folded, BucketOf(r, size) >= now - Keep[size]
               PROVE  BucketOf(r, size) \in DOMAIN tier[size]
    BY <1>3 DEF Series
  <2> QED
    BY <1>3 DEF TiersHold
<1> QED
  BY <1>2, <1>3, PickedTier

LEMMA InvIsTyped == IInv => TypeOK
BY DEF IInv, Typed, TiersTyped, TypeOK

\* A row that is deleted from the raw table is in the tiers: it is older than anything
\* that is not (db.py:1950-1952).
LEMMA PrunedIsFolded == IInv /\ Next => raw \ raw' \subseteq folded
<1> SUFFICES ASSUME IInv, Next, NEW r \in raw, r \notin raw', r \notin folded PROVE FALSE
  OBVIOUS
<1> USE DEF IInv
<1>1. Prune
  BY DEF Next, Sample, RollUp, RollUpFails, NoRollUp, NoPrune, Stop, Restart, SetBack, vars,
         tables
<1>2. r.ts < now - RawKeep
  <2>1. r.ts \in Nat /\ now \in Nat /\ RawKeep \in Nat
    BY RollupAssumption DEF Typed, Row, RollupAssumption
  <2> QED
    BY <1>1, <2>1 DEF Prune
<1>3. now <= r.ts + Lag
  BY DEF UnfoldedIsYoung
<1> DEFINE F == failures * (RollupEvery + 1)
           R == restarts * (MaxGap + 1)
           F1 == MaxFailures * (RollupEvery + 1)
           R1 == MaxRestarts * (MaxGap + 1)
           L1 == MaxSetbacks * MaxBack
<1>4. /\ RollupEvery \in Nat /\ MaxGap \in Nat /\ failures \in 0..MaxFailures
      /\ restarts \in 0..MaxRestarts /\ MaxFailures \in Nat /\ MaxRestarts \in Nat
      /\ RawKeep \in Nat /\ now \in Nat /\ lastRollup \in Nat /\ r.ts \in Nat
  BY RollupAssumption DEF Typed, Row, RollupAssumption
<1>5. \A a, b, c \in Nat : a <= b => a * (c + 1) <= b * (c + 1) /\ a * (c + 1) \in Nat
                                    /\ b * (c + 1) \in Nat
  OBVIOUS
<1>6. F <= F1 /\ R <= R1 /\ F \in Nat /\ F1 \in Nat /\ R \in Nat /\ R1 \in Nat
  BY <1>4, <1>5
<1>7. Lost <= L1 /\ Lost \in Nat /\ L1 \in Nat
  BY LostBounds
<1>8. F1 + R1 + L1 + RollupEvery <= RawKeep
  BY RetentionAssumption DEF RetentionAssumption
<1>9. lastRollup > 0 /\ now - lastRollup <= RollupEvery
  BY <1>1, <1>4 DEF Prune, MarksInv
<1>10. Lag = F + R + Lost + (now - lastRollup)
  BY <1>4, <1>9 DEF Lag
<1> HIDE DEF F, R, F1, R1, L1
<1>11. Lag <= RawKeep /\ Lag \in Int
  BY <1>4, <1>6, <1>7, <1>8, <1>9, <1>10
<1> QED
  BY <1>2, <1>3, <1>4, <1>11

\* No row is lost to the tiers nor to the charts: none is left behind by a rollup or
\* pruned before it is folded, and no chart is blank where the tables have rows
\* (db.py:575-626, 1943-1963).
THEOREM NoRowIsLost == Spec => NoRowLost
<1> DEFINE Stranded == RollUp => raw \subseteq folded'
           Pruned == raw \ raw' \subseteq folded
<1>1. IInv => TypeOK /\ NothingBlank
  BY InvIsTyped, ChartsFind
<1>2. IInv => Stranded
  BY RollUpFoldsAll DEF IInv
<1>3. IInv /\ Next => Pruned
  BY PrunedIsFolded
<1>4. UNCHANGED vars => Pruned
  BY DEF vars, tables
<1> HIDE DEF Stranded, Pruned
<1>5. Spec => [](TypeOK /\ NothingBlank)
  BY <1>1, IInvHolds, PTL
<1>6. Spec => [][Stranded]_vars
  BY <1>2, IInvHolds, PTL DEF Spec
<1>7. Spec => [][Pruned]_vars
  BY <1>3, <1>4, IInvHolds, PTL DEF Spec
<1> QED
  BY <1>5, <1>6, <1>7 DEF NoRowLost, NothingStranded, FoldedBeforePruned, Stranded, Pruned

-----------------------------------------------------------------------------
(***************************************************************************)
(* Induction over the rows.  That numbers have a least one comes from the  *)
(* inclusion of finite sets, which is well-founded; so a set that holds 0  *)
(* and with each number the next holds all, and a function that is defined *)
(* by recursion up to n exists.                                            *)
(***************************************************************************)
LEMMA Least ==
  ASSUME NEW T \in SUBSET Nat, T # {}
  PROVE  \E x \in T : \A y \in T : x <= y
<1> DEFINE below(x) == 0..(x - 1)
           F == {below(x) : x \in T}
<1>1. F \subseteq FiniteSubsetsOf(Nat) /\ F # {}
  <2>1. \A x \in T : below(x) \in SUBSET Nat /\ IsFiniteSet(below(x))
    BY FS_Interval
  <2> QED
    BY <2>1 DEF FiniteSubsetsOf
<1>2. \E f \in F : \A g \in F : ~ (<<g, f>> \in StrictSubsetOrdering(Nat))
  <2> HIDE DEF F
  <2> QED
    BY <1>1, FS_StrictSubsetOrderingWellFounded, WFMin
<1>3. PICK x \in T : \A y \in T : ~ (<<below(y), below(x)>> \in StrictSubsetOrdering(Nat))
  BY <1>2
<1>4. ASSUME NEW y \in T, y < x
      PROVE  <<below(y), below(x)>> \in StrictSubsetOrdering(Nat)
  <2>1. below(y) \in SUBSET Nat /\ below(x) \in SUBSET Nat /\ below(y) \subseteq below(x)
    BY <1>4
  <2>2. y \in below(x) /\ y \notin below(y)
    BY <1>4
  <2> QED
    BY <2>1, <2>2 DEF StrictSubsetOrdering
<1>5. \A y \in T : ~(y < x)
  BY <1>3, <1>4
<1> QED
  BY <1>5

LEMMA Induct ==
  ASSUME NEW S, 0 \in S, \A n \in Nat : n \in S => n + 1 \in S
  PROVE  Nat \subseteq S
<1> SUFFICES ASSUME Nat \ S # {} PROVE FALSE
  OBVIOUS
<1>1. PICK x \in Nat \ S : \A y \in Nat \ S : x <= y
  BY Least
<1>2. x # 0 /\ x - 1 \in Nat /\ x - 1 \in S
  BY <1>1
<1> QED
  BY <1>1, <1>2

IsStep(step, n, S) == step \in [1..n -> [S -> S]]

\* g is what the first steps make of the base.
IsFold(g, n, S, base, step) ==
    g \in [0..n -> S] /\ g[0] = base /\ \A i \in 1..n : g[i] = step[i][g[i - 1]]

LEMMA Recursion ==
  ASSUME NEW S, NEW n \in Nat, NEW step, IsStep(step, n, S), NEW base \in S
  PROVE  \E g : IsFold(g, n, S, base, step)
<1> DEFINE Ok(k, g) == /\ g \in [0..k -> S] /\ g[0] = base
                       /\ \A i \in 1..k : g[i] = step[i][g[i - 1]]
           Good == {k \in Nat : k <= n => \E g : Ok(k, g)}
<1>1. 0 \in Good
  <2>1. Ok(0, [i \in 0..0 |-> base])
    OBVIOUS
  <2> QED BY <2>1
<1>2. ASSUME NEW k \in Nat, k \in Good, k + 1 <= n PROVE \E g : Ok(k + 1, g)
  <2>1. PICK g : Ok(k, g)
    BY <1>2
  <2>2. g[k] \in S /\ step[k + 1] \in [S -> S] /\ step[k + 1][g[k]] \in S
    BY <1>2, <2>1 DEF IsStep
  <2> DEFINE h == [i \in 0..(k + 1) |-> IF i <= k THEN g[i] ELSE step[k + 1][g[k]]]
  <2>3. h \in [0..(k + 1) -> S]
    BY <2>1, <2>2
  <2>4. h[0] = base
    BY <2>1
  <2>5. \A i \in 1..(k + 1) : h[i] = step[i][h[i - 1]]
    <3> TAKE i \in 1..(k + 1)
    <3>1. CASE i <= k
      <4>1. h[i] = g[i] /\ h[i - 1] = g[i - 1]
        BY <3>1
      <4> QED BY <2>1, <3>1, <4>1
    <3>2. CASE i = k + 1
      <4>1. h[i] = step[k + 1][g[k]] /\ h[i - 1] = g[k]
        BY <3>2
      <4> QED BY <3>2, <4>1
    <3> QED BY <3>1, <3>2
  <2> HIDE DEF h
  <2> QED BY <2>3, <2>4, <2>5
<1>3. n \in Good
  <2>1. \A k \in Nat : k \in Good => k + 1 \in Good
    BY <1>2
  <2> HIDE DEF Good
  <2> QED BY <1>1, <2>1, Induct
<1> QED
  BY <1>3 DEF IsFold

-----------------------------------------------------------------------------
(***************************************************************************)
(* The lane of the site.  R is what was read: rows no further apart than   *)
(* the threshold make a run, and the runs leave out what lies between.     *)
(***************************************************************************)
Shade == {"up", "down"}
Seg == [from : Nat, to : Nat, up : Shade]
Run == [from : Nat, to : Nat]

\* The runs of the rows of R up to the tick i.
RunsOk(runs, m, R, i, h) ==
    /\ \A k \in 1..m : /\ runs[k].from \in R /\ runs[k].from \in Nat
                       /\ runs[k].to \in R /\ runs[k].to \in Nat
                       /\ runs[k].from <= runs[k].to /\ runs[k].to <= i
    /\ \A k, l \in 1..m : k < l => runs[l].from - runs[k].to > h
    /\ \A r \in R : r <= i => \E k \in 1..m : runs[k].from <= r /\ r <= runs[k].to
    /\ \A k \in 1..m, t \in Nat : runs[k].from <= t /\ t < runs[k].to =>
           \E a, b \in R : a <= t /\ t < b /\ b - a <= h

LEMMA JoinIs ==
  ASSUME NEW runs \in Seq(Run), NEW ts \in Nat, NEW h \in Nat
  PROVE  LET r == Join(runs, ts, h)
             m == Len(runs)
         IN  /\ r \in Seq(Run)
             /\ \/ /\ m = 0 \/ ts - runs[m].to > h
                   /\ Len(r) = m + 1 /\ r[m + 1] = [from |-> ts, to |-> ts]
                   /\ \A k \in 1..m : r[k] = runs[k]
                \/ /\ m > 0 /\ ~(ts - runs[m].to > h)
                   /\ Len(r) = m /\ r[m] = [from |-> runs[m].from, to |-> ts]
                   /\ \A k \in 1..(m - 1) : r[k] = runs[k]
<1> DEFINE r == Join(runs, ts, h)
           m == Len(runs)
<1>1. CASE runs = << >> \/ ts - runs[m].to > h
  <2> DEFINE e == [from |-> ts, to |-> ts]
  <2>1. e \in Run
    BY DEF Run
  <2>2. r = Append(runs, e)
    BY <1>1 DEF Join
  <2>3. m = 0 \/ ts - runs[m].to > h
    BY <1>1
  <2> HIDE DEF e
  <2>4. r \in Seq(Run) /\ Len(r) = m + 1 /\ r[m + 1] = e /\ \A k \in 1..m : r[k] = runs[k]
    BY <2>1, <2>2
  <2> QED
    BY <2>3, <2>4 DEF e
<1>2. CASE ~(runs = << >> \/ ts - runs[m].to > h)
  <2>1. m > 0 /\ m \in DOMAIN runs /\ runs[m] \in Run /\ DOMAIN runs = 1..m
    BY <1>2
  <2> DEFINE e == [runs[m] EXCEPT !.to = ts]
  <2>2. e = [from |-> runs[m].from, to |-> ts] /\ e \in Run
    BY <2>1, SMTT(30) DEF Run
  <2>3. r = [runs EXCEPT ![m] = e]
    BY <1>2 DEF Join
  <2> HIDE DEF e
  <2>4. r \in Seq(Run) /\ Len(r) = m /\ r[m] = e /\ \A k \in 1..(m - 1) : r[k] = runs[k]
    BY <2>1, <2>2, <2>3
  <2> QED
    BY <1>2, <2>1, <2>2, <2>4
<1> QED
  BY <1>1, <1>2

\* A row far from the last one starts a run of its own.
LEMMA RunsMore ==
  ASSUME NEW runs, NEW r, NEW m \in Nat, NEW R \in SUBSET Nat, NEW i \in Int,
         NEW h \in Nat, RunsOk(runs, m, R, i, h), i + 1 \in R,
         m = 0 \/ (i + 1) - runs[m].to > h,
         \A k \in 1..m : r[k] = runs[k], r[m + 1].from = i + 1, r[m + 1].to = i + 1
  PROVE  RunsOk(r, m + 1, R, i + 1, h)
<1>1. \A k \in 1..(m + 1) : k \in 1..m \/ k = m + 1
  OBVIOUS
<1>2. \A k \in 1..m : /\ runs[k].from \in R /\ runs[k].from \in Nat
                      /\ runs[k].to \in R /\ runs[k].to \in Nat
                      /\ runs[k].from <= runs[k].to /\ runs[k].to <= i
  BY DEF RunsOk
<1>3. \A k \in 1..(m + 1) : /\ r[k].from \in R /\ r[k].from \in Nat
                            /\ r[k].to \in R /\ r[k].to \in Nat
                            /\ r[k].from <= r[k].to /\ r[k].to <= i + 1
  BY <1>1, <1>2
<1>4. \A k \in 1..m : (i + 1) - runs[k].to > h
  <2> TAKE k \in 1..m
  <2>1. CASE k = m
    BY <2>1
  <2>2. CASE k < m
    <3>1. m \in 1..m /\ runs[m].from - runs[k].to > h
      BY <2>2 DEF RunsOk
    <3>2. runs[m].from <= i /\ runs[m].from \in Nat /\ runs[k].to \in Nat /\ runs[m].to \in Nat
      BY <1>2, <3>1
    <3> QED
      BY <3>1, <3>2
  <2> QED
    BY <2>1, <2>2
<1>5. ASSUME NEW k \in 1..(m + 1), NEW l \in 1..(m + 1), k < l
      PROVE  r[l].from - r[k].to > h
  <2>1. k \in 1..m
    BY <1>5
  <2>2. CASE l \in 1..m
    BY <1>5, <2>1, <2>2 DEF RunsOk
  <2>3. CASE l = m + 1
    BY <1>4, <2>1, <2>3
  <2> QED
    BY <1>1, <2>2, <2>3
<1>6. ASSUME NEW x \in R, x <= i + 1
      PROVE  \E k \in 1..(m + 1) : r[k].from <= x /\ x <= r[k].to
  <2>1. CASE x = i + 1
    <3>1. m + 1 \in 1..(m + 1) /\ r[m + 1].from <= x /\ x <= r[m + 1].to
      BY <2>1
    <3> QED
      BY <3>1
  <2>2. CASE x # i + 1
    <3>1. PICK k \in 1..m : runs[k].from <= x /\ x <= runs[k].to
      <4>1. x \in Nat
        OBVIOUS
      <4>2. x <= i
        BY <1>6, <2>2, <4>1
      <4> QED
        BY <4>2 DEF RunsOk
    <3>2. k \in 1..(m + 1) /\ r[k].from <= x /\ x <= r[k].to
      BY <3>1
    <3> QED
      BY <3>2
  <2> QED
    BY <2>1, <2>2
<1>7. ASSUME NEW k \in 1..(m + 1), NEW t \in Nat, r[k].from <= t, t < r[k].to
      PROVE  \E a, b \in R : a <= t /\ t < b /\ b - a <= h
  <2>1. k \in 1..m
    BY <1>1, <1>7
  <2> QED
    BY <1>7, <2>1 DEF RunsOk
<1> QED
  BY <1>3, <1>5, <1>6, <1>7 DEF RunsOk

\* A row near the last one makes its run longer.
LEMMA RunsLonger ==
  ASSUME NEW runs, NEW r, NEW m \in Nat, NEW R \in SUBSET Nat, NEW i \in Int,
         NEW h \in Nat, RunsOk(runs, m, R, i, h), i + 1 \in R,
         m > 0, ~((i + 1) - runs[m].to > h),
         \A k \in 1..(m - 1) : r[k] = runs[k], r[m].from = runs[m].from, r[m].to = i + 1
  PROVE  RunsOk(r, m, R, i + 1, h)
<1>1. \A k \in 1..m : /\ k \in 1..(m - 1) \/ k = m
                      /\ r[k].from = runs[k].from
                      /\ k # m => r[k].to = runs[k].to
  OBVIOUS
<1>2. \A k \in 1..m : /\ runs[k].from \in R /\ runs[k].from \in Nat
                      /\ runs[k].to \in R /\ runs[k].to \in Nat
                      /\ runs[k].from <= runs[k].to /\ runs[k].to <= i
  BY DEF RunsOk
<1>3. \A k \in 1..m : /\ r[k].from \in R /\ r[k].from \in Nat
                      /\ r[k].to \in R /\ r[k].to \in Nat
                      /\ r[k].from <= r[k].to /\ r[k].to <= i + 1
  BY <1>1, <1>2
<1>4. ASSUME NEW k \in 1..m, NEW l \in 1..m, k < l
      PROVE  r[l].from - r[k].to > h
  <2>1. k # m
    BY <1>4
  <2> QED
    BY <1>1, <1>4, <2>1 DEF RunsOk
<1>5. ASSUME NEW x \in R, x <= i + 1
      PROVE  \E k \in 1..m : r[k].from <= x /\ x <= r[k].to
  <2>1. CASE x = i + 1
    <3>1. m \in 1..m /\ r[m].from <= x /\ x <= r[m].to
      BY <1>1, <1>2, <2>1
    <3> QED
      BY <3>1
  <2>2. CASE x # i + 1
    <3>1. PICK k \in 1..m : runs[k].from <= x /\ x <= runs[k].to
      <4>1. x \in Nat
        OBVIOUS
      <4>2. x <= i
        BY <1>5, <2>2, <4>1
      <4> QED
        BY <4>2 DEF RunsOk
    <3>2. r[k].from <= x /\ x <= r[k].to
      BY <1>1, <1>5, <3>1
    <3> QED
      BY <3>2
  <2> QED
    BY <2>1, <2>2
<1>6. ASSUME NEW k \in 1..m, NEW t \in Nat, r[k].from <= t, t < r[k].to
      PROVE  \E a, b \in R : a <= t /\ t < b /\ b - a <= h
  <2>1. CASE t < runs[k].to
    BY <1>1, <1>6, <2>1 DEF RunsOk
  <2>2. CASE ~(t < runs[k].to)
    <3>1. k = m
      BY <1>1, <1>6, <2>2
    <3>2. runs[m].to \in R /\ runs[m].to <= t /\ t < i + 1 /\ (i + 1) - runs[m].to <= h
      BY <1>2, <1>6, <2>2, <3>1
    <3> QED
      BY <3>2
  <2> QED
    BY <2>1, <2>2
<1> QED
  BY <1>3, <1>4, <1>5, <1>6 DEF RunsOk

\* A tick without a row changes nothing.
LEMMA RunsSame ==
  ASSUME NEW runs, NEW m \in Nat, NEW R \in SUBSET Nat, NEW i \in Int,
         NEW h \in Nat, RunsOk(runs, m, R, i, h), i + 1 \notin R
  PROVE  RunsOk(runs, m, R, i + 1, h)
<1>1. \A r \in R : r <= i + 1 => r <= i
  OBVIOUS
<1>2. \A k \in 1..m : runs[k].to \in Nat /\ runs[k].to <= i /\ runs[k].to <= i + 1
  BY DEF RunsOk
<1> QED
  BY <1>1, <1>2 DEF RunsOk
\* The runs of all rows, which lie within n ticks after lo.
LEMMA RunsAre ==
  ASSUME NEW lo \in Int, NEW n \in Nat, NEW h \in Nat, NEW R \in SUBSET Nat,
         \A x \in R : lo < x /\ x <= lo + n
  PROVE  LET runs == Runs(R, lo, n, h)[n]
         IN  runs \in Seq(Run) /\ RunsOk(runs, Len(runs), R, lo + n, h)
<1> DEFINE f == Runs(R, lo, n, h)
           step == [i \in 1..n |->
                      [s \in Seq(Run) |-> IF lo + i \in R THEN Join(s, lo + i, h) ELSE s]]
           Is(g) == g = [i \in 0..n |-> IF i = 0 THEN << >>
                                        ELSE IF lo + i \in R THEN Join(g[i - 1], lo + i, h)
                                        ELSE g[i - 1]]
           Right == {i \in Nat : i <= n =>
                        f[i] \in Seq(Run) /\ RunsOk(f[i], Len(f[i]), R, lo + i, h)}
<1>1. IsStep(step, n, Seq(Run))
  <2>1. ASSUME NEW i \in 1..n, NEW s \in Seq(Run), lo + i \in R
        PROVE  Join(s, lo + i, h) \in Seq(Run)
    <3>1. lo + i \in Nat
      BY <2>1
    <3> QED
      BY <3>1, JoinIs
  <2> QED
    BY <2>1 DEF IsStep
<1>2. \A i \in 1..n, s \in Seq(Run) : step[i][s] = IF lo + i \in R THEN Join(s, lo + i, h) ELSE s
  OBVIOUS
<1> HIDE DEF step
<1>3. << >> \in Seq(Run) /\ Len(<< >>) = 0
  OBVIOUS
<1>4. PICK g : IsFold(g, n, Seq(Run), << >>, step)
  BY <1>1, <1>3, Recursion
<1>5. \A i \in 1..n : g[i] = IF lo + i \in R THEN Join(g[i - 1], lo + i, h) ELSE g[i - 1]
  <2> TAKE i \in 1..n
  <2>1. g[i - 1] \in Seq(Run) /\ g[i] = step[i][g[i - 1]]
    BY <1>4 DEF IsFold
  <2> QED
    BY <1>2, <2>1
<1>6. Is(g)
  BY <1>4, <1>5 DEF IsFold
<1>7. f = CHOOSE q : Is(q)
  BY DEF Runs
<1> HIDE DEF Is, f
<1>8. Is(f)
  BY <1>6, <1>7
<1>9. /\ f[0] = << >>
      /\ \A i \in 1..n : f[i] = IF lo + i \in R THEN Join(f[i - 1], lo + i, h) ELSE f[i - 1]
  BY <1>8 DEF Is
<1>10. 0 \in Right
  <2>1. RunsOk(<< >>, 0, R, lo, h)
    <3>1. \A x \in R : ~(x <= lo)
      OBVIOUS
    <3> QED
      BY <3>1 DEF RunsOk
  <2>2. lo + 0 = lo
    OBVIOUS
  <2> QED
    BY <1>3, <1>9, <2>1, <2>2
<1>11. ASSUME NEW i \in Nat, i \in Right, i + 1 <= n
       PROVE  f[i + 1] \in Seq(Run) /\ RunsOk(f[i + 1], Len(f[i + 1]), R, lo + (i + 1), h)
  <2> DEFINE s == f[i]
             m == Len(s)
             at == lo + i
             r == Join(s, at + 1, h)
  <2>1. /\ i + 1 \in 1..n /\ (i + 1) - 1 = i /\ s \in Seq(Run) /\ m \in Nat
        /\ RunsOk(s, m, R, at, h) /\ at \in Int /\ lo + (i + 1) = at + 1
    BY <1>11
  <2>2. f[i + 1] = IF at + 1 \in R THEN r ELSE s
    BY <1>9, <2>1
  <2>3. CASE at + 1 \notin R
    <3> HIDE DEF s, m, r, at
    <3>1. RunsOk(s, m, R, at + 1, h)
      BY <2>1, <2>3, RunsSame
    <3> QED
      BY <2>1, <2>2, <2>3, <3>1 DEF m
  <2>4. CASE at + 1 \in R
    <3>1. r \in Seq(Run) /\ f[i + 1] = r
      BY <2>1, <2>2, <2>4, JoinIs
    <3>2. CASE /\ m = 0 \/ (at + 1) - s[m].to > h
               /\ Len(r) = m + 1 /\ r[m + 1] = [from |-> at + 1, to |-> at + 1]
               /\ \A k \in 1..m : r[k] = s[k]
      <4> HIDE DEF s, m, r, at
      <4>1. r[m + 1].from = at + 1 /\ r[m + 1].to = at + 1
        BY <3>2
      <4>2. RunsOk(r, m + 1, R, at + 1, h)
        BY <2>1, <2>4, <3>2, <4>1, RunsMore
      <4> QED
        BY <2>1, <3>1, <3>2, <4>2
    <3>3. CASE /\ m > 0 /\ ~((at + 1) - s[m].to > h)
               /\ Len(r) = m /\ r[m] = [from |-> s[m].from, to |-> at + 1]
               /\ \A k \in 1..(m - 1) : r[k] = s[k]
      <4> HIDE DEF s, m, r, at
      <4>1. r[m].from = s[m].from /\ r[m].to = at + 1
        BY <3>3
      <4>2. RunsOk(r, m, R, at + 1, h)
        BY <2>1, <2>4, <3>3, <4>1, RunsLonger
      <4> QED
        BY <2>1, <3>1, <3>3, <4>2
    <3>4. at + 1 \in Nat
      BY <2>4
    <3> HIDE DEF at, m, r
    <3> QED
      BY <2>1, <3>2, <3>3, <3>4, JoinIs, SMTT(30) DEF m, r
  <2> QED
    BY <2>3, <2>4
<1>12. Nat \subseteq Right
  <2>1. \A i \in Nat : i \in Right => i + 1 \in Right
    BY <1>11
  <2> HIDE DEF Right
  <2> QED
    BY <1>10, <2>1, Induct
<1> QED
  BY <1>12 DEF f

InRun(t, runs, m) == \E k \in 1..m : runs[k].from <= t /\ t < runs[k].to

\* Two rows, or a row and the end of the window, no further apart than the threshold,
\* with t between them.
Spanned(t, R, end, h) ==
    \E a \in R : \E b \in R \cup {end} : a <= t /\ t < b /\ b - a <= h

SiteTells(R, end, h) == [t \in Nat |-> IF Spanned(t, R, end, h) THEN {"up"} ELSE {"down"}]

\* Before the last row, what is bridged is what the runs cover.
LEMMA RunsBridge ==
  ASSUME NEW runs, NEW m \in Nat, NEW R \in SUBSET Nat, NEW i \in Int, NEW end \in Nat,
         NEW h \in Nat, RunsOk(runs, m, R, i, h), \A r \in R : r <= i /\ r <= end,
         NEW t \in Nat
  PROVE  /\ InRun(t, runs, m) => Spanned(t, R, end, h)
         /\ Spanned(t, R, end, h) /\ (\E r \in R : t < r) => InRun(t, runs, m)
<1>1. InRun(t, runs, m) => Spanned(t, R, end, h)
  BY DEF InRun, Spanned, RunsOk
<1>2. ASSUME Spanned(t, R, end, h), NEW r \in R, t < r
      PROVE  InRun(t, runs, m)
  <2>1. PICK a \in R, b \in R : a <= t /\ t < b /\ b - a <= h
    <3>1. PICK a \in R, b \in R \cup {end} : a <= t /\ t < b /\ b - a <= h
      BY <1>2 DEF Spanned
    <3>2. a \in Nat /\ r \in Nat /\ r <= end
      OBVIOUS
    <3>3. CASE b \in R
      BY <3>1, <3>3
    <3>4. CASE b = end
      BY <1>2, <3>1, <3>2, <3>4
    <3> QED
      BY <3>3, <3>4
  <2>2. a \in Nat /\ b \in Nat
    OBVIOUS
  <2>3. PICK k \in 1..m : runs[k].from <= a /\ a <= runs[k].to
    BY DEF RunsOk
  <2>4. PICK l \in 1..m : runs[l].from <= b /\ b <= runs[l].to
    BY DEF RunsOk
  <2>5. /\ runs[k].from \in Nat /\ runs[k].to \in Nat /\ runs[l].from \in Nat /\ runs[l].to \in Nat
    BY DEF RunsOk
  <2>6. ~(k < l)
    <3> SUFFICES ASSUME k < l PROVE FALSE
      OBVIOUS
    <3>1. runs[l].from - runs[k].to > h
      BY DEF RunsOk
    <3> QED
      BY <2>1, <2>2, <2>3, <2>4, <2>5, <3>1
  <2>7. ~(l < k)
    <3> SUFFICES ASSUME l < k PROVE FALSE
      OBVIOUS
    <3>1. runs[k].from - runs[l].to > h
      BY DEF RunsOk
    <3> QED
      BY <2>1, <2>2, <2>3, <2>4, <2>5, <3>1
  <2>8. k = l
    BY <2>6, <2>7
  <2>9. runs[k].from <= t /\ t < runs[k].to
    BY <2>1, <2>2, <2>3, <2>4, <2>5, <2>8
  <2> QED
    BY <2>9 DEF InRun
<1> QED
  BY <1>1, <1>2

\* Runs 1..n that fill the time from start to cur and say of every instant what is told
\* of it.
Fills(segs, n, start, cur, told) ==
    /\ \A i \in 1..n : segs[i].from \in Nat /\ segs[i].to \in Nat /\ segs[i].from < segs[i].to
    /\ IF n = 0 THEN cur = start
       ELSE start < cur /\ segs[1].from = start /\ segs[n].to = cur
    /\ \A i \in 1..(n - 1) : segs[i].to = segs[i + 1].from
    /\ \A i \in 1..n : \A t \in Nat :
           segs[i].from <= t /\ t < segs[i].to => segs[i].up \in told[t]
    /\ \A t \in Nat : start <= t /\ t < cur =>
           \E i \in 1..n : segs[i].from <= t /\ t < segs[i].to

\* Another run is appended.
LEMMA FillsMore ==
  ASSUME NEW segs, NEW r, NEW told, NEW n \in Nat, NEW start \in Nat, NEW cur \in Nat, NEW to \in Nat,
         NEW up, Fills(segs, n, start, cur, told), cur < to,
         \A t \in Nat : cur <= t /\ t < to => up \in told[t],
         \A i \in 1..n : r[i] = segs[i],
         r[n + 1].from = cur, r[n + 1].to = to, r[n + 1].up = up
  PROVE  Fills(r, n + 1, start, to, told)
<1>1. \A i \in 1..(n + 1) : i \in 1..n \/ i = n + 1
  OBVIOUS
<1>2. \A i \in 1..n : segs[i].from \in Nat /\ segs[i].to \in Nat /\ segs[i].from < segs[i].to
  BY DEF Fills
<1>3. \A i \in 1..(n + 1) : r[i].from \in Nat /\ r[i].to \in Nat /\ r[i].from < r[i].to
  BY <1>1, <1>2
<1>4. start < to /\ r[1].from = start
  <2>1. CASE n = 0
    BY <2>1 DEF Fills
  <2>2. CASE n # 0
    <3>1. 1 \in 1..n
      BY <2>2
    <3> QED
      BY <2>2, <3>1 DEF Fills
  <2> QED
    BY <2>1, <2>2
<1>5. \A i \in 1..n : r[i].to = r[i + 1].from
  <2> TAKE i \in 1..n
  <2>1. CASE i = n
    BY <2>1 DEF Fills
  <2>2. CASE i # n
    <3>1. i \in 1..(n - 1) /\ i + 1 \in 1..n
      BY <2>2
    <3>2. segs[i].to = segs[i + 1].from
      BY <3>1 DEF Fills
    <3> QED
      BY <3>1, <3>2
  <2> QED
    BY <2>1, <2>2
<1>6. ASSUME NEW i \in 1..(n + 1), NEW t \in Nat, r[i].from <= t, t < r[i].to
      PROVE  r[i].up \in told[t]
  <2>1. CASE i \in 1..n
    <3>1. r[i] = segs[i]
      BY <2>1
    <3> QED
      BY <1>6, <2>1, <3>1 DEF Fills
  <2>2. CASE i = n + 1
    BY <1>6, <2>2
  <2> QED
    BY <1>1, <2>1, <2>2
<1>7. ASSUME NEW t \in Nat, start <= t, t < to
      PROVE  \E i \in 1..(n + 1) : r[i].from <= t /\ t < r[i].to
  <2>1. CASE t < cur
    <3>1. PICK i \in 1..n : segs[i].from <= t /\ t < segs[i].to
      BY <1>7, <2>1 DEF Fills
    <3>2. i \in 1..(n + 1) /\ r[i].from <= t /\ t < r[i].to
      BY <3>1
    <3> QED
      BY <3>2
  <2>2. CASE ~(t < cur)
    <3>1. n + 1 \in 1..(n + 1) /\ r[n + 1].from <= t /\ t < r[n + 1].to
      BY <1>7, <2>2
    <3> QED
      BY <3>1
  <2> QED
    BY <2>1, <2>2
<1>8. n + 1 # 0 /\ (n + 1) - 1 = n
  OBVIOUS
<1> QED
  BY <1>3, <1>4, <1>5, <1>6, <1>7, <1>8 DEF Fills

LEMMA AppendFills ==
  ASSUME NEW segs \in Seq(Seg), NEW told, NEW start \in Nat, NEW cur \in Nat, NEW to \in Nat,
         NEW up \in Shade, Fills(segs, Len(segs), start, cur, told), cur < to,
         \A t \in Nat : cur <= t /\ t < to => up \in told[t]
  PROVE  LET r == Append(segs, [from |-> cur, to |-> to, up |-> up])
         IN  r \in Seq(Seg) /\ Fills(r, Len(r), start, to, told)
<1> DEFINE e == [from |-> cur, to |-> to, up |-> up]
           r == Append(segs, e)
           n == Len(segs)
<1>1. e \in Seg /\ e.from = cur /\ e.to = to /\ e.up = up
  BY DEF Seg
<1> HIDE DEF e
<1>2. r \in Seq(Seg) /\ Len(r) = n + 1 /\ n \in Nat /\ r[n + 1] = e /\ \A i \in 1..n : r[i] = segs[i]
  BY <1>1
<1> HIDE DEF r, n
<1>3. Fills(r, n + 1, start, to, told)
  <2>1. r[n + 1].from = cur /\ r[n + 1].to = to /\ r[n + 1].up = up
    BY <1>1, <1>2
  <2>2. Fills(segs, n, start, cur, told)
    BY DEF n
  <2> QED
    BY <1>2, <2>1, <2>2, FillsMore
<1> QED
  BY <1>2, <1>3 DEF r, e

PAcc == [segs : Seq(Seg), cursor : Nat]

LEMMA PlaceTyped ==
  ASSUME NEW acc \in PAcc, NEW run \in Run, NEW start \in Nat, NEW end \in Nat
  PROVE  Place(acc, run, start, end) \in PAcc
<1> DEFINE a == Upper(run.from, start)
           b == Lower(run.to, end)
           gap == IF a > acc.cursor
                  THEN <<[from |-> acc.cursor, to |-> a, up |-> "down"]>> ELSE << >>
           at == Upper(a, acc.cursor)
           up == IF b > at THEN <<[from |-> at, to |-> b, up |-> "up"]>> ELSE << >>
<1>1. run.from \in Nat /\ run.to \in Nat /\ acc.cursor \in Nat /\ acc.segs \in Seq(Seg)
  BY DEF Run, PAcc
<1>2. a \in Nat /\ b \in Nat /\ at \in Nat /\ Upper(b, at) \in Nat
  BY <1>1 DEF Upper, Lower
<1>3. \A x, y \in Nat, u \in Shade : <<[from |-> x, to |-> y, up |-> u]>> \in Seq(Seg)
  BY DEF Seg
<1>4. Place(acc, run, start, end) =
          IF b <= start \/ a >= end THEN acc
          ELSE [segs |-> acc.segs \o gap \o up, cursor |-> Upper(b, at)]
  BY DEF Place
<1> HIDE DEF a, b, at
<1>5. gap \in Seq(Seg) /\ up \in Seq(Seg)
  <2>1. << >> \in Seq(Seg) /\ "up" \in Shade /\ "down" \in Shade
    BY DEF Shade
  <2>2. gap \in Seq(Seg)
    BY <1>1, <1>2, <1>3, <2>1
  <2>3. up \in Seq(Seg)
    BY <1>1, <1>2, <1>3, <2>1
  <2> QED
    BY <2>2, <2>3
<1> HIDE DEF gap, up
<1>6. acc.segs \o gap \o up \in Seq(Seg)
  BY <1>1, <1>5
<1> QED
  BY <1>2, <1>4, <1>6 DEF PAcc

\* What the first k runs make of the window.
PlacedAt(acc, k, runs, R, start, end, h) ==
    /\ acc \in PAcc /\ start <= acc.cursor /\ acc.cursor <= end
    /\ Fills(acc.segs, Len(acc.segs), start, acc.cursor, SiteTells(R, end, h))
    /\ \A l \in 1..k : runs[l].to <= acc.cursor \/ runs[l].from = end
    /\ acc.cursor = start \/ \E l \in 1..k : runs[l].to = acc.cursor

LEMMA PlacedNext ==
  ASSUME NEW runs, NEW m \in Nat, NEW R \in SUBSET Nat, NEW i \in Int,
         NEW start \in Nat, NEW end \in Nat, start < end,
         NEW h \in Nat, RunsOk(runs, m, R, i, h), \A r \in R : r <= i /\ r <= end,
         NEW k \in 1..m, runs[k] \in Run, NEW acc, PlacedAt(acc, k - 1, runs, R, start, end, h)
  PROVE  PlacedAt(Place(acc, runs[k], start, end), k, runs, R, start, end, h)
<1> DEFINE F == runs[k].from
           T == runs[k].to
           c == acc.cursor
           told == SiteTells(R, end, h)
<1>1. /\ F \in Nat /\ T \in Nat /\ F <= T /\ T <= end /\ F \in R /\ T \in R
      /\ \A l \in 1..m : runs[l].from \in Nat /\ runs[l].to \in Nat /\ runs[l].to <= end
                         /\ runs[l].from <= runs[l].to
  BY DEF RunsOk
<1>2. acc \in PAcc /\ acc.segs \in Seq(Seg) /\ c \in Nat /\ start <= c /\ c <= end
      /\ Fills(acc.segs, Len(acc.segs), start, c, told)
  BY DEF PlacedAt, PAcc
<1>3. \A l \in 1..(k - 1) : runs[l].to <= c \/ runs[l].from = end
  BY DEF PlacedAt
<1>4. c = start \/ \E l \in 1..(k - 1) : runs[l].to = c
  BY DEF PlacedAt
<1>5. \A l \in 1..k : l \in 1..(k - 1) \/ l = k
  OBVIOUS
<1> DEFINE a == Upper(F, start)
           b == Lower(T, end)
           gap == IF a > c THEN <<[from |-> c, to |-> a, up |-> "down"]>> ELSE << >>
           at == Upper(a, c)
           up == IF b > at THEN <<[from |-> at, to |-> b, up |-> "up"]>> ELSE << >>
           r == Place(acc, runs[k], start, end)
<1>6. r = IF b <= start \/ a >= end THEN acc
          ELSE [segs |-> acc.segs \o gap \o up, cursor |-> Upper(b, at)]
  BY DEF Place
<1>7. b = T /\ a \in Nat /\ a >= start /\ (a = F \/ (a = start /\ F <= start))
  BY <1>1 DEF Upper, Lower
<1> HIDE DEF r, told, c
<1>8. CASE b <= start \/ a >= end
  <2>1. r = acc
    BY <1>6, <1>8
  <2>2. T <= c \/ F = end
    BY <1>1, <1>2, <1>7, <1>8
  <2>3. \A l \in 1..k : runs[l].to <= c \/ runs[l].from = end
    BY <1>3, <1>5, <2>2
  <2>4. c = start \/ \E l \in 1..k : runs[l].to = c
    BY <1>4
  <2>5. PlacedAt(acc, k, runs, R, start, end, h)
    BY <1>2, <2>3, <2>4 DEF PlacedAt, told, c
  <2> QED
    BY <2>1, <2>5 DEF r
<1>9. CASE ~(b <= start \/ a >= end)
  <2>1. c <= a
    <3>1. CASE c = start
      BY <1>7, <3>1
    <3>2. CASE c # start
      <4>1. PICK l \in 1..(k - 1) : runs[l].to = c
        BY <1>4, <3>2
      <4>2. F - c > h
        BY <4>1 DEF RunsOk
      <4> QED
        BY <1>1, <1>2, <1>7, <4>2
    <3> QED
      BY <3>1, <3>2
  <2>2. at = a /\ a <= T /\ T > start /\ a < end /\ F <= a
    BY <1>1, <1>2, <1>7, <1>9, <2>1, SMTT(30) DEF Upper
  <2>3. r = [segs |-> acc.segs \o gap \o up, cursor |-> T]
    <3>1. Upper(b, at) = T
      BY <1>1, <1>7, <2>2 DEF Upper
    <3> HIDE DEF a, b, at, gap, up
    <3> QED
      BY <1>6, <1>9, <3>1
  <2> HIDE DEF F, T, a, b, at
  <2> DEFINE s1 == acc.segs \o gap
  <2>4. s1 \in Seq(Seg) /\ Fills(s1, Len(s1), start, a, told)
    <3>1. CASE a > c
      <4>1. a = F
        BY <1>2, <1>7, <3>1
      <4>2. ASSUME NEW t \in Nat, c <= t, t < a
            PROVE  "down" \in told[t]
        <5>1. ~InRun(t, runs, m)
          <6> SUFFICES ASSUME NEW l \in 1..m, runs[l].from <= t, t < runs[l].to PROVE FALSE
            BY DEF InRun
          <6>1. CASE l \in 1..(k - 1)
            <7>1. runs[l].to <= c \/ runs[l].from = end
              BY <1>3, <6>1
            <7>2. ~(runs[l].from = end)
              BY <1>7, <2>2, <4>2
            <7>3. runs[l].to \in Nat
              BY <1>1
            <7> QED
              BY <1>2, <4>2, <7>1, <7>2, <7>3
          <6>2. CASE l = k
            BY <1>1, <4>1, <4>2, <6>2 DEF F
          <6>3. CASE l > k
            <7>1. runs[l].from - T > h
              BY <6>3 DEF RunsOk, T
            <7> QED
              BY <1>1, <4>1, <4>2, <7>1
          <6> QED
            BY <6>1, <6>2, <6>3
        <5>2. \E x \in R : t < x
          BY <1>1, <4>1, <4>2
        <5>3. ~Spanned(t, R, end, h)
          BY <5>1, <5>2, RunsBridge
        <5> QED
          BY <5>3 DEF told, SiteTells
      <4> DEFINE e == [from |-> c, to |-> a, up |-> "down"]
      <4>3. s1 = Append(acc.segs, e)
        <5>1. e \in Seg
          BY <1>2, <1>7 DEF Seg, Shade
        <5>2. s1 = acc.segs \o <<e>>
          BY <3>1
        <5> HIDE DEF e, s1
        <5>3. acc.segs \o <<e>> = Append(acc.segs, e)
          BY <1>2, <5>1
        <5> QED
          BY <5>2, <5>3
      <4>4. Append(acc.segs, e) \in Seq(Seg)
            /\ Fills(Append(acc.segs, e), Len(Append(acc.segs, e)), start, a, told)
        <5>1. "down" \in Shade
          BY DEF Shade
        <5> QED
          BY <1>2, <1>7, <3>1, <4>2, <5>1, AppendFills
      <4> QED
        BY <4>3, <4>4
    <3>2. CASE ~(a > c)
      <4>1. a = c
        BY <1>2, <1>7, <2>1, <3>2
      <4>2. s1 = acc.segs
        BY <1>2, <3>2
      <4> QED
        BY <1>2, <4>1, <4>2
    <3> QED
      BY <3>1, <3>2
  <2> DEFINE s2 == s1 \o up
  <2> HIDE DEF s1
  <2>5. s2 \in Seq(Seg) /\ Fills(s2, Len(s2), start, T, told)
    <3>1. CASE T > a
      <4>1. ASSUME NEW t \in Nat, a <= t, t < T
            PROVE  "up" \in told[t]
        <5>1. F <= t
          BY <1>1, <1>7, <2>2, <4>1
        <5>2. InRun(t, runs, m)
          BY <4>1, <5>1 DEF InRun, F, T
        <5>3. Spanned(t, R, end, h)
          BY <5>2, RunsBridge
        <5> QED
          BY <5>3 DEF told, SiteTells
      <4> DEFINE e == [from |-> a, to |-> T, up |-> "up"]
      <4>2. s2 = Append(s1, e)
        <5>1. e \in Seg
          BY <1>1, <1>7 DEF Seg, Shade
        <5>2. s2 = s1 \o <<e>>
          BY <1>7, <2>2, <3>1
        <5> HIDE DEF e
        <5> QED
          BY <2>4, <5>1, <5>2
      <4>3. Append(s1, e) \in Seq(Seg)
            /\ Fills(Append(s1, e), Len(Append(s1, e)), start, T, told)
        <5>1. "up" \in Shade
          BY DEF Shade
        <5> QED
          BY <1>1, <1>7, <2>4, <3>1, <4>1, <5>1, AppendFills
      <4> QED
        BY <4>2, <4>3
    <3>2. CASE ~(T > a)
      <4>1. T = a
        BY <1>1, <1>7, <2>2, <3>2
      <4>2. s2 = s1
        BY <1>7, <2>2, <2>4, <3>2
      <4> QED
        BY <2>4, <4>1, <4>2
    <3> QED
      BY <3>1, <3>2
  <2>6. r = [segs |-> s2, cursor |-> T]
    BY <2>3 DEF s1
  <2> HIDE DEF s2
  <2>7. r \in PAcc /\ r.segs = s2 /\ r.cursor = T
    BY <1>1, <2>5, <2>6 DEF PAcc
  <2>8. \A l \in 1..k : runs[l].to <= T
    <3> TAKE l \in 1..k
    <3>1. CASE l = k
      BY <1>1, <3>1 DEF T
    <3>2. CASE l < k
      <4>1. F - runs[l].to > h
        BY <3>2 DEF RunsOk, F
      <4>2. runs[l].to \in Nat
        BY <1>1
      <4> QED
        BY <1>1, <4>1, <4>2
    <3> QED
      BY <3>1, <3>2
  <2>9. start <= T /\ T <= end
    BY <1>1, <2>2
  <2>10. \E l \in 1..k : runs[l].to = T
    BY DEF T
  <2>11. PlacedAt(r, k, runs, R, start, end, h)
    BY <2>5, <2>7, <2>8, <2>9, <2>10 DEF PlacedAt, told
  <2> QED
    BY <2>11 DEF r
<1> QED
  BY <1>8, <1>9

LEMMA PlacedIs ==
  ASSUME NEW runs \in Seq(Run), NEW start \in Nat, NEW end \in Nat
  PROVE  LET f == Placed(runs, start, end)
         IN  /\ f[0] = [segs |-> << >>, cursor |-> start]
             /\ \A k \in 1..Len(runs) : f[k] = Place(f[k - 1], runs[k], start, end)
<1> DEFINE m == Len(runs)
           first == [segs |-> << >>, cursor |-> start]
           f == Placed(runs, start, end)
           step == [k \in 1..m |-> [a \in PAcc |-> Place(a, runs[k], start, end)]]
           Is(g) == g = [k \in 0..m |-> IF k = 0 THEN first
                                        ELSE Place(g[k - 1], runs[k], start, end)]
<1>1. m \in Nat /\ \A k \in 1..m : runs[k] \in Run
  OBVIOUS
<1>2. IsStep(step, m, PAcc)
  <2>1. \A k \in 1..m, a \in PAcc : Place(a, runs[k], start, end) \in PAcc
    BY <1>1, PlaceTyped
  <2> QED
    BY <2>1 DEF IsStep
<1>3. \A k \in 1..m, a \in PAcc : step[k][a] = Place(a, runs[k], start, end)
  OBVIOUS
<1>4. first \in PAcc
  BY DEF PAcc
<1> HIDE DEF step, m, first
<1>5. PICK g : IsFold(g, m, PAcc, first, step)
  BY <1>1, <1>2, <1>4, Recursion
<1>6. \A k \in 1..m : g[k] = Place(g[k - 1], runs[k], start, end)
  <2> TAKE k \in 1..m
  <2>1. g[k - 1] \in PAcc /\ g[k] = step[k][g[k - 1]]
    BY <1>1, <1>5 DEF IsFold
  <2> QED
    BY <1>3, <2>1
<1>7. Is(g)
  BY <1>1, <1>5, <1>6 DEF IsFold
<1>8. f = CHOOSE h : Is(h)
  BY DEF Placed, m, first
<1> HIDE DEF Is, f
<1>9. Is(f)
  BY <1>7, <1>8
<1>10. f[0] = first /\ \A k \in 1..m : f[k] = Place(f[k - 1], runs[k], start, end)
  BY <1>1, <1>9 DEF Is
<1> QED
  BY <1>10 DEF f, m, first

\* What all runs make of the window.
LEMMA AllPlaced ==
  ASSUME NEW runs \in Seq(Run), NEW R \in SUBSET Nat, NEW i \in Int,
         NEW start \in Nat, NEW end \in Nat, start < end,
         NEW h \in Nat, RunsOk(runs, Len(runs), R, i, h), \A r \in R : r <= i /\ r <= end
  PROVE  PlacedAt(Placed(runs, start, end)[Len(runs)], Len(runs), runs, R, start, end, h)
<1> DEFINE m == Len(runs)
           f == Placed(runs, start, end)
           At == {k \in Nat : k <= m => PlacedAt(f[k], k, runs, R, start, end, h)}
<1>1. m \in Nat /\ \A k \in 1..m : runs[k] \in Run
  OBVIOUS
<1>2. /\ f[0] = [segs |-> << >>, cursor |-> start]
      /\ \A k \in 1..m : f[k] = Place(f[k - 1], runs[k], start, end)
  BY PlacedIs
<1>3. RunsOk(runs, m, R, i, h)
  OBVIOUS
<1> HIDE DEF m, f
<1>4. 0 \in At
  <2>1. f[0] \in PAcc /\ Len(f[0].segs) = 0 /\ f[0].cursor = start
    BY <1>2 DEF PAcc
  <2>2. Fills(f[0].segs, 0, start, start, SiteTells(R, end, h))
    BY DEF Fills
  <2> QED
    BY <2>1, <2>2 DEF PlacedAt
<1>5. ASSUME NEW k \in Nat, k \in At, k + 1 <= m
      PROVE  PlacedAt(f[k + 1], k + 1, runs, R, start, end, h)
  <2>1. k + 1 \in 1..m /\ (k + 1) - 1 = k /\ PlacedAt(f[k], k, runs, R, start, end, h)
    BY <1>1, <1>5
  <2>2. f[k + 1] = Place(f[k], runs[k + 1], start, end) /\ runs[k + 1] \in Run
    BY <1>1, <1>2, <2>1
  <2>3. PlacedAt(Place(f[k], runs[k + 1], start, end), k + 1, runs, R, start, end, h)
    BY <1>1, <1>3, <2>1, <2>2, PlacedNext
  <2> QED
    BY <2>2, <2>3
<1>6. Nat \subseteq At
  <2>1. \A k \in Nat : k \in At => k + 1 \in At
    BY <1>5
  <2> HIDE DEF At
  <2> QED
    BY <1>4, <2>1, Induct
<1>7. PlacedAt(f[m], m, runs, R, start, end, h)
  BY <1>1, <1>6
<1> QED
  BY <1>7 DEF f, m

\* A window that does not end on a row after a gap is told the truth up to its end.
LEMMA SiteFills ==
  ASSUME NEW h \in Nat, NEW R \in SUBSET Nat, R # {}, NEW size,
         NEW start \in Nat, NEW end \in Nat, start < end, h = Thresh(size),
         \A r \in R : start - h <= r /\ r <= end,
         R = SiteRows(size, start, end),
         end \in R => \E a \in R : a < end /\ end - a <= h
  PROVE  LET segs == SiteSegments(size, start, end)
         IN  segs \in Seq(Seg) /\ Fills(segs, Len(segs), start, end, SiteTells(R, end, h))
<1> DEFINE lo == start - h - 1
           n == end - lo
           runs == Runs(R, lo, n, h)[n]
           m == Len(runs)
           acc == Placed(runs, start, end)[m]
           L == runs[m].to
           tail == IF end - L > h THEN "down" ELSE "up"
           told == SiteTells(R, end, h)
           segs == SiteSegments(size, start, end)
<1>1. runs \in Seq(Run) /\ RunsOk(runs, m, R, end, h) /\ m \in Nat
  <2>1. lo \in Int /\ n \in Nat /\ lo + n = end /\ \A x \in R : lo < x /\ x <= lo + n
    OBVIOUS
  <2> HIDE DEF lo, n
  <2>2. runs \in Seq(Run) /\ RunsOk(runs, m, R, lo + n, h)
    BY <2>1, RunsAre
  <2> QED
    BY <2>1, <2>2
<1>2. segs = IF end > acc.cursor
             THEN Append(acc.segs, [from |-> acc.cursor, to |-> end, up |-> tail])
             ELSE acc.segs
  BY DEF SiteSegments
<1> HIDE DEF runs
<1>3. PlacedAt(acc, m, runs, R, start, end, h)
  BY <1>1, AllPlaced
<1> HIDE DEF acc, m, told, segs
<1>4. acc \in PAcc /\ acc.segs \in Seq(Seg) /\ acc.cursor \in Nat /\ acc.cursor <= end
      /\ Fills(acc.segs, Len(acc.segs), start, acc.cursor, told)
  BY <1>3 DEF PlacedAt, PAcc, told
<1>5. CASE ~(end > acc.cursor)
  <2>1. acc.cursor = end
    BY <1>4, <1>5
  <2> QED
    BY <1>2, <1>4, <1>5, <2>1 DEF told, segs
<1>6. CASE end > acc.cursor
  <2>1. L \in R /\ \A r \in R : r <= L
    <3>1. \A r \in R : \E k \in 1..m : runs[k].from <= r /\ r <= runs[k].to
      BY <1>1 DEF RunsOk
    <3>2. m \in 1..m
      BY <1>1, <3>1
    <3>3. L \in R /\ L \in Nat /\ runs[m].from <= L
      BY <1>1, <3>2 DEF RunsOk
    <3>4. ASSUME NEW k \in 1..m PROVE runs[k].to <= L /\ runs[k].to \in Nat
      <4>1. runs[k].to \in Nat /\ runs[m].from \in Nat
        BY <1>1, <3>2 DEF RunsOk
      <4>2. CASE k = m
        BY <3>3, <4>2
      <4>3. CASE k < m
        <5>1. runs[m].from - runs[k].to > h
          BY <1>1, <3>2, <4>3 DEF RunsOk
        <5> QED
          BY <3>3, <4>1, <5>1
      <4> QED
        BY <1>1, <4>1, <4>2, <4>3
    <3> HIDE DEF L
    <3>5. ASSUME NEW r \in R PROVE r <= L
      <4>1. PICK k \in 1..m : runs[k].from <= r /\ r <= runs[k].to
        BY <3>1
      <4> QED
        BY <3>3, <3>4, <4>1
    <3> QED
      BY <3>3, <3>5
  <2> HIDE DEF L
  <2>2. L \in Nat /\ L <= end
    BY <2>1
  <2>3. \A l \in 1..m : runs[l].to <= acc.cursor \/ runs[l].from = end
    BY <1>3 DEF PlacedAt
  <2>4. \A l \in 1..m : runs[l].from \in Nat /\ runs[l].to \in Nat
    BY <1>1 DEF RunsOk
  <2>5. L # end
    <3> SUFFICES ASSUME end \in R PROVE FALSE
      BY <2>1
    <3>1. PICK a \in R : a < end /\ end - a <= h
      OBVIOUS
    <3>2. a \in Nat /\ end - 1 \in Nat /\ a <= end - 1 /\ end - 1 < end
      BY <3>1
    <3>3. Spanned(end - 1, R, end, h)
      BY <3>1, <3>2 DEF Spanned
    <3>4. InRun(end - 1, runs, m)
      BY <1>1, <3>2, <3>3, RunsBridge, SMTT(30)
    <3>5. PICK l \in 1..m : runs[l].from <= end - 1 /\ end - 1 < runs[l].to
      BY <3>4 DEF InRun
    <3> DEFINE from == runs[l].from
               to == runs[l].to
               cursor == acc.cursor
    <3>6. from \in Nat /\ to \in Nat /\ (to <= cursor \/ from = end)
      BY <2>3, <2>4, <3>5
    <3>7. from <= end - 1 /\ end - 1 < to
      BY <3>5
    <3>8. cursor \in Nat /\ cursor < end
      BY <1>4, <1>6
    <3> HIDE DEF from, to, cursor
    <3> QED
      BY <3>6, <3>7, <3>8
  <2>6. L <= acc.cursor
    <3>1. PICK l \in 1..m : runs[l].from <= L /\ L <= runs[l].to
      <4>1. L <= end
        BY <2>2
      <4> QED
        BY <1>1, <2>1, <4>1 DEF RunsOk
    <3> QED
      BY <1>4, <2>2, <2>3, <2>4, <2>5, <3>1
  <2>7. ASSUME NEW t \in Nat, acc.cursor <= t, t < end
        PROVE  tail \in told[t]
    <3>1. ~InRun(t, runs, m)
      BY <1>4, <2>3, <2>4, <2>7 DEF InRun
    <3>2. CASE end - L > h
      <4>1. ~Spanned(t, R, end, h)
        <5> SUFFICES ASSUME NEW a \in R, NEW b \in R \cup {end}, a <= t, t < b, b - a <= h
                     PROVE  FALSE
          BY DEF Spanned
        <5>1. CASE b \in R
          <6>1. Spanned(t, R, end, h)
            BY DEF Spanned
          <6> QED
            BY <1>1, <3>1, <5>1, <6>1, RunsBridge, SMTT(30)
        <5>2. CASE b = end
          <6>1. a <= L /\ a \in Nat
            BY <2>1
          <6> QED
            BY <2>2, <3>2, <5>2, <6>1
        <5> QED
          BY <5>1, <5>2
      <4> QED
        BY <3>2, <4>1 DEF told, SiteTells
    <3>3. CASE ~(end - L > h)
      <4>1. L <= t /\ end - L <= h
        BY <1>4, <2>2, <2>6, <2>7, <3>3
      <4>2. Spanned(t, R, end, h)
        BY <2>1, <2>7, <4>1 DEF Spanned
      <4> QED
        BY <3>3, <4>2 DEF told, SiteTells
    <3> QED
      BY <3>2, <3>3
  <2>8. tail \in Shade
    BY DEF Shade
  <2> HIDE DEF tail
  <2>9. LET r == Append(acc.segs, [from |-> acc.cursor, to |-> end, up |-> tail])
        IN  r \in Seq(Seg) /\ Fills(r, Len(r), start, end, told)
    BY <1>4, <1>6, <2>7, <2>8, AppendFills
  <2> QED
    BY <1>2, <1>6, <2>9 DEF told, segs
<1> QED
  BY <1>5, <1>6

LEMMA FillsTile ==
  ASSUME NEW segs \in Seq(Seg), NEW told, NEW start \in Nat, NEW end \in Nat, start < end,
         Fills(segs, Len(segs), start, end, told)
  PROVE  Tile(segs, start, end)
<1>1. Len(segs) # 0 /\ Len(segs) \in Nat
  BY DEF Fills
<1>2. segs # << >> /\ DOMAIN segs = 1..Len(segs)
  BY <1>1
<1> QED
  BY <1>1, <1>2 DEF Tile, Fills

\* What is drawn up is what lies between two rows near each other.
LEMMA DrawnIsSpanned ==
  ASSUME NEW segs \in Seq(Seg), NEW R, NEW start \in Nat, NEW end \in Nat, NEW h,
         Fills(segs, Len(segs), start, end, SiteTells(R, end, h)), NEW t \in start..(end - 1)
  PROVE  DrawnUp(segs, t) <=> Spanned(t, R, end, h)
<1> DEFINE n == Len(segs)
           told == SiteTells(R, end, h)
<1>1. n \in Nat /\ DOMAIN segs = 1..n /\ t \in Nat /\ start <= t /\ t < end
  OBVIOUS
<1>2. told[t] = IF Spanned(t, R, end, h) THEN {"up"} ELSE {"down"}
  BY <1>1 DEF SiteTells
<1>3. Fills(segs, n, start, end, told)
  OBVIOUS
<1> HIDE DEF told, n
<1>4. ASSUME NEW i \in 1..n, segs[i].from <= t, t < segs[i].to
      PROVE  segs[i].up \in told[t]
  BY <1>1, <1>3, <1>4 DEF Fills
<1>5. PICK i \in 1..n : segs[i].from <= t /\ t < segs[i].to
  BY <1>1, <1>3 DEF Fills
<1>6. CASE Spanned(t, R, end, h)
  <2>1. segs[i].up = "up"
    BY <1>2, <1>4, <1>5, <1>6
  <2> QED
    BY <1>1, <1>5, <1>6, <2>1 DEF DrawnUp
<1>7. CASE ~Spanned(t, R, end, h)
  BY <1>1, <1>2, <1>4, <1>7 DEF DrawnUp
<1> QED
  BY <1>6, <1>7

\* The table that is read is the raw one or one of the tiers (db.py:1879-1892).
LEMMA SiteTableIs ==
  ASSUME NEW secs, NEW end
  PROVE  SiteTable(secs, end) \in Sizes \cup {0} /\ Thresh(SiteTable(secs, end)) \in Nat
<1>1. Finest \in Sizes /\ Coarsest \in Sizes
  BY TiersAssumption DEF TiersAssumption, Finest, Coarsest
<1>2. SiteTable(secs, end) \in Sizes \cup {0}
  BY <1>1 DEF SiteTable
<1> HIDE DEF SiteTable
<1>3. ASSUME NEW size \in Sizes \cup {0} PROVE Thresh(size) \in Nat
  <2>1. Factor \in Nat /\ Floor \in Nat /\ size \in Nat
    BY RollupAssumption, SiteAssumption DEF RollupAssumption, SiteAssumption
  <2>2. Factor * (IF size = 0 THEN 1 ELSE size) \in Nat
    BY <2>1
  <2> QED
    BY <2>1, <2>2 DEF Thresh, Upper
<1> QED
  BY <1>2, <1>3

\* A table has only what was written to it, and as long as the clock is not set back all
\* of that within its retention.
LEMMA StampsAre ==
  ASSUME IInv, NEW size \in Sizes \cup {0}
  PROVE  /\ Stamps(size) \subseteq Written(size) /\ Written(size) \subseteq Nat
         /\ setbacks = 0 =>
              \A t \in Written(size) : t >= now - Retained(size) => t \in Stamps(size)
<1> USE DEF IInv
<1>1. now \in Nat /\ recorded \subseteq Row /\ folded \subseteq Row
  BY DEF Typed
<1>2. CASE size = 0
  <2>1. Stamps(size) = {r.ts : r \in raw} /\ Written(size) = {r.ts : r \in recorded}
    BY <1>2 DEF Stamps, Written
  <2>2. Stamps(size) \subseteq Written(size) /\ Written(size) \subseteq Nat
    BY <1>1, <2>1 DEF Typed, Row
  <2>3. ASSUME setbacks = 0, NEW r \in recorded, r.ts >= now - Retained(size)
        PROVE  r \in raw
    <3>1. RawKeep \in Nat /\ MaxBack \in Nat /\ Retained(size) = RawKeep
      BY <1>2, RollupAssumption DEF RollupAssumption, Retained
    <3>2. Lost = 0 /\ r.ts \in Nat
      BY <1>1, <2>3, <3>1 DEF Lost, Row
    <3> QED
      BY <1>1, <2>3, <3>1, <3>2 DEF GoneIsOld
  <2> QED
    BY <2>1, <2>2, <2>3
<1>3. CASE size # 0
  <2>1. /\ size \in Sizes /\ Retained(size) = Keep[size]
        /\ Stamps(size) = DOMAIN tier[size]
        /\ Written(size) = {BucketOf(r, size) : r \in folded}
    BY <1>3 DEF Stamps, Written, Retained
  <2>2. DOMAIN tier[size] \subseteq {BucketOf(r, size) : r \in folded}
    BY <2>1 DEF TiersTyped
  <2>3. \A r \in folded : BucketOf(r, size) \in Nat
    BY <1>1, <2>1, RowBucket
  <2>4. setbacks = 0 => \A r \in folded :
            BucketOf(r, size) >= now - Keep[size] => BucketOf(r, size) \in DOMAIN tier[size]
    BY <2>1 DEF TiersHold
  <2> QED
    BY <2>1, <2>2, <2>3, <2>4
<1> QED
  BY <1>2, <1>3

LEMMA SiteGapsAreRealNow == IInv => SiteGapsAreReal
<1> SUFFICES ASSUME IInv, NEW secs \in Spans, NEW p \in Pans
             PROVE  LET end == now - p
                        size == SiteTable(secs, end)
                        start == end - secs
                        h == Thresh(size)
                        segs == SiteSegments(size, start, end)
                        stamps == {t \in Written(size) : t <= end}
                    IN  start \in Nat /\ secs > 0 /\ segs # << >> /\ ~EndsGap(size, end) =>
                          /\ Tile(segs, start, end)
                          /\ \A t \in start..(end - 1) :
                                /\ DrawnUp(segs, t) => Bridged(t, stamps, end, h)
                                /\ setbacks = 0 /\ t - h >= now - Retained(size)
                                     /\ Bridged(t, stamps, end, h) => DrawnUp(segs, t)
  BY DEF SiteGapsAreReal
<1> DEFINE end == now - p
           size == SiteTable(secs, end)
           start == end - secs
           h == Thresh(size)
           segs == SiteSegments(size, start, end)
           stamps == {t \in Written(size) : t <= end}
           R == SiteRows(size, start, end)
<1> SUFFICES ASSUME start \in Nat, secs > 0, segs # << >>, ~EndsGap(size, end)
             PROVE  /\ Tile(segs, start, end)
                    /\ \A t \in start..(end - 1) :
                          /\ DrawnUp(segs, t) => Bridged(t, stamps, end, h)
                          /\ setbacks = 0 /\ t - h >= now - Retained(size)
                               /\ Bridged(t, stamps, end, h) => DrawnUp(segs, t)
  OBVIOUS
<1>1. now \in Nat /\ p \in Nat /\ secs \in Nat /\ end \in Nat /\ start < end
  <2>1. now \in Nat /\ p \in Nat /\ secs \in Nat
    BY RollupAssumption DEF IInv, Typed, RollupAssumption
  <2> QED
    BY <2>1
<1>2. size \in Sizes \cup {0} /\ h \in Nat
  BY SiteTableIs
<1>3. /\ Stamps(size) \subseteq Written(size) /\ Written(size) \subseteq Nat
      /\ setbacks = 0 =>
           \A t \in Written(size) : t >= now - Retained(size) => t \in Stamps(size)
  BY <1>2, StampsAre
<1>4. R # {}
  BY DEF SiteSegments
<1>5. /\ R \in SUBSET Nat /\ \A r \in R : start - h <= r /\ r <= end /\ r \in stamps
      /\ \A r \in Stamps(size) : start - h <= r /\ r <= end => r \in R
  BY <1>1, <1>2, <1>3 DEF SiteRows
<1>6. end \in R => \E a \in R : a < end /\ end - a <= h
  <2> SUFFICES ASSUME end \in R PROVE \E a \in R : a < end /\ end - a <= h
    OBVIOUS
  <2>1. end \in Stamps(size)
    BY DEF SiteRows
  <2>2. PICK a \in (end - h)..(end - 1) : a \in Stamps(size)
    BY <2>1 DEF EndsGap
  <2>3. a \in Nat /\ start - h <= a /\ a < end /\ end - a <= h
    BY <1>1, <1>2, <1>3, <2>2
  <2> QED
    BY <1>1, <1>5, <2>2, <2>3
<1> HIDE DEF end, start, size
<1>7. segs \in Seq(Seg) /\ Fills(segs, Len(segs), start, end, SiteTells(R, end, h))
  <2> DEFINE rows == R
             thresh == h
  <2> HIDE DEF rows, thresh
  <2>1. thresh \in Nat /\ thresh = Thresh(size) /\ rows = SiteRows(size, start, end)
    BY <1>2 DEF rows, thresh
  <2>2. /\ rows \in SUBSET Nat /\ rows # {} /\ \A r \in rows : start - thresh <= r /\ r <= end
        /\ end \in rows => \E a \in rows : a < end /\ end - a <= thresh
    BY <1>4, <1>5, <1>6 DEF rows, thresh
  <2>3. segs \in Seq(Seg) /\ Fills(segs, Len(segs), start, end, SiteTells(rows, end, thresh))
    BY <1>1, <2>1, <2>2, SiteFills
  <2> QED
    BY <2>3 DEF rows, thresh
<1> HIDE DEF segs, h, R
<1>8. Tile(segs, start, end)
  BY <1>1, <1>7, FillsTile
<1>9. ASSUME NEW t \in start..(end - 1)
      PROVE  /\ DrawnUp(segs, t) => Bridged(t, stamps, end, h)
             /\ setbacks = 0 /\ t - h >= now - Retained(size)
                  /\ Bridged(t, stamps, end, h) => DrawnUp(segs, t)
  <2>1. t \in Nat /\ start <= t /\ t < end
    BY <1>1
  <2>2. DrawnUp(segs, t) <=> Spanned(t, R, end, h)
    BY <1>1, <1>7, DrawnIsSpanned
  <2>3. ASSUME Spanned(t, R, end, h) PROVE Bridged(t, stamps, end, h)
    <3>1. PICK a \in R, b \in R \cup {end} : a <= t /\ t < b /\ b - a <= h
      BY <2>3 DEF Spanned
    <3>2. a \in stamps /\ b \in stamps \cup {end} /\ a \in Nat /\ b \in Nat
      BY <1>1, <1>5, <3>1
    <3>3. a \in (t - h + 1)..t /\ b \in (t + 1)..(a + h)
      BY <1>2, <2>1, <3>1, <3>2
    <3> HIDE DEF stamps
    <3> QED
      BY <3>2, <3>3 DEF Bridged
  <2>4. ASSUME setbacks = 0, t - h >= now - Retained(size), Bridged(t, stamps, end, h)
        PROVE  Spanned(t, R, end, h)
    <3>1. PICK a \in (t - h + 1)..t : a \in stamps /\ \E b \in (t + 1)..(a + h) : b \in stamps \cup {end}
      BY <2>4 DEF Bridged
    <3>2. PICK b \in (t + 1)..(a + h) : b \in stamps \cup {end}
      BY <3>1
    <3>3. a \in Nat /\ b \in Nat /\ a <= end /\ b <= end
      BY <1>1, <1>3, <3>1, <3>2
    <3>4. Retained(size) \in Nat
      BY <1>2, RollupAssumption DEF Retained, RollupAssumption
    <3>5. a >= now - Retained(size) /\ b >= now - Retained(size)
      BY <1>1, <1>2, <2>1, <2>4, <3>1, <3>2, <3>3, <3>4
    <3>6. start - h <= a /\ start - h <= b /\ a <= t /\ t < b /\ b - a <= h
      BY <1>1, <1>2, <2>1, <3>1, <3>2, <3>3
    <3>7. a \in R /\ b \in R \cup {end}
      BY <1>3, <1>5, <2>4, <3>1, <3>2, <3>3, <3>5, <3>6
    <3> QED
      BY <3>6, <3>7 DEF Spanned
  <2> QED
    BY <2>2, <2>3, <2>4
<1> QED
  BY <1>8, <1>9 DEF segs, h, start, end, size

\* Whichever table the lane of the site is read from, it hides no downtime, and where the
\* table still has its rows it invents none (db.py:1856-1937).
THEOREM SiteGapsStayReal == Spec => []SiteGapsAreReal
<1>1. IInv => SiteGapsAreReal
  BY SiteGapsAreRealNow
<1> QED
  BY <1>1, IInvHolds, PTL
-----------------------------------------------------------------------------
(* The walks over the lists of LiteLLM.                                      *)

ServerTyped ==
    server \in [size : 0..MaxEntries, page : 1..MaxPage, totals : Totals, heeds : BOOLEAN]

WalkRecord == [list : {"none", "keys", "users"}, out : SUBSET All, count : Nat, size : Nat,
               asked : 0..PageLimit, phase : {"on", "read", "cut"}]

\* The entries of the first n pages.
Taken(n) == {i \in All : i <= n * server.page}

\* A walk that goes on has read so many pages, none of them empty; one that has ended
\* by itself has read them all.
OnTheWay(w) ==
    /\ w.asked <= PageCount + 1
    /\ w.phase # "cut" => w.out = Taken(w.asked) /\ w.count = Cardinality(w.out)
    /\ w.phase = "on" /\ w.asked > 0 => w.asked <= PageCount /\ w.size = Cardinality(PageOf(1))
    /\ w.phase = "read" => w.out = All

\* The second page that is the first again ends the walk of the users.
NoticesLoop(w) ==
    w.list = "users" =>
        /\ w.asked <= 2 /\ (w.asked = 2 => w.phase # "on")
        /\ w.phase = "on" => w.out = IF w.asked = 0 THEN {} ELSE PageOf(1)

SoundWalk(w) ==
    /\ w.list = "none" => w = NewWalk("none")
    /\ server.heeds => OnTheWay(w)
    /\ ~server.heeds => NoticesLoop(w)

WalkInv ==
    /\ ServerTyped /\ cached \subseteq All
    /\ \A c \in Callers : walk[c] \in WalkRecord /\ SoundWalk(walk[c])
    /\ DOMAIN walk = Callers

-----------------------------------------------------------------------------
LEMMA IntervalCount ==
  ASSUME NEW a \in Int, NEW b \in Int, a <= b + 1
  PROVE  IsFiniteSet(a..b) /\ Cardinality(a..b) = b - a + 1
<1>1. Cardinality(a..b) = IF a > b THEN 0 ELSE b - a + 1
  BY FS_Interval
<1>2. IsFiniteSet(a..b)
  BY FS_Interval
<1> QED
  BY <1>1, <1>2

LEMMA CutInterval ==
  ASSUME NEW s \in Nat, NEW a \in Nat, NEW b \in Nat, a <= b, NEW l \in Nat, NEW m \in Nat,
         l = (IF a <= s THEN a ELSE s), m = (IF b <= s THEN b ELSE s)
  PROVE  /\ {i \in 1..s : i <= b} = 1..m
         /\ {i \in 1..s : i > a /\ i <= b} = (l + 1)..m
<1>1. {i \in 1..s : i <= b} = 1..m
  OBVIOUS
<1>2. {i \in 1..s : i > a /\ i <= b} = (l + 1)..m
  OBVIOUS
<1> QED
  BY <1>1, <1>2

\* So many pages of p hold s entries or they do not (litellm.py:1508-1510).
LEMMA PagesHold ==
  ASSUME NEW s \in Nat, NEW p \in Nat \ {0}, NEW n \in Nat
  PROVE  /\ (s + p - 1) \div p \in Nat
         /\ n >= (s + p - 1) \div p <=> n * p >= s
         /\ n * p \in Nat
<1> DEFINE q == (s + p - 1) \div p
<1>1. q \in Nat /\ q * p <= s + p - 1 /\ s + p - 1 < q * p + p
  OBVIOUS
<1>2. n * p \in Nat /\ q * p \in Nat
  BY <1>1
<1>3. CASE n >= q
  <2>1. n * p >= q * p
    BY <1>1, <1>3
  <2> QED
    BY <1>1, <1>2, <1>3, <2>1
<1>4. CASE n < q
  <2>1. (n + 1) * p <= q * p /\ (n + 1) * p = n * p + p
    BY <1>1, <1>4
  <2> QED
    BY <1>1, <1>2, <1>4, <2>1
<1> QED
  BY <1>1, <1>2, <1>3, <1>4

LEMMA ServerFacts ==
  ASSUME ServerTyped
  PROVE  /\ server.size \in Nat /\ server.page \in Nat \ {0} /\ server.heeds \in BOOLEAN
         /\ IsFiniteSet(All) /\ Cardinality(All) = server.size
         /\ PageCount \in Nat
<1>1. server.size \in Nat /\ server.page \in Nat \ {0} /\ server.heeds \in BOOLEAN
  BY PagingAssumption DEF ServerTyped, PagingAssumption
<1>2. PageCount \in Nat
  BY <1>1, PagesHold, 0 \in Nat DEF PageCount
<1>3. IsFiniteSet(1..server.size) /\ Cardinality(1..server.size) = server.size
  <2>1. \A m \in Nat : IsFiniteSet(1..m) /\ Cardinality(1..m) = m
    <3>1. \A m \in Nat : 1 \in Int /\ m \in Int /\ 1 <= m + 1 /\ m - 1 + 1 = m
      OBVIOUS
    <3> QED
      BY <3>1, IntervalCount
  <2> QED
    BY <1>1, <2>1
<1> QED
  BY <1>1, <1>2, <1>3 DEF All

\* The entries of a page, and of the pages up to it.
LEMMA PageSizes ==
  ASSUME ServerTyped, server.heeds, NEW n \in Nat \ {0}
  PROVE  /\ Taken(n - 1) \cap PageOf(n) = {}
         /\ Taken(n) = Taken(n - 1) \cup PageOf(n)
         /\ Cardinality(Taken(n)) = Cardinality(Taken(n - 1)) + Cardinality(PageOf(n))
         /\ Taken(n) = All <=> n >= PageCount
         /\ PageOf(n) # {} <=> n <= PageCount
         /\ n < PageCount => Cardinality(PageOf(n)) = server.page
         /\ Cardinality(PageOf(n)) \in Nat /\ Cardinality(PageOf(n)) <= server.page
         /\ IsFiniteSet(Taken(n)) /\ IsFiniteSet(PageOf(n))
<1> DEFINE S == server.size
           p == server.page
           a == (n - 1) * p
           b == n * p
           m == IF b <= S THEN b ELSE S
           l == IF a <= S THEN a ELSE S
<1>1. S \in Nat /\ p \in Nat \ {0} /\ n - 1 \in Nat
  BY ServerFacts
<1>2. a \in Nat /\ b \in Nat /\ b = a + p
  BY <1>1
<1>3. n >= PageCount <=> b >= S
  BY <1>1, PagesHold DEF PageCount
<1>4. n - 1 >= PageCount <=> a >= S
  BY <1>1, PagesHold DEF PageCount
<1>5. PageCount \in Nat
  BY ServerFacts
<1>6. Taken(n) = {i \in 1..S : i <= b} /\ Taken(n - 1) = {i \in 1..S : i <= a}
  BY DEF Taken, All
<1>7. PageOf(n) = {i \in 1..S : i > a /\ i <= b}
  BY DEF PageOf, All
<1> HIDE DEF S, p, a, b
<1>9. m \in Nat /\ l \in Nat /\ l <= m /\ m <= S
  BY <1>1, <1>2
<1>0. l = (IF a <= S THEN a ELSE S) /\ m = (IF b <= S THEN b ELSE S) /\ a < b
  BY <1>1, <1>2
<1> HIDE DEF m, l
<1>8. Taken(n) = 1..m /\ Taken(n - 1) = 1..l /\ PageOf(n) = (l + 1)..m
  <2>1. {i \in 1..S : i <= b} = 1..m /\ {i \in 1..S : i > a /\ i <= b} = (l + 1)..m
    BY <1>0, <1>1, <1>2, <1>9, CutInterval, a <= b
  <2>2. {i \in 1..S : i <= a} = 1..l
    BY <1>0, <1>1, <1>2, <1>9, CutInterval, a <= a
  <2> QED
    BY <1>6, <1>7, <2>1, <2>2
<1>10. IsFiniteSet(1..m) /\ Cardinality(1..m) = m
  BY <1>9, IntervalCount, 1 \in Int, m \in Int, 1 <= m + 1, m - 1 + 1 = m
<1>11. IsFiniteSet(1..l) /\ Cardinality(1..l) = l
  BY <1>9, IntervalCount, 1 \in Int, l \in Int, 1 <= l + 1, l - 1 + 1 = l
<1>12. IsFiniteSet((l + 1)..m) /\ Cardinality((l + 1)..m) = m - l
  BY <1>9, IntervalCount, l + 1 \in Int, m \in Int, l + 1 <= m + 1, m - (l + 1) + 1 = m - l
<1>13. Taken(n - 1) \cap PageOf(n) = {} /\ Taken(n) = Taken(n - 1) \cup PageOf(n)
  BY <1>8, <1>9
<1>14. Cardinality(Taken(n)) = Cardinality(Taken(n - 1)) + Cardinality(PageOf(n))
  <2>1. m = l + (m - l)
    BY <1>9
  <2> QED
    BY <1>8, <1>10, <1>11, <1>12, <2>1
<1>15. Taken(n) = All <=> n >= PageCount
  <2>1. 1..m = 1..S <=> m = S
    BY <1>1, <1>9
  <2>2. m = S <=> b >= S
    BY <1>0, <1>1, <1>2
  <2> QED
    BY <1>3, <1>8, <2>1, <2>2 DEF All, S
<1>16. PageOf(n) # {} <=> n <= PageCount
  <2>0. l + 1 <= m <=> a < S
    BY <1>0, <1>1, <1>2
  <2>4. l + 1 <= m => l + 1 \in (l + 1)..m
    BY <1>9
  <2>1. (l + 1)..m # {} <=> a < S
    BY <1>9, <2>0, <2>4
  <2>2. n <= PageCount <=> ~(n - 1 >= PageCount)
    BY <1>1, <1>5
  <2>3. a < S <=> ~(a >= S)
    BY <1>1, <1>2
  <2> QED
    BY <1>0, <1>4, <1>8, <2>1, <2>2, <2>3
<1>17. n < PageCount => m - l = p
  BY <1>0, <1>1, <1>2, <1>3, <1>5
<1>18. m - l \in Nat /\ m - l <= p
  BY <1>0, <1>1, <1>2, <1>9
<1> QED
  BY <1>8, <1>10, <1>12, <1>13, <1>14, <1>15, <1>16, <1>17, <1>18 DEF p

-----------------------------------------------------------------------------
\* A page has no more entries than the list.
LEMMA PageIsFinite ==
  ASSUME ServerTyped, NEW n, NEW new \in SUBSET PageOf(n)
  PROVE  /\ PageOf(n) \subseteq All /\ IsFiniteSet(PageOf(n)) /\ Cardinality(PageOf(n)) \in Nat
         /\ IsFiniteSet(new) /\ Cardinality(new) \in Nat
<1>1. PageOf(n) \subseteq All
  BY DEF PageOf
<1>2. IsFiniteSet(All)
  BY ServerFacts
<1>3. IsFiniteSet(PageOf(n))
  BY <1>1, <1>2, FS_Subset
<1>4. IsFiniteSet(new)
  BY <1>3, FS_Subset
<1> QED
  BY <1>1, <1>3, <1>4, FS_CardinalityType

\* What a page brings: all its entries, for the users those not seen before.
Brought(w) == LET page == PageOf(w.asked + 1) IN IF w.list = "users" THEN page \ w.out ELSE page

Answer(w) == Reads(w, Brought(w), w.count + Cardinality(Brought(w)))

\* The fields of the walk after a page.
LEMMA AnswerFields ==
  ASSUME ServerTyped, NEW w \in WalkRecord, w.asked < PageLimit
  PROVE  LET n == w.asked + 1
             first == IF n = 1 THEN Cardinality(PageOf(n)) ELSE w.size
             r == Answer(w)
         IN  /\ r \in WalkRecord /\ r.list = w.list /\ r.asked = n /\ r.phase # "cut"
             /\ Brought(w) = {} => r.phase = "read" /\ r.out = w.out /\ r.count = w.count
             /\ Brought(w) # {} =>
                  /\ r.out = w.out \cup Brought(w)
                  /\ r.count = w.count + Cardinality(Brought(w))
                  /\ r.size = first /\ r.phase = IF LastPage(n, r.count, first) THEN "read" ELSE "on"
<1> DEFINE n == w.asked + 1
           first == IF n = 1 THEN Cardinality(PageOf(n)) ELSE w.size
           count == w.count + Cardinality(Brought(w))
           last == IF LastPage(n, count, first) THEN "read" ELSE "on"
<1>1. n \in 1..PageLimit /\ n \in 0..PageLimit
  BY PagingAssumption DEF WalkRecord, PagingAssumption
<1>2. Brought(w) \subseteq PageOf(n)
  BY DEF Brought
<1>3. PageOf(n) \subseteq All /\ Cardinality(PageOf(n)) \in Nat /\ Cardinality(Brought(w)) \in Nat
  BY <1>2, PageIsFinite
<1>4. first \in Nat /\ count \in Nat
  BY <1>3 DEF WalkRecord
<1>5. last \in {"read", "on"}
  OBVIOUS
<1>6. Answer(w) = IF Brought(w) = {} THEN [w EXCEPT !.asked = n, !.phase = "read"]
                  ELSE [w EXCEPT !.asked = n, !.out = w.out \cup Brought(w), !.count = count,
                                 !.size = first, !.phase = last]
  BY DEF Answer, Reads
<1>7. w = [list |-> w.list, out |-> w.out, count |-> w.count, size |-> w.size,
           asked |-> w.asked, phase |-> w.phase]
  BY DEF WalkRecord
<1>8. w.out \cup Brought(w) \in SUBSET All
  BY <1>2, <1>3 DEF WalkRecord
<1> HIDE DEF n, first, count, last
<1>9. CASE Brought(w) = {}
  <2>1. Answer(w) = [w EXCEPT !.asked = n, !.phase = "read"]
    BY <1>6, <1>9
  <2>2. Answer(w) = [list |-> w.list, out |-> w.out, count |-> w.count, size |-> w.size,
                     asked |-> n, phase |-> "read"]
    BY <1>7, <2>1
  <2> QED
    BY <1>1, <1>9, <2>2 DEF WalkRecord, n
<1>10. CASE Brought(w) # {}
  <2>1. Answer(w) = [w EXCEPT !.asked = n, !.out = w.out \cup Brought(w), !.count = count,
                              !.size = first, !.phase = last]
    BY <1>6, <1>10
  <2>2. Answer(w) = [list |-> w.list, out |-> w.out \cup Brought(w), count |-> count,
                     size |-> first, asked |-> n, phase |-> last]
    BY <1>7, <2>1
  <2>3. Answer(w) \in WalkRecord
    BY <1>1, <1>4, <1>5, <1>8, <2>2 DEF WalkRecord
  <2> QED
    BY <1>10, <2>2, <2>3 DEF n, first, count, last
<1> QED
  BY <1>9, <1>10

LEMMA CutFields ==
  ASSUME NEW w \in WalkRecord, NEW n, NEW v, v = [w EXCEPT !.asked = n, !.phase = "cut"]
  PROVE  v = [list |-> w.list, out |-> w.out, count |-> w.count, size |-> w.size,
              asked |-> n, phase |-> "cut"]
<1>1. w = [list |-> w.list, out |-> w.out, count |-> w.count, size |-> w.size,
           asked |-> w.asked, phase |-> w.phase]
  BY DEF WalkRecord
<1> QED
  BY <1>1

\* A page read from a server that heeds the number takes the walk one page on, and
\* ends it only with the list.
LEMMA HeedingAnswer ==
  ASSUME ServerTyped, server.heeds, NEW w \in WalkRecord, w.asked < PageLimit, w.phase = "on",
         OnTheWay(w)
  PROVE  OnTheWay(Answer(w))
<1> DEFINE n == w.asked + 1
           new == Brought(w)
           r == Answer(w)
<1>1. n \in Nat \ {0} /\ n - 1 = w.asked
  BY DEF WalkRecord
<1>2. w.out = Taken(n - 1) /\ w.count = Cardinality(Taken(n - 1))
  BY <1>1 DEF OnTheWay
<1>3. new = PageOf(n)
  <2>1. Taken(n - 1) \cap PageOf(n) = {}
    BY <1>1, PageSizes
  <2> QED
    BY <1>2, <2>1 DEF Brought
<1>4. n <= PageCount + 1
  BY <1>1, ServerFacts DEF OnTheWay
<1>5. CASE new = {}
  <2>1. r.asked = n /\ r.phase = "read" /\ r.out = w.out /\ r.count = w.count
    BY <1>5, AnswerFields
  <2>2. n > PageCount
    BY <1>1, <1>3, <1>5, PageSizes, ServerFacts
  <2>3. Taken(n) = All
    BY <1>1, <2>2, PageSizes, ServerFacts
  <2>4. Taken(n) = Taken(n - 1) \cup PageOf(n)
    BY <1>1, PageSizes
  <2> QED
    BY <1>2, <1>3, <1>4, <1>5, <2>1, <2>3, <2>4 DEF OnTheWay
<1>6. CASE new # {}
  <2> DEFINE first == IF n = 1 THEN Cardinality(PageOf(n)) ELSE w.size
  <2>1. /\ r.asked = n /\ r.phase # "cut" /\ r.out = w.out \cup new
        /\ r.count = w.count + Cardinality(new) /\ r.size = first
    BY <1>6, AnswerFields
  <2>2. r.phase = IF LastPage(n, r.count, first) THEN "read" ELSE "on"
    BY <1>6, AnswerFields
  <2>3. n <= PageCount
    BY <1>1, <1>3, <1>6, PageSizes
  <2>4. r.out = Taken(n) /\ r.count = Cardinality(Taken(n))
    BY <1>1, <1>2, <1>3, <2>1, PageSizes
  <2>5. first = Cardinality(PageOf(1))
    BY <1>1 DEF OnTheWay
  <2>6. r.phase = "read" => Taken(n) = All
    <3>1. CASE "pages" \in server.totals
      BY <1>1, <2>2, <3>1, PageSizes DEF LastPage
    <3>2. CASE "pages" \notin server.totals /\ "count" \in server.totals
      <4>1. r.phase = "read" => Cardinality(Taken(n)) >= Cardinality(All)
        BY <2>2, <2>4, <3>2, ServerFacts DEF LastPage
      <4>2. Taken(n) \in SUBSET All /\ IsFiniteSet(All)
        BY ServerFacts DEF Taken
      <4>3. /\ Cardinality(Taken(n)) <= Cardinality(All)
            /\ Cardinality(All) = Cardinality(Taken(n)) => All = Taken(n)
        BY <4>2, FS_Subset
      <4>4. Cardinality(Taken(n)) \in Nat /\ Cardinality(All) \in Nat
        BY <1>1, <4>2, PageSizes, FS_CardinalityType
      <4> QED
        BY <4>1, <4>3, <4>4
    <3>3. CASE "pages" \notin server.totals /\ "count" \notin server.totals
      <4>1. r.phase = "read" => Cardinality(PageOf(n)) < Cardinality(PageOf(1))
        BY <2>2, <2>5, <3>3 DEF LastPage
      <4>2. Cardinality(PageOf(1)) \in Nat /\ Cardinality(PageOf(1)) <= server.page
        BY PageSizes, 1 \in Nat \ {0}
      <4>3. Cardinality(PageOf(n)) \in Nat /\ (n < PageCount => Cardinality(PageOf(n)) = server.page)
        BY <1>1, PageSizes
      <4>4. r.phase = "read" => n >= PageCount
        BY <1>1, <4>1, <4>2, <4>3, ServerFacts
      <4> QED
        BY <1>1, <4>4, PageSizes
    <3> QED
      BY <3>1, <3>2, <3>3
  <2> QED
    BY <1>1, <1>4, <2>1, <2>3, <2>4, <2>5, <2>6 DEF OnTheWay
<1> QED
  BY <1>5, <1>6

\* The second page of a server that does not heed the number ends the walk of users.
LEMMA LoopingAnswer ==
  ASSUME ServerTyped, ~server.heeds, NEW w \in WalkRecord, w.asked < PageLimit, w.phase = "on",
         NoticesLoop(w)
  PROVE  NoticesLoop(Answer(w))
<1>1. SUFFICES ASSUME w.list = "users" PROVE NoticesLoop(Answer(w))
  BY AnswerFields DEF NoticesLoop
<1>2. PageOf(w.asked + 1) = PageOf(1)
  BY DEF PageOf
<1>3. w.asked \in {0, 1}
  BY <1>1 DEF NoticesLoop, WalkRecord
<1>4. Brought(w) = PageOf(1) \ w.out
  BY <1>1, <1>2 DEF Brought
<1>5. CASE w.asked = 0
  <2>1. Brought(w) = PageOf(1) /\ w.out = {}
    BY <1>1, <1>4, <1>5 DEF NoticesLoop
  <2> QED
    BY <1>5, <2>1, AnswerFields DEF NoticesLoop
<1>6. CASE w.asked = 1
  <2>1. Brought(w) = {}
    BY <1>1, <1>4, <1>6 DEF NoticesLoop
  <2> QED
    BY <1>6, <2>1, AnswerFields DEF NoticesLoop
<1> QED
  BY <1>3, <1>5, <1>6

-----------------------------------------------------------------------------
\* A walk that begins is sound.
LEMMA NewIsSound ==
  ASSUME ServerTyped, NEW list \in {"none", "keys", "users"}
  PROVE  NewWalk(list) \in WalkRecord /\ SoundWalk(NewWalk(list))
<1> DEFINE w == NewWalk(list)
<1>1. Taken(0) = {}
  BY ServerFacts DEF Taken, All
<1>2. Cardinality({}) = 0
  BY FS_EmptySet
<1>3. PageCount \in Nat
  BY ServerFacts
<1>4. /\ w.list = list /\ w.out = {} /\ w.count = 0 /\ w.asked = 0 /\ w.phase = "on"
  BY DEF NewWalk
<1>5. w \in WalkRecord
  BY PagingAssumption DEF NewWalk, WalkRecord, PagingAssumption
<1>6. OnTheWay(w)
  BY <1>1, <1>2, <1>3, <1>4 DEF OnTheWay
<1>7. NoticesLoop(w)
  BY <1>4 DEF NoticesLoop
<1>8. w.list = "none" => w = NewWalk("none")
  BY <1>4
<1> QED
  BY <1>4, <1>5, <1>6, <1>7, <1>8 DEF SoundWalk

LEMMA InitWalkInv == WalkInit => WalkInv
<1> SUFFICES ASSUME WalkInit PROVE WalkInv
  OBVIOUS
<1>1. ServerTyped /\ cached \subseteq All
  BY DEF WalkInit, ServerTyped, All
<1>2. NewWalk("none") \in WalkRecord /\ SoundWalk(NewWalk("none"))
  BY <1>1, NewIsSound
<1> QED
  BY <1>1, <1>2 DEF WalkInit, WalkInv

\* The list does not change while it is walked.
LEMMA SameList ==
  ASSUME server' = server
  PROVE  /\ ServerTyped => ServerTyped'
         /\ All' = All /\ PageCount' = PageCount /\ WalkRecord' = WalkRecord
         /\ \A c \in Callers : SoundWalk(walk'[c]) => SoundWalk(walk[c])'
<1>1. All' = All /\ PageCount' = PageCount /\ (ServerTyped => ServerTyped')
  BY DEF All, PageCount, ServerTyped
<1>2. WalkRecord' = WalkRecord
  BY <1>1 DEF WalkRecord
<1>3. PageOf(1)' = PageOf(1)
  BY <1>1 DEF PageOf
<1>4. ASSUME NEW c \in Callers, SoundWalk(walk'[c])
      PROVE  SoundWalk(walk[c])'
  <2>1. Taken(walk[c].asked)' = Taken(walk'[c].asked)
    BY <1>1 DEF Taken
  <2>2. OnTheWay(walk'[c]) => OnTheWay(walk[c])'
    BY <1>1, <1>3, <2>1 DEF OnTheWay
  <2>3. NoticesLoop(walk'[c]) => NoticesLoop(walk[c])'
    BY <1>3 DEF NoticesLoop
  <2> QED
    BY <1>4, <2>2, <2>3 DEF SoundWalk
<1> QED
  BY <1>1, <1>2, <1>4

\* A step of one caller that leaves its walk sound and the others alone.
LEMMA OneWalks ==
  ASSUME WalkInv, server' = server, cached' \subseteq All, NEW c \in Callers, NEW w \in WalkRecord,
         SoundWalk(w), walk' = [walk EXCEPT ![c] = w]
  PROVE  WalkInv'
<1>1. \A d \in Callers : walk'[d] \in WalkRecord /\ SoundWalk(walk'[d])
  BY DEF WalkInv
<1>2. DOMAIN walk' = Callers
  BY DEF WalkInv
<1>3. \A d \in Callers : (walk[d] \in WalkRecord)' /\ SoundWalk(walk[d])'
  BY <1>1, SameList
<1>4. ServerTyped' /\ (cached \subseteq All)'
  BY SameList DEF WalkInv
<1> QED
  BY <1>2, <1>3, <1>4 DEF WalkInv

LEMMA KeptIsListed == WalkInv => \A c \in Callers : KeptList(walk[c]) \subseteq All
BY DEF WalkInv, KeptList, WalkRecord

LEMMA NextWalkInv == WalkInv /\ [WalkNext]_walkVars => WalkInv'
<1> SUFFICES ASSUME WalkInv, [WalkNext]_walkVars PROVE WalkInv'
  OBVIOUS
<1>0. ServerTyped /\ cached \subseteq All
  BY DEF WalkInv
<1>1. ASSUME NEW c \in Callers, Begin(c) PROVE WalkInv'
  <2>1. PICK list \in {"keys", "users"} : walk' = [walk EXCEPT ![c] = NewWalk(list)]
    BY <1>1 DEF Begin
  <2> QED
    BY <1>0, <1>1, <2>1, NewIsSound, OneWalks DEF Begin
<1>2. ASSUME NEW c \in Callers, KeyPage(c) \/ UserPage(c) PROVE WalkInv'
  <2> DEFINE w == walk[c]
  <2>1. /\ w \in WalkRecord /\ SoundWalk(w) /\ w.asked < PageLimit /\ w.phase = "on" /\ w.list # "none"
        /\ server' = server /\ cached' = cached
    BY <1>2 DEF WalkInv, KeyPage, UserPage, Asks
  <2>2. walk' = [walk EXCEPT ![c] = Answer(w)]
    <3>1. CASE KeyPage(c)
      <4>1. Brought(w) = PageOf(w.asked + 1)
        BY <3>1 DEF KeyPage, Brought
      <4> QED
        BY <3>1, <4>1 DEF KeyPage, Answer
    <3>2. CASE UserPage(c)
      <4>1. Brought(w) = PageOf(w.asked + 1) \ w.out
        BY <3>2 DEF UserPage, Brought
      <4> QED
        BY <3>2, <4>1 DEF UserPage, Answer
    <3> QED
      BY <1>2, <3>1, <3>2
  <2>3. Answer(w) \in WalkRecord /\ Answer(w).list = w.list /\ Answer(w).phase # "cut"
    BY <1>0, <2>1, AnswerFields
  <2>5. SoundWalk(Answer(w))
    <3>1. server.heeds => OnTheWay(Answer(w))
      BY <1>0, <2>1, HeedingAnswer DEF SoundWalk
    <3>2. ~server.heeds => NoticesLoop(Answer(w))
      BY <1>0, <2>1, LoopingAnswer DEF SoundWalk
    <3> QED
      BY <2>1, <2>3, <3>1, <3>2 DEF SoundWalk
  <2> HIDE DEF w
  <2> QED
    BY <1>0, <2>1, <2>2, <2>3, <2>5, OneWalks
<1>3. ASSUME NEW c \in Callers, PageFails(c) PROVE WalkInv'
  <2> DEFINE w == walk[c]
             v == [w EXCEPT !.asked = w.asked + 1, !.phase = "cut"]
  <2>1. /\ w \in WalkRecord /\ SoundWalk(w) /\ w.asked < PageLimit /\ w.phase = "on" /\ w.list # "none"
        /\ server' = server /\ cached' = cached
    BY <1>3 DEF WalkInv, PageFails, Asks
  <2>8. walk' = [walk EXCEPT ![c] = v]
    BY <1>3 DEF PageFails
  <2>2. v = [list |-> w.list, out |-> w.out, count |-> w.count, size |-> w.size,
             asked |-> w.asked + 1, phase |-> "cut"]
    BY <2>1, CutFields
  <2>3. w.asked + 1 \in 0..PageLimit
    BY <2>1, PagingAssumption DEF WalkRecord, PagingAssumption
  <2>4. v \in WalkRecord
    BY <2>1, <2>2, <2>3 DEF WalkRecord
  <2>5. server.heeds => OnTheWay(v)
    <3>1. server.heeds => w.asked <= PageCount \/ w.asked = 0
      BY <2>1 DEF SoundWalk, OnTheWay, WalkRecord
    <3> QED
      BY <1>0, <2>1, <2>2, <3>1, ServerFacts DEF OnTheWay, WalkRecord
  <2>6. ~server.heeds => NoticesLoop(v)
    BY <2>1, <2>2 DEF SoundWalk, NoticesLoop, WalkRecord
  <2>7. SoundWalk(v)
    BY <2>1, <2>2, <2>5, <2>6 DEF SoundWalk
  <2> HIDE DEF w, v
  <2> QED
    BY <1>0, <2>1, <2>4, <2>7, <2>8, OneWalks
<1>4. ASSUME NEW c \in Callers, EndWalk(c) PROVE WalkInv'
  <2>1. cached' \subseteq All
    BY <1>0, <1>4, KeptIsListed DEF EndWalk
  <2> QED
    BY <1>0, <1>4, <2>1, NewIsSound, OneWalks DEF EndWalk
<1>5. CASE UNCHANGED walkVars
  <2>1. \A c \in Callers : walk'[c] \in WalkRecord /\ SoundWalk(walk'[c])
    BY <1>5 DEF WalkInv, walkVars
  <2>2. \A c \in Callers : (walk[c] \in WalkRecord)' /\ SoundWalk(walk[c])'
    BY <1>5, <2>1, SameList DEF walkVars
  <2> QED
    BY <1>0, <1>5, <2>2, SameList DEF WalkInv, walkVars
<1> QED
  BY <1>1, <1>2, <1>3, <1>4, <1>5 DEF WalkNext

LEMMA WalkInvHolds == WalkSpec => []WalkInv
BY InitWalkInv, NextWalkInv, PTL DEF WalkSpec

LEMMA WalkInvTyped == WalkInv => WalkTypeOK
BY DEF WalkInv, WalkTypeOK, SoundWalk, WalkRecord

LEMMA HeededIsRead == WalkInv => WholeListRead
<1> SUFFICES ASSUME WalkInv, server.heeds, NEW c \in Callers
             PROVE  /\ walk[c].asked <= PageCount + 1
                    /\ Ended(c) /\ walk[c].phase # "cut" /\ PageCount <= PageLimit
                         => walk[c].out = All
  BY DEF WholeListRead
<1> DEFINE w == walk[c]
<1>1. ServerTyped /\ w \in WalkRecord /\ OnTheWay(w)
  BY DEF WalkInv, SoundWalk
<1>2. w.asked <= PageCount + 1
  BY <1>1 DEF OnTheWay
<1>3. ASSUME Ended(c), w.phase # "cut", PageCount <= PageLimit PROVE w.out = All
  <2>1. CASE w.phase = "read"
    BY <1>1, <2>1 DEF OnTheWay
  <2>2. CASE w.phase = "on"
    <3>1. w.asked = PageLimit /\ PageLimit \in Nat \ {0} /\ w.out = Taken(w.asked)
      BY <1>1, <1>3, <2>2, PagingAssumption DEF Ended, OnTheWay, PagingAssumption
    <3>2. Taken(PageLimit) = All
      BY <1>1, <1>3, <3>1, PageSizes
    <3> QED
      BY <3>1, <3>2
  <2> QED
    BY <1>1, <1>3, <2>1, <2>2 DEF WalkRecord
<1> QED
  BY <1>2, <1>3

LEMMA LoopsAreNoticed == WalkInv => NoEndlessWalk
BY DEF WalkInv, SoundWalk, NoticesLoop, NoEndlessWalk

\* What is kept of a walk that was cut is no less than what was kept before, and
\* nothing is kept instead of the whole list.
LEMMA KeptIsFuller ==
  ASSUME WalkInv, NEW c \in Callers, EndWalk(c)
  PROVE  /\ walk[c].phase = "cut" => Cardinality(cached') >= Cardinality(cached)
         /\ server.heeds /\ PageCount <= PageLimit /\ cached = All => cached' = All
<1> DEFINE w == walk[c]
<1>1. /\ ServerTyped /\ cached \in SUBSET All /\ w \in WalkRecord /\ w.out \in SUBSET All
      /\ IsFiniteSet(All)
  BY ServerFacts DEF WalkInv, WalkRecord
<1>2. /\ IsFiniteSet(cached) /\ IsFiniteSet(w.out)
      /\ Cardinality(w.out) <= Cardinality(All)
      /\ Cardinality(All) = Cardinality(w.out) => All = w.out
  BY <1>1, FS_Subset
<1>3. Cardinality(cached) \in Nat /\ Cardinality(w.out) \in Nat /\ Cardinality(All) \in Nat
  BY <1>1, <1>2, FS_CardinalityType
<1>4. cached' = cached \/ cached' = KeptList(w)
  BY DEF EndWalk
<1>5. ASSUME w.phase = "cut" PROVE Cardinality(cached') >= Cardinality(cached)
  <2>1. KeptList(w) = cached \/ (KeptList(w) = w.out /\ ~(Cardinality(w.out) < Cardinality(cached)))
    BY <1>5 DEF KeptList
  <2> QED
    BY <1>3, <1>4, <2>1
<1>6. ASSUME server.heeds, PageCount <= PageLimit, cached = All PROVE cached' = All
  <2>1. CASE w.phase # "cut"
    <3>1. Ended(c)
      BY DEF EndWalk
    <3>2. w.out = All
      BY <1>6, <2>1, <3>1, HeededIsRead DEF WholeListRead
    <3> QED
      BY <1>4, <1>6, <3>2 DEF KeptList
  <2>2. CASE w.phase = "cut"
    <3>1. KeptList(w) = cached \/ (KeptList(w) = w.out /\ ~(Cardinality(w.out) < Cardinality(cached)))
      BY <2>2 DEF KeptList
    <3> QED
      BY <1>2, <1>3, <1>4, <1>6, <3>1
  <2> QED
    BY <2>1, <2>2
<1> QED
  BY <1>5, <1>6

LEMMA StepKeeps == WalkInv /\ [WalkNext]_walkVars => KeptStep
<1> SUFFICES ASSUME WalkInv, [WalkNext]_walkVars PROVE KeptStep
  OBVIOUS
<1>1. \A c \in Callers :
         EndWalk(c) /\ walk[c].phase = "cut" => Cardinality(cached') >= Cardinality(cached)
  BY KeptIsFuller
<1>2. ASSUME server.heeds, PageCount <= PageLimit, cached = All PROVE cached' = All'
  <2>1. CASE \E c \in Callers : EndWalk(c)
    <3>1. cached' = All
      BY <1>2, <2>1, KeptIsFuller
    <3>2. server' = server
      BY <2>1 DEF EndWalk
    <3> QED
      BY <3>1, <3>2 DEF All
  <2>2. CASE ~ \E c \in Callers : EndWalk(c)
    <3>1. cached' = cached /\ server' = server
      BY <2>2 DEF WalkNext, Begin, KeyPage, UserPage, PageFails, walkVars
    <3> QED
      BY <1>2, <3>1 DEF All
  <2> QED
    BY <2>1, <2>2
<1>3. All' = All
  BY DEF WalkNext, Begin, KeyPage, UserPage, PageFails, EndWalk, walkVars, All
<1> QED
  BY <1>1, <1>2, <1>3 DEF KeptStep

\* Whoever walks and whatever fails, a server that heeds the page number is read to its
\* end, the walk of the users ends on one that does not, and the list kept of the keys
\* does not shrink because a walk was cut short (litellm.py:1291-1345, 1455-1601).
THEOREM ListsAreRead == WalkSpec => ListsRead
<1>1. WalkInv => WalkTypeOK /\ WholeListRead /\ NoEndlessWalk
  BY WalkInvTyped, HeededIsRead, LoopsAreNoticed
<1>2. WalkSpec => [](WalkTypeOK /\ WholeListRead /\ NoEndlessWalk)
  BY <1>1, WalkInvHolds, PTL
<1>3. WalkSpec => [][KeptStep]_walkVars
  BY StepKeeps, WalkInvHolds, PTL DEF WalkSpec
<1> QED
  BY <1>2, <1>3 DEF ListsRead
-----------------------------------------------------------------------------
(***************************************************************************)
(* The budgets panel.  A row says what a source says of its key; those     *)
(* without a label are numbered in the order they come.  Where the two     *)
(* sources tell the keys apart, a row can only be joined with a row of its *)
(* own key, so no row of another key is ever replaced or left out.         *)
(***************************************************************************)
RowTrue(r) ==
    /\ r.key \in Keys /\ r.id \in Said(r.key) /\ r.label = Label(r.id) /\ r.nth \in Nat
    /\ r.nth = 0 <=> r.label # Blank
    /\ r.label # Blank \/ r.id = view.spent[r.key]
    /\ r.key \in merging => r.label # Blank

PanelTyped ==
    /\ view \in [listed : ViewOf, spent : ViewOf]
    /\ \A r \in panel : RowTrue(r)
    /\ IsFiniteSet(Unnamed) /\ \A r \in panel : r.nth <= Cardinality(Unnamed)
    /\ listing # {} => merging = Keys

\* Of a key whose list entry or snapshot entry was read there is one row.
KeysRead ==
    Telling =>
        /\ \A r, s \in panel : r.key = s.key => r = s
        /\ \A r \in panel : r.key \notin listing
        /\ \A k \in Keys \ listing :
              view.listed[k] # Absent /\ Label(view.listed[k]) # Blank => \E r \in panel : r.key = k
        /\ \A k \in Keys \ merging : view.spent[k] # Absent => \E r \in panel : r.key = k

PanelInv == PanelTyped /\ LabelsUnique /\ KeysRead

\* What a source says of a key is blank or its own hash.
LEMMA SaidOwnHash ==
    ASSUME view \in [listed : ViewOf, spent : ViewOf], NEW k \in Keys, NEW x \in Said(k)
    PROVE  x # Absent /\ x \in Fields(k) /\ x.hash \in {Blank, k}
<1>1. \A f \in ViewOf : f[k] = Absent \/ f[k] \in Fields(k)
  BY DEF ViewOf
<1>2. x # Absent /\ x \in Fields(k)
  BY <1>1 DEF Said
<1> QED
  BY <1>2 DEF Fields

\* Where the keys can be told apart, two rows are of one key only if they are.
LEMMA JoinedAreOfOneKey ==
    ASSUME PanelTyped, Telling, NEW k \in Keys, NEW x \in Said(k), NEW r \in panel, SameKey(x, r)
    PROVE  r.key = k
<1>1. RowTrue(r) /\ r.key \in Keys /\ r.id \in Said(r.key) /\ r.label = Label(r.id)
  BY DEF PanelTyped, RowTrue
<1>2. x.hash \in {Blank, k} /\ r.id.hash \in {Blank, r.key}
  BY <1>1, SaidOwnHash DEF PanelTyped
<1>3. CASE Strong(x) \cap Strong(r.id) # {}
  BY <1>2, <1>3 DEF Strong
<1>4. CASE Label(x) # Blank /\ Label(x) = r.label
  <2>1. \A j \in Keys : \A y \in Said(k), z \in Said(j) :
          k # j /\ Label(y) = Label(z) => Label(y) = Blank
    BY DEF Telling
  <2> QED
    BY <1>1, <1>4, <2>1
<1> QED
  BY <1>3, <1>4 DEF SameKey

\* The rows that are left, and a new one with a label: the numbers stay.
LEMMA ListKeepsPanel ==
    ASSUME PanelInv, NEW k \in Keys, List(k)
    PROVE  PanelInv'
<1> DEFINE id == view.listed[k]
<1> DEFINE new == PanelRow(k, id, 0)
<1>1. /\ k \in listing /\ listing' = listing \ {k} /\ view' = view /\ merging' = merging
      /\ panel' = IF id = Absent \/ Label(id) = Blank THEN panel
                  ELSE {r \in panel : r.label # Label(id)} \cup {new}
  BY DEF List
<1>2. \A j : Said(j)' = Said(j)
  BY <1>1 DEF Said
<1>3. Telling' = Telling
  BY <1>1 DEF Telling, Said
<1>4. \A r : RowTrue(r) => RowTrue(r)'
  BY <1>1, <1>2 DEF RowTrue
<1>5. merging = Keys
  BY <1>1 DEF PanelInv, PanelTyped
<1>6. CASE id = Absent \/ Label(id) = Blank
  <2>1. panel' = panel /\ Unnamed' = Unnamed
    BY <1>1, <1>6 DEF Unnamed
  <2>2. PanelTyped'
    BY <1>1, <1>4, <1>5, <2>1 DEF PanelInv, PanelTyped
  <2>3. LabelsUnique'
    BY <2>1 DEF PanelInv, LabelsUnique
  <2>4. KeysRead'
    BY <1>1, <1>3, <1>6, <2>1 DEF PanelInv, KeysRead
  <2> QED
    BY <2>2, <2>3, <2>4 DEF PanelInv
<1>7. CASE id # Absent /\ Label(id) # Blank
  <2>1. panel' = {r \in panel : r.label # Label(id)} \cup {new}
    BY <1>1, <1>7
  <2>2. new.key = k /\ new.id = id /\ new.label = Label(id) /\ new.nth = 0
    BY DEF PanelRow
  <2>3. id \in Said(k)
    BY <1>7 DEF Said
  <2>4. RowTrue(new)
    BY <1>7, <2>2, <2>3 DEF RowTrue
  <2>5. Unnamed' = Unnamed
    <3>1. \A r \in panel : r.nth > 0 => r.label # Label(id)
      BY <1>7 DEF PanelInv, PanelTyped, RowTrue
    <3> QED
      BY <2>1, <2>2, <3>1 DEF Unnamed
  <2>6. Cardinality(Unnamed) \in Nat
    BY FS_CardinalityType DEF PanelInv, PanelTyped
  <2>7. PanelTyped'
    <3> HIDE DEF new
    <3>1. \A r \in panel' : r \in panel \/ r = new
      BY <2>1
    <3>2. \A r \in panel' : RowTrue(r)'
      BY <1>4, <2>4, <3>1 DEF PanelInv, PanelTyped
    <3>3. IsFiniteSet(Unnamed)' /\ Cardinality(Unnamed)' = Cardinality(Unnamed)
      BY <2>5 DEF PanelInv, PanelTyped
    <3>4. \A r \in panel' : r.nth <= Cardinality(Unnamed)'
      BY <2>2, <2>6, <3>1, <3>3 DEF PanelInv, PanelTyped
    <3> QED
      BY <1>1, <1>5, <3>2, <3>3, <3>4 DEF PanelInv, PanelTyped
  <2>8. LabelsUnique'
    <3> HIDE DEF new
    <3> QED
      BY <2>1, <2>2 DEF PanelInv, LabelsUnique
  <2>9. KeysRead'
    <3> HIDE DEF new
    <3> SUFFICES ASSUME Telling
                 PROVE  KeysRead'
      BY <1>3 DEF KeysRead
    <3>1. \A r \in panel : r.key # k
      BY <1>1 DEF PanelInv, KeysRead
    <3>2. \A r \in panel : r.label # Label(id)
      <4>1. \A r \in panel : r.label = Label(id) => SameKey(id, r)
        BY <1>7 DEF SameKey
      <4> QED
        BY <2>3, <3>1, <4>1, JoinedAreOfOneKey DEF PanelInv
    <3>3. panel' = panel \cup {new}
      BY <2>1, <3>2
    <3>4. \A r, s \in panel' : r.key = s.key => r = s
      BY <2>2, <3>1, <3>3 DEF PanelInv, KeysRead
    <3>5. \A r \in panel' : r.key \notin listing'
      BY <1>1, <2>2, <3>3 DEF PanelInv, KeysRead
    <3>6. \A j \in Keys \ listing' :
             view'.listed[j] # Absent /\ Label(view'.listed[j]) # Blank => \E r \in panel' : r.key = j
      BY <1>1, <2>2, <3>3 DEF PanelInv, KeysRead
    <3>7. \A j \in Keys \ merging' : view'.spent[j] # Absent => \E r \in panel' : r.key = j
      BY <1>1, <1>5
    <3> QED
      BY <3>4, <3>5, <3>6, <3>7 DEF KeysRead
  <2> QED
    BY <2>7, <2>8, <2>9 DEF PanelInv
<1> QED
  BY <1>6, <1>7

\* A new row is of a key that had none: one that had a row would be joined with it.
LEMMA FoldInKeepsPanel ==
    ASSUME PanelInv, NEW k \in Keys, FoldIn(k)
    PROVE  PanelInv'
<1> DEFINE id == view.spent[k]
<1> DEFINE nth == IF Label(id) # Blank THEN 0 ELSE Cardinality(Unnamed) + 1
<1> DEFINE new == PanelRow(k, id, nth)
<1> DEFINE there == \E r \in panel : SameKey(id, r)
<1>1. /\ listing = {} /\ k \in merging /\ merging' = merging \ {k} /\ view' = view /\ listing' = listing
      /\ panel' = IF id = Absent \/ there THEN panel ELSE panel \cup {new}
  BY DEF FoldIn
<1>2. \A j : Said(j)' = Said(j)
  BY <1>1 DEF Said
<1>3. Telling' = Telling
  BY <1>1 DEF Telling, Said
<1>4. \A r : RowTrue(r) => RowTrue(r)'
  BY <1>1, <1>2 DEF RowTrue
<1>5. CASE id = Absent \/ there
  <2>1. panel' = panel /\ Unnamed' = Unnamed
    BY <1>1, <1>5 DEF Unnamed
  <2>2. PanelTyped'
    BY <1>1, <1>4, <2>1 DEF PanelInv, PanelTyped
  <2>3. LabelsUnique'
    BY <2>1 DEF PanelInv, LabelsUnique
  <2>4. ASSUME Telling, id # Absent
        PROVE  \E r \in panel : r.key = k
    <3>1. id \in Said(k)
      BY <2>4 DEF Said
    <3> QED
      BY <1>5, <2>4, <3>1, JoinedAreOfOneKey DEF PanelInv
  <2>5. KeysRead'
    BY <1>1, <1>3, <2>1, <2>4 DEF PanelInv, KeysRead
  <2> QED
    BY <2>2, <2>3, <2>5 DEF PanelInv
<1>6. CASE id # Absent /\ ~there
  <2>1. panel' = panel \cup {new}
    BY <1>1, <1>6
  <2>2. new.key = k /\ new.id = id /\ new.label = Label(id) /\ new.nth = nth
    BY DEF PanelRow
  <2>3. id \in Said(k)
    BY <1>6 DEF Said
  <2>4. IsFiniteSet(Unnamed) /\ Cardinality(Unnamed) \in Nat
    BY FS_CardinalityType DEF PanelInv, PanelTyped
  <2>5. nth \in Nat /\ (nth = 0 <=> Label(id) # Blank)
    BY <2>4
  <2>6. \A r : r = new => RowTrue(r)'
    <3> HIDE DEF new, nth
    <3> QED
      BY <1>1, <1>2, <2>2, <2>3, <2>5 DEF RowTrue
  <2>7. IsFiniteSet(Unnamed') /\ Cardinality(Unnamed') \in Nat
        /\ nth <= Cardinality(Unnamed') /\ Cardinality(Unnamed) <= Cardinality(Unnamed')
    <3>1. CASE Label(id) # Blank
      <4>1. Unnamed' = Unnamed
        BY <2>1, <2>2, <3>1 DEF Unnamed
      <4> QED
        BY <2>4, <3>1, <4>1
    <3>2. CASE Label(id) = Blank
      <4>1. nth = Cardinality(Unnamed) + 1 /\ nth > 0
        BY <2>4, <3>2
      <4>2. Unnamed' = Unnamed \cup {new}
        BY <2>1, <2>2, <4>1 DEF Unnamed
      <4>3. new \notin Unnamed
        <5>1. \A r \in Unnamed : r.nth <= Cardinality(Unnamed) /\ r.nth \in Nat
          BY DEF Unnamed, PanelInv, PanelTyped, RowTrue
        <5> HIDE DEF new, nth
        <5> QED
          BY <2>2, <2>4, <4>1, <5>1
      <4>4. IsFiniteSet(Unnamed') /\ Cardinality(Unnamed') = Cardinality(Unnamed) + 1
        BY <2>4, <4>2, <4>3, FS_AddElement
      <4> QED
        BY <2>4, <4>1, <4>4
    <3> QED
      BY <3>1, <3>2
  <2>8. PanelTyped'
    <3> HIDE DEF new, nth
    <3>1. \A r \in panel' : RowTrue(r)'
      BY <1>4, <2>1, <2>6 DEF PanelInv, PanelTyped
    <3>2. \A r \in panel' : r.nth <= Cardinality(Unnamed')
      <4>1. \A r \in panel : r.nth \in Nat /\ r.nth <= Cardinality(Unnamed)
        BY DEF PanelInv, PanelTyped, RowTrue
      <4> QED
        BY <2>1, <2>2, <2>4, <2>5, <2>7, <4>1
    <3> QED
      BY <1>1, <2>7, <3>1, <3>2 DEF PanelInv, PanelTyped
  <2>9. LabelsUnique'
    <3>1. \A r \in panel : ~(r.label = new.label /\ r.nth = new.nth)
      <4>1. CASE Label(id) # Blank
        BY <1>6, <2>2, <4>1 DEF SameKey
      <4>2. CASE Label(id) = Blank
        <5>1. nth = Cardinality(Unnamed) + 1
          BY <4>2
        <5>2. \A r \in panel : r.nth \in Nat /\ r.nth <= Cardinality(Unnamed)
          BY DEF PanelInv, PanelTyped, RowTrue
        <5> HIDE DEF new, nth
        <5> QED
          BY <2>2, <2>4, <5>1, <5>2
      <4> QED
        BY <4>1, <4>2
    <3> HIDE DEF new
    <3> QED
      BY <2>1, <3>1 DEF PanelInv, LabelsUnique
  <2>10. KeysRead'
    <3> SUFFICES ASSUME Telling
                 PROVE  KeysRead'
      BY <1>3 DEF KeysRead
    <3>1. ASSUME NEW r \in panel, r.key = k
          PROVE  FALSE
      <4>1. r.id \in Said(k) /\ r.label = Label(r.id) /\ r.label # Blank
        BY <1>1, <3>1 DEF PanelInv, PanelTyped, RowTrue
      <4>2. (id.hash = r.id.hash /\ id.hash # Blank) \/ Label(id) = Label(r.id)
        BY <2>3, <4>1 DEF Telling
      <4>3. SameKey(id, r)
        BY <4>1, <4>2 DEF SameKey, Strong
      <4> QED
        BY <1>6, <4>3
    <3> HIDE DEF new, nth
    <3>2. \A r, s \in panel' : r.key = s.key => r = s
      BY <2>1, <2>2, <3>1 DEF PanelInv, KeysRead
    <3>3. \A r \in panel' : r.key \notin listing'
      BY <1>1
    <3>4. \A j \in Keys \ listing' :
             view'.listed[j] # Absent /\ Label(view'.listed[j]) # Blank => \E r \in panel' : r.key = j
      BY <1>1, <2>1 DEF PanelInv, KeysRead
    <3>5. \A j \in Keys \ merging' : view'.spent[j] # Absent => \E r \in panel' : r.key = j
      BY <1>1, <2>1, <2>2 DEF PanelInv, KeysRead
    <3> QED
      BY <3>2, <3>3, <3>4, <3>5 DEF KeysRead
  <2> QED
    BY <2>8, <2>9, <2>10 DEF PanelInv
<1> QED
  BY <1>5, <1>6

\* The invariant says of a panel that is served that no key is missing or twice.
LEMMA ServedPanelComplete ==
    ASSUME PanelInv
    PROVE  PanelComplete
<1>1. SUFFICES ASSUME Served, Telling, NEW k \in Keys
               PROVE  Cardinality({r \in panel : r.key = k})
                        = IF \E x \in Said(k) : x = view.spent[k] \/ Label(x) # Blank THEN 1 ELSE 0
  BY DEF PanelComplete, EachKeyOnce, PanelInv
<1> DEFINE own == {r \in panel : r.key = k}
<1>2. \A r, s \in own : r = s
  BY <1>1 DEF PanelInv, KeysRead
<1>3. CASE \E x \in Said(k) : x = view.spent[k] \/ Label(x) # Blank
  <2>1. \E r \in panel : r.key = k
    BY <1>1, <1>3 DEF PanelInv, KeysRead, Served, Said
  <2>2. PICK r \in own : own = {r}
    BY <1>2, <2>1
  <2>3. Cardinality(own) = 1
    BY <2>2, FS_Singleton
  <2> QED
    BY <1>3, <2>3
<1>4. CASE ~ \E x \in Said(k) : x = view.spent[k] \/ Label(x) # Blank
  <2>1. own = {}
    <3>1. \A r \in panel : r.id \in Said(r.key) /\ (r.id = view.spent[r.key] \/ Label(r.id) # Blank)
      BY DEF PanelInv, PanelTyped, RowTrue
    <3> QED
      BY <1>4, <3>1
  <2>2. Cardinality(own) = 0
    BY <2>1, FS_EmptySet
  <2> QED
    BY <1>4, <2>2
<1> QED
  BY <1>3, <1>4

\* The budgets panel has each key that spent, or that LiteLLM lists by some identity,
\* exactly once where the two views tell the keys apart, in whatever order they are
\* read, and never two rows under one label (app.py:2400-2440).
THEOREM PanelIsComplete == PanelSpec => []PanelComplete
<1>1. PanelInit => PanelInv
  <2> SUFFICES ASSUME PanelInit
               PROVE  PanelInv
    OBVIOUS
  <2>1. panel = {} /\ Unnamed = {} /\ listing = Keys /\ merging = Keys
    BY DEF PanelInit, Unnamed
  <2> QED
    BY <2>1, FS_EmptySet DEF PanelInit, PanelInv, PanelTyped, LabelsUnique, KeysRead
<1>2. PanelInv /\ [PanelNext]_panelVars => PanelInv'
  <2>1. ASSUME PanelInv, UNCHANGED panelVars
        PROVE  PanelInv'
    BY <2>1 DEF PanelInv, PanelTyped, RowTrue, Unnamed, LabelsUnique, KeysRead, Telling, Said, panelVars
  <2> QED
    BY <2>1, ListKeepsPanel, FoldInKeepsPanel DEF PanelNext
<1>3. PanelInv => PanelComplete
  BY ServedPanelComplete
<1> QED
  BY <1>1, <1>2, <1>3, PTL DEF PanelSpec
=============================================================================
