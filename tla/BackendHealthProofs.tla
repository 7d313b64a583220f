------------------------ MODULE BackendHealthProofs ------------------------
(***************************************************************************)
(* Proofs about the DOWN latch for every number of backends and every      *)
(* value of ALERT_BACKEND_DOWN_AFTER, _UP_AFTER and _DOWN_WINDOW.          *)
(* LatchInv is the inductive invariant: it ties the streaks and the        *)
(* history of the code to the polls that were really seen.                 *)
(***************************************************************************)
EXTENDS BackendHealth, FiniteSetTheorems, SequenceTheorems, TLAPS

\* The configured needs are positive, whatever the operator typed
\* (the max(1, ...) of alerts.py:421, 524, 548, 557).
LEMMA NeedsPositive == DownNeed \in Nat /\ DownNeed >= 1 /\ UpNeed \in Nat /\ UpNeed >= 1
BY ConfigAssumption DEF ConfigAssumption, DownNeed, UpNeed, AtLeastOne

\* An empty history has no failures (alerts.py:413).
LEMMA NoFailuresInEmpty == Failures(<< >>) = 0
<1>1. {i \in DOMAIN << >> : ~<< >>[i]} = {}
  OBVIOUS
<1>2. QED BY <1>1, FS_EmptySet DEF Failures

\* The failures of a history are finitely many, hence a number.
LEMMA FailuresType ==
  ASSUME NEW h \in Seq(BOOLEAN)
  PROVE  /\ IsFiniteSet({i \in DOMAIN h : ~h[i]})
         /\ Failures(h) \in Nat
<1>1. IsFiniteSet(DOMAIN h)
  BY FS_Interval, Len(h) \in Nat, DOMAIN h = 1..Len(h)
<1>2. IsFiniteSet({i \in DOMAIN h : ~h[i]})
  BY <1>1, FS_Subset, {i \in DOMAIN h : ~h[i]} \in SUBSET DOMAIN h
<1>3. QED BY <1>2, FS_CardinalityType DEF Failures

\* _note_poll keeps a history of booleans no longer than the window.
LEMMA NotePollType ==
  ASSUME NEW h \in Seq(BOOLEAN), Len(h) <= Window, NEW ok \in BOOLEAN
  PROVE  NotePoll(h, ok) \in Seq(BOOLEAN) /\ Len(NotePoll(h, ok)) <= Window
<1>1. CASE Window = 0
  BY <1>1 DEF NotePoll
<1>2. CASE Window # 0 /\ Len(h) < Window
  BY <1>2, ConfigAssumption DEF NotePoll, ConfigAssumption
<1>3. CASE Window # 0 /\ ~(Len(h) < Window)
  <2>1. Tail(h) \in Seq(BOOLEAN) /\ Len(Tail(h)) = Len(h) - 1
    BY <1>3, ConfigAssumption, h # << >>, HeadTailProperties DEF ConfigAssumption
  <2>2. QED BY <1>3, <2>1, ConfigAssumption DEF NotePoll, ConfigAssumption
<1>4. QED BY <1>1, <1>2, <1>3

\* _note_poll adds at most the poll it is given to the failures, and none when
\* the poll was good: dropping the oldest verdict never invents a failure.
LEMMA NotePollFailures ==
  ASSUME NEW h \in Seq(BOOLEAN), Len(h) <= Window, NEW ok \in BOOLEAN
  PROVE  Failures(NotePoll(h, ok)) <= Failures(h) + (IF ok THEN 0 ELSE 1)
<1> DEFINE g == NotePoll(h, ok)
           F == {i \in DOMAIN h : ~h[i]}
           G == {i \in DOMAIN g : ~g[i]}
           n == Len(g)
           S == G \ {n}
<1>1. IsFiniteSet(F) /\ Cardinality(F) \in Nat /\ Failures(h) = Cardinality(F)
  BY FailuresType DEF Failures
<1>2. g \in Seq(BOOLEAN)
  BY NotePollType
<1>3. IsFiniteSet(G) /\ Failures(g) = Cardinality(G) /\ Cardinality(G) \in Nat
  BY <1>2, FailuresType DEF Failures
<1>4. CASE Window = 0
  BY <1>4, <1>1, NoFailuresInEmpty DEF NotePoll
<1>5. CASE Window # 0
  <2>1. PICK d \in {0, 1} : /\ \A i \in S : i + d \in F
                            /\ n \in DOMAIN g /\ g[n] = ok
    <3>1. CASE Len(h) < Window
      <4>1. g = Append(h, ok)
        BY <1>5, <3>1 DEF NotePoll
      <4>2. \A i \in S : i + 0 \in F
        BY <4>1
      <4>3. QED BY <4>1, <4>2
    <3>2. CASE ~(Len(h) < Window)
      <4>1. g = Append(Tail(h), ok)
        BY <1>5, <3>2 DEF NotePoll
      <4>2. Len(h) >= 1
        BY <1>5, <3>2, ConfigAssumption DEF ConfigAssumption
      <4>3. /\ Len(Tail(h)) = Len(h) - 1
            /\ \A i \in 1..(Len(h) - 1) : Tail(h)[i] = h[i + 1]
        BY <4>2, h # << >>, HeadTailProperties
      <4>4. \A i \in S : i + 1 \in F
        BY <4>1, <4>2, <4>3
      <4>5. QED BY <4>1, <4>2, <4>3, <4>4
    <3>3. QED BY <3>1, <3>2
  <2>2. IsFiniteSet(S) /\ Cardinality(S) <= Cardinality(F)
    <3> DEFINE f == [i \in S |-> i + d]
    <3>1. f \in Injection(S, F)
      <4>1. S \subseteq Int
        BY <1>2
      <4>2. QED BY <2>1, <4>1 DEF Injection, IsInjective
    <3>2. QED BY <3>1, <1>1, FS_Injection
  <2>3. Cardinality(S) \in Nat
    BY <2>2, FS_CardinalityType
  <2>4. CASE ok
    <3>1. S = G
      BY <2>1, <2>4
    <3>2. Cardinality(G) <= Cardinality(F)
      BY <3>1, <2>2
    <3>3. QED BY <3>2, <1>1, <1>3, <2>4
  <2>5. CASE ~ok
    <3>1. n \in G /\ Cardinality(S) = Cardinality(G) - 1
      BY <2>1, <2>5, <1>3, FS_RemoveElement
    <3>2. Cardinality(G) <= Cardinality(F) + 1
      BY <3>1, <2>2, <1>1, <1>3
    <3>3. QED BY <3>2, <1>1, <1>3, <2>5
  <2>6. QED BY <2>4, <2>5
<1>6. QED BY <1>4, <1>5

-----------------------------------------------------------------------------
IInv == TypeOK /\ LatchInv

\* The empty dictionaries of a fresh process satisfy the invariant.
LEMMA InitIInv == Init => IInv
<1> SUFFICES ASSUME Init PROVE IInv
  OBVIOUS
<1>1. TypeOK
  BY NeedsPositive DEF Init, TypeOK, Verdict
<1>2. LatchInv
  BY NeedsPositive, NoFailuresInEmpty, ConfigAssumption
     DEF Init, LatchInv, Sat, ConfigAssumption
<1>3. QED BY <1>1, <1>2 DEF IInv

\* Switching the backend alerts off leaves nothing latched (alerts.py:487-498).
LEMMA OffIInv ==
  ASSUME IInv, NEW maint \in SUBSET Backends, NEW p \in [Backends -> Verdict],
         EvaluateOff, Remember(FALSE, maint, p)
  PROVE  IInv'
<1>1. TypeOK'
  BY NeedsPositive DEF IInv, TypeOK, EvaluateOff, Remember
<1>2. LatchInv'
  BY NeedsPositive, NoFailuresInEmpty, ConfigAssumption
     DEF LatchInv, EvaluateOff, Remember, Sat, ConfigAssumption
<1>3. QED BY <1>1, <1>2 DEF IInv

\* One call of evaluate keeps the types (alerts.py:499-577).
LEMMA OnTypeOK ==
  ASSUME IInv, NEW maint \in SUBSET Backends, NEW p \in [Backends -> Verdict],
         EvaluateOn(maint, p), Remember(TRUE, maint, p)
  PROVE  TypeOK'
<1> USE NeedsPositive DEF IInv
<1>1. downStreak' \in [Backends -> 0..DownNeed]
  BY DEF TypeOK, EvaluateOn, NextDownStreak, Sat
<1>2. upStreak' \in [Backends -> Nat]
  BY DEF TypeOK, EvaluateOn, NextUpStreak, Decay
<1>3. downHist' \in [Backends -> Seq(BOOLEAN)]
  <2>1. \A b \in Backends : NotePoll(downHist[b], p[b] = "up") \in Seq(BOOLEAN)
    BY NotePollType DEF TypeOK, LatchInv
  <2>2. \A b \in Backends : NextDownHist(maint, p)[b] \in Seq(BOOLEAN)
    BY <2>1, << >> \in Seq(BOOLEAN) DEF NextDownHist
  <2>3. QED BY <2>2 DEF EvaluateOn, NextDownHist
<1>4. firing' \subseteq Backends /\ downReason' \subseteq Backends
  BY DEF TypeOK, EvaluateOn, Armed, Failed
<1>5. held' \subseteq Backends /\ cancelled' \subseteq Backends /\ out' \subseteq Backends
  BY <1>4 DEF TypeOK, EvaluateOn
<1>6. poll' \in [Backends -> Verdict] /\ goodRun' \in [Backends -> 0..UpNeed]
  BY DEF TypeOK, Remember, Sat
<1>7. badSeen' \in [Backends -> 0..DownNeed]
  BY DEF TypeOK, Remember, Sat
<1>8. QED BY <1>1, <1>2, <1>3, <1>4, <1>5, <1>6, <1>7 DEF TypeOK

\* The heart of the argument, backend by backend: the code's counters bound the
\* polls that were seen, and the up-streak bounds the current good run.
LEMMA OnLatchInv ==
  ASSUME IInv, NEW maint \in SUBSET Backends, NEW p \in [Backends -> Verdict],
         EvaluateOn(maint, p), Remember(TRUE, maint, p)
  PROVE  LatchInv'
<1> SUFFICES ASSUME NEW b \in Backends
             PROVE  /\ upStreak'[b] < UpNeed
                    /\ b \in firing' => goodRun'[b] <= upStreak'[b] /\ b \in downReason'
                    /\ goodRun'[b] <= upStreak'[b] \/ Failures(downHist'[b]) = 0
                    /\ Sat(Failures(downHist'[b]), DownNeed) <= badSeen'[b]
                    /\ downStreak'[b] <= badSeen'[b]
                    /\ Len(downHist'[b]) <= Window
  BY DEF LatchInv
<1> DEFINE h  == downHist[b]
           h1 == NotePoll(h, p[b] = "up")
           up == upStreak[b]
           gr == goodRun[b]
           bs == badSeen[b]
<1>0. TypeOK'
  BY OnTypeOK
<1>1. /\ up \in Nat /\ gr \in 0..UpNeed /\ bs \in 0..DownNeed
      /\ downStreak[b] \in 0..DownNeed /\ h \in Seq(BOOLEAN) /\ Len(h) <= Window
      /\ p[b] \in Verdict
  BY DEF IInv, TypeOK, LatchInv
<1>2. /\ up < UpNeed
      /\ b \in firing => gr <= up /\ b \in downReason
      /\ gr <= up \/ Failures(h) = 0
      /\ Sat(Failures(h), DownNeed) <= bs
      /\ downStreak[b] <= bs
  BY DEF IInv, LatchInv
<1>3. /\ Failures(h) \in Nat /\ Failures(h1) \in Nat
      /\ Failures(h1) <= Failures(h) + (IF p[b] = "up" THEN 0 ELSE 1)
      /\ Len(h1) <= Window
  BY <1>1, NotePollFailures, NotePollType, FailuresType
<1>4. /\ upStreak' = NextUpStreak(maint, p) /\ downStreak' = NextDownStreak(maint, p)
      /\ downHist' = NextDownHist(maint, p)
      /\ firing' = (firing \ (Recovered(p) \cup Unwatched(maint, p))) \cup Armed(maint, p)
      /\ downReason' = (downReason \cup Failed(maint, p))
                           \ (Recovered(p) \cup Unwatched(maint, p))
  BY DEF EvaluateOn
<1>5. Armed(maint, p) \subseteq Failed(maint, p)
  BY DEF Armed
<1>6. Failures(<< >>) = 0 /\ Len(<< >>) = 0 /\ Window \in Nat
  BY NoFailuresInEmpty, ConfigAssumption DEF ConfigAssumption
<1> USE NeedsPositive
<1>7. CASE b \in Recovered(p)
  <2>1. p[b] = "up" /\ upStreak'[b] = 0 /\ downHist'[b] = << >> /\ downStreak'[b] = 0
    BY <1>4, <1>7 DEF Recovered, NextUpStreak, NextDownHist, NextDownStreak, Failed
  <2>2. b \notin firing'
    BY <1>4, <1>5, <1>7, <2>1 DEF Failed
  <2>3. badSeen'[b] \in Nat /\ goodRun'[b] \in Nat
    BY <1>0 DEF TypeOK
  <2>4. QED BY <2>1, <2>2, <2>3, <1>6 DEF Sat
<1>8. CASE b \notin Recovered(p) /\ p[b] = "up"
  <2>1. /\ upStreak'[b] = up + 1 /\ up + 1 < UpNeed /\ downStreak'[b] = 0
    BY <1>1, <1>4, <1>8 DEF Recovered, NextUpStreak, NextDownStreak, Failed
  <2>2. downHist'[b] = IF b \in maint THEN << >> ELSE h1
    BY <1>4, <1>8 DEF NextDownHist, Unwatched
  <2>3. /\ goodRun'[b] = Sat(gr + 1, UpNeed)
        /\ badSeen'[b] = IF b \in maint \/ Sat(gr + 1, UpNeed) >= UpNeed THEN 0 ELSE bs
    BY <1>8 DEF Remember
  <2>4. b \in firing' => b \in firing /\ b \in downReason'
    BY <1>2, <1>4, <1>5, <1>8 DEF Failed, Unwatched
  <2>5. b \in firing' => goodRun'[b] <= upStreak'[b]
    BY <2>1, <2>3, <2>4, <1>1, <1>2 DEF Sat
  <2>6. Failures(h1) <= Failures(h)
    BY <1>3, <1>8
  <2>7. goodRun'[b] <= upStreak'[b] \/ Failures(downHist'[b]) = 0
    <3>1. CASE gr <= up
      BY <3>1, <2>1, <2>3, <1>1 DEF Sat
    <3>2. CASE Failures(h) = 0
      BY <3>2, <2>2, <2>6, <1>3, <1>6
    <3>3. QED BY <3>1, <3>2, <1>2
  <2>8. Sat(Failures(downHist'[b]), DownNeed) <= badSeen'[b]
    <3>1. CASE b \in maint
      BY <3>1, <2>2, <2>3, <1>6 DEF Sat
    <3>2. CASE b \notin maint /\ Sat(gr + 1, UpNeed) >= UpNeed
      <4>1. gr > up
        BY <3>2, <2>1, <1>1 DEF Sat
      <4>2. Failures(downHist'[b]) = 0
        BY <4>1, <3>2, <2>2, <2>6, <1>1, <1>2, <1>3
      <4>3. QED BY <4>2, <3>2, <2>3 DEF Sat
    <3>3. CASE b \notin maint /\ ~(Sat(gr + 1, UpNeed) >= UpNeed)
      BY <3>3, <2>2, <2>3, <2>6, <1>1, <1>2, <1>3 DEF Sat
    <3>4. QED BY <3>1, <3>2, <3>3
  <2>9. downStreak'[b] <= badSeen'[b] /\ Len(downHist'[b]) <= Window
    BY <2>1, <2>2, <2>3, <1>1, <1>3, <1>6
  <2>10. QED BY <2>1, <2>4, <2>5, <2>7, <2>8, <2>9
<1>9. CASE p[b] = "down" /\ b \notin maint
  <2>1. /\ upStreak'[b] = Decay(up) /\ downStreak'[b] = Sat(downStreak[b] + 1, DownNeed)
        /\ downHist'[b] = h1
    BY <1>4, <1>9 DEF Recovered, NextUpStreak, NextDownStreak, NextDownHist, Failed, Unwatched
  <2>2. goodRun'[b] = 0 /\ badSeen'[b] = Sat(bs + 1, DownNeed)
    BY <1>9 DEF Remember
  <2>3. b \in downReason'
    BY <1>4, <1>9 DEF Failed, Recovered, Unwatched
  <2>4. goodRun'[b] <= upStreak'[b] /\ upStreak'[b] < UpNeed
    BY <2>1, <2>2, <1>1, <1>2 DEF Decay
  <2>5. Failures(h1) <= Failures(h) + 1
    BY <1>3, <1>9
  <2>6. Sat(Failures(downHist'[b]), DownNeed) <= badSeen'[b]
    BY <2>1, <2>2, <2>5, <1>1, <1>2, <1>3 DEF Sat
  <2>7. downStreak'[b] <= badSeen'[b] /\ Len(downHist'[b]) <= Window
    BY <2>1, <2>2, <1>1, <1>2, <1>3 DEF Sat
  <2>8. QED BY <2>3, <2>4, <2>6, <2>7
<1>10. CASE p[b] # "up" /\ (p[b] = "none" \/ b \in maint)
  <2>1. /\ upStreak'[b] = 0 /\ downStreak'[b] = 0 /\ downHist'[b] = << >>
    BY <1>4, <1>10 DEF Recovered, NextUpStreak, NextDownStreak, NextDownHist, Failed, Unwatched
  <2>2. goodRun'[b] = 0 /\ badSeen'[b] = 0
    BY <1>10 DEF Remember
  <2>3. b \in firing' => b \in firing /\ b \in downReason'
    BY <1>2, <1>4, <1>5, <1>10 DEF Failed
  <2>4. QED BY <2>1, <2>2, <2>3, <1>6 DEF Sat
<1>11. QED BY <1>1, <1>7, <1>8, <1>9, <1>10 DEF Verdict

\* Every call of evaluate preserves the invariant, whatever the settings, the
\* maintenance windows and the polls are.
LEMMA NextIInv == IInv /\ [Next]_vars => IInv'
<1>1. ASSUME IInv, Next PROVE IInv'
  <2>1. PICK on \in BOOLEAN, maint \in SUBSET Backends, p \in [Backends -> Verdict] :
            Evaluate(on, maint, p)
    BY <1>1 DEF Next
  <2>2. CASE on
    BY <1>1, <2>1, <2>2, OnTypeOK, OnLatchInv DEF Evaluate, IInv
  <2>3. CASE ~on
    BY <1>1, <2>1, <2>3, OffIInv DEF Evaluate
  <2>4. QED BY <2>2, <2>3
<1>2. ASSUME IInv, UNCHANGED vars PROVE IInv'
  BY <1>2 DEF IInv, TypeOK, LatchInv, vars, latch, verdict, history
<1>3. QED BY <1>1, <1>2

\* The inductive invariant holds in every state evaluate can reach.
LEMMA Inductive == Spec => []IInv
<1>1. QED BY InitIInv, NextIInv, PTL DEF Spec

\* The counters of the latch never claim more than was polled (alerts.py:514-573).
THEOREM LatchInvariant == Spec => []LatchInv
<1>1. IInv => LatchInv
  BY DEF IInv
<1>2. QED BY <1>1, Inductive, PTL

\* Every reachable latch state is well-typed.
THEOREM TypeCorrect == Spec => []TypeOK
<1>1. IInv => TypeOK
  BY DEF IInv
<1>2. QED BY <1>1, Inductive, PTL

\* No backend keeps alerting through ALERT_BACKEND_UP_AFTER good polls in a row,
\* in or out of maintenance windows (alerts.py:516-527, 551-561).
THEOREM HealthyBackendIsQuiet == Spec => []HealthyRunClears
<1>1. IInv => HealthyRunClears
  BY NeedsPositive DEF IInv, TypeOK, LatchInv, HealthyRunClears
<1>2. QED BY <1>1, Inductive, PTL

\* Nothing pages on fewer than ALERT_BACKEND_DOWN_AFTER failed polls since the
\* slate was clean, by either arming rule (alerts.py:417-421, 548-550).
THEOREM PagesOnEvidence == Spec => ArmOnEvidence
<1>1. ASSUME IInv, IInv', Next
      PROVE  \A b \in firing' \ firing : badSeen'[b] >= DownNeed
  <2> SUFFICES ASSUME NEW b \in firing' \ firing PROVE badSeen'[b] >= DownNeed
    OBVIOUS
  <2>1. PICK on \in BOOLEAN, maint \in SUBSET Backends, p \in [Backends -> Verdict] :
            Evaluate(on, maint, p)
    BY <1>1 DEF Next
  <2>2. on /\ EvaluateOn(maint, p)
    BY <2>1 DEF Evaluate, EvaluateOff
  <2>3. b \in Armed(maint, p) /\ b \in Backends
    BY <2>2 DEF EvaluateOn, Armed, Failed
  <2>4. downStreak'[b] >= DownNeed \/ Failures(downHist'[b]) >= DownNeed
    BY <2>2, <2>3 DEF EvaluateOn, Armed, MajorityFailing
  <2>5. /\ downStreak'[b] <= badSeen'[b] /\ Sat(Failures(downHist'[b]), DownNeed) <= badSeen'[b]
        /\ downHist'[b] \in Seq(BOOLEAN) /\ badSeen'[b] \in Nat /\ downStreak'[b] \in Nat
    BY <1>1, <2>3, NeedsPositive DEF IInv, LatchInv, TypeOK
  <2>6. Failures(downHist'[b]) \in Nat
    BY <2>5, FailuresType
  <2>7. QED BY <2>4, <2>5, <2>6, NeedsPositive DEF Sat
<1>2. ASSUME UNCHANGED vars PROVE \A b \in firing' \ firing : badSeen'[b] >= DownNeed
  BY <1>2 DEF vars, latch
<1>3. IInv /\ IInv' /\ [Next]_vars => [\A b \in firing' \ firing : badSeen'[b] >= DownNeed]_vars
  BY <1>1, <1>2
<1>4. QED BY <1>3, Inductive, PTL DEF Spec, ArmOnEvidence

\* What is latched is either reported or held back by a window, and nothing else is.
Told == out \cup held = firing

LEMMA ToldHolds == Spec => []Told
<1>1. Init => Told
  BY DEF Init, Told
<1>2. Told /\ [Next]_vars => Told'
  BY DEF Told, Next, Evaluate, EvaluateOn, EvaluateOff, vars, latch, verdict
<1> QED
  BY <1>1, <1>2, PTL DEF Spec

\* A key that alerted and no longer does was cancelled, is held, or its backend was
\* up at this very call (alerts.py:371-378, 487-498, 562-568).
THEOREM AbsenceIsExplained == Spec => AbsenceExplained
<1>1. ASSUME Told, Next
      PROVE  \A b \in (out \cup held) \ (out' \cup held' \cup cancelled') : poll'[b] = "up"
  <2> SUFFICES ASSUME NEW b \in firing, b \notin out' \cup held' \cup cancelled'
               PROVE  poll'[b] = "up"
    BY <1>1 DEF Told
  <2>1. PICK on \in BOOLEAN, maint \in SUBSET Backends, p \in [Backends -> Verdict] :
            Evaluate(on, maint, p)
    BY <1>1 DEF Next
  <2>2. on /\ EvaluateOn(maint, p) /\ poll' = p
    BY <2>1 DEF Evaluate, EvaluateOff, Remember
  <2>3. b \notin firing' /\ b \notin Unwatched(maint, p)
    BY <2>2 DEF EvaluateOn
  <2>4. b \in Recovered(p)
    BY <2>2, <2>3 DEF EvaluateOn
  <2> QED
    BY <2>2, <2>4 DEF Recovered
<1>2. Told /\ [Next]_vars =>
        [\A b \in (out \cup held) \ (out' \cup held' \cup cancelled') : poll'[b] = "up"]_vars
  BY <1>1
<1> QED
  BY <1>2, ToldHolds, PTL DEF Spec, AbsenceExplained
=============================================================================
