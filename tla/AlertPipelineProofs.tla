------------------------ MODULE AlertPipelineProofs -------------------------
(***************************************************************************)
(* The composition of loops, sampler and latch, for any backends, permits  *)
(* and thresholds: its probes stay within the executor, and what it does   *)
(* to the latch is what BackendHealth allows, so that everything proved of *)
(* BackendHealth holds of the pipeline.                                    *)
(***************************************************************************)
EXTENDS AlertPipeline, TLAPS

\* The loop of the GPU awaits its probe exactly while it polls.
ProbeAwaited == running <=> pc[Gpu] = "polling"

LoopsInv == Loops!TypeOK /\ Loops!ProbesBounded /\ ProbeAwaited

SnapInv == snap \in [Backends -> Loops!Verdict] /\ judging \in BOOLEAN

IInv == LoopsInv /\ SnapInv

\* A poll that returns reports one of the verdicts (app.py:126-151).
LEMMA AnswerType ==
  ASSUME NEW h \in Loops!Health, h # "hung"
  PROVE  Loops!Answer(h) \in Loops!Verdict
BY DEF Loops!Health, Loops!Answer, Loops!Verdict

\* Every permit is free at first, and no answer is there (app.py:100-108).
LEMMA InitIInv == Init => IInv
<1> SUFFICES ASSUME Init PROVE IInv
  OBVIOUS
<1> USE PipelineAssumption DEF Init, Loops!Init, PipelineAssumption
<1>1. Loops!TypeOK
  <2>1. running \in BOOLEAN
    BY Zenon
  <2> QED
    BY <2>1 DEF Loops!TypeOK, Loops!Verdict
<1>2. Loops!ProbesBounded
  BY DEF Loops!ProbesBounded
<1>3. ProbeAwaited
  <2>1. ~running /\ pc[Gpu] # "polling"
    OBVIOUS
  <2> QED
    BY <2>1, Zenon DEF ProbeAwaited
<1>4. SnapInv
  BY DEF SnapInv, NoSnapshot, Loops!Verdict
<1> QED
  BY <1>1, <1>2, <1>3, <1>4 DEF IInv, LoopsInv

\* The loops: a permit is taken with a probe, given back by the thread that ends, and
\* stays with the thread the loop has given up on (app.py:85-151).
LEMMA LoopsStep ==
  ASSUME LoopsInv, NEW b \in Backends,
         Loops!Poll(b) \/ Loops!Return(b) \/ Loops!TimeOut(b)
           \/ (b = Gpu /\ (Loops!Probe \/ Loops!ProbeRefused \/ Loops!ProbeReturn))
           \/ Loops!LateReturn \/ (\E h \in Loops!Health : Loops!Turn(b, h))
  PROVE  LoopsInv'
<1> USE PipelineAssumption
    DEF LoopsInv, Loops!TypeOK, Loops!ProbesBounded, ProbeAwaited, PipelineAssumption
<1>1. CASE Loops!Poll(b)
  BY <1>1 DEF Loops!Poll
<1>2. CASE Loops!Return(b)
  BY <1>2, AnswerType DEF Loops!Return
<1>3. CASE Loops!TimeOut(b)
  <2> USE <1>3 DEF Loops!TimeOut
  <2>1. Loops!TypeOK'
    <3>1. running' \in BOOLEAN
      BY Zenon
    <3>2. stranded' \in Nat
      OBVIOUS
    <3>3. /\ health' \in [Backends -> Loops!Health] /\ cache' \in [Backends -> Loops!Verdict]
          /\ pc' \in [Backends -> {"asleep", "polling"}] /\ permits' \in 0..Permits
      BY DEF Loops!Verdict
    <3> QED
      BY <3>1, <3>2, <3>3
  <2>2. Loops!ProbesBounded'
    OBVIOUS
  <2>3. ProbeAwaited'
    <3>1. CASE b = Gpu
      <4>1. running' = FALSE /\ pc'[Gpu] = "asleep"
        BY <3>1
      <4> QED
        BY ONLY <4>1 DEF ProbeAwaited
    <3>2. CASE b # Gpu
      BY <3>2
    <3> QED
      BY <3>1, <3>2
  <2> QED
    BY <2>1, <2>2, <2>3
<1>4. CASE b = Gpu /\ Loops!Probe
  BY <1>4 DEF Loops!Probe
<1>5. CASE b = Gpu /\ Loops!ProbeRefused
  BY <1>5 DEF Loops!ProbeRefused, Loops!Verdict
<1>6. CASE b = Gpu /\ Loops!ProbeReturn
  <2> USE <1>6 DEF Loops!ProbeReturn
  <2>1. Loops!TypeOK'
    <3>1. running' \in BOOLEAN
      BY Zenon
    <3> QED
      BY <3>1, AnswerType
  <2>2. Loops!ProbesBounded'
    OBVIOUS
  <2>3. ProbeAwaited'
    <3>1. ~running' /\ pc'[Gpu] # "polling"
      OBVIOUS
    <3> QED
      BY ONLY <3>1, Zenon DEF ProbeAwaited
  <2> QED
    BY <2>1, <2>2, <2>3
<1>7. CASE Loops!LateReturn
  BY <1>7 DEF Loops!LateReturn
<1>8. CASE \E h \in Loops!Health : Loops!Turn(b, h)
  BY <1>8 DEF Loops!Turn
<1> QED
  BY <1>1, <1>2, <1>3, <1>4, <1>5, <1>6, <1>7, <1>8

\* Every step of the composition keeps the invariant.
LEMMA NextIInv == IInv /\ [Next]_vars => IInv'
<1> SUFFICES ASSUME IInv, [Next]_vars PROVE IInv'
  OBVIOUS
<1> USE DEF IInv
<1>1. ASSUME NEW b \in Backends, PollBegins(b) \/ PollEnds(b) PROVE IInv'
  <2>1. LoopsInv'
    BY <1>1, LoopsStep DEF PollBegins, PollEnds
  <2> QED
    BY <1>1, <2>1 DEF PollBegins, PollEnds, SnapInv
<1>2. CASE LateReturn
  <2>1. LoopsInv'
    BY <1>2, LoopsStep, PipelineAssumption DEF LateReturn, PipelineAssumption
  <2> QED
    BY <1>2, <2>1 DEF LateReturn, SnapInv
<1>3. CASE Turn
  <2>1. LoopsInv'
    BY <1>3, LoopsStep DEF Turn
  <2> QED
    BY <1>3, <2>1 DEF Turn, SnapInv
<1>4. CASE UNCHANGED loops /\ (Sample \/ Judge \/ UNCHANGED <<snap, judging>>)
  <2>1. LoopsInv'
    BY <1>4 DEF loops, LoopsInv, Loops!TypeOK, Loops!ProbesBounded, ProbeAwaited
  <2>2. SnapInv'
    BY <1>4 DEF Sample, Judge, SnapInv, NoSnapshot, Loops!Verdict, LoopsInv, Loops!TypeOK
  <2> QED
    BY <2>1, <2>2
<1> QED
  BY <1>1, <1>2, <1>3, <1>4 DEF Next, vars, Sample, Judge

-----------------------------------------------------------------------------
\* What the sampler does to the latch is one evaluation of BackendHealth, with the
\* tunable on and no window open; everything else leaves the latch alone
\* (app.py:495-524, alerts.py:341-578).
LEMMA LatchStep == IInv /\ [Next]_vars => [Latch!Next]_(Latch!vars)
<1> SUFFICES ASSUME IInv, [Next]_vars PROVE Latch!Next \/ UNCHANGED Latch!vars
  OBVIOUS
<1>1. CASE Judge
  <2>1. [b \in Watched |-> snap[b]] \in [Watched -> Latch!Verdict]
    BY PipelineAssumption DEF IInv, SnapInv, Loops!Verdict, Latch!Verdict, PipelineAssumption
  <2> QED
    BY <1>1, <2>1 DEF Judge, Latch!Next
<1>2. CASE UNCHANGED latch
  BY <1>2 DEF latch, Latch!vars, Latch!latch, Latch!verdict, Latch!history
<1> QED
  BY <1>1, <1>2 DEF Next, PollBegins, PollEnds, LateReturn, Turn, Sample, vars

\* The pipeline implements the latch (alerts.py:341-578).
THEOREM PipelineIsLatch == Spec => Latch!Spec
<1>1. Init => Latch!Init
  BY DEF Init
<1> QED
  BY <1>1, InitIInv, NextIInv, LatchStep, PTL DEF Spec, Latch!Spec

-----------------------------------------------------------------------------
\* What was proved of the latch by itself, for the backends evaluate looks at.
Proved == INSTANCE BackendHealthProofs WITH Backends <- Watched

\* Both names stand for one specification.
LEMMA SameLatch == Latch!Spec <=> Proved!Spec
<1>1. Latch!Init <=> Proved!Init
  BY DEF Latch!Init, Proved!Init
<1> USE DEF Latch!AtLeastOne, Proved!AtLeastOne, Latch!DownNeed, Proved!DownNeed,
            Latch!UpNeed, Proved!UpNeed, Latch!Sat, Proved!Sat
<1>2. ASSUME NEW m, NEW p
      PROVE  Latch!Failed(m, p) = Proved!Failed(m, p)
             /\ Latch!Unwatched(m, p) = Proved!Unwatched(m, p)
             /\ Latch!Recovered(p) = Proved!Recovered(p)
  BY DEF Latch!Failed, Proved!Failed, Latch!Unwatched, Proved!Unwatched,
         Latch!Recovered, Proved!Recovered
<1>3. ASSUME NEW m, NEW p
      PROVE  Latch!NextDownStreak(m, p) = Proved!NextDownStreak(m, p)
             /\ Latch!NextUpStreak(m, p) = Proved!NextUpStreak(m, p)
             /\ Latch!NextDownHist(m, p) = Proved!NextDownHist(m, p)
  BY <1>2 DEF Latch!NextDownStreak, Proved!NextDownStreak, Latch!NextUpStreak,
              Proved!NextUpStreak, Latch!NextDownHist, Proved!NextDownHist,
              Latch!Decay, Proved!Decay, Latch!NotePoll, Proved!NotePoll
<1>4. ASSUME NEW h PROVE Latch!MajorityFailing(h) <=> Proved!MajorityFailing(h)
  <2>1. Latch!Failures(h) = Proved!Failures(h)
    BY Zenon DEF Latch!Failures, Proved!Failures, Latch!Cardinality, Proved!Cardinality
  <2> QED
    BY <2>1 DEF Latch!MajorityFailing, Proved!MajorityFailing
<1>5. ASSUME NEW m, NEW p PROVE Latch!Armed(m, p) = Proved!Armed(m, p)
  BY <1>2, <1>3, <1>4 DEF Latch!Armed, Proved!Armed
<1>6. ASSUME NEW m, NEW p PROVE Latch!EvaluateOn(m, p) <=> Proved!EvaluateOn(m, p)
  BY <1>2, <1>3, <1>5 DEF Latch!EvaluateOn, Proved!EvaluateOn
<1>7. Latch!EvaluateOff <=> Proved!EvaluateOff
  BY DEF Latch!EvaluateOff, Proved!EvaluateOff
<1>8. ASSUME NEW on, NEW m, NEW p
      PROVE  Latch!Remember(on, m, p) <=> Proved!Remember(on, m, p)
  BY DEF Latch!Remember, Proved!Remember
<1>9. Latch!Next <=> Proved!Next
  BY <1>6, <1>7, <1>8 DEF Latch!Next, Proved!Next, Latch!Evaluate, Proved!Evaluate,
                          Latch!Verdict, Proved!Verdict
<1>10. [Latch!Next]_(Latch!vars) <=> [Proved!Next]_(Proved!vars)
  BY <1>9 DEF Latch!vars, Proved!vars, Latch!latch, Proved!latch, Latch!verdict,
              Proved!verdict, Latch!history, Proved!history
<1> QED
  BY <1>1, <1>10, PTL DEF Latch!Spec, Proved!Spec

\* The watched backends are configured as the latch needs (config.py).
LEMMA Configured == Proved!ConfigAssumption
BY PipelineAssumption DEF PipelineAssumption, Proved!ConfigAssumption

\* A backend that answered enough polls in a row does not alert in the pipeline
\* either, whatever the loops, the snapshot and the hung probes do
\* (alerts.py:516-529, 551-561).
THEOREM PipelineHealthyIsQuiet == Spec => []Latch!HealthyRunClears
<1>1. Proved!HealthyRunClears => Latch!HealthyRunClears
  BY DEF Latch!HealthyRunClears, Proved!HealthyRunClears, Latch!UpNeed, Proved!UpNeed,
         Latch!AtLeastOne, Proved!AtLeastOne
<1> QED
  BY <1>1, PipelineIsLatch, SameLatch, Configured, Proved!HealthyBackendIsQuiet, PTL

\* Only verdicts the loops really put into the cache page (alerts.py:417-421).
THEOREM PipelinePagesOnEvidence == Spec => Latch!ArmOnEvidence
<1>1. (\A b \in firing' \ firing : badSeen'[b] >= Proved!DownNeed)
        => \A b \in firing' \ firing : badSeen'[b] >= Latch!DownNeed
  BY DEF Latch!DownNeed, Proved!DownNeed, Latch!AtLeastOne, Proved!AtLeastOne
<1>2. [\A b \in firing' \ firing : badSeen'[b] >= Proved!DownNeed]_(Proved!vars)
        => [\A b \in firing' \ firing : badSeen'[b] >= Latch!DownNeed]_(Latch!vars)
  BY <1>1 DEF Latch!vars, Proved!vars, Latch!latch, Proved!latch, Latch!verdict,
              Proved!verdict, Latch!history, Proved!history
<1> QED
  BY <1>2, PipelineIsLatch, SameLatch, Configured, Proved!PagesOnEvidence, PTL
     DEF Latch!ArmOnEvidence, Proved!ArmOnEvidence

\* The probes never outnumber the threads of their executor, for any number of
\* permits and backends (app.py:100-108).
THEOREM ProbesStayBounded == Spec => []ProbesBounded
<1>1. Proved!TypeOK => Latch!TypeOK
  BY DEF Latch!TypeOK, Proved!TypeOK, Latch!Verdict, Proved!Verdict, Latch!DownNeed,
         Proved!DownNeed, Latch!UpNeed, Proved!UpNeed, Latch!AtLeastOne, Proved!AtLeastOne
<1>2. IInv /\ Latch!TypeOK => ProbesBounded
  BY DEF IInv, LoopsInv, SnapInv, ProbesBounded, TypeOK, Loops!Verdict, Latch!Verdict
<1>3. Spec => []IInv
  BY InitIInv, NextIInv, PTL DEF Spec
<1> QED
  BY <1>1, <1>2, <1>3, PipelineIsLatch, SameLatch, Configured, Proved!TypeCorrect, PTL
=============================================================================
