--------------------------- MODULE AlertPipeline ---------------------------
(***************************************************************************)
(* From a backend to the verdict on it: the loops of Collectors refresh    *)
(* the cache, the sampling loop copies the whole cache into a snapshot     *)
(* (app.py:154-172) and, some awaits later (app.py:495-524), hands it to   *)
(* alerts.evaluate, the latch of BackendHealth.                            *)
(*                                                                         *)
(* ALERT_ON_BACKEND_DOWN is on and no maintenance window is open here:     *)
(* BackendHealth is checked with both by itself.                           *)
(***************************************************************************)
EXTENDS Integers, Sequences, FiniteSets

CONSTANTS Backends, Gpu, Permits, DownAfter, UpAfter, Window,
          Watched  \* the backends evaluate looks at: not the containers loop

ASSUME PipelineAssumption ==
    /\ Gpu \in Backends /\ Watched \subseteq Backends /\ Permits \in Nat \ {0}
    /\ DownAfter \in Nat /\ UpAfter \in Nat /\ Window \in Nat

VARIABLES health, cache, pc, permits, running, stranded,
          downStreak, upStreak, downHist, firing, downReason, held, cancelled, out,
          poll, goodRun, badSeen,
          snap,    \* what the snapshot holds for each backend
          judging  \* the tick has sampled and not evaluated yet

Loops == INSTANCE Collectors
Latch == INSTANCE BackendHealth WITH Backends <- Watched

loops == <<health, cache, pc, permits, running, stranded>>
latch == <<downStreak, upStreak, downHist, firing, downReason, held, cancelled, out,
           poll, goodRun, badSeen>>
vars  == <<loops, latch, snap, judging>>

NoSnapshot == [b \in Backends |-> "none"]

Init ==
    /\ Loops!Init /\ Latch!Init
    /\ snap = NoSnapshot /\ judging = FALSE

\* The loops go on whatever the sampler does; only the ends of a poll write the
\* cache.
PollBegins(b) ==
    /\ Loops!Poll(b) \/ (b = Gpu /\ Loops!Probe)
    /\ UNCHANGED <<latch, snap, judging>>

PollEnds(b) ==
    /\ \/ Loops!Return(b) \/ Loops!TimeOut(b)
       \/ b = Gpu /\ (Loops!ProbeRefused \/ Loops!ProbeReturn)
    /\ UNCHANGED <<latch, snap, judging>>

LateReturn == Loops!LateReturn /\ UNCHANGED <<latch, snap, judging>>

Turn == /\ \E b \in Backends, h \in Loops!Health : Loops!Turn(b, h)
        /\ UNCHANGED <<latch, snap, judging>>

\* _sample_once: every entry is copied at once.
Sample ==
    /\ ~judging /\ judging' = TRUE /\ snap' = cache
    /\ UNCHANGED <<loops, latch>>

\* evaluate(snap), at the head of Notifier.process; the snapshot is not read again.
Judge ==
    /\ judging /\ judging' = FALSE
    /\ Latch!Evaluate(TRUE, {}, [b \in Watched |-> snap[b]])
    /\ snap' = NoSnapshot
    /\ UNCHANGED loops

Next ==
    \/ \E b \in Backends : PollBegins(b) \/ PollEnds(b)
    \/ LateReturn \/ Turn \/ Sample \/ Judge

Spec == Init /\ [][Next]_vars

\* Each loop is its own task and the sampling loop another, and none ever blocks
\* the rest (app.py:126-151, 485-555); a subprocess that is not stuck in the
\* driver ends or is killed by its timeout (collectors/gpu.py:37-50).
Fairness ==
    /\ \A b \in Backends : WF_vars(PollBegins(b) \/ PollEnds(b))
    /\ WF_vars(LateReturn) /\ WF_vars(Sample \/ Judge)

FairSpec == Spec /\ Fairness

-----------------------------------------------------------------------------
TypeOK ==
    /\ Loops!TypeOK /\ Latch!TypeOK
    /\ snap \in [Backends -> Latch!Verdict] /\ judging \in BOOLEAN

\* However often the driver hangs, the probes never outnumber the threads of
\* their executor, and every permit is free or with a live thread
\* (app.py:100-108).
ProbesBounded == TypeOK /\ Loops!ProbesBounded

\* A backend that hangs for good is reported DOWN, and stays so: neither its last
\* good answer nor the answers of its stranded probes keep it healthy
\* (app.py:139-144).
HungIsReported ==
    \A b \in Watched : <>[](health[b] = "hung") => <>[](b \in out)

\* A backend that is well for good is let go, whatever hung before
\* (app.py:105-108, alerts.py:551-561).
HealedIsReleased ==
    \A b \in Watched : <>[](health[b] = "good") => <>[](b \notin firing)
=============================================================================
