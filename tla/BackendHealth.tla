--------------------------- MODULE BackendHealth ---------------------------
(***************************************************************************)
(* The anti-flap latch of alerts.evaluate (alerts.py:341-578): for every   *)
(* watched backend, when a run of failed polls makes it DOWN, when a run   *)
(* of good polls lets it recover, and why a key that used to alert is      *)
(* absent from the result (held by a maintenance window, cancelled because *)
(* nobody watches the backend any more, or recovered).                     *)
(*                                                                         *)
(* evaluate() has no await, so one call, over every backend, is one step.  *)
(* Its inputs are chosen by the environment: the tunable                   *)
(* ALERT_ON_BACKEND_DOWN (live-editable in Settings), the set of backends  *)
(* inside a maintenance window, and one poll verdict per backend.          *)
(***************************************************************************)
EXTENDS Integers, Sequences, FiniteSets

CONSTANTS
    Backends,    \* the watched backends: litellm, ollama, llamacpp, vllm, gpu
    DownAfter,   \* ALERT_BACKEND_DOWN_AFTER
    UpAfter,     \* ALERT_BACKEND_UP_AFTER
    Window       \* ALERT_BACKEND_DOWN_WINDOW, 0 disables the majority rule

ASSUME ConfigAssumption ==
    /\ DownAfter \in Nat
    /\ UpAfter \in Nat
    /\ Window \in Nat

\* What one collector entry says: "down" is available=False with a real error,
\* "up" is available=True, "none" is unconfigured, starting or missing.
Verdict == {"down", "up", "none"}

AtLeastOne(n) == IF n > 1 THEN n ELSE 1
DownNeed == AtLeastOne(DownAfter)
UpNeed   == AtLeastOne(UpAfter)
Sat(n, top) == IF n < top THEN n ELSE top

Decay(n) == IF n > 0 THEN n - 1 ELSE 0

VARIABLES
    downStreak,  \* _down_streak; only compared with DownNeed, so it saturates there
    upStreak,    \* _up_streak
    downHist,    \* _down_hist: the last Window verdicts, TRUE for a good one
    firing,      \* _firing: backends latched DOWN
    downReason,  \* the backends that have an entry in _down_reason
    held,        \* _held, rebuilt by every call
    cancelled,   \* _cancelled, rebuilt by every call
    out,         \* the backends whose key the last call returned
    \* History of the polls, read by no guard:
    poll,        \* the verdicts the last call was given
    goodRun,     \* good polls in a row up to now, saturating at UpNeed
    badSeen      \* failed polls outside maintenance since the slate was last clean,
                 \* saturating at DownNeed

latch   == <<downStreak, upStreak, downHist, firing, downReason>>
verdict == <<held, cancelled, out>>
history == <<poll, goodRun, badSeen>>
vars    == <<latch, verdict, history>>

Init ==
    /\ downStreak = [b \in Backends |-> 0]
    /\ upStreak = [b \in Backends |-> 0]
    /\ downHist = [b \in Backends |-> << >>]
    /\ firing = {} /\ downReason = {}
    /\ held = {} /\ cancelled = {} /\ out = {}
    /\ poll = [b \in Backends |-> "none"]
    /\ goodRun = [b \in Backends |-> 0]
    /\ badSeen = [b \in Backends |-> 0]

-----------------------------------------------------------------------------
\* _note_poll: append, keep the newest Window entries (none when it is 0).
NotePoll(h, ok) ==
    IF Window = 0 THEN << >>
    ELSE IF Len(h) < Window THEN Append(h, ok)
    ELSE Append(Tail(h), ok)

Failures(h) == Cardinality({i \in DOMAIN h : ~h[i]})

\* _majority_failing: a full window, more than half of it failed, and no fewer
\* failures than the consecutive rule asks for.
MajorityFailing(h) ==
    /\ Window > 0
    /\ Len(h) >= Window
    /\ Failures(h) * 2 > Len(h)
    /\ Failures(h) >= DownNeed

\* History: a maintenance window, an unwatched poll and a run of UpNeed good
\* polls each wipe the slate.
Remember(on, maint, p) ==
    LET run(b) == IF on /\ p[b] = "up" THEN Sat(goodRun[b] + 1, UpNeed) ELSE 0
        clean(b) == ~on \/ b \in maint \/ p[b] = "none" \/ run(b) >= UpNeed
    IN  /\ poll' = p
        /\ goodRun' = [b \in Backends |-> run(b)]
        /\ badSeen' = [b \in Backends |->
                         IF clean(b) THEN 0
                         ELSE IF p[b] = "down" THEN Sat(badSeen[b] + 1, DownNeed)
                         ELSE badSeen[b]]

\* Mutant of EvaluateOff: the block is skipped without reporting what was latched.
EvaluateOffUnreported ==
    /\ cancelled' = {} /\ held' = {} /\ out' = {}
    /\ firing' = {} /\ downReason' = {}
    /\ downStreak' = [b \in Backends |-> 0]
    /\ upStreak' = [b \in Backends |-> 0]
    /\ downHist' = [b \in Backends |-> << >>]

\* ALERT_ON_BACKEND_DOWN is off: every latched alert is closed silently.
EvaluateOff ==
    /\ cancelled' = firing
    /\ held' = {} /\ out' = {}
    /\ firing' = {} /\ downReason' = {}
    /\ downStreak' = [b \in Backends |-> 0]
    /\ upStreak' = [b \in Backends |-> 0]
    /\ downHist' = [b \in Backends |-> << >>]

Failed(maint, p)    == {b \in Backends \ maint : p[b] = "down"}
Unwatched(maint, p) == {b \in Backends \ maint : p[b] = "none"}
\* A good poll counts towards recovery inside a maintenance window too.
Recovered(p)        == {b \in Backends : p[b] = "up" /\ upStreak[b] + 1 >= UpNeed}

NextDownStreak(maint, p) ==
    [b \in Backends |-> IF b \in Failed(maint, p) THEN Sat(downStreak[b] + 1, DownNeed)
                        ELSE 0]

\* Mutant of NextUpStreak: polls inside a maintenance window are not looked at.
NextUpStreakSkipsWindow(maint, p) ==
    [b \in Backends |->
        IF b \in Failed(maint, p) THEN Decay(upStreak[b])
        ELSE IF p[b] = "up" /\ b \notin maint \cup Recovered(p) THEN upStreak[b] + 1
        ELSE 0]

\* A failed poll decays the up-streak; inside a window it clears it.
NextUpStreak(maint, p) ==
    [b \in Backends |->
        IF b \in Failed(maint, p) THEN Decay(upStreak[b])
        ELSE IF p[b] = "up" /\ b \notin Recovered(p) THEN upStreak[b] + 1
        ELSE 0]

\* Mutant of NextDownHist: the history survives a maintenance window.
NextDownHistKept(maint, p) ==
    [b \in Backends |->
        IF b \in Unwatched(maint, p) \cup Recovered(p) THEN << >>
        ELSE IF b \in maint THEN downHist[b]
        ELSE NotePoll(downHist[b], p[b] = "up")]

NextDownHist(maint, p) ==
    [b \in Backends |->
        IF b \in maint \cup Unwatched(maint, p) \cup Recovered(p) THEN << >>
        ELSE NotePoll(downHist[b], p[b] = "up")]

Armed(maint, p) ==
    {b \in Failed(maint, p) : \/ NextDownStreak(maint, p)[b] >= DownNeed
                              \/ MajorityFailing(NextDownHist(maint, p)[b])}

\* The loop over the backends, with ALERT_ON_BACKEND_DOWN on.
EvaluateOn(maint, p) ==
    LET closed == Recovered(p) \cup Unwatched(maint, p)
    IN  /\ downStreak' = NextDownStreak(maint, p)
        /\ upStreak' = NextUpStreak(maint, p)
        /\ downHist' = NextDownHist(maint, p)
        /\ firing' = (firing \ closed) \cup Armed(maint, p)
        /\ downReason' = (downReason \cup Failed(maint, p)) \ closed
        /\ held' = firing' \cap maint
        /\ cancelled' = firing \cap Unwatched(maint, p)
        /\ out' = firing' \ maint

Evaluate(on, maint, p) ==
    /\ \/ ~on /\ EvaluateOff
       \/ on /\ EvaluateOn(maint, p)
    /\ Remember(on, maint, p)

Next == \E on \in BOOLEAN, maint \in SUBSET Backends, p \in [Backends -> Verdict] :
            Evaluate(on, maint, p)

Spec == Init /\ [][Next]_vars

-----------------------------------------------------------------------------
TypeOK ==
    /\ downStreak \in [Backends -> 0..DownNeed]
    /\ upStreak \in [Backends -> Nat]
    /\ downHist \in [Backends -> Seq(BOOLEAN)]
    /\ firing \subseteq Backends /\ downReason \subseteq Backends
    /\ held \subseteq Backends /\ cancelled \subseteq Backends /\ out \subseteq Backends
    /\ poll \in [Backends -> Verdict]
    /\ goodRun \in [Backends -> 0..UpNeed]
    /\ badSeen \in [Backends -> 0..DownNeed]

\* A backend that answered UpNeed polls in a row does not alert, whether those
\* polls fell inside or outside maintenance windows (alerts.py:516-529, 551-561:
\* a backend that recovered during its window must not page when it closes).
HealthyRunClears == \A b \in firing : goodRun[b] < UpNeed

\* A backend newly latched has really failed DownNeed polls since its slate was
\* clean: no path (streak, majority of the window, a maintenance boundary, a
\* cancelled episode, a healthy run) pages on fewer (alerts.py:417-421, 504-506).
ArmOnEvidence == [][\A b \in firing' \ firing : badSeen'[b] >= DownNeed]_vars

\* Absence is never read as recovery: a key that alerted or was held and is now
\* neither, and was not cancelled, got a good poll on this very call
\* (alerts.py:371-378, 487-498, 562-568).
AbsenceExplained ==
    [][\A b \in (out \cup held) \ (out' \cup held' \cup cancelled') : poll'[b] = "up"]_vars

\* What the code's counters know of the polls that were seen (alerts.py:514-573):
\* the up-streak of a latched backend covers its whole good run, its message has
\* a reason, and neither the down-streak nor the history of the majority rule
\* claims a failure that was wiped.  It makes HealthyRunClears and ArmOnEvidence
\* inductive.
LatchInv ==
    \A b \in Backends :
        /\ upStreak[b] < UpNeed
        /\ b \in firing => goodRun[b] <= upStreak[b] /\ b \in downReason
        /\ goodRun[b] <= upStreak[b] \/ Failures(downHist[b]) = 0
        /\ Sat(Failures(downHist[b]), DownNeed) <= badSeen[b]
        /\ downStreak[b] <= badSeen[b]
        /\ Len(downHist[b]) <= Window
=============================================================================
