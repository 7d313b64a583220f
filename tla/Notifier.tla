------------------------------ MODULE Notifier ------------------------------
(***************************************************************************)
(* alerts.Notifier.process and its caller, the sampling loop: which keys   *)
(* are announced and cleared, with one step per await of the coroutine.    *)
(* The loop runs process() under asyncio.wait_for(..., 15), so at any of   *)
(* those awaits it may be cancelled and the rest of the call is skipped.   *)
(*                                                                         *)
(* Each tick evaluate() and the anomaly detector hand over three disjoint  *)
(* sets of keys: firing, held and cancelled.  Here they are arbitrary.     *)
(***************************************************************************)
EXTENDS Naturals, FiniteSets

CONSTANTS
    Keys,           \* alert keys: "down:vllm", "cpu", "spike:alias", ...
    Repeat,         \* ALERT_REPEAT_MIN, in ticks
    Gaps,           \* ticks that may pass from one call to the next
    LastCap,        \* stamps kept before the old ones are pruned (512 in the code)
    Timeouts        \* how often wait_for may cancel a call (a bound of the model)

ASSUME NotifierAssumption ==
    /\ Repeat \in Nat \ {0}
    /\ Gaps \subseteq Nat \ {0}
    /\ LastCap \in Nat
    /\ Timeouts \in Nat

VARIABLES
    last,       \* _last: age in ticks of a key's stamp, up to Repeat + 1; a dict
    active,     \* _active
    notified,   \* _notified
    pc,         \* where process() is suspended; "idle" between calls
    tick,       \* what the last call was given: the sets firing, held, cancelled
    toFire,     \* keys of `due` not handled yet
    toRecover,  \* keys of `recoveries` not handled yet
    cur,        \* the key whose webhook was posted
    \* History of what the channel saw, read by no guard:
    alarmed,    \* keys whose last message was an alarm, not closed by a cancellation
    gone,       \* keys cancelled and neither firing nor held since
    sincePost,  \* ticks since a key's last message, up to Repeat
    sinceStamp, \* ticks since a key's last stamp, up to Repeat
    timeouts,   \* calls cancelled so far
    beat        \* parity of the calls made: a call that changes nothing is a step

memory  == <<last, active, notified>>
call    == <<pc, tick, toFire, toRecover, cur>>
history == <<alarmed, gone, sincePost, sinceStamp>>
vars    == <<memory, call, history, timeouts, beat>>

NoTick == [firing |-> {}, held |-> {}, cancelled |-> {}]
Awaits == {"resolving", "fired", "recovered", "recording"}

Init ==
    /\ last = << >> /\ active = {} /\ notified = {}
    /\ pc = "idle" /\ tick = NoTick /\ toFire = {} /\ toRecover = {} /\ cur = {}
    /\ alarmed = {} /\ gone = {}
    /\ sincePost = [k \in Keys |-> Repeat]
    /\ sinceStamp = [k \in Keys |-> Repeat]
    /\ timeouts = 0 /\ beat = 0

Elapse(clock, d, top) ==
    [k \in DOMAIN clock |-> IF clock[k] + d < top THEN clock[k] + d ELSE top]

-----------------------------------------------------------------------------
\* _due: never stamped, or stamped at least the cooldown ago.
Due(stamps, k) == k \notin DOMAIN stamps \/ stamps[k] >= Repeat

\* Mutant of Prune: the cut is one tick too late.
PruneEarly(stamps, act) ==
    IF Cardinality(DOMAIN stamps) > LastCap
    THEN [k \in {j \in DOMAIN stamps : j \in act \/ stamps[j] + 1 < Repeat} |-> stamps[k]]
    ELSE stamps

\* Above the ceiling, stamps of inactive keys older than the cooldown are dropped.
Prune(stamps, act) ==
    IF Cardinality(DOMAIN stamps) > LastCap
    THEN [k \in {j \in DOMAIN stamps : j \in act \/ stamps[j] <= Repeat} |-> stamps[k]]
    ELSE stamps

\* Mutant of StillActive: a held key leaves the active set.
StillActiveUnheld(t) == t.firing \ t.cancelled

\* What is active once a call is complete.
StillActive(t) == (t.firing \cup (active \cap t.held)) \ t.cancelled

\* The tail of process(), after the last await.
Settle(t, stamps) ==
    /\ active' = StillActive(t)
    /\ last' = Prune(stamps, StillActive(t))
    /\ notified' = notified \ t.cancelled
    /\ pc' = "idle" /\ tick' = t /\ toFire' = {} /\ toRecover' = {} /\ cur' = {}

\* Mutant of Pending: absence is read as recovery.
PendingAbsent(t) == active \ t.firing

\* Keys that stopped firing and are neither held nor cancelled.
Pending(t) == active \ (t.firing \cup t.held \cup t.cancelled)

\* One tick of the sampler calls process(): with nothing to send it runs to its
\* end without an await, otherwise it suspends in _recipients().
Process(t, d) ==
    /\ pc = "idle"
    /\ LET stamps == Elapse(last, d, Repeat + 1)
           due == {k \in t.firing : Due(stamps, k)}
           recoveries == Pending(t) \cap notified
       IN  \/ /\ due \cup recoveries = {}
              /\ Settle(t, stamps)
           \/ /\ due \cup recoveries # {}
              /\ pc' = "resolving" /\ tick' = t /\ toFire' = due /\ toRecover' = recoveries
              /\ last' = stamps
              /\ UNCHANGED <<active, notified, cur>>
    /\ alarmed' = alarmed \ t.cancelled
    /\ gone' = (gone \cup t.cancelled) \ (t.firing \cup t.held)
    /\ sincePost' = Elapse(sincePost, d, Repeat)
    /\ sinceStamp' = Elapse(sinceStamp, d, Repeat)
    /\ beat' = 1 - beat
    /\ UNCHANGED timeouts

\* The fan-out of a due key reaches the channel; process() is inside _fanout,
\* about to record the deliveries.
PostFire(k) ==
    /\ pc \in {"resolving", "recording"} /\ k \in toFire
    /\ pc' = "fired" /\ cur' = {k} /\ toFire' = toFire \ {k}
    /\ alarmed' = alarmed \cup {k}
    /\ sincePost' = [sincePost EXCEPT ![k] = 0]
    /\ UNCHANGED <<memory, tick, toRecover, gone, sinceStamp, timeouts, beat>>

PostRecover(k) ==
    /\ pc \in {"resolving", "recording"} /\ toFire = {} /\ k \in toRecover
    /\ pc' = "recovered" /\ cur' = {k} /\ toRecover' = toRecover \ {k}
    /\ alarmed' = alarmed \ {k}
    /\ sincePost' = [sincePost EXCEPT ![k] = 0]
    /\ UNCHANGED <<memory, tick, toFire, gone, sinceStamp, timeouts, beat>>

\* Mutant of Stamp: a recovery forgets the stamp instead of renewing it.
StampFireOnly ==
    /\ pc \in {"fired", "recovered"}
    /\ pc' = "recording" /\ cur' = {}
    /\ last' = [k \in IF pc = "fired" THEN DOMAIN last \cup cur ELSE DOMAIN last \ cur |->
                  IF k \in cur THEN 0 ELSE last[k]]
    /\ notified' = IF pc = "fired" THEN notified \cup cur ELSE notified \ cur
    /\ sinceStamp' = [k \in Keys |-> IF k \in cur THEN 0 ELSE sinceStamp[k]]
    /\ UNCHANGED <<active, tick, toFire, toRecover, alarmed, gone, sincePost, timeouts, beat>>

\* The fan-out returned: stamp the key, then suspend in record_alert.
Stamp ==
    /\ pc \in {"fired", "recovered"}
    /\ pc' = "recording" /\ cur' = {}
    /\ last' = [k \in DOMAIN last \cup cur |-> IF k \in cur THEN 0 ELSE last[k]]
    /\ notified' = IF pc = "fired" THEN notified \cup cur ELSE notified \ cur
    /\ sinceStamp' = [k \in Keys |-> IF k \in cur THEN 0 ELSE sinceStamp[k]]
    /\ UNCHANGED <<active, tick, toFire, toRecover, alarmed, gone, sincePost, timeouts, beat>>

Finish ==
    /\ pc = "recording" /\ toFire = {} /\ toRecover = {}
    /\ Settle(tick, last)
    /\ UNCHANGED <<history, timeouts, beat>>

\* wait_for gives up: CancelledError leaves process() at its await, and neither
\* _active nor _notified hears of what this tick said.
Timeout ==
    /\ pc # "idle" /\ timeouts < Timeouts
    /\ timeouts' = timeouts + 1
    /\ pc' = "idle" /\ toFire' = {} /\ toRecover' = {} /\ cur' = {}
    /\ UNCHANGED <<memory, tick, history, beat>>

Ticks == {t \in [firing : SUBSET Keys, held : SUBSET Keys, cancelled : SUBSET Keys] :
            /\ t.firing \cap t.held = {}
            /\ t.cancelled \cap (t.firing \cup t.held) = {}}

Step == (\E k \in Keys : PostFire(k) \/ PostRecover(k)) \/ Stamp \/ Finish

Next == Step \/ Timeout \/ \E t \in Ticks, d \in Gaps : Process(t, d)

Spec == Init /\ [][Next]_vars

\* The sampling loop never stops calling, and the awaits of a call return: each
\* POST has its own timeout and the database write runs in a worker thread.
Fairness == WF_vars(Step) /\ WF_vars(\E t \in Ticks, d \in Gaps : Process(t, d))

FairSpec == Spec /\ Fairness

-----------------------------------------------------------------------------
TypeOK ==
    /\ DOMAIN last \subseteq Keys /\ \A k \in DOMAIN last : last[k] \in 0..(Repeat + 1)
    /\ active \subseteq Keys /\ notified \subseteq Keys
    /\ pc \in {"idle"} \cup Awaits /\ tick \in Ticks
    /\ toFire \subseteq tick.firing /\ cur \subseteq Keys
    /\ toRecover \subseteq Keys \ (tick.firing \cup tick.held \cup tick.cancelled)
    /\ alarmed \subseteq Keys /\ gone \subseteq Keys
    /\ timeouts \in 0..Timeouts /\ beat \in {0, 1}
    /\ sincePost \in [Keys -> 0..Repeat] /\ sinceStamp \in [Keys -> 0..Repeat]

\* The bounded _last is as good as an unbounded one: whatever was pruned, a key
\* is due exactly when nothing was stamped for it during the cooldown
\* (alerts.py:609-613, 676-685).
DueMatchesHistory ==
    \A k \in Keys : Due(last, k) <=> sinceStamp[k] >= Repeat

\* As long as no call was cancelled: between calls, an alarm the reader was given
\* is one the notifier still tracks, so that it cannot forget the all-clear
\* (alerts.py:635-647, 675, 686).
AlarmTracked == pc = "idle" /\ timeouts = 0 => alarmed \subseteq active \cap notified

\* As long as no call was cancelled: a key whose monitoring stopped is never
\* announced as recovered (alerts.py:371-378, 639, 671).
NoAllClearForGone == pc = "recovered" /\ timeouts = 0 => cur \cap gone = {}

\* The three together: what the notifier tracks is what the reader waits for.
AlarmsTracked == TypeOK /\ AlarmTracked /\ NoAllClearForGone

\* What the reader of the channel sees follows the promise of Pager, the cooldown
\* before every alarm and an all-clear only for an alarm still open, up to the
\* first cancelled call (alerts.py:3-5, 633-646).
Messages == INSTANCE Pager WITH alarmed <- alarmed, quiet <- sincePost
MessagesArePager ==
    Messages!Init /\ [][timeouts' = 0 => Messages!Next]_<<alarmed, sincePost>>

\* What the notifier remembers follows the promise too, however often it is
\* cancelled (alerts.py:653-654, 664-665, 671-686).
Stamps == INSTANCE Pager WITH alarmed <- notified, quiet <- sinceStamp
StampsArePager == Stamps!Spec

\* "a 'recovered' note is sent once when a previously-firing key clears"
\* (alerts.py:4-5): no alarm stays open when its key is neither firing nor held
\* for good.
AlarmCloses ==
    \A k \in Keys :
        <>[](k \notin tick.firing \cup tick.held) => []<>(k \notin alarmed)

\* The same, when no call is ever cancelled.
UncancelledAlarmCloses == [](timeouts = 0) => AlarmCloses
=============================================================================
