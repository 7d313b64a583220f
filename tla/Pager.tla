------------------------------- MODULE Pager -------------------------------
(***************************************************************************)
(* What the alert channel promises its reader (alerts.py:3-5, 639-643):    *)
(* after anything was said about a key, an alarm for it waits out the      *)
(* cooldown; an all-clear follows an alarm that was heard and was not      *)
(* cleared yet; an alarm may also be closed without a word.                *)
(***************************************************************************)
EXTENDS Naturals

CONSTANTS Keys,    \* alert keys
          Repeat,  \* ALERT_REPEAT_MIN in ticks
          Gaps     \* how many ticks may pass between two evaluations

VARIABLES alarmed, \* keys whose last message was an alarm
          quiet    \* ticks since the last message about a key, up to Repeat

Elapse(clock, d, top) ==
    [k \in DOMAIN clock |-> IF clock[k] + d < top THEN clock[k] + d ELSE top]

Init == alarmed = {} /\ quiet = [k \in Keys |-> Repeat]

Alarm(k) == /\ quiet[k] >= Repeat
            /\ alarmed' = alarmed \cup {k}
            /\ quiet' = [quiet EXCEPT ![k] = 0]

AllClear(k) == /\ k \in alarmed
               /\ alarmed' = alarmed \ {k}
               /\ quiet' = [quiet EXCEPT ![k] = 0]

\* Time passes and some alarms are closed silently, or only the latter.
Silence == /\ alarmed' \subseteq alarmed
           /\ \/ \E d \in Gaps : quiet' = Elapse(quiet, d, Repeat)
              \/ UNCHANGED quiet

Next == Silence \/ \E k \in Keys : Alarm(k) \/ AllClear(k)

Spec == Init /\ [][Next]_<<alarmed, quiet>>
=============================================================================
