----------------------------- MODULE Visibility -----------------------------
(***************************************************************************)
(* Which keys the dashboards name (app.py:2057-2153): the latest snapshot  *)
(* lists every key, and the ones an admin hides, or LiteLLM never          *)
(* confirmed, are left out when it is served.  The two sets that decide    *)
(* are read from the database by a thread that the sampling loop starts at *)
(* every tick, one after the other, while requests are served from them;   *)
(* a request that finds them older than the TTL reads them itself.         *)
(*                                                                         *)
(* Either read may fail, which looks like an empty set.                    *)
(***************************************************************************)
EXTENDS Integers

CONSTANTS Labels,    \* of the keys in the latest snapshot
          Excluded,  \* MONITOR_EXCLUDE_KEYS
          Ttl,       \* _VIS_GATE_TTL
          \* Bounds of the model:
          Start,     \* the time at which the process starts, beyond Ttl + MaxRead
          MaxTime, MaxChanges, MaxFailures,
          MaxRead    \* how long the thread may take

VARIABLES
    time,      \* time.monotonic()
    known,     \* the labels of known_keys
    named,     \* those whose owner is not blank
    assigned,  \* labels with an admin's user override
    hiding,    \* HIDE_UNASSIGNED_KEYS
    gate,      \* _vis_gate
    thread,    \* _warm_vis_gate: its step, since when, and what it has just read
    shown,     \* the keys of the last response
    \* History:
    turned,    \* when what is true of a label last changed
    fault,     \* when a read last failed
    changes, failures

store == <<known, named, assigned, hiding>>
vars  == <<time, store, gate, thread, shown, turned, fault, changes, failures>>

Idle == [step |-> "idle", since |-> 0, read |-> {}]

\* The database and the settings are those of earlier runs, the gate is cold.
Init ==
    /\ time = Start
    /\ known \in SUBSET Labels /\ named \in SUBSET known
    /\ assigned \in SUBSET Labels /\ hiding \in BOOLEAN
    /\ gate = [known |-> {}, unassigned |-> {}, mono |-> 0]
    /\ thread = Idle /\ shown = {}
    /\ turned = [l \in Labels |-> 0] /\ fault = 0 /\ changes = 0 /\ failures = 0

-----------------------------------------------------------------------------
\* unassigned_labels: nobody, until LiteLLM has named one owner.
Unassigned(listed, owned, over) == IF owned = {} THEN {} ELSE listed \ (owned \cup over)

\* key_known: without a baseline every label is.
Known(l, listed) == listed = {} \/ l \in listed

\* What the gate lets pass.
Visible(listed, unassigned) ==
    {l \in Labels \ Excluded : Known(l, listed) /\ ~(hiding /\ l \in unassigned)}

\* What is true of a label, the toggle aside.
Truth(l, listed, owned, over) == <<Known(l, listed), l \in Unassigned(listed, owned, over)>>

Store(listed, owned, over) ==
    /\ changes < MaxChanges /\ changes' = changes + 1
    /\ known' = listed /\ named' = owned /\ assigned' = over
    /\ turned' = [l \in Labels |->
                    IF Truth(l, listed, owned, over) = Truth(l, known, named, assigned)
                    THEN turned[l] ELSE time]
    /\ UNCHANGED <<time, hiding, gate, thread, shown, fault, failures>>

\* known_keys_upsert lists a key, with or without an owner.
List == \E l \in Labels \ known : Store(known \cup {l}, named, assigned) \/
                                  Store(known \cup {l}, named \cup {l}, assigned)

\* It learns, or after its debounce forgets, the owner of a key.
Reown == \E l \in known : Store(known, (named \cup {l}) \ (named \cap {l}), assigned)

\* key_user_set and key_user_delete.
Reassign == \E l \in Labels : Store(known, named, (assigned \cup {l}) \ (assigned \cap {l}))

\* The toggle of the settings page, read live.
Toggle ==
    /\ changes < MaxChanges /\ changes' = changes + 1
    /\ hiding' = ~hiding
    /\ UNCHANGED <<time, known, named, assigned, gate, thread, shown, turned, fault, failures>>

-----------------------------------------------------------------------------
Fails == failures < MaxFailures /\ failures' = failures + 1 /\ fault' = time
Works == UNCHANGED <<failures, fault>>

\* known_keys_set and unassigned_labels: what they return.
Read(set, got) == (Works /\ got = set) \/ (Fails /\ got = {})

\* The thread of a tick starts, and reads the first set.
Warm == \E got \in SUBSET Labels :
    /\ thread = Idle
    /\ Read(known, got)
    /\ thread' = [step |-> "known", since |-> time, read |-> got]
    /\ UNCHANGED <<time, store, gate, shown, turned, changes>>

\* It puts the first set in place, and reads the second.
WarmKnown == \E got \in SUBSET Labels :
    /\ thread.step = "known"
    /\ gate' = [gate EXCEPT !.known = thread.read]
    /\ Read(Unassigned(known, named, assigned), got)
    /\ thread' = [thread EXCEPT !.step = "unassigned", !.read = got]
    /\ UNCHANGED <<time, store, shown, turned, changes>>

\* It puts the second in place, and stamps both.
WarmUnassigned ==
    /\ thread.step = "unassigned"
    /\ gate' = [gate EXCEPT !.unassigned = thread.read, !.mono = time]
    /\ thread' = Idle
    /\ UNCHANGED <<time, store, shown, turned, fault, changes, failures>>

\* Mutant of Stale: a request reads the sets itself only while the gate is cold.
StaleWhenCold == gate.mono = 0

Stale == time - gate.mono >= Ttl

\* _snapshot_for_display, for a request or for a tick of a stream.
Serve == \E k, u \in SUBSET Labels :
    /\ IF Stale
       THEN /\ \/ Works /\ k = known /\ u = Unassigned(known, named, assigned)
               \/ Fails /\ k = {} /\ u \in {{}, Unassigned(known, named, assigned)}
               \/ Fails /\ k = known /\ u = {}
            /\ gate' = [known |-> k, unassigned |-> u, mono |-> time]
       ELSE /\ Works /\ k = gate.known /\ u = gate.unassigned
            /\ UNCHANGED gate
    /\ shown' = Visible(k, u)
    /\ UNCHANGED <<time, store, thread, turned, changes>>

Pass ==
    /\ time < MaxTime /\ (thread = Idle \/ time - thread.since < MaxRead)
    /\ time' = time + 1
    /\ UNCHANGED <<store, gate, thread, shown, turned, fault, changes, failures>>

Next == List \/ Reown \/ Reassign \/ Toggle \/ Warm \/ WarmKnown \/ WarmUnassigned \/ Serve \/ Pass
Spec == Init /\ [][Next]_vars

-----------------------------------------------------------------------------
TypeOK ==
    /\ named \subseteq known /\ known \subseteq Labels /\ assigned \subseteq Labels
    /\ gate.known \cup gate.unassigned \cup thread.read \cup shown \subseteq Labels
    /\ time \in Start..MaxTime /\ gate.mono \in 0..time

Settled(t) == time - t > Ttl + MaxRead

\* A response names exactly the keys that may be named, the toggle at once and the rest
\* within the TTL and one read of the thread, whether or not the sampling loop still
\* runs, and however its thread and the requests overlap (app.py:2057-2063, 2079-2084).
\* A read that failed is mended as soon.
ServedIsTrue ==
    Serve /\ Settled(fault') => \A l \in Labels :
        Settled(turned[l]) =>
            (l \in shown' <=> l \in Visible(known, Unassigned(known, named, assigned)))
=============================================================================
