------------------------------ MODULE Streams ------------------------------
(***************************************************************************)
(* GET /api/stream: long-lived responses that push the latest snapshot.    *)
(* Each is charged to a client (an account, or an address when the request *)
(* shows the shared token only) and to a total, both of them capped, and   *)
(* asks again every RecheckAfter whether its client may still see it, for  *)
(* it passed the middleware once only.  Where the dashboard is open nobody  *)
(* is asked for a credential, and a stream ends at its first check.        *)
(*                                                                         *)
(* Time is per stream: a round of its loop is one write and one sleep.     *)
(***************************************************************************)
EXTENDS Naturals, FiniteSets

CONSTANTS Streams,      \* bound: requests at a time
          Clients,
          MaxPerClient, \* SSE_MAX_PER_CLIENT
          MaxTotal,     \* SSE_MAX_TOTAL
          RecheckAfter, \* rounds in 30 s
          Lifetime      \* rounds in 3600 s

ASSUME StreamsAssumption ==
    /\ MaxPerClient \in Nat /\ MaxTotal \in Nat /\ IsFiniteSet(Streams)
    /\ RecheckAfter \in Nat /\ Lifetime \in Nat /\ RecheckAfter < Lifetime

VARIABLES
    active, \* _sse_active, 0 where it has no entry
    total,  \* _sse_total
    stream, \* where each request is, and its two ages in rounds
    authed, \* the clients whose credential is valid now
    unseen  \* rounds each open stream has gone on since its client lost it (history)

streamVars == <<active, total, stream, authed, unseen>>

Phase  == {"none", "preparing", "writing", "asleep"}
NoStream == [phase |-> "none"]
Charged == {s \in Streams : stream[s].phase # "none"}
Client(s) == stream[s].client

StreamsInit ==
    /\ active = [c \in Clients |-> 0] /\ total = 0
    /\ stream = [s \in Streams |-> NoStream] /\ authed = Clients
    /\ unseen = [s \in Streams |-> 0]

\* _sse_acquire and _sse_release.
Room(c) == total < MaxTotal /\ active[c] < MaxPerClient

Acquire(c) == /\ active' = [active EXCEPT ![c] = @ + 1]
              /\ total' = total + 1

\* Mutant of Release: only the client's count goes down.
ReleaseClient(c) == /\ active' = [active EXCEPT ![c] = IF @ > 0 THEN @ - 1 ELSE 0]
                    /\ UNCHANGED total

Release(c) == /\ active' = [active EXCEPT ![c] = IF @ > 0 THEN @ - 1 ELSE 0]
              /\ total' = IF total > 0 THEN total - 1 ELSE 0

Goto(s, phase) == stream' = [stream EXCEPT ![s].phase = phase]

\* The finally clause, whatever ended the stream.
End(s) == /\ Release(Client(s))
          /\ stream' = [stream EXCEPT ![s] = NoStream]
          /\ unseen' = [unseen EXCEPT ![s] = 0]
          /\ UNCHANGED authed

\* Past the middleware; a client at its cap is answered 429 at once.
Connect(s, c) ==
    /\ stream[s].phase = "none" /\ c \in authed /\ Room(c)
    /\ Acquire(c)
    /\ stream' = [stream EXCEPT ![s] = [phase |-> "preparing", client |-> c, age |-> 0, checked |-> 0]]
    /\ UNCHANGED <<authed, unseen>>

\* The headers go out; the client may have gone by then.
Prepared(s) ==
    /\ stream[s].phase = "preparing" /\ Goto(s, "asleep")
    /\ UNCHANGED <<active, total, authed, unseen>>

\* A reset, a cancellation or any other exception, at any await.
Broken(s) == stream[s].phase # "none" /\ End(s)

\* Mutant of Expired: the wrong one of the two ages.
ExpiredUnchecked(s) == stream[s].checked > Lifetime

Expired(s) == stream[s].age > Lifetime

\* Mutant of MustAsk: the wrong one of the two limits.
MustAskLate(s) == stream[s].checked > Lifetime

MustAsk(s) == stream[s].checked > RecheckAfter

\* The head of the loop: one of the two ways out, or a frame is written.
TooOld(s) == stream[s].phase = "asleep" /\ Expired(s) /\ End(s)

NotAuthed(s) == /\ stream[s].phase = "asleep" /\ ~Expired(s)
                /\ MustAsk(s) /\ Client(s) \notin authed /\ End(s)

Write(s) ==
    /\ stream[s].phase = "asleep" /\ ~Expired(s)
    /\ MustAsk(s) => Client(s) \in authed
    /\ stream' = [stream EXCEPT ![s].phase = "writing",
                                ![s].checked = IF MustAsk(s) THEN 0 ELSE @]
    /\ unseen' = [unseen EXCEPT ![s] = IF Client(s) \in authed THEN 0 ELSE @ + 1]
    /\ UNCHANGED <<active, total, authed>>

\* The frame is out, and the loop sleeps for SAMPLE_INTERVAL.  Beyond its
\* lifetime the age need not be counted.
Written(s) ==
    /\ stream[s].phase = "writing"
    /\ stream' = [stream EXCEPT ![s].phase = "asleep", ![s].age = IF @ > Lifetime THEN @ ELSE @ + 1,
                                ![s].checked = @ + 1]
    /\ UNCHANGED <<active, total, authed, unseen>>

\* Logins, resets, expiries: Gate.
Turn(c) ==
    /\ authed' = IF c \in authed THEN authed \ {c} ELSE authed \cup {c}
    /\ UNCHANGED <<active, total, stream, unseen>>

StreamsNext ==
    \/ \E s \in Streams : \/ \E c \in Clients : Connect(s, c)
                          \/ Prepared(s) \/ Broken(s) \/ TooOld(s) \/ NotAuthed(s)
                          \/ Write(s) \/ Written(s)
    \/ \E c \in Clients : Turn(c)

\* The loop of a stream is a task of the event loop, and a write ends: the client
\* reads it or its connection breaks.
Fairness == \A s \in Streams :
    WF_streamVars(Prepared(s) \/ TooOld(s) \/ NotAuthed(s) \/ Write(s) \/ Written(s))

StreamsSpec == StreamsInit /\ [][StreamsNext]_streamVars /\ Fairness

-----------------------------------------------------------------------------
StreamsTypeOK ==
    /\ active \in [Clients -> 0..MaxPerClient] /\ total \in 0..MaxTotal
    /\ authed \subseteq Clients
    /\ \A s \in Streams : /\ stream[s].phase \in Phase
                          /\ stream[s].phase # "none" => /\ stream[s].client \in Clients
                                                         /\ stream[s].age \in 0..(Lifetime + 1)
                                                         /\ stream[s].checked \in 0..(RecheckAfter + 1)

\* The two counts are the streams there are, through every way a stream can end:
\* no slot leaks and none is given back twice (app.py:4050-4070, 4089-4123).
SlotsCounted ==
    /\ total = Cardinality(Charged)
    /\ \A c \in Clients : active[c] = Cardinality({s \in Charged : Client(s) = c})

\* The types, the caps among them, and the counts.
StreamsInv == StreamsTypeOK /\ SlotsCounted

\* A client that lost its credential is sent at most the frames of one interval
\* between two checks (app.py:4101-4111).
RevokedSoon == \A s \in Streams : unseen[s] <= RecheckAfter + 1

\* Every stream ends, so that its client comes back through the middleware.
StreamsEnd == \A s \in Streams : []<>(s \notin Charged)
=============================================================================
