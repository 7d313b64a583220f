----------------------------- MODULE TokenTypes -----------------------------
(***************************************************************************)
(* The token counts per model of a window of days (app.py:3018-3128,       *)
(* litellm.py:1911-2002): a pull of one /spend/logs per day, behind a      *)
(* cache, a single flight per window and a circuit breaker of its own.     *)
(*                                                                         *)
(* What blocks every pull from outside (a bad key, a loaded host, the      *)
(* breaker of the spend poll) is looked at when a pull begins.             *)
(***************************************************************************)
EXTENDS Integers, FiniteSets

CONSTANTS Requests, Windows,
          Days,        \* days of a window
          Ttl,         \* _TT_TTL
          MaxEntries,  \* _TT_MAX
          MaxSeconds,  \* TOKEN_TYPES_MAX_SECONDS
          Backstop,    \* how much longer wait_for lets a pull go on
          CbThreshold, CbCooldown,
          MaxNow       \* bound: the time the model covers

VARIABLES
    now,
    cache,   \* _TT_CACHE: a function from windows to the time of the request that led
    flight,  \* _TT_INFLIGHT: a function from windows to the request that leads
    req,     \* what each request does
    breaker, \* _CB["token_types"]
    \* History:
    good,    \* when the last pull with an answer began that the cache has not dropped
    late     \* failed days since the breaker opened

vars == <<now, cache, flight, req, breaker, good, late>>

Idle == [at |-> "idle", win |-> "", since |-> 0, day |-> 0, ok |-> FALSE]
Following == {r \in Requests : req[r].at = "follows"}
Pulling   == {r \in Requests : req[r].at \in {"begins", "fetches", "parses"}}

With(f, k, v) == [x \in DOMAIN f \cup {k} |-> IF x = k THEN v ELSE f[x]]
Keep(f, S)    == [x \in DOMAIN f \cap S |-> f[x]]

Init ==
    /\ now = 0 /\ cache = << >> /\ flight = << >> /\ req = [r \in Requests |-> Idle]
    /\ breaker = [fails |-> 0, until |-> 0] /\ good = << >> /\ late = 0

Open == now < breaker.until

-----------------------------------------------------------------------------
\* Time passes, but not between a request and the head of its pull.
Tick == /\ now < MaxNow /\ now' = now + 1
        /\ \A r \in Requests : req[r].at # "begins"
        /\ UNCHANGED <<cache, flight, req, breaker, good>>
        /\ late' = IF now' < breaker.until THEN late ELSE 0

Fresh(w) == w \in DOMAIN cache /\ now - cache[w] < Ttl

\* Mutant of Led: every request that misses the cache pulls.
LedNever(w) == FALSE

Led(w) == w \in DOMAIN flight

\* A request: from the cache, which ends it at once, with the pull that is running,
\* or with a pull of its own.
Hit(r, w) == req[r] = Idle /\ Fresh(w) /\ UNCHANGED vars

Follow(r, w) ==
    /\ req[r] = Idle /\ ~Fresh(w) /\ Led(w)
    /\ req' = [req EXCEPT ![r] = [Idle EXCEPT !.at = "follows", !.win = w]]
    /\ UNCHANGED <<now, cache, flight, breaker, good, late>>

Lead(r, w) ==
    /\ req[r] = Idle /\ ~Fresh(w) /\ ~Led(w)
    /\ req' = [req EXCEPT ![r] = [at |-> "begins", win |-> w, since |-> now, day |-> 0, ok |-> FALSE]]
    /\ flight' = With(flight, w, r)
    /\ UNCHANGED <<now, cache, breaker, good, late>>

\* _tt_cache_store: beyond the cap the entries that have expired go, then the oldest.
Stored(w, at) ==
    LET all  == With(cache, w, at)
        live == {x \in DOMAIN all : now - all[x] < Ttl}
    IN  IF Cardinality(DOMAIN all) <= MaxEntries THEN {all}
        ELSE {Keep(all, S) : S \in {S \in SUBSET live :
                 /\ Cardinality(S) = (IF Cardinality(live) < MaxEntries
                                      THEN Cardinality(live) ELSE MaxEntries)
                 /\ \A x \in S, y \in live \ S : all[x] >= all[y]}}

\* The end of a pull: the followers get its result with the leader.
Finish(r, available) ==
    LET w == req[r].win IN
    /\ req' = [x \in Requests |-> IF x = r \/ (x \in Following /\ req[x].win = w)
                                  THEN Idle ELSE req[x]]
    /\ flight' = Keep(flight, Windows \ {w})
    /\ IF available
       THEN /\ cache' \in Stored(w, req[r].since)
            /\ good' = Keep(With(good, w, req[r].since), DOMAIN cache')
       ELSE UNCHANGED <<cache, good>>

\* The head of the pull: it is not begun, or the first day is asked for.
Begin(r, blocked) ==
    /\ req[r].at = "begins"
    /\ IF blocked \/ Open THEN Finish(r, FALSE)
       ELSE /\ req' = [req EXCEPT ![r].at = "fetches"]
            /\ UNCHANGED <<cache, flight, good>>
    /\ UNCHANGED <<now, breaker, late>>

\* The next day, if there is one and time for it.
Continue(r, ok) ==
    IF req[r].day + 1 < Days /\ now - req[r].since <= MaxSeconds
    THEN /\ req' = [req EXCEPT ![r].at = "fetches", ![r].day = @ + 1, ![r].ok = ok]
         /\ UNCHANGED <<cache, flight, good>>
    ELSE Finish(r, ok)

\* A day that came back closes the breaker; its logs are parsed in a thread.
DayOk(r) ==
    /\ req[r].at = "fetches"
    /\ req' = [req EXCEPT ![r].at = "parses"]
    /\ breaker' = [fails |-> 0, until |-> 0] /\ late' = 0
    /\ UNCHANGED <<now, cache, flight, good>>

DayParsed(r) == /\ req[r].at = "parses" /\ Continue(r, TRUE)
                /\ UNCHANGED <<now, breaker, late>>

Stop(b) == now < b.until

\* A day that failed counts; once the breaker is open the rest is left.
DayFails(r) ==
    /\ req[r].at = "fetches"
    /\ breaker' = [fails |-> IF breaker.fails < CbThreshold THEN breaker.fails + 1 ELSE breaker.fails,
                   until |-> IF breaker.fails + 1 >= CbThreshold THEN now + CbCooldown
                             ELSE breaker.until]
    /\ late' = IF Open THEN late + 1 ELSE 0
    /\ IF Stop(breaker') THEN Finish(r, req[r].ok) ELSE Continue(r, req[r].ok)
    /\ UNCHANGED now

\* wait_for gives the whole pull up; the days that came back are lost with it.
TimeOut(r) ==
    /\ r \in Pulling /\ now - req[r].since >= MaxSeconds + Backstop
    /\ Finish(r, FALSE)
    /\ UNCHANGED <<now, breaker, late>>

Pull(r) ==
    \/ \E blocked \in BOOLEAN : Begin(r, blocked)
    \/ DayOk(r) \/ DayParsed(r) \/ DayFails(r) \/ TimeOut(r)

Next ==
    \/ Tick
    \/ \E r \in Requests, w \in Windows : Hit(r, w) \/ Follow(r, w) \/ Lead(r, w)
    \/ \E r \in Requests : Pull(r)

Spec == Init /\ [][Next]_vars

-----------------------------------------------------------------------------
TypeOK ==
    /\ now \in 0..MaxNow
    /\ DOMAIN cache \subseteq Windows /\ Cardinality(DOMAIN cache) <= MaxEntries
    /\ DOMAIN flight \subseteq Windows /\ \A w \in DOMAIN flight : flight[w] \in Requests
    /\ \A r \in Requests : req[r] = Idle \/ (req[r].win \in Windows /\ req[r].day < Days)

\* One pull of a window at a time, however many tabs ask for it, and whoever
\* follows waits for one that is still to end (app.py:3106-3128).
OneFlight ==
    /\ \A r, s \in Pulling : req[r].win = req[s].win => r = s
    /\ \A r \in Following : req[r].win \in DOMAIN flight /\ flight[req[r].win] \in Pulling

\* A window whose pull brought something is not pulled again before Ttl has passed
\* since that pull began, unless the cache had no room for it (app.py:3014-3019).
PullsSpaced ==
    [][\A r \in Requests, w \in Windows :
        Lead(r, w) => w \notin DOMAIN good \/ now - good[w] >= Ttl]_vars

\* Each pull that runs when the breaker opens may fail once more, none twice
\* (litellm.py:1980-1985).
OpenMeansQuiet == late < Cardinality(Requests)
=============================================================================
