------------------------------- MODULE Board -------------------------------
(***************************************************************************)
(* The board of keys on the settings page: what LiteLLM says of a key, as  *)
(* last detected, and what an administrator put in its place (app.py:2589- *)
(* 2755, 2820-2899; db.py:2526-2660).                                      *)
(*                                                                         *)
(* LiteLLM's lookup is flaky, so a detection is kept: in memory, and in    *)
(* the table team_detect, which a restart reads back.  A request that asks *)
(* LiteLLM awaits the answer while others go on.  Any write to a table may *)
(* fail; only the assignment of a user looks whether it did.  The one read *)
(* of team_detect may fail too, and then passes for an empty table.        *)
(*                                                                         *)
(* The user id and the budget of a key are merged like its team and its    *)
(* name and tell no property apart from them; neither does its spend.      *)
(***************************************************************************)
EXTENDS Integers, FiniteSets

CONSTANTS Keys, Teams, Users, Requests

VARIABLES
    loaded,   \* _TEAMS_LOADED
    cache,    \* _TEAMS_DETECT_CACHE: a function from the keys detected
    detected, \* the table team_detect
    teamOvr,  \* the table key_teams
    userOvr,  \* the table key_user_ovr
    asking,   \* what each request awaits an answer for
    misread   \* history: the process failed to read a table that had rows

vars == <<loaded, cache, detected, teamOvr, userOvr, asking, misread>>
overrides == <<teamOvr, userOvr>>

Idle  == [kind |-> "idle", key |-> ""]
RawId == "3f2b-id"  \* an internal identifier where a name is expected

\* What one source says of a key, blank where it says nothing.
Info  == [team : Teams \cup {""}, name : Users \cup {""}]
Blank == [team |-> "", name |-> ""]
\* Rows that an earlier version of the program stored may hold an identifier.
Rows  == [team : Teams \cup {"", RawId}, name : Users \cup {""}]

Answer == [team : Teams \cup {"", RawId}, name : Users \cup {"", RawId}]
PartialOn(S, T) == UNION {[D -> T] : D \in SUBSET S}
\* None of the keys may be named: the call failed.
Lives == PartialOn(Keys, Answer)
\* top_keys of the snapshot carry a team and no name.
Snaps == {s \in Lives : \A k \in DOMAIN s : s[k].name = ""}

With(f, k, v) == [x \in DOMAIN f \cup {k} |-> IF x = k THEN v ELSE f[x]]
Without(f, k) == [x \in DOMAIN f \ {k} |-> f[x]]
At(f, k) == IF k \in DOMAIN f THEN f[k] ELSE Blank

Init ==
    /\ loaded = FALSE /\ cache = << >> /\ detected \in PartialOn(Keys, Rows)
    /\ teamOvr = << >> /\ userOvr = << >>
    /\ asking = [r \in Requests |-> Idle] /\ misread = FALSE

-----------------------------------------------------------------------------

\* An identifier is not a name.
Cleaned(i) == [team |-> IF i.team = RawId THEN "" ELSE i.team,
               name |-> IF i.name = RawId THEN "" ELSE i.name]

\* Mutant of Merged: the newest answer counts.
MergedNewest(old, new) == new

\* _merge_team: each field keeps what it has.
Merged(old, new) ==
    [team |-> IF old.team # "" THEN old.team ELSE new.team,
     name |-> IF old.name # "" THEN old.name ELSE new.name]

Folded(c, said) == [k \in DOMAIN c \cup DOMAIN said |->
                       IF k \in DOMAIN said THEN Merged(At(c, k), Cleaned(said[k])) ELSE c[k]]

\* The first request after a start reads the table, well or not, and none does again.
Reads == IF loaded THEN {TRUE} ELSE BOOLEAN

\* The cache as a request finds it: what it reads it takes without the identifiers it
\* may hold as teams.
Seeded(read) ==
    IF loaded \/ ~read \/ DOMAIN detected = {} THEN cache
    ELSE [k \in DOMAIN detected |-> [detected[k] EXCEPT !.team = Cleaned(detected[k]).team]]

\* It is the only one: what a read that failed did not bring in is never asked for again.
Open(read) ==
    /\ loaded' = TRUE
    /\ misread' = (misread \/ (~read /\ DOMAIN detected # {}))

\* The rows written on the way from one cache to another through a third: each
\* write is of a key that changed, and may fail.
Persist(old, mid, new) ==
    detected' \in {d \in PartialOn(Keys, Rows) :
        /\ DOMAIN d \subseteq DOMAIN detected \cup DOMAIN new
        /\ DOMAIN detected \subseteq DOMAIN d
        /\ \A k \in DOMAIN d :
              \/ k \in DOMAIN detected /\ d[k] = detected[k]
              \/ d[k] \in {At(mid, k), At(new, k)} \ {At(old, k)}}

\* The snapshot is folded in by every request that asks; after LiteLLM's answer,
\* where there is one.
FoldIn(read, live, snap) ==
    LET mid == Folded(Seeded(read), live)
        new == Folded(mid, snap)
    IN  /\ cache' = new
        /\ Persist(IF loaded \/ ~read THEN cache ELSE detected, mid, new)

\* GET /api/admin/teams that is served from the cache.
Load(read, snap) ==
    /\ DOMAIN Seeded(read) # {} /\ Open(read)
    /\ FoldIn(read, << >>, snap)
    /\ UNCHANGED <<overrides, asking>>

\* One that asks LiteLLM: the Refresh button, the sync icon of a key, or a board
\* that is empty.  The table is read before the call.
Ask(read, r, kind, k) ==
    /\ asking[r] = Idle /\ (kind = "load" => DOMAIN Seeded(read) = {})
    /\ Open(read)
    /\ FoldIn(read, << >>, << >>)
    /\ asking' = [asking EXCEPT ![r] = [kind |-> kind, key |-> k]]
    /\ UNCHANGED overrides

\* The answer.  A sync lets LiteLLM win: it drops the override of the key that it
\* finds then.
Answered(r, live, snap) ==
    /\ asking[r] # Idle /\ asking' = [asking EXCEPT ![r] = Idle]
    /\ FoldIn(TRUE, live, snap)
    /\ teamOvr' \in IF asking[r].kind = "sync" THEN {teamOvr, Without(teamOvr, asking[r].key)}
                    ELSE {teamOvr}
    /\ UNCHANGED <<loaded, userOvr, misread>>

\* POST /api/admin/teams: a team, or none.  Resetting a key drops it too.
AssignTeam(k, t) ==
    /\ teamOvr' = IF t = "" THEN Without(teamOvr, k) ELSE With(teamOvr, k, t)
    /\ UNCHANGED <<loaded, cache, detected, userOvr, asking, misread>>

KnownUsers == {cache[k].name : k \in DOMAIN cache} \ {""}

\* POST /api/admin/key-user: a user that some key is known to have, unless none is.
AssignUser(k, u) ==
    /\ u # "" /\ KnownUsers # {} => u \in KnownUsers
    /\ userOvr' = IF u = "" THEN Without(userOvr, k) ELSE With(userOvr, k, u)
    /\ UNCHANGED <<loaded, cache, detected, teamOvr, asking, misread>>

Restart ==
    /\ loaded' = FALSE /\ cache' = << >> /\ misread' = FALSE
    /\ asking' = [r \in Requests |-> Idle]
    /\ UNCHANGED <<detected, overrides>>

Next ==
    \/ \E read \in Reads, snap \in Snaps : Load(read, snap)
    \/ \E read \in Reads, r \in Requests, k \in Keys, kind \in {"load", "refresh", "sync"} : Ask(read, r, kind, k)
    \/ \E r \in Requests, live \in Lives, snap \in Snaps : Answered(r, live, snap)
    \/ \E k \in Keys, t \in Teams \cup {""} : AssignTeam(k, t)
    \/ \E k \in Keys, u \in Users \cup {""} : AssignUser(k, u)
    \/ Restart

Spec == Init /\ [][Next]_vars

-----------------------------------------------------------------------------
\* What is stored of a key, and what the board says of it, or will say once it is opened
\* again and the table read.
Stored(k) == Cleaned(At(detected, k))
Said(k)   == IF loaded THEN At(cache, k) ELSE Stored(k)

\* The row of the key could not be written, or the process began without it.
Behind(k) == loaded /\ Said(k) # Stored(k)

TypeOK ==
    /\ loaded \in BOOLEAN /\ misread \in BOOLEAN /\ cache \in PartialOn(Keys, Answer)
    /\ detected \in PartialOn(Keys, Rows)
    /\ teamOvr \in PartialOn(Keys, Teams) /\ userOvr \in PartialOn(Keys, Users)

\* A team or a user that was detected does not go blank again, whatever LiteLLM
\* answers, whoever asks at the same time, and over a restart, unless the write of
\* its row failed or the first request after the restart fails to read the table
\* (app.py:2583-2588, 2630-2643).
NeverBlinks ==
    [][\A k \in Keys : (Restart => ~Behind(k)) /\ (misread' => misread) =>
        /\ Said(k).team # "" => Said(k)'.team # ""
        /\ Said(k).name # "" => Said(k)'.name # ""]_vars

\* Nor is it blanked in the table, through failed writes and requests that answer out of
\* order, but by a process that failed to read it (app.py:2600-2616, 2634-2643).
StoredKept ==
    [][~misread' => \A k \in Keys :
        /\ Stored(k).team # "" => Stored(k)'.team # ""
        /\ Stored(k).name # "" => Stored(k)'.name # ""]_vars

\* No identifier is shown for a team or a user, not even one that an earlier
\* version stored (app.py:2601-2604, 2634-2642).
NamesOnly == \A k \in DOMAIN cache : cache[k] \in Info

\* What the docstring says of a restart, that it "shows the last known teams
\* immediately" (app.py:2628-2629): not when the read fails, and what the board then
\* merges is written over the rows.
RestartShowsLast ==
    [][\A k \in Keys : (Restart => ~Behind(k)) =>
        /\ Said(k).team # "" => Said(k)'.team # ""
        /\ Stored(k).team # "" => Stored(k)'.team # ""]_vars

\* What the comments say of Refresh: "a detected team only changes on an explicit
\* Refresh" and "let it WIN" (app.py:2588, 2745).  The code keeps the first team.
RefreshWins ==
    [][\A r \in Requests, live \in Lives, snap \in Snaps : Answered(r, live, snap) =>
        \A k \in DOMAIN live :
            Cleaned(live[k]).team # "" => At(cache', k).team = live[k].team]_vars
=============================================================================
