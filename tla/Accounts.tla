------------------------------ MODULE Accounts ------------------------------
(***************************************************************************)
(* User accounts and login sessions: the guarded writes of db.py (the last *)
(* admin can be neither deleted, disabled nor demoted), the session store  *)
(* of auth.py, and the handlers of app.py that keep the two in step.       *)
(*                                                                         *)
(* A handler runs on the event loop without an await from the point where  *)
(* it has read its form, so each is one step; what it read before that     *)
(* point (its session) may be stale when the step is taken.  An admin      *)
(* request is authorised before its form is read, or by the master token,  *)
(* so its step may come whoever is an admin by then.                       *)
(***************************************************************************)
EXTENDS Naturals, Sequences, FiniteSets

CONSTANTS Names,       \* user names
          Passwords,   \* passwords that satisfy the policy
          Sids,        \* session ids
          SessionMax,  \* SESSION_MAX
          BootName,    \* MONITOR_ADMIN_USER
          BootPassword \* MONITOR_ADMIN_PASSWORD

ASSUME AccountsAssumption ==
    /\ BootName \in Names /\ BootPassword \in Passwords /\ SessionMax \in Nat \ {0}

VARIABLES
    users,     \* the users table: a function from the names that have an account
    sessions,  \* _sessions, oldest first: every login gets the same time to live
    changing   \* sessions captured by password-change requests reading their form

vars == <<users, sessions, changing>>

Role    == {"admin", "viewer"}
User    == [pw : Passwords, role : Role, disabled : BOOLEAN, mustChange : BOOLEAN]
Session == [sid : Sids, user : Names, mustChange : BOOLEAN]

Live == {sessions[i] : i \in DOMAIN sessions}

\* The sessions that are in S, in their order.
InOrder(S) ==
    LET at == {i \in DOMAIN sessions : sessions[i] \in S}
    IN  [k \in 1..Cardinality(at) |->
            sessions[CHOOSE i \in at : Cardinality({j \in at : j <= i}) = k]]

Keep(S) == sessions' = InOrder(S)

\* Mutant of AdminLeft: the count is off by one.
AnyAdminLeft == Cardinality({m \in DOMAIN users : users[m].role = "admin"}) >= 1

\* _ADMIN_LEFT: the count over the whole table, disabled admins included.
AdminLeft == Cardinality({m \in DOMAIN users : users[m].role = "admin"}) > 1

\* The WHERE clause shared by the guarded writes.
Removable(n) == users[n].role # "admin" \/ AdminLeft

\* bootstrap_admin, at every start: only into an empty table.
Bootstrapped(table) ==
    IF DOMAIN table = {}
    THEN [n \in {BootName} |-> [pw |-> BootPassword, role |-> "admin",
                                disabled |-> FALSE, mustChange |-> FALSE]]
    ELSE table

Init == users = Bootstrapped(<< >>) /\ sessions = << >> /\ changing = {}

\* Sessions live in memory: a restart forgets them and their requests.
Restart == users' = Bootstrapped(users) /\ sessions' = << >> /\ changing' = {}

-----------------------------------------------------------------------------
\* Administration: POST /api/admin/users and /api/admin/users/action.
Create(n, pw, role) ==
    /\ n \notin DOMAIN users
    /\ users' = [m \in DOMAIN users \cup {n} |->
                   IF m = n THEN [pw |-> pw, role |-> role, disabled |-> FALSE, mustChange |-> TRUE]
                   ELSE users[m]]
    /\ UNCHANGED <<sessions, changing>>

DropSessions(n) == Keep({s \in Live : s.user # n})

Disable(n) ==
    /\ n \in DOMAIN users /\ Removable(n)
    /\ users' = [users EXCEPT ![n].disabled = TRUE]
    /\ DropSessions(n) /\ UNCHANGED changing

Enable(n) ==
    /\ n \in DOMAIN users
    /\ users' = [users EXCEPT ![n].disabled = FALSE]
    /\ UNCHANGED <<sessions, changing>>

Delete(n) ==
    /\ n \in DOMAIN users /\ Removable(n)
    /\ users' = [m \in DOMAIN users \ {n} |-> users[m]]
    /\ DropSessions(n) /\ UNCHANGED changing

Reset(n, pw) ==
    /\ n \in DOMAIN users
    /\ users' = [users EXCEPT ![n].pw = pw, ![n].mustChange = TRUE]
    /\ DropSessions(n) /\ UNCHANGED changing

\* force_reset and clear_reset: the password stays, the obligation is set or lifted.
SetMustChange(n, must) ==
    /\ n \in DOMAIN users
    /\ users' = [users EXCEPT ![n].mustChange = must]
    /\ DropSessions(n) /\ UNCHANGED changing

\* update: a change of role ends the target's sessions, but not the one asking.
Update(n, role, asking) ==
    /\ n \in DOMAIN users /\ (role = "admin" \/ Removable(n))
    /\ users' = [users EXCEPT ![n].role = role]
    /\ IF users[n].role = role THEN UNCHANGED sessions
       ELSE Keep({s \in Live : s.user # n \/ s.sid = asking})
    /\ UNCHANGED changing

-----------------------------------------------------------------------------

\* _sweep above the ceiling: the soonest to expire go first.
Swept == IF Len(sessions) > SessionMax
         THEN SubSeq(sessions, Len(sessions) - SessionMax + 1, Len(sessions))
         ELSE sessions

Login(n, pw, sid) ==
    /\ n \in DOMAIN users /\ ~users[n].disabled /\ users[n].pw = pw
    /\ \A s \in Live : s.sid # sid
    /\ \A s \in changing : s.sid # sid
    /\ sessions' = Append(Swept, [sid |-> sid, user |-> n, mustChange |-> users[n].mustChange])
    /\ UNCHANGED <<users, changing>>

Logout(sid) ==
    /\ Keep({s \in Live : s.sid # sid})
    /\ UNCHANGED <<users, changing>>

\* Every session expires SESSION_TTL_S after its login, the oldest first.
Expire == sessions # << >> /\ sessions' = Tail(sessions) /\ UNCHANGED <<users, changing>>

\* POST /api/account/password: the session is looked up, the form is awaited ...
BeginChange(s) ==
    /\ s \in Live
    /\ changing' = changing \cup {s}
    /\ UNCHANGED <<users, sessions>>

RefuseChange(s) == s \in changing /\ changing' = changing \ {s} /\ UNCHANGED <<users, sessions>>

\* Mutant of ChangePassword: the other sessions of the user stay.
ChangePasswordOnly(s, current, new) ==
    /\ s \in changing /\ s.user \in DOMAIN users
    /\ users[s.user].pw = current /\ new # current
    /\ users' = [users EXCEPT ![s.user].pw = new, ![s.user].mustChange = FALSE]
    /\ sessions' = [i \in DOMAIN sessions |->
                      IF sessions[i].sid = s.sid THEN [s EXCEPT !.mustChange = FALSE]
                      ELSE sessions[i]]
    /\ changing' = changing \ {s}

\* ... and the rest runs in one go, on the table and the store as they are now.
ChangePassword(s, current, new) ==
    /\ s \in changing /\ s.user \in DOMAIN users
    /\ users[s.user].pw = current /\ new # current
    /\ users' = [users EXCEPT ![s.user].pw = new, ![s.user].mustChange = FALSE]
    /\ LET kept == InOrder({t \in Live : t.user # s.user \/ t.sid = s.sid})
       IN  sessions' = [i \in DOMAIN kept |->
                          IF kept[i].sid = s.sid THEN [kept[i] EXCEPT !.mustChange = FALSE]
                          ELSE kept[i]]
    /\ changing' = changing \ {s}

Next ==
    \/ Restart \/ Expire
    \/ \E n \in Names :
        \/ Disable(n) \/ Enable(n) \/ Delete(n)
        \/ \E must \in BOOLEAN : SetMustChange(n, must)
        \/ \E role \in Role, sid \in Sids : Update(n, role, sid)
        \/ \E pw \in Passwords :
            \/ \E role \in Role : Create(n, pw, role)
            \/ Reset(n, pw)
            \/ \E sid \in Sids : Login(n, pw, sid)
    \/ \E sid \in Sids : Logout(sid)
    \/ \E s \in Session : BeginChange(s) \/ RefuseChange(s)
    \/ \E s \in changing, current \in Passwords, new \in Passwords :
          ChangePassword(s, current, new)

Spec == Init /\ [][Next]_vars

-----------------------------------------------------------------------------
TypeOK ==
    /\ DOMAIN users \subseteq Names /\ \A n \in DOMAIN users : users[n] \in User
    /\ Live \subseteq Session /\ changing \subseteq Session
    /\ \A i, j \in DOMAIN sessions : sessions[i].sid = sessions[j].sid => i = j
    /\ Len(sessions) <= SessionMax + 1

\* Whatever requests run concurrently, an account with the admin role is left
\* (db.py:2176-2182, app.py:1561-1564).
AdminRemains == \E n \in DOMAIN users : users[n].role = "admin"

\* Every open session belongs to an existing, enabled account (auth.py:123-128,
\* app.py:1568, 1574): what the middleware re-checks per request never differs.
SessionsHaveOwners ==
    \A s \in Live : s.user \in DOMAIN users /\ ~users[s.user].disabled

\* A session is gated to the password page exactly while its user owes a new
\* password, though the flag is stored in both places and requests that read
\* their session earlier are still running (app.py:1370-1373, 1576-1595).
GateInStep ==
    \A s \in Live : s.user \in DOMAIN users => s.mustChange = users[s.user].mustChange

\* "Never remove/disable/demote the last remaining admin" (app.py:1561), read as
\* it must be for anyone to administer the system: one that may still log in.
AdminCanLogIn == \E n \in DOMAIN users : users[n].role = "admin" /\ ~users[n].disabled
=============================================================================
