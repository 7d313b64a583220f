-------------------------------- MODULE Gate --------------------------------
(***************************************************************************)
(* What a request may reach: the credentials a request can carry (a login  *)
(* session, the shared dashboard token or the cookie it is swapped for, a  *)
(* personal access token), what _auth_ctx makes of them, and the rules of  *)
(* _auth_mw and of the cost redaction.  The tables they are read from are  *)
(* those of Accounts, with the api_tokens table added to them.             *)
(*                                                                         *)
(* A request is judged in one step on the tables as they are, so a verdict *)
(* is a function of the state.  Judging writes nothing: the one session it *)
(* would drop belongs to a missing or disabled account, and there is none  *)
(* (SessionsHaveOwners).  Creating a token is two steps: its session is    *)
(* looked up, the form is awaited, the row is inserted.                    *)
(***************************************************************************)
EXTENDS Accounts

CONSTANTS Tids,      \* secrets of personal access tokens
          Cids,      \* ids of the cookies handed out for the shared token
          MaxTokens, \* _MAX_TOKENS_PER_USER
          MaxForms   \* bound: forms being read at a time

\* A secret or an id that was drawn is never the shared token, nor missing.
ASSUME GateAssumption ==
    /\ MaxTokens \in Nat \ {0} /\ MaxForms \in Nat
    /\ {"shared", "none"} \cap Tids = {} /\ "none" \notin Cids \cup Sids

VARIABLES
    tokens,  \* the api_tokens table: a function from the secrets in use
    minting, \* sessions whose token-creation requests are reading their form
    cookies  \* _token_sessions

gateVars == <<users, sessions, changing, tokens, minting, cookies>>

\* late: the session that asked for it had ended when the row was inserted.
Token == [owner : Names, role : Role, late : BOOLEAN]
\* What a request carries: a session cookie, one token in the header or the address,
\* a cookie for the shared token, in every combination.
Creds == [sid : Sids \cup {"none"}, bearer : Tids \cup {"shared", "none"},
          cookie : Cids \cup {"none"}]
Paths == {"open", "account", "plain", "spend", "alerts", "admin"}

Owned(n) == {t \in DOMAIN tokens : tokens[t].owner = n}
Without(gone) == [t \in DOMAIN tokens \ gone |-> tokens[t]]

GateInit == Init /\ tokens = << >> /\ minting = {} /\ cookies = {}

-----------------------------------------------------------------------------
\* _auth_ctx: who stands behind a request, in the order in which it asks.
SessionOf(c) == {s \in Live : s.sid = c.sid /\ s.user \in DOMAIN users /\ ~users[s.user].disabled}
ShowsShared(c) == c.bearer = "shared" \/ c.cookie \in cookies

\* api_token_lookup: an enabled owner is part of the query.
PatOf(c) == {t \in DOMAIN tokens : /\ t = c.bearer /\ tokens[t].owner \in DOMAIN users
                                   /\ ~users[tokens[t].owner].disabled}

\* Mutant of TokenRole: the role the token was created with.
StoredRole(t) == tokens[t].role

\* The lower of the token's role and its owner's present one.
TokenRole(t) == IF tokens[t].role = "admin" /\ users[tokens[t].owner].role = "admin"
                THEN "admin" ELSE "viewer"

RoleOf(c) == IF SessionOf(c) # {} THEN (CHOOSE r \in Role : \E s \in SessionOf(c) : users[s.user].role = r)
             ELSE IF ShowsShared(c) THEN "admin"
             ELSE IF PatOf(c) # {} THEN TokenRole(c.bearer)
             ELSE "none"

\* Mutant of OnlyShared: the cookie does not count as the shared token.
OnlySharedBearer(c) == SessionOf(c) = {} /\ PatOf(c) = {} /\ c.bearer = "shared"

\* _is_master_token_auth
OnlyShared(c) == SessionOf(c) = {} /\ PatOf(c) = {} /\ ShowsShared(c)

\* _effective_role: what the readers of cost and of container names go by.
EffectiveRole(c) == IF RoleOf(c) = "admin" /\ OnlyShared(c) THEN "viewer" ELSE RoleOf(c)

MustChange(c) == \E s \in SessionOf(c) : s.mustChange

\* _auth_mw in open mode, without and with SPEND_REQUIRE_ADMIN.
ServedOpen(p, spendAdmin) == p \notin {"alerts", "admin"} /\ (p = "spend" => ~spendAdmin)

\* _auth_mw otherwise.
Served(c, p, spendAdmin) ==
    \/ p = "open"
    \/ /\ RoleOf(c) # "none"
       /\ MustChange(c) => p = "account"
       /\ p \in {"alerts", "admin"} => ~OnlyShared(c)
       /\ p = "admin" => RoleOf(c) = "admin"
       /\ p = "spend" /\ spendAdmin => RoleOf(c) = "admin" /\ ~OnlyShared(c)

-----------------------------------------------------------------------------

RoomFor(n) == Cardinality(Owned(n)) < MaxTokens

\* POST /api/account/tokens: the count is taken before the form is read ...
BeginMint(s) ==
    /\ s \in Live /\ ~s.mustChange /\ RoomFor(s.user)
    /\ Cardinality(minting \cup changing) < MaxForms
    /\ minting' = minting \cup {s}
    /\ UNCHANGED <<users, sessions, changing, tokens, cookies>>

AbandonMint(s) ==
    /\ s \in minting /\ minting' = minting \ {s}
    /\ UNCHANGED <<users, sessions, changing, tokens, cookies>>

\* The role is capped by the table, not by the session.
GrantedRole(n, want) == IF n \in DOMAIN users /\ users[n].role = "admin" THEN want ELSE "viewer"

\* ... and the row goes in whatever has become of the account and the session.
Mint(s, tid, want) ==
    /\ s \in minting /\ tid \notin DOMAIN tokens
    /\ tokens' = [t \in DOMAIN tokens \cup {tid} |->
                    IF t # tid THEN tokens[t]
                    ELSE [owner |-> s.user, role |-> GrantedRole(s.user, want),
                          late |-> ~\E l \in Live : l.sid = s.sid]]
    /\ minting' = minting \ {s}
    /\ UNCHANGED <<users, sessions, changing, cookies>>

\* POST /api/account/tokens/revoke, by its owner.
RevokeToken(tid) ==
    /\ tid \in DOMAIN tokens /\ tokens' = Without({tid})
    /\ UNCHANGED <<users, sessions, changing, minting, cookies>>

\* A page asked for with ?token= and no cookie: _maybe_cookie_redirect.
SwapForCookie(cid) ==
    /\ cid \notin cookies /\ cookies' = cookies \cup {cid}
    /\ UNCHANGED <<users, sessions, changing, tokens, minting>>

\* Cookies end by logout, seven days later, or when there are too many of them.
DropCookie(cid) ==
    /\ cid \in cookies /\ cookies' = cookies \ {cid}
    /\ UNCHANGED <<users, sessions, changing, tokens, minting>>

GateRestart == Restart /\ minting' = {} /\ cookies' = {} /\ UNCHANGED tokens

-----------------------------------------------------------------------------
\* Mutant of CutTokens: only the sessions end.
SpareTokens(n) == UNCHANGED tokens

\* api_tokens_revoke_all, and the cascade of user_delete_guarded.
CutTokens(n) == tokens' = Without(Owned(n))

\* The account changes that touch the tokens, and those that leave them alone.
CutsTokens(n) ==
    /\ Delete(n) \/ SetMustChange(n, TRUE) \/ \E pw \in Passwords : Reset(n, pw)
    /\ CutTokens(n)

LeavesTokens(n) ==
    /\ \/ Disable(n) \/ Enable(n) \/ SetMustChange(n, FALSE)
       \/ \E role \in Role, sid \in Sids : Update(n, role, sid)
       \/ \E pw \in Passwords :
            \/ \E role \in Role : Create(n, pw, role)
            \/ \E sid \in Sids : (\A s \in minting : s.sid # sid) /\ Login(n, pw, sid)
    /\ UNCHANGED tokens

SessionStep ==
    /\ \/ Expire
       \/ \E sid \in Sids : Logout(sid)
       \/ \E s \in Live : Cardinality(minting \cup changing) < MaxForms /\ BeginChange(s)
       \/ \E s \in changing : RefuseChange(s)
       \/ \E s \in changing, current \in Passwords, new \in Passwords :
             ChangePassword(s, current, new)
    /\ UNCHANGED tokens

GateNext ==
    \/ GateRestart
    \/ /\ SessionStep \/ \E n \in Names : CutsTokens(n) \/ LeavesTokens(n)
       /\ UNCHANGED <<minting, cookies>>
    \/ \E s \in Live : BeginMint(s)
    \/ \E s \in minting : AbandonMint(s) \/ \E tid \in Tids, want \in Role : Mint(s, tid, want)
    \/ \E tid \in Tids : RevokeToken(tid)
    \/ \E cid \in Cids : SwapForCookie(cid) \/ DropCookie(cid)

GateSpec == GateInit /\ [][GateNext]_gateVars

-----------------------------------------------------------------------------
GateTypeOK ==
    /\ TypeOK
    /\ DOMAIN tokens \subseteq Tids /\ \A t \in DOMAIN tokens : tokens[t] \in Token
    /\ minting \subseteq Session /\ cookies \subseteq Cids

\* The request shows the credential of n, whose account is enabled now.
Vouches(n, c) ==
    /\ n \in DOMAIN users /\ ~users[n].disabled
    /\ (\E s \in Live : s.sid = c.sid /\ s.user = n) \/ c.bearer \in Owned(n)

\* A personal token shown beside a cookie for the shared token, and no session.  The
\* role is then the cookie's, "admin", for _auth_ctx asks for the shared token first
\* (app.py:763-764); _is_master_token_auth asks for the personal one first, and does
\* not count it as the shared token (app.py:779-780).
TokenBesideCookie(c) == SessionOf(c) = {} /\ PatOf(c) # {} /\ ShowsShared(c)

\* Whoever is let into the administration, or shown cost figures when these are
\* for administrators, shows a session or a token of someone who is an enabled
\* administrator now: a demotion, a disabled account and a deleted one take
\* effect at once, on sessions kept and on tokens minted before (app.py:784-799,
\* 1596-1601, db.py:2941-2945).  The one exception is a personal token beside a
\* cookie for the shared one: its owner is enabled, and may be a viewer.
AdminsOnly ==
    \A c \in Creds :
        Served(c, "admin", TRUE) \/ Served(c, "spend", TRUE) \/ EffectiveRole(c) = "admin" =>
            \E n \in Names : Vouches(n, c) /\ (users[n].role = "admin" \/ TokenBesideCookie(c))

\* The same request without the shared token.
Unshared(c) == [c EXCEPT !.cookie = "none", !.bearer = IF @ = "shared" THEN "none" ELSE @]

\* The shared token beside another credential changes nothing of what that reaches.
AddsNothing(c) ==
    /\ EffectiveRole(c) = EffectiveRole(Unshared(c))
    /\ \A p \in Paths : Served(c, p, TRUE) = Served(Unshared(c), p, TRUE)
    /\ Served(c, "spend", FALSE) = Served(Unshared(c), "spend", FALSE)

\* The shared token and the cookies it was swapped for open neither the alert
\* settings nor the administration and see no cost (app.py:771-777, 1013-1018), and
\* they add nothing to a login session.
SharedTokenKeptOut ==
    \A c \in Creds :
        /\ SessionOf(c) = {} /\ PatOf(c) = {} =>
              /\ EffectiveRole(c) # "admin"
              /\ \A p \in {"alerts", "admin"} : ~Served(c, p, FALSE)
        /\ SessionOf(c) # {} /\ ShowsShared(c) => AddsNothing(c)

\* "withheld from it" (app.py:771-777): the shared token adds nothing to a personal
\* token either.  The code does not have this (TokenBesideCookie): no run checks it.
SharedTokenAddsNothing ==
    \A c \in Creds : (SessionOf(c) # {} \/ PatOf(c) # {}) /\ ShowsShared(c) => AddsNothing(c)

\* Someone who owes a new password reaches nothing but the page to set it: neither
\* by a session nor by a token, which knows nothing of the obligation
\* (app.py:1005-1012, 1583, 1591).  Only a token whose creation was under way when
\* its session was ended escapes.
MustChangeConfines ==
    \A n \in DOMAIN users : users[n].mustChange =>
        /\ \A t \in Owned(n) : tokens[t].late
        /\ \A c \in Creds : (\E s \in SessionOf(c) : s.user = n) => ~Served(c, "plain", FALSE)

\* No token outlives its account, save one that was being created when it was
\* deleted (db.py:2187-2198).
TokensHaveOwners ==
    \A t \in DOMAIN tokens : tokens[t].owner \in DOMAIN users \/ tokens[t].late

\* The limit is checked before the form is read: what is created at once may
\* exceed it, by no more than the other requests under way (app.py:1401-1403).
TokenLimit ==
    \A n \in Names : Cardinality(Owned(n)) < MaxTokens + MaxForms

\* Sessions, tokens and the requests under way are in step with the accounts they act
\* for: no copy of an account outlives a change of it (app.py:1385-1438, 1550-1617,
\* auth.py:91-128).
CredentialsInStep ==
    GateTypeOK /\ SessionsHaveOwners /\ GateInStep /\ TokensHaveOwners /\ TokenLimit

\* "a reset must also cut PAT (API) access" (app.py:1583): whoever owes a new
\* password has no token.
ResetCutsTokens == \A n \in DOMAIN users : users[n].mustChange => Owned(n) = {}
=============================================================================
