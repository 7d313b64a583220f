------------------------------ MODULE Lockout ------------------------------
(***************************************************************************)
(* The brute-force protection of app.py: failed attempts are counted per   *)
(* address (wrong tokens and wrong passwords) and per account (wrong       *)
(* passwords) in a sliding window, and MaxFails of them lock the address   *)
(* or the account for a while.  Whether a credential is valid is Gate's    *)
(* subject and an input here.                                              *)
(*                                                                         *)
(* Three places look at the same maps, each in its own order: the          *)
(* middleware tries the credential before the lock, the metrics page the   *)
(* lock before the credential, and the login form the lock of the address  *)
(* before it has read the form and everything else after, by the clock as  *)
(* it was before.                                                          *)
(***************************************************************************)
EXTENDS Naturals, Sequences, FiniteSets, SequencesExt

CONSTANTS Ips, Names,
          MaxFails, UserMaxFails, \* AUTH_MAX_FAILS, AUTH_USER_MAX_FAILS
          WindowS,                \* AUTH_WINDOW_S
          LockS, UserLockS,       \* AUTH_LOCKOUT_S, AUTH_USER_LOCKOUT_S
          DequeMax,               \* the maxlen of the deques of failures, 128
          PruneAt,                \* the size at which the maps are pruned, 4096
          MaxLogins,              \* bound: login forms being read at a time
          MaxNow                  \* bound: end of time

\* A deque shorter than the threshold would never reach it.
ASSUME LockoutAssumption ==
    /\ MaxFails \in 1..DequeMax /\ UserMaxFails \in 1..DequeMax
    /\ WindowS \in Nat /\ LockS \in Nat \ {0} /\ UserLockS \in Nat \ {0}

\* Addresses and accounts are locked in the same way.
Key == Ips \cup Names

VARIABLES
    now,
    book,    \* per key the failures counted, by when they began and when they
             \* ended (the latter is history), and the end of its lock, or 0
    logins,  \* login requests past the first check: [ip, at, id]
    \* History
    charges, \* the locks just set, each with its failures
    full,    \* the book as it would be if nothing were ever pruned
    older,   \* the logins that began before the book was last pruned
    slow     \* keys struck, since their slate was clean, by one of those, or by an
             \* attempt older than the last one counted; not kept in full

vars == <<now, book, logins, charges, full, older, slow>>

Threshold(k) == IF k \in Ips THEN MaxFails ELSE UserMaxFails
Sentence(k)  == IF k \in Ips THEN LockS ELSE UserLockS
Clean        == [began |-> << >>, ended |-> << >>, until |-> 0]

Init ==
    /\ now = 1 /\ logins = {} /\ charges = {} /\ older = {} /\ slow = {}
    /\ book = [k \in Key |-> Clean] /\ full = book

-----------------------------------------------------------------------------
Locked(b, k, at) == b[k].until > at

\* Mutant of Stale: the window does not slide.
NeverStale(e, at) == 0

\* How many failures leave at the head of the deque of an entry.
Stale(e, at) == Cardinality({i \in DOMAIN e.began : \A j \in 1..i : at > e.began[j] + WindowS})

Kept(e, q, at) == SubSeq(q, Stale(e, at) + 1, Len(q))

\* Whether a failure at time at locks the key.
Fills(b, k, at) == Len(Kept(b[k], b[k].began, at)) + 1 >= Threshold(k)

\* A failure, on each of the keys, of an attempt that began at time at.
Struck(b, keys, at) ==
    [k \in Key |->
        IF k \notin keys THEN b[k]
        ELSE IF Fills(b, k, at) THEN [Clean EXCEPT !.until = at + Sentence(k)]
        ELSE [b[k] EXCEPT !.began = Append(Kept(b[k], @, at), at),
                          !.ended = Append(Kept(b[k], @, at), now)]]

ChargesOf(b, keys, at) ==
    {[key |-> k, at |-> at, ends |-> Append(Kept(b[k], b[k].ended, at), now)] :
        k \in {k \in keys : Fills(b, k, at)}}

\* When a failure ended is not needed there, and nothing of the keys in late.
Unpruned(b, late) ==
    [k \in Key |-> IF k \in late THEN Clean
                   ELSE [began |-> b[k].began, ended |-> << >>, until |-> b[k].until]]

\* overtaken: the attempt began before the book was last pruned.
Strike(b, keys, at, overtaken) ==
    /\ book' = Struck(b, keys, at) /\ charges' = ChargesOf(b, keys, at)
    /\ slow' = slow \cup {k \in keys : \/ overtaken
                                       \/ full[k].began # << >> /\ at < Last(full[k].began)}
    /\ full' = Unpruned(Struck(full, keys, at), slow')

\* A success wipes the slate of the keys.
Wiped(b, keys) == [k \in Key |-> IF k \in keys THEN Clean ELSE b[k]]

Acquit(b, keys) ==
    /\ book' = Wiped(b, keys) /\ charges' = {}
    /\ full' = Wiped(full, keys) /\ slow' = slow \ keys

Refuse(b) == book' = b /\ charges' = {} /\ UNCHANGED <<full, slow>>

\* Mutant of Over: locks that are about to end go too.
OverEarly(e) == e.until <= now + 1

\* What _prune_auth_state takes: locks that are over, and deques whose last
\* failure has left the window.
Over(e) == e.until <= now
Idle(e) == e.began = << >> \/ now > Last(e.began) + WindowS

\* Empty deques, which the code counts too, are left out.
Size == Cardinality({k \in Key : book[k].until # 0}) + Cardinality({k \in Key : book[k].began # << >>})

Pruned ==
    IF Size < PruneAt THEN book
    ELSE [k \in Key |-> [until |-> IF Over(book[k]) THEN 0 ELSE book[k].until,
                         began |-> IF Idle(book[k]) THEN << >> ELSE book[k].began,
                         ended |-> IF Idle(book[k]) THEN << >> ELSE book[k].ended]]

Sweep == older' = IF Size < PruneAt THEN older ELSE {l \in logins : l.at < now}

-----------------------------------------------------------------------------
\* The middleware: prune, then the credential, then the lock.
ValidRequest(ip) == Sweep /\ Acquit(Pruned, {ip}) /\ UNCHANGED <<now, logins>>

\* Mutant of WrongToken: the failure is counted before the lock is looked at.
WrongTokenCounted(ip) == Sweep /\ Strike(Pruned, {ip}, now, FALSE) /\ UNCHANGED <<now, logins>>

WrongToken(ip) ==
    /\ Sweep
    /\ IF Locked(Pruned, ip, now) THEN Refuse(Pruned) ELSE Strike(Pruned, {ip}, now, FALSE)
    /\ UNCHANGED <<now, logins>>

\* No credential at all: sent to the login page, or refused.
NoToken == Sweep /\ Refuse(Pruned) /\ UNCHANGED <<now, logins>>

\* metrics_handler: a locked address is refused whatever it shows.
Scrape(ip, valid) ==
    /\ UNCHANGED <<now, logins, older>>
    /\ IF Locked(book, ip, now) THEN Refuse(book)
       ELSE IF valid THEN Acquit(book, {ip}) ELSE Strike(book, {ip}, now, FALSE)

\* login_submit_handler up to the form ...
BeginLogin(ip, id) ==
    /\ \A l \in logins : l.id # id
    /\ ~Locked(book, ip, now)
    /\ logins' = logins \cup {[ip |-> ip, at |-> now, id |-> id]}
    /\ Refuse(book) /\ UNCHANGED <<now, older>>

\* ... and from there on, by the clock of its beginning.
EndLogin(l, n, right) ==
    /\ logins' = logins \ {l} /\ older' = older \ {l} /\ UNCHANGED now
    /\ IF Locked(book, n, l.at) THEN Refuse(book)
       ELSE IF right THEN Acquit(book, {l.ip, n}) ELSE Strike(book, {l.ip, n}, l.at, l \in older)

Tick == now < MaxNow /\ now' = now + 1 /\ Refuse(book) /\ UNCHANGED <<logins, older>>

\* The maps are in memory.
Restart == Acquit(book, Key) /\ logins' = {} /\ older' = {} /\ UNCHANGED now

Next ==
    \/ Tick \/ Restart \/ NoToken
    \/ \E ip \in Ips : \/ ValidRequest(ip) \/ WrongToken(ip)
                       \/ \E valid \in BOOLEAN : Scrape(ip, valid)
                       \/ \E id \in 1..MaxLogins : BeginLogin(ip, id)
    \/ \E l \in logins, n \in Names, right \in BOOLEAN : EndLogin(l, n, right)

Spec == Init /\ [][Next]_vars

-----------------------------------------------------------------------------
TypeOK ==
    /\ now \in Nat /\ DOMAIN book = Key
    /\ \A k \in Key : /\ book[k].began \in Seq(1..now) /\ book[k].ended \in Seq(1..now)
                      /\ Len(book[k].began) = Len(book[k].ended)
                      /\ Len(book[k].began) < Threshold(k)
                      /\ book[k].until \in 0..(now + Sentence(k))
    /\ logins \subseteq [ip : Ips, at : 1..now, id : 1..MaxLogins]

\* Nothing is locked on fewer failures than its threshold, counted from the last
\* success, and none of them had ended more than a window before the last of them
\* began: although attempts do not end in the order in which they began, and the
\* deque is cut at its head only (app.py:980-987, 1270-1290).
LockOnEvidence ==
    \A c \in charges :
        /\ Len(c.ends) >= Threshold(c.key)
        /\ \A i \in DOMAIN c.ends : c.ends[i] + WindowS >= c.at

\* The types, and that nothing is locked without cause.
LocksJustified == TypeOK /\ LockOnEvidence

\* Trying a locked door does not keep it locked: while a lock lasts nothing
\* prolongs the lock of an account, and only a login that had begun before it
\* prolongs that of an address (app.py:954-958, 1248-1251, 1258-1261).
LockNotProlonged ==
    [][\A k \in Key : Locked(book, k, now) /\ book'[k].until > book[k].until =>
         \E l \in logins \ logins' : l.ip = k]_vars

\* The clocks by which something may yet be judged: that of now, and those of the
\* logins that began after the book was last pruned.
Clocks == {now} \cup {l.at : l \in logins \ older}

\* Pruning frees nobody and takes no failure that still counts: the next attempt is
\* judged, and counts, as it would in a book that was never pruned, on every key but
\* those a late attempt has struck (app.py:841-853, 1249, 1258-1261, 1273-1290).  A
\* login that began before the book was last pruned is excepted too: it is judged by
\* its own clock, at which a lock or a failure that was pruned may still have counted.
PruneIsInvisible ==
    \A k \in Key \ slow : \A at \in Clocks :
        /\ Locked(book, k, at) = Locked(full, k, at)
        /\ Fills(book, k, at) = Fills(full, k, at)
=============================================================================
