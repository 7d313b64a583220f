----------------------------- MODULE GateProofs -----------------------------
(***************************************************************************)
(* What the accounts and the gate in front of them promise, for every set  *)
(* of names, sessions, secrets and cookies and every limit.  First the     *)
(* accounts by themselves: the last-admin guard holds however requests     *)
(* interleave (the table is finite although the names are not bounded:     *)
(* that is what gives the COUNT of the guard a meaning), and the session   *)
(* store stays in step with the table.  The gate only runs the account     *)
(* operations, so what is proved of those holds under it, and on top of    *)
(* that the tokens and the requests that are creating some stay in step    *)
(* with the accounts.  The verdicts of the middleware follow from the      *)
(* state as it is.                                                         *)
(***************************************************************************)
EXTENDS Gate, FiniteSetTheorems, SequenceTheorems, TLAPS

IInv == /\ users \in [DOMAIN users -> User]
        /\ IsFiniteSet(DOMAIN users)
        /\ AdminRemains

\* What the guard of db.py:2183 gives its caller: whoever is taken away, some
\* other admin stays.
LEMMA AnotherAdmin ==
  ASSUME IsFiniteSet(DOMAIN users), AdminRemains, NEW n \in DOMAIN users, Removable(n)
  PROVE  \E m \in DOMAIN users \ {n} : users[m].role = "admin"
<1> DEFINE A == {m \in DOMAIN users : users[m].role = "admin"}
<1>1. CASE users[n].role # "admin"
  BY <1>1 DEF AdminRemains
<1>2. CASE users[n].role = "admin"
  <2>1. IsFiniteSet(A) /\ n \in A
    BY <1>2, FS_Subset, A \in SUBSET DOMAIN users
  <2>2. Cardinality(A) > 1
    BY <1>2 DEF Removable, AdminLeft
  <2>3. IsFiniteSet(A \ {n}) /\ Cardinality(A \ {n}) = Cardinality(A) - 1
    BY <2>1, FS_RemoveElement
  <2>4. A \ {n} # {}
    BY <2>1, <2>2, <2>3, FS_EmptySet, FS_CardinalityType
  <2>5. QED BY <2>4
<1>3. QED BY <1>1, <1>2

\* The bootstrapped row is an account with the admin role (auth.py:160).
LEMMA BootRow ==
  ASSUME NEW t, t = [n \in {BootName} |-> [pw |-> BootPassword, role |-> "admin",
                                           disabled |-> FALSE, mustChange |-> FALSE]]
  PROVE  /\ t \in [DOMAIN t -> User] /\ IsFiniteSet(DOMAIN t)
         /\ \E n \in DOMAIN t : t[n].role = "admin"
BY AccountsAssumption, FS_Singleton DEF AccountsAssumption, User, Role

\* The first state has the bootstrapped admin.
LEMMA InitIInv == Init => IInv
<1>1. DOMAIN << >> = {}
  OBVIOUS
<1>2. QED BY <1>1, BootRow DEF Init, Bootstrapped, IInv, AdminRemains

\* A write to the other columns of an account leaves the roles as they are.
LEMMA OtherColumns ==
  ASSUME IInv, NEW n \in DOMAIN users, NEW u \in User, u.role = users[n].role,
         users' = [users EXCEPT ![n] = u]
  PROVE  IInv'
<1>1. DOMAIN users' = DOMAIN users /\ users' \in [DOMAIN users -> User]
  BY DEF IInv
<1>2. \A m \in DOMAIN users : users'[m].role = users[m].role
  BY <1>1 DEF IInv
<1>3. QED BY <1>1, <1>2 DEF IInv, AdminRemains

\* Every request, login, expiry and restart leaves an admin.
LEMMA NextIInv == IInv /\ [Next]_vars => IInv'
<1> SUFFICES ASSUME IInv, [Next]_vars PROVE IInv'
  OBVIOUS
<1> USE DEF IInv
<1>1. CASE UNCHANGED users
  BY <1>1 DEF AdminRemains
<1>2. ASSUME Restart PROVE IInv'
  <2>1. DOMAIN users # {}
    BY DEF AdminRemains
  <2>2. users' = users
    BY <1>2, <2>1 DEF Restart, Bootstrapped
  <2>3. QED BY <2>2, <1>1
<1>3. ASSUME NEW n \in Names, Disable(n) \/ Enable(n) PROVE IInv'
  <2>1. n \in DOMAIN users /\ users[n] \in User
    BY <1>3 DEF Disable, Enable
  <2>2. PICK d \in BOOLEAN : users' = [users EXCEPT ![n] = [users[n] EXCEPT !.disabled = d]]
    BY <1>3 DEF Disable, Enable
  <2>3. [users[n] EXCEPT !.disabled = d] \in User /\ [users[n] EXCEPT !.disabled = d].role = users[n].role
    BY <2>1 DEF User
  <2>4. QED BY <2>1, <2>2, <2>3, OtherColumns
<1>4. ASSUME NEW n \in Names, Delete(n) PROVE IInv'
  <2>1. /\ n \in DOMAIN users /\ Removable(n)
        /\ users' = [m \in DOMAIN users \ {n} |-> users[m]]
    BY <1>4 DEF Delete
  <2>2. PICK m \in DOMAIN users \ {n} : users[m].role = "admin"
    BY <2>1, AnotherAdmin
  <2>3. IsFiniteSet(DOMAIN users \ {n})
    BY FS_Subset
  <2>4. QED BY <2>1, <2>2, <2>3 DEF AdminRemains
<1>5. ASSUME NEW n \in Names, NEW must \in BOOLEAN, SetMustChange(n, must) PROVE IInv'
  <2>1. n \in DOMAIN users /\ users[n] \in User
    BY <1>5 DEF SetMustChange
  <2>2. users' = [users EXCEPT ![n] = [users[n] EXCEPT !.mustChange = must]]
    BY <1>5 DEF SetMustChange
  <2>3. [users[n] EXCEPT !.mustChange = must] \in User /\ [users[n] EXCEPT !.mustChange = must].role = users[n].role
    BY <2>1 DEF User
  <2>4. QED BY <2>1, <2>2, <2>3, OtherColumns
<1>6. ASSUME NEW n \in Names, NEW role \in Role, NEW sid \in Sids, Update(n, role, sid)
      PROVE  IInv'
  <2>1. /\ n \in DOMAIN users /\ (role = "admin" \/ Removable(n))
        /\ users' = [users EXCEPT ![n] = [users[n] EXCEPT !.role = role]]
    BY <1>6 DEF Update
  <2>2. /\ [users[n] EXCEPT !.role = role] \in User
        /\ [users[n] EXCEPT !.role = role].role = role
    BY <2>1 DEF User
  <2>3. DOMAIN users' = DOMAIN users /\ users' \in [DOMAIN users -> User]
    BY <2>1, <2>2
  <2>4. CASE role = "admin"
    <3>1. users'[n].role = "admin"
      BY <2>1, <2>2, <2>4
    <3>2. QED BY <2>1, <2>3, <3>1 DEF AdminRemains
  <2>5. CASE Removable(n)
    <3>1. PICK m \in DOMAIN users \ {n} : users[m].role = "admin"
      BY <2>1, <2>5, AnotherAdmin
    <3>2. users'[m].role = "admin"
      BY <2>1, <3>1
    <3>3. QED BY <2>3, <3>1, <3>2 DEF AdminRemains
  <2>6. QED BY <2>1, <2>4, <2>5
<1>7. ASSUME NEW n \in Names, NEW pw \in Passwords, NEW role \in Role, Create(n, pw, role)
      PROVE  IInv'
  <2>1. /\ n \notin DOMAIN users
        /\ users' = [m \in DOMAIN users \cup {n} |->
              IF m = n THEN [pw |-> pw, role |-> role, disabled |-> FALSE, mustChange |-> TRUE]
              ELSE users[m]]
    BY <1>7 DEF Create
  <2>2. IsFiniteSet(DOMAIN users \cup {n})
    BY FS_AddElement
  <2>3. PICK m \in DOMAIN users : users[m].role = "admin"
    BY DEF AdminRemains
  <2>4. m \in DOMAIN users' /\ users'[m].role = "admin"
    BY <2>1, <2>3
  <2>5. [pw |-> pw, role |-> role, disabled |-> FALSE, mustChange |-> TRUE] \in User
    BY DEF User
  <2>6. QED BY <2>1, <2>2, <2>4, <2>5 DEF AdminRemains
<1>8. ASSUME NEW n \in Names, NEW pw \in Passwords, Reset(n, pw) PROVE IInv'
  <2>1. n \in DOMAIN users /\ users[n] \in User
    BY <1>8 DEF Reset
  <2> DEFINE u == [[users[n] EXCEPT !.pw = pw] EXCEPT !.mustChange = TRUE]
  <2>2. users' = [users EXCEPT ![n] = u]
    BY <1>8, <2>1 DEF Reset
  <2>3. u \in User /\ u.role = users[n].role
    BY <2>1 DEF User
  <2>4. QED BY <2>1, <2>2, <2>3, OtherColumns
<1>9. ASSUME NEW s \in changing, NEW current \in Passwords, NEW new \in Passwords,
             ChangePassword(s, current, new)
      PROVE  IInv'
  <2>1. s.user \in DOMAIN users /\ users[s.user] \in User
    BY <1>9 DEF ChangePassword
  <2> DEFINE u == [[users[s.user] EXCEPT !.pw = new] EXCEPT !.mustChange = FALSE]
  <2>2. users' = [users EXCEPT ![s.user] = u]
    BY <1>9, <2>1 DEF ChangePassword
  <2>3. u \in User /\ u.role = users[s.user].role
    BY <2>1 DEF User
  <2>4. QED BY <2>1, <2>2, <2>3, OtherColumns
<1>10. ASSUME Expire \/ (\E n \in Names, pw \in Passwords, sid \in Sids : Login(n, pw, sid))
              \/ (\E sid \in Sids : Logout(sid))
              \/ (\E s \in Session : BeginChange(s) \/ RefuseChange(s))
       PROVE  IInv'
  BY <1>1, <1>10 DEF Expire, Login, Logout, BeginChange, RefuseChange
<1>11. CASE UNCHANGED vars
  BY <1>1, <1>11 DEF vars
<1>12. QED
  BY <1>2, <1>3, <1>4, <1>5, <1>6, <1>7, <1>8, <1>9, <1>10, <1>11 DEF Next

\* Whatever administrators do at once, and however often the process restarts,
\* an account with the admin role is left (db.py:2176-2182).
THEOREM LastAdminStays == Spec => []AdminRemains
<1>1. IInv => AdminRemains
  BY DEF IInv
<1>2. QED BY <1>1, InitIInv, NextIInv, PTL DEF Spec

-----------------------------------------------------------------------------
\* A store of sessions: no two of them have the same id.
Store(q) == q \in Seq(Session) /\ \A i, j \in DOMAIN q : q[i].sid = q[j].sid => i = j
In(q)    == {q[i] : i \in DOMAIN q}

\* Taking sessions out of the store leaves the others, in a store
\* (auth.py:118-128).
LEMMA InOrderIsStore ==
  ASSUME Store(sessions), NEW S
  PROVE  /\ Store(InOrder(S)) /\ In(InOrder(S)) = Live \cap S
         /\ Len(InOrder(S)) \in Nat /\ Len(InOrder(S)) <= Len(sessions)
<1> DEFINE L == Len(sessions)
           at == {i \in DOMAIN sessions : sessions[i] \in S}
           N == Cardinality(at)
           upTo(i) == {j \in at : j <= i}
           rank(i) == Cardinality(upTo(i))
           pos(k) == CHOOSE i \in at : rank(i) = k
           r == [k \in 1..N |-> sessions[pos(k)]]
<1>1. /\ L \in Nat /\ DOMAIN sessions = 1..L /\ at \in SUBSET (1..L)
      /\ \A i \in 1..L : sessions[i] \in Session
  BY DEF Store
<1>2. InOrder(S) = r
  BY DEF InOrder
<1>3. IsFiniteSet(at) /\ N \in Nat /\ N <= L
  <2>1. IsFiniteSet(1..L) /\ Cardinality(1..L) = L
    BY <1>1, FS_Interval
  <2>2. IsFiniteSet(at) /\ N <= L
    <3>1. at \in SUBSET (1..L)
      BY <1>1
    <3> HIDE DEF at, L
    <3> QED
      BY <2>1, <3>1, FS_Subset
  <2>3. N \in Nat
    BY <2>2, FS_CardinalityType
  <2> QED
    BY <2>2, <2>3
<1>4. ASSUME NEW i \in at PROVE IsFiniteSet(upTo(i)) /\ rank(i) \in 1..N
  <2>1. upTo(i) \in SUBSET at /\ i \in upTo(i)
    BY <1>1
  <2>2. IsFiniteSet(upTo(i)) /\ rank(i) \in Nat /\ rank(i) <= N
    BY <2>1, <1>3, FS_Subset, FS_CardinalityType
  <2>3. rank(i) # 0
    BY <2>1, <2>2, FS_EmptySet
  <2> QED
    BY <2>2, <2>3, <1>3
<1>5. ASSUME NEW i \in at, NEW j \in at, i < j PROVE rank(i) # rank(j)
  <2>1. upTo(i) \in SUBSET upTo(j) /\ j \in upTo(j) /\ j \notin upTo(i)
    BY <1>1, <1>5
  <2> QED
    BY <2>1, <1>4, FS_Subset
<1>6. ASSUME NEW i \in at, NEW j \in at, rank(i) = rank(j) PROVE i = j
  <2>1. i \in Int /\ j \in Int
    BY <1>1
  <2> HIDE DEF rank
  <2> QED
    BY <1>5, <1>6, <2>1
<1>7. ASSUME NEW k \in 1..N PROVE \E i \in at : rank(i) = k
  <2> DEFINE f == [i \in at |-> rank(i)]
  <2>1. f \in Injection(at, 1..N)
    BY <1>4, <1>6 DEF Injection, IsInjective
  <2>2. IsFiniteSet(1..N) /\ Cardinality(1..N) = N
    BY <1>3, FS_Interval
  <2>3. f \in Surjection(at, 1..N)
    BY <2>1, <2>2, FS_Injection
  <2> QED
    BY <2>3 DEF Surjection
<1>8. \A k \in 1..N : pos(k) \in at /\ rank(pos(k)) = k
  BY <1>7
<1>9. \A i \in at : pos(rank(i)) = i
  BY <1>4, <1>6, <1>8
<1>10. \A i \in at : rank(i) \in 1..N
  BY <1>4
<1> HIDE DEF rank, pos, N
<1>11. r \in Seq(Session) /\ Len(r) = N /\ DOMAIN r = 1..N
  BY <1>1, <1>3, <1>8
<1>12. In(r) = {sessions[i] : i \in at}
  BY <1>8, <1>9, <1>10, <1>11 DEF In
<1>13. Store(r)
  <2> SUFFICES ASSUME NEW k \in 1..N, NEW m \in 1..N, r[k].sid = r[m].sid PROVE k = m
    BY <1>11 DEF Store
  <2>1. pos(k) = pos(m)
    BY <1>1, <1>8 DEF Store
  <2> QED
    BY <2>1, <1>8
<1>14. In(r) = Live \cap S
  BY <1>12 DEF Live
<1> HIDE DEF r
<1> QED
  BY <1>2, <1>3, <1>11, <1>13, <1>14

\* A tail of a store is a store (auth.py:83-88, 112-114).
LEMMA TailIsStore ==
  ASSUME Store(sessions), NEW m \in 1..(Len(sessions) + 1)
  PROVE  LET r == SubSeq(sessions, m, Len(sessions))
         IN  Store(r) /\ In(r) \subseteq Live /\ Len(r) = Len(sessions) - m + 1
<1> DEFINE L == Len(sessions)
           r == SubSeq(sessions, m, L)
<1>1. /\ L \in Nat /\ DOMAIN sessions = 1..L /\ m \in Int /\ L \in Int /\ m >= 1 /\ m <= L + 1
      /\ \A i \in m..L : sessions[i] \in Session
  BY DEF Store
<1>2. /\ r \in Seq(Session) /\ Len(r) = L - m + 1 /\ DOMAIN r = 1..(L - m + 1)
      /\ \A i \in 1..(L - m + 1) : r[i] = sessions[m + i - 1]
  BY <1>1, SubSeqProperties
<1> HIDE DEF r
<1>3. \A i \in 1..(L - m + 1) : m + i - 1 \in 1..L
  BY <1>1
<1>4. Store(r)
  <2> SUFFICES ASSUME NEW i \in 1..(L - m + 1), NEW j \in 1..(L - m + 1), r[i].sid = r[j].sid
               PROVE  i = j
    BY <1>2 DEF Store
  <2>1. \A x, y \in 1..L : sessions[x].sid = sessions[y].sid => x = y
    BY <1>1 DEF Store
  <2>2. sessions[m + i - 1].sid = sessions[m + j - 1].sid
    BY <1>2
  <2>3. m + i - 1 = m + j - 1
    BY <1>3, <2>1, <2>2
  <2> QED
    BY <2>3, <1>1
<1>5. In(r) \subseteq Live
  BY <1>1, <1>2, <1>3 DEF In, Live
<1> QED
  BY <1>2, <1>4, <1>5 DEF r

-----------------------------------------------------------------------------
\* The store and the table say the same of every session, and a request that
\* captured a session before its form was read captured that one and no other.
SessionsInv ==
    /\ DOMAIN users \subseteq Names /\ changing \subseteq Session
    /\ Store(sessions) /\ Len(sessions) <= SessionMax + 1
    /\ SessionsHaveOwners /\ GateInStep
    /\ \A s \in changing, l \in Live : s.sid = l.sid => s.user = l.user

\* Two open sessions with the same id are one.
LEMMA SameSid ==
  ASSUME Store(sessions), NEW k \in Live, NEW l \in Live, k.sid = l.sid
  PROVE  k = l
BY DEF Store, Live

LEMMA LiveIsTyped == ASSUME Store(sessions) PROVE Live \subseteq Session
BY DEF Store, Live

LEMMA EmptyStore == ASSUME sessions = << >> PROVE Store(sessions) /\ Live = {} /\ Len(sessions) = 0
BY EmptySeq DEF Store, Live

\* Most steps end some sessions and captures, and change of an account only what
\* the sessions that stay do not carry.
LEMMA Shrinks ==
  ASSUME SessionsInv, Store(sessions'), Len(sessions') <= SessionMax + 1,
         Live' \subseteq Live, changing' \subseteq changing, DOMAIN users' \subseteq Names,
         \A l \in Live' : /\ l.user \in DOMAIN users' /\ ~users'[l.user].disabled
                          /\ users'[l.user].mustChange = users[l.user].mustChange
  PROVE  SessionsInv'
<1>1. SessionsHaveOwners' /\ GateInStep'
  BY DEF SessionsInv, SessionsHaveOwners, GateInStep
<1>2. \A s \in changing', l \in Live' : s.sid = l.sid => s.user = l.user
  BY DEF SessionsInv
<1> QED
  BY <1>1, <1>2 DEF SessionsInv, Store

LEMMA Kept ==
  ASSUME SessionsInv, NEW S, Keep(S)
  PROVE  Store(sessions') /\ Len(sessions') <= SessionMax + 1 /\ Live' = Live \cap S
<1>1. /\ Store(InOrder(S)) /\ In(InOrder(S)) = Live \cap S
      /\ Len(InOrder(S)) \in Nat /\ Len(InOrder(S)) <= Len(sessions)
  BY InOrderIsStore DEF SessionsInv
<1>2. Len(sessions) \in Nat /\ Len(sessions) <= SessionMax + 1 /\ SessionMax \in Nat
  BY AccountsAssumption DEF SessionsInv, Store, AccountsAssumption
<1>3. sessions' = InOrder(S) /\ Live' = In(InOrder(S))
  BY DEF Keep, Live, In
<1> HIDE DEF InOrder
<1> QED
  BY <1>1, <1>2, <1>3

\* A login evicts the oldest sessions above the ceiling and appends one under an
\* id that is nobody's (auth.py:78-102).
LEMMA LoginStore ==
  ASSUME SessionsInv, IInv, NEW n \in Names, NEW pw \in Passwords, NEW sid \in Sids, Login(n, pw, sid)
  PROVE  LET new == [sid |-> sid, user |-> n, mustChange |-> users[n].mustChange]
         IN  /\ Store(sessions') /\ Len(sessions') <= SessionMax + 1
             /\ Live' \subseteq Live \cup {new} /\ new \in Session
             /\ \A l \in Live : l.sid # sid
             /\ \A s \in changing : s.sid # sid
<1> DEFINE new == [sid |-> sid, user |-> n, mustChange |-> users[n].mustChange]
           L == Len(sessions)
<1>1. /\ SessionMax \in Nat \ {0} /\ L \in Nat /\ L <= SessionMax + 1 /\ sessions \in Seq(Session)
  BY AccountsAssumption DEF SessionsInv, Store, AccountsAssumption
<1>2. new \in Session
  <2>1. users[n] \in User
    BY DEF Login, IInv
  <2> QED
    BY <2>1 DEF User, Session
<1>3. Store(Swept) /\ In(Swept) \subseteq Live /\ Len(Swept) \in Nat /\ Len(Swept) <= SessionMax
  <2>1. CASE L > SessionMax
    <3>1. L - SessionMax + 1 \in 1..(L + 1)
      BY <1>1, <2>1
    <3>2. LET r == SubSeq(sessions, L - SessionMax + 1, L)
          IN  Store(r) /\ In(r) \subseteq Live /\ Len(r) = L - (L - SessionMax + 1) + 1
      BY <3>1, TailIsStore DEF SessionsInv
    <3>3. L - (L - SessionMax + 1) + 1 = SessionMax
      BY <1>1
    <3> QED
      BY <2>1, <3>2, <3>3, <1>1 DEF Swept
  <2>2. CASE ~(L > SessionMax)
    BY <2>2, <1>1 DEF Swept, SessionsInv, In, Live
  <2> QED
    BY <2>1, <2>2
<1>4. /\ sessions' = Append(Swept, new)
      /\ \A l \in Live : l.sid # sid
      /\ \A s \in changing : s.sid # sid
  BY DEF Login
<1> DEFINE q == Swept
           m == Len(q)
<1> HIDE DEF new, q
<1>5. /\ q \in Seq(Session) /\ m \in Nat /\ DOMAIN q = 1..m /\ In(q) \subseteq Live
      /\ m <= SessionMax
      /\ \A i, j \in 1..m : q[i].sid = q[j].sid => i = j
  BY <1>3 DEF Store, q
<1>6. /\ sessions' \in Seq(Session) /\ Len(sessions') = m + 1 /\ DOMAIN sessions' = 1..(m + 1)
      /\ \A i \in 1..m : sessions'[i] = q[i]
  BY <1>2, <1>4, <1>5, AppendProperties DEF q
<1>7. sessions'[m + 1] = new
  BY <1>2, <1>4, <1>5, AppendProperties DEF q
<1>8. new.sid = sid
  BY DEF new
<1>9. \A i \in 1..m : q[i] \in Live
  BY <1>5 DEF In
<1>10. \A i \in 1..(m + 1) : i \in 1..m \/ i = m + 1
  BY <1>5
<1>11. Store(sessions')
  <2> SUFFICES ASSUME NEW i \in 1..(m + 1), NEW j \in 1..(m + 1), sessions'[i].sid = sessions'[j].sid
               PROVE  i = j
    BY <1>6 DEF Store
  <2> QED
    BY <1>4, <1>5, <1>6, <1>7, <1>8, <1>9, <1>10
<1>12. Live' \subseteq Live \cup {new}
  BY <1>6, <1>7, <1>9, <1>10 DEF Live
<1>13. Len(sessions') <= SessionMax + 1
  BY <1>1, <1>5, <1>6
<1> QED
  BY <1>2, <1>4, <1>11, <1>12, <1>13 DEF new

\* A password change keeps of its user's sessions the one it was asked from, if
\* that is still open, and lifts its obligation (app.py:1370-1373).
LEMMA ChangeStore ==
  ASSUME SessionsInv, NEW s \in changing, NEW current, NEW new, ChangePassword(s, current, new)
  PROVE  /\ Store(sessions') /\ Len(sessions') <= SessionMax + 1
         /\ \A l \in Live' : \E k \in Live :
               /\ l.sid = k.sid /\ l.user = k.user
               /\ \/ k.sid = s.sid /\ k.user = s.user /\ l.mustChange = FALSE
                  \/ k.user # s.user /\ l.mustChange = k.mustChange
<1> DEFINE S == {t \in Live : t.user # s.user \/ t.sid = s.sid}
           kept == InOrder(S)
           lift(t) == IF t.sid = s.sid THEN [t EXCEPT !.mustChange = FALSE] ELSE t
           m == Len(kept)
<1>1. /\ Store(kept) /\ In(kept) = Live \cap S /\ m \in Nat /\ m <= Len(sessions)
  BY InOrderIsStore DEF SessionsInv
<1>2. sessions' = [i \in DOMAIN kept |-> lift(kept[i])]
  BY DEF ChangePassword
<1>3. /\ Len(sessions) \in Nat /\ Len(sessions) <= SessionMax + 1 /\ SessionMax \in Nat
  BY AccountsAssumption DEF SessionsInv, Store, AccountsAssumption
<1>4. \A k \in Live, t \in changing : t.sid = k.sid => t.user = k.user
  BY DEF SessionsInv
<1>5. \A t \in Session : /\ lift(t) \in Session /\ lift(t).sid = t.sid /\ lift(t).user = t.user
                         /\ t.sid = s.sid => lift(t).mustChange = FALSE
                         /\ t.sid # s.sid => lift(t).mustChange = t.mustChange
  BY DEF Session
<1> HIDE DEF kept, lift
<1>6. DOMAIN kept = 1..m /\ \A i \in 1..m : kept[i] \in Session /\ kept[i] \in Live \cap S
  BY <1>1 DEF Store, In
<1>7. sessions' \in Seq(Session) /\ Len(sessions') = m /\ DOMAIN sessions' = 1..m
  BY <1>1, <1>2, <1>5, <1>6
<1>8. \A i \in 1..m : sessions'[i] = lift(kept[i]) /\ sessions'[i].sid = kept[i].sid
  BY <1>2, <1>5, <1>6
<1>9. Store(sessions')
  BY <1>1, <1>6, <1>7, <1>8 DEF Store
<1>10. ASSUME NEW l \in Live'
       PROVE  \E k \in Live :
                 /\ l.sid = k.sid /\ l.user = k.user
                 /\ \/ k.sid = s.sid /\ k.user = s.user /\ l.mustChange = FALSE
                    \/ k.user # s.user /\ l.mustChange = k.mustChange
  <2>1. PICK i \in 1..m : l = lift(kept[i])
    BY <1>7, <1>8 DEF Live
  <2>2. kept[i] \in Live /\ kept[i] \in S /\ kept[i] \in Session
    BY <1>6
  <2>3. CASE kept[i].sid = s.sid
    BY <2>1, <2>2, <2>3, <1>4, <1>5
  <2>4. CASE kept[i].sid # s.sid
    BY <2>1, <2>2, <2>4, <1>5
  <2> QED
    BY <2>3, <2>4
<1>11. Len(sessions') <= SessionMax + 1
  BY <1>1, <1>3, <1>7
<1> QED
  BY <1>9, <1>10, <1>11, Zenon

\* The first state has no session.
LEMMA InitSessions == Init => SessionsInv
<1> SUFFICES ASSUME Init PROVE SessionsInv
  OBVIOUS
<1>1. DOMAIN << >> = {}
  OBVIOUS
<1>2. DOMAIN users \subseteq Names
  BY <1>1, AccountsAssumption DEF Init, Bootstrapped, AccountsAssumption
<1>3. Store(sessions) /\ Live = {} /\ Len(sessions) = 0 /\ changing = {}
  BY EmptyStore DEF Init
<1>4. Len(sessions) <= SessionMax + 1
  BY <1>3, AccountsAssumption DEF AccountsAssumption
<1> QED
  BY <1>2, <1>3, <1>4 DEF SessionsInv, SessionsHaveOwners, GateInStep

\* A change of one account that ends its sessions, or leaves alone what they carry.
LEMMA AccountChange ==
  ASSUME SessionsInv, NEW n \in Names, Store(sessions'), Len(sessions') <= SessionMax + 1,
         Live' \subseteq Live, changing' = changing, DOMAIN users' \subseteq DOMAIN users \cup {n},
         \A l \in Live' : /\ l.user # n => l.user \in DOMAIN users' /\ users'[l.user] = users[l.user]
                          /\ l.user = n => /\ n \in DOMAIN users'
                                           /\ users'[n].disabled = users[n].disabled
                                           /\ users'[n].mustChange = users[n].mustChange
  PROVE  SessionsInv'
<1>1. \A l \in Live : l.user \in DOMAIN users /\ ~users[l.user].disabled
  BY DEF SessionsInv, SessionsHaveOwners
<1>2. DOMAIN users' \subseteq Names /\ changing' \subseteq changing
  BY DEF SessionsInv
<1>3. ASSUME NEW l \in Live'
      PROVE  /\ l.user \in DOMAIN users' /\ ~users'[l.user].disabled
             /\ users'[l.user].mustChange = users[l.user].mustChange
  BY <1>1
<1> QED
  BY <1>2, <1>3, Shrinks

\* Every step keeps the store and the table in step.
LEMMA NextSessions == IInv /\ SessionsInv /\ [Next]_vars => SessionsInv'
<1> SUFFICES ASSUME IInv, SessionsInv, [Next]_vars PROVE SessionsInv'
  OBVIOUS
<1>1. /\ Store(sessions) /\ Len(sessions) <= SessionMax + 1 /\ DOMAIN users \subseteq Names
      /\ \A n \in DOMAIN users : users[n] \in User
  BY DEF SessionsInv, IInv
<1>2. \A l \in Live : l.user \in DOMAIN users
  BY DEF SessionsInv, SessionsHaveOwners
<1>3. ASSUME NEW n \in Names, Disable(n) \/ Delete(n) \/ (\E pw \in Passwords : Reset(n, pw))
                              \/ (\E must \in BOOLEAN : SetMustChange(n, must))
      PROVE  SessionsInv'
  <2>1. Keep({s \in Live : s.user # n}) /\ changing' = changing
    BY <1>3 DEF Disable, Delete, Reset, SetMustChange, DropSessions
  <2>2. /\ Store(sessions') /\ Len(sessions') <= SessionMax + 1
        /\ Live' = Live \cap {s \in Live : s.user # n}
    BY <2>1, Kept
  <2>3. /\ DOMAIN users' \subseteq DOMAIN users
        /\ \A m \in DOMAIN users \ {n} : m \in DOMAIN users' /\ users'[m] = users[m]
    BY <1>3 DEF Disable, Delete, Reset, SetMustChange
  <2>4. Live' \subseteq Live /\ \A l \in Live' : l.user # n /\ l.user \in DOMAIN users \ {n}
    BY <2>2, <1>2
  <2> QED
    BY <2>1, <2>2, <2>3, <2>4, AccountChange
<1>4. ASSUME NEW n \in Names, NEW role \in Role, NEW sid \in Sids, Update(n, role, sid)
      PROVE  SessionsInv'
  <2>1. /\ n \in DOMAIN users /\ users[n] \in User /\ changing' = changing
        /\ users' = [users EXCEPT ![n].role = role]
    BY <1>1, <1>4 DEF Update
  <2>2. Store(sessions') /\ Len(sessions') <= SessionMax + 1 /\ Live' \subseteq Live
    <3>1. CASE UNCHANGED sessions
      BY <3>1, <1>1 DEF Store, Live
    <3>2. CASE Keep({s \in Live : s.user # n \/ s.sid = sid})
      BY <3>2, Kept
    <3> QED
      BY <1>4, <3>1, <3>2 DEF Update
  <2>3. /\ DOMAIN users' = DOMAIN users
        /\ \A m \in DOMAIN users \ {n} : users'[m] = users[m]
        /\ users'[n].disabled = users[n].disabled /\ users'[n].mustChange = users[n].mustChange
    BY <2>1 DEF User
  <2> QED
    BY <2>1, <2>2, <2>3, <1>2, AccountChange
<1>5. ASSUME NEW n \in Names, NEW pw \in Passwords, NEW role \in Role, Create(n, pw, role)
      PROVE  SessionsInv'
  <2>1. /\ n \notin DOMAIN users /\ sessions' = sessions /\ changing' = changing
        /\ DOMAIN users' = DOMAIN users \cup {n}
        /\ \A m \in DOMAIN users : users'[m] = users[m]
    BY <1>5 DEF Create
  <2>2. Live' = Live
    BY <2>1 DEF Live
  <2> QED
    BY <2>1, <2>2, <1>1, <1>2, AccountChange
<1>6. ASSUME NEW n \in Names, Enable(n) PROVE SessionsInv'
  <2>1. /\ n \in DOMAIN users /\ users[n] \in User /\ sessions' = sessions /\ changing' = changing
        /\ users' = [users EXCEPT ![n].disabled = FALSE]
    BY <1>1, <1>6 DEF Enable
  <2>2. Live' = Live /\ \A l \in Live : ~users[l.user].disabled
    BY <2>1 DEF Live, SessionsInv, SessionsHaveOwners
  <2>3. /\ DOMAIN users' = DOMAIN users
        /\ \A m \in DOMAIN users \ {n} : users'[m] = users[m]
        /\ ~users'[n].disabled /\ users'[n].mustChange = users[n].mustChange
    BY <2>1 DEF User
  <2>4. \A l \in Live' : l.user \in DOMAIN users' /\ ~users'[l.user].disabled
                         /\ users'[l.user].mustChange = users[l.user].mustChange
    BY <2>2, <2>3, <1>2
  <2> QED
    BY <2>1, <2>2, <2>3, <2>4, <1>1, Shrinks
<1>7. ASSUME UNCHANGED users, Store(sessions'), Len(sessions') <= SessionMax + 1,
             Live' \subseteq Live, changing' \subseteq changing
      PROVE  SessionsInv'
  <2>1. \A l \in Live' : l.user \in DOMAIN users' /\ ~users'[l.user].disabled
                         /\ users'[l.user].mustChange = users[l.user].mustChange
    BY <1>7 DEF SessionsInv, SessionsHaveOwners
  <2> QED
    BY <1>1, <1>7, <2>1, Shrinks
<1>8. CASE Restart
  <2>1. users' = users
    BY <1>8 DEF Restart, Bootstrapped, IInv, AdminRemains
  <2>2. sessions' = << >> /\ changing' = {}
    BY <1>8 DEF Restart
  <2>3. Store(sessions') /\ Live' = {} /\ Len(sessions') = 0
    BY <2>2, EmptySeq DEF Store, Live
  <2>4. Len(sessions') <= SessionMax + 1
    BY <2>3, AccountsAssumption DEF AccountsAssumption
  <2> QED
    BY <2>1, <2>2, <2>3, <2>4, <1>7
<1>9. CASE Expire
  <2>1. sessions # << >> /\ sessions' = Tail(sessions) /\ users' = users /\ changing' = changing
    BY <1>9 DEF Expire
  <2>2. sessions \in Seq(Session) /\ Len(sessions) \in Nat /\ SessionMax \in Nat
    BY <1>1, AccountsAssumption DEF Store, AccountsAssumption
  <2>3. sessions' = SubSeq(sessions, 2, Len(sessions)) /\ Len(sessions) >= 1
    BY <2>1, <2>2, TailIsSubSeq, EmptySeq
  <2>4. 2 \in 1..(Len(sessions) + 1)
    BY <2>2, <2>3
  <2>5. LET r == SubSeq(sessions, 2, Len(sessions))
        IN  Store(r) /\ In(r) \subseteq Live /\ Len(r) = Len(sessions) - 2 + 1
    BY <1>1, <2>4, TailIsStore
  <2>6. Store(sessions') /\ In(sessions') \subseteq Live /\ Len(sessions') = Len(sessions) - 2 + 1
    BY <2>3, <2>5
  <2>7. Len(sessions') <= SessionMax + 1 /\ Live' \subseteq Live
    BY <2>2, <2>6, <1>1 DEF In, Live
  <2> QED
    BY <2>1, <2>6, <2>7, <1>7
<1>10. ASSUME NEW sid \in Sids, Logout(sid) PROVE SessionsInv'
  <2>1. Keep({s \in Live : s.sid # sid}) /\ users' = users /\ changing' = changing
    BY <1>10 DEF Logout
  <2>2. /\ Store(sessions') /\ Len(sessions') <= SessionMax + 1
        /\ Live' = Live \cap {s \in Live : s.sid # sid}
    BY <2>1, Kept
  <2> QED
    BY <2>1, <2>2, <1>7
<1>11. ASSUME NEW s \in Session, RefuseChange(s) PROVE SessionsInv'
  <2>1. users' = users /\ sessions' = sessions /\ changing' \subseteq changing
    BY <1>11 DEF RefuseChange
  <2>2. Live' = Live
    BY <2>1 DEF Live
  <2> QED
    BY <2>1, <2>2, <1>1, <1>7
<1>12. ASSUME NEW s \in Session, BeginChange(s) PROVE SessionsInv'
  <2>1. /\ s \in Live /\ users' = users /\ sessions' = sessions
        /\ changing' = changing \cup {s}
    BY <1>12 DEF BeginChange
  <2>2. Live' = Live
    BY <2>1 DEF Live
  <2>3. \A l \in Live : s.sid = l.sid => s = l
    BY <2>1, <1>1, SameSid
  <2>4. \A t \in changing', l \in Live' : t.sid = l.sid => t.user = l.user
    BY <2>1, <2>2, <2>3 DEF SessionsInv
  <2>5. SessionsHaveOwners' /\ GateInStep'
    BY <2>1, <2>2 DEF SessionsInv, SessionsHaveOwners, GateInStep
  <2> QED
    BY <2>1, <2>4, <2>5, <1>1 DEF SessionsInv, Store
<1>13. ASSUME NEW n \in Names, NEW pw \in Passwords, NEW sid \in Sids, Login(n, pw, sid)
       PROVE  SessionsInv'
  <2> DEFINE new == [sid |-> sid, user |-> n, mustChange |-> users[n].mustChange]
  <2>1. /\ Store(sessions') /\ Len(sessions') <= SessionMax + 1
        /\ Live' \subseteq Live \cup {new}
        /\ \A s \in changing : s.sid # sid
    BY <1>13, LoginStore
  <2>2. /\ n \in DOMAIN users /\ ~users[n].disabled
        /\ users' = users /\ changing' = changing
    BY <1>13 DEF Login
  <2>3. new.sid = sid /\ new.user = n /\ new.mustChange = users[n].mustChange
    OBVIOUS
  <2> HIDE DEF new
  <2>4. SessionsHaveOwners'
    BY <2>1, <2>2, <2>3 DEF SessionsInv, SessionsHaveOwners
  <2>5. GateInStep'
    BY <2>1, <2>2, <2>3 DEF SessionsInv, GateInStep
  <2>6. \A t \in changing', l \in Live' : t.sid = l.sid => t.user = l.user
    BY <2>1, <2>2, <2>3 DEF SessionsInv
  <2> QED
    BY <2>1, <2>2, <2>4, <2>5, <2>6, <1>1 DEF SessionsInv, Store
<1>14. ASSUME NEW s \in changing, NEW current \in Passwords, NEW new \in Passwords,
              ChangePassword(s, current, new)
       PROVE  SessionsInv'
  <2>1. /\ Store(sessions') /\ Len(sessions') <= SessionMax + 1
        /\ \A l \in Live' : \E k \in Live :
              /\ l.sid = k.sid /\ l.user = k.user
              /\ \/ k.sid = s.sid /\ k.user = s.user /\ l.mustChange = FALSE
                 \/ k.user # s.user /\ l.mustChange = k.mustChange
    BY <1>14, ChangeStore
  <2>2. /\ s.user \in DOMAIN users /\ users[s.user] \in User /\ changing' = changing \ {s}
        /\ users' = [users EXCEPT ![s.user].pw = new, ![s.user].mustChange = FALSE]
    BY <1>14, <1>1 DEF ChangePassword
  <2>3. /\ DOMAIN users' = DOMAIN users
        /\ users'[s.user].mustChange = FALSE /\ users'[s.user].disabled = users[s.user].disabled
        /\ \A n \in DOMAIN users \ {s.user} : users'[n] = users[n]
    BY <2>2 DEF User
  <2>4. \A k \in Live : /\ k.user \in DOMAIN users /\ ~users[k.user].disabled
                        /\ k.mustChange = users[k.user].mustChange
    BY DEF SessionsInv, SessionsHaveOwners, GateInStep
  <2>5. ASSUME NEW l \in Live'
        PROVE  /\ l.user \in DOMAIN users' /\ ~users'[l.user].disabled
               /\ l.mustChange = users'[l.user].mustChange
               /\ \A t \in changing : t.sid = l.sid => t.user = l.user
    <3>1. PICK k \in Live :
              /\ l.sid = k.sid /\ l.user = k.user
              /\ \/ k.sid = s.sid /\ k.user = s.user /\ l.mustChange = FALSE
                 \/ k.user # s.user /\ l.mustChange = k.mustChange
      BY <2>1
    <3>2. \A t \in changing : t.sid = k.sid => t.user = k.user
      BY DEF SessionsInv
    <3> QED
      BY <2>3, <2>4, <3>1, <3>2
  <2>6. SessionsHaveOwners' /\ GateInStep'
    BY <2>5 DEF SessionsHaveOwners, GateInStep
  <2>7. changing' \subseteq Session /\ \A t \in changing', l \in Live' : t.sid = l.sid => t.user = l.user
    BY <2>2, <2>5 DEF SessionsInv
  <2> QED
    BY <2>1, <2>3, <2>6, <2>7, <1>1 DEF SessionsInv, Store
<1>15. CASE UNCHANGED vars
  <2>1. users' = users /\ sessions' = sessions /\ changing' = changing
    BY <1>15 DEF vars
  <2>2. Live' = Live
    BY <2>1 DEF Live
  <2> QED
    BY <2>1, <2>2, <1>1, <1>7
<1> QED
  BY <1>3, <1>4, <1>5, <1>6, <1>8, <1>9, <1>10, <1>11, <1>12, <1>13, <1>14, <1>15 DEF Next

LEMMA AccountsSafe == Spec => [](IInv /\ SessionsInv)
<1> DEFINE I == IInv /\ SessionsInv
<1>1. Init => I
  BY InitIInv, InitSessions
<1>2. I /\ [Next]_vars => I'
  BY NextIInv, NextSessions
<1> HIDE DEF I
<1>3. Spec => []I
  BY <1>1, <1>2, PTL DEF Spec
<1> QED
  BY <1>3 DEF I

LEMMA InvIsTyped == IInv /\ SessionsInv => TypeOK
BY LiveIsTyped DEF TypeOK, IInv, SessionsInv, Store

\* Accounts and sessions stay in step, for every set of names and every ceiling on
\* the store: the table and the store are well-formed, every open session has an
\* enabled account, and is gated exactly while its user owes a new password
\* (app.py:1370-1373, 1550-1617, auth.py:91-128).
THEOREM AccountsInStep == Spec => [](TypeOK /\ SessionsHaveOwners /\ GateInStep)
<1>1. IInv /\ SessionsInv => TypeOK /\ SessionsHaveOwners /\ GateInStep
  BY InvIsTyped DEF SessionsInv
<1> QED
  BY <1>1, AccountsSafe, PTL
-----------------------------------------------------------------------------
\* The gate: tokens, requests that are creating some, and verdicts.

Asking(n) == {s \in minting : s.user = n}

TokensTyped ==
    /\ DOMAIN tokens \subseteq Tids /\ IsFiniteSet(DOMAIN tokens)
    /\ \A t \in DOMAIN tokens : tokens[t] \in Token
    /\ cookies \subseteq Cids

\* A request that creates a token was let in because its user owed no new password,
\* and while its session is open that is still so.
FormsInv ==
    /\ minting \subseteq Session /\ IsFiniteSet(minting) /\ IsFiniteSet(changing)
    /\ \A s \in minting, l \in Live : s.sid = l.sid => s.user = l.user /\ ~l.mustChange

OwedInv == \A n \in DOMAIN users : users[n].mustChange => \A t \in Owned(n) : tokens[t].late

\* Every form being read may still become a token of its user.
LimitInv ==
    \A n \in Names : Cardinality(Owned(n)) + Cardinality(Asking(n)) < MaxTokens + MaxForms

TokensInv == TokensTyped /\ TokensHaveOwners /\ FormsInv /\ OwedInv /\ LimitInv

GateIInv == IInv /\ SessionsInv /\ TokensInv

-----------------------------------------------------------------------------
\* Every step of the gate is a step of the accounts, or leaves them alone.
LEMMA GateStepIsStep == SessionsInv /\ [GateNext]_gateVars => [Next]_vars
<1> SUFFICES ASSUME SessionsInv, [GateNext]_gateVars PROVE [Next]_vars
  OBVIOUS
<1>1. Live \subseteq Session /\ changing \subseteq Session
  BY LiveIsTyped DEF SessionsInv
<1>2. CASE GateRestart
  BY <1>2 DEF GateRestart, Next
<1>3. CASE SessionStep
  BY <1>1, <1>3 DEF SessionStep, Next
<1>4. ASSUME NEW n \in Names, CutsTokens(n) PROVE Next
  BY <1>4 DEF CutsTokens, Next
<1>5. ASSUME NEW n \in Names, LeavesTokens(n) PROVE Next
  BY <1>5 DEF LeavesTokens, Next
<1>6. ASSUME \/ \E s \in Live : BeginMint(s)
             \/ \E s \in minting : AbandonMint(s) \/ \E tid \in Tids, want \in Role : Mint(s, tid, want)
             \/ \E tid \in Tids : RevokeToken(tid)
             \/ \E cid \in Cids : SwapForCookie(cid) \/ DropCookie(cid)
      PROVE  UNCHANGED vars
  BY <1>6 DEF BeginMint, AbandonMint, Mint, RevokeToken, SwapForCookie, DropCookie, vars
<1>7. CASE UNCHANGED gateVars
  BY <1>7 DEF gateVars, vars
<1> QED
  BY <1>2, <1>3, <1>4, <1>5, <1>6, <1>7 DEF GateNext

LEMMA InitGateIInv == GateInit => GateIInv
<1> SUFFICES ASSUME GateInit PROVE GateIInv
  OBVIOUS
<1>1. IInv /\ SessionsInv
  BY InitIInv, InitSessions DEF GateInit
<1>2. DOMAIN tokens = {} /\ minting = {} /\ cookies = {} /\ changing = {}
  BY DEF GateInit, Init
<1>3. IsFiniteSet({}) /\ Cardinality({}) = 0
  BY FS_EmptySet
<1>4. \A n : Owned(n) = {} /\ Asking(n) = {}
  BY <1>2 DEF Owned, Asking
<1>5. 0 + 0 < MaxTokens + MaxForms
  BY GateAssumption DEF GateAssumption
<1>6. LimitInv
  BY <1>3, <1>4, <1>5 DEF LimitInv
<1>7. TokensTyped /\ TokensHaveOwners /\ FormsInv /\ OwedInv
  BY <1>2, <1>3, <1>4 DEF TokensTyped, TokensHaveOwners, FormsInv, OwedInv
<1> QED
  BY <1>1, <1>6, <1>7 DEF GateIInv, TokensInv

\* Only the start of a password change adds to the captured sessions.
LEMMA CapturesFinite ==
  ASSUME IsFiniteSet(changing), [Next]_vars
  PROVE  IsFiniteSet(changing')
<1>1. ASSUME changing' \subseteq changing PROVE IsFiniteSet(changing')
  <2>1. changing' \in SUBSET changing
    BY <1>1
  <2> QED
    BY <2>1, FS_Subset
<1>2. ASSUME NEW s \in Session, BeginChange(s) PROVE IsFiniteSet(changing')
  BY <1>2, FS_AddElement DEF BeginChange
<1>3. \/ changing' \subseteq changing
      \/ \E s \in Session : BeginChange(s)
  BY DEF Next, vars, Restart, Expire, Disable, Enable, Delete, SetMustChange, Update, Create,
         Reset, Login, Logout, RefuseChange, ChangePassword
<1> QED
  BY <1>1, <1>2, <1>3

\* An open session was open before, with no obligation it did not have, or a login
\* has just opened it, under an id no request holds.
LEMMA LiveStep ==
  ASSUME IInv, SessionsInv, [GateNext]_gateVars, NEW l \in Live'
  PROVE  \/ \E k \in Live : l.sid = k.sid /\ l.user = k.user /\ (l.mustChange => k.mustChange)
         \/ \A s \in minting : s.sid # l.sid
<1> DEFINE Was == \E k \in Live : l.sid = k.sid /\ l.user = k.user /\ (l.mustChange => k.mustChange)
           Fresh == \A s \in minting : s.sid # l.sid
<1>1. ASSUME Live' \subseteq Live PROVE Was
  BY <1>1
<1>2. ASSUME UNCHANGED sessions PROVE Was
  BY <1>2 DEF Live
<1>3. ASSUME NEW S, Keep(S) PROVE Was
  BY <1>1, <1>3, Kept
<1>4. ASSUME NEW n \in Names, Disable(n) \/ Delete(n) \/ (\E pw \in Passwords : Reset(n, pw))
                              \/ (\E must \in BOOLEAN : SetMustChange(n, must))
      PROVE  Was
  <2>1. Keep({s \in Live : s.user # n})
    BY <1>4 DEF Disable, Delete, Reset, SetMustChange, DropSessions
  <2> QED
    BY <2>1, <1>3
<1>5. ASSUME NEW n \in Names, NEW role \in Role, NEW sid \in Sids, Update(n, role, sid) PROVE Was
  BY <1>2, <1>3, <1>5 DEF Update
<1>6. ASSUME NEW sid \in Sids, Logout(sid) PROVE Was
  BY <1>3, <1>6 DEF Logout
<1>7. ASSUME Restart PROVE Was
  BY <1>7 DEF Restart, Live
<1>8. ASSUME Expire PROVE Was
  <2>1. sessions # << >> /\ sessions' = Tail(sessions) /\ sessions \in Seq(Session)
    BY <1>8 DEF Expire, SessionsInv, Store
  <2>2. Len(sessions) \in Nat /\ DOMAIN sessions = 1..Len(sessions)
    BY <2>1
  <2>3. /\ Len(sessions') = Len(sessions) - 1 /\ sessions' \in Seq(Session)
        /\ \A i \in 1..(Len(sessions) - 1) : sessions'[i] = sessions[i + 1]
    BY <2>1, HeadTailProperties
  <2>4. Live' \subseteq Live
    BY <2>2, <2>3 DEF Live
  <2> QED
    BY <2>4, <1>1
<1>9. ASSUME NEW n \in Names, NEW pw \in Passwords, NEW sid \in Sids, Login(n, pw, sid),
             \A s \in minting : s.sid # sid
      PROVE  Was \/ Fresh
  <2> DEFINE new == [sid |-> sid, user |-> n, mustChange |-> users[n].mustChange]
  <2>1. Live' \subseteq Live \cup {new}
    BY <1>9, LoginStore
  <2>2. new.sid = sid
    OBVIOUS
  <2> HIDE DEF new
  <2> QED
    BY <1>9, <2>1, <2>2
<1>10. ASSUME NEW s \in changing, NEW current \in Passwords, NEW new \in Passwords,
              ChangePassword(s, current, new)
       PROVE  Was
  <2>1. \E k \in Live : /\ l.sid = k.sid /\ l.user = k.user
                        /\ \/ k.sid = s.sid /\ k.user = s.user /\ l.mustChange = FALSE
                           \/ k.user # s.user /\ l.mustChange = k.mustChange
    BY <1>10, ChangeStore
  <2> QED
    BY <2>1
<1>11. ASSUME \/ \E n \in Names : Enable(n)
              \/ \E n \in Names, pw \in Passwords, role \in Role : Create(n, pw, role)
              \/ \E s \in Live : BeginChange(s) \/ BeginMint(s)
              \/ \E s \in changing : RefuseChange(s)
              \/ \E s \in minting : AbandonMint(s) \/ \E tid \in Tids, want \in Role : Mint(s, tid, want)
              \/ \E tid \in Tids : RevokeToken(tid)
              \/ \E cid \in Cids : SwapForCookie(cid) \/ DropCookie(cid)
              \/ UNCHANGED gateVars
       PROVE  Was
  BY <1>2, <1>11 DEF Enable, Create, BeginChange, RefuseChange, BeginMint, AbandonMint, Mint,
                     RevokeToken, SwapForCookie, DropCookie, gateVars
<1> HIDE DEF Was, Fresh
<1>12. ASSUME SessionStep PROVE Was
  BY <1>6, <1>8, <1>10, <1>11, <1>12 DEF SessionStep
<1>13. ASSUME NEW n \in Names, CutsTokens(n) PROVE Was
  BY <1>4, <1>13 DEF CutsTokens
<1>14. ASSUME NEW n \in Names, LeavesTokens(n) PROVE Was \/ Fresh
  BY <1>4, <1>5, <1>9, <1>11, <1>14 DEF LeavesTokens
<1>15. ASSUME GateRestart PROVE Was
  BY <1>7, <1>15 DEF GateRestart
<1>16. Was \/ Fresh
  BY <1>11, <1>12, <1>13, <1>14, <1>15 DEF GateNext
<1> QED
  BY <1>16 DEF Was, Fresh

-----------------------------------------------------------------------------
\* Tokens that are revoked and requests that end leave the rest well-formed and
\* below the limit.
LEMMA FewerTokens ==
  ASSUME TokensTyped, FormsInv, LimitInv, minting' \subseteq minting, cookies' \subseteq Cids,
         DOMAIN tokens' \subseteq DOMAIN tokens, \A t \in DOMAIN tokens' : tokens'[t] = tokens[t]
  PROVE  TokensTyped' /\ LimitInv'
<1>1. TokensTyped'
  <2>1. DOMAIN tokens' \in SUBSET DOMAIN tokens /\ IsFiniteSet(DOMAIN tokens)
    BY DEF TokensTyped
  <2>2. IsFiniteSet(DOMAIN tokens')
    BY <2>1, FS_Subset
  <2> QED
    BY <2>2 DEF TokensTyped
<1>2. ASSUME NEW n \in Names
      PROVE  Cardinality(Owned(n)') + Cardinality(Asking(n)') < MaxTokens + MaxForms
  <2>1. /\ Owned(n) \in SUBSET DOMAIN tokens /\ Owned(n)' \in SUBSET Owned(n)
        /\ Asking(n) \in SUBSET minting /\ Asking(n)' \in SUBSET Asking(n)
    BY DEF Owned, Asking
  <2>2. IsFiniteSet(DOMAIN tokens) /\ IsFiniteSet(minting)
    BY DEF TokensTyped, FormsInv
  <2>3. IsFiniteSet(Owned(n)) /\ IsFiniteSet(Asking(n))
    BY <2>1, <2>2, FS_Subset
  <2>4. IsFiniteSet(Owned(n)') /\ Cardinality(Owned(n)') <= Cardinality(Owned(n))
    BY <2>1, <2>3, FS_Subset
  <2>5. IsFiniteSet(Asking(n)') /\ Cardinality(Asking(n)') <= Cardinality(Asking(n))
    BY <2>1, <2>3, FS_Subset
  <2>6. /\ Cardinality(Owned(n)) \in Nat /\ Cardinality(Owned(n)') \in Nat
        /\ Cardinality(Asking(n)) \in Nat /\ Cardinality(Asking(n)') \in Nat
    BY <2>3, <2>4, <2>5, FS_CardinalityType
  <2>7. Cardinality(Owned(n)) + Cardinality(Asking(n)) < MaxTokens + MaxForms
        /\ MaxTokens \in Nat /\ MaxForms \in Nat
    BY GateAssumption DEF LimitInv, GateAssumption
  <2> QED
    BY <2>4, <2>5, <2>6, <2>7
<1> QED
  BY <1>1, <1>2 DEF LimitInv

\* The requests under way go on with the sessions they started from.
LEMMA FormsStep ==
  ASSUME IInv, SessionsInv, FormsInv, [GateNext]_gateVars, minting' \subseteq minting
  PROVE  FormsInv'
<1>1. minting' \in SUBSET minting /\ IsFiniteSet(minting) /\ IsFiniteSet(changing)
  BY DEF FormsInv
<1>2. IsFiniteSet(minting') /\ IsFiniteSet(changing')
  BY <1>1, FS_Subset, CapturesFinite, GateStepIsStep
<1>3. ASSUME NEW s \in minting', NEW l \in Live', s.sid = l.sid
      PROVE  s.user = l.user /\ ~l.mustChange
  <2>1. CASE \E k \in Live : l.sid = k.sid /\ l.user = k.user /\ (l.mustChange => k.mustChange)
    BY <2>1, <1>3 DEF FormsInv
  <2>2. CASE \A r \in minting : r.sid # l.sid
    BY <2>2, <1>3
  <2> QED
    BY <2>1, <2>2, LiveStep
<1> QED
  BY <1>1, <1>2, <1>3 DEF FormsInv

\* Whoever is not deleted and is not told to set a new password owes what he owed.
LEMMA OwedStep ==
  ASSUME IInv, SessionsInv, GateRestart \/ SessionStep \/ \E n \in Names : LeavesTokens(n)
  PROVE  /\ DOMAIN users \subseteq DOMAIN users'
         /\ \A m \in DOMAIN users : users'[m].mustChange => users[m].mustChange
<1>1. \A m \in DOMAIN users : users[m] \in User
  BY DEF IInv
<1>2. CASE GateRestart
  BY <1>2 DEF GateRestart, Restart, Bootstrapped, IInv, AdminRemains
<1>3. CASE SessionStep
  <2>1. CASE UNCHANGED users
    BY <2>1
  <2>2. ASSUME NEW s \in changing, NEW current \in Passwords, NEW new \in Passwords,
               ChangePassword(s, current, new)
        PROVE  /\ DOMAIN users \subseteq DOMAIN users'
               /\ \A m \in DOMAIN users : users'[m].mustChange => users[m].mustChange
    BY <2>2, <1>1 DEF ChangePassword, User
  <2> QED
    BY <1>3, <2>1, <2>2 DEF SessionStep, Expire, Logout, BeginChange, RefuseChange
<1>4. ASSUME NEW n \in Names, LeavesTokens(n)
      PROVE  /\ DOMAIN users \subseteq DOMAIN users'
             /\ \A m \in DOMAIN users : users'[m].mustChange => users[m].mustChange
  <2>1. CASE Disable(n) \/ Enable(n) \/ SetMustChange(n, FALSE)
             \/ \E role \in Role, sid \in Sids : Update(n, role, sid)
    BY <2>1, <1>1 DEF Disable, Enable, SetMustChange, Update, User
  <2>2. CASE \E pw \in Passwords, role \in Role : Create(n, pw, role)
    BY <2>2 DEF Create
  <2>3. CASE \E pw \in Passwords, sid \in Sids : Login(n, pw, sid)
    BY <2>3 DEF Login
  <2> QED
    BY <1>4, <2>1, <2>2, <2>3 DEF LeavesTokens
<1> QED
  BY <1>2, <1>3, <1>4

-----------------------------------------------------------------------------
LEMMA OneMore ==
  ASSUME NEW S, NEW x, IsFiniteSet(S)
  PROVE  Cardinality(S \cup {x}) \in Nat /\ Cardinality(S \cup {x}) <= Cardinality(S) + 1
<1>1. IsFiniteSet(S \cup {x}) /\ Cardinality(S) \in Nat
  BY FS_AddElement, FS_CardinalityType
<1>2. Cardinality(S \cup {x}) \in Nat
  BY <1>1, FS_CardinalityType
<1>3. Cardinality(S \cup {x}) = IF x \in S THEN Cardinality(S) ELSE Cardinality(S) + 1
  BY FS_AddElement
<1> QED
  BY <1>1, <1>2, <1>3

\* A request to create a token takes up one of the forms (app.py:1401-1403).
LEMMA BeginMintStep ==
  ASSUME GateIInv, NEW s \in Live, BeginMint(s)
  PROVE  FormsInv' /\ LimitInv'
<1>1. /\ s \in Session /\ ~s.mustChange /\ s.user \in Names
      /\ RoomFor(s.user) /\ Cardinality(minting \cup changing) < MaxForms
      /\ minting' = minting \cup {s}
      /\ UNCHANGED <<users, sessions, changing, tokens, cookies>>
  BY LiveIsTyped DEF GateIInv, SessionsInv, BeginMint, Session
<1>2. /\ IsFiniteSet(minting) /\ IsFiniteSet(changing) /\ minting \subseteq Session
      /\ IsFiniteSet(DOMAIN tokens) /\ MaxTokens \in Nat \ {0} /\ MaxForms \in Nat
  BY GateAssumption DEF GateIInv, TokensInv, FormsInv, TokensTyped, GateAssumption
<1>3. Live' = Live /\ IsFiniteSet(minting') /\ \A n : Owned(n)' = Owned(n)
  BY <1>1, <1>2, FS_AddElement DEF Live, Owned
<1>4. FormsInv'
  <2>1. \A l \in Live : s.sid = l.sid => l = s
    BY SameSid DEF GateIInv, SessionsInv
  <2>2. \A r \in minting, l \in Live : r.sid = l.sid => r.user = l.user /\ ~l.mustChange
    BY DEF GateIInv, TokensInv, FormsInv
  <2> QED
    BY <1>1, <1>2, <1>3, <2>1, <2>2 DEF FormsInv
<1>5. ASSUME NEW n \in Names
      PROVE  Cardinality(Owned(n)') + Cardinality(Asking(n)') < MaxTokens + MaxForms
  <2> DEFINE before == Asking(n)
  <2>1. IsFiniteSet(before) /\ Cardinality(before) \in Nat
    <3>1. before \in SUBSET minting
      BY DEF Asking
    <3> QED
      BY <1>2, <3>1, FS_Subset, FS_CardinalityType
  <2>2. Cardinality(Owned(n)) \in Nat
    <3>1. Owned(n) \in SUBSET DOMAIN tokens
      BY DEF Owned
    <3> QED
      BY <1>2, <3>1, FS_Subset, FS_CardinalityType
  <2>3. CASE s.user = n
    <3>1. Cardinality(Owned(n)) < MaxTokens
      BY <1>1, <2>3 DEF RoomFor
    <3>2. Cardinality(before) < MaxForms
      <4>1. before \in SUBSET (minting \cup changing)
        BY DEF Asking
      <4>2. IsFiniteSet(minting \cup changing)
        BY <1>2, FS_Union
      <4>3. Cardinality(before) <= Cardinality(minting \cup changing)
            /\ Cardinality(minting \cup changing) \in Nat
        BY <4>1, <4>2, FS_Subset, FS_CardinalityType
      <4> QED
        BY <1>1, <1>2, <2>1, <4>3
    <3>3. Asking(n)' = before \cup {s}
      BY <1>1, <2>3 DEF Asking
    <3>4. /\ Cardinality(before \cup {s}) \in Nat
          /\ Cardinality(before \cup {s}) <= Cardinality(before) + 1
      BY <2>1, OneMore
    <3> HIDE DEF before
    <3> QED
      BY <1>2, <1>3, <2>1, <2>2, <3>1, <3>2, <3>3, <3>4
  <2>4. CASE s.user # n
    <3>1. Asking(n)' = Asking(n)
      BY <1>1, <2>4 DEF Asking
    <3>2. Cardinality(Owned(n)) + Cardinality(Asking(n)) < MaxTokens + MaxForms
      BY DEF GateIInv, TokensInv, LimitInv
    <3> QED
      BY <1>3, <3>1, <3>2
  <2> QED
    BY <2>3, <2>4
<1> QED
  BY <1>4, <1>5 DEF LimitInv

\* The request that ends turns into at most one token of the user it spoke for; late
\* unless its session is still open, which is when its user owes nothing
\* (app.py:1404-1411).
LEMMA MintStep ==
  ASSUME GateIInv, NEW s \in minting, NEW tid \in Tids, NEW want \in Role, Mint(s, tid, want)
  PROVE  TokensTyped' /\ TokensHaveOwners' /\ OwedInv' /\ LimitInv'
<1> DEFINE late == ~\E l \in Live : l.sid = s.sid
           row == [owner |-> s.user, role |-> GrantedRole(s.user, want), late |-> late]
<1>1. /\ tid \notin DOMAIN tokens /\ minting' = minting \ {s}
      /\ tokens' = [t \in DOMAIN tokens \cup {tid} |-> IF t # tid THEN tokens[t] ELSE row]
      /\ UNCHANGED <<users, sessions, changing, cookies>>
  BY DEF Mint
<1>2. /\ s.user \in Names /\ IsFiniteSet(minting) /\ IsFiniteSet(DOMAIN tokens)
      /\ MaxTokens \in Nat /\ MaxForms \in Nat
  BY GateAssumption DEF GateIInv, TokensInv, FormsInv, TokensTyped, Session, GateAssumption
<1>3. row \in Token /\ row.owner = s.user /\ row.late = late
  BY <1>2 DEF Token, GrantedRole, Role
<1> HIDE DEF row, late
<1>4. /\ DOMAIN tokens' = DOMAIN tokens \cup {tid} /\ tokens'[tid] = row
      /\ \A t \in DOMAIN tokens : tokens'[t] = tokens[t]
  BY <1>1
<1>5. TokensTyped'
  BY <1>1, <1>2, <1>3, <1>4, FS_AddElement DEF TokensTyped, GateIInv, TokensInv
<1>6. late \/ (s.user \in DOMAIN users /\ ~users[s.user].mustChange)
  <2>1. CASE \E l \in Live : l.sid = s.sid
    <3>1. PICK l \in Live : l.sid = s.sid
      BY <2>1
    <3>2. s.user = l.user /\ ~l.mustChange
      BY <3>1 DEF GateIInv, TokensInv, FormsInv
    <3>3. l.user \in DOMAIN users /\ l.mustChange = users[l.user].mustChange
      BY DEF GateIInv, SessionsInv, SessionsHaveOwners, GateInStep
    <3> QED
      BY <3>2, <3>3
  <2> QED
    BY <2>1 DEF late
<1>7. TokensHaveOwners'
  BY <1>1, <1>3, <1>4, <1>6 DEF TokensHaveOwners, GateIInv, TokensInv
<1>8. OwedInv'
  <2> SUFFICES ASSUME NEW n \in DOMAIN users, users[n].mustChange,
                      NEW t \in DOMAIN tokens', tokens'[t].owner = n
               PROVE  tokens'[t].late
    BY <1>1 DEF OwedInv, Owned
  <2>1. CASE t = tid
    BY <2>1, <1>3, <1>4, <1>6
  <2>2. CASE t # tid
    BY <2>2, <1>4 DEF OwedInv, Owned, GateIInv, TokensInv
  <2> QED
    BY <2>1, <2>2
<1>9. ASSUME NEW n \in Names
      PROVE  Cardinality(Owned(n)') + Cardinality(Asking(n)') < MaxTokens + MaxForms
  <2> DEFINE have == Owned(n)
             ask == Asking(n)
  <2>1. have \in SUBSET DOMAIN tokens /\ ask \in SUBSET minting
    BY DEF Owned, Asking
  <2>2. /\ IsFiniteSet(have) /\ Cardinality(have) \in Nat
        /\ IsFiniteSet(ask) /\ Cardinality(ask) \in Nat
    <3> HIDE DEF have, ask
    <3> QED
      BY <1>2, <2>1, FS_Subset, FS_CardinalityType
  <2>3. Cardinality(have) + Cardinality(ask) < MaxTokens + MaxForms
    BY DEF GateIInv, TokensInv, LimitInv
  <2>4. CASE s.user = n
    <3>1. Owned(n)' = have \cup {tid} /\ Asking(n)' = ask \ {s} /\ tid \notin have /\ s \in ask
      BY <1>1, <1>3, <1>4, <2>4 DEF Owned, Asking
    <3> HIDE DEF have, ask
    <3>2. Cardinality(have \cup {tid}) = Cardinality(have) + 1
      BY <2>2, <3>1, FS_AddElement
    <3>3. Cardinality(ask \ {s}) = Cardinality(ask) - 1
      BY <2>2, <3>1, FS_RemoveElement
    <3> QED
      BY <1>2, <2>2, <2>3, <3>1, <3>2, <3>3
  <2>5. CASE s.user # n
    <3>1. Owned(n)' = have /\ Asking(n)' = ask
      BY <1>1, <1>3, <1>4, <2>5 DEF Owned, Asking
    <3> QED
      BY <2>3, <3>1
  <2> QED
    BY <2>4, <2>5
<1> QED
  BY <1>5, <1>7, <1>8, <1>9 DEF LimitInv

\* Every step keeps the tokens and the requests under way in step with the accounts.
LEMMA NextTokens == GateIInv /\ [GateNext]_gateVars => TokensInv'
<1> SUFFICES ASSUME GateIInv, [GateNext]_gateVars PROVE TokensInv'
  OBVIOUS
<1>1. /\ IInv /\ SessionsInv /\ TokensTyped /\ TokensHaveOwners /\ FormsInv /\ OwedInv /\ LimitInv
      /\ [Next]_vars
  BY GateStepIsStep DEF GateIInv, TokensInv
<1>2. ASSUME NEW n \in Names, CutsTokens(n), UNCHANGED <<minting, cookies>>
      PROVE  TokensInv'
  <2>1. /\ Delete(n) \/ SetMustChange(n, TRUE) \/ \E pw \in Passwords : Reset(n, pw)
        /\ tokens' = [t \in DOMAIN tokens \ Owned(n) |-> tokens[t]]
    BY <1>2 DEF CutsTokens, CutTokens, Without
  <2>2. /\ DOMAIN tokens' \subseteq DOMAIN tokens
        /\ \A t \in DOMAIN tokens' : tokens'[t] = tokens[t] /\ tokens[t].owner # n
    BY <2>1 DEF Owned
  <2>3. TokensTyped' /\ LimitInv'
    BY <1>1, <1>2, <2>2, FewerTokens DEF TokensTyped
  <2>4. FormsInv'
    BY <1>1, <1>2, FormsStep
  <2>5. /\ DOMAIN users \ {n} \subseteq DOMAIN users'
        /\ \A m \in DOMAIN users' \ {n} : m \in DOMAIN users /\ users'[m] = users[m]
    BY <2>1 DEF Delete, SetMustChange, Reset
  <2>6. TokensHaveOwners'
    BY <1>1, <2>2, <2>5 DEF TokensHaveOwners
  <2>7. OwedInv'
    BY <1>1, <2>2, <2>5 DEF OwedInv, Owned
  <2> QED
    BY <2>3, <2>4, <2>6, <2>7 DEF TokensInv
<1>3. ASSUME GateRestart \/ SessionStep \/ (\E n \in Names : LeavesTokens(n)),
             UNCHANGED tokens, minting' \subseteq minting, cookies' \subseteq Cids
      PROVE  TokensInv'
  <2>1. TokensTyped' /\ LimitInv'
    BY <1>1, <1>3, FewerTokens
  <2>3. FormsInv'
    BY <1>1, <1>3, FormsStep
  <2>4. /\ DOMAIN users \subseteq DOMAIN users'
        /\ \A m \in DOMAIN users : users'[m].mustChange => users[m].mustChange
    BY <1>1, <1>3, OwedStep
  <2>5. TokensHaveOwners'
    BY <1>1, <1>3, <2>4 DEF TokensHaveOwners
  <2>6. OwedInv'
    BY <1>1, <1>3, <2>4 DEF OwedInv, Owned, TokensHaveOwners
  <2> QED
    BY <2>1, <2>3, <2>5, <2>6 DEF TokensInv
<1>4. ASSUME NEW s \in Live, BeginMint(s) PROVE TokensInv'
  <2>1. users' = users /\ tokens' = tokens /\ cookies' = cookies
    BY <1>4 DEF BeginMint
  <2>2. TokensTyped' /\ TokensHaveOwners' /\ OwedInv'
    BY <1>1, <2>1 DEF TokensTyped, TokensHaveOwners, OwedInv, Owned
  <2> QED
    BY <1>4, <2>2, BeginMintStep DEF TokensInv
<1>5. ASSUME NEW s \in minting, NEW tid \in Tids, NEW want \in Role, Mint(s, tid, want)
      PROVE  TokensInv'
  <2>1. minting' \subseteq minting
    BY <1>5 DEF Mint
  <2>2. FormsInv'
    BY <1>1, <2>1, FormsStep
  <2> QED
    BY <1>5, <2>2, MintStep DEF TokensInv
<1>6. ASSUME \/ \E s \in minting : AbandonMint(s)
             \/ \E tid \in Tids : RevokeToken(tid)
             \/ \E cid \in Cids : SwapForCookie(cid) \/ DropCookie(cid)
             \/ UNCHANGED gateVars
      PROVE  TokensInv'
  <2>1. /\ users' = users /\ minting' \subseteq minting /\ cookies' \subseteq Cids
        /\ DOMAIN tokens' \subseteq DOMAIN tokens
        /\ \A t \in DOMAIN tokens' : tokens'[t] = tokens[t]
    BY <1>1, <1>6
       DEF AbandonMint, RevokeToken, Without, SwapForCookie, DropCookie, gateVars, TokensTyped
  <2>2. TokensTyped' /\ LimitInv'
    BY <1>1, <2>1, FewerTokens
  <2>3. FormsInv'
    BY <1>1, <2>1, FormsStep
  <2>4. TokensHaveOwners' /\ OwedInv'
    BY <1>1, <2>1 DEF TokensHaveOwners, OwedInv, Owned
  <2> QED
    BY <2>2, <2>3, <2>4 DEF TokensInv
<1>7. CASE GateRestart
  <2>1. UNCHANGED tokens /\ minting' \subseteq minting /\ cookies' \subseteq Cids
    BY <1>7 DEF GateRestart
  <2> QED
    BY <1>3, <1>7, <2>1
<1>8. CASE /\ SessionStep \/ \E n \in Names : CutsTokens(n) \/ LeavesTokens(n)
           /\ UNCHANGED <<minting, cookies>>
  <2>1. CASE SessionStep \/ \E n \in Names : LeavesTokens(n)
    <3>1. UNCHANGED tokens /\ minting' \subseteq minting /\ cookies' \subseteq Cids
      BY <1>1, <1>8, <2>1 DEF SessionStep, LeavesTokens, TokensTyped
    <3> QED
      BY <1>3, <2>1, <3>1
  <2>2. CASE \E n \in Names : CutsTokens(n)
    BY <1>2, <1>8, <2>2
  <2> QED
    BY <1>8, <2>1, <2>2
<1> QED
  BY <1>4, <1>5, <1>6, <1>7, <1>8 DEF GateNext

LEMMA NextGateIInv == GateIInv /\ [GateNext]_gateVars => GateIInv'
<1> SUFFICES ASSUME GateIInv, [GateNext]_gateVars PROVE GateIInv'
  OBVIOUS
<1>1. IInv' /\ SessionsInv'
  BY GateStepIsStep, NextIInv, NextSessions DEF GateIInv
<1> QED
  BY <1>1, NextTokens DEF GateIInv

LEMMA GateSafe == GateSpec => []GateIInv
BY InitGateIInv, NextGateIInv, PTL DEF GateSpec

\* The gate runs the account operations and nothing else on the accounts: each of its
\* behaviours is one of Accounts, so what is proved there holds here
\* (app.py:1330-1617).
THEOREM GateIsAccounts == GateSpec => Spec
<1>1. GateInit => Init
  BY DEF GateInit
<1>2. GateIInv /\ [GateNext]_gateVars => [Next]_vars
  BY GateStepIsStep DEF GateIInv
<1> QED
  BY <1>1, <1>2, GateSafe, PTL DEF GateSpec, Spec

\* Under the gate too, an account with the admin role is left (db.py:2176-2182).
THEOREM LastAdminStaysAtTheGate == GateSpec => []AdminRemains
BY GateIsAccounts, LastAdminStays, PTL

\* Sessions, tokens and the requests creating some stay in step with the accounts
\* they act for, and nobody gets past the limit on tokens by more than the forms
\* being read (app.py:1385-1438, 1550-1617, db.py:2187-2198).
THEOREM CredentialsStayInStep == GateSpec => []CredentialsInStep
<1>1. GateIInv => CredentialsInStep
  <2> SUFFICES ASSUME GateIInv PROVE CredentialsInStep
    OBVIOUS
  <2>1. TypeOK /\ SessionsHaveOwners /\ GateInStep
    BY InvIsTyped DEF GateIInv, SessionsInv
  <2>2. GateTypeOK
    BY <2>1 DEF GateTypeOK, GateIInv, TokensInv, TokensTyped, FormsInv
  <2>3. ASSUME NEW n \in Names PROVE Cardinality(Owned(n)) < MaxTokens + MaxForms
    <3>1. /\ Owned(n) \in SUBSET DOMAIN tokens /\ Asking(n) \in SUBSET minting
          /\ IsFiniteSet(DOMAIN tokens) /\ IsFiniteSet(minting)
      BY DEF Owned, Asking, GateIInv, TokensInv, TokensTyped, FormsInv
    <3>2. IsFiniteSet(Owned(n)) /\ IsFiniteSet(Asking(n))
      BY <3>1, FS_Subset
    <3>3. Cardinality(Owned(n)) \in Nat /\ Cardinality(Asking(n)) \in Nat
      BY <3>2, FS_CardinalityType
    <3>4. Cardinality(Owned(n)) + Cardinality(Asking(n)) < MaxTokens + MaxForms
          /\ MaxTokens \in Nat /\ MaxForms \in Nat
      BY GateAssumption DEF GateIInv, TokensInv, LimitInv, GateAssumption
    <3> QED
      BY <3>3, <3>4
  <2>4. TokenLimit
    BY <2>3 DEF TokenLimit
  <2> QED
    BY <2>1, <2>2, <2>4 DEF CredentialsInStep, GateIInv, TokensInv
<1> QED
  BY <1>1, GateSafe, PTL

-----------------------------------------------------------------------------
\* A request shows one session at most, and none beside the role of its user.
LEMMA SessionRole ==
  ASSUME GateIInv, NEW c, NEW s \in SessionOf(c)
  PROVE  RoleOf(c) = users[s.user].role /\ users[s.user].role \in Role
<1>1. /\ s \in Live /\ s.sid = c.sid /\ s.user \in DOMAIN users
      /\ users[s.user] \in User
  BY DEF SessionOf, GateIInv, IInv
<1>2. users[s.user].role \in Role
  BY <1>1 DEF User
<1>3. \A r \in SessionOf(c) : r = s
  BY <1>1, SameSid DEF SessionOf, GateIInv, SessionsInv
<1>4. RoleOf(c) = CHOOSE r \in Role : \E t \in SessionOf(c) : users[t.user].role = r
  BY DEF RoleOf
<1>5. \A r \in Role : (\E t \in SessionOf(c) : users[t.user].role = r) <=> r = users[s.user].role
  BY <1>2, <1>3
<1> QED
  BY <1>2, <1>4, <1>5

\* What makes an administrator: a session or a token of an enabled one, or a token of
\* an enabled user beside a cookie for the shared one.
LEMMA AdminHasCause ==
  ASSUME GateIInv, NEW c \in Creds, RoleOf(c) = "admin", ~OnlyShared(c)
  PROVE  \E n \in Names : Vouches(n, c) /\ (users[n].role = "admin" \/ TokenBesideCookie(c))
<1>1. DOMAIN users \subseteq Names
  BY DEF GateIInv, SessionsInv
<1>2. CASE SessionOf(c) # {}
  <2>1. PICK s \in SessionOf(c) : TRUE
    BY <1>2
  <2>2. RoleOf(c) = users[s.user].role
    BY SessionRole
  <2>3. s.user \in Names /\ Vouches(s.user, c) /\ users[s.user].role = "admin"
    BY <1>1, <2>2 DEF SessionOf, Vouches
  <2> QED
    BY <2>3
<1>3. CASE SessionOf(c) = {}
  <2>1. PatOf(c) # {}
    BY <1>3 DEF OnlyShared, RoleOf
  <2>2. /\ c.bearer \in DOMAIN tokens /\ tokens[c.bearer].owner \in DOMAIN users
        /\ ~users[tokens[c.bearer].owner].disabled
    BY <2>1 DEF PatOf
  <2>3. tokens[c.bearer].owner \in Names /\ Vouches(tokens[c.bearer].owner, c)
    BY <1>1, <2>2 DEF Vouches, Owned
  <2>4. CASE ShowsShared(c)
    BY <1>3, <2>1, <2>3, <2>4 DEF TokenBesideCookie
  <2>5. CASE ~ShowsShared(c)
    <3>1. TokenRole(c.bearer) = "admin"
      BY <1>3, <2>1, <2>5 DEF RoleOf
    <3>2. users[tokens[c.bearer].owner].role = "admin"
      BY <3>1 DEF TokenRole
    <3> QED
      BY <2>3, <3>2
  <2> QED
    BY <2>4, <2>5
<1> QED
  BY <1>2, <1>3

\* Whoever is let into the administration, or is shown cost figures, has a session or
\* a token of someone who is an enabled administrator at that moment, or a token of an
\* enabled user beside a cookie for the shared token
\* (app.py:763-764, 779-780, 784-799, 1596-1601, db.py:2941-2945).
THEOREM OnlyAdminsAdminister == GateSpec => []AdminsOnly
<1>1. GateIInv => AdminsOnly
  <2> SUFFICES ASSUME GateIInv, NEW c \in Creds,
                      Served(c, "admin", TRUE) \/ Served(c, "spend", TRUE) \/ EffectiveRole(c) = "admin"
               PROVE  RoleOf(c) = "admin" /\ ~OnlyShared(c)
    BY AdminHasCause DEF AdminsOnly
  <2>1. CASE Served(c, "admin", TRUE)
    BY <2>1 DEF Served
  <2>2. CASE Served(c, "spend", TRUE)
    BY <2>2 DEF Served
  <2>3. CASE EffectiveRole(c) = "admin"
    BY <2>3 DEF EffectiveRole
  <2> QED
    BY <2>1, <2>2, <2>3
<1> QED
  BY <1>1, GateSafe, PTL

\* The shared token and its cookies reach neither the alert settings nor the
\* administration and see no cost, and add nothing to a login session
\* (app.py:757-764, 771-777, 1013-1018).
THEOREM SharedTokenStaysOut == GateSpec => []SharedTokenKeptOut
<1>1. SharedTokenKeptOut
  <2>1. ASSUME NEW c \in Creds, SessionOf(c) = {}, PatOf(c) = {}
        PROVE  /\ EffectiveRole(c) # "admin"
               /\ \A p \in {"alerts", "admin"} : ~Served(c, p, FALSE)
    <3>1. CASE ShowsShared(c)
      <4>1. OnlyShared(c) /\ RoleOf(c) = "admin"
        BY <2>1, <3>1 DEF OnlyShared, RoleOf
      <4> QED
        BY <4>1 DEF EffectiveRole, Served
    <3>2. CASE ~ShowsShared(c)
      <4>1. RoleOf(c) = "none"
        BY <2>1, <3>2 DEF RoleOf
      <4> QED
        BY <4>1 DEF EffectiveRole, Served
    <3> QED
      BY <3>1, <3>2
  <2>2. ASSUME NEW c \in Creds, SessionOf(c) # {}
        PROVE  AddsNothing(c)
    <3> DEFINE d == Unshared(c)
    <3>1. d.sid = c.sid
      BY DEF Unshared, Creds
    <3>2. SessionOf(d) = SessionOf(c)
      BY <3>1 DEF SessionOf
    <3> HIDE DEF d
    <3>3. RoleOf(d) = RoleOf(c) /\ ~OnlyShared(d) /\ ~OnlyShared(c) /\ MustChange(d) = MustChange(c)
      BY <2>2, <3>2 DEF RoleOf, OnlyShared, MustChange
    <3>4. EffectiveRole(d) = EffectiveRole(c)
      BY <3>3 DEF EffectiveRole
    <3>5. ASSUME NEW p, NEW spendAdmin \in BOOLEAN
          PROVE  Served(d, p, spendAdmin) = Served(c, p, spendAdmin)
      BY <3>3 DEF Served
    <3>6. /\ EffectiveRole(c) = EffectiveRole(d)
          /\ \A p \in Paths : Served(c, p, TRUE) = Served(d, p, TRUE)
          /\ Served(c, "spend", FALSE) = Served(d, "spend", FALSE)
      BY <3>4, <3>5
    <3> QED
      BY <3>6 DEF AddsNothing, d
  <2> QED
    BY <2>1, <2>2 DEF SharedTokenKeptOut
<1> QED
  BY <1>1, PTL

\* Whoever owes a new password reaches nothing but the page to set it, by no session,
\* and has no token save one whose creation was under way when its session ended
\* (app.py:1005-1012, 1583, 1591).
THEOREM OwingConfines == GateSpec => []MustChangeConfines
<1>1. GateIInv => MustChangeConfines
  <2> SUFFICES ASSUME GateIInv, NEW n \in DOMAIN users, users[n].mustChange
               PROVE  /\ \A t \in Owned(n) : tokens[t].late
                      /\ \A c \in Creds : (\E s \in SessionOf(c) : s.user = n) => ~Served(c, "plain", FALSE)
    BY DEF MustChangeConfines
  <2>1. \A t \in Owned(n) : tokens[t].late
    BY DEF GateIInv, TokensInv, OwedInv
  <2>2. ASSUME NEW c \in Creds, NEW s \in SessionOf(c), s.user = n
        PROVE  ~Served(c, "plain", FALSE)
    <3>1. s.mustChange
      BY <2>2 DEF SessionOf, GateIInv, SessionsInv, GateInStep
    <3> QED
      BY <3>1 DEF MustChange, Served
  <2> QED
    BY <2>1, <2>2
<1> QED
  BY <1>1, GateSafe, PTL
=============================================================================
