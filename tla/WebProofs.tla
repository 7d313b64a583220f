----------------------------- MODULE WebProofs ------------------------------
(***************************************************************************)
(* What stands before the handlers, and the figures behind them.           *)
(*                                                                         *)
(* The brute-force protection, for any thresholds, windows and sentences   *)
(* and any number of addresses, accounts and logins on their way: nothing  *)
(* is locked without the failures for it, no lock is prolonged by knocking *)
(* and pruning is not noticed.  The event streams, for any clients, caps,  *)
(* number of requests and intervals: the counts of the streams are the     *)
(* streams there are, and a client that lost its credential is sent no     *)
(* more than the frames of one interval.                                   *)
(*                                                                         *)
(* The figures, after the lemmas about sums they rest on: the split of the *)
(* work in flight, the counters and the charts.  Their invariants only say *)
(* what was recorded; that the figures worked out from it agree is proved  *)
(* of every state these allow.                                             *)
(***************************************************************************)
EXTENDS Lockout, Streams, Figures, Functions, FiniteSetTheorems, SequenceTheorems,
        WellFoundedInduction, TLAPS

Entry == [began : Seq(Nat), ended : Seq(Nat), until : Nat]

\* An entry at time t: every failure ended when it had begun, they were appended in
\* the order of their ends, and there are too few of them for a lock.
Sound(e, k, t) ==
    /\ Len(e.began) = Len(e.ended) /\ Len(e.began) < Threshold(k)
    /\ e.until <= t + Sentence(k)
    /\ \A i \in 1..Len(e.began) : 1 <= e.began[i] /\ e.began[i] <= e.ended[i] /\ e.ended[i] <= t
    /\ \A i, j \in 1..Len(e.began) : i <= j => e.ended[i] <= e.ended[j]

SoundBook(b, t) == b \in [Key -> Entry] /\ \A k \in Key : Sound(b[k], k, t)

LoginsInv == logins \subseteq [ip : Ips, at : 1..now, id : 1..MaxLogins]

IInv == now \in Nat \ {0} /\ SoundBook(book, now) /\ LoginsInv /\ LockOnEvidence

LEMMA Constants ==
  /\ WindowS \in Nat
  /\ \A k \in Key : Threshold(k) \in Nat \ {0} /\ Sentence(k) \in Nat \ {0}
BY LockoutAssumption DEF LockoutAssumption, Threshold, Sentence

-----------------------------------------------------------------------------
\* The positions up to which everything is in G are as many as the longest prefix
\* of G is long.
LEMMA LongestPrefix ==
  ASSUME NEW L \in Nat, NEW G
  PROVE  LET n == Cardinality({i \in 1..L : 1..i \subseteq G})
         IN  n \in 0..L /\ (n < L => n + 1 \notin G) /\ (1..L \subseteq G => n = L)
<1> DEFINE S == {i \in 1..L : 1..i \subseteq G}
           n == Cardinality(S)
<1>1. IsFiniteSet(1..L) /\ Cardinality(1..L) = L
  BY FS_Interval
<1>2. S \in SUBSET (1..L)
  OBVIOUS
<1>3. IsFiniteSet(S) /\ n \in Nat /\ n <= L /\ (n = L => S = 1..L)
  BY <1>1, <1>2, FS_Subset, FS_CardinalityType
<1>4. ASSUME NEW i \in S PROVE 1..i \in SUBSET S
  OBVIOUS
<1>5. ASSUME NEW i \in 1..L, 1..i \subseteq G PROVE i \in S
  BY <1>5
<1>6. S \subseteq G
  <2> SUFFICES ASSUME NEW i \in S PROVE i \in G
    OBVIOUS
  <2> QED
    BY i \in 1..i
<1> HIDE DEF S
<1>7. S \in SUBSET (1..n)
  <2> SUFFICES ASSUME NEW i \in S PROVE i <= n
    BY <1>2, <1>3
  <2>1. i \in Nat /\ IsFiniteSet(1..i) /\ Cardinality(1..i) = i
    BY <1>2, FS_Interval
  <2> QED
    BY <2>1, <1>3, <1>4, FS_Subset
<1>8. S = 1..n
  <2>1. IsFiniteSet(1..n) /\ Cardinality(1..n) = n
    BY <1>3, FS_Interval
  <2> QED
    BY <2>1, <1>3, <1>7, FS_Subset
<1>9. n < L => n + 1 \notin G
  <2> SUFFICES ASSUME n < L, n + 1 \in G PROVE FALSE
    OBVIOUS
  <2>1. n + 1 \in 1..L /\ 1..(n + 1) \subseteq G
    BY <1>3, <1>6, <1>8
  <2>2. n + 1 \in S
    BY <2>1, <1>5
  <2> QED
    BY <2>2, <1>3, <1>8
<1>10. ASSUME 1..L \subseteq G PROVE n = L
  <2>1. S = 1..L
    <3> SUFFICES ASSUME NEW i \in 1..L PROVE i \in S
      BY <1>2
    <3> QED
      BY <1>5, <1>10, 1..i \subseteq 1..L
  <2> QED
    BY <2>1, <1>1
<1> QED
  BY <1>3, <1>9, <1>10 DEF S

\* The deque loses a prefix, and what is then at its head is in the window
\* (app.py:1274-1275).
LEMMA StaleIsPrefix ==
  ASSUME NEW e \in Entry, NEW at \in Nat
  PROVE  /\ Stale(e, at) \in 0..Len(e.began)
         /\ Stale(e, at) < Len(e.began) => at <= e.began[Stale(e, at) + 1] + WindowS
         /\ (\A i \in 1..Len(e.began) : at > e.began[i] + WindowS) => Stale(e, at) = Len(e.began)
<1> DEFINE L == Len(e.began)
           G == {j \in 1..L : at > e.began[j] + WindowS}
           n == Cardinality({i \in 1..L : 1..i \subseteq G})
<1>1. /\ L \in Nat /\ DOMAIN e.began = 1..L /\ WindowS \in Nat
      /\ \A i \in 1..L : e.began[i] \in Nat
  BY Constants DEF Entry
<1>2. {i \in DOMAIN e.began : \A j \in 1..i : at > e.began[j] + WindowS}
        = {i \in 1..L : 1..i \subseteq G}
  BY <1>1
<1>3. Stale(e, at) = n
  BY <1>2 DEF Stale
<1>4. n \in 0..L /\ (n < L => n + 1 \notin G) /\ (1..L \subseteq G => n = L)
  <2> HIDE DEF G
  <2> QED
    BY <1>1, LongestPrefix
<1> HIDE DEF n
<1>5. n < L => at <= e.began[n + 1] + WindowS
  BY <1>1, <1>4
<1>6. (\A i \in 1..L : at > e.began[i] + WindowS) => n = L
  BY <1>4
<1> QED
  BY <1>3, <1>4, <1>5, <1>6

\* What is kept of a deque is its tail (app.py:1274-1287).
LEMMA KeptIsTail ==
  ASSUME NEW e \in Entry, NEW at \in Nat, NEW q \in Seq(Nat), Len(q) = Len(e.began)
  PROVE  /\ Kept(e, q, at) \in Seq(Nat)
         /\ Len(Kept(e, q, at)) = Len(q) - Stale(e, at)
         /\ \A i \in 1..Len(Kept(e, q, at)) : Kept(e, q, at)[i] = q[Stale(e, at) + i]
<1> DEFINE s == Stale(e, at)
<1>1. s \in 0..Len(q) /\ Len(q) \in Nat
  BY StaleIsPrefix
<1>2. s + 1 \in Int /\ Len(q) \in Int /\ \A i \in (s + 1)..Len(q) : q[i] \in Nat
  BY <1>1
<1>3. /\ SubSeq(q, s + 1, Len(q)) \in Seq(Nat)
      /\ Len(SubSeq(q, s + 1, Len(q)))
           = IF s + 1 <= Len(q) THEN Len(q) - (s + 1) + 1 ELSE 0
      /\ \A i \in 1..(Len(q) - (s + 1) + 1) : SubSeq(q, s + 1, Len(q))[i] = q[s + 1 + i - 1]
  BY <1>2, SubSeqProperties
<1>4. Kept(e, q, at) = SubSeq(q, s + 1, Len(q))
  BY DEF Kept
<1> HIDE DEF s
<1>5. Len(Kept(e, q, at)) = Len(q) - s
  BY <1>1, <1>3, <1>4
<1>6. ASSUME NEW i \in 1..(Len(q) - s) PROVE Kept(e, q, at)[i] = q[s + i]
  <2>1. i \in 1..(Len(q) - (s + 1) + 1) /\ s + 1 + i - 1 = s + i
    BY <1>1
  <2> QED
    BY <2>1, <1>3, <1>4
<1> QED
  BY <1>3, <1>4, <1>5, <1>6 DEF s

-----------------------------------------------------------------------------
LEMMA MakeSound ==
  ASSUME NEW k \in Key, NEW t \in Nat, NEW x \in Seq(Nat), NEW y \in Seq(Nat), NEW u \in Nat,
         Len(x) = Len(y), Len(x) < Threshold(k), u <= t + Sentence(k),
         \A i \in 1..Len(x) : 1 <= x[i] /\ x[i] <= y[i] /\ y[i] <= t,
         \A i, j \in 1..Len(x) : i <= j => y[i] <= y[j]
  PROVE  LET r == [began |-> x, ended |-> y, until |-> u] IN r \in Entry /\ Sound(r, k, t)
BY DEF Entry, Sound

\* An empty entry is sound (app.py:1302-1305).
LEMMA CleanSound == ASSUME NEW k \in Key, NEW t \in Nat PROVE Clean \in Entry /\ Sound(Clean, k, t)
BY Constants DEF Clean, Entry, Sound

\* It stays sound as time goes by.
LEMMA SoundLater ==
  ASSUME NEW t \in Nat, NEW b, SoundBook(b, t)
  PROVE  SoundBook(b, t + 1)
<1> SUFFICES ASSUME NEW k \in Key PROVE Sound(b[k], k, t + 1)
  BY DEF SoundBook
<1>1. b[k] \in Entry /\ Sound(b[k], k, t) /\ Sentence(k) \in Nat
  BY Constants DEF SoundBook
<1> DEFINE e == b[k]
<1>2. /\ Len(e.began) = Len(e.ended) /\ Len(e.began) < Threshold(k)
      /\ e.until <= t + Sentence(k)
      /\ \A i \in 1..Len(e.began) : 1 <= e.began[i] /\ e.began[i] <= e.ended[i] /\ e.ended[i] <= t
      /\ \A i, j \in 1..Len(e.began) : i <= j => e.ended[i] <= e.ended[j]
  BY <1>1 DEF Sound
<1>3. e.ended \in Seq(Nat) /\ e.until \in Nat
  BY <1>1 DEF Entry
<1> HIDE DEF e
<1>4. e.until <= t + 1 + Sentence(k)
  BY <1>1, <1>2, <1>3
<1>5. \A i \in 1..Len(e.began) : e.ended[i] <= t + 1
  <2> TAKE i \in 1..Len(e.began)
  <2>1. e.ended[i] \in Nat /\ e.ended[i] <= t
    BY <1>2, <1>3
  <2> QED
    BY <2>1
<1>6. Sound(e, k, t + 1)
  BY <1>2, <1>4, <1>5 DEF Sound
<1> QED
  BY <1>6 DEF e

\* _prune_auth_state takes whole deques and whole locks (app.py:841-853).
LEMMA PrunedSound ==
  ASSUME now \in Nat, SoundBook(book, now)
  PROVE  SoundBook(Pruned, now)
<1>1. CASE Size < PruneAt
  BY <1>1 DEF Pruned
<1>2. CASE ~(Size < PruneAt)
  <2> DEFINE P(k) == [until |-> IF Over(book[k]) THEN 0 ELSE book[k].until,
                      began |-> IF Idle(book[k]) THEN << >> ELSE book[k].began,
                      ended |-> IF Idle(book[k]) THEN << >> ELSE book[k].ended]
  <2>1. Pruned = [k \in Key |-> P(k)]
    BY <1>2 DEF Pruned
  <2>2. ASSUME NEW k \in Key PROVE P(k) \in Entry /\ Sound(P(k), k, now)
    <3>1. book[k] \in Entry /\ Sound(book[k], k, now)
      BY DEF SoundBook
    <3> DEFINE u == IF Over(book[k]) THEN 0 ELSE book[k].until
    <3>2. u \in Nat /\ u <= now + Sentence(k)
      BY <3>1, Constants DEF Entry, Sound
    <3>3. CASE Idle(book[k])
      <4>1. P(k) = [began |-> << >>, ended |-> << >>, until |-> u]
        BY <3>3
      <4>2. << >> \in Seq(Nat) /\ Len(<< >>) = 0 /\ 0 < Threshold(k) /\ 1..0 = {}
        BY Constants
      <4> HIDE DEF P, u
      <4> QED
        BY <3>2, <4>1, <4>2, MakeSound
    <3>4. CASE ~Idle(book[k])
      <4> DEFINE x == book[k].began
                 y == book[k].ended
      <4>1. P(k) = [began |-> x, ended |-> y, until |-> u]
        BY <3>4
      <4>2. /\ x \in Seq(Nat) /\ y \in Seq(Nat) /\ Len(x) = Len(y) /\ Len(x) < Threshold(k)
            /\ \A i \in 1..Len(x) : 1 <= x[i] /\ x[i] <= y[i] /\ y[i] <= now
            /\ \A i, j \in 1..Len(x) : i <= j => y[i] <= y[j]
        BY <3>1 DEF Entry, Sound
      <4> HIDE DEF P, u, x, y
      <4> QED
        BY <3>2, <4>1, <4>2, MakeSound
    <3> QED
      BY <3>3, <3>4
  <2> HIDE DEF P
  <2> QED
    BY <2>1, <2>2 DEF SoundBook
<1> QED
  BY <1>1, <1>2

\* A deque that is cut at its head and gets one more failure at its end, begun at
\* time at, keeps the order and the window (app.py:4261-4270).
LEMMA KeptSound ==
  ASSUME NEW k \in Key, NEW e \in Entry, NEW t \in Nat, Sound(e, k, t), NEW at \in 1..t
  PROVE  LET b == Append(Kept(e, e.began, at), at)
             d == Append(Kept(e, e.ended, at), t)
         IN  /\ b \in Seq(Nat) /\ d \in Seq(Nat) /\ Len(b) = Len(d)
             /\ Len(b) = Len(Kept(e, e.began, at)) + 1
             /\ \A i \in 1..Len(b) : 1 <= b[i] /\ b[i] <= d[i] /\ d[i] <= t
             /\ \A i, j \in 1..Len(b) : i <= j => d[i] <= d[j]
             /\ \A i \in 1..Len(b) : at <= d[i] + WindowS
<1> DEFINE b0 == Kept(e, e.began, at)
           d0 == Kept(e, e.ended, at)
           s == Stale(e, at)
           L == Len(e.began)
           n == L - s
           b == Append(b0, at)
           d == Append(d0, t)
<1> HIDE DEF b, d
<1>1. /\ e.began \in Seq(Nat) /\ e.ended \in Seq(Nat) /\ L \in Nat /\ Len(e.ended) = L
      /\ \A i \in 1..L : e.began[i] \in Nat /\ e.ended[i] \in Nat
  BY DEF Entry, Sound
<1>2. /\ at \in Nat /\ WindowS \in Nat /\ s \in 0..L
      /\ s < L => at <= e.began[s + 1] + WindowS
  <2>1. at \in Nat /\ WindowS \in Nat
    BY Constants
  <2>2. s \in 0..L /\ (s < L => at <= e.began[s + 1] + WindowS)
    BY <2>1, StaleIsPrefix
  <2> QED
    BY <2>1, <2>2
<1>3. n \in Nat
  BY <1>1, <1>2
<1>4. b0 \in Seq(Nat) /\ Len(b0) = n /\ \A i \in 1..Len(b0) : b0[i] = e.began[s + i]
  BY <1>1, <1>2, KeptIsTail
<1>5. d0 \in Seq(Nat) /\ Len(d0) = n /\ \A i \in 1..Len(d0) : d0[i] = e.ended[s + i]
  <2>1. Len(e.ended) = Len(e.began)
    BY <1>1
  <2>2. /\ d0 \in Seq(Nat) /\ Len(d0) = Len(e.ended) - s
        /\ \A i \in 1..Len(d0) : d0[i] = e.ended[s + i]
    BY <1>1, <1>2, <2>1, KeptIsTail
  <2> QED
    BY <2>1, <2>2
<1>6. \A i \in 1..L : 1 <= e.began[i] /\ e.began[i] <= e.ended[i] /\ e.ended[i] <= t
  BY DEF Sound
<1>7. \A i, j \in 1..L : i <= j => e.ended[i] <= e.ended[j]
  BY DEF Sound
<1> HIDE DEF b0, d0, s, L
<1>8. ASSUME NEW i \in 1..n
      PROVE  /\ 1 <= b0[i] /\ b0[i] <= d0[i] /\ d0[i] <= t
             /\ at <= d0[i] + WindowS
             /\ b0[i] \in Nat /\ d0[i] \in Nat
  <2>5. i \in Int /\ 1 <= i /\ i <= L - s
    BY <1>3
  <2>6. L \in Nat /\ s \in Nat /\ s <= L
    BY <1>1, <1>2
  <2>1. s + i \in 1..L /\ s + 1 \in 1..L /\ s < L /\ s + 1 <= s + i
    BY ONLY <2>5, <2>6
  <2>2. b0[i] = e.began[s + i] /\ d0[i] = e.ended[s + i]
    BY <1>4, <1>5
  <2> HIDE DEF n
  <2>3. e.began[s + 1] <= e.ended[s + 1] /\ e.ended[s + 1] <= e.ended[s + i]
    BY <1>6, <1>7, <2>1
  <2>4. at <= e.ended[s + i] + WindowS
    <3>1. at <= e.began[s + 1] + WindowS
      BY <1>2, <2>1
    <3>2. e.began[s + 1] \in Nat /\ e.ended[s + 1] \in Nat /\ e.ended[s + i] \in Nat
      BY <1>1, <2>1
    <3> QED
      BY <3>1, <3>2, <2>3, <1>2
  <2> QED
    BY <1>1, <1>6, <2>1, <2>2, <2>4
<1>9. ASSUME NEW i \in 1..n, NEW j \in 1..n, i <= j PROVE d0[i] <= d0[j]
  <2>1. s + i \in 1..L /\ s + j \in 1..L /\ s + i <= s + j
    BY <1>1, <1>2, <1>9
  <2>2. d0[i] = e.ended[s + i] /\ d0[j] = e.ended[s + j]
    BY <1>5
  <2> QED
    BY <1>7, <2>1, <2>2
<1> HIDE DEF n
<1>10. /\ b \in Seq(Nat) /\ Len(b) = n + 1 /\ b[n + 1] = at /\ \A i \in 1..n : b[i] = b0[i]
       /\ d \in Seq(Nat) /\ Len(d) = n + 1 /\ d[n + 1] = t /\ \A i \in 1..n : d[i] = d0[i]
  BY <1>2, <1>3, <1>4, <1>5 DEF b, d
<1>11. \A i \in 1..(n + 1) : i = n + 1 \/ i \in 1..n
  BY <1>3
<1>12. \A i \in 1..(n + 1) : 1 <= b[i] /\ b[i] <= d[i] /\ d[i] <= t /\ at <= d[i] + WindowS
  <2> SUFFICES ASSUME NEW i \in 1..(n + 1)
               PROVE  1 <= b[i] /\ b[i] <= d[i] /\ d[i] <= t /\ at <= d[i] + WindowS
    OBVIOUS
  <2>1. CASE i = n + 1
    BY <1>2, <1>10, <2>1
  <2>2. CASE i \in 1..n
    BY <1>8, <1>10, <2>2
  <2> QED
    BY <1>11, <2>1, <2>2
<1>13. ASSUME NEW i \in 1..(n + 1), NEW j \in 1..(n + 1), i <= j PROVE d[i] <= d[j]
  <2>1. CASE j = n + 1
    BY <1>10, <1>12, <2>1
  <2>2. CASE i \in 1..n /\ j \in 1..n
    BY <1>9, <1>10, <1>13, <2>2
  <2> QED
    BY <1>3, <1>11, <1>13, <2>1, <2>2
<1>14. Len(b) = Len(b0) + 1 /\ Len(b) = Len(d)
  BY <1>4, <1>10
<1>15. /\ \A i \in 1..Len(b) : 1 <= b[i] /\ b[i] <= d[i] /\ d[i] <= t /\ at <= d[i] + WindowS
       /\ \A i, j \in 1..Len(b) : i <= j => d[i] <= d[j]
  BY <1>10, <1>12, <1>13
<1> QED
  BY <1>10, <1>14, <1>15 DEF b, d, b0, d0

\* A failure leaves a sound book, and what it locks it locks on evidence
\* (app.py:4261-4270, 1277-1291).
LEMMA StruckSound ==
  ASSUME now \in Nat, NEW b, SoundBook(b, now), NEW keys \in SUBSET Key, NEW at \in 1..now
  PROVE  SoundBook(Struck(b, keys, at), now)
<1> DEFINE new(k) == IF k \notin keys THEN b[k]
                     ELSE IF Fills(b, k, at) THEN [Clean EXCEPT !.until = at + Sentence(k)]
                     ELSE [b[k] EXCEPT !.began = Append(Kept(b[k], @, at), at),
                                       !.ended = Append(Kept(b[k], @, at), now)]
<1>1. Struck(b, keys, at) = [k \in Key |-> new(k)]
  BY DEF Struck
<1>2. ASSUME NEW k \in Key PROVE new(k) \in Entry /\ Sound(new(k), k, now)
  <2>1. b[k] \in Entry /\ Sound(b[k], k, now)
    BY DEF SoundBook
  <2>2. CASE k \notin keys
    BY <2>1, <2>2
  <2>3. CASE k \in keys /\ Fills(b, k, at)
    <3>1. new(k) = [began |-> << >>, ended |-> << >>, until |-> at + Sentence(k)]
      BY <2>3 DEF Clean
    <3>2. << >> \in Seq(Nat) /\ Len(<< >>) = 0 /\ 0 < Threshold(k) /\ 1..0 = {}
      BY Constants
    <3>3. at + Sentence(k) \in Nat /\ at + Sentence(k) <= now + Sentence(k)
      BY Constants
    <3> HIDE DEF new
    <3> QED
      BY <3>1, <3>2, <3>3, MakeSound
  <2>4. CASE k \in keys /\ ~Fills(b, k, at)
    <3> DEFINE x == Append(Kept(b[k], b[k].began, at), at)
               y == Append(Kept(b[k], b[k].ended, at), now)
    <3>1. new(k) = [began |-> x, ended |-> y, until |-> b[k].until]
      BY <2>1, <2>4 DEF Entry
    <3>2. /\ x \in Seq(Nat) /\ y \in Seq(Nat) /\ Len(x) = Len(y)
          /\ Len(x) = Len(Kept(b[k], b[k].began, at)) + 1
          /\ \A i \in 1..Len(x) : 1 <= x[i] /\ x[i] <= y[i] /\ y[i] <= now
          /\ \A i, j \in 1..Len(x) : i <= j => y[i] <= y[j]
      BY <2>1, KeptSound
    <3>3. Len(x) < Threshold(k)
      BY <2>4, <3>2, Constants DEF Fills
    <3>4. b[k].until \in Nat /\ b[k].until <= now + Sentence(k)
      BY <2>1 DEF Entry, Sound
    <3> HIDE DEF x, y, new
    <3> QED
      BY <3>1, <3>2, <3>3, <3>4, MakeSound
  <2> QED
    BY <2>2, <2>3, <2>4
<1> HIDE DEF new
<1> QED
  BY <1>1, <1>2 DEF SoundBook

LEMMA ChargesSound ==
  ASSUME now \in Nat, NEW b, SoundBook(b, now), NEW keys \in SUBSET Key, NEW at \in 1..now,
         NEW c \in ChargesOf(b, keys, at)
  PROVE  /\ Len(c.ends) >= Threshold(c.key)
         /\ \A i \in DOMAIN c.ends : c.ends[i] + WindowS >= c.at
<1>1. PICK k \in keys : Fills(b, k, at)
         /\ c = [key |-> k, at |-> at, ends |-> Append(Kept(b[k], b[k].ended, at), now)]
  BY DEF ChargesOf
<1> DEFINE d == Append(Kept(b[k], b[k].ended, at), now)
<1>2. b[k] \in Entry /\ Sound(b[k], k, now) /\ k \in Key
  BY DEF SoundBook
<1>3. /\ d \in Seq(Nat) /\ Len(d) = Len(Kept(b[k], b[k].began, at)) + 1
      /\ \A i \in 1..Len(d) : at <= d[i] + WindowS
  BY <1>2, KeptSound
<1>4. Len(d) >= Threshold(k)
  BY <1>1, <1>3 DEF Fills
<1>5. c.ends = d /\ c.key = k /\ c.at = at
  BY <1>1
<1> HIDE DEF d
<1>6. \A i \in 1..Len(d) : d[i] \in Nat /\ DOMAIN d = 1..Len(d)
  BY <1>3
<1> QED
  BY <1>3, <1>4, <1>5, <1>6, Constants

-----------------------------------------------------------------------------
\* Every handler ends in one of three ways (app.py:975-1000).
LEMMA OutcomeSound ==
  ASSUME now \in Nat, NEW b, SoundBook(b, now), NEW keys \in SUBSET Key, NEW at \in 1..now,
         NEW overtaken, Refuse(b) \/ Acquit(b, keys) \/ Strike(b, keys, at, overtaken)
  PROVE  SoundBook(book', now) /\ LockOnEvidence'
<1>1. CASE Refuse(b)
  BY <1>1 DEF Refuse, LockOnEvidence
<1>2. CASE Acquit(b, keys)
  <2>1. ASSUME NEW k \in Key PROVE book'[k] \in Entry /\ Sound(book'[k], k, now)
    BY <1>2, <2>1, CleanSound DEF Acquit, Wiped, SoundBook
  <2> QED
    BY <1>2, <2>1 DEF Acquit, Wiped, SoundBook, LockOnEvidence
<1>3. CASE Strike(b, keys, at, overtaken)
  BY <1>3, StruckSound, ChargesSound DEF Strike, LockOnEvidence
<1> QED
  BY <1>1, <1>2, <1>3

LEMMA CleanBook == ASSUME NEW t \in Nat PROVE SoundBook([k \in Key |-> Clean], t)
BY CleanSound DEF SoundBook

\* No failure is recorded at first.
LEMMA InitIInv == Init => IInv
BY CleanBook DEF Init, IInv, LoginsInv, LockOnEvidence

\* Every handler keeps the invariant, by whichever clock it judges.
LEMMA NextIInv == IInv /\ [Next]_vars => IInv'
<1> SUFFICES ASSUME IInv, [Next]_vars PROVE IInv'
  OBVIOUS
<1>0. /\ now \in Nat /\ now \in 1..now /\ SoundBook(book, now) /\ SoundBook(Pruned, now)
      /\ LoginsInv /\ \A k \in Key : {k} \in SUBSET Key
      /\ Ips \subseteq Key /\ Names \subseteq Key
  BY PrunedSound DEF IInv, Key
<1>1. CASE Tick
  <2>1. SoundBook(book, now + 1)
    BY <1>0, SoundLater
  <2>2. LoginsInv'
    BY <1>0, <1>1 DEF Tick, LoginsInv
  <2> QED
    BY <1>0, <1>1, <2>1, <2>2 DEF Tick, Refuse, IInv, LockOnEvidence
<1>2. CASE Restart
  BY <1>0, <1>2, CleanBook DEF Restart, Acquit, Wiped, IInv, LoginsInv, LockOnEvidence
<1>3. CASE NoToken
  <2>1. SoundBook(book', now) /\ LockOnEvidence'
    BY <1>0, <1>3 DEF NoToken, Refuse, LockOnEvidence
  <2> QED
    BY <1>3, <2>1, <1>0 DEF NoToken, IInv, LoginsInv
<1>4. ASSUME NEW ip \in Ips, ValidRequest(ip) \/ WrongToken(ip) PROVE IInv'
  <2>1. SoundBook(book', now) /\ LockOnEvidence'
    BY <1>0, <1>4, OutcomeSound DEF ValidRequest, WrongToken
  <2> QED
    BY <1>4, <2>1, <1>0 DEF ValidRequest, WrongToken, IInv, LoginsInv
<1>5. ASSUME NEW ip \in Ips, NEW valid \in BOOLEAN, Scrape(ip, valid) PROVE IInv'
  <2>1. SoundBook(book', now) /\ LockOnEvidence'
    BY <1>0, <1>5, OutcomeSound DEF Scrape
  <2> QED
    BY <1>5, <2>1, <1>0 DEF Scrape, IInv, LoginsInv
<1>6. ASSUME NEW ip \in Ips, NEW id \in 1..MaxLogins, BeginLogin(ip, id) PROVE IInv'
  <2>1. SoundBook(book', now) /\ LockOnEvidence'
    BY <1>0, <1>6 DEF BeginLogin, Refuse, LockOnEvidence
  <2>2. LoginsInv'
    BY <1>6, <1>0 DEF BeginLogin, LoginsInv
  <2> QED
    BY <1>6, <2>1, <2>2, <1>0 DEF BeginLogin, IInv
<1>7. ASSUME NEW l \in logins, NEW n \in Names, NEW right \in BOOLEAN, EndLogin(l, n, right)
      PROVE  IInv'
  <2>1. l.ip \in Ips /\ l.at \in 1..now /\ {l.ip, n} \in SUBSET Key
    BY <1>0 DEF LoginsInv
  <2>2. SoundBook(book', now) /\ LockOnEvidence'
    BY <1>0, <1>7, <2>1, OutcomeSound DEF EndLogin
  <2> QED
    BY <1>7, <2>2, <1>0 DEF EndLogin, IInv, LoginsInv
<1>8. CASE UNCHANGED vars
  BY <1>8 DEF vars, IInv, LoginsInv, LockOnEvidence
<1> QED
  BY <1>1, <1>2, <1>3, <1>4, <1>5, <1>6, <1>7, <1>8 DEF Next

LEMMA Inductive == Spec => []IInv
BY InitIInv, NextIInv, PTL DEF Spec

-----------------------------------------------------------------------------
LEMMA SeqInRange ==
  ASSUME NEW q \in Seq(Nat), NEW t \in Nat, \A i \in 1..Len(q) : 1 <= q[i] /\ q[i] <= t
  PROVE  q \in Seq(1..t)
<1>1. \A i \in 1..Len(q) : q[i] \in 1..t
  OBVIOUS
<1>2. q \in [1..Len(q) -> 1..t] /\ Len(q) \in Nat
  BY <1>1
<1> QED
  BY <1>2, SeqDef

LEMMA IInvTypes == IInv => TypeOK
<1> SUFFICES ASSUME IInv PROVE TypeOK
  OBVIOUS
<1>1. now \in Nat /\ DOMAIN book = Key /\ logins \subseteq [ip : Ips, at : 1..now, id : 1..MaxLogins]
  BY DEF IInv, SoundBook, LoginsInv
<1>2. ASSUME NEW k \in Key
      PROVE  /\ book[k].began \in Seq(1..now) /\ book[k].ended \in Seq(1..now)
             /\ Len(book[k].began) = Len(book[k].ended)
             /\ Len(book[k].began) < Threshold(k)
             /\ book[k].until \in 0..(now + Sentence(k))
  <2> DEFINE x == book[k].began
             y == book[k].ended
  <2>1. book[k] \in Entry /\ Sound(book[k], k, now)
    BY DEF IInv, SoundBook
  <2>2. /\ x \in Seq(Nat) /\ y \in Seq(Nat) /\ Len(x) = Len(y) /\ Len(x) < Threshold(k)
        /\ book[k].until \in Nat /\ book[k].until <= now + Sentence(k)
    BY <2>1 DEF Entry, Sound
  <2>3. \A i \in 1..Len(x) : 1 <= x[i] /\ x[i] <= y[i] /\ y[i] <= now
    BY <2>1 DEF Sound
  <2> HIDE DEF x, y
  <2>4. \A i \in 1..Len(x) : 1 <= x[i] /\ x[i] <= now /\ 1 <= y[i] /\ y[i] <= now
    <3> SUFFICES ASSUME NEW i \in 1..Len(x)
                 PROVE  1 <= x[i] /\ x[i] <= now /\ 1 <= y[i] /\ y[i] <= now
      OBVIOUS
    <3>1. x[i] \in Nat /\ y[i] \in Nat
      BY <2>2
    <3> QED
      BY <1>1, <2>3, <3>1
  <2>5. x \in Seq(1..now) /\ y \in Seq(1..now)
    BY <1>1, <2>2, <2>4, SeqInRange
  <2>6. book[k].until \in 0..(now + Sentence(k))
    BY <1>1, <2>2, Constants
  <2> QED
    BY <2>2, <2>5, <2>6 DEF x, y
<1> QED
  BY <1>1, <1>2 DEF TypeOK

\* Nothing is locked without cause, whatever the thresholds and however the login
\* forms dawdle (app.py:980-987, 1270-1290).
THEOREM LocksAreJustified == Spec => []LocksJustified
<1>1. IInv => LocksJustified
  BY IInvTypes DEF IInv, LocksJustified
<1> QED
  BY <1>1, Inductive, PTL

-----------------------------------------------------------------------------
\* An entry e beside the one, f, of a book that was never pruned, at time t: f's
\* failures are in order; what e lacks of f no longer counts by any of the clocks C.
Twin(e, f, C, t) ==
    /\ f \in Entry
    /\ \A i, j \in 1..Len(f.began) : i <= j => f.began[i] <= f.began[j]
    /\ \A i \in 1..Len(f.began) : f.began[i] <= t
    /\ \/ e.began = f.began
       \/ e.began = << >> /\ \A at \in C : \A i \in 1..Len(f.began) : at > f.began[i] + WindowS
    /\ \/ e.until = f.until
       \/ e.until = 0 /\ \A at \in C : f.until <= at

\* The books agree but for keys a late attempt has struck.
Twins(b, C) == full \in [Key -> Entry] /\ \A k \in Key \ slow : Twin(b[k], full[k], C, now)

PruneInv == IInv /\ older \subseteq logins /\ (\A l \in older : l.at < now) /\ Twins(book, Clocks)

LEMMA ClocksAreNat == ASSUME IInv PROVE Clocks \subseteq 0..now /\ now \in Clocks /\ now \in Nat
BY DEF IInv, LoginsInv, Clocks

\* A deque of failures that are all stale counts nothing (app.py:1274-1275).
LEMMA AllStale ==
  ASSUME NEW e \in Entry, NEW at \in Nat, \A i \in 1..Len(e.began) : at > e.began[i] + WindowS
  PROVE  Kept(e, e.began, at) = << >>
<1> DEFINE q == e.began
<1>1. Stale(e, at) = Len(q)
  BY StaleIsPrefix
<1>2. q \in Seq(Nat) /\ Len(q) \in Nat
  BY DEF Entry
<1> HIDE DEF q
<1>3. SubSeq(q, Len(q) + 1, Len(q)) = << >>
  BY <1>2, SubSeqEmpty
<1> QED
  BY <1>1, <1>3 DEF Kept, q

\* By each of the clocks both entries lock, and count, alike.
LEMMA TwinsAgree ==
  ASSUME NEW e \in Entry, NEW f, NEW C \in SUBSET Nat, NEW t, Twin(e, f, C, t), NEW at \in C
  PROVE  /\ (e.until > at) = (f.until > at)
         /\ Kept(e, e.began, at) = Kept(f, f.began, at)
<1>1. f \in Entry /\ at \in Nat /\ e.until \in Nat /\ f.until \in Nat
  BY DEF Twin, Entry
<1>2. (e.until > at) = (f.until > at)
  <2>1. e.until = f.until \/ (e.until = 0 /\ f.until <= at)
    BY DEF Twin
  <2> QED
    BY <1>1, <2>1
<1>3. CASE e.began = f.began
  <2>1. Kept(e, e.began, at) = Kept(f, f.began, at)
    BY <1>3 DEF Kept, Stale
  <2> QED
    BY <1>2, <2>1
<1>4. CASE e.began # f.began
  <2>1. e.began = << >> /\ \A i \in 1..Len(f.began) : at > f.began[i] + WindowS
    BY <1>4 DEF Twin
  <2>2. \A i \in 1..Len(e.began) : at > e.began[i] + WindowS
    BY <2>1
  <2>3. Kept(e, e.began, at) = << >>
    BY <1>1, <2>2, AllStale
  <2>4. Kept(f, f.began, at) = << >>
    BY <1>1, <2>1, AllStale
  <2> QED
    BY <1>2, <2>3, <2>4
<1> QED
  BY <1>2, <1>3, <1>4

\* Clocks that are no earlier keep it so, and so does time.
LEMMA TwinLater ==
  ASSUME NEW e, NEW f, NEW C \in SUBSET Nat, NEW D \in SUBSET Nat, NEW t \in Nat, NEW u \in Nat,
         Twin(e, f, C, t), t <= u, \A d \in D : \E c \in C : c <= d
  PROVE  Twin(e, f, D, u)
<1>1. f \in Entry /\ f.until \in Nat /\ f.began \in Seq(Nat) /\ WindowS \in Nat
  BY Constants DEF Twin, Entry
<1>2. \A i \in 1..Len(f.began) : f.began[i] \in Nat /\ f.began[i] <= u
  <2> TAKE i \in 1..Len(f.began)
  <2>1. f.began[i] \in Nat /\ f.began[i] <= t
    BY <1>1 DEF Twin
  <2> QED
    BY <2>1
<1>3. ASSUME \A c \in C : \A i \in 1..Len(f.began) : c > f.began[i] + WindowS
      PROVE  \A d \in D : \A i \in 1..Len(f.began) : d > f.began[i] + WindowS
  <2> TAKE d \in D
  <2> TAKE i \in 1..Len(f.began)
  <2>1. PICK c \in C : c <= d
    OBVIOUS
  <2>2. c > f.began[i] + WindowS /\ c \in Nat /\ d \in Nat /\ f.began[i] \in Nat
    BY <1>2, <1>3
  <2> QED
    BY <1>1, <2>1, <2>2
<1>4. ASSUME \A c \in C : f.until <= c PROVE \A d \in D : f.until <= d
  <2> TAKE d \in D
  <2>1. PICK c \in C : c <= d
    OBVIOUS
  <2> QED
    BY <1>1, <1>4, <2>1
<1> QED
  BY <1>1, <1>2, <1>3, <1>4 DEF Twin

LEMMA TwinsLater ==
  ASSUME NEW b, NEW C \in SUBSET Nat, NEW D \in SUBSET Nat, now \in Nat, Twins(b, C),
         \A d \in D : \E c \in C : c <= d
  PROVE  Twins(b, D)
BY TwinLater DEF Twins

\* What is pruned no longer counts now (app.py:841-853).
LEMMA PrunedTwin ==
  ASSUME NEW k \in Key, NEW C \in SUBSET Nat, NEW f, now \in C, SoundBook(book, now),
         ~(Size < PruneAt), Twin(book[k], f, C, now)
  PROVE  Twin(Pruned[k], f, {now}, now)
<1> DEFINE e == book[k]
           p == Pruned[k]
<1>1. /\ e \in Entry /\ f \in Entry /\ now \in Nat /\ WindowS \in Nat
      /\ e.began \in Seq(Nat) /\ f.began \in Seq(Nat) /\ f.until \in Nat
  BY Constants DEF SoundBook, Twin, Entry
<1>2. p = [until |-> IF Over(e) THEN 0 ELSE e.until,
           began |-> IF Idle(e) THEN << >> ELSE e.began,
           ended |-> IF Idle(e) THEN << >> ELSE e.ended]
  BY DEF Pruned
<1>3. p.until = IF Over(e) THEN 0 ELSE e.until
  BY <1>2
<1>4. p.began = IF Idle(e) THEN << >> ELSE e.began
  BY <1>2
<1>5. /\ \A i, j \in 1..Len(f.began) : i <= j => f.began[i] <= f.began[j]
      /\ \A i \in 1..Len(f.began) : f.began[i] <= now
      /\ e.began = f.began \/ (e.began = << >> /\ \A i \in 1..Len(f.began) : now > f.began[i] + WindowS)
      /\ e.until = f.until \/ (e.until = 0 /\ f.until <= now)
  BY DEF Twin
<1> HIDE DEF e, p
<1>6. p.until = f.until \/ (p.until = 0 /\ f.until <= now)
  BY <1>1, <1>3, <1>5 DEF Over
<1>7. p.began = f.began \/ (p.began = << >> /\ \A i \in 1..Len(f.began) : now > f.began[i] + WindowS)
  <2>1. CASE ~Idle(e) \/ e.began # f.began \/ e.began = << >>
    BY <1>4, <1>5, <2>1 DEF Idle
  <2>2. CASE Idle(e) /\ e.began = f.began /\ e.began # << >>
    <3> DEFINE q == f.began
               n == Len(q)
    <3>1. n \in Nat /\ n \in 1..n /\ q[n] \in Nat /\ \A i \in 1..n : q[i] \in Nat
      BY <1>1, <2>2
    <3>2. now > q[n] + WindowS
      BY <2>2 DEF Idle, Last
    <3>3. \A i \in 1..n : q[i] <= q[n]
      BY <1>5, <3>1
    <3> HIDE DEF q, n
    <3>4. \A i \in 1..n : now > q[i] + WindowS
      BY <1>1, <3>1, <3>2, <3>3
    <3> QED
      BY <1>4, <2>2, <3>4 DEF q, n
  <2> QED
    BY <2>1, <2>2
<1> QED
  BY <1>1, <1>5, <1>6, <1>7 DEF Twin, p

\* A failure that is not late is counted, or locks, in both books alike
\* (app.py:4261-4270, 1273-1290).
LEMMA StruckTwin ==
  ASSUME now \in Nat, NEW b, SoundBook(b, now), full \in [Key -> Entry], NEW C \in SUBSET Nat,
         NEW keys \in SUBSET Key, NEW at \in 1..now, NEW late, NEW k \in Key \ late,
         Twin(b[k], full[k], C, now),
         k \in keys => at \in C /\ ~(full[k].began # << >> /\ at < Last(full[k].began))
  PROVE  Twin(Struck(b, keys, at)[k], Unpruned(Struck(full, keys, at), late)[k], C, now)
<1> DEFINE e == b[k]
           f == full[k]
           d == Struck(b, keys, at)[k]
           h == Struck(full, keys, at)[k]
           g == Unpruned(Struck(full, keys, at), late)[k]
<1>1. /\ e \in Entry /\ f \in Entry /\ now \in Nat /\ f.began \in Seq(Nat) /\ f.until \in Nat
      /\ e.began \in Seq(Nat) /\ at \in Nat /\ at <= now /\ Sentence(k) \in Nat
  BY Constants DEF SoundBook, Entry
<1>2. /\ \A i, j \in 1..Len(f.began) : i <= j => f.began[i] <= f.began[j]
      /\ \A i \in 1..Len(f.began) : f.began[i] <= now
  BY DEF Twin
<1>3. g = [began |-> h.began, ended |-> << >>, until |-> h.until]
  BY DEF Unpruned
<1>4. CASE k \notin keys
  <2>1. d = e /\ h = f
    BY <1>4 DEF Struck
  <2>2. g \in Entry /\ g.began = f.began /\ g.until = f.until
    BY <1>1, <1>3, <2>1 DEF Entry
  <2>3. Twin(e, f, C, now)
    OBVIOUS
  <2> HIDE DEF d, g, e, f, h
  <2>4. Twin(e, g, C, now)
    BY <2>2, <2>3 DEF Twin
  <2> QED
    BY <2>1, <2>4 DEF d, g, e, f, h
<1>5. CASE k \in keys
  <2> DEFINE q == Kept(f, f.began, at)
  <2>1. q = Kept(e, e.began, at) /\ (Fills(b, k, at) <=> Fills(full, k, at))
    <3>1. Kept(e, e.began, at) = Kept(f, f.began, at)
      BY <1>1, <1>5, TwinsAgree
    <3> QED
      BY <3>1 DEF Fills
  <2>2. CASE Fills(b, k, at)
    <3>1. d = [Clean EXCEPT !.until = at + Sentence(k)] /\ h = d
      BY <1>5, <2>1, <2>2 DEF Struck
    <3>2. g = [began |-> << >>, ended |-> << >>, until |-> at + Sentence(k)] /\ d = g
      BY <1>3, <3>1 DEF Clean
    <3> HIDE DEF d, g, h
    <3>3. g \in Entry /\ Len(g.began) = 0 /\ d.began = g.began /\ d.until = g.until
      BY <1>1, <3>2 DEF Entry
    <3>4. Twin(d, g, C, now)
      BY <3>3 DEF Twin
    <3> QED
      BY <3>4 DEF d, g, h
  <2>3. CASE ~Fills(b, k, at)
    <3> DEFINE s == Stale(f, at)
               L == Len(f.began)
               r == Append(q, at)
    <3>1. /\ d = [e EXCEPT !.began = Append(Kept(e, @, at), at), !.ended = Append(Kept(e, @, at), now)]
          /\ h = [f EXCEPT !.began = Append(Kept(f, @, at), at), !.ended = Append(Kept(f, @, at), now)]
      BY <1>5, <2>1, <2>3 DEF Struck
    <3>2. d.began = r /\ g.began = r /\ d.until = e.until /\ g.until = f.until
      <4>1. h.began = Append(Kept(f, f.began, at), at) /\ h.until = f.until
        BY <1>1, <3>1 DEF Entry
      <4>2. d.began = Append(Kept(e, e.began, at), at) /\ d.until = e.until
        BY <1>1, <3>1 DEF Entry
      <4> HIDE DEF d, h, e, f
      <4> QED
        BY <1>3, <2>1, <4>1, <4>2
    <3>3. /\ q \in Seq(Nat) /\ s \in 0..L /\ L \in Nat /\ Len(q) = L - s
          /\ \A i \in 1..Len(q) : q[i] = f.began[s + i]
      <4>1. Len(f.began) = Len(f.began) /\ L \in Nat
        BY <1>1
      <4>2. s \in 0..L
        BY <1>1, StaleIsPrefix
      <4>3. /\ q \in Seq(Nat) /\ Len(q) = L - s
            /\ \A i \in 1..Len(q) : q[i] = f.began[s + i]
        BY <1>1, <4>1, KeptIsTail
      <4> HIDE DEF q, s, L
      <4> QED
        BY <4>1, <4>2, <4>3
    <3>4. g \in Entry
      <4>1. r \in Seq(Nat)
        BY <1>1, <3>3
      <4>2. g = [began |-> r, ended |-> << >>, until |-> f.until]
        BY <1>1, <1>3, <3>1 DEF Entry
      <4> QED
        BY <1>1, <4>1, <4>2 DEF Entry
    <3>5. \A i \in 1..L : f.began[i] \in Nat /\ f.began[i] <= at
      <4> TAKE i \in 1..L
      <4>1. f.began # << >> /\ L \in 1..L /\ f.began[L] \in Nat /\ f.began[i] \in Nat
        <5>1. \A x \in Seq(Nat) : \A j \in 1..Len(x) :
                  x # << >> /\ Len(x) \in 1..Len(x) /\ x[Len(x)] \in Nat /\ x[j] \in Nat
          OBVIOUS
        <5> QED
          BY <1>1, <5>1
      <4>2. ~(at < f.began[L])
        BY <1>5, <4>1 DEF Last
      <4>3. f.began[i] <= f.began[L]
        BY <1>2, <4>1, <3>3
      <4> QED
        BY <1>1, <4>1, <4>2, <4>3
    <3>6. /\ Len(r) = Len(q) + 1 /\ r[Len(q) + 1] = at
          /\ \A i \in 1..Len(q) : r[i] = q[i]
      BY <3>3, <1>1
    <3> DEFINE w == f.began
    <3>7. /\ \A i \in 1..L : w[i] \in Nat /\ w[i] <= at
          /\ \A i, j \in 1..L : i <= j => w[i] <= w[j]
          /\ \A i \in 1..Len(q) : q[i] = w[s + i]
      BY <1>2, <3>3, <3>5
    <3> HIDE DEF d, g, h, s, L, r, q, e, f, w
    <3>8. \A i \in 1..Len(q) : q[i] <= at /\ q[i] \in Nat
      <4> TAKE i \in 1..Len(q)
      <4>1. s + i \in 1..L
        BY <3>3
      <4> QED
        BY <3>7, <4>1
    <3>9. \A i, j \in 1..Len(r) : i <= j => r[i] <= r[j]
      <4> SUFFICES ASSUME NEW i \in 1..Len(r), NEW j \in 1..Len(r), i <= j PROVE r[i] <= r[j]
        OBVIOUS
      <4>0. Len(q) \in Nat
        BY <3>3
      <4>1. CASE j = Len(q) + 1
        <5>1. i \in 1..Len(q) \/ i = j
          BY <3>6, <4>0, <4>1
        <5>2. r[j] = at
          BY <3>6, <4>1
        <5>3. CASE i = j
          BY <1>1, <5>2, <5>3
        <5>4. CASE i \in 1..Len(q)
          BY <3>6, <3>8, <5>2, <5>4
        <5> QED
          BY <5>1, <5>3, <5>4
      <4>2. CASE j # Len(q) + 1
        <5>1. i \in 1..Len(q) /\ j \in 1..Len(q)
          BY <3>6, <4>0, <4>2
        <5>2. s + i \in 1..L /\ s + j \in 1..L /\ s + i <= s + j
          BY <3>3, <5>1
        <5> QED
          BY <3>6, <3>7, <5>1, <5>2
      <4> QED
        BY <4>1, <4>2
    <3>10. \A i \in 1..Len(r) : r[i] <= now
      <4> TAKE i \in 1..Len(r)
      <4>0. Len(q) \in Nat
        BY <3>3
      <4>1. i = Len(q) + 1 \/ i \in 1..Len(q)
        BY <3>6, <4>0
      <4>2. r[i] \in Nat /\ r[i] <= at
        BY <1>1, <3>6, <3>8, <4>1
      <4> QED
        BY <1>1, <4>2
    <3>11. e.until = f.until \/ (e.until = 0 /\ \A c \in C : f.until <= c)
      BY DEF Twin, e, f
    <3>12. Twin(d, g, C, now)
      BY <3>2, <3>4, <3>9, <3>10, <3>11 DEF Twin
    <3> QED
      BY <3>12 DEF d, g, h, e, f
  <2> QED
    BY <2>2, <2>3
<1> QED
  BY <1>4, <1>5

\* So with each of the three ways in which a handler ends (app.py:975-1000).
LEMMA OutcomeTwins ==
  ASSUME now \in Nat, NEW b, SoundBook(b, now), NEW C \in SUBSET Nat, Twins(b, C),
         NEW keys \in SUBSET Key, NEW at \in 1..now, NEW overtaken \in BOOLEAN,
         overtaken \/ at \in C,
         Refuse(b) \/ Acquit(b, keys) \/ Strike(b, keys, at, overtaken)
  PROVE  /\ full' \in [Key -> Entry]
         /\ \A k \in Key \ slow' : Twin(book'[k], full'[k], C, now)
<1>0. full \in [Key -> Entry] /\ \A k \in Key \ slow : Twin(b[k], full[k], C, now)
  BY DEF Twins
<1>1. CASE Refuse(b)
  BY <1>0, <1>1 DEF Refuse
<1>2. Clean \in Entry /\ Clean.began = << >> /\ Clean.until = 0 /\ Len(<< >>) = 0
  BY DEF Clean, Entry
<1>3. Twin(Clean, Clean, C, now)
  BY <1>2 DEF Twin
<1>4. CASE Acquit(b, keys)
  <2>1. full' \in [Key -> Entry]
    BY <1>0, <1>2, <1>4 DEF Acquit, Wiped
  <2>2. ASSUME NEW k \in Key \ slow' PROVE Twin(book'[k], full'[k], C, now)
    <3>1. CASE k \in keys
      BY <1>3, <1>4, <3>1 DEF Acquit, Wiped
    <3>2. CASE k \notin keys
      <4>1. k \in Key \ slow /\ book'[k] = b[k] /\ full'[k] = full[k]
        BY <1>4, <2>2, <3>2 DEF Acquit, Wiped
      <4> QED
        BY <1>0, <4>1
    <3> QED
      BY <3>1, <3>2
  <2> QED
    BY <2>1, <2>2
<1>5. CASE Strike(b, keys, at, overtaken)
  <2>1. ASSUME NEW k \in Key \ slow' PROVE Twin(book'[k], full'[k], C, now)
    <3>1. /\ book' = Struck(b, keys, at) /\ full' = Unpruned(Struck(full, keys, at), slow')
          /\ k \in Key \ slow
          /\ k \in keys => at \in C /\ ~(full[k].began # << >> /\ at < Last(full[k].began))
      BY <1>5 DEF Strike
    <3> QED
      BY <1>0, <3>1, StruckTwin
  <2>2. ASSUME NEW k \in Key
        PROVE  /\ Struck(full, keys, at)[k].began \in Seq(Nat)
               /\ Struck(full, keys, at)[k].until \in Nat
    <3>1. full[k] \in Entry /\ full[k].began \in Seq(Nat) /\ at \in Nat /\ Sentence(k) \in Nat
      BY <1>0, Constants DEF Entry
    <3>2. CASE k \notin keys
      BY <3>1, <3>2 DEF Struck, Entry
    <3>3. CASE k \in keys /\ Fills(full, k, at)
      <4>1. Struck(full, keys, at)[k] = [Clean EXCEPT !.until = at + Sentence(k)]
        BY <3>3 DEF Struck
      <4> QED
        BY <3>1, <4>1 DEF Clean
    <3>4. CASE k \in keys /\ ~Fills(full, k, at)
      <4> DEFINE q == Append(Kept(full[k], full[k].began, at), at)
                 r == Append(Kept(full[k], full[k].ended, at), now)
      <4>1. Struck(full, keys, at)[k] = [full[k] EXCEPT !.began = q, !.ended = r]
        BY <3>4 DEF Struck
      <4>2. q \in Seq(Nat)
        BY <3>1, KeptIsTail
      <4> QED
        BY <3>1, <4>1, <4>2 DEF Entry
    <3> QED
      BY <3>2, <3>3, <3>4
  <2>3. full' \in [Key -> Entry]
    <3> DEFINE g(k) == [began |-> Struck(full, keys, at)[k].began, ended |-> << >>,
                        until |-> Struck(full, keys, at)[k].until]
    <3>1. full' = [k \in Key |-> IF k \in slow' THEN Clean ELSE g(k)]
      <4>1. full' = Unpruned(Struck(full, keys, at), slow')
        BY <1>5 DEF Strike
      <4> QED
        BY <4>1, Zenon DEF Unpruned
    <3>2. ASSUME NEW k \in Key PROVE g(k) \in Entry
      BY <2>2 DEF Entry
    <3> HIDE DEF g
    <3> QED
      BY <1>2, <3>1, <3>2
  <2> QED
    BY <2>1, <2>3
<1> QED
  BY <1>1, <1>4, <1>5

LEMMA InitPruneInv == Init => PruneInv
<1> SUFFICES ASSUME Init PROVE PruneInv
  OBVIOUS
<1>1. Clean \in Entry /\ Clean.began = << >> /\ Clean.until = 0 /\ Len(<< >>) = 0
  BY DEF Clean, Entry
<1>2. Twin(Clean, Clean, Clocks, now)
  BY <1>1 DEF Twin
<1>3. Twins(book, Clocks)
  BY <1>1, <1>2 DEF Init, Twins
<1> QED
  BY <1>3, InitIInv DEF Init, PruneInv

\* The clocks of the next state are none but these, later ones and that of now.
LEMMA StepTwins ==
  ASSUME IInv, IInv', now' = now, NEW C \in SUBSET Nat, Clocks' \subseteq C,
         NEW b, SoundBook(b, now), Twins(b, C), NEW keys \in SUBSET Key, NEW at \in 1..now,
         NEW overtaken \in BOOLEAN, overtaken \/ at \in C,
         Refuse(b) \/ Acquit(b, keys) \/ Strike(b, keys, at, overtaken)
  PROVE  Twins(book, Clocks)'
<1>1. now \in Nat /\ Clocks' \in SUBSET Nat
  BY ClocksAreNat
<1>2. full' \in [Key -> Entry] /\ \A k \in Key \ slow' : Twin(book'[k], full'[k], C, now)
  BY <1>1, OutcomeTwins
<1>3. \A d \in Clocks' : \E c \in C : c <= d
  BY <1>1
<1>4. \A k \in Key \ slow' : Twin(book'[k], full'[k], Clocks', now)
  BY <1>1, <1>2, <1>3, TwinLater
<1> QED
  BY <1>2, <1>4 DEF Twins

\* Where the middleware looks first, the book is pruned or it is not (app.py:960).
LEMMA SweepTwins ==
  ASSUME PruneInv, Sweep, UNCHANGED <<now, logins>>
  PROVE  /\ older' \subseteq logins' /\ \A l \in older' : l.at < now'
         /\ \E C \in SUBSET Nat : now \in C /\ Clocks' \subseteq C /\ Twins(Pruned, C)
<1>0. Clocks \in SUBSET Nat /\ now \in Clocks /\ now \in Nat
  BY ClocksAreNat DEF PruneInv
<1>1. CASE Size < PruneAt
  <2>1. older' = older /\ Pruned = book
    BY <1>1 DEF Sweep, Pruned
  <2>2. Clocks' = Clocks
    BY <2>1 DEF Clocks
  <2> QED
    BY <1>0, <2>1, <2>2 DEF PruneInv
<1>2. CASE ~(Size < PruneAt)
  <2>1. older' = {l \in logins : l.at < now}
    BY <1>2 DEF Sweep
  <2>2. \A l \in logins : l.at \in 1..now
    BY DEF PruneInv, IInv, LoginsInv
  <2>3. Clocks' \subseteq {now}
    <3>1. \A l \in logins \ older' : l.at = now
      BY <1>0, <2>1, <2>2
    <3> QED
      BY <3>1 DEF Clocks
  <2>4. Twins(Pruned, {now})
    BY <1>0, <1>2, PrunedTwin DEF Twins, PruneInv, IInv
  <2>5. older' \subseteq logins' /\ \A l \in older' : l.at < now'
    BY <2>1
  <2> QED
    BY <1>0, <2>3, <2>4, <2>5
<1> QED
  BY <1>1, <1>2

LEMMA NextPruneInv == PruneInv /\ [Next]_vars => PruneInv'
<1> SUFFICES ASSUME PruneInv, [Next]_vars PROVE PruneInv'
  OBVIOUS
<1>0. /\ IInv /\ IInv' /\ now \in Nat /\ now \in 1..now /\ SoundBook(book, now) /\ SoundBook(Pruned, now)
      /\ Clocks \in SUBSET Nat /\ now \in Clocks /\ Twins(book, Clocks)
      /\ older \subseteq logins /\ \A l \in older : l.at < now
      /\ \A l \in logins : l.ip \in Ips /\ l.at \in 1..now
  BY NextIInv, PrunedSound, ClocksAreNat DEF PruneInv, IInv, LoginsInv
<1>1. CASE Tick
  <2>1. now' = now + 1 /\ older' = older /\ logins' = logins /\ book' = book /\ full' = full /\ slow' = slow
    BY <1>1 DEF Tick, Refuse
  <2>2. Clocks' \in SUBSET Nat /\ now' \in Nat /\ \A d \in Clocks' : \E c \in Clocks : c <= d
    <3>1. Clocks' = {now + 1} \cup {l.at : l \in logins \ older}
      BY <2>1 DEF Clocks
    <3>2. \A d \in Clocks' : d = now + 1 \/ d \in Clocks
      BY <3>1 DEF Clocks
    <3>3. now + 1 \in Nat /\ now <= now + 1 /\ \A d \in Clocks : d \in Nat /\ d <= d
      BY <1>0
    <3> HIDE DEF Clocks
    <3>4. \A d \in Clocks' : d \in Nat /\ \E c \in Clocks : c <= d
      BY <1>0, <3>2, <3>3
    <3> QED
      BY <2>1, <3>3, <3>4
  <2>3. \A k \in Key \ slow : Twin(book[k], full[k], Clocks', now')
    BY <1>0, <2>1, <2>2, TwinLater DEF Twins
  <2>4. \A l \in older' : l.at < now'
    BY <1>0, <2>1
  <2> QED
    BY <1>0, <2>1, <2>3, <2>4 DEF PruneInv, Twins
<1>2. CASE Restart
  <2>1. now' = now /\ older' = {} /\ logins' = {} /\ Acquit(book, Key) /\ Key \in SUBSET Key
    BY <1>2 DEF Restart
  <2>2. Clocks' \subseteq Clocks
    BY <2>1, <1>0 DEF Clocks
  <2>3. Twins(book, Clocks)'
    BY <1>0, <2>1, <2>2, StepTwins
  <2> QED
    BY <1>0, <2>1, <2>3 DEF PruneInv
<1>3. ASSUME NEW keys \in SUBSET Key, Sweep, UNCHANGED <<now, logins>>,
             Refuse(Pruned) \/ Acquit(Pruned, keys) \/ Strike(Pruned, keys, now, FALSE)
      PROVE  PruneInv'
  <2>1. /\ older' \subseteq logins' /\ \A l \in older' : l.at < now'
        /\ \E C \in SUBSET Nat : now \in C /\ Clocks' \subseteq C /\ Twins(Pruned, C)
    BY <1>3, SweepTwins
  <2>2. Twins(book, Clocks)'
    BY <1>0, <1>3, <2>1, StepTwins
  <2> QED
    BY <1>0, <2>1, <2>2 DEF PruneInv
<1>4. CASE NoToken
  BY <1>3, <1>4 DEF NoToken
<1>5. ASSUME NEW ip \in Ips, ValidRequest(ip) \/ WrongToken(ip) PROVE PruneInv'
  <2>1. {ip} \in SUBSET Key
    BY DEF Key
  <2> QED
    BY <1>3, <1>5, <2>1 DEF ValidRequest, WrongToken
<1>6. ASSUME UNCHANGED <<now, older>>, logins \subseteq logins', Clocks' \subseteq Clocks,
             NEW keys \in SUBSET Key,
             Refuse(book) \/ Acquit(book, keys) \/ Strike(book, keys, now, FALSE)
      PROVE  PruneInv'
  <2>1. Twins(book, Clocks)'
    BY <1>0, <1>6, StepTwins
  <2> QED
    BY <1>0, <1>6, <2>1 DEF PruneInv
<1>7. ASSUME NEW ip \in Ips, NEW valid \in BOOLEAN, Scrape(ip, valid) PROVE PruneInv'
  <2>1. {ip} \in SUBSET Key /\ Clocks' = Clocks
    BY <1>7 DEF Key, Scrape, Clocks
  <2> QED
    BY <1>6, <1>7, <2>1 DEF Scrape
<1>8. ASSUME NEW ip \in Ips, NEW id \in 1..MaxLogins, BeginLogin(ip, id) PROVE PruneInv'
  <2>1. Clocks' \subseteq Clocks
    BY <1>0, <1>8 DEF BeginLogin, Clocks
  <2> QED
    BY <1>6, <1>8, <2>1 DEF BeginLogin
<1>9. ASSUME NEW l \in logins, NEW n \in Names, NEW right \in BOOLEAN, EndLogin(l, n, right)
      PROVE  PruneInv'
  <2> DEFINE overtaken == l \in older
  <2>1. /\ {l.ip, n} \in SUBSET Key /\ l.at \in 1..now /\ overtaken \in BOOLEAN
        /\ overtaken \/ l.at \in Clocks
    BY <1>0 DEF Key, Clocks
  <2>2. /\ now' = now /\ logins' = logins \ {l} /\ older' = older \ {l}
        /\ \/ Refuse(book) \/ Acquit(book, {l.ip, n})
           \/ Strike(book, {l.ip, n}, l.at, overtaken)
    BY <1>9 DEF EndLogin
  <2> HIDE DEF overtaken
  <2>3. Clocks' \subseteq Clocks
    <3>1. \A d \in Clocks' : d = now \/ \E m \in logins' \ older' : d = m.at
      BY <2>2 DEF Clocks
    <3>2. logins' \ older' \subseteq logins \ older
      BY <2>2
    <3> QED
      BY <3>1, <3>2 DEF Clocks
  <2>4. Twins(book, Clocks)'
    <3>1. CASE overtaken
      <4>1. overtaken = TRUE
        BY <2>1, <3>1
      <4> QED
        BY <1>0, <2>1, <2>2, <2>3, <4>1, StepTwins
    <3>2. CASE ~overtaken
      <4>1. overtaken = FALSE /\ l.at \in Clocks
        BY <2>1, <3>2
      <4> QED
        BY <1>0, <2>1, <2>2, <2>3, <4>1, StepTwins
    <3> QED
      BY <3>1, <3>2
  <2> QED
    BY <1>0, <2>2, <2>4 DEF PruneInv
<1>10. CASE UNCHANGED vars
  BY <1>0, <1>10 DEF vars, PruneInv, Twins, Clocks
<1> QED
  BY <1>1, <1>2, <1>4, <1>5, <1>7, <1>8, <1>9, <1>10 DEF Next

\* With the pruning the next attempt is judged, and counts, as without it, on every key
\* that no late attempt has struck, by the clock of now and by that of any login that
\* began after the book was last pruned (app.py:841-853, 1249, 1258-1261, 1273-1290).
THEOREM PruningIsInvisible == Spec => []PruneIsInvisible
<1>1. ASSUME PruneInv, NEW k \in Key \ slow, NEW at \in Clocks
      PROVE  /\ Locked(book, k, at) = Locked(full, k, at)
             /\ Fills(book, k, at) = Fills(full, k, at)
  <2>1. /\ Clocks \in SUBSET Nat /\ book[k] \in Entry
        /\ Twin(book[k], full[k], Clocks, now)
    BY <1>1, ClocksAreNat DEF PruneInv, IInv, SoundBook, Twins
  <2>2. /\ (book[k].until > at) = (full[k].until > at)
        /\ Kept(book[k], book[k].began, at) = Kept(full[k], full[k].began, at)
    BY <2>1, TwinsAgree
  <2> QED
    BY <2>2 DEF Locked, Fills
<1>2. PruneInv => PruneIsInvisible
  BY <1>1 DEF PruneIsInvisible
<1> QED
  BY <1>2, InitPruneInv, NextPruneInv, PTL DEF Spec

\* A lock that lasts is not prolonged by whoever knocks: only a login that began
\* before it may, and only that of its address (app.py:954-958, 1248-1261).
THEOREM LocksAreNotProlonged == Spec => LockNotProlonged
<1> DEFINE Longer(k) == Locked(book, k, now) /\ book'[k].until > book[k].until
           Own(k) == \E l \in logins \ logins' : l.ip = k
<1>1. ASSUME IInv, [Next]_vars, NEW k \in Key, Longer(k) PROVE Own(k)
  <2>1. book[k] \in Entry /\ now \in Nat /\ book[k].until \in Nat
    BY <1>1 DEF IInv, SoundBook, Entry
  <2>2. Pruned \in [Key -> Entry] /\ book \in [Key -> Entry] /\ Pruned[k].until = book[k].until
    <3>1. SoundBook(Pruned, now)
      BY <1>1, PrunedSound DEF IInv
    <3>2. ~Over(book[k])
      BY <1>1, <2>1 DEF Locked, Over
    <3> QED
      BY <1>1, <3>1, <3>2 DEF Pruned, SoundBook, IInv
  <2>3. Locked(book, k, now) /\ Locked(Pruned, k, now)
    BY <1>1, <2>2 DEF Locked
  \* Whoever is refused or acquitted, and whoever else is struck, leaves the lock.
  <2>4. ASSUME NEW b \in {book, Pruned}, NEW keys \in SUBSET Key, NEW at,
               NEW overtaken,
               Refuse(b) \/ Acquit(b, keys) \/ (Strike(b, keys, at, overtaken) /\ k \notin keys)
        PROVE  FALSE
    <3>1. book'[k] = b[k] \/ book'[k] = Clean
      BY <2>4 DEF Refuse, Acquit, Wiped, Strike, Struck
    <3>2. book'[k].until = book[k].until \/ book'[k].until = 0
      BY <3>1, <2>2, <2>4 DEF Clean
    <3> QED
      BY <3>2, <1>1, <2>1
  <2>5. book'[k] # book[k]
    BY <1>1, <2>1
  <2>6. CASE Tick \/ UNCHANGED vars
    BY <2>5, <2>6 DEF Tick, Refuse, vars
  <2>7. CASE Restart
    BY <1>1, <2>1, <2>7 DEF Restart, Acquit, Wiped, Clean
  <2>8. CASE NoToken
    BY <2>4, <2>8 DEF NoToken
  <2>9. ASSUME NEW ip \in Ips, ValidRequest(ip) \/ WrongToken(ip)
        PROVE  FALSE
    <3>1. {ip} \in SUBSET Key
      BY DEF Key
    <3> QED
      BY <3>1, <2>3, <2>4, <2>9 DEF ValidRequest, WrongToken
  <2>10. ASSUME NEW ip \in Ips, NEW valid \in BOOLEAN, Scrape(ip, valid) PROVE FALSE
    <3>1. {ip} \in SUBSET Key
      BY DEF Key
    <3> QED
      BY <3>1, <2>3, <2>4, <2>10 DEF Scrape
  <2>11. ASSUME NEW ip \in Ips, NEW id \in 1..MaxLogins, BeginLogin(ip, id) PROVE FALSE
    BY <2>4, <2>11 DEF BeginLogin
  <2>12. ASSUME NEW l \in logins, NEW n \in Names, NEW right \in BOOLEAN, EndLogin(l, n, right)
         PROVE  Own(k)
    <3>1. l.ip \in Ips /\ l.at \in Nat /\ l.at <= now /\ {l.ip, n} \in SUBSET Key
      BY <1>1, <2>1 DEF IInv, LoginsInv, Key
    <3>2. CASE k = l.ip
      BY <2>12, <3>2 DEF EndLogin
    <3>3. CASE k # l.ip /\ k = n
      <4>1. Locked(book, n, l.at)
        BY <1>1, <2>1, <3>1, <3>3 DEF Locked
      <4> QED
        BY <4>1, <2>5, <2>12 DEF EndLogin, Refuse
    <3>4. CASE k # l.ip /\ k # n
      BY <2>4, <2>12, <3>1, <3>4 DEF EndLogin
    <3> QED
      BY <3>2, <3>3, <3>4
  <2> QED
    BY <1>1, <2>6, <2>7, <2>8, <2>9, <2>10, <2>11, <2>12 DEF Next
<1>2. IInv /\ [Next]_vars => [\A k \in Key : Longer(k) => Own(k)]_vars
  BY <1>1
<1> QED
  BY <1>2, Inductive, PTL DEF Spec, LockNotProlonged
-----------------------------------------------------------------------------
(* The event streams. *)

OpenStream == [phase : Phase \ {"none"}, client : Clients,
               age : 0..(Lifetime + 1), checked : 0..(RecheckAfter + 1)]

\* A frame is out only when the last check is not too old.
CheckedInTime == \A s \in Streams : stream[s].phase = "writing" => stream[s].checked <= RecheckAfter

\* The frames of a client without credential are counted by the age of the check.
UnseenInv == \A s \in Streams :
    /\ unseen[s] \in Nat
    /\ stream[s].phase \in {"none", "preparing"} => unseen[s] = 0
    /\ stream[s].phase = "asleep" => unseen[s] <= stream[s].checked
    /\ stream[s].phase = "writing" => unseen[s] <= stream[s].checked + 1

Types == /\ stream \in [Streams -> {NoStream} \cup OpenStream]
         /\ active \in [Clients -> 0..MaxPerClient] /\ total \in 0..MaxTotal
         /\ authed \subseteq Clients
         /\ unseen \in [Streams -> Nat]

StreamsIInv == Types /\ SlotsCounted /\ CheckedInTime /\ UnseenInv

Of(c) == {s \in Charged : Client(s) = c}

\* The sets that are counted are finite.
LEMMA Finite == ASSUME NEW c PROVE IsFiniteSet(Charged) /\ IsFiniteSet(Of(c))
<1>1. Charged \subseteq Streams /\ Of(c) \subseteq Streams
  BY DEF Charged, Of
<1> QED
  BY <1>1, StreamsAssumption, FS_Subset DEF StreamsAssumption

\* No stream, no slot (app.py:4036-4040).
LEMMA InitStreamsIInv == StreamsInit => StreamsIInv
<1> SUFFICES ASSUME StreamsInit PROVE StreamsIInv
  OBVIOUS
<1>1. Charged = {} /\ \A c \in Clients : {s \in Charged : Client(s) = c} = {}
  BY DEF StreamsInit, Charged, NoStream
<1> QED
  BY <1>1, FS_EmptySet, StreamsAssumption
  DEF StreamsInit, StreamsIInv, Types, SlotsCounted, CheckedInTime, UnseenInv, NoStream, StreamsAssumption

\* A step that ends no stream and begins none keeps the counts.
LEMMA SameSlots ==
  ASSUME StreamsIInv, UNCHANGED <<active, total>>, NEW s \in Streams,
         \A r \in Streams : r # s => stream'[r] = stream[r],
         stream[s].phase # "none", stream'[s].phase # "none",
         stream'[s].client = stream[s].client
  PROVE  SlotsCounted'
<1>1. Charged' = Charged
  BY DEF Charged
<1>2. \A r \in Charged : Client(r)' = Client(r)
  BY DEF Charged, Client
<1>3. \A c \in Clients : {r \in Charged : Client(r) = c}' = {r \in Charged : Client(r) = c}
  BY <1>1, <1>2
<1> QED
  BY <1>1, <1>3 DEF SlotsCounted, StreamsIInv

\* A slot is taken with the stream, under both caps (app.py:4050-4061).
LEMMA ConnectStep ==
  ASSUME StreamsIInv, NEW s \in Streams, NEW c \in Clients, Connect(s, c)
  PROVE  StreamsIInv'
<1> DEFINE new == [phase |-> "preparing", client |-> c, age |-> 0, checked |-> 0]
<1>1. stream' = [stream EXCEPT ![s] = new] /\ s \notin Charged /\ Room(c) /\ Acquire(c)
  BY DEF Connect, Charged
<1>2. new \in OpenStream
  BY StreamsAssumption DEF OpenStream, Phase, StreamsAssumption
<1>3. stream'[s] = new /\ \A r \in Streams : r # s => stream'[r] = stream[r]
  BY <1>1 DEF StreamsIInv, Types
<1>4. Types'
  BY <1>1, <1>2, StreamsAssumption
  DEF StreamsIInv, Types, Connect, Room, Acquire, StreamsAssumption
<1>5. Charged' = Charged \cup {s}
  BY <1>3 DEF Charged
<1>6. Of(c)' = Of(c) \cup {s} /\ s \notin Of(c)
  BY <1>1, <1>3, <1>5 DEF Of, Charged, Client
<1>7. \A d \in Clients \ {c} : Of(d)' = Of(d)
  BY <1>1, <1>3, <1>5 DEF Of, Charged, Client
<1>8. SlotsCounted'
  <2>1. total' = Cardinality(Charged')
    BY <1>1, <1>5, Finite, FS_AddElement DEF StreamsIInv, SlotsCounted, Acquire
  <2>2. \A d \in Clients : active[d] = Cardinality(Of(d))
    BY DEF StreamsIInv, SlotsCounted, Of
  <2>3. Cardinality(Of(c)') = Cardinality(Of(c)) + 1
    BY <1>6, Finite, FS_AddElement
  <2>4. \A d \in Clients : active'[d] = Cardinality(Of(d)')
    BY <1>1, <1>7, <2>2, <2>3 DEF StreamsIInv, Types, Acquire
  <2> QED
    BY <2>1, <2>4 DEF SlotsCounted, Of
<1>9. CheckedInTime' /\ UnseenInv'
  BY <1>3 DEF StreamsIInv, CheckedInTime, UnseenInv, Connect
<1> QED
  BY <1>4, <1>8, <1>9 DEF StreamsIInv

\* Whatever ends a stream gives back its slot, and no other (app.py:4063-4070,
\* 4122-4123).
LEMMA EndStep ==
  ASSUME StreamsIInv, NEW s \in Streams, stream[s].phase # "none", End(s)
  PROVE  StreamsIInv'
<1>0. PICK c \in Clients : c = Client(s)
  BY DEF StreamsIInv, Types, OpenStream, NoStream, Client
<1>1. stream' = [stream EXCEPT ![s] = NoStream] /\ s \in Charged /\ s \in Of(c)
  BY <1>0 DEF End, Charged, Of
<1>2. stream'[s].phase = "none" /\ \A r \in Streams : r # s => stream'[r] = stream[r]
  BY <1>1 DEF StreamsIInv, Types, NoStream
<1>4. Charged' = Charged \ {s}
  BY <1>2 DEF Charged
<1>5. Of(c)' = Of(c) \ {s}
  BY <1>2, <1>4 DEF Of, Charged, Client
<1>6. \A d \in Clients \ {c} : Of(d)' = Of(d)
  BY <1>0, <1>2, <1>4 DEF Of, Charged, Client
<1>7. Cardinality(Charged) \in Nat /\ Cardinality(Of(c)) \in Nat
      /\ Cardinality(Charged) # 0 /\ Cardinality(Of(c)) # 0
  BY <1>1, Finite, FS_CardinalityType, FS_EmptySet
<1>8. active[c] = Cardinality(Of(c)) /\ total = Cardinality(Charged)
  BY DEF StreamsIInv, SlotsCounted, Of
<1>9. total' = total - 1 /\ active' = [active EXCEPT ![c] = @ - 1]
  <2>1. Release(c)
    BY <1>0 DEF End
  <2>2. active[c] \in Nat /\ active[c] > 0 /\ total \in Nat /\ total > 0
    BY <1>7, <1>8
  <2> QED
    BY <2>1, <2>2 DEF Release, StreamsIInv, Types
<1>10. Types'
  BY <1>1, <1>7, <1>8, <1>9, StreamsAssumption DEF StreamsIInv, Types, End, StreamsAssumption
<1>11. SlotsCounted'
  <2>1. total' = Cardinality(Charged')
    BY <1>1, <1>4, <1>8, <1>9, Finite, FS_RemoveElement
  <2>2. \A d \in Clients : active[d] = Cardinality(Of(d))
    BY DEF StreamsIInv, SlotsCounted, Of
  <2>3. Cardinality(Of(c)') = Cardinality(Of(c)) - 1
    BY <1>1, <1>5, Finite, FS_RemoveElement
  <2>4. \A d \in Clients : active'[d] = Cardinality(Of(d)')
    BY <1>6, <1>9, <2>2, <2>3 DEF StreamsIInv, Types
  <2> QED
    BY <2>1, <2>4 DEF SlotsCounted, Of
<1>12. CheckedInTime' /\ UnseenInv'
  BY <1>2 DEF StreamsIInv, Types, CheckedInTime, UnseenInv, End
<1> QED
  BY <1>10, <1>11, <1>12 DEF StreamsIInv

\* The loop of a stream: the count of frames follows the age of the check
\* (app.py:4092-4116).
LEMMA LoopStep ==
  ASSUME StreamsIInv, NEW s \in Streams, Prepared(s) \/ Write(s) \/ Written(s)
  PROVE  StreamsIInv'
<1> USE StreamsAssumption DEF StreamsAssumption
<1>1. stream[s] \in OpenStream
  BY DEF StreamsIInv, Types, NoStream, Prepared, Write, Written
<1>2. UNCHANGED <<active, total, authed>>
  BY DEF Prepared, Write, Written
<1>3. /\ stream'[s] \in OpenStream /\ stream'[s].client = stream[s].client
      /\ \A r \in Streams : r # s => stream'[r] = stream[r] /\ unseen'[r] = unseen[r]
      /\ stream' \in [Streams -> {NoStream} \cup OpenStream]
      /\ unseen'[s] \in Nat /\ unseen' \in [Streams -> Nat]
      /\ stream'[s].phase = "writing" => stream'[s].checked <= RecheckAfter
      /\ stream'[s].phase = "asleep" => unseen'[s] <= stream'[s].checked
      /\ stream'[s].phase = "writing" => unseen'[s] <= stream'[s].checked + 1
      /\ stream'[s].phase # "preparing"
  <2>1. CASE Prepared(s)
    BY <1>1, <2>1 DEF Prepared, Goto, OpenStream, Phase, StreamsIInv, Types, UnseenInv, CheckedInTime
  <2>2. CASE Write(s)
    <3> DEFINE age == IF MustAsk(s) THEN 0 ELSE stream[s].checked
               new == [stream[s] EXCEPT !.phase = "writing", !.checked = age]
    <3>2. stream' = [stream EXCEPT ![s] = new]
      BY <2>2 DEF Write
    <3>0. age \in 0..(RecheckAfter + 1) /\ age = IF MustAsk(s) THEN 0 ELSE stream[s].checked
      BY <1>1 DEF OpenStream
    <3> HIDE DEF age
    <3>1. /\ new \in OpenStream /\ new.client = stream[s].client /\ new.phase = "writing"
          /\ new.checked = age
      <4> DEFINE half == [stream[s] EXCEPT !.phase = "writing"]
      <4>1. half \in OpenStream /\ half.client = stream[s].client /\ half.phase = "writing"
        BY <1>1 DEF OpenStream, Phase
      <4>2. new = [half EXCEPT !.checked = age]
        OBVIOUS
      <4> HIDE DEF half
      <4>3. [half EXCEPT !.checked = age] \in OpenStream
        BY <3>0, <4>1 DEF OpenStream
      <4> QED
        BY <4>1, <4>2, <4>3 DEF OpenStream
    <3>3. stream'[s] = new /\ unseen'[s] = IF Client(s) \in authed THEN 0 ELSE unseen[s] + 1
      BY <2>2, <3>2 DEF Write, StreamsIInv, Types
    <3>4. unseen[s] <= stream[s].checked /\ stream[s].checked \in Nat
      BY <1>1, <2>2 DEF Write, StreamsIInv, UnseenInv, OpenStream
    <3> HIDE DEF new
    <3>5. new.checked <= RecheckAfter /\ unseen'[s] <= new.checked + 1 /\ unseen'[s] \in Nat
      <4>1. unseen[s] \in Nat /\ (MustAsk(s) => Client(s) \in authed)
        BY <2>2 DEF Write, StreamsIInv, Types
      <4>2. MustAsk(s) \/ stream[s].checked <= RecheckAfter
        BY <3>4 DEF MustAsk
      <4> QED
        BY <3>0, <3>1, <3>3, <3>4, <4>1, <4>2
    <3> QED
      BY <2>2, <3>1, <3>2, <3>3, <3>5 DEF Write, StreamsIInv, Types
  <2>3. CASE Written(s)
    BY <1>1, <2>3 DEF Written, OpenStream, Phase, StreamsIInv, Types, UnseenInv, CheckedInTime
  <2> QED
    BY <2>1, <2>2, <2>3
<1>4. SlotsCounted'
  BY <1>1, <1>2, <1>3, SameSlots DEF OpenStream, Phase
<1>5. CheckedInTime' /\ UnseenInv'
  BY <1>1, <1>3 DEF StreamsIInv, CheckedInTime, UnseenInv, OpenStream, Phase
<1> QED
  BY <1>2, <1>3, <1>4, <1>5 DEF StreamsIInv, Types

\* A login or a revocation touches no stream.
LEMMA TurnStep == ASSUME StreamsIInv, NEW c \in Clients, Turn(c) PROVE StreamsIInv'
<1>1. Types' /\ CheckedInTime' /\ UnseenInv'
  BY DEF Turn, StreamsIInv, Types, CheckedInTime, UnseenInv
<1>2. SlotsCounted'
  BY DEF Turn, StreamsIInv, SlotsCounted, Charged, Client
<1> QED
  BY <1>1, <1>2 DEF StreamsIInv

\* Every step of the specification keeps the invariant.
LEMMA NextStreamsIInv == StreamsIInv /\ [StreamsNext]_streamVars => StreamsIInv'
<1> SUFFICES ASSUME StreamsIInv, [StreamsNext]_streamVars PROVE StreamsIInv'
  OBVIOUS
<1>1. ASSUME NEW s \in Streams, NEW c \in Clients, Connect(s, c) PROVE StreamsIInv'
  BY <1>1, ConnectStep
<1>2. ASSUME NEW s \in Streams, Prepared(s) \/ Write(s) \/ Written(s) PROVE StreamsIInv'
  BY <1>2, LoopStep
<1>3. ASSUME NEW s \in Streams, Broken(s) \/ TooOld(s) \/ NotAuthed(s) PROVE StreamsIInv'
  BY <1>3, EndStep DEF Broken, TooOld, NotAuthed
<1>4. ASSUME NEW c \in Clients, Turn(c) PROVE StreamsIInv'
  BY <1>4, TurnStep
<1>5. CASE UNCHANGED streamVars
  BY <1>5 DEF streamVars, StreamsIInv, Types, SlotsCounted, Charged, Client, CheckedInTime, UnseenInv
<1> QED
  BY <1>1, <1>2, <1>3, <1>4, <1>5 DEF StreamsNext

-----------------------------------------------------------------------------
\* No slot leaks and none is given back twice, for any number of requests and clients
\* and any caps (app.py:4050-4070, 4089-4123).
THEOREM StreamsInvHolds == StreamsSpec => []StreamsInv
<1>1. StreamsIInv => StreamsInv
  <2> SUFFICES ASSUME StreamsIInv PROVE StreamsTypeOK
    BY DEF StreamsIInv, StreamsInv
  <2>1. \A s \in Streams : stream[s] = NoStream \/ stream[s] \in OpenStream
    BY DEF StreamsIInv, Types
  <2> QED
    BY <2>1 DEF StreamsIInv, Types, StreamsTypeOK, OpenStream, NoStream, Phase
<1> QED
  BY <1>1, InitStreamsIInv, NextStreamsIInv, PTL DEF StreamsSpec

\* A client that lost its credential is sent at most the frames of one interval
\* between two checks (app.py:4101-4111).
THEOREM RevokedSoonHolds == StreamsSpec => []RevokedSoon
<1>1. StreamsIInv => RevokedSoon
  BY StreamsAssumption
  DEF StreamsIInv, Types, UnseenInv, CheckedInTime, RevokedSoon, OpenStream, NoStream, Phase, StreamsAssumption
<1> QED
  BY <1>1, InitStreamsIInv, NextStreamsIInv, PTL DEF StreamsSpec

-----------------------------------------------------------------------------
\* Induction over the parts of a finite set: Q are those of which something holds.
LEMMA PartInduct ==
  ASSUME NEW S, IsFiniteSet(S), NEW Q,
         \A T \in SUBSET S : (\A U \in SUBSET T : U # T => U \in Q) => T \in Q
  PROVE  \A T \in SUBSET S : T \in Q
<1> DEFINE Bad == {T \in SUBSET S : T \notin Q}
<1> SUFFICES ASSUME Bad # {} PROVE FALSE
  OBVIOUS
<1>1. Bad \subseteq FiniteSubsetsOf(S)
  BY FS_Subset DEF FiniteSubsetsOf
<1>2. \E T \in Bad : \A U \in Bad : ~ (<<U, T>> \in StrictSubsetOrdering(S))
  <2> HIDE DEF Bad
  <2> QED
    BY <1>1, FS_StrictSubsetOrderingWellFounded, WFMin
<1>3. PICK T \in Bad : \A U \in Bad : ~ (<<U, T>> \in StrictSubsetOrdering(S))
  BY <1>2
<1>4. ASSUME NEW U \in SUBSET T, U # T PROVE U \in Q
  <2>1. U \in SUBSET S /\ T \in SUBSET S /\ <<U, T>> \in StrictSubsetOrdering(S)
    BY <1>3, <1>4 DEF StrictSubsetOrdering
  <2> QED
    BY <1>3, <2>1
<1> QED
  BY <1>3, <1>4

LEMMA SetInduct ==
  ASSUME NEW S, IsFiniteSet(S), NEW Q, {} \in Q,
         \A T \in SUBSET S : \A x \in S \ T : T \in Q => T \cup {x} \in Q
  PROVE  \A T \in SUBSET S : T \in Q
<1>1. ASSUME NEW T \in SUBSET S, \A U \in SUBSET T : U # T => U \in Q
      PROVE  T \in Q
  <2>1. CASE T = {}
    BY <2>1
  <2>2. ASSUME NEW x \in T PROVE T \in Q
    <3>1. T \ {x} \in SUBSET S /\ x \in S \ (T \ {x}) /\ (T \ {x}) \cup {x} = T
      BY <2>2
    <3>2. T \ {x} \in Q
      BY <1>1, <2>2
    <3> QED
      BY <3>1, <3>2
  <2> QED
    BY <2>1, <2>2
<1>2. \A T \in SUBSET S : (\A U \in SUBSET T : U # T => U \in Q) => T \in Q
  BY <1>1
<1> QED
  BY <1>2, PartInduct

-----------------------------------------------------------------------------
\* Sums.  Numbers under an index set.
Ints(f, S) == \A x \in S : f[x] \in Int
Pick(T) == CHOOSE x \in T : TRUE

\* g adds up f over each part of S.
IsSum(g, f, S) ==
    /\ g = [T \in SUBSET S |-> g[T]]
    /\ \A T \in SUBSET S : g[T] = IF T = {} THEN 0 ELSE f[Pick(T)] + g[T \ {Pick(T)}]

LEMMA Induct ==
  ASSUME NEW H, 0 \in H, \A n \in Nat : n \in H => n + 1 \in H
  PROVE  Nat \subseteq H
<1> SUFFICES ASSUME NEW n \in Nat PROVE n \in H
  OBVIOUS
<1> DEFINE N == 1..n
           Q == {T \in SUBSET N : Cardinality(T) \in H}
<1>1. IsFiniteSet(N) /\ Cardinality(N) = n
  BY FS_Interval
<1>2. {} \in Q
  BY FS_EmptySet
<1>3. ASSUME NEW T \in SUBSET N, NEW x \in N \ T, T \in Q
      PROVE  T \cup {x} \in Q
  <2>1. IsFiniteSet(T)
    BY <1>1, FS_Subset
  <2>2. Cardinality(T) \in Nat /\ Cardinality(T \cup {x}) = Cardinality(T) + 1
    BY <2>1, FS_AddElement, FS_CardinalityType
  <2> QED
    BY <1>3, <2>2
<1>4. N \in Q
  <2>1. \A T \in SUBSET N : \A x \in N \ T : T \in Q => T \cup {x} \in Q
    BY <1>3
  <2> HIDE DEF Q, N
  <2> QED
    BY <1>1, <1>2, <2>1, SetInduct
<1> QED
  BY <1>1, <1>4

LEMMA SumExists ==
  ASSUME NEW S, IsFiniteSet(S), NEW f
  PROVE  \E g : IsSum(g, f, S)
<1> DEFINE Small(n) == {T \in SUBSET S : Cardinality(T) <= n}
           Value(g, T) == IF T = {} THEN 0 ELSE f[Pick(T)] + g[T \ {Pick(T)}]
           Ok(g, n) == g = [T \in Small(n) |-> g[T]] /\ \A T \in Small(n) : g[T] = Value(g, T)
           H == {n \in Nat : \E g : Ok(g, n)}
<1>1. \A T \in SUBSET S : IsFiniteSet(T) /\ Cardinality(T) \in Nat
  BY FS_Subset, FS_CardinalityType
<1>2. \A T \in SUBSET S : T # {} => /\ Pick(T) \in T /\ T \ {Pick(T)} \in SUBSET S
                                    /\ Cardinality(T \ {Pick(T)}) = Cardinality(T) - 1
  BY <1>1, FS_RemoveElement DEF Pick
<1>3. 0 \in H
  <2> DEFINE g == [T \in Small(0) |-> 0]
  <2>1. \A T \in Small(0) : T = {}
    BY <1>1, FS_EmptySet
  <2>2. Ok(g, 0)
    BY <2>1
  <2> QED
    BY <2>2
<1>4. ASSUME NEW n \in Nat, n \in H PROVE n + 1 \in H
  <2>1. PICK g : Ok(g, n)
    BY <1>4
  <2> DEFINE h == [T \in Small(n + 1) |-> Value(g, T)]
  <2>2. ASSUME NEW T \in Small(n + 1) PROVE h[T] = Value(h, T)
    <3>1. CASE T = {}
      BY <3>1
    <3>2. CASE T # {}
      <4>1. T \ {Pick(T)} \in Small(n) /\ T \ {Pick(T)} \in Small(n + 1)
        BY <1>1, <1>2, <3>2
      <4>2. h[T \ {Pick(T)}] = g[T \ {Pick(T)}]
        BY <2>1, <4>1
      <4> QED
        BY <3>2, <4>2
    <3> QED
      BY <3>1, <3>2
  <2>3. Ok(h, n + 1)
    BY <2>2
  <2> HIDE DEF h, Ok
  <2> QED
    BY <2>3
<1>5. Nat \subseteq H
  <2> HIDE DEF H
  <2> QED
    BY <1>3, <1>4, Induct
<1>6. PICK g : Ok(g, Cardinality(S))
  BY <1>1, <1>5
<1>7. Small(Cardinality(S)) = SUBSET S
  BY <1>1, FS_Subset
<1> QED
  BY <1>6, <1>7 DEF IsSum

LEMMA SumIs ==
  ASSUME NEW S, IsFiniteSet(S), NEW f
  PROVE  \E g : IsSum(g, f, S) /\ SumFunctionOnSet(f, S) = g[S]
<1> DEFINE Is(g) == g = [T \in SUBSET S |-> IF T = {} THEN 0 ELSE f[CHOOSE x \in T : TRUE]
                                                  + g[T \ {CHOOSE x \in T : TRUE}]]
           h == CHOOSE g : Is(g)
<1>1. \E g : Is(g)
  <2>1. PICK g : IsSum(g, f, S)
    BY SumExists
  <2>2. Is(g)
    BY <2>1 DEF IsSum, Pick
  <2> QED
    BY <2>2
<1>2. Is(h)
  <2> HIDE DEF Is
  <2> QED
    BY <1>1
<1>3. IsSum(h, f, S)
  <2> HIDE DEF h
  <2> QED
    BY <1>2 DEF IsSum, Pick
<1>4. SumFunctionOnSet(f, S) = h[S]
  BY DEF SumFunctionOnSet, FoldFunctionOnSet, MapThenFoldSet
<1> QED
  BY <1>3, <1>4

\* The sum of a part, in whatever order.
LEMMA SumAnyOrder ==
  ASSUME NEW S, IsFiniteSet(S), NEW f, Ints(f, S), NEW g, IsSum(g, f, S)
  PROVE  \A T \in SUBSET S : g[T] \in Int /\ \A x \in T : g[T] = f[x] + g[T \ {x}]
<1> DEFINE Q == {T \in SUBSET S : g[T] \in Int /\ \A x \in T : g[T] = f[x] + g[T \ {x}]}
<1>1. ASSUME NEW T \in SUBSET S, \A U \in SUBSET T : U # T => U \in Q
      PROVE  T \in Q
  <2>1. CASE T = {}
    <3>1. g[T] = 0
      BY <2>1 DEF IsSum
    <3> QED
      BY <2>1, <3>1
  <2>2. CASE T # {}
    <3> DEFINE p == Pick(T)
    <3>1. p \in T
      BY <2>2 DEF Pick
    <3>2. g[T] = f[p] + g[T \ {p}]
      BY <2>2 DEF IsSum
    <3> HIDE DEF p
    <3>3. T \ {p} \in Q /\ f[p] \in Int
      BY <1>1, <3>1 DEF Ints
    <3>4. ASSUME NEW x \in T, x # p PROVE g[T] = f[x] + g[T \ {x}]
      <4> DEFINE R == (T \ {p}) \ {x}
      <4>1. T \ {x} \in Q /\ R \in Q /\ f[x] \in Int /\ R = (T \ {x}) \ {p}
        BY <1>1, <3>1, <3>4 DEF Ints
      <4>2. g[T \ {p}] = f[x] + g[R]
        BY <3>3, <3>4
      <4>3. g[T \ {x}] = f[p] + g[R]
        <5>1. p \in T \ {x}
          BY <3>1, <3>4
        <5> QED
          BY <4>1, <5>1
      <4>4. g[R] \in Int
        BY <4>1
      <4> HIDE DEF R, Q
      <4> QED
        BY <3>2, <3>3, <4>1, <4>2, <4>3, <4>4
    <3>5. g[T] \in Int
      BY <3>2, <3>3
    <3>6. \A x \in T : g[T] = f[x] + g[T \ {x}]
      BY <3>2, <3>4
    <3> QED
      BY <3>5, <3>6
  <2> QED
    BY <2>1, <2>2
<1>2. \A T \in SUBSET S : (\A U \in SUBSET T : U # T => U \in Q) => T \in Q
  BY <1>1
<1>3. \A T \in SUBSET S : T \in Q
  <2> HIDE DEF Q
  <2> QED
    BY <1>2, PartInduct
<1> QED
  BY <1>3

LEMMA SumSame ==
  ASSUME NEW S, IsFiniteSet(S), NEW f, NEW g, IsSum(g, f, S),
         NEW T \in SUBSET S, NEW e, NEW h, IsSum(h, e, T), \A x \in T : e[x] = f[x]
  PROVE  \A U \in SUBSET T : h[U] = g[U]
<1> DEFINE Q == {U \in SUBSET T : h[U] = g[U]}
<1>1. ASSUME NEW U \in SUBSET T, \A V \in SUBSET U : V # U => V \in Q
      PROVE  U \in Q
  <2>1. CASE U = {}
    BY <2>1 DEF IsSum
  <2>2. CASE U # {}
    <3>1. Pick(U) \in U /\ U \ {Pick(U)} \in Q
      BY <1>1, <2>2 DEF Pick
    <3> QED
      BY <2>2, <3>1 DEF IsSum
  <2> QED
    BY <2>1, <2>2
<1>2. \A U \in SUBSET T : (\A V \in SUBSET U : V # U => V \in Q) => U \in Q
  BY <1>1
<1>3. IsFiniteSet(T)
  BY FS_Subset
<1>4. \A U \in SUBSET T : U \in Q
  <2> HIDE DEF Q
  <2> QED
    BY <1>2, <1>3, PartInduct
<1> QED
  BY <1>4

-----------------------------------------------------------------------------
\* The laws of sums.
LEMMA SumEmpty ==
  ASSUME NEW f
  PROVE  SumFunctionOnSet(f, {}) = 0
<1>1. PICK g : IsSum(g, f, {}) /\ SumFunctionOnSet(f, {}) = g[{}]
  BY SumIs, FS_EmptySet
<1> QED
  BY <1>1 DEF IsSum

LEMMA SumTake ==
  ASSUME NEW S, IsFiniteSet(S), NEW f, Ints(f, S)
  PROVE  /\ SumFunctionOnSet(f, S) \in Int
         /\ \A x \in S : SumFunctionOnSet(f, S) = f[x] + SumFunctionOnSet(f, S \ {x})
<1>1. PICK g : IsSum(g, f, S) /\ SumFunctionOnSet(f, S) = g[S]
  BY SumIs
<1>2. g[S] \in Int /\ \A x \in S : g[S] = f[x] + g[S \ {x}]
  BY <1>1, SumAnyOrder
<1>3. ASSUME NEW x \in S
      PROVE  SumFunctionOnSet(f, S \ {x}) = g[S \ {x}]
  <2>1. S \ {x} \in SUBSET S /\ IsFiniteSet(S \ {x})
    BY FS_Subset
  <2>2. PICK h : IsSum(h, f, S \ {x}) /\ SumFunctionOnSet(f, S \ {x}) = h[S \ {x}]
    BY <2>1, SumIs
  <2> QED
    BY <1>1, <2>1, <2>2, SumSame
<1> QED
  BY <1>1, <1>2, <1>3

LEMMA SumAgree ==
  ASSUME NEW S, IsFiniteSet(S), NEW f, NEW e, \A x \in S : e[x] = f[x]
  PROVE  SumFunctionOnSet(e, S) = SumFunctionOnSet(f, S)
<1>1. PICK g : IsSum(g, f, S) /\ SumFunctionOnSet(f, S) = g[S]
  BY SumIs
<1>2. PICK h : IsSum(h, e, S) /\ SumFunctionOnSet(e, S) = h[S]
  BY SumIs
<1>3. S \in SUBSET S
  OBVIOUS
<1>4. \A U \in SUBSET S : h[U] = g[U]
  BY <1>1, <1>2, <1>3, SumSame
<1> QED
  BY <1>1, <1>2, <1>3, <1>4

LEMMA SumAdd ==
  ASSUME NEW S, IsFiniteSet(S), NEW x, x \notin S, NEW f, Ints(f, S \cup {x})
  PROVE  SumFunctionOnSet(f, S \cup {x}) = f[x] + SumFunctionOnSet(f, S)
<1>1. IsFiniteSet(S \cup {x}) /\ (S \cup {x}) \ {x} = S /\ x \in S \cup {x}
  BY FS_AddElement
<1> QED
  BY <1>1, SumTake

LEMMA SumOne ==
  ASSUME NEW f, NEW x, f[x] \in Int
  PROVE  SumFunctionOnSet(f, {x}) = f[x]
<1>1. IsFiniteSet({}) /\ Ints(f, {} \cup {x}) /\ x \notin {}
  BY FS_EmptySet DEF Ints
<1>2. SumFunctionOnSet(f, {} \cup {x}) = f[x] + SumFunctionOnSet(f, {})
  BY <1>1, SumAdd
<1>3. {} \cup {x} = {x}
  OBVIOUS
<1>4. SumFunctionOnSet(f, {} \cup {x}) = SumFunctionOnSet(f, {x})
  BY ONLY <1>3, Zenon
<1> QED
  BY <1>2, <1>4, SumEmpty

LEMMA SumSplit ==
  ASSUME NEW A, NEW B, IsFiniteSet(A), IsFiniteSet(B), A \cap B = {}, NEW f, Ints(f, A \cup B)
  PROVE  SumFunctionOnSet(f, A \cup B) = SumFunctionOnSet(f, A) + SumFunctionOnSet(f, B)
<1> DEFINE Q == {T \in SUBSET B :
                    SumFunctionOnSet(f, A \cup T) = SumFunctionOnSet(f, A) + SumFunctionOnSet(f, T)}
<1>1. Ints(f, A) /\ SumFunctionOnSet(f, A) \in Int
  BY SumTake DEF Ints
<1>2. {} \in Q
  <2>1. A \cup {} = A
    OBVIOUS
  <2> QED
    BY <1>1, <2>1, SumEmpty
<1>3. ASSUME NEW T \in SUBSET B, NEW x \in B \ T, T \in Q PROVE T \cup {x} \in Q
  <2>1. IsFiniteSet(T) /\ IsFiniteSet(A \cup T) /\ x \notin T /\ x \notin A \cup T
    BY <1>3, FS_Subset, FS_Union
  <2>2. Ints(f, T \cup {x}) /\ Ints(f, (A \cup T) \cup {x}) /\ f[x] \in Int /\ Ints(f, T)
    BY <1>3 DEF Ints
  <2>3. SumFunctionOnSet(f, T \cup {x}) = f[x] + SumFunctionOnSet(f, T)
    BY <2>1, <2>2, SumAdd
  <2>4. SumFunctionOnSet(f, (A \cup T) \cup {x}) = f[x] + SumFunctionOnSet(f, A \cup T)
    BY <2>1, <2>2, SumAdd
  <2>5. SumFunctionOnSet(f, A \cup (T \cup {x})) = SumFunctionOnSet(f, (A \cup T) \cup {x})
    <3>1. A \cup (T \cup {x}) = (A \cup T) \cup {x}
      OBVIOUS
    <3> QED
      BY ONLY <3>1, Zenon
  <2>6. SumFunctionOnSet(f, T) \in Int
    BY <2>1, <2>2, SumTake
  <2>7. SumFunctionOnSet(f, A \cup (T \cup {x})) =
            SumFunctionOnSet(f, A) + SumFunctionOnSet(f, T \cup {x})
    BY <1>1, <1>3, <2>2, <2>3, <2>4, <2>5, <2>6
  <2> QED
    BY <2>7
<1>4. \A T \in SUBSET B : \A x \in B \ T : T \in Q => T \cup {x} \in Q
  BY <1>3
<1>5. B \in SUBSET B
  OBVIOUS
<1>6. B \in Q
  <2> HIDE DEF Q
  <2> QED
    BY <1>2, <1>4, <1>5, SetInduct
<1> QED
  BY <1>6

LEMMA SumLess ==
  ASSUME NEW S, IsFiniteSet(S), NEW f, NEW e, Ints(f, S), Ints(e, S), \A x \in S : e[x] <= f[x]
  PROVE  SumFunctionOnSet(e, S) <= SumFunctionOnSet(f, S)
<1> DEFINE Q == {T \in SUBSET S : SumFunctionOnSet(e, T) <= SumFunctionOnSet(f, T)}
<1>1. {} \in Q
  BY SumEmpty
<1>2. ASSUME NEW T \in SUBSET S, NEW x \in S \ T, T \in Q PROVE T \cup {x} \in Q
  <2>1. IsFiniteSet(T) /\ Ints(f, T \cup {x}) /\ Ints(e, T \cup {x}) /\ Ints(f, T) /\ Ints(e, T)
    BY FS_Subset DEF Ints
  <2>2. SumFunctionOnSet(e, T \cup {x}) = e[x] + SumFunctionOnSet(e, T)
    BY <2>1, SumAdd
  <2>3. SumFunctionOnSet(f, T \cup {x}) = f[x] + SumFunctionOnSet(f, T)
    BY <2>1, SumAdd
  <2>4. SumFunctionOnSet(e, T) \in Int /\ SumFunctionOnSet(f, T) \in Int /\ e[x] \in Int /\ f[x] \in Int
    BY <2>1, SumTake DEF Ints
  <2> QED
    BY <1>2, <2>2, <2>3, <2>4
<1>3. \A T \in SUBSET S : \A x \in S \ T : T \in Q => T \cup {x} \in Q
  BY <1>2
<1>4. S \in SUBSET S
  OBVIOUS
<1>5. S \in Q
  <2> HIDE DEF Q
  <2> QED
    BY <1>1, <1>3, <1>4, SetInduct
<1> QED
  BY <1>5

LEMMA SumZero ==
  ASSUME NEW S, IsFiniteSet(S), NEW f, \A x \in S : f[x] = 0
  PROVE  SumFunctionOnSet(f, S) = 0
<1> DEFINE Q == {T \in SUBSET S : SumFunctionOnSet(f, T) = 0}
<1>1. {} \in Q
  BY SumEmpty
<1>2. ASSUME NEW T \in SUBSET S, NEW x \in S \ T, T \in Q PROVE T \cup {x} \in Q
  <2>1. IsFiniteSet(T) /\ Ints(f, T \cup {x})
    BY FS_Subset DEF Ints
  <2>2. SumFunctionOnSet(f, T \cup {x}) = f[x] + SumFunctionOnSet(f, T)
    BY <2>1, SumAdd
  <2> QED
    BY <1>2, <2>2
<1>3. \A T \in SUBSET S : \A x \in S \ T : T \in Q => T \cup {x} \in Q
  BY <1>2
<1>4. S \in SUBSET S
  OBVIOUS
<1>5. S \in Q
  <2> HIDE DEF Q
  <2> QED
    BY <1>1, <1>3, <1>4, SetInduct
<1> QED
  BY <1>5

LEMMA SumRest ==
  ASSUME NEW S, IsFiniteSet(S), NEW T \in SUBSET S, NEW f, Ints(f, S)
  PROVE  /\ SumFunctionOnSet(f, S) = SumFunctionOnSet(f, T) + SumFunctionOnSet(f, S \ T)
         /\ SumFunctionOnSet(f, T) \in Int /\ SumFunctionOnSet(f, S \ T) \in Int
<1> DEFINE R == S \ T
<1>1. T \cup R = S
  OBVIOUS
<1>2. IsFiniteSet(T) /\ IsFiniteSet(R) /\ T \cap R = {} /\ Ints(f, T) /\ Ints(f, R) /\ Ints(f, T \cup R)
  BY FS_Subset DEF Ints
<1>3. SumFunctionOnSet(f, T) \in Int /\ SumFunctionOnSet(f, R) \in Int
  BY <1>2, SumTake
<1>4. SumFunctionOnSet(f, T \cup R) = SumFunctionOnSet(f, T) + SumFunctionOnSet(f, R)
  <2> HIDE DEF R
  <2> QED
    BY <1>2, SumSplit
<1>5. SumFunctionOnSet(f, T \cup R) = SumFunctionOnSet(f, S)
  BY ONLY <1>1, Zenon
<1> QED
  BY <1>3, <1>4, <1>5

\* What counts for nothing may be left out.
LEMMA SumDrop ==
  ASSUME NEW S, IsFiniteSet(S), NEW T \in SUBSET S, NEW f, Ints(f, S), \A x \in S \ T : f[x] = 0
  PROVE  SumFunctionOnSet(f, S) = SumFunctionOnSet(f, T)
<1>1. IsFiniteSet(S \ T)
  BY FS_Subset
<1>2. SumFunctionOnSet(f, S \ T) = 0
  BY <1>1, SumZero
<1> QED
  BY <1>2, SumRest

Nats(f, S) == \A x \in S : f[x] \in Nat

LEMMA SumNat ==
  ASSUME NEW S, IsFiniteSet(S), NEW f, Nats(f, S)
  PROVE  /\ SumFunctionOnSet(f, S) \in Nat
         /\ \A T \in SUBSET S : SumFunctionOnSet(f, T) \in Nat
                                    /\ SumFunctionOnSet(f, T) <= SumFunctionOnSet(f, S)
         /\ \A x \in S : f[x] <= SumFunctionOnSet(f, S)
         /\ SumFunctionOnSet(f, S) > 0 => \E x \in S : f[x] > 0
<1> DEFINE zero == [x \in S |-> 0]
<1>1. Ints(f, S)
  BY DEF Ints, Nats
<1>2. ASSUME NEW T \in SUBSET S
      PROVE  SumFunctionOnSet(f, T) \in Nat
  <2>1. IsFiniteSet(T) /\ Ints(f, T) /\ Ints(zero, T) /\ \A x \in T : zero[x] <= f[x] /\ zero[x] = 0
    BY FS_Subset DEF Ints, Nats
  <2> HIDE DEF zero
  <2>2. SumFunctionOnSet(zero, T) = 0 /\ SumFunctionOnSet(zero, T) <= SumFunctionOnSet(f, T)
    BY <2>1, SumZero, SumLess
  <2>3. SumFunctionOnSet(f, T) \in Int
    BY <2>1, SumTake
  <2> QED
    BY <2>2, <2>3
<1>3. ASSUME NEW T \in SUBSET S
      PROVE  SumFunctionOnSet(f, T) <= SumFunctionOnSet(f, S)
  <2>2. SumFunctionOnSet(f, S) = SumFunctionOnSet(f, T) + SumFunctionOnSet(f, S \ T)
    BY <1>1, SumRest
  <2>3. SumFunctionOnSet(f, T) \in Nat /\ SumFunctionOnSet(f, S \ T) \in Nat
    BY <1>2
  <2> QED
    BY <2>2, <2>3
<1>4. ASSUME NEW x \in S PROVE f[x] <= SumFunctionOnSet(f, S)
  <2>1. SumFunctionOnSet(f, S) = f[x] + SumFunctionOnSet(f, S \ {x})
    BY <1>1, SumTake
  <2>2. SumFunctionOnSet(f, S \ {x}) \in Nat /\ f[x] \in Nat
    BY <1>2 DEF Nats
  <2> QED
    BY <2>1, <2>2
<1>5. ASSUME ~ \E x \in S : f[x] > 0 PROVE SumFunctionOnSet(f, S) = 0
  <2>1. \A x \in S : f[x] = 0
    BY <1>5 DEF Nats
  <2> QED
    BY <2>1, SumZero
<1>6. SumFunctionOnSet(f, S) \in Nat
  BY <1>2
<1> QED
  BY <1>2, <1>3, <1>4, <1>5, <1>6

\* Those of S that the key puts at x.
Those(S, key, x) == {r \in S : key[r] = x}

\* What is added up part by part is added up.
LEMMA SumParts ==
  ASSUME NEW S, IsFiniteSet(S), NEW f, Ints(f, S), NEW K, IsFiniteSet(K), NEW key, NEW e,
         \A r \in S : key[r] \in K,
         \A x \in K : e[x] = SumFunctionOnSet(f, Those(S, key, x))
  PROVE  SumFunctionOnSet(e, K) = SumFunctionOnSet(f, S)
<1> DEFINE Cell(T) == {r \in S : key[r] \in T}
           Q == {T \in SUBSET K : SumFunctionOnSet(e, T) = SumFunctionOnSet(f, Cell(T))}
<1>1. \A T : IsFiniteSet(Cell(T)) /\ Ints(f, Cell(T))
  BY FS_Subset DEF Ints
<1>2. \A x \in K : e[x] \in Int
  <2> TAKE x \in K
  <2>1. IsFiniteSet(Those(S, key, x)) /\ Ints(f, Those(S, key, x))
    BY FS_Subset DEF Ints, Those
  <2> QED
    BY <2>1, SumTake
<1>3. {} \in Q
  <2>1. Cell({}) = {}
    OBVIOUS
  <2>2. SumFunctionOnSet(f, Cell({})) = 0
    BY <2>1, SumEmpty
  <2> QED
    BY <2>2, SumEmpty
<1>4. ASSUME NEW T \in SUBSET K, NEW x \in K \ T, T \in Q PROVE T \cup {x} \in Q
  <2> DEFINE A == Cell(T)
             B == Those(S, key, x)
  <2>1. IsFiniteSet(A) /\ IsFiniteSet(B) /\ Ints(f, A \cup B)
    BY FS_Subset DEF Ints, Those
  <2>2. A \cap B = {} /\ Cell(T \cup {x}) = A \cup B
    BY <1>4 DEF Those
  <2>3. SumFunctionOnSet(f, A \cup B) = SumFunctionOnSet(f, A) + SumFunctionOnSet(f, B)
    <3> HIDE DEF A, B
    <3> QED
      BY <2>1, <2>2, SumSplit
  <2>4. SumFunctionOnSet(f, Cell(T \cup {x})) = SumFunctionOnSet(f, A \cup B)
    BY ONLY <2>2, Zenon
  <2>5. IsFiniteSet(T) /\ x \notin T /\ Ints(e, T \cup {x}) /\ Ints(e, T)
    BY <1>2, <1>4, FS_Subset DEF Ints
  <2>6. SumFunctionOnSet(e, T \cup {x}) = e[x] + SumFunctionOnSet(e, T)
    BY <2>5, SumAdd
  <2>7. SumFunctionOnSet(e, T) = SumFunctionOnSet(f, A) /\ e[x] = SumFunctionOnSet(f, B)
    BY <1>4
  <2>8. SumFunctionOnSet(e, T) \in Int /\ e[x] \in Int
    BY <1>2, <2>5, SumTake
  <2>9. SumFunctionOnSet(e, T \cup {x}) = SumFunctionOnSet(f, Cell(T \cup {x}))
    BY <2>3, <2>4, <2>6, <2>7, <2>8
  <2> QED
    BY <1>4, <2>9
<1>5. \A T \in SUBSET K : \A x \in K \ T : T \in Q => T \cup {x} \in Q
  BY <1>4
<1>6. K \in SUBSET K
  OBVIOUS
<1>7. K \in Q
  <2> HIDE DEF Q
  <2> QED
    BY <1>3, <1>5, <1>6, SetInduct
<1>8. Cell(K) = S
  OBVIOUS
<1>9. SumFunctionOnSet(f, Cell(K)) = SumFunctionOnSet(f, S)
  BY ONLY <1>8, Zenon
<1> QED
  BY <1>7, <1>9

LEMMA SumPlus ==
  ASSUME NEW S, IsFiniteSet(S), NEW f, Ints(f, S), NEW e, Ints(e, S), NEW h, \A x \in S : h[x] = e[x] + f[x]
  PROVE  SumFunctionOnSet(h, S) = SumFunctionOnSet(e, S) + SumFunctionOnSet(f, S)
<1> DEFINE Q == {T \in SUBSET S : SumFunctionOnSet(h, T) = SumFunctionOnSet(e, T) + SumFunctionOnSet(f, T)}
<1>1. {} \in Q
  BY SumEmpty
<1>2. ASSUME NEW T \in SUBSET S, NEW x \in S \ T, T \in Q PROVE T \cup {x} \in Q
  <2>1. /\ IsFiniteSet(T) /\ Ints(f, T \cup {x}) /\ Ints(e, T \cup {x}) /\ Ints(h, T \cup {x})
        /\ Ints(f, T) /\ Ints(e, T)
    BY FS_Subset DEF Ints
  <2>2. SumFunctionOnSet(e, T \cup {x}) = e[x] + SumFunctionOnSet(e, T)
    BY <2>1, SumAdd
  <2>3. SumFunctionOnSet(f, T \cup {x}) = f[x] + SumFunctionOnSet(f, T)
    BY <2>1, SumAdd
  <2>4. SumFunctionOnSet(h, T \cup {x}) = h[x] + SumFunctionOnSet(h, T)
    BY <2>1, SumAdd
  <2>5. SumFunctionOnSet(e, T) \in Int /\ SumFunctionOnSet(f, T) \in Int /\ e[x] \in Int /\ f[x] \in Int
    BY <2>1, SumTake DEF Ints
  <2> QED
    BY <1>2, <2>2, <2>3, <2>4, <2>5
<1>3. \A T \in SUBSET S : \A x \in S \ T : T \in Q => T \cup {x} \in Q
  BY <1>2
<1>4. S \in SUBSET S
  OBVIOUS
<1>5. S \in Q
  <2> HIDE DEF Q
  <2> QED
    BY <1>1, <1>3, <1>4, SetInduct
<1> QED
  BY <1>5

LEMMA SumTimes ==
  ASSUME NEW S, IsFiniteSet(S), NEW f, Ints(f, S), NEW n \in Int, NEW e, \A x \in S : e[x] = n * f[x]
  PROVE  SumFunctionOnSet(e, S) = n * SumFunctionOnSet(f, S)
<1> DEFINE Q == {T \in SUBSET S : SumFunctionOnSet(e, T) = n * SumFunctionOnSet(f, T)}
<1>1. {} \in Q
  BY SumEmpty
<1>2. ASSUME NEW T \in SUBSET S, NEW x \in S \ T, T \in Q PROVE T \cup {x} \in Q
  <2>1. IsFiniteSet(T) /\ Ints(f, T \cup {x}) /\ Ints(e, T \cup {x}) /\ Ints(f, T)
    BY FS_Subset DEF Ints
  <2>2. SumFunctionOnSet(e, T \cup {x}) = e[x] + SumFunctionOnSet(e, T)
    BY <2>1, SumAdd
  <2>3. SumFunctionOnSet(f, T \cup {x}) = f[x] + SumFunctionOnSet(f, T)
    BY <2>1, SumAdd
  <2>4. SumFunctionOnSet(f, T) \in Int /\ f[x] \in Int
    BY <2>1, SumTake DEF Ints
  <2>5. n * (f[x] + SumFunctionOnSet(f, T)) = n * f[x] + n * SumFunctionOnSet(f, T)
    BY <2>4
  <2> QED
    BY <1>2, <2>2, <2>3, <2>4, <2>5
<1>3. \A T \in SUBSET S : \A x \in S \ T : T \in Q => T \cup {x} \in Q
  BY <1>2
<1>4. S \in SUBSET S
  OBVIOUS
<1>5. S \in Q
  <2> HIDE DEF Q
  <2> QED
    BY <1>1, <1>3, <1>4, SetInduct
<1> QED
  BY <1>5

LEMMA SumCounts ==
  ASSUME NEW S, IsFiniteSet(S), NEW f, \A x \in S : f[x] = 1
  PROVE  SumFunctionOnSet(f, S) = Cardinality(S)
<1> DEFINE Q == {T \in SUBSET S : SumFunctionOnSet(f, T) = Cardinality(T)}
<1>1. {} \in Q
  BY SumEmpty, FS_EmptySet
<1>2. ASSUME NEW T \in SUBSET S, NEW x \in S \ T, T \in Q PROVE T \cup {x} \in Q
  <2>1. IsFiniteSet(T) /\ Ints(f, T \cup {x})
    BY FS_Subset DEF Ints
  <2>2. SumFunctionOnSet(f, T \cup {x}) = f[x] + SumFunctionOnSet(f, T)
    BY <2>1, SumAdd
  <2>3. Cardinality(T \cup {x}) = Cardinality(T) + 1 /\ Cardinality(T) \in Nat
    BY <1>2, <2>1, FS_AddElement, FS_CardinalityType
  <2> QED
    BY <1>2, <2>2, <2>3
<1>3. \A T \in SUBSET S : \A x \in S \ T : T \in Q => T \cup {x} \in Q
  BY <1>2
<1>4. S \in SUBSET S
  OBVIOUS
<1>5. S \in Q
  <2> HIDE DEF Q
  <2> QED
    BY <1>1, <1>3, <1>4, SetInduct
<1> QED
  BY <1>5

\* Between the least and the most, as many times.
LEMMA SumWithin ==
  ASSUME NEW S, IsFiniteSet(S), NEW f, Ints(f, S), NEW c \in Int
  PROVE  /\ (\A x \in S : f[x] <= c) => SumFunctionOnSet(f, S) <= Cardinality(S) * c
         /\ (\A x \in S : f[x] >= c) => SumFunctionOnSet(f, S) >= Cardinality(S) * c
<1> DEFINE one == [x \in S |-> 1]
           e == [x \in S |-> c]
<1>1. Ints(one, S) /\ Ints(e, S) /\ \A x \in S : one[x] = 1 /\ e[x] = c * one[x] /\ e[x] = c
  BY DEF Ints
<1> HIDE DEF one, e
<1>2. SumFunctionOnSet(one, S) = Cardinality(S)
  BY <1>1, SumCounts
<1>3. SumFunctionOnSet(e, S) = c * SumFunctionOnSet(one, S)
  BY <1>1, SumTimes
<1>4. Cardinality(S) \in Nat
  BY FS_CardinalityType
<1>5. SumFunctionOnSet(e, S) = Cardinality(S) * c
  BY <1>2, <1>3, <1>4
<1>6. (\A x \in S : f[x] <= c) => SumFunctionOnSet(f, S) <= SumFunctionOnSet(e, S)
  BY <1>1, SumLess
<1>7. (\A x \in S : f[x] >= c) => SumFunctionOnSet(e, S) <= SumFunctionOnSet(f, S)
  <2> SUFFICES ASSUME \A x \in S : f[x] >= c PROVE SumFunctionOnSet(e, S) <= SumFunctionOnSet(f, S)
    OBVIOUS
  <2>1. \A x \in S : e[x] <= f[x]
    BY <1>1 DEF Ints
  <2> QED
    BY <1>1, <2>1, SumLess
<1>8. SumFunctionOnSet(e, S) \in Int /\ SumFunctionOnSet(f, S) \in Int
  BY <1>1, SumTake
<1> QED
  BY <1>5, <1>6, <1>7, <1>8

-----------------------------------------------------------------------------
\* The n that rank first.
Leads(K, D, f) == \A x \in K, y \in D \ K : f[x] >= f[y]

LEMMA MostExists ==
  ASSUME NEW D, IsFiniteSet(D), D # {}, NEW f, Ints(f, D)
  PROVE  \E x \in D : \A y \in D : f[x] >= f[y]
<1> DEFINE Q == {T \in SUBSET D : T = {} \/ \E x \in T : \A y \in T : f[x] >= f[y]}
<1>1. {} \in Q
  OBVIOUS
<1>2. ASSUME NEW T \in SUBSET D, NEW x \in D \ T, T \in Q PROVE T \cup {x} \in Q
  <2>1. CASE T = {}
    BY <2>1 DEF Ints
  <2>2. CASE T # {}
    <3>1. PICK z \in T : \A y \in T : f[z] >= f[y]
      BY <1>2, <2>2
    <3>2. CASE f[z] >= f[x]
      <4>1. \A y \in T \cup {x} : f[z] >= f[y]
        BY <3>1, <3>2
      <4> QED
        BY <4>1
    <3>3. CASE f[x] >= f[z]
      <4>1. \A y \in T \cup {x} : f[x] >= f[y]
        BY <3>1, <3>3 DEF Ints
      <4> QED
        BY <4>1
    <3> QED
      BY <3>2, <3>3 DEF Ints
  <2> QED
    BY <2>1, <2>2
<1>3. \A T \in SUBSET D : \A x \in D \ T : T \in Q => T \cup {x} \in Q
  BY <1>2
<1>4. D \in SUBSET D
  OBVIOUS
<1>5. D \in Q
  <2> HIDE DEF Q
  <2> QED
    BY <1>1, <1>3, <1>4, SetInduct
<1> QED
  BY <1>5

LEMMA TopExists ==
  ASSUME NEW D, IsFiniteSet(D), NEW f, Ints(f, D), NEW n \in 0..Cardinality(D)
  PROVE  \E K \in SUBSET D : Cardinality(K) = n /\ Leads(K, D, f)
<1> DEFINE H == {k \in Nat : k <= Cardinality(D) =>
                      \E K \in SUBSET D : Cardinality(K) = k /\ Leads(K, D, f)}
<1>1. 0 \in H
  BY FS_EmptySet DEF Leads
<1>2. ASSUME NEW k \in Nat, k \in H PROVE k + 1 \in H
  <2> SUFFICES ASSUME k + 1 <= Cardinality(D)
               PROVE  \E K \in SUBSET D : Cardinality(K) = k + 1 /\ Leads(K, D, f)
    OBVIOUS
  <2>1. Cardinality(D) \in Nat
    BY FS_CardinalityType
  <2>2. PICK K \in SUBSET D : Cardinality(K) = k /\ Leads(K, D, f)
    BY <1>2, <2>1
  <2>3. IsFiniteSet(K) /\ IsFiniteSet(D \ K) /\ D \ K # {} /\ Ints(f, D \ K)
    BY <2>1, <2>2, FS_Subset DEF Ints
  <2>4. PICK x \in D \ K : \A y \in D \ K : f[x] >= f[y]
    BY <2>3, MostExists
  <2>5. Cardinality(K \cup {x}) = k + 1
    BY <2>2, <2>3, <2>4, FS_AddElement
  <2>6. Leads(K \cup {x}, D, f)
    BY <2>2, <2>4 DEF Leads
  <2> QED
    BY <2>4, <2>5, <2>6
<1>3. n \in H
  <2> HIDE DEF H
  <2> QED
    BY <1>1, <1>2, Induct, FS_CardinalityType
<1> QED
  BY <1>3, FS_CardinalityType

-----------------------------------------------------------------------------
\* The sums of the parts are these.
LEMMA ChartSum ==
  ASSUME NEW f
  PROVE  Chart!SumFunction(f) = SumFunctionOnSet(f, DOMAIN f)
BY DEF Chart!SumFunction, Chart!SumFunctionOnSet, Chart!FoldFunctionOnSet, Chart!MapThenFoldSet,
       SumFunctionOnSet, FoldFunctionOnSet, MapThenFoldSet
LEMMA CountSum ==
  ASSUME NEW f, NEW S
  PROVE  /\ Count!SumFunction(f) = SumFunctionOnSet(f, DOMAIN f)
         /\ Count!SumFunctionOnSet(f, S) = SumFunctionOnSet(f, S)
BY DEF Count!SumFunction, Count!SumFunctionOnSet, Count!FoldFunctionOnSet, Count!MapThenFoldSet,
       SumFunctionOnSet, FoldFunctionOnSet, MapThenFoldSet
LEMMA SameCount ==
  ASSUME NEW S
  PROVE  Work!Cardinality(S) = Cardinality(S)
BY DEF Work!Cardinality, Cardinality
LEMMA WorkSum ==
  ASSUME NEW f, NEW S
  PROVE  /\ Work!SumFunction(f) = SumFunctionOnSet(f, DOMAIN f)
         /\ Work!SumFunctionOnSet(f, S) = SumFunctionOnSet(f, S)
BY DEF Work!SumFunction, Work!SumFunctionOnSet, Work!FoldFunctionOnSet, Work!MapThenFoldSet,
       SumFunctionOnSet, FoldFunctionOnSet, MapThenFoldSet

-----------------------------------------------------------------------------
\* Whole shares.
LEMMA DivIs ==
  ASSUME NEW n \in Nat, NEW a \in Nat \ {0}
  PROVE  n \div a \in Nat /\ a * (n \div a) <= n /\ (n \div a = 0 => n < a) /\ 0 \div a = 0
OBVIOUS

LEMMA LessBy ==
  ASSUME NEW a \in Nat \ {0}, NEW x \in Int, NEW y \in Int, a * x <= a * y
  PROVE  x <= y
<1> SUFFICES ASSUME x >= y + 1 PROVE FALSE
  OBVIOUS
<1>1. a * (x - y) >= a
  <2>1. x - y - 1 \in Nat
    OBVIOUS
  <2>2. a * (x - y - 1) >= 0
    BY <2>1
  <2>3. a * (x - y - 1) = a * (x - y) - a
    OBVIOUS
  <2> QED
    BY <2>2, <2>3
<1>2. a * (x - y) = a * x - a * y
  OBVIOUS
<1> QED
  BY <1>1, <1>2

LEMMA SharesFit ==
  ASSUME NEW S, IsFiniteSet(S), NEW N \in SUBSET S, NEW m, Nats(m, S), NEW t \in Nat,
         SumFunctionOnSet(m, S) > 0, NEW share,
         \A l \in S : share[l] = (t * m[l]) \div SumFunctionOnSet(m, S)
  PROVE  SumFunctionOnSet(share, N) <= t /\ Nats(share, S)
<1> DEFINE a == SumFunctionOnSet(m, S)
<1>1. a \in Nat \ {0}
  BY SumNat
<1>2. ASSUME NEW l \in S
      PROVE  share[l] \in Nat /\ a * share[l] <= t * m[l] /\ a * share[l] \in Int /\ t * m[l] \in Int
  <2>1. m[l] \in Nat /\ t * m[l] \in Nat
    BY DEF Nats
  <2>2. share[l] = (t * m[l]) \div a
    OBVIOUS
  <2> HIDE DEF a
  <2> QED
    BY <1>1, <2>1, <2>2, DivIs
<1> DEFINE p == [l \in S |-> a * share[l]]
           q == [l \in S |-> t * m[l]]
<1>3. IsFiniteSet(N) /\ Ints(share, N) /\ Ints(m, N) /\ Ints(m, S)
  BY <1>2, FS_Subset DEF Ints, Nats
<1>4. Ints(p, N) /\ Ints(q, N) /\ \A l \in N : p[l] <= q[l] /\ p[l] = a * share[l] /\ q[l] = t * m[l]
  BY <1>2 DEF Ints
<1>5. SumFunctionOnSet(m, N) \in Nat /\ SumFunctionOnSet(m, N) <= a
  BY SumNat
<1>6. SumFunctionOnSet(share, N) \in Int
  BY <1>3, SumTake
<1> HIDE DEF a, p, q
<1>7. SumFunctionOnSet(p, N) = a * SumFunctionOnSet(share, N)
  BY <1>1, <1>3, <1>4, SumTimes
<1>8. SumFunctionOnSet(q, N) = t * SumFunctionOnSet(m, N)
  BY <1>3, <1>4, SumTimes
<1>9. SumFunctionOnSet(p, N) <= SumFunctionOnSet(q, N)
  BY <1>3, <1>4, SumLess
<1>10. t * SumFunctionOnSet(m, N) <= t * a
  <2> DEFINE x == SumFunctionOnSet(m, N)
  <2>1. x \in Nat /\ a - x \in Nat
    BY <1>1, <1>5
  <2> HIDE DEF x
  <2>2. t * (a - x) >= 0 /\ t * (a - x) = t * a - t * x
    BY <1>1, <2>1
  <2>3. t * x <= t * a
    BY <1>1, <2>1, <2>2
  <2> QED
    BY <2>3 DEF x
<1>11. a * SumFunctionOnSet(share, N) <= a * t
  <2>1. t * a = a * t
    BY <1>1
  <2> QED
    BY <1>1, <1>5, <1>6, <1>7, <1>8, <1>9, <1>10, <2>1
<1>12. SumFunctionOnSet(share, N) <= t
  BY <1>1, <1>6, <1>11, LessBy
<1> QED
  BY <1>2, <1>12 DEF Nats

-----------------------------------------------------------------------------
\* The last and the first of some numbers.
LEMMA LastOne ==
  ASSUME NEW S, IsFiniteSet(S), S # {}, S \subseteq Int
  PROVE  /\ Work!Max(S) \in S /\ \A y \in S : y <= Work!Max(S)
         /\ Count!Max(S) \in S /\ \A y \in S : y <= Count!Max(S)
<1> DEFINE f == [x \in S |-> x]
<1>1. Ints(f, S)
  BY DEF Ints
<1>2. \E x \in S : \A y \in S : f[x] >= f[y]
  <2> HIDE DEF f
  <2> QED
    BY <1>1, MostExists
<1>3. \E x \in S : \A y \in S : x >= y
  BY <1>2
<1> QED
  BY <1>3 DEF Work!Max, Count!Max

LEMMA FirstOne ==
  ASSUME NEW S, IsFiniteSet(S), S # {}, S \subseteq Int
  PROVE  /\ Work!Min(S) \in S /\ \A y \in S : Work!Min(S) <= y
         /\ Count!Min(S) \in S /\ \A y \in S : Count!Min(S) <= y
<1> DEFINE f == [x \in S |-> -x]
<1>1. Ints(f, S)
  BY DEF Ints
<1>2. \E x \in S : \A y \in S : f[x] >= f[y]
  <2> HIDE DEF f
  <2> QED
    BY <1>1, MostExists
<1>3. \E x \in S : \A y \in S : x =< y
  BY <1>2
<1> QED
  BY <1>3 DEF Work!Min, Count!Min

-----------------------------------------------------------------------------
\* Attribution.
Readings == Work!Bucket \X Labels
WorkInv ==
    /\ load \in [0..LastBucket -> Nat \cup {Work!None}]
    /\ DOMAIN reading \subseteq Readings /\ \A x \in DOMAIN reading : reading[x] \in {1, 2}
    /\ DOMAIN gauge \subseteq Readings /\ \A x \in DOMAIN gauge : gauge[x] \in {0, 1}
    /\ nameable \subseteq Labels /\ (gauge = << >> \/ bymodel)

LEMMA WorkInit ==
  ASSUME Work!Init
  PROVE  WorkInv
BY WorkAssumption DEF Work!Init, WorkInv

LEMMA WorkNext ==
  ASSUME WorkInv, Work!Next \/ UNCHANGED work
  PROVE  WorkInv'
<1>1. CASE UNCHANGED work
  BY <1>1 DEF WorkInv, work, Readings, Work!Bucket, Work!None
<1>2. ASSUME NEW x \in Work!Bucket \X Labels, NEW v \in {1, 2}, Work!Use(x, v)
      PROVE  WorkInv'
  BY <1>2 DEF WorkInv, Work!Use, Work!Put, Readings, Work!Bucket, Work!None
<1>3. ASSUME NEW x \in Work!Bucket \X Labels, NEW v \in {0, 1}, Work!Gauge(x, v)
      PROVE  WorkInv'
  BY <1>3 DEF WorkInv, Work!Gauge, Work!Put, Readings, Work!Bucket, Work!None
<1>4. ASSUME NEW l \in Labels, Work!Hide(l)
      PROVE  WorkInv'
  BY <1>4 DEF WorkInv, Work!Hide, Readings, Work!Bucket, Work!None
<1> QED
  BY <1>1, <1>2, <1>3, <1>4 DEF Work!Next

\* The mixture that a bucket is split by, and what it adds up to.
Mix(c, b) == LET D == Work!Donors(b, c.busy)
             IN  [l \in Labels |-> SumFunctionOnSet([d \in D |-> c.weight[d][l]], D)]
Mixed(c, b) == SumFunctionOnSet(Mix(c, b), Labels)
Share(c, b, l) == (Scale * load[b] * Mix(c, b)[l]) \div Mixed(c, b)

First(able, done) ==
    LET size == IF Work!Cardinality(able) < TopN THEN Work!Cardinality(able) ELSE TopN
    IN  CHOOSE N \in Work!kSubset(size, able) : \A l \in N, m \in able \ N : done[l] >= done[m]

\* What a window looks like.
IsChart(c, w) ==
    /\ c.weight = [b \in w |-> [l \in Labels |-> Work!Weight(b, l, w)]]
    /\ c.busy = {b \in w : \E l \in Labels : c.weight[b][l] > 0}
    /\ c.drawn = IF cumulative /\ c.busy = {} THEN {} ELSE {b \in w : load[b] # Work!None}
    /\ \A b \in c.drawn : c.share[b] = [l \in Labels |-> IF Mixed(c, b) = 0 THEN 0 ELSE Share(c, b, l)]
    /\ c.work = [l \in Labels |-> SumFunctionOnSet([b \in c.drawn |-> c.share[b][l]], c.drawn)]
    /\ c.able = {l \in IF bymodel THEN Labels ELSE nameable : c.work[l] > 0}
    /\ c.named = First(c.able, c.work)

LEMMA WorkChart ==
  ASSUME NEW w
  PROVE  IsChart(Work!Chart(w), w)
<1> DEFINE c == Work!Chart(w)
           weight == [b \in w |-> [l \in Labels |-> Work!Weight(b, l, w)]]
           busy   == {b \in w : \E l \in Labels : weight[b][l] > 0}
           drawn  == IF cumulative /\ busy = {} THEN {} ELSE {b \in w : load[b] # Work!None}
           mix    == [b \in drawn |-> [l \in Labels |->
                         Work!SumFunction([d \in Work!Donors(b, busy) |-> weight[d][l]])]]
           all    == [b \in drawn |-> Work!SumFunction(mix[b])]
           share  == [b \in drawn |-> [l \in Labels |->
                         IF all[b] = 0 THEN 0 ELSE (Scale * load[b] * mix[b][l]) \div all[b]]]
           done   == [l \in Labels |-> Work!SumFunction([b \in drawn |-> share[b][l]])]
           able   == {l \in IF bymodel THEN Labels ELSE nameable : done[l] > 0}
<1>1. /\ c.weight = weight /\ c.busy = busy /\ c.drawn = drawn /\ c.share = share /\ c.work = done
      /\ c.able = able /\ c.named = First(able, done)
  BY DEF Work!Chart, First
<1> HIDE DEF c
<1>2. ASSUME NEW b \in drawn PROVE mix[b] = Mix(c, b)
  <2> DEFINE D == Work!Donors(b, busy)
             f(l) == [d \in D |-> weight[d][l]]
  <2>1. mix[b] = [l \in Labels |-> Work!SumFunction(f(l))]
    <3> HIDE DEF drawn, busy, weight
    <3> QED
      BY <1>2
  <2>2. ASSUME NEW l \in Labels PROVE Work!SumFunction(f(l)) = SumFunctionOnSet(f(l), D)
    <3> DEFINE g == f(l)
    <3>1. DOMAIN g = D
      BY ONLY TRUE
    <3> HIDE DEF g, D
    <3>2. Work!SumFunction(g) = SumFunctionOnSet(g, D)
      BY <3>1, WorkSum
    <3> QED
      BY <3>2 DEF g
  <2>3. Mix(c, b) = [l \in Labels |-> SumFunctionOnSet(f(l), D)]
    <3> HIDE DEF weight, busy
    <3> QED
      BY <1>1 DEF Mix
  <2> HIDE DEF f, mix, drawn
  <2> QED
    BY <2>1, <2>2, <2>3
<1>3. ASSUME NEW b \in drawn PROVE all[b] = Mixed(c, b)
  <2>1. all[b] = Work!SumFunction(Mix(c, b))
    <3> HIDE DEF drawn, mix
    <3> QED
      BY <1>2, <1>3
  <2>2. DOMAIN Mix(c, b) = Labels
    BY DEF Mix
  <2> HIDE DEF all
  <2> QED
    BY <2>1, <2>2, WorkSum DEF Mixed
<1>4. \A b \in c.drawn : c.share[b] = [l \in Labels |-> IF Mixed(c, b) = 0 THEN 0 ELSE Share(c, b, l)]
  <2> TAKE b \in c.drawn
  <2>1. b \in drawn
    <3> HIDE DEF drawn
    <3> QED
      BY <1>1
  <2>2. share[b] = [l \in Labels |-> IF all[b] = 0 THEN 0 ELSE (Scale * load[b] * mix[b][l]) \div all[b]]
    <3> HIDE DEF drawn, mix, all
    <3> QED
      BY <2>1
  <2>3. mix[b] = Mix(c, b) /\ all[b] = Mixed(c, b)
    <3> HIDE DEF drawn, mix, all
    <3> QED
      BY <1>2, <1>3, <2>1
  <2>4. c.share[b] = share[b]
    <3> HIDE DEF share
    <3> QED
      BY <1>1
  <2> HIDE DEF share, all, mix, drawn
  <2> QED
    BY <2>2, <2>3, <2>4 DEF Share
<1>5. ASSUME NEW l \in Labels
      PROVE  done[l] = SumFunctionOnSet([b \in c.drawn |-> c.share[b][l]], c.drawn)
  <2> DEFINE f == [b \in c.drawn |-> c.share[b][l]]
  <2>1. done[l] = Work!SumFunction(f)
    <3> HIDE DEF drawn, share
    <3> QED
      BY <1>1
  <2>2. DOMAIN f = c.drawn
    OBVIOUS
  <2> HIDE DEF f, done, drawn
  <2>3. done[l] = SumFunctionOnSet(f, c.drawn)
    BY <2>1, <2>2, WorkSum
  <2> QED
    BY <2>3 DEF f
<1>6. c.work = [l \in Labels |-> SumFunctionOnSet([b \in c.drawn |-> c.share[b][l]], c.drawn)]
  <2>1. done = [l \in Labels |-> done[l]]
    <3> HIDE DEF drawn, share
    <3> QED
      OBVIOUS
  <2> HIDE DEF done
  <2> QED
    BY <1>1, <1>5, <2>1
<1>7. c.busy = {b \in w : \E l \in Labels : c.weight[b][l] > 0}
  <2> HIDE DEF weight
  <2> QED
    BY <1>1
<1>8. c.drawn = IF cumulative /\ c.busy = {} THEN {} ELSE {b \in w : load[b] # Work!None}
  <2> HIDE DEF busy
  <2> QED
    BY <1>1
<1>9. c.weight = [b \in w |-> [l \in Labels |-> Work!Weight(b, l, w)]]
  BY <1>1
<1>10. c.able = {l \in IF bymodel THEN Labels ELSE nameable : c.work[l] > 0}
  <2> HIDE DEF done
  <2> QED
    BY <1>1
<1>11. c.named = First(c.able, c.work)
  <2>1. c.able = able /\ c.work = done /\ c.named = First(able, done)
    BY <1>1
  <2> QED
    BY ONLY <2>1, Zenon
<1>12. IsChart(c, w)
  <2> HIDE DEF weight, busy, drawn, mix, all, share, done, able
  <2> QED
    BY <1>4, <1>6, <1>7, <1>8, <1>9, <1>10, <1>11 DEF IsChart
<1> QED
  BY <1>12 DEF c

LEMMA WindowIs ==
  ASSUME NEW w \in Work!Windows
  PROVE  /\ w \subseteq 0..LastBucket /\ w # {} /\ IsFiniteSet(w) /\ \E f, t \in Nat : w = f..t
         /\ Work!Min(w) \in w /\ \A b \in w : Work!Min(w) <= b
<1>1. PICK f, t \in Work!Bucket : w = f..t
  BY DEF Work!Windows
<1>2. f \in Nat /\ t \in Nat /\ w \subseteq 0..LastBucket /\ w # {}
  BY <1>1, WorkAssumption DEF Work!Windows, Work!Bucket
<1>3. IsFiniteSet(w)
  BY <1>1, <1>2, FS_Interval
<1>4. w \subseteq Int
  BY <1>2
<1>5. Work!Min(w) \in w /\ \A b \in w : Work!Min(w) <= b
  BY <1>2, <1>3, <1>4, FirstOne
<1> QED
  BY <1>1, <1>2, <1>3, <1>5

LEMMA BeforeIs ==
  ASSUME WorkInv, NEW w \in Work!Windows, NEW b \in w, NEW l
  PROVE  LET S == {c \in Work!Min(w) - Lookback .. b - 1 : <<c, l>> \in DOMAIN reading}
         IN  /\ S \subseteq Int /\ IsFiniteSet(S)
             /\ Work!Before(b, l, w) = IF S = {} THEN -1 ELSE reading[<<Work!Max(S), l>>]
             /\ S # {} => Work!Max(S) \in S /\ \A c \in S : c <= Work!Max(S)
             /\ Work!Before(b, l, w) \in {-1, 1, 2}
<1> DEFINE I == Work!Min(w) - Lookback .. b - 1
           S == {c \in I : <<c, l>> \in DOMAIN reading}
<1>1. Work!Min(w) \in Nat /\ b \in Nat /\ Lookback \in Nat
  BY WindowIs, WorkAssumption
<1>2. S \in SUBSET I /\ IsFiniteSet(I) /\ I \subseteq Int
  <2>1. Work!Min(w) - Lookback \in Int /\ b - 1 \in Int
    BY <1>1
  <2> QED
    BY <2>1, FS_Interval
<1>3. IsFiniteSet(S) /\ S \subseteq Int
  BY <1>2, FS_Subset
<1>4. Work!Before(b, l, w) = IF S = {} THEN -1 ELSE reading[<<Work!Max(S), l>>]
  BY DEF Work!Before, Work!None
<1>5. S # {} => Work!Max(S) \in S /\ \A c \in S : c <= Work!Max(S)
  BY <1>3, LastOne
<1>6. S # {} => reading[<<Work!Max(S), l>>] \in {1, 2}
  BY <1>5 DEF WorkInv
<1> QED
  BY <1>3, <1>4, <1>5, <1>6

LEMMA WeightIs ==
  ASSUME WorkInv, NEW w \in Work!Windows, NEW b \in w, NEW l
  PROVE  /\ Work!Weight(b, l, w) \in 0..2
         /\ <<b, l>> \in DOMAIN gauge => Work!Weight(b, l, w) = gauge[<<b, l>>]
<1> DEFINE x == <<b, l>>
<1>1. CASE x \in DOMAIN gauge
  <2>1. Work!Weight(b, l, w) = gauge[x]
    BY <1>1 DEF Work!Weight
  <2> QED
    BY <1>1, <2>1 DEF WorkInv
<1>2. CASE x \notin DOMAIN gauge /\ x \in DOMAIN reading
  <2>1. Work!Weight(b, l, w) = IF cumulative THEN Work!PosStep(reading[x], Work!Before(b, l, w)) ELSE reading[x]
    BY <1>2 DEF Work!Weight
  <2>2. reading[x] \in {1, 2}
    BY <1>2 DEF WorkInv
  <2>3. Work!Before(b, l, w) \in {-1, 1, 2}
    BY BeforeIs
  <2> QED
    BY <1>2, <2>1, <2>2, <2>3 DEF Work!PosStep, Work!None
<1>3. CASE x \notin DOMAIN gauge /\ x \notin DOMAIN reading
  BY <1>3 DEF Work!Weight
<1> QED
  BY <1>1, <1>2, <1>3

\* The chart of a window holds numbers, and no bucket more than was measured.
LEMMA ChartHolds ==
  ASSUME WorkInv, NEW w \in Work!Windows, NEW c, IsChart(c, w)
  PROVE  /\ c.busy \subseteq w /\ c.drawn \subseteq w /\ IsFiniteSet(c.busy) /\ IsFiniteSet(c.drawn)
         /\ \A b \in w, l \in Labels : c.weight[b][l] \in 0..2
         /\ \A b \in c.drawn : /\ load[b] \in Nat /\ Nats(Mix(c, b), Labels) /\ Mixed(c, b) \in Nat
                               /\ Nats(c.share[b], Labels)
                               /\ \A N \in SUBSET Labels :
                                     SumFunctionOnSet(c.share[b], N) <= Scale * load[b]
         /\ \A l \in Labels : c.work[l] \in Nat
<1>1. c.busy \subseteq w /\ c.drawn \subseteq w
  BY DEF IsChart
<1>2. IsFiniteSet(c.busy) /\ IsFiniteSet(c.drawn) /\ IsFiniteSet(Labels)
  BY <1>1, WindowIs, FS_Subset, ChartsAssumption
<1>3. ASSUME NEW b \in w, NEW l \in Labels PROVE c.weight[b][l] \in 0..2
  <2>1. c.weight[b][l] = Work!Weight(b, l, w)
    BY DEF IsChart
  <2> QED
    BY <2>1, WeightIs
<1>4. ASSUME NEW b \in c.drawn PROVE load[b] \in Nat
  <2>1. b \in 0..LastBucket /\ load[b] # Work!None
    BY <1>1, <1>4, WindowIs DEF IsChart
  <2> QED
    BY <2>1 DEF WorkInv
<1>5. ASSUME NEW b \in c.drawn PROVE Nats(Mix(c, b), Labels)
  <2> DEFINE D == Work!Donors(b, c.busy)
  <2>1. D \in SUBSET c.busy
    BY DEF Work!Donors
  <2>2. IsFiniteSet(D)
    BY <1>2, <2>1, FS_Subset
  <2>3. ASSUME NEW l \in Labels PROVE Mix(c, b)[l] \in Nat
    <3> DEFINE f == [d \in D |-> c.weight[d][l]]
    <3>1. Nats(f, D)
      BY <1>1, <1>3, <2>1 DEF Nats
    <3>2. Mix(c, b)[l] = SumFunctionOnSet(f, D)
      BY DEF Mix
    <3> HIDE DEF f, D
    <3> QED
      BY <2>2, <3>1, <3>2, SumNat
  <2> QED
    BY <2>3 DEF Nats
<1>6. ASSUME NEW b \in c.drawn PROVE Mixed(c, b) \in Nat
  BY <1>2, <1>5, SumNat DEF Mixed
<1>7. ASSUME NEW b \in c.drawn, NEW N \in SUBSET Labels
      PROVE  Nats(c.share[b], Labels) /\ SumFunctionOnSet(c.share[b], N) <= Scale * load[b]
  <2> DEFINE t == Scale * load[b]
  <2>1. t \in Nat
    BY <1>4, WorkAssumption
  <2>2. c.share[b] = [l \in Labels |-> IF Mixed(c, b) = 0 THEN 0 ELSE Share(c, b, l)]
    BY DEF IsChart
  <2>3. CASE Mixed(c, b) = 0
    <3>1. \A l \in Labels : c.share[b][l] = 0
      BY <2>2, <2>3
    <3>2. SumFunctionOnSet(c.share[b], N) = 0
      BY <1>2, <3>1, FS_Subset, SumZero
    <3> QED
      BY <2>1, <3>1, <3>2 DEF Nats
  <2>4. CASE Mixed(c, b) # 0
    <3> DEFINE m == Mix(c, b)
    <3>1. SumFunctionOnSet(m, Labels) > 0
      BY <1>6, <2>4 DEF Mixed
    <3>2. \A l \in Labels : c.share[b][l] = (t * m[l]) \div SumFunctionOnSet(m, Labels)
      BY <2>2, <2>4 DEF Share, Mixed
    <3>3. Nats(m, Labels)
      BY <1>5
    <3> HIDE DEF m, t
    <3>4. SumFunctionOnSet(c.share[b], N) <= t /\ Nats(c.share[b], Labels)
      BY <1>2, <2>1, <3>1, <3>2, <3>3, SharesFit
    <3> QED
      BY <3>4 DEF t
  <2> QED
    BY <2>3, <2>4
<1>8. ASSUME NEW l \in Labels PROVE c.work[l] \in Nat
  <2> DEFINE f == [b \in c.drawn |-> c.share[b][l]]
  <2>1. Nats(f, c.drawn)
    BY <1>7 DEF Nats
  <2>2. c.work[l] = SumFunctionOnSet(f, c.drawn)
    BY DEF IsChart
  <2> HIDE DEF f
  <2> QED
    BY <1>2, <2>1, <2>2, SumNat
<1>9. \A b \in c.drawn : Nats(c.share[b], Labels)
  <2> TAKE b \in c.drawn
  <2>1. {} \in SUBSET Labels
    OBVIOUS
  <2> QED
    BY <1>7, <2>1
<1> QED
  BY <1>1, <1>2, <1>3, <1>4, <1>5, <1>6, <1>7, <1>8, <1>9

\* Those named are of those that may be, and did the most.
LEMMA WorkNamed ==
  ASSUME WorkInv, NEW w \in Work!Windows, NEW c, IsChart(c, w)
  PROVE  c.named \in SUBSET c.able /\ c.able \subseteq Labels /\ Leads(c.named, c.able, c.work)
<1> DEFINE size == IF Work!Cardinality(c.able) < TopN THEN Work!Cardinality(c.able) ELSE TopN
           Best(N) == \A l \in N, m \in c.able \ N : c.work[l] >= c.work[m]
<1>1. c.named = CHOOSE N \in Work!kSubset(size, c.able) : Best(N)
  BY DEF IsChart, First
<1>2. c.able \subseteq Labels
  BY DEF IsChart, WorkInv
<1>3. IsFiniteSet(c.able)
  BY <1>2, ChartsAssumption, FS_Subset
<1>4. Ints(c.work, c.able)
  BY <1>2, ChartHolds DEF Ints
<1>5. size \in 0..Cardinality(c.able)
  BY <1>3, SameCount, FS_CardinalityType, ChartsAssumption
<1>6. \E K \in SUBSET c.able : Cardinality(K) = size /\ Leads(K, c.able, c.work)
  <2> HIDE DEF size
  <2> QED
    BY <1>3, <1>4, <1>5, TopExists
<1>7. PICK K \in SUBSET c.able : Cardinality(K) = size /\ Leads(K, c.able, c.work)
  <2> HIDE DEF size
  <2> QED
    BY <1>6
<1>8. K \in Work!kSubset(size, c.able)
  <2> HIDE DEF size
  <2> QED
    BY <1>7, SameCount DEF Work!kSubset
<1>9. Best(K)
  BY <1>7 DEF Leads
<1>10. c.named \in Work!kSubset(size, c.able) /\ Best(c.named)
  <2> HIDE DEF Best, size
  <2> QED
    BY <1>1, <1>8, <1>9
<1> QED
  BY <1>2, <1>10 DEF Work!kSubset, Leads

\* The parts of WorkIsTrue.
LEMMA WorkHeight ==
  ASSUME WorkInv, NEW w \in Work!Windows, NEW c, IsChart(c, w)
  PROVE  Work!HeightIsTotal(c)
<1> SUFFICES ASSUME NEW b \in c.drawn
             PROVE  Work!Other(c, b) + Work!SumFunctionOnSet(c.share[b], c.named) = Scale * load[b]
  BY DEF Work!HeightIsTotal
<1> DEFINE t == Scale * load[b]
           n == SumFunctionOnSet(c.share[b], c.named)
<1>1. c.named \in SUBSET Labels
  BY WorkNamed
<1>2. n <= t /\ t \in Nat /\ Nats(c.share[b], Labels)
  <2>1. load[b] \in Nat /\ Nats(c.share[b], Labels) /\ \A N \in SUBSET Labels : SumFunctionOnSet(c.share[b], N) <= t
    BY ChartHolds
  <2>2. t \in Nat
    BY <2>1, WorkAssumption
  <2> QED
    BY <1>1, <2>1, <2>2
<1>3. n \in Nat
  <2>1. IsFiniteSet(Labels)
    BY ChartsAssumption
  <2> QED
    BY <1>1, <1>2, <2>1, SumNat
<1>4. Work!SumFunctionOnSet(c.share[b], c.named) = n
  BY WorkSum
<1> HIDE DEF n, t
<1>5. Work!Other(c, b) = IF t - n < 0 THEN 0 ELSE t - n
  BY <1>4 DEF Work!Other, t
<1> QED
  BY <1>2, <1>3, <1>4, <1>5 DEF t

LEMMA WorkDone ==
  ASSUME WorkInv, NEW w \in Work!Windows, NEW c, IsChart(c, w)
  PROVE  Work!NamedDidTheWork(c)
<1> DEFINE f(l) == [b \in c.drawn |-> c.share[b][l]]
<1>1. \A l \in Labels : Work!SumFunction(f(l)) = c.work[l]
  <2> TAKE l \in Labels
  <2> DEFINE g == f(l)
  <2>1. DOMAIN g = c.drawn
    OBVIOUS
  <2>2. c.work[l] = SumFunctionOnSet(g, c.drawn)
    BY DEF IsChart
  <2> HIDE DEF g
  <2>3. Work!SumFunction(g) = SumFunctionOnSet(g, c.drawn)
    BY <2>1, WorkSum
  <2> QED
    BY <2>2, <2>3 DEF g
<1>2. c.named \in SUBSET c.able /\ c.able \subseteq Labels /\ Leads(c.named, c.able, c.work)
  BY WorkNamed
<1>3. ASSUME NEW l \in c.named PROVE \E b \in c.drawn : c.share[b][l] > 0
  <2> DEFINE g == f(l)
  <2>1. c.work[l] > 0 /\ l \in Labels
    BY <1>2 DEF IsChart
  <2>2. c.work[l] = SumFunctionOnSet(g, c.drawn)
    BY <2>1 DEF IsChart
  <2>3. Nats(g, c.drawn) /\ IsFiniteSet(c.drawn)
    BY <2>1, ChartHolds DEF Nats
  <2>4. \A b \in c.drawn : g[b] = c.share[b][l]
    OBVIOUS
  <2> HIDE DEF g
  <2>5. \E b \in c.drawn : g[b] > 0
    BY <2>1, <2>2, <2>3, SumNat
  <2> QED
    BY <2>4, <2>5
<1>4. ASSUME NEW l \in c.named, NEW m \in c.able \ c.named
      PROVE  Work!SumFunction(f(m)) <= Work!SumFunction(f(l))
  <2>1. Work!SumFunction(f(m)) = c.work[m] /\ Work!SumFunction(f(l)) = c.work[l]
    BY <1>1, <1>2
  <2>2. c.work[m] \in Nat /\ c.work[l] \in Nat /\ c.work[l] >= c.work[m]
    BY <1>2, ChartHolds DEF Leads
  <2> HIDE DEF f
  <2> QED
    BY <2>1, <2>2
<1> QED
  BY <1>3, <1>4 DEF Work!NamedDidTheWork

\* A share is of activity of the bucket, or of the nearest.
LEMMA WorkPhantoms ==
  ASSUME WorkInv, NEW w \in Work!Windows, NEW c, IsChart(c, w)
  PROVE  Work!NoPhantoms(c)
<1> SUFFICES ASSUME NEW b \in c.drawn, NEW l \in Labels, c.share[b][l] > 0
             PROVE  \E d \in c.busy : /\ c.weight[d][l] > 0 /\ Work!Distance(b, d) <= MaxGap
                                      /\ \A e \in c.busy : Work!Distance(b, d) <= Work!Distance(b, e)
  BY DEF Work!NoPhantoms
<1> DEFINE D == Work!Donors(b, c.busy)
           f == [d \in D |-> c.weight[d][l]]
<1>1. Mixed(c, b) # 0 /\ c.share[b][l] = Share(c, b, l)
  <2>1. c.share[b] = [k \in Labels |-> IF Mixed(c, b) = 0 THEN 0 ELSE Share(c, b, k)]
    BY DEF IsChart
  <2> QED
    BY <2>1
<1>2. Mix(c, b)[l] \in Nat /\ Mixed(c, b) \in Nat /\ load[b] \in Nat /\ Scale \in Nat
  BY ChartHolds, WorkAssumption DEF Nats
<1>3. Mix(c, b)[l] > 0
  <2> SUFFICES ASSUME Mix(c, b)[l] = 0 PROVE FALSE
    BY <1>2
  <2>1. Scale * load[b] * Mix(c, b)[l] = 0
    BY <1>2
  <2>2. c.share[b][l] = 0 \div Mixed(c, b)
    BY <1>1, <2>1 DEF Share
  <2> QED
    BY <1>1, <1>2, <2>2, DivIs
<1>4. Mix(c, b)[l] = SumFunctionOnSet(f, D)
  BY DEF Mix
<1>5. D \in SUBSET c.busy /\ c.busy \subseteq w /\ IsFiniteSet(c.busy)
  BY ChartHolds DEF Work!Donors
<1>6. Nats(f, D)
  BY <1>5, ChartHolds DEF Nats
<1>7. \E d \in D : f[d] > 0
  <2>1. IsFiniteSet(D)
    BY <1>5, FS_Subset
  <2> HIDE DEF f, D
  <2> QED
    BY <1>3, <1>4, <1>6, <2>1, SumNat
<1>8. PICK d \in D : c.weight[d][l] > 0
  BY <1>7
<1>9. b \in Int /\ c.busy \subseteq Int
  BY <1>5, ChartHolds, WindowIs
<1>10. Work!Distance(b, d) <= MaxGap /\ \A e \in c.busy : Work!Distance(b, d) <= Work!Distance(b, e)
  <2>1. CASE b \in c.busy
    <3>1. d = b
      BY <2>1 DEF Work!Donors
    <3> QED
      BY <1>9, <3>1, WorkAssumption DEF Work!Distance
  <2>2. CASE b \notin c.busy
    BY <2>2 DEF Work!Donors
  <2> QED
    BY <2>1, <2>2
<1> QED
  BY <1>5, <1>8, <1>10

\* A bucket that saw activity is split by its own.
LEMMA OwnMix ==
  ASSUME WorkInv, NEW w \in Work!Windows, NEW c, IsChart(c, w), NEW b \in c.busy
  PROVE  \A k \in Labels : Mix(c, b)[k] = c.weight[b][k]
<1> TAKE k \in Labels
<1> DEFINE f == [d \in {b} |-> c.weight[d][k]]
<1>1. Work!Donors(b, c.busy) = {b}
  BY DEF Work!Donors
<1>2. Mix(c, b)[k] = SumFunctionOnSet(f, {b})
  BY <1>1 DEF Mix
<1>3. f[b] \in Int /\ f[b] = c.weight[b][k]
  BY ChartHolds
<1> HIDE DEF f
<1> QED
  BY <1>2, <1>3, SumOne

LEMMA WorkRunning ==
  ASSUME WorkInv, NEW w \in Work!Windows, NEW c, IsChart(c, w)
  PROVE  Work!RunningIsShown(c)
<1> SUFFICES ASSUME NEW x \in DOMAIN gauge, gauge[x] > 0, x[1] \in c.drawn, load[x[1]] > 0
             PROVE  c.share[x[1]][x[2]] > 0
  BY DEF Work!RunningIsShown
<1>1. PICK b \in Work!Bucket, l \in Labels : x = <<b, l>>
  BY DEF WorkInv, Readings
<1>2. b \in c.drawn /\ b \in w /\ load[b] > 0 /\ gauge[<<b, l>>] = 1 /\ <<b, l>> \in DOMAIN gauge
  BY <1>1, ChartHolds DEF WorkInv
<1>3. c.weight[b][l] = 1
  <2>1. c.weight[b][l] = Work!Weight(b, l, w)
    BY <1>2 DEF IsChart
  <2> QED
    BY <1>2, <2>1, WeightIs
<1>4. b \in c.busy
  BY <1>2, <1>3 DEF IsChart
<1>5. ASSUME NEW k \in Labels PROVE Mix(c, b)[k] = c.weight[b][k]
  BY <1>4, OwnMix
<1>6. Mixed(c, b) <= Scale /\ Mixed(c, b) >= 1
  <2> DEFINE m == Mix(c, b)
             two == [k \in Labels |-> 2]
             one == [k \in Labels |-> 1]
  <2>1. \A k \in Labels : m[k] \in 0..2
    BY <1>2, <1>5, ChartHolds
  <2>2. IsFiniteSet(Labels) /\ Ints(one, Labels) /\ Ints(two, Labels) /\ \A k \in Labels : one[k] = 1 /\ two[k] = 2 * one[k]
    BY ChartsAssumption DEF Ints
  <2>3. Ints(m, Labels) /\ Nats(m, Labels) /\ m[l] = 1 /\ \A k \in Labels : m[k] <= two[k]
    BY <1>3, <1>5, <2>1 DEF Ints, Nats
  <2> HIDE DEF m, two, one
  <2>4. SumFunctionOnSet(one, Labels) = Cardinality(Labels)
    BY <2>2, SumCounts
  <2>5. SumFunctionOnSet(two, Labels) = 2 * SumFunctionOnSet(one, Labels)
    BY <2>2, SumTimes
  <2>6. SumFunctionOnSet(m, Labels) <= SumFunctionOnSet(two, Labels)
    BY <2>2, <2>3, SumLess
  <2>7. m[l] <= SumFunctionOnSet(m, Labels) /\ SumFunctionOnSet(m, Labels) \in Nat
    BY <2>2, <2>3, SumNat
  <2>8. Cardinality(Labels) \in Nat
    BY <2>2, FS_CardinalityType
  <2> QED
    BY <2>3, <2>4, <2>5, <2>6, <2>7, <2>8, WorkAssumption DEF Mixed, m
<1>7. c.share[b][l] = (Scale * load[b]) \div Mixed(c, b)
  <2>1. c.share[b] = [k \in Labels |-> IF Mixed(c, b) = 0 THEN 0 ELSE Share(c, b, k)]
    BY <1>2 DEF IsChart
  <2>2. Mixed(c, b) # 0 /\ Scale * load[b] \in Nat
    BY <1>2, <1>6, ChartHolds, WorkAssumption
  <2>3. Mix(c, b)[l] = 1
    BY <1>3, <1>5
  <2>4. Scale * load[b] * Mix(c, b)[l] = Scale * load[b]
    BY <2>2, <2>3
  <2> QED
    BY <2>1, <2>2, <2>4 DEF Share
<1>8. Scale * load[b] >= Mixed(c, b) /\ Scale * load[b] \in Nat /\ Mixed(c, b) \in Nat \ {0}
  <2> DEFINE t == load[b]
  <2>1. t \in Nat /\ t - 1 \in Nat /\ Scale \in Nat /\ Mixed(c, b) \in Nat
    BY <1>2, ChartHolds, WorkAssumption
  <2> HIDE DEF t
  <2>2. Scale * (t - 1) >= 0 /\ Scale * (t - 1) = Scale * t - Scale /\ Scale * t \in Nat
    BY <2>1
  <2> QED
    BY <1>6, <2>1, <2>2 DEF t
<1>9. c.share[b][l] # 0 /\ c.share[b][l] \in Nat
  <2> DEFINE n == Scale * load[b]
             a == Mixed(c, b)
  <2> HIDE DEF n, a
  <2>1. n \in Nat /\ a \in Nat \ {0} /\ n >= a
    BY <1>8 DEF n, a
  <2>2. n \div a # 0 /\ n \div a \in Nat
    BY <2>1, DivIs
  <2> QED
    BY <1>7, <2>2 DEF n, a
<1> QED
  BY <1>1, <1>9

LEMMA WorkZoom ==
  ASSUME WorkInv, NEW w \in Work!Windows, NEW v \in Work!Windows, v \subseteq w, Work!Min(v) > Work!Min(w),
         \A x \in DOMAIN reading : x[1] >= Work!Min(v) - Lookback,
         NEW c, IsChart(c, w), NEW z, IsChart(z, v), NEW b \in v, b \in c.busy, b \in c.drawn,
         NEW l \in Labels
  PROVE  b \in z.drawn /\ z.share[b][l] = c.share[b][l]
<1>1. ASSUME NEW k \in Labels PROVE z.weight[b][k] = c.weight[b][k]
  <2> DEFINE S(u) == {d \in Work!Min(u) - Lookback .. b - 1 : <<d, k>> \in DOMAIN reading}
  <2>1. /\ Work!Min(v) \in Nat /\ Work!Min(w) \in Nat /\ Lookback \in Nat /\ b \in Nat
        /\ b \in w
    BY WindowIs, WorkAssumption
  <2>2. ASSUME NEW d \in Int, <<d, k>> \in DOMAIN reading PROVE d >= Work!Min(v) - Lookback
    <3>1. <<d, k>>[1] >= Work!Min(v) - Lookback
      BY <2>2
    <3> QED
      BY <3>1
  <2>3. S(v) = S(w)
    BY <2>1, <2>2
  <2>4. Work!Before(b, k, v) = Work!Before(b, k, w)
    BY <2>3 DEF Work!Before
  <2>5. Work!Weight(b, k, v) = Work!Weight(b, k, w)
    BY <2>4 DEF Work!Weight
  <2>6. z.weight[b][k] = Work!Weight(b, k, v)
    <3>1. z.weight = [x \in v |-> [l2 \in Labels |-> Work!Weight(x, l2, v)]]
      BY DEF IsChart
    <3> QED
      BY ONLY <3>1, b \in v, k \in Labels
  <2>7. c.weight[b][k] = Work!Weight(b, k, w)
    <3>1. c.weight = [x \in w |-> [l2 \in Labels |-> Work!Weight(x, l2, w)]]
      BY DEF IsChart
    <3> QED
      BY ONLY <2>1, <3>1, k \in Labels
  <2> QED
    BY ONLY <2>5, <2>6, <2>7
<1>2. b \in z.busy /\ b \in z.drawn
  <2>1. b \in z.busy
    BY <1>1 DEF IsChart
  <2> QED
    BY <2>1 DEF IsChart
<1>3. \A k \in Labels : Mix(z, b)[k] = Mix(c, b)[k]
  BY <1>1, <1>2, OwnMix
<1>4. Mix(z, b) = Mix(c, b)
  <2>1. Mix(z, b) = [k \in Labels |-> Mix(z, b)[k]] /\ Mix(c, b) = [k \in Labels |-> Mix(c, b)[k]]
    BY DEF Mix
  <2> QED
    BY <1>3, <2>1
<1>5. Mixed(z, b) = Mixed(c, b)
  BY <1>4 DEF Mixed
<1>6. /\ z.share[b] = [k \in Labels |-> IF Mixed(z, b) = 0 THEN 0 ELSE Share(z, b, k)]
      /\ c.share[b] = [k \in Labels |-> IF Mixed(c, b) = 0 THEN 0 ELSE Share(c, b, k)]
  BY <1>2 DEF IsChart
<1> QED
  BY <1>2, <1>4, <1>5, <1>6 DEF Share

\* The part of TotalsTrue about the work in flight.
LEMMA WorkHolds ==
  ASSUME WorkInv
  PROVE  Work!TypeOK /\ Work!WorkIsTrue /\ Work!ZoomKeepsSplit
<1>1. Work!TypeOK
  BY DEF Work!TypeOK, WorkInv, Readings
<1>2. Work!WorkIsTrue
  <2> SUFFICES ASSUME NEW w \in Work!Windows
               PROVE  LET c == Work!Chart(w) IN /\ Work!HeightIsTotal(c) /\ Work!NamedDidTheWork(c)
                                               /\ Work!NoPhantoms(c) /\ Work!RunningIsShown(c)
    BY DEF Work!WorkIsTrue
  <2> DEFINE c == Work!Chart(w)
  <2>1. IsChart(c, w)
    BY WorkChart
  <2> HIDE DEF c
  <2>2. Work!HeightIsTotal(c) /\ Work!NamedDidTheWork(c) /\ Work!NoPhantoms(c) /\ Work!RunningIsShown(c)
    BY <2>1, WorkHeight, WorkDone, WorkPhantoms, WorkRunning
  <2> QED
    BY <2>2 DEF c
<1>3. Work!ZoomKeepsSplit
  <2> SUFFICES ASSUME NEW w \in Work!Windows, NEW v \in Work!Windows, v \subseteq w,
                      Work!Min(v) > Work!Min(w), NEW b \in v \cap Work!Chart(w).busy \cap Work!Chart(w).drawn,
                      NEW l \in Labels, \A x \in DOMAIN reading : x[1] >= Work!Min(v) - Lookback
               PROVE  b \in Work!Chart(v).drawn /\ Work!Chart(v).share[b][l] = Work!Chart(w).share[b][l]
    BY DEF Work!ZoomKeepsSplit
  <2>1. IsChart(Work!Chart(w), w) /\ IsChart(Work!Chart(v), v)
    BY WorkChart
  <2> QED
    BY <2>1, WorkZoom
<1> QED
  BY <1>1, <1>2, <1>3

-----------------------------------------------------------------------------
\* Counters.

\* What was requested after tick a, up to tick b.
Did(a, b) == SumFunctionOnSet(made, a + 1 .. b)

\* A counter that read sample[a] at tick a reads v at tick b: no more than was requested,
\* and as much when it was not re-based.
Reads(v, a, b) ==
    /\ v <= sample[a] + Did(a, b)
    /\ rebased \cap (a + 1 .. b) = {} => v = sample[a] + Did(a, b)

CountInv ==
    /\ tick \in 0..LastTick /\ counter \in Nat /\ made \in Seq(Nat) /\ Len(made) = tick
    /\ DOMAIN sample \subseteq 1..tick /\ \A t \in DOMAIN sample : sample[t] \in Nat
    /\ rebased \subseteq 1..tick
    /\ \A a \in DOMAIN sample : Reads(counter, a, tick)
    /\ \A a, b \in DOMAIN sample : a <= b => Reads(sample[b], a, b)

LEMMA CountInit ==
  ASSUME Count!Init
  PROVE  CountInv
BY CountersAssumption DEF Count!Init, CountInv

LEMMA DidIs ==
  ASSUME CountInv, NEW a \in Nat, NEW b \in 0..tick
  PROVE  /\ Did(a, b) \in Nat
         /\ a >= b => Did(a, b) = 0
         /\ \A c \in Nat : a <= c /\ c <= b => Did(a, b) = Did(a, c) + Did(c, b)
<1>1. \A x, y \in Nat : y <= tick => IsFiniteSet(x + 1 .. y) /\ Nats(made, x + 1 .. y)
  <2> TAKE x, y \in Nat
  <2>1. x + 1 \in Int /\ y \in Int
    OBVIOUS
  <2>2. IsFiniteSet(x + 1 .. y)
    BY <2>1, FS_Interval
  <2>3. y <= tick => Nats(made, x + 1 .. y)
    BY DEF CountInv, Nats
  <2> QED
    BY <2>2, <2>3
<1>2. b \in Nat /\ b <= tick
  BY DEF CountInv
<1>3. Did(a, b) \in Nat
  BY <1>1, <1>2, SumNat DEF Did
<1>4. ASSUME a >= b PROVE Did(a, b) = 0
  <2>1. a + 1 .. b = {}
    BY <1>2, <1>4
  <2>2. Did(a, b) = SumFunctionOnSet(made, {})
    BY ONLY <2>1, Zenon DEF Did
  <2> QED
    BY <2>2, SumEmpty
<1>5. ASSUME NEW c \in Nat, a <= c, c <= b PROVE Did(a, b) = Did(a, c) + Did(c, b)
  <2> DEFINE A == a + 1 .. c
             B == c + 1 .. b
  <2>1. A \cup B = a + 1 .. b /\ A \cap B = {}
    BY <1>2, <1>5
  <2>2. IsFiniteSet(A) /\ IsFiniteSet(B) /\ Ints(made, A \cup B)
    <3>1. c <= tick
      BY <1>2, <1>5 DEF CountInv
    <3>2. IsFiniteSet(A) /\ IsFiniteSet(B) /\ Nats(made, A) /\ Nats(made, B)
      BY <1>1, <1>2, <3>1
    <3> QED
      BY <3>2 DEF Ints, Nats
  <2>3. SumFunctionOnSet(made, A \cup B) = Did(a, b)
    BY ONLY <2>1, Zenon DEF Did
  <2>4. SumFunctionOnSet(made, A) = Did(a, c) /\ SumFunctionOnSet(made, B) = Did(c, b)
    BY DEF Did
  <2> HIDE DEF A, B
  <2> QED
    BY <2>1, <2>2, <2>3, <2>4, SumSplit
<1> QED
  BY <1>3, <1>4, <1>5

LEMMA DidNext ==
  ASSUME CountInv, NEW n \in Nat, made' = Append(made, n), tick' = tick + 1, NEW a \in 0..tick
  PROVE  /\ \A b \in 0..tick : Did(a, b)' = Did(a, b)
         /\ Did(a, tick)' = Did(a, tick) + n
<1>1. tick \in Nat /\ a \in Nat /\ a <= tick
  BY DEF CountInv
<1>2. /\ \A t \in 1..tick : made'[t] = made[t] /\ made[t] \in Nat
      /\ made'[tick + 1] = n
  BY DEF CountInv
<1>3. ASSUME NEW b \in 0..tick PROVE Did(a, b)' = Did(a, b)
  <2>1. a + 1 \in Int /\ b \in Int
    BY <1>1
  <2>2. IsFiniteSet(a + 1 .. b)
    BY <2>1, FS_Interval
  <2>3. \A t \in a + 1 .. b : made'[t] = made[t]
    <3>1. a + 1 .. b \subseteq 1..tick
      BY <1>1
    <3> QED
      BY <1>2, <3>1
  <2>4. SumFunctionOnSet(made', a + 1 .. b) = SumFunctionOnSet(made, a + 1 .. b)
    BY <2>2, <2>3, SumAgree
  <2> QED
    BY <2>4 DEF Did
<1>4. Did(a, tick)' = Did(a, tick) + n
  <2> DEFINE A == a + 1 .. tick
  <2>1. A \cup {tick + 1} = a + 1 .. tick + 1 /\ tick + 1 \notin A
    BY <1>1
  <2>2. IsFiniteSet(A)
    <3>1. a + 1 \in Int /\ tick \in Int
      BY <1>1
    <3> QED
      BY <3>1, FS_Interval
  <2>3. Ints(made', A \cup {tick + 1})
    <3>1. A \subseteq 1..tick
      BY <1>1
    <3>2. ASSUME NEW t \in A PROVE made'[t] \in Int
      <4>1. t \in 1..tick
        BY <3>1
      <4> HIDE DEF A
      <4> QED
        BY ONLY <1>2, <4>1
    <3>3. made'[tick + 1] \in Int
      BY <1>2
    <3> QED
      BY <3>2, <3>3 DEF Ints
  <2>4. SumFunctionOnSet(made', a + 1 .. tick + 1) = SumFunctionOnSet(made', A \cup {tick + 1})
    BY ONLY <2>1, Zenon
  <2>5. SumFunctionOnSet(made', A) = SumFunctionOnSet(made, A)
    <3>1. \A t \in A : made'[t] = made[t]
      <4>1. A \subseteq 1..tick
        BY <1>1
      <4> QED
        BY <1>2, <4>1
    <3> QED
      BY <2>2, <3>1, SumAgree
  <2>6. SumFunctionOnSet(made, A) \in Int
    <3>1. Ints(made, A)
      BY <1>1, <1>2 DEF Ints
    <3> QED
      BY <2>2, <3>1, SumTake
  <2>7. SumFunctionOnSet(made', A \cup {tick + 1}) = made'[tick + 1] + SumFunctionOnSet(made', A)
    <3> HIDE DEF A
    <3> QED
      BY <2>1, <2>2, <2>3, SumAdd
  <2>8. Did(a, tick) = SumFunctionOnSet(made, A) /\ Did(a, tick)' = SumFunctionOnSet(made', a + 1 .. tick + 1)
    BY <1>1 DEF Did
  <2> HIDE DEF A
  <2> QED
    BY <1>2, <2>4, <2>5, <2>6, <2>7, <2>8
<1> QED
  BY <1>3, <1>4

LEMMA CountAdvance ==
  ASSUME CountInv, Count!Advance
  PROVE  CountInv'
<1>1. PICK n \in 0..MaxMade, base \in {r \in Rebases : r < counter} \cup {counter} :
         Count!Pass(n, base) /\ (Count!Sampled \/ UNCHANGED sample)
  BY DEF Count!Advance
<1>2. /\ tick < LastTick /\ tick' = tick + 1 /\ counter' = base + n /\ made' = Append(made, n)
      /\ rebased' = IF base = counter THEN rebased ELSE rebased \cup {tick'}
  BY <1>1 DEF Count!Pass
<1>3. n \in Nat /\ base \in Nat /\ base <= counter /\ tick \in Nat /\ counter \in Nat
  BY <1>1, CountersAssumption DEF CountInv
<1>4. /\ tick' \in 0..LastTick /\ counter' \in Nat /\ made' \in Seq(Nat) /\ Len(made') = tick'
      /\ rebased' \subseteq 1..tick'
  BY <1>2, <1>3, CountersAssumption DEF CountInv
<1>5. /\ DOMAIN sample \subseteq 1..tick /\ \A t \in DOMAIN sample : sample[t] \in Nat
      /\ rebased \subseteq 1..tick
  BY DEF CountInv
<1>6. ASSUME NEW a \in DOMAIN sample, NEW f, f[a] = sample[a]
      PROVE  /\ counter' <= f[a] + Did(a, tick)'
             /\ rebased' \cap (a + 1 .. tick') = {} => counter' = f[a] + Did(a, tick)'
  <2>1. Did(a, tick)' = Did(a, tick) + n /\ Did(a, tick) \in Nat
    <3>1. a \in 0..tick /\ a \in Nat /\ tick \in 0..tick
      BY <1>3, <1>5
    <3> QED
      BY <1>2, <1>3, <3>1, DidNext, DidIs
  <2>2. Reads(counter, a, tick) /\ sample[a] \in Nat
    BY DEF CountInv
  <2>3. counter' <= f[a] + Did(a, tick)'
    BY <1>2, <1>3, <1>6, <2>1, <2>2 DEF Reads
  <2>4. ASSUME rebased' \cap (a + 1 .. tick') = {} PROVE counter' = f[a] + Did(a, tick)'
    <3>1. tick' \in a + 1 .. tick' /\ a + 1 .. tick \subseteq a + 1 .. tick'
      BY <1>2, <1>3, <1>5
    <3>2. base = counter /\ rebased' = rebased
      BY <1>2, <2>4, <3>1
    <3>3. rebased \cap (a + 1 .. tick) = {}
      BY <2>4, <3>1, <3>2
    <3> DEFINE d == Did(a, tick)
    <3>4. counter = sample[a] + d
      BY <2>2, <3>3 DEF Reads
    <3>5. Did(a, tick)' = d + n /\ d \in Nat
      BY <2>1
    <3>6. counter' = counter + n
      BY <1>2, <3>2
    <3>7. sample[a] \in Nat /\ f[a] = sample[a]
      BY <1>6, <2>2
    <3> HIDE DEF d
    <3> QED
      BY ONLY <1>3, <3>4, <3>5, <3>6, <3>7
  <2> QED
    BY <2>3, <2>4
<1>7. ASSUME NEW a \in DOMAIN sample, NEW b \in DOMAIN sample, a <= b,
             NEW f, f[a] = sample[a], f[b] = sample[b]
      PROVE  /\ f[b] <= f[a] + Did(a, b)'
             /\ rebased' \cap (a + 1 .. b) = {} => f[b] = f[a] + Did(a, b)'
  <2>1. Did(a, b)' = Did(a, b)
    <3>1. a \in 0..tick /\ b \in 0..tick
      BY <1>3, <1>5
    <3> QED
      BY <1>2, <1>3, <3>1, DidNext
  <2>2. Reads(sample[b], a, b)
    BY <1>7 DEF CountInv
  <2>3. rebased \subseteq rebased'
    BY <1>2
  <2> QED
    BY <1>7, <2>1, <2>2, <2>3 DEF Reads
<1>8. CASE UNCHANGED sample
  <2>1. DOMAIN sample' \subseteq 1..tick' /\ \A t \in DOMAIN sample' : sample'[t] \in Nat
    BY <1>2, <1>3, <1>5, <1>8
  <2>2. \A a \in DOMAIN sample' : Reads(counter, a, tick)'
    BY <1>6, <1>8 DEF Reads
  <2>3. \A a, b \in DOMAIN sample' : a <= b => Reads(sample[b], a, b)'
    BY <1>7, <1>8 DEF Reads
  <2> QED
    BY <1>4, <2>1, <2>2, <2>3 DEF CountInv
<1>9. CASE Count!Sampled
  <2>1. /\ DOMAIN sample' = DOMAIN sample \cup {tick'} /\ tick' \notin DOMAIN sample
        /\ sample'[tick'] = counter' /\ \A t \in DOMAIN sample : sample'[t] = sample[t]
    BY <1>2, <1>3, <1>5, <1>9 DEF Count!Sampled
  <2>2. DOMAIN sample' \subseteq 1..tick' /\ \A t \in DOMAIN sample' : sample'[t] \in Nat
    BY <1>2, <1>3, <1>4, <1>5, <2>1
  <2>3. ASSUME NEW a, a = tick' PROVE Did(a, tick)' = 0
    <3>1. a + 1 .. tick' = {}
      BY <1>2, <1>3, <2>3
    <3>2. Did(a, tick)' = SumFunctionOnSet(made', {})
      BY ONLY <3>1, Zenon DEF Did
    <3> QED
      BY <3>2, SumEmpty
  <2>4. ASSUME NEW a \in DOMAIN sample'
        PROVE  Reads(counter, a, tick)'
    <3>1. CASE a = tick'
      <4>1. Did(a, tick)' = 0
        BY <2>3, <3>1
      <4>2. sample'[a] = counter'
        BY <2>1, <3>1
      <4>3. counter' <= sample'[a] + Did(a, tick)' /\ counter' = sample'[a] + Did(a, tick)'
        BY <1>2, <1>3, <4>1, <4>2
      <4> QED
        BY <4>3 DEF Reads
    <3>2. CASE a \in DOMAIN sample
      BY <1>6, <2>1, <3>2 DEF Reads
    <3> QED
      BY <2>1, <3>1, <3>2
  <2>5. ASSUME NEW a \in DOMAIN sample', NEW b \in DOMAIN sample', a <= b
        PROVE  Reads(sample[b], a, b)'
    <3>1. CASE b = tick'
      BY <2>1, <2>4, <3>1 DEF Reads
    <3>2. CASE b \in DOMAIN sample
      <4>1. a \in DOMAIN sample
        BY <1>2, <1>3, <1>5, <2>1, <2>5, <3>2
      <4> QED
        BY <1>7, <2>1, <2>5, <3>2, <4>1 DEF Reads
    <3> QED
      BY <2>1, <3>1, <3>2
  <2> QED
    BY <1>4, <2>2, <2>4, <2>5 DEF CountInv
<1> QED
  BY <1>1, <1>8, <1>9

LEMMA CountNext ==
  ASSUME CountInv, Count!Next \/ UNCHANGED counters
  PROVE  CountInv'
<1>1. CASE UNCHANGED counters
  BY <1>1 DEF CountInv, counters, Reads, Did
<1>2. CASE Count!Done
  BY <1>2 DEF CountInv, Count!Done, Count!vars, Reads, Did
<1> QED
  BY <1>1, <1>2, CountAdvance DEF Count!Next

LEMMA SamplesAre ==
  ASSUME CountInv, NEW a \in Int, NEW b \in Int
  PROVE  LET S == Count!Samples(a, b)
         IN  /\ S \subseteq DOMAIN sample /\ S \subseteq 1..tick /\ S \subseteq Int /\ IsFiniteSet(S)
             /\ \A t \in S : a <= t /\ t <= b
             /\ S # {} => /\ Count!Max(S) \in S /\ \A t \in S : t <= Count!Max(S)
                          /\ Count!Min(S) \in S /\ \A t \in S : Count!Min(S) <= t
<1> DEFINE S == Count!Samples(a, b)
<1>1. S \subseteq DOMAIN sample /\ S \subseteq 1..tick /\ \A t \in S : a <= t /\ t <= b
  BY DEF CountInv, Count!Samples
<1>2. IsFiniteSet(S) /\ S \subseteq Int
  <2>1. IsFiniteSet(1..tick) /\ tick \in Nat
    BY FS_Interval DEF CountInv
  <2> QED
    BY <1>1, <2>1, FS_Subset
<1> HIDE DEF S
<1>3. S # {} => /\ Count!Max(S) \in S /\ \A t \in S : t <= Count!Max(S)
                /\ Count!Min(S) \in S /\ \A t \in S : Count!Min(S) <= t
  BY <1>2, LastOne, FirstOne
<1> QED
  BY <1>1, <1>2, <1>3 DEF S

\* The sample before the one at t, when its window begins at f.
LEMMA BeforeSample ==
  ASSUME CountInv, NEW f \in 1..tick, NEW t \in f..tick
  PROVE  LET P == Count!Samples(f - LookbackTicks, t - 1)
         IN  Count!Before(t, f) = IF P = {} THEN -1 ELSE sample[Count!Max(P)]
<1> DEFINE P == Count!Samples(f - LookbackTicks, t - 1)
           A == Count!Samples(f - LookbackTicks, f - 1)
           B == Count!Samples(f, t - 1)
<1>1. /\ f \in Nat /\ t \in Nat /\ f <= t /\ LookbackTicks \in Nat
      /\ f - LookbackTicks \in Int /\ f - 1 \in Int /\ t - 1 \in Int
  BY CountersAssumption DEF CountInv
<1>2. P = A \cup B /\ \A x \in A, y \in B : x < y
  BY <1>1 DEF Count!Samples, CountInv
<1>3. P # {} => Count!Max(P) \in P /\ \A x \in P : x <= Count!Max(P)
  BY <1>1, SamplesAre
<1>4. A # {} => Count!Max(A) \in A /\ \A x \in A : x <= Count!Max(A)
  BY <1>1, SamplesAre
<1>5. B # {} => Count!Max(B) \in B /\ \A x \in B : x <= Count!Max(B)
  BY <1>1, SamplesAre
<1>6. P \subseteq Int
  BY <1>1, SamplesAre
<1>7. Count!Before(t, f) = IF B = {} THEN Count!Baseline(f) ELSE sample[Count!Max(B)]
  BY DEF Count!Before
<1>8. Count!Baseline(f) = IF A = {} THEN -1 ELSE sample[Count!Max(A)]
  BY DEF Count!Baseline, Count!None
<1> HIDE DEF P, A, B
<1>9. CASE B = {}
  <2>1. P = A
    BY <1>2, <1>9
  <2> QED
    BY <1>7, <1>8, <1>9, <2>1 DEF P
<1>10. CASE B # {}
  <2>1. Count!Max(P) = Count!Max(B)
    <3>1. Count!Max(P) \in Int /\ Count!Max(B) \in Int /\ Count!Max(P) >= Count!Max(B)
      BY <1>2, <1>3, <1>5, <1>6, <1>10
    <3>2. Count!Max(P) \in B
      BY <1>2, <1>3, <1>5, <1>10, <3>1
    <3> QED
      BY <1>5, <1>10, <3>1, <3>2
  <2> QED
    BY <1>2, <1>7, <1>10, <2>1 DEF P
<1> QED
  BY <1>9, <1>10

\* What the samples of a window that begins at f rise by, and what they do up to tick t.
Rises(f)   == [t \in DOMAIN sample |-> Count!PosStep(sample[t], Count!Before(t, f))]
Upto(f, t) == SumFunctionOnSet(Rises(f), Count!Samples(f, t))

LEMMA RisesAre ==
  ASSUME CountInv, NEW f \in 1..tick, NEW t \in DOMAIN sample, f <= t
  PROVE  LET P == Count!Samples(f - LookbackTicks, t - 1)
         IN  /\ Rises(f)[t] \in Nat
             /\ P = {} => Rises(f)[t] = 0
             /\ P # {} => Rises(f)[t] = IF sample[t] > sample[Count!Max(P)]
                                        THEN sample[t] - sample[Count!Max(P)] ELSE 0
<1> DEFINE P == Count!Samples(f - LookbackTicks, t - 1)
<1>1. t \in f..tick /\ sample[t] \in Nat
  BY DEF CountInv
<1>2. Count!Before(t, f) = IF P = {} THEN -1 ELSE sample[Count!Max(P)]
  BY <1>1, BeforeSample
<1>3. P # {} => sample[Count!Max(P)] \in Nat
  <2>1. f - LookbackTicks \in Int /\ t - 1 \in Int
    BY <1>1, CountersAssumption DEF CountInv
  <2>2. P # {} => Count!Max(P) \in DOMAIN sample
    BY <2>1, SamplesAre
  <2> QED
    BY <2>2 DEF CountInv
<1>4. Rises(f)[t] = Count!PosStep(sample[t], Count!Before(t, f))
  BY DEF Rises
<1> HIDE DEF P
<1>5. P = {} => Rises(f)[t] = 0
  BY <1>2, <1>4 DEF Count!PosStep, Count!None
<1>6. P # {} => Rises(f)[t] = IF sample[t] > sample[Count!Max(P)]
                              THEN sample[t] - sample[Count!Max(P)] ELSE 0
  BY <1>1, <1>2, <1>3, <1>4 DEF Count!PosStep, Count!None
<1>7. Rises(f)[t] \in Nat
  BY <1>1, <1>3, <1>5, <1>6
<1> QED
  BY <1>5, <1>6, <1>7 DEF P

LEMMA DeltaIs ==
  ASSUME CountInv, NEW f \in Int, NEW l \in Int
  PROVE  Count!WindowDelta(f, l) = Upto(f, l)
<1> DEFINE S == Count!Samples(f, l)
           e == [t \in S |-> Count!PosStep(sample[t], Count!Before(t, f))]
<1>1. DOMAIN e = S /\ \A t \in S : e[t] = Rises(f)[t]
  BY DEF Rises, Count!Samples
<1>2. Count!WindowDelta(f, l) = Count!SumFunction(e)
  BY DEF Count!WindowDelta
<1>3. IsFiniteSet(S)
  BY SamplesAre
<1>4. Upto(f, l) = SumFunctionOnSet(Rises(f), S)
  BY DEF Upto
<1> HIDE DEF e, S
<1>5. Count!SumFunction(e) = SumFunctionOnSet(e, S)
  BY <1>1, CountSum
<1>6. SumFunctionOnSet(e, S) = SumFunctionOnSet(Rises(f), S)
  BY <1>1, <1>3, SumAgree
<1> QED
  BY <1>2, <1>4, <1>5, <1>6

LEMMA UptoIs ==
  ASSUME CountInv, NEW f \in 1..tick, NEW t \in Int
  PROVE  /\ Upto(f, t) \in Nat
         /\ t < f => Upto(f, t) = 0
         /\ \A p \in Int : p <= t => Upto(f, p) <= Upto(f, t)
         /\ \A p \in Int : Count!Samples(f, p) = Count!Samples(f, t) => Upto(f, p) = Upto(f, t)
         /\ \A p \in Int : t \in DOMAIN sample /\ f <= t /\ Count!Samples(f, p) = Count!Samples(f, t - 1)
                              => Upto(f, t) = Upto(f, p) + Rises(f)[t]
<1> DEFINE S(x) == Count!Samples(f, x)
<1>1. f \in Int /\ f \in Nat
  OBVIOUS
<1>2. \A x \in Int : IsFiniteSet(S(x)) /\ Nats(Rises(f), S(x))
  <2> TAKE x \in Int
  <2>1. IsFiniteSet(S(x)) /\ S(x) \subseteq DOMAIN sample /\ \A y \in S(x) : f <= y
    BY <1>1, SamplesAre
  <2>2. Nats(Rises(f), S(x))
    BY <2>1, RisesAre DEF Nats
  <2> QED
    BY <2>1, <2>2
<1>3. Upto(f, t) \in Nat
  BY <1>2, SumNat DEF Upto
<1>4. ASSUME t < f PROVE Upto(f, t) = 0
  <2>1. S(t) = {}
    BY <1>1, <1>4 DEF Count!Samples
  <2>2. Upto(f, t) = SumFunctionOnSet(Rises(f), {})
    BY ONLY <2>1, Zenon DEF Upto
  <2> QED
    BY <2>2, SumEmpty
<1>5. ASSUME NEW p \in Int, p <= t PROVE Upto(f, p) <= Upto(f, t)
  <2>1. S(p) \in SUBSET S(t)
    BY <1>1, <1>5 DEF Count!Samples
  <2> DEFINE A == S(t)
             B == S(p)
             e == Rises(f)
  <2>2. B \in SUBSET A /\ IsFiniteSet(A) /\ Nats(e, A)
    BY <1>2, <2>1
  <2>3. Upto(f, p) = SumFunctionOnSet(e, B) /\ Upto(f, t) = SumFunctionOnSet(e, A)
    BY DEF Upto
  <2> HIDE DEF A, B, e
  <2>4. SumFunctionOnSet(e, B) <= SumFunctionOnSet(e, A)
    BY <2>2, SumNat
  <2> QED
    BY <2>3, <2>4
<1>6. ASSUME NEW p, S(p) = S(t) PROVE Upto(f, p) = Upto(f, t)
  BY ONLY <1>6, Zenon DEF Upto
<1>7. ASSUME NEW p \in Int, t \in DOMAIN sample, f <= t, S(p) = S(t - 1)
      PROVE  Upto(f, t) = Upto(f, p) + Rises(f)[t]
  <2> DEFINE A == S(p)
             e == Rises(f)
  <2>1. S(t) = A \cup {t} /\ t \notin A
    <3>1. S(t) = S(t - 1) \cup {t} /\ t \notin S(t - 1)
      BY <1>1, <1>7 DEF Count!Samples
    <3> QED
      BY <1>7, <3>1
  <2>2. IsFiniteSet(A) /\ Nats(e, A \cup {t}) /\ Nats(e, A)
    BY <1>2, <2>1
  <2>3. Ints(e, A \cup {t}) /\ Ints(e, A)
    BY <2>2 DEF Ints, Nats
  <2>4. Upto(f, p) = SumFunctionOnSet(e, A) /\ Upto(f, t) = SumFunctionOnSet(e, S(t))
    BY DEF Upto
  <2>5. SumFunctionOnSet(e, S(t)) = SumFunctionOnSet(e, A \cup {t})
    BY ONLY <2>1, Zenon
  <2> HIDE DEF A, S
  <2>6. SumFunctionOnSet(e, A \cup {t}) = e[t] + SumFunctionOnSet(e, A)
    <3> HIDE DEF e
    <3> QED
      BY <2>1, <2>2, <2>3, SumAdd
  <2>7. SumFunctionOnSet(e, A) \in Int /\ e[t] \in Int
    <3> HIDE DEF e
    <3> QED
      BY <2>2, <2>3, SumTake DEF Ints
  <2> HIDE DEF e
  <2> QED
    BY <2>4, <2>5, <2>6, <2>7 DEF e
<1> QED
  BY <1>3, <1>4, <1>5, <1>6, <1>7

\* From sample s on, itself one of the window or the last before it, what the window is
\* credited with is at least the climb of the counter and at most what was requested,
\* and is that if the counter was not re-based.
LEMMA Climb ==
  ASSUME CountInv, NEW f \in 1..tick, NEW s \in Count!Samples(f - LookbackTicks, tick),
         Count!Samples(s + 1, f - 1) = {}
  PROVE  \A t \in DOMAIN sample : s <= t /\ (f <= t \/ t = s) =>
            /\ sample[t] - sample[s] <= Upto(f, t) - Upto(f, s)
            /\ Upto(f, t) - Upto(f, s) <= Did(s, t)
            /\ rebased \cap (s + 1 .. t) = {} => Upto(f, t) - Upto(f, s) = Did(s, t)
<1> DEFINE Ok(t) == /\ sample[t] - sample[s] <= Upto(f, t) - Upto(f, s)
                    /\ Upto(f, t) - Upto(f, s) <= Did(s, t)
                    /\ rebased \cap (s + 1 .. t) = {} => Upto(f, t) - Upto(f, s) = Did(s, t)
           H == {n \in Nat : \A t \in DOMAIN sample : s <= t /\ (f <= t \/ t = s) /\ t <= n => Ok(t)}
<1>1. /\ LookbackTicks \in Nat /\ f \in Nat /\ tick \in Nat /\ f - LookbackTicks \in Int /\ f <= tick
      /\ DOMAIN sample \subseteq 1..tick /\ \A t \in DOMAIN sample : sample[t] \in Nat
  BY CountersAssumption DEF CountInv
<1>2. s \in DOMAIN sample /\ s \in Nat /\ s <= tick /\ s >= f - LookbackTicks
  BY <1>1 DEF Count!Samples
<1>3. Ok(s)
  <2>1. Did(s, s) = 0 /\ Upto(f, s) \in Nat /\ sample[s] \in Nat
    <3>1. s \in 0..tick /\ s \in Int
      BY <1>1, <1>2
    <3>2. Did(s, s) = 0
      BY <1>2, <3>1, DidIs
    <3>3. Upto(f, s) \in Nat
      BY <3>1, UptoIs
    <3> QED
      BY <1>1, <1>2, <3>2, <3>3
  <2> QED
    BY <2>1
<1>4. 0 \in H
  BY <1>1, <1>2
<1>5. ASSUME NEW n \in Nat, n \in H PROVE n + 1 \in H
  <2> SUFFICES ASSUME NEW t \in DOMAIN sample, s < t, f <= t, t = n + 1 PROVE Ok(t)
    <3>1. ASSUME NEW t \in DOMAIN sample, s <= t, f <= t \/ t = s, t <= n + 1 PROVE Ok(t)
      <4>1. t \in Nat
        BY <1>1
      <4>2. CASE t = s
        BY <1>3, <4>2
      <4>3. CASE t <= n
        BY <1>5, <3>1, <4>3
      <4>4. CASE t # s /\ t = n + 1
        BY <1>2, <3>1, <4>1, <4>4
      <4> QED
        BY <3>1, <4>1, <4>2, <4>3, <4>4
    <3> QED
      BY <3>1
  <2> DEFINE P == Count!Samples(f - LookbackTicks, t - 1)
             p == Count!Max(P)
  <2>1. t \in Nat /\ t <= tick /\ t - 1 \in Int /\ s \in P
    BY <1>1, <1>2 DEF Count!Samples
  <2>2. p \in P /\ \A x \in P : x <= p
    BY <1>1, <2>1, SamplesAre
  <2>3. p \in DOMAIN sample /\ p \in Nat /\ p <= n /\ s <= p /\ p < t
    BY <1>1, <2>1, <2>2 DEF Count!Samples
  <2>4. f <= p \/ p = s
    <3> SUFFICES ASSUME p < f, p # s PROVE FALSE
      BY <1>1, <2>3
    <3>1. p \in Count!Samples(s + 1, f - 1)
      BY <1>1, <1>2, <2>3 DEF Count!Samples
    <3> QED
      BY <3>1
  <2>5. Ok(p)
    <3> HIDE DEF Ok, p
    <3> QED
      BY <1>5, <2>3, <2>4
  <2>6. Count!Samples(f, p) = Count!Samples(f, t - 1)
    <3>1. ASSUME NEW x \in Count!Samples(f, t - 1) PROVE x \in Count!Samples(f, p)
      <4>1. x \in P
        BY <1>1, <2>1 DEF Count!Samples
      <4>2. x <= p
        BY <2>2, <4>1
      <4> HIDE DEF p, P
      <4> QED
        BY <1>1, <2>1, <2>3, <4>2 DEF Count!Samples
    <3>2. ASSUME NEW x \in Count!Samples(f, p) PROVE x \in Count!Samples(f, t - 1)
      <4> HIDE DEF p, P
      <4> QED
        BY <1>1, <2>1, <2>3 DEF Count!Samples
    <3> QED
      BY <3>1, <3>2
  <2>7. Upto(f, t) = Upto(f, p) + Rises(f)[t]
    <3> HIDE DEF p
    <3> QED
      BY <2>1, <2>3, <2>6, UptoIs
  <2>8. Rises(f)[t] = IF sample[t] > sample[p] THEN sample[t] - sample[p] ELSE 0
    BY <2>1, RisesAre
  <2> HIDE DEF p, P
  <2>9. /\ Upto(f, p) \in Nat /\ Upto(f, s) \in Nat /\ sample[t] \in Nat /\ sample[p] \in Nat
        /\ sample[s] \in Nat
    <3>1. p \in Int /\ s \in Int
      BY <1>2, <2>3
    <3>2. Upto(f, p) \in Nat /\ Upto(f, s) \in Nat
      BY <3>1, UptoIs
    <3> QED
      BY <1>1, <1>2, <2>3, <3>2
  <2>10. Did(s, t) = Did(s, p) + Did(p, t) /\ Did(s, p) \in Nat /\ Did(p, t) \in Nat
    <3>1. t \in 0..tick /\ p \in 0..tick
      BY <1>1, <2>1, <2>3
    <3> QED
      BY <1>2, <2>3, <3>1, DidIs
  <2>11. Reads(sample[t], p, t)
    BY <2>3 DEF CountInv
  <2>12. sample[t] - sample[s] <= Upto(f, t) - Upto(f, s)
    BY <2>5, <2>7, <2>8, <2>9
  <2>13. Upto(f, t) - Upto(f, s) <= Did(s, t)
    BY <2>5, <2>7, <2>8, <2>9, <2>10, <2>11 DEF Reads
  <2>14. ASSUME rebased \cap (s + 1 .. t) = {} PROVE Upto(f, t) - Upto(f, s) = Did(s, t)
    <3>1. rebased \cap (s + 1 .. p) = {} /\ rebased \cap (p + 1 .. t) = {}
      BY <1>2, <2>1, <2>3, <2>14
    <3>2. Upto(f, p) - Upto(f, s) = Did(s, p) /\ sample[t] = sample[p] + Did(p, t)
      BY <2>5, <2>11, <3>1 DEF Reads
    <3> QED
      BY <2>7, <2>8, <2>9, <2>10, <3>2
  <2> QED
    BY <2>12, <2>13, <2>14
<1>6. Nat \subseteq H
  <2> HIDE DEF H
  <2> QED
    BY <1>4, <1>5, Induct
<1>7. \A t \in DOMAIN sample : t \in H /\ t <= t
  BY <1>1, <1>6
<1> QED
  BY <1>7

LEMMA WindowOf ==
  ASSUME CountInv, NEW w \in Count!Windows
  PROVE  /\ w[1] \in 1..tick /\ w[2] \in w[1]..tick /\ w[1] \in Nat /\ w[2] \in Nat /\ w[1] <= w[2]
         /\ w[1] - LookbackTicks \in Int /\ w[1] - 1 \in Int /\ LookbackTicks \in Nat /\ tick \in Nat
BY CountersAssumption DEF Count!Windows, CountInv

\* Where the steps of a window begin, there is no credit yet.
LEMMA BeginIs ==
  ASSUME CountInv, NEW f \in 1..tick, NEW l \in f..tick, Count!Samples(f, l) # {}
  PROVE  LET s == Count!From(f, l)
         IN  /\ s \in Count!Samples(f - LookbackTicks, tick) /\ Count!Samples(s + 1, f - 1) = {}
             /\ Upto(f, s) = 0 /\ \A t \in Count!Samples(f, l) : s <= t
<1> DEFINE A == Count!Samples(f - LookbackTicks, f - 1)
           S == Count!Samples(f, l)
           s == Count!From(f, l)
<1>1. /\ f \in Nat /\ l \in Nat /\ f <= l /\ LookbackTicks \in Nat /\ tick \in Nat /\ l <= tick
      /\ f - LookbackTicks \in Int /\ f - 1 \in Int
  BY CountersAssumption DEF CountInv
<1>4. \A x \in DOMAIN sample : x \in Int
  BY DEF CountInv
<1>5. \A p \in Int, q \in Int : \A x : x \in Count!Samples(p, q) <=> (x \in DOMAIN sample /\ p <= x /\ x <= q)
  BY <1>4 DEF Count!Samples
<1>2. CASE A # {}
  <2>1. s = Count!Max(A)
    BY <1>2 DEF Count!From
  <2>2. s \in A /\ \A x \in A : x <= s
    BY <1>1, <1>2, <2>1, SamplesAre
  <2>3. s \in DOMAIN sample /\ s \in Nat /\ s < f /\ s >= f - LookbackTicks
    BY <1>1, <2>2 DEF Count!Samples, CountInv
  <2>4. Count!Samples(s + 1, f - 1) = {}
    <3> SUFFICES ASSUME NEW x \in Count!Samples(s + 1, f - 1) PROVE FALSE
      OBVIOUS
    <3>1. s + 1 \in Int /\ s \in Int
      BY <2>3
    <3>2. x \in DOMAIN sample /\ x \in Int /\ s + 1 <= x /\ x <= f - 1
      BY ONLY <1>1, <1>4, <1>5, <3>1, x \in Count!Samples(s + 1, f - 1)
    <3>3. f - LookbackTicks <= x /\ ~(x <= s)
      BY ONLY <1>1, <2>3, <3>1, <3>2
    <3>4. x \in A
      BY ONLY <1>1, <1>5, <3>2, <3>3
    <3> QED
      BY ONLY <2>2, <3>3, <3>4
  <2>5. s \in Count!Samples(f - LookbackTicks, tick)
    BY <1>1, <2>3 DEF Count!Samples
  <2>6. Upto(f, s) = 0
    BY <1>1, <2>3, UptoIs
  <2>7. \A t \in S : s <= t
    BY <1>1, <2>3 DEF Count!Samples
  <2> QED
    BY <2>4, <2>5, <2>6, <2>7
<1>3. CASE A = {}
  <2>1. s = Count!Min(S)
    BY <1>3 DEF Count!From
  <2>2. s \in S /\ \A x \in S : s <= x
    BY <1>1, <2>1, SamplesAre
  <2>3. s \in DOMAIN sample /\ s \in Nat /\ s >= f /\ s <= l /\ s - 1 \in Int
    BY <1>1, <2>2 DEF Count!Samples, CountInv
  <2>4. Count!Samples(s + 1, f - 1) = {}
    BY <1>1, <2>3 DEF Count!Samples
  <2>5. s \in Count!Samples(f - LookbackTicks, tick)
    BY <1>1, <2>3 DEF Count!Samples
  <2>6. Count!Samples(f, s - 1) = {}
    <3> SUFFICES ASSUME NEW x \in Count!Samples(f, s - 1) PROVE FALSE
      OBVIOUS
    <3>1. x \in DOMAIN sample /\ x \in Int /\ f <= x /\ x <= s - 1
      BY ONLY <1>1, <1>4, <1>5, <2>3, x \in Count!Samples(f, s - 1)
    <3>2. s \in Int /\ ~(s <= x) /\ x <= l
      BY ONLY <1>1, <2>3, <3>1
    <3>3. x \in S
      BY ONLY <1>1, <1>5, <3>1, <3>2
    <3> QED
      BY ONLY <2>2, <3>2, <3>3
  <2>7. Count!Samples(f - LookbackTicks, s - 1) = {}
    <3> SUFFICES ASSUME NEW x \in Count!Samples(f - LookbackTicks, s - 1) PROVE FALSE
      OBVIOUS
    <3>1. x \in A \/ x \in Count!Samples(f, s - 1)
      BY <1>1, <2>3 DEF Count!Samples, CountInv
    <3> QED
      BY <1>3, <2>6, <3>1
  <2>8. Count!Samples(f, f - 1) = Count!Samples(f, s - 1) /\ f - 1 < f
    BY <1>1, <2>6 DEF Count!Samples
  <2>9. Upto(f, f - 1) = 0
    BY <1>1, <2>8, UptoIs
  <2>10. Upto(f, s) = Upto(f, f - 1) + Rises(f)[s]
    BY <1>1, <2>3, <2>8, UptoIs
  <2>11. Rises(f)[s] = 0
    BY <2>3, <2>7, RisesAre
  <2> QED
    BY <2>2, <2>4, <2>5, <2>9, <2>10, <2>11
<1> QED
  BY <1>2, <1>3

\* The last sample of a window has all its credit.
LEMMA LastCredit ==
  ASSUME CountInv, NEW f \in 1..tick, NEW l \in f..tick
  PROVE  LET S == Count!Samples(f, l)
         IN  /\ S = {} => Upto(f, l) = 0
             /\ S # {} => Upto(f, l) = Upto(f, Count!Max(S))
<1> DEFINE S == Count!Samples(f, l)
<1>1. f \in Nat /\ l \in Nat /\ f <= l /\ f - 1 \in Int /\ f \in Int /\ l \in Int
  BY DEF CountInv
<1>2. CASE S = {}
  <2>1. Count!Samples(f, f - 1) = S
    BY <1>1, <1>2 DEF Count!Samples
  <2>2. Upto(f, f - 1) = 0
    <3>1. f - 1 < f
      BY <1>1
    <3> QED
      BY <1>1, <3>1, UptoIs
  <2>3. Upto(f, f - 1) = Upto(f, l)
    BY <1>1, <2>1, UptoIs
  <2> QED
    BY <1>2, <2>2, <2>3
<1>3. CASE S # {}
  <2> DEFINE m == Count!Max(S)
  <2>1. m \in S /\ \A x \in S : x <= m
    BY <1>1, <1>3, SamplesAre
  <2>2. m \in Int /\ m <= l
    BY <1>1, <2>1, SamplesAre
  <2>3. Count!Samples(f, m) = S
    <3> HIDE DEF m
    <3> QED
      BY <1>1, <2>1, <2>2 DEF Count!Samples, CountInv
  <2>4. Upto(f, m) = Upto(f, l)
    <3> HIDE DEF m
    <3> QED
      BY <1>1, <2>2, <2>3, UptoIs
  <2> QED
    BY <1>3, <2>4
<1> QED
  BY <1>2, <1>3

LEMMA DeltaHolds ==
  ASSUME CountInv
  PROVE  Count!DeltaIsActivity
<1> SUFFICES ASSUME NEW w \in Count!Windows
             PROVE  LET S == Count!Samples(w[1], w[2]) IN
                    IF S = {} THEN Count!WindowDelta(w[1], w[2]) = 0
                    ELSE LET begin == Count!From(w[1], w[2])
                             real  == Count!Made(begin, Count!Max(S))
                         IN  /\ Count!WindowDelta(w[1], w[2]) <= real
                             /\ rebased \cap (begin + 1 .. Count!Max(S)) = {} => Count!WindowDelta(w[1], w[2]) = real
  BY DEF Count!DeltaIsActivity
<1> DEFINE f == w[1]
           l == w[2]
           S == Count!Samples(f, l)
           s == Count!From(f, l)
           m == Count!Max(S)
<1>1. f \in 1..tick /\ l \in f..tick /\ f \in Int /\ l \in Int /\ f \in Nat
  BY WindowOf
<1> HIDE DEF f, l
<1>2. Count!WindowDelta(f, l) = Upto(f, l)
  BY <1>1, DeltaIs
<1>3. CASE S = {}
  BY <1>1, <1>2, <1>3, LastCredit DEF f, l
<1>4. CASE S # {}
  <2>1. Upto(f, l) = Upto(f, m)
    BY <1>1, <1>4, LastCredit
  <2>2. /\ s \in Count!Samples(f - LookbackTicks, tick) /\ Count!Samples(s + 1, f - 1) = {}
        /\ Upto(f, s) = 0 /\ \A t \in S : s <= t
    BY <1>1, <1>4, BeginIs
  <2>3. m \in S
    BY <1>1, <1>4, SamplesAre
  <2>4. m \in DOMAIN sample /\ f <= m /\ s <= m /\ m \in Int
    BY <1>1, <2>2, <2>3 DEF Count!Samples, CountInv
  <2>5. Upto(f, m) \in Nat
    BY <1>1, <2>4, UptoIs
  <2>6. Count!Made(s, m) = Did(s, m)
    BY CountSum DEF Count!Made, Did
  <2> HIDE DEF s, m, S
  <2>7. /\ Upto(f, m) - Upto(f, s) <= Did(s, m)
        /\ rebased \cap (s + 1 .. m) = {} => Upto(f, m) - Upto(f, s) = Did(s, m)
    BY <1>1, <2>2, <2>4, Climb
  <2>8. /\ Count!WindowDelta(f, l) <= Count!Made(s, m)
        /\ rebased \cap (s + 1 .. m) = {} => Count!WindowDelta(f, l) = Count!Made(s, m)
    BY <1>2, <2>1, <2>2, <2>5, <2>6, <2>7
  <2> QED
    BY <1>4, <2>8 DEF s, m, S, f, l
<1> QED
  BY <1>3, <1>4

LEMMA ZoomHolds ==
  ASSUME CountInv
  PROVE  Count!ZoomAttributes
<1> SUFFICES ASSUME NEW w \in Count!Windows, NEW m \in w[1] .. w[2] - 1
             PROVE  /\ Count!WindowDelta(w[1], m) + Count!WindowDelta(m + 1, w[2]) <= Count!WindowDelta(w[1], w[2])
                    /\ Count!Samples(m + 1 - LookbackTicks, m) # {} =>
                          Count!WindowDelta(w[1], m) + Count!WindowDelta(m + 1, w[2]) = Count!WindowDelta(w[1], w[2])
  BY DEF Count!ZoomAttributes
<1> DEFINE f == w[1]
           l == w[2]
           g == m + 1
           A == Count!Samples(f, m)
           B == Count!Samples(g, l)
           d == Rises(f)
           e == Rises(g)
<1>1. f \in 1..tick /\ l \in f..tick /\ f \in Nat /\ l \in Nat /\ LookbackTicks \in Nat /\ tick \in Nat
  BY WindowOf
<1>2. m \in Nat /\ f <= m /\ m < l /\ g \in 1..tick /\ g \in Int /\ g > f /\ g = m + 1
  BY <1>1
<1> HIDE DEF f, l, g
<1>3. f \in Int /\ l \in Int /\ m \in Int
  BY <1>1, <1>2
<1>4. /\ Count!WindowDelta(f, m) = Upto(f, m) /\ Count!WindowDelta(g, l) = Upto(g, l)
      /\ Count!WindowDelta(f, l) = Upto(f, l)
  BY <1>2, <1>3, DeltaIs
<1>5. /\ IsFiniteSet(A) /\ IsFiniteSet(B) /\ A \subseteq DOMAIN sample /\ B \subseteq DOMAIN sample
      /\ A \subseteq Int /\ B \subseteq Int
      /\ \A t \in A : f <= t /\ t <= m
      /\ \A t \in B : g <= t /\ t <= l
  BY <1>2, <1>3, SamplesAre
<1>6. A \cap B = {} /\ A \cup B = Count!Samples(f, l)
  <2>1. A \cap B = {}
    BY <1>2, <1>5
  <2>2. A \cup B = Count!Samples(f, l)
    BY <1>1, <1>2 DEF Count!Samples, CountInv
  <2> QED
    BY <2>1, <2>2
<1>7. ASSUME NEW t \in B
      PROVE  /\ e[t] \in Nat /\ d[t] \in Nat /\ e[t] <= d[t]
             /\ Count!Samples(g - LookbackTicks, m) # {} => e[t] = d[t]
  <2> DEFINE P == Count!Samples(f - LookbackTicks, t - 1)
             Q == Count!Samples(g - LookbackTicks, t - 1)
  <2>1. t \in DOMAIN sample /\ g <= t /\ f <= t /\ t \in Int /\ t - 1 \in Int
    <3>1. t \in DOMAIN sample /\ g <= t /\ t \in Int
      BY <1>5
    <3> QED
      BY <1>2, <1>3, <3>1
  <2>2. /\ e[t] \in Nat /\ (Q = {} => e[t] = 0)
        /\ (Q # {} => e[t] = IF sample[t] > sample[Count!Max(Q)] THEN sample[t] - sample[Count!Max(Q)] ELSE 0)
    BY <1>2, <2>1, RisesAre
  <2>3. /\ d[t] \in Nat
        /\ (P # {} => d[t] = IF sample[t] > sample[Count!Max(P)] THEN sample[t] - sample[Count!Max(P)] ELSE 0)
    BY <1>1, <2>1, RisesAre
  <2>4. f - LookbackTicks \in Int /\ g - LookbackTicks \in Int
    BY <1>1, <1>2
  <2>5. Q \subseteq P
    BY <1>1, <1>2, <2>1 DEF Count!Samples, CountInv
  <2>6. Q # {} => Count!Max(P) = Count!Max(Q)
    <3> SUFFICES ASSUME Q # {} PROVE Count!Max(P) = Count!Max(Q)
      OBVIOUS
    <3>1. Count!Max(P) \in P /\ (\A x \in P : x <= Count!Max(P)) /\ P \subseteq Int
      BY <2>1, <2>4, <2>5, SamplesAre
    <3>2. Count!Max(Q) \in Q /\ (\A x \in Q : x <= Count!Max(Q)) /\ Q \subseteq Int
      BY <2>1, <2>4, SamplesAre
    <3> DEFINE x == Count!Max(P)
               y == Count!Max(Q)
    <3>3. x \in Int /\ y \in Int /\ y <= x /\ x \in DOMAIN sample /\ x <= t - 1
      BY <2>5, <3>1, <3>2 DEF Count!Samples
    <3>4. x \in Q
      <4>1. g - LookbackTicks <= y
        BY <3>2 DEF Count!Samples
      <4> HIDE DEF x, y, P
      <4> QED
        BY <1>1, <1>2, <2>1, <3>3, <4>1 DEF Count!Samples
    <3>5. x <= y
      BY <3>2, <3>4
    <3> HIDE DEF x, y
    <3>6. x = y
      BY <3>3, <3>5
    <3> QED
      BY <3>6 DEF x, y
  <2>7. Count!Samples(g - LookbackTicks, m) # {} => Q # {}
    BY <1>1, <1>2, <2>1 DEF Count!Samples, CountInv
  <2>8. Q # {} => e[t] = d[t]
    <3> HIDE DEF d, e, P, Q
    <3> QED
      BY <2>2, <2>3, <2>5, <2>6
  <2> HIDE DEF d, e, P, Q
  <2> QED
    BY <2>2, <2>3, <2>7, <2>8
<1>8. ASSUME NEW t \in A PROVE d[t] \in Nat
  <2>1. t \in DOMAIN sample /\ f <= t
    BY <1>5
  <2> QED
    BY <1>1, <2>1, RisesAre
<1>9. /\ Upto(f, m) = SumFunctionOnSet(d, A) /\ Upto(g, l) = SumFunctionOnSet(e, B)
      /\ Upto(f, l) = SumFunctionOnSet(d, A \cup B)
  <2>1. Upto(f, m) = SumFunctionOnSet(d, A) /\ Upto(g, l) = SumFunctionOnSet(e, B)
    BY DEF Upto
  <2>2. Upto(f, l) = SumFunctionOnSet(d, A \cup B)
    BY ONLY <1>6, Zenon DEF Upto
  <2> QED
    BY <2>1, <2>2
<1> HIDE DEF A, B, d, e
<1>10. Ints(d, A \cup B) /\ Ints(d, B) /\ Ints(e, B) /\ Ints(d, A)
  BY <1>7, <1>8 DEF Ints
<1>11. SumFunctionOnSet(d, A \cup B) = SumFunctionOnSet(d, A) + SumFunctionOnSet(d, B)
  BY <1>5, <1>6, <1>10, SumSplit
<1>12. /\ SumFunctionOnSet(d, A) \in Int /\ SumFunctionOnSet(d, B) \in Int
       /\ SumFunctionOnSet(e, B) \in Int
  BY <1>5, <1>10, SumTake
<1>13. SumFunctionOnSet(e, B) <= SumFunctionOnSet(d, B)
  BY <1>5, <1>7, <1>10, SumLess
<1>14. Count!Samples(g - LookbackTicks, m) # {} => SumFunctionOnSet(e, B) = SumFunctionOnSet(d, B)
  BY <1>5, <1>7, SumAgree
<1>15. /\ Count!WindowDelta(f, m) + Count!WindowDelta(g, l) <= Count!WindowDelta(f, l)
       /\ Count!Samples(g - LookbackTicks, m) # {} =>
              Count!WindowDelta(f, m) + Count!WindowDelta(g, l) = Count!WindowDelta(f, l)
  BY <1>4, <1>9, <1>11, <1>12, <1>13, <1>14
<1>16. f = w[1] /\ l = w[2] /\ g = m + 1
  BY DEF f, l, g
<1> HIDE DEF f, l, g
<1> QED
  BY <1>1, <1>3, <1>15, <1>16

-----------------------------------------------------------------------------
\* The lines of a window.
LEMMA AverageIs ==
  ASSUME CountInv, NEW B, B \subseteq DOMAIN sample, B # {}
  PROVE  LET n == Cardinality(B)
             A == Count!Average(B)
             m == 2 * SumFunctionOnSet(sample, B)
         IN  /\ IsFiniteSet(B) /\ n \in Nat \ {0} /\ A \in Nat /\ m \in Nat
             /\ n * A \in Nat /\ n * A <= m /\ m < n * A + n
<1> DEFINE n == Cardinality(B)
           A == Count!Average(B)
           m == 2 * SumFunctionOnSet(sample, B)
<1>1. IsFiniteSet(B)
  <2>1. IsFiniteSet(1..tick) /\ B \subseteq 1..tick
    BY FS_Interval DEF CountInv
  <2> QED
    BY <2>1, FS_Subset
<1>2. n \in Nat \ {0}
  BY <1>1, FS_CardinalityType, FS_EmptySet
<1>3. m \in Nat
  <2>1. Nats(sample, B)
    BY DEF CountInv, Nats
  <2>2. SumFunctionOnSet(sample, B) \in Nat
    BY <1>1, <2>1, SumNat
  <2> QED
    BY <2>2
<1>4. A = m \div n
  <2>1. Count!Cardinality(B) = Cardinality(B)
    BY DEF Count!Cardinality, Cardinality
  <2>2. Count!SumFunctionOnSet(sample, B) = SumFunctionOnSet(sample, B)
    BY CountSum
  <2> QED
    BY <2>1, <2>2 DEF Count!Average, Count!Unit
<1> HIDE DEF n, m, A
<1>5. A \in Nat /\ n * A \in Nat /\ n * A <= m /\ m < n * A + n
  BY <1>2, <1>3, <1>4
<1> QED
  BY <1>1, <1>2, <1>3, <1>5 DEF n, m, A

\* Something that is the samples and more, n, up to p; the same with the average.
LEMMA AverageStep ==
  ASSUME CountInv, NEW B, B \subseteq DOMAIN sample, B # {},
         NEW p, Ints(p, B), NEW q, Ints(q, B), \A t \in B : p[t] = q[t] + sample[t],
         NEW a \in Int, NEW b \in Int, \A t \in B : p[t] <= a /\ q[t] <= b,
         NEW x \in Int
  PROVE  /\ (\A t \in B : x <= 2 * p[t]) => x - Count!Average(B) <= 2 * b
         /\ (\A t \in B : x <= 2 * q[t]) => x + Count!Average(B) <= 2 * a
<1> DEFINE n == Cardinality(B)
           A == Count!Average(B)
           m == SumFunctionOnSet(sample, B)
           u == SumFunctionOnSet(p, B)
           v == SumFunctionOnSet(q, B)
           p2 == [t \in B |-> 2 * p[t]]
           q2 == [t \in B |-> 2 * q[t]]
<1>1. IsFiniteSet(B) /\ n \in Nat \ {0} /\ A \in Nat /\ n * A \in Nat /\ n * A <= 2 * m /\ 2 * m < n * A + n
  BY AverageIs
<1>2. Ints(sample, B)
  BY DEF CountInv, Ints
<1>3. u \in Int /\ v \in Int /\ m \in Int
  BY <1>1, <1>2, SumTake
<1>4. u = v + m
  <2>1. \A t \in B : p[t] = q[t] + sample[t]
    OBVIOUS
  <2> QED
    BY <1>1, <1>2, <2>1, SumPlus
<1>5. Ints(p2, B) /\ Ints(q2, B) /\ \A t \in B : p2[t] = 2 * p[t] /\ q2[t] = 2 * q[t]
  BY DEF Ints
<1> HIDE DEF n, A, m, u, v, p2, q2
<1>6. SumFunctionOnSet(p2, B) = 2 * u /\ SumFunctionOnSet(q2, B) = 2 * v
  BY <1>1, <1>5, SumTimes DEF u, v
<1>7. u <= n * a /\ v <= n * b
  BY <1>1, SumWithin DEF u, v, n
<1>8. n * a \in Int /\ n * b \in Int /\ n * x \in Int
  BY <1>1
<1>9. ASSUME \A t \in B : x <= 2 * p[t] PROVE x - A <= 2 * b
  <2>1. 2 * u >= n * x
    <3>1. \A t \in B : p2[t] >= x
      BY <1>5, <1>9 DEF Ints
    <3> QED
      BY <1>1, <1>5, <1>6, <3>1, SumWithin DEF n
  <2> DEFINE z == x - A - 2 * b
  <2>2. n * z = n * x - n * A - 2 * (n * b) /\ z \in Int
    BY <1>1
  <2>3. n * z < n /\ n * z \in Int
    BY <1>1, <1>3, <1>4, <1>7, <1>8, <2>1, <2>2
  <2>4. z < 1
    <3> SUFFICES ASSUME z >= 1 PROVE FALSE
      BY <2>2
    <3> HIDE DEF z
    <3>1. z - 1 \in Nat
      BY <2>2
    <3>2. n * (z - 1) >= 0 /\ n * (z - 1) = n * z - n
      BY <1>1, <2>2, <3>1
    <3> QED
      BY <1>1, <2>3, <3>2
  <2> QED
    BY <1>1, <2>4
<1>10. ASSUME \A t \in B : x <= 2 * q[t] PROVE x + A <= 2 * a
  <2>1. 2 * v >= n * x
    <3>1. \A t \in B : q2[t] >= x
      BY <1>5, <1>10 DEF Ints
    <3> QED
      BY <1>1, <1>5, <1>6, <3>1, SumWithin DEF n
  <2>2. n * (x + A) = n * x + n * A /\ n * (2 * a) = 2 * (n * a)
    BY <1>1
  <2>3. n * (x + A) <= n * (2 * a)
    BY <1>1, <1>3, <1>4, <1>7, <1>8, <2>1, <2>2
  <2>4. x + A \in Int /\ 2 * a \in Int
    BY <1>1
  <2> QED
    BY <1>1, <2>3, <2>4, LessBy
<1> QED
  BY <1>9, <1>10 DEF A

\* The credit of a window up to t, and how far it is ahead of the counter.
Ahead(f, t) == Upto(f, t) - sample[t]

LEMMA CreditGrows ==
  ASSUME CountInv, NEW f \in 1..tick, NEW s \in DOMAIN sample, f <= s, NEW t \in DOMAIN sample, s <= t
  PROVE  /\ Upto(f, s) \in Nat /\ Upto(f, t) \in Nat /\ sample[s] \in Nat /\ sample[t] \in Nat
         /\ Upto(f, s) <= Upto(f, t) /\ Ahead(f, s) <= Ahead(f, t)
<1>1. /\ f \in Nat /\ tick \in Nat /\ LookbackTicks \in Nat /\ s \in Nat /\ t \in Nat
      /\ s <= tick /\ f <= t /\ sample[s] \in Nat /\ sample[t] \in Nat
  BY CountersAssumption DEF CountInv
<1>2. s \in Count!Samples(f - LookbackTicks, tick) /\ Count!Samples(s + 1, f - 1) = {}
  BY <1>1 DEF Count!Samples
<1>3. sample[t] - sample[s] <= Upto(f, t) - Upto(f, s)
  BY <1>1, <1>2, Climb
<1>4. s \in Int /\ t \in Int
  BY <1>1
<1>5. Upto(f, s) \in Nat /\ Upto(f, t) \in Nat /\ Upto(f, s) <= Upto(f, t)
  BY <1>4, UptoIs
<1> QED
  BY <1>1, <1>3, <1>5 DEF Ahead

\* A line that was not above the credit before a bucket is not above it after.
LEMMA BucketClimb ==
  ASSUME CountInv, NEW f \in 1..tick, NEW B, B \subseteq DOMAIN sample, B # {}, \A t \in B : f <= t,
         NEW x \in Int, NEW v \in Int,
         \A t \in B : x <= 2 * Upto(f, t) /\ (v # -1 => x - v <= 2 * Ahead(f, t))
  PROVE  LET y == x + Count!PosStep(Count!Average(B), v)
         IN  /\ Count!PosStep(Count!Average(B), v) \in Int
             /\ \A t \in DOMAIN sample : (\A s \in B : s <= t) =>
                   y <= 2 * Upto(f, t) /\ y - Count!Average(B) <= 2 * Ahead(f, t)
<1> DEFINE A == Count!Average(B)
           p == [s \in B |-> Upto(f, s)]
           q == [s \in B |-> Ahead(f, s)]
           y == x + Count!PosStep(A, v)
<1>1. A \in Nat
  BY AverageIs
<1>2. Count!PosStep(A, v) = IF v # -1 /\ A > v THEN A - v ELSE 0
  BY DEF Count!PosStep, Count!None
<1>3. ASSUME NEW t \in DOMAIN sample, \A s \in B : s <= t
      PROVE  y <= 2 * Upto(f, t) /\ y - A <= 2 * Ahead(f, t)
  <2> DEFINE a == Upto(f, t)
             b == Ahead(f, t)
  <2>1. \A s \in B : /\ p[s] \in Int /\ q[s] \in Int /\ p[s] = q[s] + sample[s]
                     /\ p[s] <= a /\ q[s] <= b /\ a \in Int /\ b \in Int
    <3> TAKE s \in B
    <3>1. s \in DOMAIN sample /\ f <= s /\ s <= t
      BY <1>3
    <3>2. /\ Upto(f, s) \in Nat /\ Upto(f, t) \in Nat /\ sample[s] \in Nat /\ sample[t] \in Nat
          /\ Upto(f, s) <= Upto(f, t) /\ Ahead(f, s) <= Ahead(f, t)
      BY <3>1, CreditGrows
    <3> QED
      BY <3>2 DEF Ahead
  <2>2. \A s \in B : x <= 2 * p[s] /\ (v # -1 => x - v <= 2 * q[s])
    OBVIOUS
  <2> HIDE DEF p, q, a, b
  <2>3. PICK s \in B : TRUE
    OBVIOUS
  <2>4. a \in Int /\ b \in Int /\ Ints(p, B) /\ Ints(q, B)
    BY <2>1, <2>3 DEF Ints
  <2>5. \A r \in B : p[r] = q[r] + sample[r]
    BY <2>1
  <2>6. \A r \in B : p[r] <= a /\ q[r] <= b
    BY <2>1
  <2>7. CASE v # -1 /\ A > v
    <3>1. x - v \in Int /\ \A r \in B : x - v <= 2 * q[r]
      BY <2>2, <2>7
    <3> DEFINE z == x - v
    <3> HIDE DEF z
    <3>2. z \in Int /\ \A r \in B : z <= 2 * q[r]
      BY <3>1 DEF z
    <3>3. z + A <= 2 * a
      <4> HIDE DEF A
      <4> QED
        BY <2>4, <2>5, <2>6, <3>2, AverageStep DEF A
    <3>4. z <= 2 * b
      BY <2>1, <2>3, <2>4, <3>2
    <3>5. y = z + A
      BY <1>1, <1>2, <2>7 DEF z
    <3> HIDE DEF A, y
    <3>6. y <= 2 * a /\ y - A <= 2 * b
      BY <1>1, <2>4, <3>2, <3>3, <3>4, <3>5
    <3> QED
      BY <3>6 DEF a, b
  <2>8. CASE ~(v # -1 /\ A > v)
    <3>1. \A r \in B : x <= 2 * p[r]
      BY <2>2
    <3>2. x - A <= 2 * b
      <4> HIDE DEF A
      <4> QED
        BY <2>4, <2>5, <2>6, <3>1, AverageStep DEF A
    <3>3. x <= 2 * a
      BY <2>1, <2>3, <2>4, <3>1
    <3>4. y = x
      BY <1>2, <2>8
    <3> HIDE DEF A, y
    <3> QED
      BY <3>2, <3>3, <3>4 DEF a, b
  <2> QED
    BY <2>7, <2>8
<1> QED
  BY <1>1, <1>2, <1>3

-----------------------------------------------------------------------------
\* The buckets of a window are apart, each before or after each other.
LEMMA DivGrows ==
  ASSUME NEW a \in Nat, NEW b \in Nat, NEW k \in Nat \ {0}, a <= b
  PROVE  a \div k <= b \div k
<1> DEFINE x == a \div k
           y == b \div k
<1>1. x \in Nat /\ y \in Nat /\ k * x <= a /\ b < k * y + k
  OBVIOUS
<1> HIDE DEF x, y
<1>2. ASSUME x >= y + 1 PROVE FALSE
  <2>1. x - y - 1 \in Nat
    BY <1>1, <1>2
  <2>2. k * (x - y - 1) >= 0 /\ k * (x - y - 1) = k * x - k * y - k
    BY <1>1, <2>1
  <2>3. k * x \in Nat /\ k * y \in Nat
    BY <1>1
  <2> QED
    BY <1>1, <2>2, <2>3
<1> QED
  BY <1>1, <1>2 DEF x, y

\* Sets of samples of a window that begins at f, one wholly before the other.
Run(B) == B # {} /\ B \subseteq DOMAIN sample
Apart(BB) == \A B, C \in BB : B # C => Count!Max(B) < Count!Min(C) \/ Count!Max(C) < Count!Min(B)

LEMMA RunIs ==
  ASSUME CountInv, NEW B, Run(B)
  PROVE  /\ Count!Max(B) \in B /\ Count!Min(B) \in B /\ B \subseteq Nat
         /\ \A t \in B : Count!Min(B) <= t /\ t <= Count!Max(B)
<1>1. IsFiniteSet(B) /\ B # {}
  BY AverageIs DEF Run
<1>2. B \subseteq Int /\ B \subseteq Nat
  BY DEF Run, CountInv
<1> QED
  BY <1>1, <1>2, LastOne, FirstOne

LEMMA BucketsAre ==
  ASSUME CountInv, NEW f \in 1..tick, NEW l \in f..tick
  PROVE  LET BB == Count!Buckets(f, l)
             S  == Count!Samples(f, l)
         IN  /\ IsFiniteSet(BB) /\ Apart(BB)
             /\ \A B \in BB : Run(B) /\ B \subseteq S
             /\ \A t \in S : \E B \in BB : t \in B
<1> DEFINE BB == Count!Buckets(f, l)
           S  == Count!Samples(f, l)
           Slot(t) == (t - f) \div BucketLen
           Cell(b) == {t \in S : Slot(t) = b}
<1>1. /\ f \in Int /\ l \in Int /\ f \in Nat /\ BucketLen \in Nat \ {0}
      /\ S \subseteq DOMAIN sample /\ IsFiniteSet(S)
      /\ \A t \in S : f <= t /\ t \in Nat
  <2>1. f \in Int /\ l \in Int /\ f \in Nat /\ BucketLen \in Nat \ {0}
    BY CountersAssumption DEF CountInv
  <2>2. S \subseteq DOMAIN sample /\ IsFiniteSet(S) /\ S \subseteq 1..tick /\ \A t \in S : f <= t
    BY <2>1, SamplesAre
  <2> QED
    BY <2>1, <2>2
<1>2. BB = {Cell(b) : b \in {Slot(t) : t \in S}}
  BY DEF Count!Buckets
<1> HIDE DEF BB, S
<1>3. \A B \in BB : Run(B) /\ B \subseteq S
  BY <1>1, <1>2 DEF Run
<1>4. ASSUME NEW t \in S PROVE \E B \in BB : t \in B
  <2>1. Cell(Slot(t)) \in BB /\ t \in Cell(Slot(t))
    <3> HIDE DEF Slot
    <3> QED
      BY <1>2
  <2> QED
    BY <2>1
<1>5. IsFiniteSet(BB)
  <2>1. IsFiniteSet(SUBSET S) /\ BB \in SUBSET SUBSET S
    BY <1>1, <1>3, FS_SUBSET
  <2> QED
    BY <2>1, FS_Subset
<1>6. ASSUME NEW s \in S, NEW t \in S, Slot(s) < Slot(t) PROVE s < t
  <2> SUFFICES ASSUME t <= s PROVE FALSE
    BY <1>1
  <2>1. s - f \in Nat /\ t - f \in Nat /\ t - f <= s - f
    BY <1>1
  <2>2. Slot(t) <= Slot(s)
    BY <1>1, <2>1, DivGrows
  <2>3. Slot(t) \in Int /\ Slot(s) \in Int
    BY <1>1, <2>1
  <2> HIDE DEF Slot
  <2> QED
    BY <1>6, <2>2, <2>3
<1>7. Apart(BB)
  <2> SUFFICES ASSUME NEW B \in BB, NEW C \in BB, B # C
               PROVE  Count!Max(B) < Count!Min(C) \/ Count!Max(C) < Count!Min(B)
    BY DEF Apart
  <2>1. PICK s \in S : B = Cell(Slot(s))
    BY <1>2
  <2>2. PICK t \in S : C = Cell(Slot(t))
    BY <1>2
  <2>3. Slot(s) # Slot(t)
    BY <2>1, <2>2
  <2>4. Slot(s) \in Int /\ Slot(t) \in Int
    BY <1>1
  <2>5. /\ Count!Max(B) \in B /\ Count!Min(B) \in B /\ Count!Max(C) \in C /\ Count!Min(C) \in C
    BY <1>3, RunIs
  <2> HIDE DEF Slot
  <2> QED
    BY <1>6, <2>1, <2>2, <2>3, <2>4, <2>5
<1> QED
  BY <1>3, <1>4, <1>5, <1>7 DEF BB, S

-----------------------------------------------------------------------------
\* A line, step by step.
Earlier(BB, B) == {C \in BB : Count!Max(C) < Count!Min(B)}
Newest(P) == CHOOSE C \in P : \A O \in P : Count!Max(C) >= Count!Max(O)
Prior(BB, base, B) == IF Earlier(BB, B) = {} THEN base ELSE Count!Average(Newest(Earlier(BB, B)))
Steps(BB, base) == [B \in BB |-> Count!PosStep(Count!Average(B), Prior(BB, base, B))]

LEMMA LineIs ==
  ASSUME NEW BB, NEW base
  PROVE  Count!Line(BB, base) = SumFunctionOnSet(Steps(BB, base), BB)
<1>1. Count!Line(BB, base) = Count!SumFunction(Steps(BB, base))
  BY DEF Count!Line, Steps, Prior, Newest, Earlier
<1>2. DOMAIN Steps(BB, base) = BB
  BY DEF Steps
<1> QED
  BY <1>1, <1>2, CountSum

LEMMA NewestIs ==
  ASSUME CountInv, NEW P, IsFiniteSet(P), P # {}, \A B \in P : Run(B)
  PROVE  Newest(P) \in P /\ \A O \in P : Count!Max(O) <= Count!Max(Newest(P))
<1> DEFINE m == [C \in P |-> Count!Max(C)]
<1>1. Ints(m, P)
  <2>1. \A C \in P : Count!Max(C) \in Int
    BY RunIs
  <2> QED
    BY <2>1 DEF Ints
<1>2. \E C \in P : \A O \in P : m[C] >= m[O]
  <2> HIDE DEF m
  <2> QED
    BY <1>1, MostExists
<1>3. \E C \in P : \A O \in P : Count!Max(C) >= Count!Max(O)
  BY <1>2
<1>4. \A C \in P : Count!Max(C) \in Int
  BY RunIs
<1> QED
  BY <1>3, <1>4 DEF Newest

\* The newest of some buckets, and those that come before it, are those.
LEMMA EarlierIs ==
  ASSUME CountInv, NEW BB, IsFiniteSet(BB), Apart(BB), \A B \in BB : Run(B)
  PROVE  /\ BB # {} => Earlier(BB, Newest(BB)) \cup {Newest(BB)} = BB
         /\ \A B \in BB : LET E == Earlier(BB, B) IN
               /\ E \subseteq BB /\ B \notin E /\ IsFiniteSet(E)
               /\ E # {} => /\ Newest(E) \in BB /\ Count!Max(Newest(E)) < Count!Min(B)
                            /\ Earlier(BB, Newest(E)) \cup {Newest(E)} = E
<1>1. \A B \in BB : /\ Count!Max(B) \in Int /\ Count!Min(B) \in Int /\ Count!Min(B) <= Count!Max(B)
  <2> TAKE B \in BB
  <2>1. Run(B)
    OBVIOUS
  <2>2. Count!Max(B) \in B /\ B \subseteq Nat /\ Count!Min(B) \in B /\ \A t \in B : Count!Min(B) <= t
    BY <2>1, RunIs
  <2>3. Count!Min(B) <= Count!Max(B)
    BY <2>2
  <2>4. Count!Max(B) \in Nat /\ Count!Min(B) \in Nat
    BY <2>2
  <2> QED
    BY <2>3, <2>4
<1>2. ASSUME BB # {} PROVE Earlier(BB, Newest(BB)) \cup {Newest(BB)} = BB
  <2> DEFINE C == Newest(BB)
  <2>1. C \in BB /\ \A O \in BB : Count!Max(O) <= Count!Max(C)
    BY <1>2, NewestIs
  <2> HIDE DEF C
  <2>2. ASSUME NEW O \in BB, O # C PROVE Count!Max(O) < Count!Min(C)
    <3>1. Count!Max(O) < Count!Min(C) \/ Count!Max(C) < Count!Min(O)
      BY <2>1, <2>2 DEF Apart
    <3>2. Count!Max(O) <= Count!Max(C) /\ Count!Min(O) <= Count!Max(O)
      BY <1>1, <2>1
    <3> QED
      BY <1>1, <2>1, <3>1, <3>2
  <2> QED
    BY <2>1, <2>2 DEF Earlier, C
<1>3. ASSUME NEW B \in BB
      PROVE  LET E == Earlier(BB, B) IN
             /\ E \subseteq BB /\ B \notin E /\ IsFiniteSet(E)
             /\ E # {} => /\ Newest(E) \in BB /\ Count!Max(Newest(E)) < Count!Min(B)
                          /\ Earlier(BB, Newest(E)) \cup {Newest(E)} = E
  <2> DEFINE E == Earlier(BB, B)
             C == Newest(E)
  <2>1. E \subseteq BB /\ B \notin E
    BY <1>1 DEF Earlier
  <2>2. IsFiniteSet(E)
    BY <2>1, FS_Subset
  <2>3. ASSUME E # {}
        PROVE  C \in BB /\ Count!Max(C) < Count!Min(B) /\ Earlier(BB, C) \cup {C} = E
    <3>1. C \in E /\ \A O \in E : Count!Max(O) <= Count!Max(C)
      <4> HIDE DEF E
      <4> QED
        BY <2>1, <2>2, <2>3, NewestIs
    <3>2. C \in BB /\ Count!Max(C) < Count!Min(B)
      BY <3>1 DEF Earlier
    <3> HIDE DEF C, E
    <3>3. ASSUME NEW O \in E, O # C PROVE O \in Earlier(BB, C)
      <4>1. O \in BB /\ Count!Max(O) <= Count!Max(C)
        BY <2>1, <3>1, <3>3
      <4>2. Count!Max(O) < Count!Min(C) \/ Count!Max(C) < Count!Min(O)
        BY <3>2, <3>3, <4>1 DEF Apart
      <4>3. Count!Max(O) < Count!Min(C)
        BY <1>1, <3>2, <4>1, <4>2
      <4> QED
        BY <4>1, <4>3 DEF Earlier
    <3>4. ASSUME NEW O \in Earlier(BB, C) PROVE O \in E
      <4>1. O \in BB /\ Count!Max(O) < Count!Min(C)
        BY <3>4 DEF Earlier
      <4>2. Count!Max(O) < Count!Min(B)
        BY <1>1, <3>2, <4>1
      <4> QED
        BY <4>1, <4>2 DEF Earlier, E
    <3> QED
      BY <3>1, <3>2, <3>3, <3>4
  <2> QED
    BY <2>1, <2>2, <2>3
<1> QED
  BY <1>2, <1>3

LEMMA LineRises ==
  ASSUME CountInv, NEW f \in 1..tick, NEW BB, IsFiniteSet(BB), Apart(BB), BB # {},
         \A B \in BB : Run(B) /\ \A t \in B : f <= t,
         NEW base \in Int, base = -1 \/ \A B \in BB : \A t \in B : -base <= 2 * Ahead(f, t)
  PROVE  /\ Count!Line(BB, base) \in Int
         /\ \A t \in DOMAIN sample : (\A B \in BB : \A s \in B : s <= t) => Count!Line(BB, base) <= 2 * Upto(f, t)
<1> DEFINE e == Steps(BB, base)
           To(B) == Earlier(BB, B) \cup {B}
           X(B) == SumFunctionOnSet(e, To(B))
           Good(B) == /\ X(B) \in Int
                      /\ \A t \in DOMAIN sample : (\A s \in B : s <= t) =>
                            X(B) <= 2 * Upto(f, t) /\ X(B) - Count!Average(B) <= 2 * Ahead(f, t)
           H == {n \in Nat : \A B \in BB : Count!Max(B) <= n => Good(B)}
<1>1. \A B \in BB : Run(B)
  OBVIOUS
<1>2. \A B \in BB : e[B] = Count!PosStep(Count!Average(B), Prior(BB, base, B))
  BY DEF Steps
<1>3. \A B \in BB : Count!Average(B) \in Nat
  BY AverageIs DEF Run
<1>4. ASSUME NEW B \in BB PROVE e[B] \in Int
  <2>1. Prior(BB, base, B) \in Int
    BY <1>1, <1>3, EarlierIs DEF Prior
  <2> HIDE DEF e
  <2> QED
    BY <1>2, <1>3, <2>1 DEF Count!PosStep, Count!None
<1>5. 0 \in H
  <2>1. ASSUME NEW B \in BB PROVE ~(Count!Max(B) <= 0)
    <3>1. Run(B)
      OBVIOUS
    <3>2. Count!Max(B) \in B
      BY <3>1, RunIs
    <3>3. Count!Max(B) \in 1..tick
      BY <3>1, <3>2 DEF Run, CountInv
    <3> QED
      BY <3>3
  <2> HIDE DEF Good
  <2> QED
    BY <2>1
<1>6. ASSUME NEW n \in Nat, n \in H PROVE n + 1 \in H
  <2> SUFFICES ASSUME NEW B \in BB, Count!Max(B) = n + 1 PROVE Good(B)
    <3>1. ASSUME NEW B \in BB, Count!Max(B) <= n + 1 PROVE Good(B)
      <4>1. Count!Max(B) \in Nat
        BY <1>1, RunIs
      <4> HIDE DEF Good
      <4>2. CASE Count!Max(B) <= n
        BY <1>6, <4>2
      <4>3. CASE Count!Max(B) = n + 1
        BY <4>3
      <4> QED
        BY <3>1, <4>1, <4>2, <4>3
    <3> HIDE DEF Good
    <3> QED
      BY <3>1
  <2> DEFINE E == Earlier(BB, B)
             v == Prior(BB, base, B)
             A == Count!Average(B)
  <2>1. Run(B) /\ B \subseteq DOMAIN sample /\ B # {} /\ \A t \in B : f <= t
    BY DEF Run
  <2>2. E \subseteq BB /\ B \notin E /\ IsFiniteSet(E)
    BY <1>1, EarlierIs
  <2>3. e[B] = Count!PosStep(A, v)
    <3> HIDE DEF e
    <3> QED
      BY <1>2
  <2>4. CASE E = {}
    <3>1. v = base
      BY <2>4 DEF Prior
    <3> DEFINE x == 0
    <3>2. ASSUME NEW t \in B PROVE x <= 2 * Upto(f, t) /\ (v # -1 => x - v <= 2 * Ahead(f, t))
      <4>1. t \in DOMAIN sample /\ f <= t /\ t <= t
        BY <2>1 DEF CountInv
      <4>2. Upto(f, t) \in Nat
        BY <4>1, CreditGrows
      <4> HIDE DEF v
      <4> QED
        BY <3>1, <4>2
    <3> DEFINE y == x + Count!PosStep(A, v)
    <3>3. /\ Count!PosStep(A, v) \in Int
          /\ \A t \in DOMAIN sample : (\A s \in B : s <= t) =>
                y <= 2 * Upto(f, t) /\ y - A <= 2 * Ahead(f, t)
      <4>1. v \in Int /\ x \in Int
        BY <3>1
      <4> HIDE DEF v, x
      <4> QED
        BY <2>1, <3>2, <4>1, BucketClimb
    <3>4. X(B) = y
      <4>1. To(B) = {B}
        BY <2>4
      <4>2. X(B) = SumFunctionOnSet(e, {B})
        BY ONLY <4>1, Zenon
      <4>3. e[B] \in Int
        BY <1>4
      <4>4. X(B) = e[B]
        <5> HIDE DEF X, e
        <5> QED
          BY <4>2, <4>3, SumOne
      <4> HIDE DEF X, e, v, A
      <4> QED
        BY <2>3, <3>3, <4>4
    <3>5. y \in Int
      BY <3>3
    <3> HIDE DEF X, y, A
    <3> QED
      BY <3>3, <3>4, <3>5 DEF A
  <2>5. CASE E # {}
    <3> DEFINE C == Newest(E)
               x == X(C)
    <3>1. C \in BB /\ Count!Max(C) < Count!Min(B) /\ To(C) = E
      BY <1>1, <2>5, EarlierIs
    <3>2. v = Count!Average(C) /\ v \in Nat
      BY <1>3, <2>5, <3>1 DEF Prior
    <3>3. /\ Count!Max(C) \in Nat /\ Count!Min(B) \in Nat /\ Count!Min(B) <= n + 1
          /\ \A s \in C : s \in Nat /\ s <= Count!Max(C)
          /\ \A t \in B : t \in Nat /\ Count!Min(B) <= t
      <4>1. Run(C) /\ Run(B)
        BY <3>1
      <4> HIDE DEF C
      <4>2. Count!Max(C) \in C /\ C \subseteq Nat /\ \A s \in C : s <= Count!Max(C)
        BY <4>1, RunIs
      <4>3. Count!Min(B) \in B /\ B \subseteq Nat /\ Count!Min(B) <= Count!Max(B) /\ \A t \in B : Count!Min(B) <= t
        BY <4>1, RunIs
      <4> QED
        BY <4>2, <4>3
    <3>4. Good(C)
      <4>1. Count!Max(C) <= n
        BY <3>1, <3>3
      <4> HIDE DEF Good, C
      <4> QED
        BY <1>6, <3>1, <4>1
    <3>5. x \in Int
      BY <3>4
    <3>6. ASSUME NEW t \in B PROVE x <= 2 * Upto(f, t) /\ (v # -1 => x - v <= 2 * Ahead(f, t))
      <4>1. t \in DOMAIN sample
        BY <2>1
      <4>2. \A s \in C : s <= t
        <5> HIDE DEF C
        <5> QED
          BY <3>1, <3>3
      <4>3. x <= 2 * Upto(f, t) /\ x - Count!Average(C) <= 2 * Ahead(f, t)
        <5> HIDE DEF X, C
        <5> QED
          BY <3>4, <4>1, <4>2
      <4> HIDE DEF x, v, C
      <4> QED
        BY <3>2, <4>3
    <3> DEFINE y == x + Count!PosStep(A, v)
    <3>7. /\ Count!PosStep(A, v) \in Int
          /\ \A t \in DOMAIN sample : (\A s \in B : s <= t) =>
                y <= 2 * Upto(f, t) /\ y - A <= 2 * Ahead(f, t)
      <4>1. v \in Int
        BY <3>2
      <4> HIDE DEF v, x
      <4> QED
        BY <2>1, <3>5, <3>6, <4>1, BucketClimb
    <3>8. X(B) = y
      <4>1. Ints(e, E \cup {B})
        <5> HIDE DEF e
        <5> QED
          BY <1>4, <2>2 DEF Ints
      <4>2. SumFunctionOnSet(e, E \cup {B}) = e[B] + SumFunctionOnSet(e, E)
        <5> HIDE DEF e, E
        <5> QED
          BY <2>2, <4>1, SumAdd
      <4>3. x = SumFunctionOnSet(e, E)
        BY ONLY <3>1, Zenon
      <4>4. X(B) = SumFunctionOnSet(e, E \cup {B})
        OBVIOUS
      <4> HIDE DEF X, e, v, A, x, E
      <4> QED
        BY <2>3, <3>5, <3>7, <4>2, <4>3, <4>4
    <3>9. y \in Int
      <4> HIDE DEF x, v
      <4> QED
        BY <3>5, <3>7
    <3> HIDE DEF X, y, A
    <3> QED
      BY <3>7, <3>8, <3>9 DEF A
  <2> QED
    BY <2>4, <2>5
<1>7. Nat \subseteq H
  <2> HIDE DEF H
  <2> QED
    BY <1>5, <1>6, Induct
<1> DEFINE C == Newest(BB)
<1>8. C \in BB /\ To(C) = BB
  BY <1>1, NewestIs, EarlierIs
<1>9. Good(C)
  <2>1. Count!Max(C) \in Nat
    BY <1>1, <1>8, RunIs
  <2>2. Count!Max(C) \in H /\ Count!Max(C) <= Count!Max(C)
    <3> HIDE DEF H, C
    <3> QED
      BY <1>7, <2>1
  <2> HIDE DEF Good, C
  <2> QED
    BY <1>8, <2>2
<1>10. X(C) = SumFunctionOnSet(e, BB)
  BY ONLY <1>8, Zenon
<1>11. Count!Line(BB, base) = X(C)
  <2> HIDE DEF X, C
  <2> QED
    BY <1>10, LineIs
<1> HIDE DEF X, C
<1> QED
  BY <1>8, <1>9, <1>11

LEMMA LinesHold ==
  ASSUME CountInv
  PROVE  Count!LinesBelowBar
<1> SUFFICES ASSUME NEW w \in Count!Windows
             PROVE  LET bar == Count!Unit * Count!WindowDelta(w[1], w[2])
                        S   == Count!Samples(w[1], w[2])
                    IN  /\ (Count!Samples(w[1] - 4 * BucketLen, w[1] - 1) # {} => Count!Baseline(w[1]) # Count!None)
                              => Count!DeltaSeries(w[1], w[2]) <= bar
                        /\ S # {} => Count!MonotonicSeries(w[1], w[2])
                                        <= bar + Count!Unit * Count!Max({sample[t] : t \in S})
  BY DEF Count!LinesBelowBar
<1> DEFINE f == w[1]
           l == w[2]
           S == Count!Samples(f, l)
           BB == Count!Buckets(f, l)
           S0 == Count!Samples(f - 4 * BucketLen, f - 1)
           A == Count!Samples(f - LookbackTicks, f - 1)
           u == Upto(f, l)
<1>1. /\ f \in 1..tick /\ l \in f..tick /\ f \in Nat /\ l \in Nat /\ f <= l
      /\ f - LookbackTicks \in Int /\ f - 1 \in Int /\ LookbackTicks \in Nat /\ tick \in Nat
  BY WindowOf
<1> HIDE DEF f, l
<1>2. f - 4 * BucketLen \in Int /\ f \in Int /\ l \in Int
  BY <1>1, CountersAssumption
<1>3. Count!WindowDelta(f, l) = u /\ u \in Nat
  BY <1>1, <1>2, DeltaIs, UptoIs
<1>4. /\ IsFiniteSet(BB) /\ Apart(BB) /\ (BB # {} <=> S # {})
      /\ \A B \in BB : Run(B) /\ B \subseteq S /\ \A t \in B : f <= t
      /\ \A t \in S : \E B \in BB : t \in B
  <2>1. /\ IsFiniteSet(BB) /\ Apart(BB)
        /\ \A B \in BB : Run(B) /\ B \subseteq S
        /\ \A t \in S : \E B \in BB : t \in B
    BY <1>1, BucketsAre
  <2>2. \A t \in S : f <= t
    BY <1>2, SamplesAre
  <2>3. BB # {} <=> S # {}
    <3> HIDE DEF BB, S
    <3> QED
      BY <2>1 DEF Run
  <2> HIDE DEF BB, S
  <2> QED
    BY <2>1, <2>2, <2>3
<1>5. \A t \in S : t \in DOMAIN sample /\ f <= t /\ t \in Nat /\ sample[t] \in Nat
  BY <1>2, SamplesAre DEF CountInv
<1>6. ASSUME NEW base \in Int, base = -1 \/ \A t \in S : -base <= 2 * Ahead(f, t)
      PROVE  Count!Line(BB, base) \in Int /\ Count!Line(BB, base) <= 2 * u
  <2>1. CASE S = {}
    <3>1. BB = {}
      BY <1>4, <2>1
    <3>2. Count!Line(BB, base) = SumFunctionOnSet(Steps(BB, base), BB)
      BY LineIs
    <3>3. SumFunctionOnSet(Steps(BB, base), BB) = SumFunctionOnSet(Steps(BB, base), {})
      BY ONLY <3>1, Zenon
    <3>4. SumFunctionOnSet(Steps(BB, base), {}) = 0
      BY SumEmpty
    <3> HIDE DEF u, BB
    <3> QED
      BY <1>3, <3>2, <3>3, <3>4
  <2>2. CASE S # {}
    <3> DEFINE t == Count!Max(S)
    <3>1. t \in S /\ \A s \in S : s <= t
      BY <1>2, <2>2, SamplesAre
    <3>2. u = Upto(f, t)
      BY <1>1, <2>2, LastCredit
    <3> HIDE DEF BB, S, t, u
    <3>3. BB # {} /\ t \in DOMAIN sample /\ \A B \in BB : \A s \in B : s <= t
      BY <1>4, <1>5, <2>2, <3>1
    <3>4. base = -1 \/ \A B \in BB : \A s \in B : -base <= 2 * Ahead(f, s)
      BY <1>4, <1>6
    <3>5. \A B \in BB : Run(B) /\ \A s \in B : f <= s
      BY <1>4
    <3>6. Count!Line(BB, base) \in Int /\ Count!Line(BB, base) <= 2 * Upto(f, t)
      BY <1>1, <1>4, <3>3, <3>4, <3>5, LineRises
    <3> QED
      BY <3>2, <3>6
  <2> QED
    BY <2>1, <2>2
<1>7. ASSUME S0 # {} => Count!Baseline(f) # Count!None
      PROVE  Count!DeltaSeries(f, l) <= 2 * u
  <2> DEFINE base == IF S0 = {} THEN -1 ELSE 2 * sample[Count!Max(S0)]
  <2>1. Count!DeltaSeries(f, l) = Count!Line(BB, base)
    BY DEF Count!DeltaSeries, Count!None, Count!Unit
  <2>2. ASSUME S0 # {}
        PROVE  base \in Int /\ \A t \in S : -base <= 2 * Ahead(f, t)
    <3> DEFINE p == Count!Max(S0)
               r == Count!Max(A)
    <3>1. A # {}
      BY <1>7, <2>2 DEF Count!Baseline
    <3>2. /\ p \in S0 /\ \A x \in S0 : x <= p
          /\ r \in A /\ \A x \in A : x <= r
          /\ S0 \subseteq Int /\ A \subseteq Int
      BY <1>1, <1>2, <2>2, <3>1, SamplesAre
    <3> HIDE DEF p, r
    <3>3. p = r
      <4>1. p \in Int /\ r \in Int /\ p \in DOMAIN sample /\ r \in DOMAIN sample
        BY <3>2 DEF Count!Samples
      <4>2. f - 4 * BucketLen <= p /\ p <= f - 1 /\ f - LookbackTicks <= r /\ r <= f - 1
        BY <3>2 DEF Count!Samples
      <4>3. ASSUME p < r PROVE FALSE
        <5>1. f - 4 * BucketLen <= r
          BY <1>2, <4>1, <4>2, <4>3
        <5>2. r \in S0
          BY <1>1, <1>2, <4>1, <4>2, <5>1 DEF Count!Samples
        <5> QED
          BY <3>2, <4>1, <4>3, <5>2
      <4>4. ASSUME r < p PROVE FALSE
        <5>1. f - LookbackTicks <= p
          BY <1>1, <4>1, <4>2, <4>4
        <5>2. p \in A
          BY <1>1, <1>2, <4>1, <4>2, <5>1 DEF Count!Samples
        <5> QED
          BY <3>2, <4>1, <4>4, <5>2
      <4> QED
        BY <4>1, <4>3, <4>4
    <3>4. p \in DOMAIN sample /\ sample[p] \in Nat
      BY <3>2 DEF Count!Samples, CountInv
    <3>5. base = 2 * sample[p]
      BY <2>2 DEF p
    <3>6. ASSUME NEW t \in S PROVE -base <= 2 * Ahead(f, t)
      <4>1. S # {} /\ Count!From(f, l) = p
        BY <3>1, <3>3, <3>6 DEF Count!From, r
      <4>2. /\ p \in Count!Samples(f - LookbackTicks, tick) /\ Count!Samples(p + 1, f - 1) = {}
            /\ Upto(f, p) = 0 /\ p <= t
        BY <1>1, <4>1, BeginIs
      <4>3. sample[t] - sample[p] <= Upto(f, t) - Upto(f, p)
        BY <1>1, <1>5, <4>2, Climb
      <4>4. Upto(f, t) \in Nat /\ sample[t] \in Nat
        BY <1>1, <1>5, UptoIs
      <4> HIDE DEF base, S
      <4> QED
        BY <3>4, <3>5, <4>2, <4>3, <4>4 DEF Ahead
    <3>7. base \in Int
      BY <3>4, <3>5
    <3> HIDE DEF base, S
    <3> QED
      BY <3>6, <3>7
  <2>3. base \in Int /\ (base = -1 \/ \A t \in S : -base <= 2 * Ahead(f, t))
    <3>1. S0 = {} => base = -1
      OBVIOUS
    <3> HIDE DEF base, S0, S
    <3> QED
      BY <2>2, <3>1
  <2> HIDE DEF base, BB, S, u
  <2> QED
    BY <1>6, <2>1, <2>3
<1>8. ASSUME S # {}
      PROVE  Count!MonotonicSeries(f, l) <= 2 * u + 2 * Count!Max({sample[t] : t \in S})
  <2> DEFINE V == {sample[t] : t \in S}
             M == Count!Max(V)
             First1(B) == \A C \in BB : Count!Min(B) <= Count!Min(C)
             B1 == CHOOSE B \in BB : First1(B)
  <2>1. M \in Nat /\ \A t \in S : sample[t] <= M
    <3>1. IsFiniteSet(S) /\ Ints(sample, S)
      BY <1>2, <1>5, SamplesAre DEF Ints
    <3>2. PICK x \in S : \A y \in S : sample[x] >= sample[y]
      <4> HIDE DEF S
      <4> QED
        BY <1>8, <3>1, MostExists
    <3>3. \E v \in V : \A y \in V : v >= y
      <4> HIDE DEF S
      <4> QED
        BY <3>2
    <3>4. M \in V /\ \A y \in V : M >= y
      <4> HIDE DEF V
      <4> QED
        BY <3>3 DEF Count!Max
    <3> HIDE DEF M, S
    <3> QED
      BY <1>5, <3>4
  <2>2. B1 \in BB
    <3> DEFINE m == [B \in BB |-> -Count!Min(B)]
    <3>1. \A B \in BB : Count!Min(B) \in Int
      BY <1>4, RunIs
    <3>2. BB # {}
      BY <1>4, <1>8
    <3> HIDE DEF BB
    <3>3. Ints(m, BB)
      BY <3>1 DEF Ints
    <3>4. \E B \in BB : \A C \in BB : m[B] >= m[C]
      <4> HIDE DEF m
      <4> QED
        BY <1>4, <3>2, <3>3, MostExists
    <3>5. \E B \in BB : First1(B)
      BY <3>1, <3>4
    <3> HIDE DEF First1
    <3> QED
      BY <3>5
  <2>3. Count!MonotonicSeries(f, l) = Count!Line(BB, -1) + Count!Average(B1)
    <3>1. BB # {}
      BY <2>2
    <3> QED
      BY <3>1 DEF Count!MonotonicSeries, Count!None
  <2>4. Count!Average(B1) \in Nat /\ Count!Average(B1) <= 2 * M
    <3> DEFINE n == Cardinality(B1)
               a == Count!Average(B1)
               s == SumFunctionOnSet(sample, B1)
    <3>1. B1 \subseteq DOMAIN sample /\ B1 # {} /\ B1 \subseteq S
      <4> HIDE DEF B1, BB, S
      <4> QED
        BY <1>4, <2>2 DEF Run
    <3> HIDE DEF B1
    <3>2. IsFiniteSet(B1) /\ n \in Nat \ {0} /\ a \in Nat /\ n * a \in Nat /\ n * a <= 2 * s
      BY <3>1, AverageIs
    <3> HIDE DEF S, M, V
    <3>3. Ints(sample, B1) /\ \A t \in B1 : sample[t] <= M
      BY <1>5, <2>1, <3>1 DEF Ints
    <3>4. s <= n * M /\ s \in Int
      <4>1. M \in Int
        BY <2>1
      <4> QED
        BY <3>2, <3>3, <4>1, SumWithin, SumTake
    <3> HIDE DEF n, s, a
    <3>5. n * M \in Int /\ n * (2 * M) = 2 * (n * M) /\ 2 * M \in Int
      BY <2>1, <3>2
    <3>6. n * a <= n * (2 * M)
      BY <3>2, <3>4, <3>5
    <3>7. a <= 2 * M
      BY <3>2, <3>5, <3>6, LessBy
    <3> QED
      BY <3>2, <3>7 DEF a
  <2>5. Count!Line(BB, -1) \in Int /\ Count!Line(BB, -1) <= 2 * u
    <3> DEFINE base == -1
    <3>1. base \in Int /\ base = -1
      OBVIOUS
    <3> HIDE DEF base, BB, u, S
    <3>2. Count!Line(BB, base) \in Int /\ Count!Line(BB, base) <= 2 * u
      BY <1>6, <3>1
    <3> QED
      BY <3>2 DEF base
  <2> HIDE DEF BB, B1, M, u
  <2>6. Count!MonotonicSeries(f, l) <= 2 * u + 2 * M
    BY <1>3, <2>1, <2>3, <2>4, <2>5
  <2> QED
    BY <2>6 DEF M
<1>9. Count!Unit = 2
  BY DEF Count!Unit
<1> HIDE DEF u
<1> QED
  BY <1>3, <1>7, <1>8, <1>9 DEF f, l

\* The part of TotalsTrue about the counters.
LEMMA CountHolds ==
  ASSUME CountInv
  PROVE  Count!TypeOK /\ Count!DeltaIsActivity /\ Count!ZoomAttributes /\ Count!LinesBelowBar
<1>1. Count!TypeOK
  BY DEF CountInv, Count!TypeOK
<1> QED
  BY <1>1, DeltaHolds, ZoomHolds, LinesHold

-----------------------------------------------------------------------------
\* Charts.
LEMMA ImageFinite ==
  ASSUME NEW S, IsFiniteSet(S), NEW f
  PROVE  IsFiniteSet({f[x] : x \in S})
<1> DEFINE T == {f[x] : x \in S}
           g == [x \in S |-> f[x]]
<1>1. g \in Surjection(S, T)
  BY DEF Surjection
<1> HIDE DEF g, T
<1>2. IsFiniteSet(T)
  BY <1>1, FS_Surjection
<1> QED
  BY <1>2 DEF T

\* What the lines g of A are at b.
Cut(g, A, b) == [a \in A |-> g[a][b]]

LEMMA SumSwap ==
  ASSUME NEW A, IsFiniteSet(A), NEW B, IsFiniteSet(B), NEW g, \A a \in A : Ints(g[a], B),
         NEW row, \A a \in A : row[a] = SumFunctionOnSet(g[a], B),
         NEW col, \A b \in B : col[b] = SumFunctionOnSet(Cut(g, A, b), A)
  PROVE  SumFunctionOnSet(row, A) = SumFunctionOnSet(col, B)
<1> DEFINE at(b) == Cut(g, A, b)
           piece(T) == [b \in B |-> SumFunctionOnSet(at(b), T)]
           Q == {T \in SUBSET A : SumFunctionOnSet(row, T) = SumFunctionOnSet(piece(T), B)}
<1>1. \A b \in B : Ints(at(b), A)
  BY DEF Ints, Cut
<1>2. Ints(row, A)
  <2>1. \A a \in A : row[a] \in Int
    BY SumTake
  <2> QED
    BY <2>1 DEF Ints
<1>3. ASSUME NEW T \in SUBSET A PROVE IsFiniteSet(T) /\ Ints(piece(T), B)
  <2>1. IsFiniteSet(T)
    BY FS_Subset
  <2>2. ASSUME NEW b \in B PROVE SumFunctionOnSet(at(b), T) \in Int
    <3>1. Ints(at(b), T)
      BY <1>1 DEF Ints
    <3> HIDE DEF at
    <3> QED
      BY <2>1, <3>1, SumTake
  <2> HIDE DEF at
  <2> QED
    BY <2>1, <2>2 DEF Ints
<1>4. {} \in Q
  <2>1. \A b \in B : piece({})[b] = 0
    <3> HIDE DEF at
    <3> QED
      BY SumEmpty
  <2>2. SumFunctionOnSet(piece({}), B) = 0
    <3> HIDE DEF piece
    <3> QED
      BY <2>1, SumZero
  <2> HIDE DEF piece
  <2> QED
    BY <2>2, SumEmpty
<1>5. ASSUME NEW T \in SUBSET A, NEW x \in A \ T, T \in Q PROVE T \cup {x} \in Q
  <2>1. T \cup {x} \in SUBSET A /\ x \in A /\ x \notin T
    OBVIOUS
  <2>2. IsFiniteSet(T) /\ Ints(piece(T), B) /\ Ints(g[x], B) /\ Ints(piece(T \cup {x}), B)
    <3> HIDE DEF piece
    <3> QED
      BY <1>3, <2>1
  <2>3. Ints(row, T \cup {x}) /\ Ints(row, T)
    BY <1>2 DEF Ints
  <2>4. SumFunctionOnSet(row, T \cup {x}) = row[x] + SumFunctionOnSet(row, T)
    BY <2>1, <2>2, <2>3, SumAdd
  <2>5. ASSUME NEW b \in B PROVE piece(T \cup {x})[b] = g[x][b] + piece(T)[b]
    <3>1. Ints(at(b), T \cup {x})
      BY <1>1 DEF Ints
    <3>2. at(b)[x] = g[x][b]
      BY <2>1 DEF Cut
    <3> HIDE DEF at
    <3>3. SumFunctionOnSet(at(b), T \cup {x}) = at(b)[x] + SumFunctionOnSet(at(b), T)
      BY <2>1, <2>2, <3>1, SumAdd
    <3> QED
      BY <3>2, <3>3
  <2> DEFINE p == piece(T \cup {x})
             q == piece(T)
             e == g[x]
  <2> HIDE DEF p, q, e, piece, at
  <2>6. SumFunctionOnSet(p, B) = SumFunctionOnSet(e, B) + SumFunctionOnSet(q, B)
    <3>1. Ints(q, B) /\ Ints(e, B) /\ \A b \in B : p[b] = e[b] + q[b]
      BY <2>2, <2>5 DEF p, q, e
    <3> QED
      BY <3>1, SumPlus
  <2>7. row[x] = SumFunctionOnSet(e, B) /\ row[x] \in Int /\ SumFunctionOnSet(q, B) \in Int
    <3>1. row[x] \in Int
      BY <1>2 DEF Ints
    <3>2. SumFunctionOnSet(q, B) \in Int
      BY <2>2, SumTake DEF q
    <3> QED
      BY <3>1, <3>2 DEF e
  <2>8. SumFunctionOnSet(row, T) = SumFunctionOnSet(q, B)
    BY <1>5 DEF q
  <2>9. SumFunctionOnSet(row, T \cup {x}) = SumFunctionOnSet(p, B)
    BY <2>4, <2>6, <2>7, <2>8
  <2> QED
    BY <2>1, <2>9 DEF p
<1>6. \A T \in SUBSET A : \A x \in A \ T : T \in Q => T \cup {x} \in Q
  BY <1>5
<1>7. A \in SUBSET A
  OBVIOUS
<1>8. A \in Q
  <2> HIDE DEF Q
  <2> QED
    BY <1>4, <1>6, <1>7, SetInduct
<1>9. \A b \in B : piece(A)[b] = col[b]
  OBVIOUS
<1>10. SumFunctionOnSet(piece(A), B) = SumFunctionOnSet(col, B)
  <2> HIDE DEF piece
  <2> QED
    BY <1>9, SumAgree
<1> QED
  BY <1>8, <1>10

Rows == [day : Chart!Day, model : DOMAIN Models, key : Labels]
ChartInv ==
    /\ used \in SUBSET Rows /\ IsFiniteSet(used) /\ reported \in SUBSET DOMAIN Models
    /\ DOMAIN pin \subseteq DOMAIN Models /\ \A m \in DOMAIN pin : pin[m] \in Nat
    /\ override \subseteq Labels /\ owned \subseteq Labels /\ hide \in BOOLEAN

LEMMA ChartInit ==
  ASSUME Chart!Init
  PROVE  ChartInv
<1>1. used = {} /\ IsFiniteSet(used)
  BY FS_EmptySet DEF Chart!Init
<1>2. DOMAIN pin = {}
  BY DEF Chart!Init
<1> QED
  BY <1>1, <1>2 DEF Chart!Init, ChartInv

LEMMA ChartNext ==
  ASSUME ChartInv, Chart!Next \/ UNCHANGED charts
  PROVE  ChartInv'
<1>1. CASE UNCHANGED charts
  BY <1>1 DEF charts, ChartInv, Rows, Chart!Day
<1>2. CASE Chart!Use
  <2>1. PICK d \in Chart!Day, m \in DOMAIN Models, k \in Labels :
           /\ used' = used \cup {[day |-> d, model |-> m, key |-> k]}
           /\ UNCHANGED <<reported, pin, override, owned, hide>>
    BY <1>2 DEF Chart!Use
  <2>2. IsFiniteSet(used')
    BY <2>1, FS_AddElement DEF ChartInv
  <2> QED
    BY <2>1, <2>2 DEF ChartInv, Rows, Chart!Day
<1>3. CASE Chart!Pin
  BY <1>3, ChartsAssumption DEF Chart!Pin, ChartInv, Rows, Chart!Day
<1>4. CASE Chart!Unpin
  BY <1>4 DEF Chart!Unpin, ChartInv, Rows, Chart!Day
<1>5. CASE Chart!Assign
  BY <1>5 DEF Chart!Assign, ChartInv, Rows, Chart!Day
<1>6. CASE Chart!Learn
  BY <1>6 DEF Chart!Learn, ChartInv, Rows, Chart!Day
<1>7. CASE Chart!Hide
  BY <1>7 DEF Chart!Hide, ChartInv, Rows, Chart!Day
<1> QED
  BY <1>1, <1>2, <1>3, <1>4, <1>5, <1>6, <1>7 DEF Chart!Next

LEMMA ChartCount ==
  ASSUME NEW S
  PROVE  Chart!Cardinality(S) = Cardinality(S)
BY DEF Chart!Cardinality, Cardinality

\* What the rows cost, what they are worth, and what LiteLLM billed for them.
Costs == [r \in used |-> Chart!Cost(r)]
Cash  == [r \in used |-> Chart!Value(r)]
Bills == [r \in used |-> Models[r.model]]

LEMMA AmountIs ==
  ASSUME NEW rows, IsFiniteSet(rows), NEW worth, Ints(worth, rows)
  PROVE  Chart!Amount(worth, rows) = SumFunctionOnSet(worth, rows)
<1> DEFINE c == [r \in rows |-> worth[r]]
<1>1. Chart!Amount(worth, rows) = Chart!SumFunction(c) /\ DOMAIN c = rows /\ \A r \in rows : c[r] = worth[r]
  BY DEF Chart!Amount
<1> HIDE DEF c
<1>2. Chart!SumFunction(c) = SumFunctionOnSet(c, DOMAIN c)
  BY ChartSum
<1>3. SumFunctionOnSet(c, rows) = SumFunctionOnSet(worth, rows)
  BY <1>1, SumAgree
<1> QED
  BY <1>1, <1>2, <1>3

LEMMA CashIs ==
  ASSUME ChartInv
  PROVE  /\ Nats(Cash, used)
         /\ \A rows \in SUBSET used :
                /\ IsFiniteSet(rows) /\ Ints(Cash, rows)
                /\ Chart!Amount(Chart!Values, rows) = SumFunctionOnSet(Cash, rows)
<1>1. \A r \in used : Chart!Value(r) \in Nat
  BY ChartsAssumption DEF ChartInv, Rows, Chart!Value, Chart!Cost, Chart!Price
<1>2. Nats(Cash, used)
  BY <1>1 DEF Nats, Cash
<1>3. Chart!Values = Cash
  BY DEF Chart!Values, Cash
<1>4. ASSUME NEW rows \in SUBSET used PROVE IsFiniteSet(rows) /\ Ints(Cash, rows)
  BY <1>1, FS_Subset DEF Ints, Cash, ChartInv
<1> QED
  BY <1>2, <1>3, <1>4, AmountIs

LEMMA WorthIs ==
  ASSUME ChartInv
  PROVE  /\ Nats(Costs, used) /\ Nats(Bills, used) /\ Chart!Costs = Costs
         /\ \A rows \in SUBSET used :
                /\ IsFiniteSet(rows) /\ Ints(Costs, rows) /\ Ints(Bills, rows)
                /\ Chart!Worth(rows) = SumFunctionOnSet(Costs, rows)
                /\ Chart!Billed(rows) = SumFunctionOnSet(Bills, rows)
<1>1. \A r \in used : Chart!Cost(r) \in Nat /\ Models[r.model] \in Nat
  BY ChartsAssumption DEF ChartInv, Rows, Chart!Cost, Chart!Price
<1>2. Nats(Costs, used) /\ Nats(Bills, used)
  BY <1>1 DEF Nats, Costs, Bills
<1>3. ASSUME NEW rows \in SUBSET used
      PROVE  /\ IsFiniteSet(rows) /\ Ints(Costs, rows) /\ Ints(Bills, rows)
             /\ Chart!Worth(rows) = SumFunctionOnSet(Costs, rows)
             /\ Chart!Billed(rows) = SumFunctionOnSet(Bills, rows)
  <2>1. IsFiniteSet(rows)
    BY FS_Subset DEF ChartInv
  <2>2. Ints(Costs, rows) /\ Ints(Bills, rows)
    BY <1>1 DEF Ints, Costs, Bills
  <2> DEFINE b == [r \in rows |-> Models[r.model]]
  <2>3. Chart!Worth(rows) = SumFunctionOnSet(Costs, rows)
    BY <2>1, <2>2, AmountIs DEF Chart!Worth, Chart!Costs, Costs
  <2>4. Chart!Billed(rows) = SumFunctionOnSet(b, rows)
    <3>1. DOMAIN b = rows
      OBVIOUS
    <3>2. Chart!Billed(rows) = Chart!SumFunction(b)
      BY DEF Chart!Billed
    <3> HIDE DEF b
    <3>3. Chart!SumFunction(b) = SumFunctionOnSet(b, DOMAIN b)
      BY ChartSum
    <3> QED
      BY <3>1, <3>2, <3>3
  <2>5. \A r \in rows : b[r] = Bills[r]
    BY DEF Bills
  <2> HIDE DEF b
  <2>7. SumFunctionOnSet(b, rows) = SumFunctionOnSet(Bills, rows)
    BY <2>1, <2>5, SumAgree
  <2> QED
    BY <2>1, <2>2, <2>3, <2>4, <2>7
<1> QED
  BY <1>2, <1>3 DEF Chart!Costs, Costs

\* The lines are over the axis, and their totals are these.
Held(lines, axis, totals) ==
    \A x \in DOMAIN lines : /\ DOMAIN lines[x] = axis /\ Ints(lines[x], axis)
                            /\ totals[x] = SumFunctionOnSet(lines[x], axis)

LEMMA TailKeeps ==
  ASSUME NEW lines, IsFiniteSet(DOMAIN lines), NEW axis, IsFiniteSet(axis), NEW totals,
         Held(lines, axis, totals), <<"Other">> \notin DOMAIN lines, NEW keep \in SUBSET DOMAIN lines
  PROVE  Chart!Grand(Chart!Tail(lines, keep)) = SumFunctionOnSet(totals, DOMAIN lines)
<1> DEFINE D == DOMAIN lines
           o == <<"Other">>
           T == Chart!Tail(lines, keep)
           G == [x \in DOMAIN T |-> Chart!Total(T[x])]
           rest == D \ keep
<1>1. Ints(totals, D)
  <2> SUFFICES ASSUME NEW x \in D PROVE totals[x] \in Int
    BY DEF Ints
  <2>1. Ints(lines[x], axis) /\ totals[x] = SumFunctionOnSet(lines[x], axis)
    BY DEF Held
  <2> QED
    BY <2>1, SumTake
<1>2. Chart!Grand(T) = SumFunctionOnSet(G, DOMAIN T)
  <2>1. Chart!Grand(T) = Chart!SumFunction(G)
    BY DEF Chart!Grand
  <2>2. DOMAIN G = DOMAIN T
    OBVIOUS
  <2> HIDE DEF G, T
  <2> QED
    BY <2>1, <2>2, ChartSum
<1>3. \A x \in D : Chart!Total(lines[x]) = totals[x]
  <2> TAKE x \in D
  <2>1. Chart!Total(lines[x]) = SumFunctionOnSet(lines[x], DOMAIN lines[x])
    BY ChartSum DEF Chart!Total
  <2> QED
    BY <2>1 DEF Held
<1>4. IsFiniteSet(keep) /\ IsFiniteSet(rest)
  BY FS_Subset
<1>5. CASE keep = D
  <2>1. DOMAIN T = D /\ \A x \in D : T[x] = lines[x]
    BY <1>5 DEF Chart!Tail
  <2>2. \A x \in D : G[x] = totals[x]
    <3> HIDE DEF T
    <3> QED
      BY <1>3, <2>1
  <2> HIDE DEF G, T
  <2>3. SumFunctionOnSet(G, D) = SumFunctionOnSet(totals, D)
    BY <2>2, SumAgree
  <2> QED
    BY <1>2, <2>1, <2>3 DEF T
<1>6. CASE keep # D
  <2>1. rest # {}
    BY <1>6
  <2>2. DOMAIN T = keep \cup {o}
    BY <1>6 DEF Chart!Tail
  <2>3. \A x \in keep : T[x] = lines[x]
    BY DEF Chart!Tail
  <2> DEFINE cut(l) == [y \in rest |-> lines[y][l]]
  <2>4. DOMAIN lines[CHOOSE y \in rest : TRUE] = axis
    BY <2>1 DEF Held
  <2>5. T[o] = [l \in axis |-> Chart!SumFunction(cut(l))]
    BY <1>6, <2>4 DEF Chart!Tail
  <2>6. \A l \in axis : T[o][l] = SumFunctionOnSet([y \in rest |-> lines[y][l]], rest)
    <3> TAKE l \in axis
    <3>1. DOMAIN cut(l) = rest
      OBVIOUS
    <3>2. T[o][l] = Chart!SumFunction(cut(l))
      <4> HIDE DEF cut, T
      <4> QED
        BY <2>5
    <3>3. Chart!SumFunction(cut(l)) = SumFunctionOnSet(cut(l), DOMAIN cut(l))
      <4> HIDE DEF cut
      <4> QED
        BY ChartSum
    <3> QED
      BY <3>1, <3>2, <3>3
  <2>7. DOMAIN T[o] = axis
    <3> HIDE DEF cut, T
    <3> QED
      BY <2>5
  <2> HIDE DEF T, rest, cut
  <2>8. SumFunctionOnSet(totals, rest) = SumFunctionOnSet(T[o], axis)
    <3>1. \A a \in rest : Ints(lines[a], axis)
      BY DEF Held, rest
    <3>4. \A a \in rest : totals[a] = SumFunctionOnSet(lines[a], axis)
      BY DEF Held, rest
    <3> DEFINE col == T[o]
    <3>2. \A b \in axis : col[b] = SumFunctionOnSet(Cut(lines, rest, b), rest)
      BY <2>6 DEF Cut
    <3> HIDE DEF col
    <3>3. SumFunctionOnSet(totals, rest) = SumFunctionOnSet(col, axis)
      BY ONLY <1>4, <3>1, <3>2, <3>4, IsFiniteSet(axis), SumSwap
    <3> QED
      BY <3>3 DEF col
  <2>9. Chart!Total(T[o]) = SumFunctionOnSet(totals, rest)
    BY <2>7, <2>8, ChartSum DEF Chart!Total
  <2>10. o \in DOMAIN T /\ o \notin keep /\ keep \subseteq DOMAIN T
    BY <2>2
  <2>11. G[o] = SumFunctionOnSet(totals, rest) /\ \A x \in keep : G[x] = totals[x]
    BY <1>3, <2>3, <2>9, <2>10
  <2> HIDE DEF G
  <2>12. /\ SumFunctionOnSet(totals, D) = SumFunctionOnSet(totals, keep) + SumFunctionOnSet(totals, rest)
         /\ SumFunctionOnSet(totals, keep) \in Int /\ SumFunctionOnSet(totals, rest) \in Int
    BY <1>1, SumRest DEF rest
  <2>13. Ints(G, keep \cup {o})
    BY <1>1, <2>11, <2>12 DEF Ints
  <2>14. SumFunctionOnSet(G, keep \cup {o}) = G[o] + SumFunctionOnSet(G, keep)
    <3> HIDE DEF o
    <3> QED
      BY <1>4, <2>10, <2>13, SumAdd
  <2>15. SumFunctionOnSet(G, keep) = SumFunctionOnSet(totals, keep)
    BY <1>4, <2>11, SumAgree
  <2>16. SumFunctionOnSet(G, DOMAIN T) = SumFunctionOnSet(totals, D)
    BY <2>2, <2>11, <2>12, <2>14, <2>15
  <2> QED
    BY <1>2, <2>16 DEF T
<1> QED
  BY <1>5, <1>6

LEMMA ChartKeeps ==
  ASSUME NEW lines, IsFiniteSet(DOMAIN lines), NEW axis, IsFiniteSet(axis), NEW totals,
         Held(lines, axis, totals), <<"Other">> \notin DOMAIN lines
  PROVE  Chart!Grand(Chart!Chart(lines)) = SumFunctionOnSet(totals, DOMAIN lines)
<1> DEFINE D == DOMAIN lines
           size == IF Chart!Cardinality(D) < TopN THEN Chart!Cardinality(D) ELSE TopN
           Best(K) == \A x \in K, y \in D \ K : Chart!Total(lines[x]) >= Chart!Total(lines[y])
           keep == CHOOSE K \in Chart!kSubset(size, D) : Best(K)
<1>1. \A x \in D : Ints(lines[x], axis) /\ totals[x] = SumFunctionOnSet(lines[x], axis)
  BY DEF Held
<1>2. Ints(totals, D)
  <2> SUFFICES ASSUME NEW x \in D PROVE totals[x] \in Int
    BY DEF Ints
  <2> QED
    BY <1>1, SumTake
<1>3. \A x \in D : Chart!Total(lines[x]) = totals[x]
  <2> TAKE x \in D
  <2>1. Chart!Total(lines[x]) = SumFunctionOnSet(lines[x], DOMAIN lines[x])
    BY ChartSum DEF Chart!Total
  <2> QED
    BY <2>1 DEF Held
<1>4. size \in 0..Cardinality(D)
  BY FS_CardinalityType, ChartCount, ChartsAssumption
<1>5. Chart!kSubset(size, D) = {s \in SUBSET D : Cardinality(s) = size}
  <2> HIDE DEF size, D
  <2> QED
    BY ChartCount DEF Chart!kSubset
<1>6. \E K \in Chart!kSubset(size, D) : Best(K)
  <2> HIDE DEF size
  <2>1. PICK K \in SUBSET D : Cardinality(K) = size /\ Leads(K, D, totals)
    BY <1>2, <1>4, TopExists
  <2>2. Best(K)
    BY <1>3, <2>1 DEF Leads
  <2> QED
    BY <1>5, <2>1, <2>2
<1>7. keep \in SUBSET D
  <2> HIDE DEF Best, size
  <2> QED
    BY <1>5, <1>6
<1>8. Chart!Chart(lines) = Chart!Tail(lines, keep)
  BY DEF Chart!Chart
<1> HIDE DEF keep
<1> QED
  BY <1>7, <1>8, TailKeeps

\* The rows in the days of the axis.
Shown(rows, w, axis) == {r \in rows : Chart!Bucket(w, r.day) \in axis}

\* No row is named as the tail of a chart.
Named(name, rows) == \A r \in rows : name[r] # <<"Other">>

\* The lines hold together what their rows are worth in the days of the axis.
LEMMA LinesMoney ==
  ASSUME ChartInv, NEW rows \in SUBSET used, NEW name, Named(name, rows),
         NEW worth, Nats(worth, used), NEW w, NEW axis, IsFiniteSet(axis)
  PROVE  Chart!Grand(Chart!Chart(Chart!Lines(rows, name, worth, w, axis)))
             = SumFunctionOnSet(worth, Shown(rows, w, axis))
<1> DEFINE priced == {r \in rows : worth[r] > 0 /\ Chart!Bucket(w, r.day) \in axis}
           within == Shown(rows, w, axis)
           lines == Chart!Lines(rows, name, worth, w, axis)
           D == {name[r] : r \in priced}
           piece(x) == Those(priced, name, x)
           totals == [x \in D |-> SumFunctionOnSet(worth, piece(x))]
           at == [r \in used |-> Chart!Bucket(w, r.day)]
<1>0. \A R \in SUBSET used : IsFiniteSet(R) /\ Ints(worth, R) /\ Chart!Amount(worth, R) = SumFunctionOnSet(worth, R)
  <2> TAKE R \in SUBSET used
  <2>1. IsFiniteSet(R) /\ Ints(worth, R)
    BY FS_Subset DEF ChartInv, Nats, Ints
  <2> QED
    BY <2>1, AmountIs
<1>1. priced \in SUBSET used /\ within \in SUBSET used /\ priced \in SUBSET within
  BY DEF Shown
<1>2. IsFiniteSet(priced) /\ IsFiniteSet(within)
  <2> HIDE DEF priced, within
  <2> QED
    BY <1>0, <1>1
<1>3. IsFiniteSet(D)
  <2> HIDE DEF priced
  <2> QED
    BY <1>2, ImageFinite
<1>4. /\ DOMAIN lines = D
      /\ \A x \in D : /\ DOMAIN lines[x] = axis
                      /\ \A l \in axis : lines[x][l] = Chart!Amount(worth, Those(piece(x), at, l))
  <2>1. lines = [x \in D |-> [l \in axis |->
                    Chart!Amount(worth, {r \in priced : name[r] = x /\ Chart!Bucket(w, r.day) = l})]]
    BY DEF Chart!Lines
  <2>2. \A x, l : {r \in priced : name[r] = x /\ Chart!Bucket(w, r.day) = l} = Those(piece(x), at, l)
    BY <1>1 DEF Those
  <2>3. \A x, l : Chart!Amount(worth, {r \in priced : name[r] = x /\ Chart!Bucket(w, r.day) = l})
                      = Chart!Amount(worth, Those(piece(x), at, l))
    BY <2>2, Zenon
  <2> DEFINE u(x, l) == Chart!Amount(worth, {r \in priced : name[r] = x /\ Chart!Bucket(w, r.day) = l})
             v(x, l) == Chart!Amount(worth, Those(piece(x), at, l))
  <2>4. \A x, l : u(x, l) = v(x, l)
    BY ONLY <2>3
  <2>5. lines = [x \in D |-> [l \in axis |-> u(x, l)]]
    BY ONLY <2>1
  <2> HIDE DEF lines, D, u, v
  <2>6. \A x \in D : lines[x] = [l \in axis |-> u(x, l)]
    BY ONLY <2>5
  <2>7. \A x \in D : DOMAIN lines[x] = axis /\ \A l \in axis : lines[x][l] = v(x, l)
    BY ONLY <2>4, <2>6
  <2>8. DOMAIN lines = D
    BY ONLY <2>5
  <2> QED
    BY ONLY <2>7, <2>8 DEF v
<1>5. ASSUME NEW x \in D
      PROVE Ints(lines[x], axis) /\ totals[x] = SumFunctionOnSet(lines[x], axis)
  <2> DEFINE P == piece(x)
             e == lines[x]
  <2>1. P \in SUBSET used
    BY <1>1 DEF Those
  <2>2. \A l \in axis : Those(P, at, l) \in SUBSET used
    BY <1>1 DEF Those
  <2>3. \A r \in P : at[r] \in axis
    BY DEF Those
  <2> HIDE DEF at, P, lines
  <2>4. \A l \in axis : e[l] = SumFunctionOnSet(worth, Those(P, at, l))
    BY <1>0, <1>4, <2>2 DEF P
  <2>5. IsFiniteSet(P) /\ Ints(worth, P)
    BY <1>0, <2>1
  <2> HIDE DEF e, D, piece
  <2>6. SumFunctionOnSet(e, axis) = SumFunctionOnSet(worth, P)
    BY ONLY <2>3, <2>4, <2>5, IsFiniteSet(axis), SumParts
  <2>7. Ints(e, axis)
    <3> SUFFICES ASSUME NEW l \in axis PROVE e[l] \in Int
      BY DEF Ints
    <3> DEFINE R == Those(P, at, l)
    <3>1. R \in SUBSET used
      BY <2>2
    <3> HIDE DEF R
    <3>2. IsFiniteSet(R) /\ Ints(worth, R)
      BY <1>0, <3>1
    <3>3. SumFunctionOnSet(worth, R) \in Int
      BY <3>2, SumTake
    <3> QED
      BY <2>4, <3>3 DEF R
  <2> QED
    BY <2>6, <2>7 DEF e, P
<1>6. Held(lines, axis, totals)
  <2> HIDE DEF lines, totals, D, piece
  <2> QED
    BY <1>4, <1>5 DEF Held
<1>7. <<"Other">> \notin D
  BY <1>1 DEF Named
<1>8. Chart!Grand(Chart!Chart(lines)) = SumFunctionOnSet(totals, D)
  <2> HIDE DEF lines, totals, D
  <2> QED
    BY <1>3, <1>4, <1>6, <1>7, ChartKeeps
<1>9. SumFunctionOnSet(totals, D) = SumFunctionOnSet(worth, priced)
  <2>1. \A r \in priced : name[r] \in D
    OBVIOUS
  <2>2. \A x \in D : totals[x] = SumFunctionOnSet(worth, Those(priced, name, x))
    OBVIOUS
  <2> HIDE DEF priced, totals, D
  <2>3. Ints(worth, priced)
    BY <1>0, <1>1
  <2> QED
    BY ONLY <1>2, <1>3, <2>1, <2>2, <2>3, SumParts
<1>10. SumFunctionOnSet(worth, within) = SumFunctionOnSet(worth, priced)
  <2>1. \A r \in within \ priced : worth[r] = 0
    BY DEF Nats, Shown
  <2> HIDE DEF within, priced
  <2> QED
    BY <1>0, <1>1, <1>2, <2>1, SumDrop
<1> HIDE DEF within, lines
<1> QED
  BY <1>8, <1>9, <1>10 DEF within, lines

LEMMA CalendarIs ==
  ASSUME ChartInv, NEW w \in Chart!Windows, NEW a \in Anchors
  PROVE  /\ a \in Nat /\ a <= LastUse /\ Chart!Month(a) \in Nat /\ Chart!First(w, a) \in Int
         /\ \A r \in used : /\ r.day \in Nat /\ r.day <= LastUse /\ Chart!Month(r.day) \in Nat
                            /\ r.model \in DOMAIN Models /\ r.key \in Labels
<1>1. MonthLen \in Nat /\ MonthLen > 0 /\ Short \in Nat /\ Months \in Nat /\ LastUse \in Nat
  BY ChartsAssumption
<1>2. a \in 0..LastUse /\ \A r \in used : r.day \in 0..LastUse /\ r.model \in DOMAIN Models /\ r.key \in Labels
  BY ChartsAssumption DEF ChartInv, Rows, Chart!Day
<1>3. \A d \in 0..LastUse : Chart!Month(d) \in Nat
  BY <1>1, DivIs DEF Chart!Month
<1>4. Chart!Month(a) * MonthLen \in Int /\ Months * MonthLen \in Int
  BY <1>1, <1>2, <1>3
<1>5. Chart!First(w, a) \in Int
  BY <1>1, <1>2, <1>4 DEF Chart!First, Chart!Windows
<1> QED
  BY <1>1, <1>2, <1>3, <1>5

\* The months of the axis that ends in a's begin within Months months of a.
LEMMA MonthsBack ==
  ASSUME ChartInv, NEW a \in Anchors, NEW r \in used, Chart!Month(r.day) \in Chart!MonthAxis(a)
  PROVE  Months * MonthLen \in Nat /\ r.day >= a - Months * MonthLen
<1> DEFINE m == Chart!Month(r.day)
           n == Chart!Month(a)
<1>1. MonthLen \in Nat \ {0} /\ Months \in Nat /\ r.day \in Nat /\ a \in Nat /\ "12mo" \in Chart!Windows
  BY CalendarIs, ChartsAssumption DEF Chart!Windows
<1>2. m \in Nat /\ n \in Nat
  BY <1>1, CalendarIs
<1>3. MonthLen * m <= r.day
  BY <1>1, DivIs DEF Chart!Month
<1>4. a < MonthLen * (n + 1)
  BY <1>1 DEF Chart!Month
<1>5. m >= n - Months + 1
  BY <1>1, <1>2 DEF Chart!MonthAxis
<1> HIDE DEF m, n
<1>6. MonthLen * (n + 1) <= MonthLen * (m + Months)
  BY <1>1, <1>2, <1>5
<1>7. MonthLen * (m + Months) = MonthLen * m + Months * MonthLen
  BY <1>1, <1>2
<1>8. MonthLen * m \in Int /\ MonthLen * (n + 1) \in Int /\ MonthLen * (m + Months) \in Int
      /\ Months * MonthLen \in Nat
  BY <1>1, <1>2
<1> QED
  BY <1>1, <1>3, <1>4, <1>6, <1>7, <1>8

\* A window that the year of activity covers is all in it.
LEMMA ActivityCovers ==
  ASSUME ChartInv, NEW w \in Chart!Windows, NEW a \in Anchors, Chart!Covered(w, a)
  PROVE  /\ Chart!Span(w, a) \in SUBSET Chart!Activity
         /\ Chart!Activity \in SUBSET used
<1> SUFFICES ASSUME NEW r \in Chart!Span(w, a) PROVE r \in Chart!Activity
  BY DEF Chart!Activity
<1>1. r \in used /\ r.day \in Nat /\ LastUse \in Nat /\ Chart!First(w, a) \in Int /\ a \in Nat
      /\ Months * MonthLen \in Int
  BY CalendarIs, ChartsAssumption DEF Chart!Span, Chart!Within
<1>2. CASE w = "12mo"
  <2>1. r.day >= LastUse - Months * MonthLen
    BY <1>1, <1>2, MonthsBack DEF Chart!Span, Chart!Covered
  <2> QED
    BY <1>1, <2>1 DEF Chart!Activity, Chart!Year
<1>3. CASE w # "12mo"
  <2>1. r.day >= Chart!First(w, a) /\ Chart!First(w, a) >= LastUse - Months * MonthLen
    BY <1>1, <1>3 DEF Chart!Span, Chart!Within, Chart!Covered, Chart!Year
  <2> QED
    BY <1>1, <2>1 DEF Chart!Activity, Chart!Year
<1> QED
  BY <1>2, <1>3

LEMMA ModelMoney ==
  ASSUME ChartInv, NEW w \in Chart!Windows, NEW a \in Anchors, Chart!Covered(w, a)
  PROVE  Chart!Grand(Chart!ModelChart(w, a)) = SumFunctionOnSet(Cash, Chart!Span(w, a))
<1> DEFINE year == Chart!Activity
           paid == {r \in year : r.model \in reported \/ Chart!Cost(r) > 0}
           dates == {r.day : r \in paid}
           axis == IF w = "12mo" THEN Chart!MonthAxis(a) ELSE {d \in dates : d \in Chart!First(w, a) .. a}
           name == [r \in year |-> <<r.model>>]
           span == Chart!Span(w, a)
           shown == Shown(year, w, axis)
<1>0. year \in SUBSET used /\ span \in SUBSET year /\ span \in SUBSET used
  BY ActivityCovers
<1>1. Chart!ModelChart(w, a) = Chart!Chart(Chart!Lines(year, name, Cash, w, axis))
  BY DEF Chart!ModelChart, Chart!Values, Cash
<1> HIDE DEF year
<1>2. IsFiniteSet(axis)
  <2>1. IsFiniteSet(paid)
    <3>1. paid \in SUBSET used
      BY <1>0
    <3> HIDE DEF paid
    <3> QED
      BY <3>1, CashIs
  <2>2. IsFiniteSet(dates)
    <3> DEFINE day == [r \in paid |-> r.day]
    <3>1. dates = {day[r] : r \in paid}
      OBVIOUS
    <3> HIDE DEF paid, day, dates
    <3>2. IsFiniteSet({day[r] : r \in paid})
      BY <2>1, ImageFinite
    <3> QED
      BY <3>1, <3>2
  <2>3. IsFiniteSet({d \in dates : d \in Chart!First(w, a) .. a})
    <3> HIDE DEF dates
    <3> QED
      BY <2>2, FS_Subset
  <2>4. IsFiniteSet(Chart!MonthAxis(a))
    <3>1. Chart!Month(a) - Months + 1 \in Int /\ Chart!Month(a) \in Int
      BY CalendarIs, ChartsAssumption
    <3> QED
      BY <3>1, FS_Interval DEF Chart!MonthAxis
  <2> HIDE DEF dates
  <2> QED
    BY <2>3, <2>4
<1>3. Named(name, year)
  BY <1>0, CalendarIs, ChartsAssumption DEF Named
<1>4. Nats(Cash, used)
  BY CashIs
<1>5. Chart!Grand(Chart!ModelChart(w, a)) = SumFunctionOnSet(Cash, shown)
  <2> DEFINE worth == Cash
  <2>1. Nats(worth, used) /\ Chart!ModelChart(w, a) = Chart!Chart(Chart!Lines(year, name, worth, w, axis))
    BY <1>1, <1>4
  <2>2. year \in SUBSET used
    BY <1>0
  <2> HIDE DEF axis, name, worth
  <2>3. Chart!Grand(Chart!Chart(Chart!Lines(year, name, worth, w, axis))) = SumFunctionOnSet(worth, Shown(year, w, axis))
    BY ONLY ChartInv, <1>2, <1>3, <2>1, <2>2, LinesMoney
  <2> QED
    BY ONLY <2>1, <2>3, Zenon DEF worth
<1>6. CASE w = "12mo"
  <2>1. shown = span
    BY <1>0, <1>6 DEF Chart!Span, Chart!Bucket, Shown
  <2> HIDE DEF shown, span
  <2> QED
    BY <1>5, <2>1 DEF span
<1>7. CASE w # "12mo"
  <2>1. shown \in SUBSET span
    BY <1>0, <1>7 DEF Chart!Span, Chart!Bucket, Chart!Within, Shown
  <2>2. \A r \in span \ shown : Cash[r] = 0
    <3> SUFFICES ASSUME NEW r \in span, r.day \notin axis PROVE Cash[r] = 0
      BY <1>0, <1>7 DEF Chart!Bucket, Shown
    <3>1. r \in year /\ r \in used /\ r.day \in Chart!First(w, a) .. a
      BY <1>0, <1>7 DEF Chart!Span, Chart!Within
    <3>2. r \notin paid
      BY <1>7, <3>1
    <3>3. r.model \notin reported /\ ~(Chart!Cost(r) > 0)
      BY <3>1, <3>2
    <3>4. Cash[r] = Chart!Cost(r) /\ Cash[r] \in Nat
      BY <3>1, <3>3, CashIs DEF Nats, Cash, Chart!Value
    <3> QED
      BY <3>3, <3>4
  <2> HIDE DEF shown, span
  <2>3. SumFunctionOnSet(Cash, span) = SumFunctionOnSet(Cash, shown)
    BY <1>0, <2>1, <2>2, CashIs, SumDrop
  <2> QED
    BY <1>5, <2>3 DEF span
<1> QED
  BY <1>6, <1>7

LEMMA SpanIs ==
  ASSUME ChartInv, NEW w \in Chart!Windows, NEW a \in Anchors
  PROVE  Chart!Span(w, a) \in SUBSET used /\ Chart!Within(w, a) \in SUBSET used
BY DEF Chart!Span, Chart!Within

LEMMA NothingOff ==
  ASSUME ChartInv
  PROVE  Chart!NothingOffTheChart
<1> SUFFICES ASSUME NEW w \in Chart!Windows, NEW a \in Anchors, w # "12mo", Chart!Covered(w, a)
             PROVE  Chart!Grand(Chart!ModelChart(w, a)) = Chart!Amount(Chart!Values, Chart!Within(w, a))
  BY DEF Chart!NothingOffTheChart, Chart!Views
<1>1. Chart!Span(w, a) = Chart!Within(w, a) /\ Chart!Within(w, a) \in SUBSET used
  BY SpanIs DEF Chart!Span
<1>2. Chart!Amount(Chart!Values, Chart!Within(w, a)) = SumFunctionOnSet(Cash, Chart!Within(w, a))
  BY <1>1, CashIs
<1> QED
  BY <1>1, <1>2, ModelMoney

LEMMA UserMoney ==
  ASSUME ChartInv, NEW w \in Chart!Windows, NEW a \in Anchors, w # "12mo" \/ a = LastUse
  PROVE  Chart!Grand(Chart!UserChart(w, a)) = SumFunctionOnSet(Costs, Chart!Stacked(Chart!Span(w, a)))
<1> DEFINE rows == Chart!Fetched(w, a)
           recent == {r \in rows : r.day >= Chart!First(w, a)}
           axis == IF w = "12mo" THEN Chart!MonthAxis(a) ELSE {r.day : r \in recent}
           taken == Chart!Stacked(rows)
           name == [r \in rows |-> <<r.model, Chart!OwnerOf(r.key)>>]
           whole == Chart!Stacked(Chart!Span(w, a))
<1>1. Chart!UserChart(w, a) = Chart!Chart(Chart!Lines(taken, name, Costs, w, axis))
  BY WorthIs DEF Chart!UserChart
<1>2. rows \in SUBSET used
  BY DEF Chart!Fetched
<1>3. IsFiniteSet(axis)
  <2>1. IsFiniteSet(recent)
    <3>1. recent \in SUBSET used
      BY <1>2
    <3> HIDE DEF recent
    <3> QED
      BY <3>1, WorthIs
  <2>2. IsFiniteSet({r.day : r \in recent})
    <3> DEFINE day == [r \in recent |-> r.day]
               days == {r.day : r \in recent}
    <3>1. days = {day[r] : r \in recent}
      OBVIOUS
    <3> HIDE DEF recent, day, days
    <3>2. IsFiniteSet({day[r] : r \in recent})
      BY <2>1, ImageFinite
    <3>3. IsFiniteSet(days)
      BY <3>1, <3>2
    <3> QED
      BY <3>3 DEF days
  <2>3. IsFiniteSet(Chart!MonthAxis(a))
    <3>1. Chart!Month(a) - Months + 1 \in Int /\ Chart!Month(a) \in Int
      BY CalendarIs, ChartsAssumption
    <3> QED
      BY <3>1, FS_Interval DEF Chart!MonthAxis
  <2> HIDE DEF recent
  <2> QED
    BY <2>2, <2>3
<1>4. taken \in SUBSET used /\ Named(name, taken) /\ Nats(Costs, used)
  BY <1>2, WorthIs DEF Chart!Stacked, Named
<1>5. Chart!Grand(Chart!UserChart(w, a)) = SumFunctionOnSet(Costs, Shown(taken, w, axis))
  <2> DEFINE worth == Costs
  <2>1. Nats(worth, used) /\ Chart!UserChart(w, a) = Chart!Chart(Chart!Lines(taken, name, worth, w, axis))
    BY <1>1, <1>4
  <2> HIDE DEF axis, name, taken, worth
  <2>2. Chart!Grand(Chart!Chart(Chart!Lines(taken, name, worth, w, axis))) = SumFunctionOnSet(worth, Shown(taken, w, axis))
    BY ONLY ChartInv, <1>3, <1>4, <2>1, LinesMoney
  <2> QED
    BY ONLY <2>1, <2>2, Zenon DEF worth
<1>6. Shown(taken, w, axis) = whole
  <2>1. \A r \in used : r.day \in Int
    BY CalendarIs
  <2>2. a \in Int /\ Chart!First(w, a) \in Int
    BY CalendarIs
  <2>3. Shown(taken, w, axis) = {r \in taken : Chart!Bucket(w, r.day) \in axis}
    BY DEF Shown
  <2>4. CASE w = "12mo"
    <3>1. a = LastUse
      BY <2>4
    <3>2. rows = {r \in used : r.day \in a - (Months * MonthLen + 1) .. a}
      BY <2>4 DEF Chart!Fetched
    <3>3. ASSUME NEW r \in used, Chart!Month(r.day) \in Chart!MonthAxis(a) PROVE r \in rows
      <4>1. Months * MonthLen \in Nat /\ r.day >= a - Months * MonthLen
        BY <3>3, MonthsBack
      <4>2. r.day \in Int /\ r.day <= a /\ a \in Int
        BY <2>1, <2>2, <3>1, CalendarIs
      <4> QED
        BY <3>2, <4>1, <4>2
    <3>4. Chart!Span(w, a) = {r \in used : Chart!Month(r.day) \in Chart!MonthAxis(a)}
      BY <2>4 DEF Chart!Span
    <3> QED
      BY <1>2, <2>3, <2>4, <3>3, <3>4 DEF Chart!Bucket, Chart!Stacked
  <2>5. CASE w # "12mo"
    <3>1. \A r \in taken : r.day \in axis <=> r.day >= Chart!First(w, a)
      BY <2>5 DEF Chart!Stacked
    <3>2. Shown(taken, w, axis) = {r \in taken : r.day >= Chart!First(w, a)}
      BY <2>3, <2>5, <3>1 DEF Chart!Bucket
    <3>3. \A r \in used : r \in rows /\ r.day >= Chart!First(w, a) <=> r \in Chart!Within(w, a)
      <4>1. \A r \in used : r \in Chart!Within(w, a) <=> r.day >= Chart!First(w, a) /\ r.day <= a
        BY <2>1, <2>2 DEF Chart!Within
      <4>2. CASE w = "30d"
        <5>1. rows = {r \in used : r.day \in a - Short .. a} /\ Chart!First(w, a) = a - Short
          BY <4>2 DEF Chart!Fetched, Chart!First
        <5> QED
          BY <2>1, <2>2, <4>1, <5>1, ChartsAssumption
      <4>3. CASE w = "month"
        <5>1. rows = {r \in used : r.day \in a - (a - Chart!First(w, a) + 1) .. a}
          BY <4>3 DEF Chart!Fetched
        <5> QED
          BY <2>1, <2>2, <4>1, <5>1
      <4> QED
        BY <2>5, <4>2, <4>3 DEF Chart!Windows
    <3>4. Chart!Span(w, a) = Chart!Within(w, a)
      BY <2>5 DEF Chart!Span
    <3>5. Chart!Within(w, a) \in SUBSET used
      BY SpanIs
    <3> QED
      BY <1>2, <3>2, <3>3, <3>4, <3>5 DEF Chart!Stacked
  <2> QED
    BY <2>4, <2>5
<1> HIDE DEF taken, axis, whole
<1>7. SumFunctionOnSet(Costs, Shown(taken, w, axis)) = SumFunctionOnSet(Costs, whole)
  BY ONLY <1>6, Zenon
<1> QED
  BY <1>5, <1>7 DEF whole

\* TwoChartsAgree, for one window.
Agreed(w, a) ==
    LET span == Chart!Span(w, a) IN
    Chart!Grand(Chart!ModelChart(w, a)) - Chart!Grand(Chart!UserChart(w, a))
        = Chart!Amount(Chart!Values, span \ Chart!Stacked(span))
          + (Chart!Amount(Chart!Values, Chart!Stacked(span)) - Chart!Worth(Chart!Stacked(span)))

LEMMA TwoCharts ==
  ASSUME ChartInv
  PROVE  Chart!TwoChartsAgree
<1>1. ASSUME NEW w \in Chart!Windows, NEW a \in Anchors, Chart!Covered(w, a) PROVE Agreed(w, a)
  <2> DEFINE span == Chart!Span(w, a)
             in == Chart!Stacked(span)
             out == span \ in
             m == Chart!Grand(Chart!ModelChart(w, a))
             u == Chart!Grand(Chart!UserChart(w, a))
             vi == Chart!Amount(Chart!Values, in)
             vo == Chart!Amount(Chart!Values, out)
             c == Chart!Worth(in)
  <2>1. span \in SUBSET used /\ in \in SUBSET span /\ in \in SUBSET used /\ out \in SUBSET used
    BY SpanIs DEF Chart!Stacked
  <2>2. m = SumFunctionOnSet(Cash, span)
    BY <1>1, ModelMoney
  <2>3. u = SumFunctionOnSet(Costs, in)
    <3>1. w # "12mo" \/ a = LastUse
      BY <1>1 DEF Chart!Covered
    <3> QED
      BY <3>1, UserMoney
  <2> HIDE DEF span, in
  <2>4. vi = SumFunctionOnSet(Cash, in) /\ vo = SumFunctionOnSet(Cash, out) /\ c = SumFunctionOnSet(Costs, in)
    BY <2>1, CashIs, WorthIs
  <2>5. SumFunctionOnSet(Cash, span) = SumFunctionOnSet(Cash, in) + SumFunctionOnSet(Cash, out)
    BY <2>1, CashIs, SumRest
  <2>6. SumFunctionOnSet(Cash, in) \in Nat /\ SumFunctionOnSet(Cash, out) \in Nat /\ SumFunctionOnSet(Costs, in) \in Nat
    <3>1. Nats(Cash, used) /\ Nats(Costs, used) /\ IsFiniteSet(used)
      BY CashIs, WorthIs DEF ChartInv
    <3> QED
      BY <2>1, <3>1, SumNat
  <2> HIDE DEF m, u, vi, vo, c, out
  <2>7. m - u = vo + (vi - c)
    BY <2>2, <2>3, <2>4, <2>5, <2>6
  <2> QED
    BY ONLY <2>7, Zenon DEF Agreed, m, u, vi, vo, c, in, out, span
<1>2. \A v \in Chart!Views : v[1] \in Chart!Windows /\ v[2] \in Anchors
  BY DEF Chart!Views
<1>3. \A v \in Chart!Views : Chart!Covered(v[1], v[2]) => Agreed(v[1], v[2])
  BY <1>1, <1>2
<1> QED
  BY ONLY <1>3, Zenon DEF Chart!TwoChartsAgree, Agreed

\* The card of periods: where its rows are, and what its points hold.
At(w)            == [r \in used |-> Chart!Bucket(w, r.day)]
Periods(w, a)    == {At(w)[r] : r \in Chart!Within(w, a)}
Kind(rows, real) == {r \in rows : r.model \in External <=> real}
Ones             == [r \in used |-> 1]
Tokens(w, a)     == [p \in DOMAIN Chart!Points(w, a) |-> Chart!Points(w, a)[p].tokens]
Reals(w, a)      == [p \in DOMAIN Chart!Points(w, a) |-> Chart!Points(w, a)[p].real]
Ests(w, a)       == [p \in DOMAIN Chart!Points(w, a) |-> Chart!Points(w, a)[p].est]

LEMMA PeriodsAre ==
  ASSUME ChartInv, NEW w \in Chart!Windows, NEW a \in Anchors
  PROVE  /\ IsFiniteSet(Periods(w, a)) /\ \A r \in Chart!Within(w, a) : At(w)[r] \in Periods(w, a)
         /\ Chart!Within(w, a) \in SUBSET used /\ IsFiniteSet(Chart!Within(w, a))
         /\ DOMAIN Chart!Points(w, a) = Periods(w, a)
         /\ \A p \in Periods(w, a) :
                /\ Chart!Points(w, a)[p].tokens = Chart!Point(w, a, p).tokens
                /\ Chart!Points(w, a)[p].real = Chart!Real(w, a, p)
                /\ Chart!Points(w, a)[p].est = Chart!Estimated(w, p, FALSE)
                /\ Chart!Points(w, a)[p].ext = Chart!Split(w, p, TRUE)
                /\ Chart!Points(w, a)[p].int = Chart!Split(w, p, FALSE)
<1>1. Chart!Within(w, a) \in SUBSET used
  BY SpanIs
<1>2. IsFiniteSet(Chart!Within(w, a))
  BY <1>1, WorthIs
<1>3. IsFiniteSet({At(w)[r] : r \in Chart!Within(w, a)})
  BY <1>2, ImageFinite
<1>4. {Chart!Bucket(w, r.day) : r \in Chart!Within(w, a)} = Periods(w, a)
  BY <1>1 DEF Periods, At
<1>5. Chart!Points(w, a) =
          [p \in Periods(w, a) |->
              [tokens |-> Chart!Point(w, a, p).tokens, real |-> Chart!Real(w, a, p),
               est |-> Chart!Estimated(w, p, FALSE),
               ext |-> Chart!Split(w, p, TRUE), int |-> Chart!Split(w, p, FALSE)]]
  BY ONLY <1>4, Zenon DEF Chart!Points
<1>6. \A r \in Chart!Within(w, a) : At(w)[r] \in Periods(w, a)
  BY DEF Periods
<1>7. IsFiniteSet(Periods(w, a))
  BY ONLY <1>3 DEF Periods
<1>8. DOMAIN Chart!Points(w, a) = Periods(w, a)
  BY ONLY <1>5
<1>9. ASSUME NEW p \in Periods(w, a)
      PROVE  /\ Chart!Points(w, a)[p].tokens = Chart!Point(w, a, p).tokens
             /\ Chart!Points(w, a)[p].real = Chart!Real(w, a, p)
             /\ Chart!Points(w, a)[p].est = Chart!Estimated(w, p, FALSE)
             /\ Chart!Points(w, a)[p].ext = Chart!Split(w, p, TRUE)
             /\ Chart!Points(w, a)[p].int = Chart!Split(w, p, FALSE)
  <2> DEFINE t == Chart!Point(w, a, p).tokens
             u == Chart!Real(w, a, p)
             v == Chart!Estimated(w, p, FALSE)
             x == Chart!Split(w, p, TRUE)
             y == Chart!Split(w, p, FALSE)
             pt == Chart!Points(w, a)[p]
  <2>1. pt = [tokens |-> t, real |-> u, est |-> v, ext |-> x, int |-> y]
    BY ONLY <1>5, Zenon
  <2> HIDE DEF t, u, v, x, y, pt
  <2>2. pt.tokens = t /\ pt.real = u /\ pt.est = v /\ pt.ext = x /\ pt.int = y
    BY ONLY <2>1
  <2> QED
    BY ONLY <2>2, Zenon DEF t, u, v, x, y, pt
<1> QED
  BY <1>1, <1>2, <1>6, <1>7, <1>8, <1>9

LEMMA PointIs ==
  ASSUME ChartInv, NEW w \in Chart!Windows, NEW a \in Anchors, NEW p
  PROVE  LET here == Those(Chart!Within(w, a), At(w), p) IN
         /\ here \in SUBSET used
         /\ Chart!Point(w, a, p).tokens = Cardinality(here)
         /\ Chart!Point(w, a, p).spend = SumFunctionOnSet(Bills, here)
<1> DEFINE here == Those(Chart!Within(w, a), At(w), p)
           rows == {r \in Chart!Within(w, a) : Chart!Bucket(w, r.day) = p}
<1>1. rows = here /\ here \in SUBSET used
  BY SpanIs DEF At, Those
<1>2. Chart!Point(w, a, p) = [tokens |-> Chart!Cardinality(rows), spend |-> Chart!Billed(rows)]
  BY DEF Chart!Point
<1> HIDE DEF here, rows
<1>3. Chart!Point(w, a, p).tokens = Chart!Cardinality(rows) /\ Chart!Point(w, a, p).spend = Chart!Billed(rows)
  BY <1>2
<1>4. Chart!Cardinality(rows) = Cardinality(here)
  BY <1>1, ChartCount
<1>5. Chart!Billed(rows) = SumFunctionOnSet(Bills, here)
  BY <1>1, WorthIs
<1>6. /\ here \in SUBSET used
      /\ Chart!Point(w, a, p).tokens = Cardinality(here)
      /\ Chart!Point(w, a, p).spend = SumFunctionOnSet(Bills, here)
  BY <1>1, <1>3, <1>4, <1>5
<1> QED
  BY <1>6 DEF here

LEMMA CountIs ==
  ASSUME ChartInv, NEW S \in SUBSET used
  PROVE  SumFunctionOnSet(Ones, S) = Cardinality(S) /\ Cardinality(S) \in Nat
<1>1. IsFiniteSet(S)
  BY WorthIs
<1>2. \A x \in S : Ones[x] = 1
  BY DEF Ones
<1> QED
  BY <1>1, <1>2, SumCounts, FS_CardinalityType

LEMMA TokensAddUp ==
  ASSUME ChartInv, NEW w \in Chart!Windows, NEW a \in Anchors
  PROVE  Chart!SumFunction(Tokens(w, a)) = Chart!Cardinality(Chart!Within(w, a))
<1> DEFINE W == Chart!Within(w, a)
           K == Periods(w, a)
           e == Tokens(w, a)
           key == At(w)
<1>1. W \in SUBSET used /\ IsFiniteSet(W) /\ IsFiniteSet(K) /\ \A r \in W : key[r] \in K
  BY PeriodsAre
<1>2. DOMAIN e = K /\ \A p \in K : e[p] = Chart!Point(w, a, p).tokens
  <2> DEFINE pts == Chart!Points(w, a)
  <2>1. DOMAIN pts = K
    BY PeriodsAre

  <2>3. e = [p \in DOMAIN pts |-> pts[p].tokens]
    BY DEF Tokens
  <2> HIDE DEF pts, K, e
  <2>4. \A p \in K : pts[p].tokens = Chart!Point(w, a, p).tokens
    BY PeriodsAre DEF pts, K
  <2> QED
    BY <2>1, <2>3, <2>4
<1>3. \A p \in K : e[p] = SumFunctionOnSet(Ones, Those(W, key, p))
  <2> TAKE p \in K
  <2>1. Those(W, key, p) \in SUBSET used /\ Chart!Point(w, a, p).tokens = Cardinality(Those(W, key, p))
    BY PointIs
  <2> HIDE DEF W, key, e
  <2> QED
    BY <1>2, <2>1, CountIs
<1>4. Ints(Ones, W)
  BY <1>1 DEF Ints, Ones
<1>5. Chart!SumFunction(e) = SumFunctionOnSet(e, K)
  BY <1>2, ChartSum
<1>6. Chart!Cardinality(W) = Cardinality(W)
  BY ChartCount
<1> HIDE DEF W, K, e, key
<1>7. SumFunctionOnSet(e, K) = SumFunctionOnSet(Ones, W)
  BY ONLY <1>1, <1>3, <1>4, SumParts
<1>8. SumFunctionOnSet(Ones, W) = Cardinality(W)
  BY <1>1, CountIs
<1>9. Chart!SumFunction(e) = Chart!Cardinality(W)
  BY <1>5, <1>6, <1>7, <1>8
<1> QED
  BY <1>9 DEF e, W

\* A point of a day is that day.
LEMMA DayIs ==
  ASSUME ChartInv, NEW w \in Chart!Windows, w # "12mo", NEW p \in Chart!Day, NEW real \in BOOLEAN
  PROVE  LET there == Kind({r \in used : r.day = p}, real) IN
         /\ Chart!Split(w, p, real) = Cardinality(there)
         /\ Chart!Estimated(w, p, real) = SumFunctionOnSet(Costs, there)
<1> DEFINE there == Kind({r \in used : r.day = p}, real)
           days == {d \in Chart!Day : Chart!Bucket(w, d) = p}
           n == [d \in days |-> Chart!DayTokens(d, real)]
           c == [d \in days |-> Chart!DayCost(d, real)]
<1>1. days = {p}
  BY DEF Chart!Bucket
<1>2. there \in SUBSET used /\ there = {r \in used : r.day = p /\ (r.model \in External <=> real)}
  BY DEF Kind
<1>3. Chart!DayTokens(p, real) = Cardinality(there) /\ Cardinality(there) \in Int
  <2>1. Chart!DayTokens(p, real) = Chart!Cardinality(there)
    BY ONLY <1>2, Zenon DEF Chart!DayTokens
  <2> HIDE DEF there
  <2>2. Cardinality(there) \in Nat
    BY <1>2, CountIs
  <2> QED
    BY <2>1, <2>2, ChartCount
<1>4. Chart!DayCost(p, real) = SumFunctionOnSet(Costs, there) /\ SumFunctionOnSet(Costs, there) \in Int
  <2>1. Chart!DayCost(p, real) = Chart!Worth(there)
    BY ONLY <1>2, Zenon DEF Chart!DayCost
  <2> HIDE DEF there
  <2>2. SumFunctionOnSet(Costs, there) \in Int
    BY <1>2, WorthIs, SumTake
  <2> QED
    BY <1>2, <2>1, <2>2, WorthIs
<1>5. Chart!Split(w, p, real) = Chart!SumFunction(n) /\ Chart!Estimated(w, p, real) = Chart!SumFunction(c)
  BY DEF Chart!Split, Chart!Estimated
<1>6. DOMAIN n = {p} /\ DOMAIN c = {p} /\ n[p] = Chart!DayTokens(p, real) /\ c[p] = Chart!DayCost(p, real)
  <2> HIDE DEF days
  <2> QED
    BY <1>1
<1> HIDE DEF n, c, there
<1>7. Chart!SumFunction(n) = SumFunctionOnSet(n, {p}) /\ Chart!SumFunction(c) = SumFunctionOnSet(c, {p})
  BY <1>6, ChartSum
<1>8. SumFunctionOnSet(n, {p}) = n[p]
  BY <1>3, <1>6, SumOne
<1>9. SumFunctionOnSet(c, {p}) = c[p]
  BY <1>4, <1>6, SumOne
<1>10. Chart!Split(w, p, real) = Cardinality(there) /\ Chart!Estimated(w, p, real) = SumFunctionOnSet(Costs, there)
  BY <1>3, <1>4, <1>5, <1>6, <1>7, <1>8, <1>9
<1> QED
  BY <1>10 DEF there

LEMMA DayPoint ==
  ASSUME ChartInv, NEW w \in Chart!Windows, w # "12mo", NEW a \in Anchors, NEW p \in Periods(w, a)
  PROVE  /\ p \in Chart!Day
         /\ \A real \in BOOLEAN : Kind({r \in used : r.day = p}, real)
                                      = Those(Kind(Chart!Within(w, a), real), At(w), p)
<1>1. \A r \in used : At(w)[r] = r.day /\ r.day \in Chart!Day
  BY DEF At, Chart!Bucket, ChartInv, Rows
<1>2. PICK s \in Chart!Within(w, a) : p = At(w)[s]
  BY DEF Periods
<1>3. s \in used /\ s.day = p /\ p \in Chart!First(w, a) .. a
  BY <1>1, <1>2 DEF Chart!Within
<1>4. \A r \in used : r.day = p => r \in Chart!Within(w, a)
  BY <1>3 DEF Chart!Within
<1>5. Chart!Within(w, a) \in SUBSET used
  BY SpanIs
<1> QED
  BY <1>1, <1>3, <1>4, <1>5 DEF Kind, Those

LEMMA KindsAddUp ==
  ASSUME ChartInv, NEW w \in Chart!Windows, w # "12mo", NEW a \in Anchors, NEW p \in Periods(w, a)
  PROVE  Chart!Points(w, a)[p].tokens = Chart!Points(w, a)[p].ext + Chart!Points(w, a)[p].int
<1> DEFINE W == Chart!Within(w, a)
           all == Those(W, At(w), p)
           ext == Kind({r \in used : r.day = p}, TRUE)
           int == Kind({r \in used : r.day = p}, FALSE)
           t == Chart!Points(w, a)[p].tokens
           x == Chart!Points(w, a)[p].ext
           y == Chart!Points(w, a)[p].int
<1>1. x = Cardinality(ext) /\ y = Cardinality(int)
  <2>1. x = Chart!Split(w, p, TRUE) /\ y = Chart!Split(w, p, FALSE)
    BY PeriodsAre
  <2>2. p \in Chart!Day /\ TRUE \in BOOLEAN /\ FALSE \in BOOLEAN
    BY DayPoint
  <2>3. Chart!Split(w, p, TRUE) = Cardinality(ext) /\ Chart!Split(w, p, FALSE) = Cardinality(int)
    BY <2>2, DayIs
  <2> QED
    BY ONLY <2>1, <2>3, Zenon
<1>2. t = Cardinality(all)
  BY PeriodsAre, PointIs
<1>3. ext = Those(Kind(W, TRUE), At(w), p) /\ int = Those(Kind(W, FALSE), At(w), p)
  BY DayPoint
<1>4. all \in SUBSET used /\ ext \in SUBSET all /\ all \ ext = int /\ int \in SUBSET used
  <2> HIDE DEF ext, int
  <2>1. W \in SUBSET used
    BY PeriodsAre
  <2> QED
    BY <1>3, <2>1 DEF Kind, Those
<1> HIDE DEF all, ext, int, t, x, y
<1>5. IsFiniteSet(all) /\ Ints(Ones, all)
  BY <1>4, WorthIs DEF Ints, Ones
<1>6. SumFunctionOnSet(Ones, all) = SumFunctionOnSet(Ones, ext) + SumFunctionOnSet(Ones, all \ ext)
  BY <1>4, <1>5, SumRest
<1>7. /\ SumFunctionOnSet(Ones, all) = Cardinality(all) /\ SumFunctionOnSet(Ones, ext) = Cardinality(ext)
      /\ SumFunctionOnSet(Ones, all \ ext) = Cardinality(int)
  BY <1>4, CountIs
<1>8. t = x + y
  BY <1>1, <1>2, <1>6, <1>7
<1> QED
  BY <1>8 DEF t, x, y

\* What the days of the window are estimated at.
LEMMA EstimatesAddUp ==
  ASSUME ChartInv, NEW w \in Chart!Windows, w # "12mo", NEW a \in Anchors, NEW real \in BOOLEAN,
         NEW e, \A p \in Periods(w, a) : e[p] = Chart!Estimated(w, p, real)
  PROVE  SumFunctionOnSet(e, Periods(w, a)) = Chart!CostOf(Chart!Within(w, a), real)
<1> DEFINE W == Kind(Chart!Within(w, a), real)
           K == Periods(w, a)
           key == At(w)
<1>1. W \in SUBSET used /\ IsFiniteSet(K) /\ \A r \in W : key[r] \in K
  BY PeriodsAre DEF Kind
<1>2. \A p \in K : e[p] = SumFunctionOnSet(Costs, Those(W, key, p))
  <2> TAKE p \in K
  <2>1. p \in Chart!Day /\ Kind({r \in used : r.day = p}, real) = Those(W, key, p)
    BY DayPoint
  <2>2. Chart!Estimated(w, p, real) = SumFunctionOnSet(Costs, Kind({r \in used : r.day = p}, real))
    BY <2>1, DayIs
  <2>3. e[p] = Chart!Estimated(w, p, real)
    OBVIOUS
  <2> QED
    BY ONLY <2>1, <2>2, <2>3, Zenon
<1>3. Chart!CostOf(Chart!Within(w, a), real) = Chart!Worth(W)
  BY DEF Chart!CostOf, Kind
<1> HIDE DEF W, K, key
<1>4. IsFiniteSet(W) /\ Ints(Costs, W) /\ Chart!Worth(W) = SumFunctionOnSet(Costs, W)
  BY <1>1, WorthIs
<1>5. SumFunctionOnSet(e, K) = SumFunctionOnSet(Costs, W)
  BY ONLY <1>1, <1>2, <1>4, SumParts
<1> QED
  BY <1>3, <1>4, <1>5 DEF K

LEMMA EstsAddUp ==
  ASSUME ChartInv, NEW w \in Chart!Windows, w # "12mo", NEW a \in Anchors
  PROVE  Chart!SumFunction(Ests(w, a)) = Chart!CostOf(Chart!Within(w, a), FALSE)
<1> DEFINE e == Ests(w, a)
           K == Periods(w, a)
<1>1. DOMAIN e = K /\ \A p \in K : e[p] = Chart!Estimated(w, p, FALSE)
  <2> DEFINE pts == Chart!Points(w, a)
  <2>1. DOMAIN pts = K /\ \A p \in K : pts[p].est = Chart!Estimated(w, p, FALSE)
    BY PeriodsAre
  <2>2. e = [p \in DOMAIN pts |-> pts[p].est]
    BY DEF Ests
  <2> HIDE DEF pts, K, e
  <2> QED
    BY <2>1, <2>2
<1>2. Chart!SumFunction(e) = SumFunctionOnSet(e, K)
  BY <1>1, ChartSum
<1>3. FALSE \in BOOLEAN
  OBVIOUS
<1> HIDE DEF e
<1>4. SumFunctionOnSet(e, K) = Chart!CostOf(Chart!Within(w, a), FALSE)
  BY <1>1, <1>3, EstimatesAddUp
<1> QED
  BY <1>2, <1>4 DEF e

LEMMA RealsAddUp ==
  ASSUME ChartInv, NEW w \in Chart!Windows, w # "12mo", NEW a \in Anchors
  PROVE  Chart!SumFunction(Reals(w, a)) =
             LET billed == Chart!Billed(Chart!Within(w, a))
             IN  IF billed > 0 THEN billed ELSE Chart!CostOf(Chart!Within(w, a), TRUE)
<1> DEFINE W == Chart!Within(w, a)
           K == Periods(w, a)
           e == Reals(w, a)
           key == At(w)
           billed == Chart!Billed(W)
           some == \E r \in Chart!Within(w, a) : Models[r.model] > 0
           cost == Chart!CostOf(W, TRUE)
<1>1. W \in SUBSET used /\ IsFiniteSet(W) /\ IsFiniteSet(K) /\ \A r \in W : key[r] \in K
  BY PeriodsAre
<1>2. DOMAIN e = K /\ \A p \in K : e[p] = Chart!Real(w, a, p)
  <2> DEFINE pts == Chart!Points(w, a)
  <2>1. DOMAIN pts = K /\ \A p \in K : pts[p].real = Chart!Real(w, a, p)
    BY PeriodsAre
  <2>2. e = [p \in DOMAIN pts |-> pts[p].real]
    BY DEF Reals
  <2> HIDE DEF pts, K, e
  <2> QED
    BY <2>1, <2>2
<1>3. Chart!SumFunction(e) = SumFunctionOnSet(e, K)
  <2> HIDE DEF e
  <2> QED
    BY <1>2, ChartSum
<1>4. billed = SumFunctionOnSet(Bills, W) /\ Nats(Bills, W) /\ Ints(Bills, W)
  <2> HIDE DEF W
  <2> QED
    BY <1>1, WorthIs DEF Nats
<1>5. \A r \in W : Bills[r] = Models[r.model] /\ Bills[r] \in Nat
  BY <1>1, <1>4 DEF Bills, Nats
<1>6. CASE some
  <2>1. \A p \in K : e[p] = Chart!Point(w, a, p).spend
    BY <1>2, <1>6 DEF Chart!Real
  <2>2. \A p \in K : e[p] = SumFunctionOnSet(Bills, Those(W, key, p))
    <3> TAKE p \in K
    <3>1. Chart!Point(w, a, p).spend = SumFunctionOnSet(Bills, Those(W, key, p))
      BY PointIs
    <3> HIDE DEF e, W, key
    <3> QED
      BY <2>1, <3>1
  <2>3. \E r \in W : Bills[r] > 0
    BY <1>5, <1>6
  <2> HIDE DEF W, K, e, key, billed
  <2>4. SumFunctionOnSet(e, K) = SumFunctionOnSet(Bills, W)
    BY ONLY <1>1, <1>4, <2>2, SumParts
  <2>5. billed > 0
    <3>1. /\ SumFunctionOnSet(Bills, W) \in Nat
          /\ \A x \in W : Bills[x] <= SumFunctionOnSet(Bills, W)
      BY <1>1, <1>4, SumNat
    <3> QED
      BY <1>4, <1>5, <2>3, <3>1
  <2>6. Chart!SumFunction(e) = IF billed > 0 THEN billed ELSE cost
    BY <1>3, <1>4, <2>4, <2>5
  <2> QED
    BY <2>6 DEF e, billed, W
<1>7. CASE ~some
  <2>1. \A p \in K : e[p] = Chart!Estimated(w, p, TRUE)
    BY <1>2, <1>7 DEF Chart!Real
  <2>2. \A r \in W : Bills[r] = 0
    BY <1>5, <1>7
  <2>3. billed = 0
    <3> HIDE DEF W, billed
    <3> QED
      BY <1>1, <1>4, <2>2, SumZero
  <2>4. TRUE \in BOOLEAN
    OBVIOUS
  <2>5. SumFunctionOnSet(e, K) = cost
    <3> HIDE DEF e
    <3> QED
      BY <2>1, <2>4, EstimatesAddUp
  <2> HIDE DEF W, K, e, billed, cost
  <2>6. Chart!SumFunction(e) = IF billed > 0 THEN billed ELSE cost
    BY <1>3, <2>3, <2>5
  <2> QED
    BY <2>6 DEF e, billed, W, cost
<1> QED
  BY <1>6, <1>7

\* PointsAddUp, with a window for each of its views.
AddsUp(w, a) ==
    /\ Chart!SumFunction(Tokens(w, a)) = Chart!Cardinality(Chart!Within(w, a))
    /\ w # "12mo" =>
        /\ \A p \in DOMAIN Chart!Points(w, a) :
               Chart!Points(w, a)[p].tokens = Chart!Points(w, a)[p].ext + Chart!Points(w, a)[p].int
        /\ Chart!SumFunction(Reals(w, a)) =
               IF Chart!Billed(Chart!Within(w, a)) > 0 THEN Chart!Billed(Chart!Within(w, a))
               ELSE Chart!CostOf(Chart!Within(w, a), TRUE)
        /\ Chart!SumFunction(Ests(w, a)) = Chart!CostOf(Chart!Within(w, a), FALSE)

LEMMA CardHolds ==
  ASSUME ChartInv
  PROVE  Chart!PointsAddUp
<1>1. ASSUME NEW w \in Chart!Windows, NEW a \in Anchors PROVE AddsUp(w, a)
  <2>1. Chart!SumFunction(Tokens(w, a)) = Chart!Cardinality(Chart!Within(w, a))
    BY TokensAddUp
  <2>2. ASSUME w # "12mo"
        PROVE  /\ \A p \in DOMAIN Chart!Points(w, a) :
                     Chart!Points(w, a)[p].tokens = Chart!Points(w, a)[p].ext + Chart!Points(w, a)[p].int
               /\ Chart!SumFunction(Reals(w, a)) =
                     IF Chart!Billed(Chart!Within(w, a)) > 0 THEN Chart!Billed(Chart!Within(w, a))
                     ELSE Chart!CostOf(Chart!Within(w, a), TRUE)
               /\ Chart!SumFunction(Ests(w, a)) = Chart!CostOf(Chart!Within(w, a), FALSE)
    <3>1. DOMAIN Chart!Points(w, a) = Periods(w, a)
      BY PeriodsAre
    <3>2. \A p \in Periods(w, a) :
             Chart!Points(w, a)[p].tokens = Chart!Points(w, a)[p].ext + Chart!Points(w, a)[p].int
      BY <2>2, KindsAddUp
    <3>3. \A p \in DOMAIN Chart!Points(w, a) :
             Chart!Points(w, a)[p].tokens = Chart!Points(w, a)[p].ext + Chart!Points(w, a)[p].int
      BY ONLY <3>1, <3>2, Zenon
    <3>4. Chart!SumFunction(Reals(w, a)) =
             IF Chart!Billed(Chart!Within(w, a)) > 0 THEN Chart!Billed(Chart!Within(w, a))
             ELSE Chart!CostOf(Chart!Within(w, a), TRUE)
      BY <2>2, RealsAddUp
    <3>5. Chart!SumFunction(Ests(w, a)) = Chart!CostOf(Chart!Within(w, a), FALSE)
      BY <2>2, EstsAddUp
    <3> QED
      BY ONLY <3>3, <3>4, <3>5, Zenon
  <2> QED
    BY ONLY <2>1, <2>2, Zenon DEF AddsUp
<1>2. \A v \in Chart!Views : v[1] \in Chart!Windows /\ v[2] \in Anchors
  BY DEF Chart!Views
<1>3. \A v \in Chart!Views : AddsUp(v[1], v[2])
  BY <1>1, <1>2
<1> QED
  BY ONLY <1>3, Zenon DEF Chart!PointsAddUp, AddsUp, Tokens, Reals, Ests

\* The bars of the keys.
BandOf == [r \in used |-> Chart!Band(r.key)]

LEMMA BarsAre ==
  ASSUME ChartInv, NEW w \in Chart!Windows, NEW a \in Anchors
  PROVE  LET rows == Chart!KeyRows(w, a)
             bars == Chart!KeyCost(w, a)
         IN  /\ rows \in SUBSET used /\ IsFiniteSet(rows)
             /\ DOMAIN bars = {BandOf[r] : r \in rows}
             /\ \A b \in DOMAIN bars : bars[b] = SumFunctionOnSet(Bills, Those(rows, BandOf, b))
<1> DEFINE rows == Chart!KeyRows(w, a)
           bars == Chart!KeyCost(w, a)
           bands == {Chart!Band(r.key) : r \in rows} \cap ({<<k>> : k \in Labels} \cup {<<"Other">>})
<1>1. rows \in SUBSET used
  BY DEF Chart!KeyRows
<1>2. IsFiniteSet(rows)
  <2> HIDE DEF rows
  <2> QED
    BY <1>1, WorthIs
<1>3. \A r \in rows : r.key \in Labels /\ BandOf[r] = Chart!Band(r.key)
  BY <1>1 DEF BandOf, ChartInv, Rows
<1>4. bands = {BandOf[r] : r \in rows}
  <2> HIDE DEF rows
  <2> QED
    BY <1>3 DEF Chart!Band
<1>5. \A b : {r \in rows : Chart!Band(r.key) = b} = Those(rows, BandOf, b)
  <2> HIDE DEF rows
  <2> QED
    BY <1>3 DEF Those
<1>6. bars = [b \in bands |-> Chart!Billed(Those(rows, BandOf, b))]
  <2>1. bars = [b \in bands |-> Chart!Billed({r \in rows : Chart!Band(r.key) = b})]
    BY DEF Chart!KeyCost
  <2> DEFINE u(b) == Chart!Billed({r \in rows : Chart!Band(r.key) = b})
             v(b) == Chart!Billed(Those(rows, BandOf, b))
  <2>2. \A b : u(b) = v(b)
    BY ONLY <1>5, Zenon
  <2>3. bars = [b \in bands |-> u(b)]
    BY ONLY <2>1
  <2> HIDE DEF u, v, bands
  <2>4. bars = [b \in bands |-> v(b)]
    BY ONLY <2>2, <2>3
  <2> QED
    BY ONLY <2>4 DEF v
<1>7. \A b : Those(rows, BandOf, b) \in SUBSET used
  BY <1>1 DEF Those
<1> HIDE DEF rows, bars, bands
<1>8. DOMAIN bars = {BandOf[r] : r \in rows}
  BY <1>4, <1>6
<1>9. \A b \in DOMAIN bars : bars[b] = SumFunctionOnSet(Bills, Those(rows, BandOf, b))
  <2> TAKE b \in DOMAIN bars
  <2>1. bars[b] = Chart!Billed(Those(rows, BandOf, b))
    BY <1>6
  <2> QED
    BY <1>7, <2>1, WorthIs
<1> QED
  BY <1>1, <1>2, <1>8, <1>9 DEF rows, bars

LEMMA MoneyKept ==
  ASSUME ChartInv
  PROVE  Chart!KeyMoneyKept
<1> SUFFICES ASSUME NEW w \in Chart!Windows, NEW a \in Anchors
             PROVE  Chart!SumFunction(Chart!KeyCost(w, a)) = Chart!Billed(Chart!KeyRows(w, a))
  BY DEF Chart!KeyMoneyKept, Chart!Views
<1> DEFINE rows == Chart!KeyRows(w, a)
           bars == Chart!KeyCost(w, a)
           K == DOMAIN bars
<1>1. /\ rows \in SUBSET used /\ IsFiniteSet(rows)
      /\ K = {BandOf[r] : r \in rows}
      /\ \A b \in K : bars[b] = SumFunctionOnSet(Bills, Those(rows, BandOf, b))
  BY BarsAre
<1>2. Chart!SumFunction(bars) = SumFunctionOnSet(bars, K)
  BY ChartSum
<1> HIDE DEF rows, bars, K
<1>3. IsFiniteSet(K) /\ \A r \in rows : BandOf[r] \in K
  BY <1>1, ImageFinite
<1>4. Ints(Bills, rows) /\ Chart!Billed(rows) = SumFunctionOnSet(Bills, rows)
  BY <1>1, WorthIs
<1>5. SumFunctionOnSet(bars, K) = SumFunctionOnSet(Bills, rows)
  BY ONLY <1>1, <1>3, <1>4, SumParts
<1> QED
  BY <1>2, <1>4, <1>5 DEF rows, bars

LEMMA SomeNamed ==
  ASSUME ChartInv
  PROVE  Chart!SomeKeyNamed
BY ChartsAssumption DEF ChartInv, Chart!SomeKeyNamed, Chart!Hidden, Chart!Unassigned

\* The rows of a key up to a day, and the keys of the year that are not hidden.
Lot(a, k, d) == {r \in Chart!KeyRows("12mo", a) : r.key = k /\ r.day <= d}
Until(a, k, d) == SumFunctionOnSet(Bills, Lot(a, k, d))
Ranked(a) == {r.key : r \in Chart!KeyRows("12mo", a)} \ Chart!Hidden

LEMMA YearIs ==
  ASSUME ChartInv, NEW a \in Anchors
  PROVE  LET rows == Chart!KeyRows("12mo", a)
             lines == Chart!Cumulative(a, Bills)
         IN  /\ DOMAIN lines \in SUBSET Ranked(a)
             /\ \A k \in DOMAIN lines, l \in Ranked(a) \ DOMAIN lines : Until(a, k, a) >= Until(a, l, a)
             /\ \A k \in DOMAIN lines : /\ DOMAIN lines[k] = {r.day : r \in rows}
                                        /\ \A d \in DOMAIN lines[k] : lines[k][d] = Until(a, k, d)
<1> DEFINE rows == Chart!KeyRows("12mo", a)
           lines == Chart!Cumulative(a, Bills)
           keys == {r.key : r \in rows} \ Chart!Hidden
           until(k, d) == Chart!SumFunction([r \in {r \in rows : r.key = k /\ r.day <= d} |-> Bills[r]])
           size == IF Chart!Cardinality(keys) < TopN THEN Chart!Cardinality(keys) ELSE TopN
           Best(K) == \A k \in K, l \in keys \ K : until(k, a) >= until(l, a)
           top == CHOOSE K \in Chart!kSubset(size, keys) : Best(K)
           f == [k \in keys |-> Until(a, k, a)]
<1>1. "12mo" \in Chart!Windows
  BY DEF Chart!Windows
<1>2. rows \in SUBSET used /\ IsFiniteSet(rows)
  BY <1>1, BarsAre
<1>3. lines = [k \in top |-> [d \in {r.day : r \in rows} |-> until(k, d)]]
  BY DEF Chart!Cumulative
<1>4. ASSUME NEW k, NEW d PROVE until(k, d) = Until(a, k, d) /\ Until(a, k, d) \in Int
  <2> DEFINE L == Lot(a, k, d)
             g == [r \in L |-> Bills[r]]
  <2>1. L \in SUBSET used
    BY <1>2 DEF Lot
  <2>2. until(k, d) = Chart!SumFunction(g)
    BY DEF Lot
  <2>3. DOMAIN g = L /\ \A r \in L : g[r] = Bills[r]
    OBVIOUS
  <2> HIDE DEF g, L
  <2>4. Chart!SumFunction(g) = SumFunctionOnSet(g, L)
    BY <2>3, ChartSum
  <2>5. IsFiniteSet(L) /\ Ints(Bills, L)
    BY <2>1, WorthIs
  <2>6. SumFunctionOnSet(g, L) = SumFunctionOnSet(Bills, L)
    BY <2>3, <2>5, SumAgree
  <2>7. SumFunctionOnSet(Bills, L) \in Int
    BY <2>5, SumTake
  <2> QED
    BY <2>2, <2>4, <2>6, <2>7 DEF Until, L
<1>5. IsFiniteSet(keys)
  <2> DEFINE key == [r \in rows |-> r.key]
             all == {r.key : r \in rows}
  <2>1. all = {key[r] : r \in rows}
    OBVIOUS
  <2> HIDE DEF rows, key, all
  <2>2. IsFiniteSet({key[r] : r \in rows})
    BY <1>2, ImageFinite
  <2>3. IsFiniteSet(all)
    BY <2>1, <2>2
  <2>4. IsFiniteSet(all \ Chart!Hidden)
    BY <2>3, FS_Subset
  <2> QED
    BY <2>4 DEF all
<1>6. size \in 0..Cardinality(keys)
  <2> HIDE DEF keys
  <2> QED
    BY <1>5, FS_CardinalityType, ChartCount, ChartsAssumption
<1>7. Chart!kSubset(size, keys) = {s \in SUBSET keys : Cardinality(s) = size}
  <2> HIDE DEF size, keys
  <2> QED
    BY ChartCount DEF Chart!kSubset
<1>8. Ints(f, keys)
  <2> HIDE DEF keys
  <2> QED
    BY <1>4 DEF Ints
<1>9. \E K \in Chart!kSubset(size, keys) : Best(K)
  <2> HIDE DEF size
  <2>1. PICK K \in SUBSET keys : Cardinality(K) = size /\ Leads(K, keys, f)
    <3> HIDE DEF keys, f
    <3> QED
      BY <1>5, <1>6, <1>8, TopExists
  <2>2. Best(K)
    <3> HIDE DEF keys, until
    <3> QED
      BY <1>4, <2>1 DEF Leads
  <2> HIDE DEF keys, Best
  <2> QED
    BY <1>7, <2>1, <2>2
<1>10. top \in SUBSET keys /\ Best(top)
  <2> HIDE DEF Best, size, keys
  <2> QED
    BY <1>7, <1>9
<1>11. keys = Ranked(a)
  BY DEF Ranked
<1> HIDE DEF top, keys, until, rows
<1>12. DOMAIN lines = top /\ \A k \in top : lines[k] = [d \in {r.day : r \in rows} |-> until(k, d)]
  <2> HIDE DEF lines
  <2> QED
    BY <1>3
<1> HIDE DEF lines
<1>13. \A k \in DOMAIN lines, l \in Ranked(a) \ DOMAIN lines : Until(a, k, a) >= Until(a, l, a)
  BY <1>4, <1>10, <1>11, <1>12
<1>14. \A k \in DOMAIN lines : /\ DOMAIN lines[k] = {r.day : r \in rows}
                               /\ \A d \in DOMAIN lines[k] : lines[k][d] = Until(a, k, d)
  BY <1>4, <1>12
<1> QED
  BY <1>10, <1>11, <1>12, <1>13, <1>14 DEF lines, rows

LEMMA BarOf ==
  ASSUME ChartInv, NEW a \in Anchors, NEW k \in Labels, <<k>> \in DOMAIN Chart!KeyCost("12mo", a)
  PROVE  k \in Ranked(a) /\ Chart!KeyCost("12mo", a)[<<k>>] = Until(a, k, a)
<1> DEFINE rows == Chart!KeyRows("12mo", a)
           bars == Chart!KeyCost("12mo", a)
<1>1. "12mo" \in Chart!Windows
  BY DEF Chart!Windows
<1>2. /\ rows \in SUBSET used /\ DOMAIN bars = {BandOf[r] : r \in rows}
      /\ \A b \in DOMAIN bars : bars[b] = SumFunctionOnSet(Bills, Those(rows, BandOf, b))
  BY <1>1, BarsAre
<1>3. \A r \in rows : BandOf[r] = Chart!Band(r.key) /\ r.day <= a /\ r.key \in Labels
  <2>1. \A r \in used : r.day \in Int
    BY <1>1, CalendarIs
  <2>2. a \in Int /\ Chart!First("12mo", a) \in Int
    BY <1>1, CalendarIs
  <2> QED
    BY <1>2, <2>1, <2>2 DEF BandOf, Chart!KeyRows, ChartInv, Rows
<1>4. k # "Other"
  BY ChartsAssumption
<1> HIDE DEF bars
<1>5. \A r \in rows : BandOf[r] = <<k>> <=> (r.key = k /\ k \notin Chart!Hidden)
  <2> SUFFICES ASSUME NEW r \in rows PROVE BandOf[r] = <<k>> <=> (r.key = k /\ k \notin Chart!Hidden)
    OBVIOUS
  <2> HIDE DEF rows
  <2>1. BandOf[r] = IF r.key \in Chart!Hidden THEN <<"Other">> ELSE <<r.key>>
    BY <1>3 DEF Chart!Band
  <2>2. \A x : <<x>> = <<k>> <=> x = k
    OBVIOUS
  <2> QED
    BY <1>4, <2>1, <2>2
<1>6. PICK r \in rows : BandOf[r] = <<k>>
  BY <1>2 DEF bars
<1>7. k \notin Chart!Hidden /\ r.key = k
  BY <1>5, <1>6
<1>8. Those(rows, BandOf, <<k>>) = Lot(a, k, a)
  BY <1>3, <1>5, <1>7 DEF Those, Lot
<1>9. bars[<<k>>] = SumFunctionOnSet(Bills, Those(rows, BandOf, <<k>>))
  BY <1>2, <1>6
<1>10. bars[<<k>>] = Until(a, k, a)
  BY ONLY <1>8, <1>9, Zenon DEF Until
<1> QED
  BY <1>6, <1>7, <1>10 DEF Ranked, bars

LEMMA BarIn ==
  ASSUME ChartInv, NEW a \in Anchors, NEW k \in Ranked(a)
  PROVE  k \in Labels /\ <<k>> \in DOMAIN Chart!KeyCost("12mo", a)
<1>1. "12mo" \in Chart!Windows
  BY DEF Chart!Windows
<1> DEFINE rows == Chart!KeyRows("12mo", a)
           bars == Chart!KeyCost("12mo", a)
<1>2. rows \in SUBSET used /\ DOMAIN bars = {BandOf[r] : r \in rows}
  BY <1>1, BarsAre
<1>3. PICK r \in rows : r.key = k /\ k \notin Chart!Hidden
  BY DEF Ranked
<1>4. BandOf[r] = <<k>> /\ r.key \in Labels
  BY <1>2, <1>3 DEF BandOf, Chart!Band, ChartInv, Rows
<1> QED
  BY <1>2, <1>3, <1>4

\* LinesEndAtBars, of the year that ends on day a.
EndsAtBars(a, worth) ==
    LET lines == Chart!Cumulative(a, worth)
        bars  == Chart!KeyCost("12mo", a)
    IN  \A k \in DOMAIN lines : \A d \in DOMAIN lines[k] :
            /\ \A e \in DOMAIN lines[k] : d < e => lines[k][d] <= lines[k][e]
            /\ (\A e \in DOMAIN lines[k] : e <= d) =>
                   /\ lines[k][d] = bars[<<k>>]
                   /\ \A l \in Labels \ DOMAIN lines : <<l>> \in DOMAIN bars => bars[<<l>>] <= lines[k][d]

LEMMA LinesEnd ==
  ASSUME ChartInv
  PROVE  Chart!LinesEndAtBars
<1>1. ASSUME NEW a \in Anchors, NEW k \in DOMAIN Chart!Cumulative(a, Bills),
             NEW d \in DOMAIN Chart!Cumulative(a, Bills)[k]
      PROVE  /\ \A e \in DOMAIN Chart!Cumulative(a, Bills)[k] :
                    d < e => Chart!Cumulative(a, Bills)[k][d] <= Chart!Cumulative(a, Bills)[k][e]
             /\ (\A e \in DOMAIN Chart!Cumulative(a, Bills)[k] : e <= d) =>
                    /\ Chart!Cumulative(a, Bills)[k][d] = Chart!KeyCost("12mo", a)[<<k>>]
                    /\ \A l \in Labels \ DOMAIN Chart!Cumulative(a, Bills) :
                          <<l>> \in DOMAIN Chart!KeyCost("12mo", a) =>
                              Chart!KeyCost("12mo", a)[<<l>>] <= Chart!Cumulative(a, Bills)[k][d]
  <2> DEFINE lines == Chart!Cumulative(a, Bills)
             bars == Chart!KeyCost("12mo", a)
             rows == Chart!KeyRows("12mo", a)
  <2>1. "12mo" \in Chart!Windows
    BY DEF Chart!Windows
  <2>2. rows \in SUBSET used
    BY <2>1, BarsAre
  <2>3. \A r \in rows : r.day \in Int /\ r.day <= a
    <3>1. \A r \in used : r.day \in Int
      BY <2>1, CalendarIs
    <3>2. a \in Int /\ Chart!First("12mo", a) \in Int
      BY <2>1, CalendarIs
    <3> QED
      BY <3>1, <3>2 DEF Chart!KeyRows
  <2>4. /\ DOMAIN lines \in SUBSET Ranked(a)
        /\ \A l \in Ranked(a) \ DOMAIN lines : Until(a, k, a) >= Until(a, l, a)
        /\ DOMAIN lines[k] = {r.day : r \in rows}
        /\ \A e \in DOMAIN lines[k] : lines[k][e] = Until(a, k, e)
    BY YearIs
  <2>5. k \in Ranked(a) /\ k \in Labels /\ bars[<<k>>] = Until(a, k, a)
    <3>1. k \in Ranked(a)
      BY <2>4
    <3>2. k \in Labels /\ <<k>> \in DOMAIN Chart!KeyCost("12mo", a)
      BY <3>1, BarIn
    <3> QED
      BY <3>1, <3>2, BarOf
  <2> HIDE DEF lines, bars
  <2>6. ASSUME NEW e \in DOMAIN lines[k], d < e PROVE lines[k][d] <= lines[k][e]
    <3>1. d \in Int /\ e \in Int
      BY <2>3, <2>4 DEF lines
    <3>2. Lot(a, k, e) \in SUBSET used /\ Lot(a, k, d) \in SUBSET Lot(a, k, e)
      BY <2>2, <2>3, <2>6, <3>1 DEF Lot
    <3>3. IsFiniteSet(Lot(a, k, e)) /\ Nats(Bills, Lot(a, k, e))
      BY <3>2, WorthIs DEF Nats
    <3>4. SumFunctionOnSet(Bills, Lot(a, k, d)) <= SumFunctionOnSet(Bills, Lot(a, k, e))
      BY <3>2, <3>3, SumNat
    <3> QED
      BY <2>4, <3>4 DEF Until, lines
  <2>7. ASSUME \A e \in DOMAIN lines[k] : e <= d
        PROVE  /\ lines[k][d] = bars[<<k>>]
               /\ \A l \in Labels \ DOMAIN lines : <<l>> \in DOMAIN bars => bars[<<l>>] <= lines[k][d]
    <3>1. Lot(a, k, d) = Lot(a, k, a)
      BY <2>3, <2>4, <2>7 DEF Lot
    <3>2. Until(a, k, d) = Until(a, k, a)
      BY ONLY <3>1, Zenon DEF Until
    <3>3. lines[k][d] = Until(a, k, a)
      BY <2>4, <3>2 DEF lines
    <3>4. ASSUME NEW l \in Labels \ DOMAIN lines, <<l>> \in DOMAIN bars PROVE bars[<<l>>] <= lines[k][d]
      <4>1. l \in Ranked(a) /\ bars[<<l>>] = Until(a, l, a)
        BY <3>4, BarOf DEF bars
      <4>2. Until(a, k, a) >= Until(a, l, a)
        BY <2>4, <3>4, <4>1
      <4>3. Until(a, l, a) \in Int /\ Until(a, k, a) \in Int
        <5>1. \A j : Lot(a, j, a) \in SUBSET used
          BY <2>2 DEF Lot
        <5>2. \A j : IsFiniteSet(Lot(a, j, a)) /\ Ints(Bills, Lot(a, j, a))
          BY <5>1, WorthIs
        <5> QED
          BY <5>2, SumTake DEF Until
      <4> QED
        BY <3>3, <4>1, <4>2, <4>3
    <3> QED
      BY <2>5, <3>3, <3>4
  <2> QED
    BY <2>6, <2>7 DEF lines, bars
<1>2. [r \in used |-> Models[r.model]] = Bills
  BY DEF Bills
<1>3. \A a \in Anchors : EndsAtBars(a, Bills)
  BY ONLY <1>1, Zenon DEF EndsAtBars
<1>4. \A a \in Anchors : EndsAtBars(a, [r \in used |-> Models[r.model]])
  BY ONLY <1>2, <1>3, Zenon
<1> QED
  BY ONLY <1>4, Zenon DEF Chart!LinesEndAtBars, EndsAtBars

\* ChartsAgree, of the state that ChartInv describes.
LEMMA ChartsHold ==
  ASSUME ChartInv
  PROVE  /\ Chart!TypeOK /\ Chart!NothingOffTheChart /\ Chart!TwoChartsAgree /\ Chart!PointsAddUp
         /\ Chart!KeyMoneyKept /\ Chart!LinesEndAtBars /\ Chart!SomeKeyNamed
<1>1. Chart!TypeOK
  BY DEF ChartInv, Rows, Chart!TypeOK
<1> QED
  BY <1>1, NothingOff, TwoCharts, CardHolds, MoneyKept, LinesEnd, SomeNamed

-----------------------------------------------------------------------------
\* The figures.
FigureInv == ChartInv /\ WorkInv /\ CountInv

LEMMA FigureInductive == FigureSpec => []FigureInv
<1>1. FigureInit => FigureInv
  BY ChartInit, WorkInit, CountInit DEF FigureInit, FigureInv
<1>2. FigureInv /\ [FigureNext]_figures => FigureInv'
  <2> SUFFICES ASSUME FigureInv, [FigureNext]_figures PROVE FigureInv'
    OBVIOUS
  <2>1. Chart!Next \/ UNCHANGED charts
    BY DEF FigureNext, figures
  <2>2. Work!Next \/ UNCHANGED work
    BY DEF FigureNext, figures
  <2>3. Count!Next \/ UNCHANGED counters
    BY DEF FigureNext, figures
  <2> QED
    BY <2>1, <2>2, <2>3, ChartNext, WorkNext, CountNext DEF FigureInv
<1> QED
  BY <1>1, <1>2, PTL DEF FigureSpec

\* Every chart that shows a window shows all its money, once, at the pinned price, and
\* the charts agree with each other; hiding keys hides no money and not every key
\* (app.py:3256-3305, 3333-3337, 3544-3548; db.py:809-817, 2313-2434): for any models,
\* prices, keys, owners, calendar and windows, and however many lines a chart keeps.
THEOREM ChartsAlwaysAgree == FigureSpec => []ChartsAgree
<1>1. FigureInv => ChartsAgree
  BY ChartsHold DEF FigureInv, ChartsAgree
<1> QED
  BY <1>1, FigureInductive, PTL

\* What is added up over time is what was requested, once: in the bars and lines of the
\* counters (dbutil.py:76-88; db.py:934-1000, 1067-1078), and in the split of the work in
\* flight (db.py:1161-1186), for every window, lookback and grid of buckets.
THEOREM TotalsAreTrue == FigureSpec => []TotalsTrue
<1>1. FigureInv => TotalsTrue
  BY WorkHolds, CountHolds DEF FigureInv, TotalsTrue
<1> QED
  BY <1>1, FigureInductive, PTL
=============================================================================
