--------------------------- MODULE NotifierProofs ---------------------------
(***************************************************************************)
(* For any keys, cooldown, gaps between calls and ceiling on the stamps,   *)
(* and however often a call is cancelled: the bounded stamps decide as an  *)
(* unbounded history would, and what the notifier remembers implements the *)
(* promise of Pager.                                                       *)
(***************************************************************************)
EXTENDS Notifier, TLAPS

\* The stamp kept for a key is the age of its last stamp; a key without one has
\* been quiet for the cooldown.
InStep(stamps, quiet) ==
    /\ quiet \in [Keys -> 0..Repeat]
    /\ DOMAIN stamps \subseteq Keys
    /\ \A k \in DOMAIN stamps :
          /\ stamps[k] \in 0..(Repeat + 1)
          /\ quiet[k] = IF stamps[k] < Repeat THEN stamps[k] ELSE Repeat
    /\ \A k \in Keys : k \notin DOMAIN stamps => quiet[k] = Repeat

\* What is left of a call: the keys to fire are due, those to clear were
\* announced, and no key is handled twice.
CallInv ==
    /\ pc \in {"idle"} \cup Awaits
    /\ toFire \subseteq Keys /\ toRecover \subseteq notified /\ notified \subseteq Keys
    /\ toFire \cap toRecover = {}
    /\ \A k \in toFire : sinceStamp[k] = Repeat
    /\ pc \in {"fired", "recovered"} =>
          \E k \in Keys : cur = {k} /\ k \notin toFire \cup toRecover
    /\ pc = "fired" => \A k \in cur : sinceStamp[k] = Repeat
    /\ pc = "recovered" => cur \subseteq notified /\ toFire = {}

IInv == InStep(last, sinceStamp) /\ CallInv

\* Nothing is stamped in a fresh process (alerts.py:584-591).
LEMMA InitIInv == Init => IInv
BY NotifierAssumption
   DEF Init, IInv, InStep, CallInv, NotifierAssumption

\* A key is due exactly when the history says so (alerts.py:609-613).
LEMMA DueIsQuiet ==
  ASSUME NEW stamps, NEW quiet, InStep(stamps, quiet), NEW k \in Keys
  PROVE  Due(stamps, k) <=> quiet[k] = Repeat
BY NotifierAssumption DEF InStep, Due, NotifierAssumption

\* Ageing the stamps by the ticks between two calls keeps them in step with the
\* history (alerts.py:613).
LEMMA AgedStamps ==
  ASSUME NEW stamps, NEW quiet, InStep(stamps, quiet), NEW d \in Gaps
  PROVE  InStep(Elapse(stamps, d, Repeat + 1), Elapse(quiet, d, Repeat))
BY NotifierAssumption DEF InStep, Elapse, NotifierAssumption

\* A dropped stamp was older than the cooldown (alerts.py:681-685).
LEMMA PrunedStamps ==
  ASSUME NEW stamps, NEW quiet, InStep(stamps, quiet), NEW act
  PROVE  InStep(Prune(stamps, act), quiet)
<1>1. CASE Cardinality(DOMAIN stamps) > LastCap
  <2> DEFINE D == {j \in DOMAIN stamps : j \in act \/ stamps[j] <= Repeat}
  <2>1. Prune(stamps, act) = [k \in D |-> stamps[k]]
    BY <1>1 DEF Prune
  <2>2. \A k \in Keys : k \notin D => quiet[k] = Repeat
    BY NotifierAssumption DEF InStep, NotifierAssumption
  <2>3. QED BY <2>1, <2>2 DEF InStep
<1>2. CASE ~(Cardinality(DOMAIN stamps) > LastCap)
  BY <1>2 DEF Prune
<1>3. QED BY <1>1, <1>2

\* Stamping the posted key keeps the stamps in step (alerts.py:653, 664).
LEMMA NewStamp ==
  ASSUME NEW stamps, NEW quiet, InStep(stamps, quiet), NEW k \in Keys
  PROVE  InStep([j \in DOMAIN stamps \cup {k} |-> IF j \in {k} THEN 0 ELSE stamps[j]],
                [j \in Keys |-> IF j \in {k} THEN 0 ELSE quiet[j]])
BY NotifierAssumption DEF InStep, NotifierAssumption

\* A call that finds nothing to say runs to its end, any other suspends with the
\* due keys and the recoveries in hand (alerts.py:623-647).
LEMMA ProcessIInv ==
  ASSUME IInv, NEW t \in Ticks, NEW d \in Gaps, Process(t, d)
  PROVE  IInv'
<1> DEFINE stamps == Elapse(last, d, Repeat + 1)
           quiet  == Elapse(sinceStamp, d, Repeat)
           due    == {k \in t.firing : Due(stamps, k)}
           recoveries == Pending(t) \cap notified
<1>1. InStep(stamps, quiet) /\ sinceStamp' = quiet
  BY AgedStamps DEF IInv, Process
<1>2. t.firing \subseteq Keys
  BY DEF Ticks
<1>3. CASE due \cup recoveries = {}
  <2>1. /\ last' = Prune(stamps, StillActive(t)) /\ notified' = notified \ t.cancelled
        /\ pc' = "idle" /\ toFire' = {} /\ toRecover' = {} /\ cur' = {}
    BY <1>3 DEF Process, Settle
  <2>2. InStep(last', sinceStamp')
    BY <1>1, <2>1, PrunedStamps
  <2>3. CallInv'
    BY <2>1 DEF IInv, CallInv
  <2>4. QED BY <2>2, <2>3 DEF IInv
<1>4. CASE due \cup recoveries # {}
  <2>1. /\ last' = stamps /\ notified' = notified
        /\ pc' = "resolving" /\ toFire' = due /\ toRecover' = recoveries
    BY <1>4 DEF Process
  <2>2. \A k \in due : quiet[k] = Repeat
    BY <1>1, <1>2, DueIsQuiet
  <2>3. due \cap recoveries = {}
    BY DEF Pending
  <2>4. CallInv'
    BY <1>1, <1>2, <2>1, <2>2, <2>3 DEF IInv, CallInv, Awaits
  <2>5. QED BY <1>1, <2>1, <2>4 DEF IInv
<1>5. QED BY <1>3, <1>4

\* Every await of process(), and its cancellation there, keeps the invariant.
LEMMA NextIInv == IInv /\ [Next]_vars => IInv'
<1> SUFFICES ASSUME IInv, [Next]_vars PROVE IInv'
  OBVIOUS
<1>1. ASSUME NEW t \in Ticks, NEW d \in Gaps, Process(t, d) PROVE IInv'
  BY <1>1, ProcessIInv
<1>2. ASSUME NEW k \in Keys, PostFire(k) PROVE IInv'
  BY <1>2 DEF PostFire, IInv, CallInv, Awaits, memory
<1>3. ASSUME NEW k \in Keys, PostRecover(k) PROVE IInv'
  BY <1>3 DEF PostRecover, IInv, CallInv, Awaits, memory
<1>4. ASSUME Stamp PROVE IInv'
  <2>1. PICK k \in Keys : cur = {k} /\ k \notin toFire \cup toRecover
    BY <1>4 DEF Stamp, IInv, CallInv
  <2>2. InStep(last', sinceStamp')
    BY <1>4, <2>1, NewStamp DEF Stamp, IInv
  <2>3. sinceStamp' = [j \in Keys |-> IF j \in {k} THEN 0 ELSE sinceStamp[j]]
    BY <1>4, <2>1 DEF Stamp
  <2>4. CallInv'
    <3>1. /\ pc' = "recording" /\ UNCHANGED <<toFire, toRecover>>
          /\ notified' \in {notified \cup {k}, notified \ {k}}
      BY <1>4, <2>1 DEF Stamp
    <3>2. QED BY <2>1, <2>3, <3>1 DEF IInv, CallInv, Awaits
  <2>5. QED BY <2>2, <2>4 DEF IInv
<1>5. ASSUME Finish PROVE IInv'
  <2>1. /\ last' = Prune(last, StillActive(tick)) /\ notified' = notified \ tick.cancelled
        /\ pc' = "idle" /\ toFire' = {} /\ toRecover' = {} /\ cur' = {}
        /\ UNCHANGED sinceStamp
    BY <1>5 DEF Finish, Settle, history
  <2>2. InStep(last', sinceStamp')
    BY <2>1, PrunedStamps DEF IInv
  <2>3. QED BY <2>1, <2>2 DEF IInv, CallInv
<1>6. ASSUME Timeout PROVE IInv'
  BY <1>6 DEF Timeout, IInv, CallInv, memory, history
<1>7. CASE UNCHANGED vars
  BY <1>7 DEF vars, memory, call, history, IInv, CallInv
<1>8. QED BY <1>1, <1>2, <1>3, <1>4, <1>5, <1>6, <1>7 DEF Next, Step

\* The inductive invariant holds in every reachable state.
LEMMA Inductive == Spec => []IInv
<1>1. QED BY InitIInv, NextIInv, PTL DEF Spec

\* Pruning the stamps never changes what is due (alerts.py:609-613, 676-685).
THEOREM PruningIsInvisible == Spec => []DueMatchesHistory
<1>1. IInv => DueMatchesHistory
  <2> SUFFICES ASSUME IInv, NEW k \in Keys PROVE Due(last, k) <=> sinceStamp[k] >= Repeat
    BY DEF DueMatchesHistory
  <2>1. InStep(last, sinceStamp) /\ sinceStamp[k] \in 0..Repeat
    BY DEF IInv, InStep
  <2>2. Due(last, k) <=> sinceStamp[k] = Repeat
    BY <2>1, DueIsQuiet
  <2>3. sinceStamp[k] = Repeat <=> sinceStamp[k] >= Repeat
    BY <2>1, NotifierAssumption DEF NotifierAssumption
  <2>4. QED BY <2>2, <2>3
<1>2. QED BY <1>1, Inductive, PTL

\* What the notifier remembers implements Pager: a cooldown before every alarm it
\* stamps, an all-clear only for an alarm it stamped (alerts.py:649-686).
THEOREM MemoryImplementsPager == Spec => StampsArePager
<1>1. Init => Stamps!Init
  BY DEF Init, Stamps!Init
<1>2. ASSUME IInv, [Next]_vars PROVE [Stamps!Next]_<<notified, sinceStamp>>
  <2> USE DEF Stamps!Next
  <2>1. ASSUME NEW t \in Ticks, NEW d \in Gaps, Process(t, d) PROVE Stamps!Silence
    <3>1. sinceStamp' = Elapse(sinceStamp, d, Repeat) /\ notified' \subseteq notified
      BY <2>1 DEF Process, Settle
    <3>2. QED BY <3>1 DEF Stamps!Silence, Stamps!Elapse, Elapse
  <2>2. CASE Stamp
    <3>1. PICK k \in Keys : cur = {k}
      BY <1>2, <2>2 DEF Stamp, IInv, CallInv
    <3>2. sinceStamp \in [Keys -> 0..Repeat] /\ k \in DOMAIN sinceStamp
      BY <1>2 DEF IInv, InStep
    <3>3. sinceStamp' = [sinceStamp EXCEPT ![k] = 0]
      BY <2>2, <3>1, <3>2 DEF Stamp
    <3>4. CASE pc = "fired"
      <4>1. sinceStamp[k] = Repeat /\ notified' = notified \cup {k}
        BY <1>2, <2>2, <3>1, <3>4 DEF Stamp, IInv, CallInv
      <4>2. Stamps!Alarm(k)
        BY <3>3, <4>1, NotifierAssumption DEF Stamps!Alarm, NotifierAssumption
      <4>3. QED BY <4>2
    <3>5. CASE pc = "recovered"
      <4>1. k \in notified /\ notified' = notified \ {k}
        BY <1>2, <2>2, <3>1, <3>5 DEF Stamp, IInv, CallInv
      <4>2. Stamps!AllClear(k)
        BY <3>3, <4>1 DEF Stamps!AllClear
      <4>3. QED BY <4>2
    <3>6. QED BY <2>2, <3>4, <3>5 DEF Stamp
  <2>3. CASE Finish
    <3>1. notified' \subseteq notified /\ UNCHANGED sinceStamp
      BY <2>3 DEF Finish, Settle, history
    <3>2. QED BY <3>1 DEF Stamps!Silence
  <2>4. CASE Timeout \/ (\E k \in Keys : PostFire(k) \/ PostRecover(k)) \/ UNCHANGED vars
    BY <2>4 DEF Timeout, PostFire, PostRecover, vars, memory, history
  <2>5. QED BY <1>2, <2>1, <2>2, <2>3, <2>4 DEF Next, Step
<1>3. QED BY <1>1, <1>2, Inductive, PTL DEF Spec, StampsArePager, Stamps!Spec

-----------------------------------------------------------------------------
\* The types of what CallInv does not speak of.
TypeInv ==
    /\ tick \in Ticks /\ active \subseteq Keys /\ cur \subseteq Keys
    /\ alarmed \subseteq Keys /\ gone \subseteq Keys
    /\ timeouts \in 0..Timeouts /\ beat \in {0, 1}
    /\ sincePost \in [Keys -> 0..Repeat]
    /\ pc \notin {"fired", "recovered"} => cur = {}
    /\ toFire \subseteq tick.firing
    /\ toRecover \cap (tick.firing \cup tick.held \cup tick.cancelled) = {}

\* What the reader has heard, told from what the notifier remembers: between the
\* post and the stamp of a key the reader is one message ahead.
Heard ==
    CASE pc = "fired"     -> (notified \ tick.cancelled) \cup cur
      [] pc = "recovered" -> (notified \ tick.cancelled) \ cur
      [] OTHER            -> notified \ tick.cancelled

\* Until a call is cancelled, reader and notifier agree up to the message on its
\* way, and whoever still waits for an all-clear is active, or is about to get it.
AlarmInv ==
    /\ pc = "fired" => cur \subseteq tick.firing
    /\ pc = "recovered" =>
          cur \cap (gone \cup tick.firing \cup tick.held \cup tick.cancelled) = {}
    /\ pc = "idle" => alarmed = notified /\ alarmed \subseteq active /\ active \cap gone = {}
    /\ pc # "idle" =>
          /\ alarmed = Heard
          /\ alarmed \subseteq tick.firing \cup (active \cap tick.held) \cup toRecover
          /\ toRecover \cap gone = {} /\ gone \cap (tick.firing \cup tick.held) = {}
    /\ \A k \in Keys : sincePost[k] = IF k \in cur THEN 0 ELSE sinceStamp[k]

ReaderInv == TypeInv /\ (timeouts = 0 => AlarmInv)

\* Nobody has heard anything of a fresh process.
LEMMA InitReader == Init => ReaderInv
BY NotifierAssumption
   DEF Init, ReaderInv, TypeInv, AlarmInv, NoTick, Ticks, NotifierAssumption

\* Both clocks are set forward alike.
LEMMA ElapseType ==
  ASSUME NEW clock \in [Keys -> 0..Repeat], NEW d \in Gaps
  PROVE  /\ Elapse(clock, d, Repeat) \in [Keys -> 0..Repeat]
         /\ \A k \in Keys : Elapse(clock, d, Repeat)[k]
                              = IF clock[k] + d < Repeat THEN clock[k] + d ELSE Repeat
BY NotifierAssumption DEF Elapse, NotifierAssumption

\* A call takes over the keys that stopped firing with their alarm open, unless
\* they are held or were cancelled (alerts.py:633-647, 671).
LEMMA ProcessReader ==
  ASSUME IInv, ReaderInv, NEW t \in Ticks, NEW d \in Gaps, Process(t, d)
  PROVE  ReaderInv'
<1> DEFINE stamps == Elapse(last, d, Repeat + 1)
           due == {k \in t.firing : Due(stamps, k)}
           recoveries == Pending(t) \cap notified
<1>1. /\ t.firing \subseteq Keys /\ t.held \subseteq Keys /\ t.cancelled \subseteq Keys
      /\ t.firing \cap t.held = {} /\ t.cancelled \cap (t.firing \cup t.held) = {}
  BY DEF Ticks
<1>2. /\ pc = "idle" /\ tick' = t /\ cur' = {} /\ timeouts' = timeouts /\ beat' = 1 - beat
      /\ alarmed' = alarmed \ t.cancelled
      /\ gone' = (gone \cup t.cancelled) \ (t.firing \cup t.held)
      /\ sincePost' = Elapse(sincePost, d, Repeat)
      /\ sinceStamp' = Elapse(sinceStamp, d, Repeat)
  <2>1. cur = {}
    BY DEF ReaderInv, TypeInv, Process
  <2> QED
    BY <2>1 DEF Process, Settle
<1>3. \/ /\ due \cup recoveries = {} /\ pc' = "idle" /\ active' = StillActive(t)
         /\ notified' = notified \ t.cancelled /\ toFire' = {} /\ toRecover' = {}
      \/ /\ pc' = "resolving" /\ active' = active /\ notified' = notified
         /\ toFire' = due /\ toRecover' = recoveries
  BY DEF Process, Settle
<1>4. TypeInv'
  <2>1. sincePost' \in [Keys -> 0..Repeat]
    BY <1>2, ElapseType DEF ReaderInv, TypeInv
  <2>2. active' \subseteq Keys /\ beat' \in {0, 1}
    BY <1>1, <1>2, <1>3 DEF ReaderInv, TypeInv, StillActive
  <2>3. toFire' \subseteq t.firing /\ toRecover' \cap (t.firing \cup t.held \cup t.cancelled) = {}
    BY <1>3 DEF Pending
  <2> QED
    BY <1>1, <1>2, <2>1, <2>2, <2>3 DEF ReaderInv, TypeInv
<1>5. ASSUME timeouts = 0 PROVE AlarmInv'
  <2>0. cur = {}
    BY <1>2 DEF ReaderInv, TypeInv
  <2>1. /\ alarmed = notified /\ alarmed \subseteq active /\ active \cap gone = {}
        /\ \A k \in Keys : sincePost[k] = sinceStamp[k]
    BY <1>2, <1>5, <2>0 DEF ReaderInv, AlarmInv
  <2>2. \A k \in Keys : sincePost'[k] = sinceStamp'[k]
    BY <1>2, <2>1, ElapseType DEF IInv, InStep, ReaderInv, TypeInv
  <2>3. CASE due \cup recoveries = {} /\ pc' = "idle" /\ active' = StillActive(t)
             /\ notified' = notified \ t.cancelled
    <3>1. alarmed' = notified' /\ alarmed' \subseteq active' /\ active' \cap gone' = {}
      BY <1>2, <2>1, <2>3 DEF StillActive, Pending
    <3> QED
      BY <1>2, <2>2, <2>3, <3>1 DEF AlarmInv
  <2>4. CASE pc' = "resolving" /\ active' = active /\ notified' = notified
             /\ toRecover' = recoveries
    <3>1. alarmed' = Heard'
      BY <1>2, <2>1, <2>4 DEF Heard
    <3>2. alarmed' \subseteq t.firing \cup (active' \cap t.held) \cup toRecover'
      BY <1>2, <2>1, <2>4 DEF Pending
    <3>3. toRecover' \cap gone' = {} /\ gone' \cap (t.firing \cup t.held) = {}
      BY <1>2, <2>1, <2>4 DEF Pending
    <3> QED
      BY <1>2, <2>2, <2>4, <3>1, <3>2, <3>3 DEF AlarmInv
  <2> QED
    BY <1>3, <2>3, <2>4
<1> QED
  BY <1>2, <1>4, <1>5 DEF ReaderInv

\* Every await keeps reader and notifier in agreement; a cancelled call need not.
LEMMA NextReader == IInv /\ ReaderInv /\ [Next]_vars => ReaderInv'
<1> SUFFICES ASSUME IInv, ReaderInv, [Next]_vars PROVE ReaderInv'
  OBVIOUS
<1>1. ASSUME NEW t \in Ticks, NEW d \in Gaps, Process(t, d) PROVE ReaderInv'
  BY <1>1, ProcessReader
<1>2. ASSUME NEW k \in Keys, PostFire(k) PROVE ReaderInv'
  <2>1. cur = {} /\ k \in tick.firing
    BY <1>2 DEF PostFire, ReaderInv, TypeInv
  <2>2. TypeInv'
    BY <1>2, NotifierAssumption DEF PostFire, memory, ReaderInv, TypeInv, NotifierAssumption
  <2>3. ASSUME timeouts = 0 PROVE AlarmInv'
    <3>1. AlarmInv /\ pc # "idle" /\ pc # "fired" /\ pc # "recovered"
      BY <1>2, <2>3 DEF PostFire, ReaderInv
    <3>2. alarmed = notified \ tick.cancelled
      BY <3>1 DEF AlarmInv, Heard
    <3>3. /\ alarmed' = Heard'
          /\ alarmed' \subseteq tick'.firing \cup (active' \cap tick'.held) \cup toRecover'
      BY <1>2, <2>1, <3>1, <3>2 DEF PostFire, memory, AlarmInv, Heard
    <3>4. \A j \in Keys : sincePost'[j] = IF j \in cur' THEN 0 ELSE sinceStamp'[j]
      BY <1>2, <2>1, <3>1 DEF PostFire, AlarmInv, ReaderInv, TypeInv
    <3> QED
      BY <1>2, <2>1, <3>1, <3>3, <3>4 DEF PostFire, AlarmInv
  <2> QED
    BY <1>2, <2>2, <2>3 DEF PostFire, ReaderInv
<1>3. ASSUME NEW k \in Keys, PostRecover(k) PROVE ReaderInv'
  <2>1. cur = {} /\ k \notin tick.firing \cup tick.held \cup tick.cancelled
    BY <1>3 DEF PostRecover, ReaderInv, TypeInv
  <2>2. TypeInv'
    BY <1>3, NotifierAssumption DEF PostRecover, memory, ReaderInv, TypeInv, NotifierAssumption
  <2>3. ASSUME timeouts = 0 PROVE AlarmInv'
    <3>1. AlarmInv /\ pc # "idle" /\ pc # "fired" /\ pc # "recovered"
      BY <1>3, <2>3 DEF PostRecover, ReaderInv
    <3>2. alarmed = notified \ tick.cancelled
      BY <3>1 DEF AlarmInv, Heard
    <3>3. /\ alarmed' = Heard'
          /\ alarmed' \subseteq tick'.firing \cup (active' \cap tick'.held) \cup toRecover'
      BY <1>3, <2>1, <3>1, <3>2 DEF PostRecover, memory, AlarmInv, Heard
    <3>4. \A j \in Keys : sincePost'[j] = IF j \in cur' THEN 0 ELSE sinceStamp'[j]
      BY <1>3, <2>1, <3>1 DEF PostRecover, AlarmInv, ReaderInv, TypeInv
    <3>5. cur' \cap (gone' \cup tick'.firing \cup tick'.held \cup tick'.cancelled) = {}
      BY <1>3, <2>1, <3>1 DEF PostRecover, AlarmInv
    <3> QED
      BY <1>3, <2>1, <3>1, <3>3, <3>4, <3>5 DEF PostRecover, AlarmInv
  <2> QED
    BY <1>3, <2>2, <2>3 DEF PostRecover, ReaderInv
<1>4. ASSUME Stamp PROVE ReaderInv'
  <2>1. TypeInv'
    BY <1>4 DEF Stamp, ReaderInv, TypeInv
  <2>2. ASSUME timeouts = 0 PROVE AlarmInv'
    <3>1. AlarmInv /\ pc \in {"fired", "recovered"}
      BY <1>4, <2>2 DEF Stamp, ReaderInv
    <3>2. alarmed' = Heard'
      <4>1. CASE pc = "fired"
        <5>1. cur \cap tick.cancelled = {}
          BY <3>1, <4>1 DEF AlarmInv, ReaderInv, TypeInv, Ticks
        <5> QED
          BY <1>4, <3>1, <4>1, <5>1 DEF Stamp, AlarmInv, Heard
      <4>2. CASE pc = "recovered"
        BY <1>4, <3>1, <4>2 DEF Stamp, AlarmInv, Heard
      <4> QED
        BY <3>1, <4>1, <4>2
    <3>3. \A j \in Keys : sincePost'[j] = IF j \in cur' THEN 0 ELSE sinceStamp'[j]
      BY <1>4, <3>1 DEF Stamp, AlarmInv
    <3> QED
      BY <1>4, <3>1, <3>2, <3>3 DEF Stamp, AlarmInv
  <2> QED
    BY <1>4, <2>1, <2>2 DEF Stamp, ReaderInv
<1>5. ASSUME Finish PROVE ReaderInv'
  <2>1. /\ pc = "recording" /\ toFire = {} /\ toRecover = {} /\ cur = {}
        /\ pc' = "idle" /\ toFire' = {} /\ toRecover' = {} /\ cur' = {} /\ tick' = tick
        /\ active' = StillActive(tick) /\ notified' = notified \ tick.cancelled
        /\ UNCHANGED <<alarmed, gone, sincePost, sinceStamp, timeouts, beat>>
    BY <1>5 DEF Finish, Settle, history, ReaderInv, TypeInv
  <2>2. TypeInv'
    <3>1. active' \subseteq Keys
      BY <2>1 DEF StillActive, ReaderInv, TypeInv, Ticks
    <3> QED
      BY <2>1, <3>1 DEF ReaderInv, TypeInv
  <2>3. ASSUME timeouts = 0 PROVE AlarmInv'
    <3>1. alarmed = notified \ tick.cancelled
      BY <2>1, <2>3 DEF ReaderInv, AlarmInv, Heard
    <3>2. /\ alarmed \subseteq tick.firing \cup (active \cap tick.held)
          /\ gone \cap (tick.firing \cup tick.held) = {}
          /\ \A k \in Keys : sincePost[k] = sinceStamp[k]
      BY <2>1, <2>3 DEF ReaderInv, AlarmInv
    <3>3. alarmed' = notified' /\ alarmed' \subseteq active' /\ active' \cap gone' = {}
      BY <2>1, <3>1, <3>2 DEF StillActive
    <3> QED
      BY <2>1, <3>2, <3>3 DEF AlarmInv
  <2> QED
    BY <2>1, <2>2, <2>3 DEF ReaderInv
<1>6. ASSUME Timeout PROVE ReaderInv'
  <2>1. timeouts' # 0 /\ TypeInv'
    BY <1>6, NotifierAssumption
       DEF Timeout, memory, history, ReaderInv, TypeInv, NotifierAssumption
  <2> QED
    BY <2>1 DEF ReaderInv
<1>7. CASE UNCHANGED vars
  BY <1>7 DEF vars, memory, call, history, ReaderInv, TypeInv, AlarmInv, Heard
<1> QED
  BY <1>1, <1>2, <1>3, <1>4, <1>5, <1>6, <1>7 DEF Next, Step

LEMMA ReaderInductive == Spec => [](IInv /\ ReaderInv)
BY InitIInv, NextIInv, InitReader, NextReader, PTL DEF Spec

\* Until a call is cancelled the notifier tracks every alarm its reader was given,
\* and announces no recovery of a key nobody watches (alerts.py:635-647, 671-686).
THEOREM AlarmsAreTracked == Spec => []AlarmsTracked
<1>1. IInv /\ ReaderInv => TypeOK
  BY DEF IInv, InStep, CallInv, ReaderInv, TypeInv, TypeOK
<1>2. IInv /\ ReaderInv => AlarmTracked /\ NoAllClearForGone
  BY DEF ReaderInv, AlarmInv, AlarmTracked, NoAllClearForGone
<1> QED
  BY <1>1, <1>2, ReaderInductive, PTL DEF AlarmsTracked

\* Until a call is cancelled the channel keeps the promise of Pager to its reader:
\* the cooldown before every alarm, an all-clear only for an open alarm
\* (alerts.py:3-5, 633-664).
THEOREM MessagesImplementPager == Spec => MessagesArePager
<1>1. Init => Messages!Init
  BY DEF Init, Messages!Init
<1>2. ASSUME IInv, ReaderInv, [Next]_vars, timeouts' = 0
      PROVE  Messages!Next \/ UNCHANGED <<alarmed, sincePost>>
  <2> USE DEF Messages!Next
  <2>1. ASSUME NEW t \in Ticks, NEW d \in Gaps, Process(t, d) PROVE Messages!Silence
    BY <2>1 DEF Process, Messages!Silence, Messages!Elapse, Elapse
  <2>2. ASSUME NEW k \in Keys, PostFire(k) PROVE Messages!Alarm(k)
    <3>1. timeouts = 0 /\ cur = {} /\ sinceStamp[k] = Repeat
      BY <1>2, <2>2 DEF PostFire, IInv, CallInv, ReaderInv, TypeInv
    <3>2. sincePost[k] = Repeat
      BY <1>2, <3>1 DEF ReaderInv, AlarmInv
    <3> QED
      BY <2>2, <3>2, NotifierAssumption DEF PostFire, Messages!Alarm, NotifierAssumption
  <2>3. ASSUME NEW k \in Keys, PostRecover(k) PROVE Messages!AllClear(k)
    <3>1. timeouts = 0 /\ k \in notified /\ k \notin tick.cancelled
      BY <1>2, <2>3 DEF PostRecover, IInv, CallInv, ReaderInv, TypeInv
    <3>2. k \in alarmed
      BY <1>2, <2>3, <3>1 DEF PostRecover, ReaderInv, AlarmInv, Heard
    <3> QED
      BY <2>3, <3>2 DEF PostRecover, Messages!AllClear
  <2>4. CASE Stamp \/ Finish \/ Timeout \/ UNCHANGED vars
    BY <2>4 DEF Stamp, Finish, Timeout, vars, history
  <2> QED
    BY <1>2, <2>1, <2>2, <2>3, <2>4 DEF Next, Step
<1>3. IInv /\ ReaderInv /\ [Next]_vars
        => [timeouts' = 0 => Messages!Next]_<<alarmed, sincePost>>
  BY <1>2
<1> QED
  BY <1>1, <1>3, ReaderInductive, PTL DEF Spec, MessagesArePager
=============================================================================
