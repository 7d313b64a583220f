----------------------------- MODULE Collectors -----------------------------
(***************************************************************************)
(* The background loops that keep the latest answer of every backend       *)
(* (app.py:85-151).  Each polls its backend under a bound of its own and   *)
(* writes what it learned into _backend_latest, which the sampling loop    *)
(* reads at its own pace.  The GPU probe blocks, so it runs in an executor *)
(* thread: the bound gives up on the answer, not on the thread, and a      *)
(* semaphore keeps the loop from piling up threads that never return.      *)
(*                                                                         *)
(* The backends themselves are the environment: what state each is in      *)
(* decides how a poll may end.                                             *)
(***************************************************************************)
EXTENDS Naturals

CONSTANTS Backends,  \* litellm, ollama, llamacpp, vllm, gpu
          Gpu,       \* the one polled in an executor thread
          Permits    \* of _GPU_SEM, and threads of _GPU_EXECUTOR

VARIABLES
    health,    \* the environment: the state each backend is really in
    cache,     \* _backend_latest: what its latest entry says
    pc,        \* per loop: "asleep" or "polling"
    permits,   \* of the semaphore
    running,   \* is the probe the GPU loop awaits still in its thread?
    stranded   \* probe threads whose answer nobody awaits any more

vars == <<health, cache, pc, permits, running, stranded>>

Health == {"good", "bad", "hung", "absent"}

\* What a poll that returns reports: an answer, an error, or "unconfigured".
Verdict == {"up", "down", "none"}
Answer(h) == CASE h = "good" -> "up" [] h = "bad" -> "down" [] h = "absent" -> "none"

Init ==
    /\ health \in [Backends -> Health]
    /\ cache = [b \in Backends |-> "none"]   \* "starting"
    /\ pc = [b \in Backends |-> "asleep"]
    /\ permits = Permits /\ running = FALSE /\ stranded = 0

\* A backend breaks down, hangs, is taken away or gets well.
Turn(b, h) ==
    /\ health[b] # h /\ health' = [health EXCEPT ![b] = h]
    /\ UNCHANGED <<cache, pc, permits, running, stranded>>

-----------------------------------------------------------------------------
\* The loop wakes up and polls.  An HTTP collector awaits its answer ...
Poll(b) ==
    /\ pc[b] = "asleep" /\ b # Gpu
    /\ pc' = [pc EXCEPT ![b] = "polling"]
    /\ UNCHANGED <<health, cache, permits, running, stranded>>

\* ... the GPU collector takes a permit and submits its probe ...
Probe ==
    /\ pc[Gpu] = "asleep" /\ permits > 0
    /\ pc' = [pc EXCEPT ![Gpu] = "polling"]
    /\ permits' = permits - 1 /\ running' = TRUE
    /\ UNCHANGED <<health, cache, stranded>>

\* ... or finds every permit with a wedged thread, and says so.
ProbeRefused ==
    /\ pc[Gpu] = "asleep" /\ permits = 0
    /\ cache' = [cache EXCEPT ![Gpu] = "down"]
    /\ UNCHANGED <<health, pc, permits, running, stranded>>

\* The poll ends in time with an answer or an exception.
Return(b) ==
    /\ pc[b] = "polling" /\ b # Gpu /\ health[b] # "hung"
    /\ cache' = [cache EXCEPT ![b] = Answer(health[b])]
    /\ pc' = [pc EXCEPT ![b] = "asleep"]
    /\ UNCHANGED <<health, permits, running, stranded>>

\* The probe's thread ends: its done-callback returns the permit, and the loop
\* gets the answer.
ProbeReturn ==
    /\ running /\ health[Gpu] # "hung"
    /\ cache' = [cache EXCEPT ![Gpu] = Answer(health[Gpu])]
    /\ pc' = [pc EXCEPT ![Gpu] = "asleep"]
    /\ permits' = permits + 1 /\ running' = FALSE
    /\ UNCHANGED <<health, stranded>>

\* Mutant of TimeOut: the previous sample stays in place.
TimeOutKeepsSample(b) ==
    /\ pc[b] = "polling" /\ health[b] = "hung"
    /\ pc' = [pc EXCEPT ![b] = "asleep"]
    /\ IF b = Gpu THEN running' = FALSE /\ stranded' = stranded + 1
       ELSE UNCHANGED <<running, stranded>>
    /\ UNCHANGED <<health, cache, permits>>

\* Mutant of TimeOut: the permit is returned when the await gives up.
TimeOutReleases(b) ==
    /\ pc[b] = "polling" /\ health[b] = "hung"
    /\ cache' = [cache EXCEPT ![b] = "down"]
    /\ pc' = [pc EXCEPT ![b] = "asleep"]
    /\ IF b = Gpu THEN running' = FALSE /\ stranded' = stranded + 1 /\ permits' = permits + 1
       ELSE UNCHANGED <<running, stranded, permits>>
    /\ UNCHANGED health

\* wait_for gives up: recorded as a failure.  A probe's thread lives on with its
\* permit.
TimeOut(b) ==
    /\ pc[b] = "polling" /\ health[b] = "hung"
    /\ cache' = [cache EXCEPT ![b] = "down"]
    /\ pc' = [pc EXCEPT ![b] = "asleep"]
    /\ IF b = Gpu THEN running' = FALSE /\ stranded' = stranded + 1
       ELSE UNCHANGED <<running, stranded>>
    /\ UNCHANGED <<health, permits>>

\* Mutant of LateReturn: the permit of an abandoned probe is lost.
LateReturnLosesPermit ==
    /\ stranded > 0 /\ health[Gpu] # "hung"
    /\ stranded' = stranded - 1
    /\ UNCHANGED <<health, cache, pc, running, permits>>

\* A stranded thread ends after all; its answer goes nowhere.
LateReturn ==
    /\ stranded > 0 /\ health[Gpu] # "hung"
    /\ stranded' = stranded - 1 /\ permits' = permits + 1
    /\ UNCHANGED <<health, cache, pc, running>>

LoopStep(b) ==
    \/ Poll(b) \/ Return(b) \/ TimeOut(b)
    \/ b = Gpu /\ (Probe \/ ProbeRefused \/ ProbeReturn)

-----------------------------------------------------------------------------
TypeOK ==
    /\ health \in [Backends -> Health] /\ cache \in [Backends -> Verdict]
    /\ pc \in [Backends -> {"asleep", "polling"}]
    /\ permits \in 0..Permits /\ running \in BOOLEAN /\ stranded \in Nat

\* However often the driver hangs, probes never outnumber the threads of their
\* executor, so none of them waits in its queue, and every permit is either free
\* or with a live thread (app.py:100-108).
ProbesBounded == permits + stranded + (IF running THEN 1 ELSE 0) = Permits
=============================================================================
