------------------------------ MODULE WorkerPool ------------------------------
(***************************************************************************)
(* The worker threads of src/src/queue/worker_pool.cpp on top of the queue *)
(* they drain.  Consumers are the pool's threads.  The producers and the   *)
(* thread that shuts the queue down are left free here; Pipeline ties them *)
(* to the program.                                                         *)
(***************************************************************************)
EXTENDS PacketQueue

ASSUME PoolNotEmpty == Consumers # {}   \* the constructor turns 0 into 1

VARIABLES
    worker,      \* where each thread is in worker_loop()
    analysed,    \* history: how often analyze_ was given each packet
    processed,   \* processed_
    batches      \* batches_

poolVars == <<worker, analysed, processed, batches>>

WorkerPC == {"new", "looping", "popping", "counting", "exited"}

PoolInit ==
    /\ worker = [w \in Consumers |-> "new"]
    /\ analysed = [k \in PacketIds |-> 0]
    /\ processed = 0
    /\ batches = 0

\* One emplace_back of start(): the thread may run before the next exists.
StartWorker(w) ==
    /\ worker[w] = "new"
    /\ worker' = [worker EXCEPT ![w] = "looping"]
    /\ UNCHANGED <<analysed, processed, batches>>
    /\ UNCHANGED queueVars

\* worker_loop(): enter pop_batch(), ...
WorkerPop(w) ==
    /\ worker[w] = "looping"
    /\ PopCall(w)
    /\ worker' = [worker EXCEPT ![w] = "popping"]
    /\ UNCHANGED <<analysed, processed, batches>>

\* ... which returned a batch to analyse, ...
InBatch(k, w) == \E i \in DOMAIN batch[w] : batch[w][i] = k
WorkerAnalyze(w) ==
    /\ worker[w] = "popping" /\ pc[w] = "idle" /\ batch[w] # <<>>
    /\ analysed' = [k \in PacketIds |->
                       IF InBatch(k, w) THEN analysed[k] + 1 ELSE analysed[k]]
    /\ worker' = [worker EXCEPT ![w] = "counting"]
    /\ UNCHANGED <<processed, batches>>
    /\ UNCHANGED queueVars

\* Mutants: the counter counts batches, and the loop keeps the old batch.
WorkerCountOne(w) ==
    /\ worker[w] = "counting"
    /\ processed' = processed + 1
    /\ batches' = batches + 1
    /\ worker' = [worker EXCEPT ![w] = "looping"]
    /\ UNCHANGED analysed
    /\ UNCHANGED queueVars
WorkerCountStale(w) ==
    /\ worker[w] = "counting"
    /\ processed' = processed + Len(batch[w])
    /\ batches' = batches + 1
    /\ worker' = [worker EXCEPT ![w] = "popping"]
    /\ UNCHANGED analysed
    /\ UNCHANGED queueVars

\* ... and then to count, or ...
WorkerCount(w) ==
    /\ worker[w] = "counting"
    /\ processed' = processed + Len(batch[w])
    /\ batches' = batches + 1
    /\ worker' = [worker EXCEPT ![w] = "looping"]
    /\ UNCHANGED analysed
    /\ UNCHANGED queueVars

\* Mutant: the thread leaves as soon as the queue is shut down.
WorkerCheckShutdown(w) ==
    /\ worker[w] = "popping" /\ pc[w] = "idle" /\ batch[w] = <<>>
    /\ worker' = [worker EXCEPT ![w] = IF shutdown THEN "exited" ELSE "looping"]
    /\ UNCHANGED <<analysed, processed, batches>>
    /\ UNCHANGED queueVars

\* ... an empty one, which ends the thread only if the queue is finished.
WorkerCheck(w) ==
    /\ worker[w] = "popping" /\ pc[w] = "idle" /\ batch[w] = <<>>
    /\ worker' = [worker EXCEPT ![w] = IF is_finished THEN "exited" ELSE "looping"]
    /\ UNCHANGED <<analysed, processed, batches>>
    /\ UNCHANGED queueVars

WorkerStep(w) == WorkerPop(w) \/ WorkerAnalyze(w) \/ WorkerCount(w) \/ WorkerCheck(w)

\* A thread inside pop_batch().
WorkerInPop(w) == (PopStep(w) \/ Expiry(w)) /\ UNCHANGED poolVars

\* join() returns.
Joined == \A w \in Consumers : worker[w] = "exited"

-----------------------------------------------------------------------------
(* The pool with free clients                                              *)

allPoolVars == <<queueVars, poolVars>>

PoolNext ==
    \/ \E w \in Consumers : StartWorker(w) \/ WorkerStep(w) \/ WorkerInPop(w)
    \/ /\ \/ \E p \in Producers : PushCall(p) \/ PushStep(p)
          \/ ShutdownCall \/ ShutdownStep
          \/ \E t \in Threads : Spurious(t)
       /\ UNCHANGED poolVars
    \/ Joined /\ UNCHANGED allPoolVars

PoolSpec == QueueInit /\ PoolInit /\ [][PoolNext]_allPoolVars

\* Started threads run and a linger ends.  The poll timeout is not counted on,
\* so that a packet which only that timeout would rescue shows up as lost.
PoolFairness ==
    /\ \A p \in Producers : WF_allPoolVars(PushStep(p) /\ UNCHANGED poolVars)
    /\ \A w \in Consumers :
          /\ WF_allPoolVars(StartWorker(w))
          /\ WF_allPoolVars(WorkerStep(w))
          /\ WF_allPoolVars(PopStep(w) /\ UNCHANGED poolVars)
          /\ WF_allPoolVars(LingerExpire(w) /\ UNCHANGED poolVars)
    /\ WF_allPoolVars(ShutdownStep /\ UNCHANGED poolVars)

PoolFairSpec == PoolSpec /\ PoolFairness

-----------------------------------------------------------------------------
(* Properties                                                              *)

\* Types of the pool's variables; a thread is inside pop_batch() only when
\* worker_loop() called it.
PoolTypeOK ==
    /\ worker \in [Consumers -> WorkerPC]
    /\ analysed \in [PacketIds -> Nat]
    /\ processed \in Nat /\ batches \in Nat
    /\ \A w \in Consumers : pc[w] # "idle" => worker[w] = "popping"

\* Packets a worker took and has not handed to analyze_ yet.
InHand(k) == \E w \in Consumers : worker[w] = "popping" /\ InBatch(k, w)
Popped(k) == \E i \in DOMAIN popped : popped[i] = k

\* analyze_ sees every packet that left the queue once and no other: until
\* then exactly one worker holds it.
AnalysedOnce ==
    \A k \in PacketIds :
        /\ analysed[k] <= 1
        /\ Popped(k) <=> (analysed[k] = 1 \/ InHand(k))
        /\ ~(analysed[k] = 1 /\ InHand(k))

\* Packet j is in s, and packet k does not come before it.
Ahead(s, j, k) == \E m \in DOMAIN s : s[m] = j /\ \A n \in 1..m : s[n] # k

\* Workers analyse at their own pace, so a packet may be analysed before one
\* that was queued earlier; but only while a worker holds the earlier one,
\* and never ahead of it in the same batch.  So one worker analyses in the
\* order of the queue, and that is all the disorder the flow tracker's time
\* windows have to bear.
OvertakenInHand ==
    \A i, j \in DOMAIN pushed :
        (i < j /\ Popped(pushed[j]) /\ analysed[pushed[i]] = 0) =>
            \E w \in Consumers :
                worker[w] = "popping" /\ Ahead(batch[w], pushed[i], pushed[j])

\* A worker exits only when the queue is shut down and drained for good.
ExitOnlyWhenDrained ==
    (\E w \in Consumers : worker[w] = "exited") => shutdown /\ popped = pushed

\* Once every worker has exited, the counters agree with what was accepted.
JoinedMeansProcessed ==
    Joined => /\ processed = Len(pushed)
              /\ \A i \in DOMAIN pushed : analysed[pushed[i]] = 1
              /\ batches <= processed

\* After shutdown() every worker exits, so join() returns, even if the poll
\* timeout never fires.
PoolTerminates == shutdown ~> Joined
=============================================================================
