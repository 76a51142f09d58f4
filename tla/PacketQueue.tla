----------------------------- MODULE PacketQueue -----------------------------
(***************************************************************************)
(* The bounded producer-consumer queue of src/src/queue/packet_queue.cpp.  *)
(*                                                                         *)
(* A critical section under mutex_ is one action.  A condition variable is *)
(* the set of threads asleep on it; a thread in a wait state that is not   *)
(* in that set has been woken and is on its way back to the mutex.  The    *)
(* notifications are made after the mutex is released, so each one is an   *)
(* action of its own that other threads may get ahead of.                  *)
(***************************************************************************)
EXTENDS Naturals, Sequences, FiniteSets

CONSTANTS
    Producers,   \* threads that call push()
    Consumers,   \* threads that call pop_batch()
    Main,        \* the thread that calls shutdown()
    Capacity,    \* capacity_
    MaxN,        \* max_n, the batch size every consumer asks for
    Linger,      \* linger.count() > 0
    MaxPackets   \* bound: how many packets are ever handed to push()

Threads == Producers \cup Consumers \cup {Main}
PacketIds == 1..MaxPackets

ASSUME ThreadsDistinct ==
    /\ Producers \cap Consumers = {}
    /\ Main \notin Producers \cup Consumers
ASSUME SizesPositive ==      \* main.cpp refuses a zero capacity or batch size
    /\ Capacity \in Nat \ {0}
    /\ MaxN \in Nat \ {0}
ASSUME LingerBoolean == Linger \in BOOLEAN
ASSUME BoundNatural == MaxPackets \in Nat

VARIABLES
    items,       \* items_, the queued packets, front first
    wanted,      \* wanted_
    shutdown,    \* shutdown_
    not_full,    \* threads asleep on not_full_
    not_empty,   \* threads asleep on not_empty_
    pc,          \* where each thread is inside push/pop_batch/shutdown
    arg,         \* the packet a blocked push() holds
    batch,       \* what each consumer's last pop_batch() returned
    calls,       \* packets handed to push() so far; packet k is the k-th
    pushed,      \* history: the packets appended to items_, in order
    popped,      \* history: the packets moved out of items_, in order
    rejected     \* history: the packets push() returned false for

queueVars == <<items, wanted, shutdown, not_full, not_empty, pc, arg, batch,
               calls, pushed, popped, rejected>>

ProducerPC == {"idle", "push_wait", "push_notify"}
ConsumerPC == {"idle", "pop_wait", "pop_expired", "linger_wait",
               "linger_expired", "notify_full", "notify_both", "notify_empty"}
MainPC == {"idle", "notify_full", "notify_empty", "done"}

QueueInit ==
    /\ items = <<>>
    /\ wanted = 1
    /\ shutdown = FALSE
    /\ not_full = {}
    /\ not_empty = {}
    /\ pc = [t \in Threads |-> "idle"]
    /\ arg = [p \in Producers |-> 0]
    /\ batch = [c \in Consumers |-> <<>>]
    /\ calls = 0
    /\ pushed = <<>>
    /\ popped = <<>>
    /\ rejected = {}

-----------------------------------------------------------------------------
(* std::condition_variable: notify_one wakes any one sleeper, notify_all   *)
(* all of them, and a notification nobody is asleep for is lost.           *)

NotifyOne(cv) == {cv \ {t} : t \in cv} \cup {x \in {cv} : cv = {}}
NotifyAll(cv) == {}

Goto(t, label) == pc' = [pc EXCEPT ![t] = label]

-----------------------------------------------------------------------------
(* push()                                                                  *)

\* Mutant: the capacity test is off by one.
HasSpaceOffByOne == Len(items) <= Capacity

HasSpace == Len(items) < Capacity

\* Mutants: push() forgets one of its two reasons to notify.
WakeOnFirst(size) == size = 1
WakeOnFull(size) == size = wanted

\* push() wakes a consumer when the queue becomes non-empty or holds the
\* batch size consumers last asked for.
Wake(size) == size = 1 \/ size = wanted

\* Mutant: push() drops the packet when the queue is full.
PushDrop(p, x) ==
    /\ ~HasSpace /\ ~shutdown
    /\ Goto(p, "idle")
    /\ arg' = [arg EXCEPT ![p] = 0]
    /\ UNCHANGED <<items, not_full, pushed, rejected>>

PushSleep(p, x) ==
    /\ ~HasSpace /\ ~shutdown
    /\ not_full' = not_full \cup {p}
    /\ arg' = [arg EXCEPT ![p] = x]
    /\ Goto(p, "push_wait")
    /\ UNCHANGED <<items, pushed, rejected>>

\* Mutant: push() appends before it looks at shutdown_.
PushRefuseLate(p, x) ==
    /\ shutdown
    /\ items' = Append(items, x)
    /\ pushed' = Append(pushed, x)
    /\ rejected' = rejected \cup {x}
    /\ arg' = [arg EXCEPT ![p] = 0]
    /\ Goto(p, "idle")
    /\ UNCHANGED not_full

PushRefuse(p, x) ==
    /\ shutdown
    /\ rejected' = rejected \cup {x}
    /\ arg' = [arg EXCEPT ![p] = 0]
    /\ Goto(p, "idle")
    /\ UNCHANGED <<items, pushed, not_full>>

\* Mutant: the newest packet goes to the front of the queue.
PushAppendFront(p, x) ==
    /\ HasSpace /\ ~shutdown
    /\ items' = <<x>> \o items
    /\ pushed' = Append(pushed, x)
    /\ arg' = [arg EXCEPT ![p] = 0]
    /\ Goto(p, IF Wake(Len(items) + 1) THEN "push_notify" ELSE "idle")
    /\ UNCHANGED <<not_full, rejected>>

PushAppend(p, x) ==
    /\ HasSpace /\ ~shutdown
    /\ items' = Append(items, x)
    /\ pushed' = Append(pushed, x)
    /\ arg' = [arg EXCEPT ![p] = 0]
    /\ Goto(p, IF Wake(Len(items) + 1) THEN "push_notify" ELSE "idle")
    /\ UNCHANGED <<not_full, rejected>>

\* The critical section of push() from wherever the mutex was taken.
PushSection(p, x) ==
    /\ PushSleep(p, x) \/ PushRefuse(p, x) \/ PushAppend(p, x)
    /\ UNCHANGED <<wanted, shutdown, not_empty, batch, popped>>

PushCall(p) ==
    /\ pc[p] = "idle"
    /\ calls < MaxPackets
    /\ calls' = calls + 1
    /\ PushSection(p, calls + 1)

PushResume(p) ==
    /\ pc[p] = "push_wait" /\ p \notin not_full
    /\ PushSection(p, arg[p])
    /\ UNCHANGED calls

PushNotify(p) ==
    /\ pc[p] = "push_notify"
    /\ not_empty' \in NotifyOne(not_empty)
    /\ Goto(p, "idle")
    /\ UNCHANGED <<items, wanted, shutdown, not_full, arg, batch, calls,
                   pushed, popped, rejected>>

-----------------------------------------------------------------------------
(* pop_batch()                                                             *)

\* Mutant: the first wait does not look at shutdown_.
FirstWaitForItems == items # <<>>

FirstWaitOver == items # <<>> \/ shutdown
LingerOver == Len(items) >= MaxN \/ shutdown

\* Mutant: a long queue gives one packet less than asked for.
BatchSizeShort == IF MaxN < Len(items) THEN MaxN - 1 ELSE Len(items)

BatchSize == IF MaxN < Len(items) THEN MaxN ELSE Len(items)

\* Mutants: "else if" between the two notifications, no hand-off to another
\* consumer, no notification of not_full_ at all.
AfterTakeElse(n, left) ==
    IF n = 0 THEN "idle" ELSE IF left > 0 THEN "notify_empty" ELSE "notify_full"
AfterTakeNoHandoff(n, left) == IF n = 0 THEN "idle" ELSE "notify_full"
AfterTakeSilent(n, left) == IF left > 0 THEN "notify_empty" ELSE "idle"

\* Where a consumer goes once it has released the mutex with n packets:
\* not_full_ is notified when it took any, not_empty_ when it left some.
AfterTake(n, left) ==
    IF n = 0 THEN "idle" ELSE IF left > 0 THEN "notify_both" ELSE "notify_full"

\* Mutant: the loop pops one packet more than it moves.
TakeBatchSkipping(c) ==
    /\ batch' = [batch EXCEPT ![c] = SubSeq(items, 1, BatchSize)]
    /\ popped' = popped \o SubSeq(items, 1, BatchSize)
    /\ items' = SubSeq(items, BatchSize + 2, Len(items))
    /\ Goto(c, AfterTake(BatchSize, Len(items) - BatchSize))
    /\ UNCHANGED not_empty

TakeBatch(c) ==
    /\ batch' = [batch EXCEPT ![c] = SubSeq(items, 1, BatchSize)]
    /\ popped' = popped \o SubSeq(items, 1, BatchSize)
    /\ items' = SubSeq(items, BatchSize + 1, Len(items))
    /\ Goto(c, AfterTake(BatchSize, Len(items) - BatchSize))
    /\ UNCHANGED not_empty

Sleep(c, label) ==
    /\ not_empty' = not_empty \cup {c}
    /\ batch' = [batch EXCEPT ![c] = <<>>]
    /\ Goto(c, label)
    /\ UNCHANGED <<items, popped>>

\* The code after the first wait: linger for a fuller batch, or take one.
MustLinger == items # <<>> /\ Len(items) < MaxN /\ ~shutdown /\ Linger
AfterFirstWait(c) ==
    \/ MustLinger /\ Sleep(c, "linger_wait")
    \/ ~MustLinger /\ TakeBatch(c)

PopSection(c) ==
    \/ ~FirstWaitOver /\ Sleep(c, "pop_wait")
    \/ FirstWaitOver /\ AfterFirstWait(c)

popUnchanged == <<shutdown, not_full, arg, calls, pushed, rejected>>

\* Mutant: wanted_ is set to what is missing, not to the batch size.
PopCallMissing(c) ==
    /\ pc[c] = "idle"
    /\ wanted' = MaxN - Len(items)
    /\ PopSection(c)
    /\ UNCHANGED popUnchanged

PopCall(c) ==
    /\ pc[c] = "idle"
    /\ wanted' = MaxN
    /\ PopSection(c)
    /\ UNCHANGED popUnchanged

PopResume(c) ==
    /\ pc[c] = "pop_wait" /\ c \notin not_empty
    /\ PopSection(c)
    /\ UNCHANGED <<popUnchanged, wanted>>

PopExpired(c) ==
    /\ pc[c] = "pop_expired"
    /\ AfterFirstWait(c)
    /\ UNCHANGED <<popUnchanged, wanted>>

LingerResume(c) ==
    /\ pc[c] = "linger_wait" /\ c \notin not_empty
    /\ \/ ~LingerOver /\ Sleep(c, "linger_wait")
       \/ LingerOver /\ TakeBatch(c)
    /\ UNCHANGED <<popUnchanged, wanted>>

LingerExpired(c) ==
    /\ pc[c] = "linger_expired"
    /\ TakeBatch(c)
    /\ UNCHANGED <<popUnchanged, wanted>>

\* The deadline of a timed wait passes.  The thread no longer counts as a
\* sleeper, but it still has to get the mutex back; a thread that was also
\* notified has used that notification up.
PopExpire(c) ==
    /\ pc[c] = "pop_wait"
    /\ not_empty' = not_empty \ {c}
    /\ Goto(c, "pop_expired")
    /\ UNCHANGED <<popUnchanged, wanted, items, batch, popped>>

LingerExpire(c) ==
    /\ pc[c] = "linger_wait"
    /\ not_empty' = not_empty \ {c}
    /\ Goto(c, "linger_expired")
    /\ UNCHANGED <<popUnchanged, wanted, items, batch, popped>>

PopNotifyFull(c) ==
    /\ pc[c] \in {"notify_full", "notify_both"}
    /\ not_full' = NotifyAll(not_full)
    /\ Goto(c, IF pc[c] = "notify_both" THEN "notify_empty" ELSE "idle")
    /\ UNCHANGED <<items, wanted, shutdown, not_empty, arg, batch, calls,
                   pushed, popped, rejected>>

PopNotifyEmpty(c) ==
    /\ pc[c] = "notify_empty"
    /\ not_empty' \in NotifyOne(not_empty)
    /\ Goto(c, "idle")
    /\ UNCHANGED <<items, wanted, shutdown, not_full, arg, batch, calls,
                   pushed, popped, rejected>>

-----------------------------------------------------------------------------
(* shutdown(), and the wakeups the C++ standard allows at any time         *)

ShutdownCall ==
    /\ pc[Main] = "idle"
    /\ shutdown' = TRUE
    /\ Goto(Main, "notify_full")
    /\ UNCHANGED <<items, wanted, not_full, not_empty, arg, batch, calls,
                   pushed, popped, rejected>>

ShutdownNotifyFull ==
    /\ pc[Main] = "notify_full"
    /\ not_full' = NotifyAll(not_full)
    /\ Goto(Main, "notify_empty")
    /\ UNCHANGED <<items, wanted, shutdown, not_empty, arg, batch, calls,
                   pushed, popped, rejected>>

\* Mutant: shutdown() notifies one consumer only.
ShutdownNotifyEmptyOne ==
    /\ pc[Main] = "notify_empty"
    /\ not_empty' \in NotifyOne(not_empty)
    /\ Goto(Main, "done")
    /\ UNCHANGED <<items, wanted, shutdown, not_full, arg, batch, calls,
                   pushed, popped, rejected>>

ShutdownNotifyEmpty ==
    /\ pc[Main] = "notify_empty"
    /\ not_empty' = NotifyAll(not_empty)
    /\ Goto(Main, "done")
    /\ UNCHANGED <<items, wanted, shutdown, not_full, arg, batch, calls,
                   pushed, popped, rejected>>

Spurious(t) ==
    /\ t \in not_full \cup not_empty
    /\ not_full' = not_full \ {t}
    /\ not_empty' = not_empty \ {t}
    /\ UNCHANGED <<items, wanted, shutdown, pc, arg, batch, calls, pushed,
                   popped, rejected>>

is_finished == shutdown /\ items = <<>>

-----------------------------------------------------------------------------
(* The steps of a call once it has started, and a queue whose clients call *)
(* it in any order.                                                        *)

PushStep(p) == PushResume(p) \/ PushNotify(p)
PopStep(c) ==
    \/ PopResume(c) \/ PopExpired(c) \/ LingerResume(c) \/ LingerExpired(c)
    \/ PopNotifyFull(c) \/ PopNotifyEmpty(c)
Expiry(c) == PopExpire(c) \/ LingerExpire(c)
ShutdownStep == ShutdownNotifyFull \/ ShutdownNotifyEmpty

QueueNext ==
    \/ \E p \in Producers : PushCall(p) \/ PushStep(p)
    \/ \E c \in Consumers : PopCall(c) \/ PopStep(c) \/ Expiry(c)
    \/ ShutdownCall \/ ShutdownStep
    \/ \E t \in Threads : Spurious(t)

QueueSpec == QueueInit /\ [][QueueNext]_queueVars

-----------------------------------------------------------------------------
(* Properties                                                              *)

ControlTypeOK ==
    /\ pc \in [Threads -> ProducerPC \cup ConsumerPC \cup MainPC]
    /\ \A p \in Producers : pc[p] \in ProducerPC
    /\ \A c \in Consumers : pc[c] \in ConsumerPC
    /\ pc[Main] \in MainPC
    /\ not_full \subseteq {p \in Producers : pc[p] = "push_wait"}
    /\ not_empty \subseteq
          {c \in Consumers : pc[c] \in {"pop_wait", "linger_wait"}}

DataTypeOK ==
    /\ items \in Seq(PacketIds)
    /\ pushed \in Seq(PacketIds)
    /\ popped \in Seq(PacketIds)
    /\ wanted \in {1, MaxN}
    /\ shutdown \in BOOLEAN
    /\ arg \in [Producers -> PacketIds \cup {0}]
    /\ \A p \in Producers : pc[p] = "push_wait" => arg[p] \in PacketIds
    /\ batch \in [Consumers -> Seq(PacketIds)]
    /\ calls \in 0..MaxPackets
    /\ rejected \subseteq PacketIds

\* Every variable has its type, and only threads inside the matching wait
\* are asleep on a condition variable.
QueueTypeOK == ControlTypeOK /\ DataTypeOK

\* The queue never holds more than its capacity: push() blocks instead
\* (packet_queue.hpp: "push() blocks while full rather than dropping packets").
WithinCapacity == Len(items) <= Capacity

\* Packets leave in exactly the order they were appended, none twice.
Fifo == pushed = popped \o items

Accepted == {pushed[i] : i \in DOMAIN pushed}
Blocked == {p \in Producers : pc[p] = "push_wait"}

\* Every packet ever given to push() was appended, is held by a blocked
\* push(), or was refused, and push() refuses only after shutdown().
NothingDropped ==
    /\ 1..calls = Accepted \cup rejected \cup {arg[p] : p \in Blocked}
    /\ rejected # {} => shutdown

\* A packet has one fate: it is appended at most once, and a packet whose
\* push() returned false or is still blocked has not been appended.
OneFate ==
    /\ \A i, j \in DOMAIN pushed : pushed[i] = pushed[j] => i = j
    /\ Accepted \cap rejected = {}
    /\ \A p \in Blocked : arg[p] \notin Accepted \cup rejected
    /\ \A p, q \in Blocked : arg[p] = arg[q] => p = q

\* The inductive invariant behind the delivery properties.
OrderInv == Fifo /\ NothingDropped /\ OneFate

\* A producer sleeps on not_full_ (a wait with no timeout) only while the
\* queue is full and open, or some thread is still about to notify not_full_.
NoLostPushWakeup ==
    not_full # {} =>
        \/ ~HasSpace /\ ~shutdown
        \/ \E c \in Consumers : pc[c] \in {"notify_full", "notify_both"}
        \/ pc[Main] = "notify_full"

\* Threads that will look at the queue, or wake one that will.
Signalled(c) == pc[c] \in {"pop_wait", "linger_wait"} /\ c \notin not_empty
Attending ==
    \/ \E p \in Producers : pc[p] = "push_notify"
    \/ \E c \in Consumers :
          \/ pc[c] \in {"pop_expired", "linger_expired", "notify_both",
                        "notify_empty"}
          \/ Signalled(c)
    \/ pc[Main] \in {"notify_full", "notify_empty"}

\* While packets are queued, a consumer sleeps in its first wait only if
\* another thread is going to deal with them without waiting for the poll
\* timeout: it is awake, about to notify, or lingering.
NoStrandedPackets ==
    (items # <<>> /\ \E c \in not_empty : pc[c] = "pop_wait")
        => Attending \/ \E c \in Consumers : pc[c] = "linger_wait"

\* With a full batch queued, nobody sleeps on not_empty_, not even a
\* lingerer, unless a thread is awake or about to notify (push() notifies at
\* size == wanted_, pop_batch() when it leaves packets behind).
FullBatchHandoff ==
    (Len(items) >= MaxN /\ not_empty # {}) => Attending

\* After shutdown() no consumer is left asleep, except while shutdown() is
\* still on its way to notifying not_empty_: none goes to sleep behind it.
ShutdownWakesAll ==
    (shutdown /\ not_empty # {}) => pc[Main] \in {"notify_full", "notify_empty"}

\* wanted_ holds the consumers' batch size whenever a consumer is inside
\* pop_batch(), and shutdown_ is what the Main thread made it.
WantedKnown == \A c \in Consumers : pc[c] # "idle" => wanted = MaxN
ShutdownByMain == shutdown <=> pc[Main] # "idle"

\* The inductive invariant behind the wakeup properties.
WakeInv ==
    /\ WithinCapacity
    /\ WantedKnown
    /\ ShutdownByMain
    /\ NoLostPushWakeup
    /\ NoStrandedPackets
    /\ FullBatchHandoff
    /\ ShutdownWakesAll

\* The k-th packet appended is eventually taken out, without counting on
\* the poll timeout.
Delivered ==
    \A k \in 1..MaxPackets : (k <= Len(pushed)) ~> (k <= Len(popped))

\* A push() blocked by a full queue returns (backpressure is released).
PushReturns ==
    \A p \in Producers : (pc[p] = "push_wait") ~> (pc[p] # "push_wait")

Channel == INSTANCE BoundedChannel WITH
    Packets <- PacketIds, MaxBatch <- MaxN,
    chan <- items, received <- popped, closed <- shutdown

\* The queue implements the abstract bounded FIFO channel.
ImplementsChannel == Channel!ChannelSpec
=============================================================================
