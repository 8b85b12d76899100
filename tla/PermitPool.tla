------------------------------ MODULE PermitPool ------------------------------
(***************************************************************************)
(* One permit pool of a static-route policy (src/static_routes/policy.rs): *)
(* PermitPool::acquire, Permit::split_one, Permit::drop, and PermitFuture, *)
(* the future behind wait_for_render.                                      *)
(*                                                                         *)
(* A client is one owner of a permit on any thread.  It gets the permit by *)
(* acquire, by splitting another client's permit, or by polling a          *)
(* PermitFuture; the pool is shared by all of them.                        *)
(***************************************************************************)
EXTENDS Integers, FiniteSets

CONSTANTS
    Clients,    \* owners of permits
    Limit,      \* PermitPool.limit; MaxWord stands for None
    MaxWord,    \* u64::MAX
    Amounts     \* amounts asked of acquire

ASSUME ClientsAssumption == IsFiniteSet(Clients)
ASSUME LimitAssumption == /\ MaxWord \in Nat /\ Limit \in 0..MaxWord
                          /\ Amounts \subseteq 0..MaxWord

VARIABLES
    used, pending,          \* PoolState
    live, amount,           \* the Permit each client owns
    pc, registered,         \* the client's PermitFuture and its poll
    waker, sched,           \* its AtomicWaker, and its task in the run queue
    wakes                   \* futures a dropped permit has still to wake

vars == <<used, pending, live, amount, pc, registered, waker, sched, wakes>>

Init ==
    /\ used = 0 /\ pending = {}
    /\ live = [c \in Clients |-> FALSE]
    /\ amount = [c \in Clients |-> 0]
    /\ pc = [c \in Clients |-> "idle"]
    /\ registered = [c \in Clients |-> FALSE]
    /\ waker = [c \in Clients |-> FALSE]
    /\ sched = [c \in Clients |-> FALSE]
    /\ wakes = [c \in Clients |-> {}]

\* Definitions whose name starts with Bug are faulty variants of the definition
\* that follows; they are used only to check that the properties can fail.

\* acquire succeeds: the sum neither overflows nor exceeds the limit.
BugFits(n) == used + n <= MaxWord /\ used <= Limit
Fits(n) == used + n <= MaxWord /\ used + n <= Limit

\* PermitPool::acquire, its success under the pool's lock.
Take(c, n) ==
    /\ Fits(n)
    /\ used' = used + n
    /\ live' = [live EXCEPT ![c] = TRUE]
    /\ amount' = [amount EXCEPT ![c] = n]

Acquire(c, n) ==
    /\ pc[c] = "idle" /\ ~live[c]
    /\ Take(c, n)
    /\ UNCHANGED <<pending, pc, registered, waker, sched, wakes>>

\* Permit::split_one hands one unit of c's permit to d.
SplitOne(c, d) ==
    /\ live[c] /\ amount[c] > 0
    /\ pc[d] = "idle" /\ ~live[d]
    /\ live' = [live EXCEPT ![d] = TRUE]
    /\ amount' = [amount EXCEPT ![c] = @ - 1, ![d] = 1]
    /\ UNCHANGED <<used, pending, pc, registered, waker, sched, wakes>>

\* The futures a dropped permit will wake: all that are pending.
ToWake == pending

\* Permit::drop under the pool's lock; the wakes follow after it.
DropPermit(c) ==
    /\ pc[c] = "idle" /\ live[c]
    /\ used' = used - amount[c]
    /\ live' = [live EXCEPT ![c] = FALSE]
    /\ amount' = [amount EXCEPT ![c] = 0]
    /\ wakes' = [wakes EXCEPT ![c] = ToWake]
    /\ pc' = [pc EXCEPT ![c] = "waking"]
    /\ UNCHANGED <<pending, registered, waker, sched>>

\* AtomicWaker::wake, one collected future at a time.
WakeOne(c, f) ==
    /\ pc[c] = "waking" /\ f \in wakes[c]
    /\ sched' = [sched EXCEPT ![f] = @ \/ waker[f]]
    /\ waker' = [waker EXCEPT ![f] = FALSE]
    /\ wakes' = [wakes EXCEPT ![c] = @ \ {f}]
    /\ UNCHANGED <<used, pending, live, amount, pc, registered>>

EndWakes(c) ==
    /\ pc[c] = "waking" /\ wakes[c] = {}
    /\ pc' = [pc EXCEPT ![c] = "idle"]
    /\ UNCHANGED <<used, pending, live, amount, registered, waker, sched, wakes>>

-----------------------------------------------------------------------------
(* PermitFuture.                                                           *)

\* PermitFuture::new; its task is about to poll it.
NewFuture(c) ==
    /\ pc[c] = "idle" /\ ~live[c]
    /\ pc' = [pc EXCEPT ![c] = "poll"]
    /\ UNCHANGED <<used, pending, live, amount, registered, waker, sched, wakes>>

\* poll registers the task's waker first ...
BugPollRegister(c) ==
    /\ pc[c] = "poll"
    /\ pc' = [pc EXCEPT ![c] = IF registered[c] THEN "try" ELSE "enqueue"]
    /\ waker' = [waker EXCEPT ![c] = ~registered[c]]
    /\ UNCHANGED <<used, pending, live, amount, registered, sched, wakes>>
PollRegister(c) ==
    /\ pc[c] = "poll"
    /\ waker' = [waker EXCEPT ![c] = TRUE]
    /\ pc' = [pc EXCEPT ![c] = IF registered[c] THEN "try" ELSE "enqueue"]
    /\ UNCHANGED <<used, pending, live, amount, registered, sched, wakes>>

\* ... joins the pending list once ...
PollEnqueue(c) ==
    /\ pc[c] = "enqueue"
    /\ pending' = pending \cup {c}
    /\ registered' = [registered EXCEPT ![c] = TRUE]
    /\ pc' = [pc EXCEPT ![c] = "try"]
    /\ UNCHANGED <<used, live, amount, waker, sched, wakes>>

\* ... and only then tries to acquire one unit.
PollAcquire(c) ==
    /\ pc[c] = "try"
    /\ \/ Take(c, 1) /\ pc' = [pc EXCEPT ![c] = "ready"]
       \/ /\ ~Fits(1)
          /\ pc' = [pc EXCEPT ![c] = "parked"]
          /\ UNCHANGED <<used, live, amount>>
    /\ UNCHANGED <<pending, registered, waker, sched, wakes>>

\* The executor polls the scheduled task again.
Repoll(c) ==
    /\ pc[c] = "parked" /\ sched[c]
    /\ sched' = [sched EXCEPT ![c] = FALSE]
    /\ pc' = [pc EXCEPT ![c] = "poll"]
    /\ UNCHANGED <<used, pending, live, amount, registered, waker, wakes>>

\* PermitFuture::drop, once it is ready or when its task is cancelled.  A
\* wake collected earlier finds the dropped future's waker empty.
DropFuture(c) ==
    /\ pending' = pending \ {c}
    /\ registered' = [registered EXCEPT ![c] = FALSE]
    /\ waker' = [waker EXCEPT ![c] = FALSE]
    /\ sched' = [sched EXCEPT ![c] = FALSE]
    /\ pc' = [pc EXCEPT ![c] = "idle"]
    /\ wakes' = [d \in Clients |-> wakes[d] \ {c}]
    /\ UNCHANGED <<used, live, amount>>

FinishFuture(c) == pc[c] = "ready" /\ DropFuture(c)
CancelFuture(c) == pc[c] = "parked" /\ DropFuture(c)

-----------------------------------------------------------------------------
PollStep(c) == PollRegister(c) \/ PollEnqueue(c) \/ PollAcquire(c) \/ Repoll(c)
               \/ FinishFuture(c)
WakeStep(c) == EndWakes(c) \/ \E f \in Clients : WakeOne(c, f)

Next ==
    \E c \in Clients :
        \/ \E n \in Amounts : Acquire(c, n)
        \/ \E d \in Clients : SplitOne(c, d)
        \/ DropPermit(c) \/ WakeStep(c) \/ NewFuture(c) \/ PollStep(c) \/ CancelFuture(c)

Spec == Init /\ [][Next]_vars

\* A started poll or wake loop runs on, and scheduled tasks are polled.
Fairness == \A c \in Clients : WF_vars(PollStep(c)) /\ WF_vars(WakeStep(c))

FairSpec == Spec /\ Fairness

-----------------------------------------------------------------------------
TypeOK ==
    /\ used \in 0..MaxWord
    /\ pending \in SUBSET Clients
    /\ live \in [Clients -> BOOLEAN]
    /\ amount \in [Clients -> 0..MaxWord]
    /\ pc \in [Clients -> {"idle", "waking", "poll", "enqueue", "try", "parked", "ready"}]
    /\ registered \in [Clients -> BOOLEAN]
    /\ waker \in [Clients -> BOOLEAN]
    /\ sched \in [Clients -> BOOLEAN]
    /\ wakes \in [Clients -> SUBSET Clients]

\* The units of capacity that live permits stand for.
UnitsOf(a) == {u \in Clients \X (1..MaxWord) : u[2] <= a[u[1]]}
Units == UnitsOf(amount)

\* The counter is exactly what the permits in existence hold, and it never
\* exceeds the limit: Permit::drop cannot underflow it, split_one moves a unit
\* without creating or losing one (PermitPool::acquire, Permit::split_one).
PoolIsExact == used = Cardinality(Units) /\ used <= Limit

\* A future parked without having been scheduled is not needlessly asleep:
\* the pool is full, or a permit dropped meanwhile has still to wake it
\* (PermitFuture::poll registers, then enqueues, then acquires).
NoLostWakeup ==
    \A f \in Clients : pc[f] = "parked" /\ ~sched[f]
        => ~Fits(1) \/ \E c \in Clients : f \in wakes[c]

\* A future does not stay parked while the pool stays below its limit.
WaitersResume ==
    \A f \in Clients : <>[](used < Limit) => (pc[f] = "parked" ~> pc[f] # "parked")
=============================================================================
