------------------------------ MODULE StaticWork ------------------------------
(***************************************************************************)
(* Coalesced generation of static routes: StaticRuntime::render, the       *)
(* StaticWork entry it registers, and the Generation task behind the entry *)
(* (src/static_routes.rs).                                                 *)
(*                                                                         *)
(* Callers are calls of render on any worker thread.  A call creates at    *)
(* most one work entry, so a work entry and its generation task carry the  *)
(* name of the caller that created them.  Every mutex-protected section is *)
(* one step.  What the same thread does right after it without an await,   *)
(* and that commutes with every step of the other threads (sending on the  *)
(* one-shot channels, taking or dropping a permit next to a state change), *)
(* belongs to the same step.                                               *)
(***************************************************************************)
EXTENDS Integers, FiniteSets

CONSTANTS
    Callers,        \* calls of StaticRuntime::render
    Keys,           \* publication entries, the keys of the work registry
    EntryKey,       \* StaticWorkKey.entry of each caller
    PublishedKey,   \* StaticWorkKey.published (EntryKey when it is None)
    None,           \* no work, no caller, no result
    Managed,        \* a policy is bound to the site root
    RenderLimit, SubscriptionLimit, WaiterLimit,  \* StaticWorkLimits
    Regenerate,     \* number of regeneration functions of the route
    MaxEvents,      \* bound: subscription events per generation
    MaxAborts       \* bound: generation tasks dropped or unwound

ASSUME CallersAssumption ==
    /\ IsFiniteSet(Callers)
    /\ None \notin Callers \cup {"ok", "error", "capacity", "ended", "closed"}
ASSUME KeysAssumption == /\ EntryKey \in [Callers -> Keys]
                         /\ PublishedKey \in [Callers -> Keys]
ASSUME PolicyAssumption == /\ Managed \in BOOLEAN
                           /\ RenderLimit \in Nat
                           /\ SubscriptionLimit \in Nat
                           /\ WaiterLimit \in Nat
                           /\ Regenerate \in Nat
                           /\ MaxEvents \in Nat
                           /\ MaxAborts \in Nat

VARIABLES
    registry,   \* StaticRuntime.work: key -> work entry
    \* WorkState of each work entry
    waiters, requested, running, blocked, terminal,
    \* StaticWork.wake, and whether the executor will poll the task again
    waker, sched,
    \* the calls: control point, work entry found, one-shot channel
    cpc, joined, answer, closed,
    \* the generation tasks: control point and local variables
    gpc, first, trigger, template, permit, io, reserved, streams,
    \* regeneration streams as their producers see them
    ready, events,
    \* PermitPool.used of the policy's three pools
    renders, subscriptions, admitted,
    \* render permits held by the policy's other users
    others,
    \* observer: the task was dropped or unwound before it ended
    aborted

workState == <<waiters, requested, running, blocked, terminal>>
wakeVars == <<waker, sched>>
callVars == <<cpc, joined, answer, closed>>
taskVars == <<first, trigger, template, permit, io, reserved, streams>>
streamVars == <<ready, events>>
pools == <<renders, subscriptions, admitted, others>>
vars == <<registry, workState, wakeVars, callVars, gpc, taskVars, streamVars,
          pools, aborted>>

\* StaticResult: a published or inline representation, a render or storage
\* error, a capacity refusal, the guard's "ended before completion", and the
\* result that closes a work entry nobody waits for.
Outcomes == {"ok", "error"}
Results == Outcomes \cup {"capacity", "ended", "closed"}
KeysOf(c) == {EntryKey[c], PublishedKey[c]}

Init ==
    /\ registry = [k \in Keys |-> None]
    /\ waiters = [w \in Callers |-> {}]
    /\ requested = [w \in Callers |-> None]
    /\ running = [w \in Callers |-> FALSE]
    /\ blocked = [w \in Callers |-> FALSE]
    /\ terminal = [w \in Callers |-> None]
    /\ waker = [w \in Callers |-> FALSE]
    /\ sched = [w \in Callers |-> FALSE]
    /\ cpc = [c \in Callers |-> "idle"]
    /\ joined = [c \in Callers |-> None]
    /\ answer = [c \in Callers |-> None]
    /\ closed = [c \in Callers |-> FALSE]
    /\ gpc = [w \in Callers |-> "none"]
    /\ first = [w \in Callers |-> TRUE]
    /\ trigger = [w \in Callers |-> "request"]
    /\ template = [w \in Callers |-> None]
    /\ permit = [w \in Callers |-> "none"]
    /\ io = [w \in Callers |-> "idle"]
    /\ reserved = [w \in Callers |-> 0]
    /\ streams = [w \in Callers |-> 0]
    /\ ready = [w \in Callers |-> "pending"]
    /\ events = [w \in Callers |-> 0]
    /\ renders = 0 /\ subscriptions = 0 /\ admitted = 0 /\ others = 0
    /\ aborted = [w \in Callers |-> FALSE]

-----------------------------------------------------------------------------
(* Shared pieces of the steps.                                             *)

\* Faulty variants: definitions whose name starts with Bug change the
\* definition after them the way a plausible mistake in the code would.  They
\* are used only to check that the properties can fail.

\* AtomicWaker::register at the start of a poll, which answers every earlier wake.
Register(w) ==
    /\ waker' = [waker EXCEPT ![w] = TRUE]
    /\ sched' = [sched EXCEPT ![w] = FALSE]

\* AtomicWaker::wake takes the registered waker and schedules its task.
Wake(w) ==
    /\ sched' = [sched EXCEPT ![w] = @ \/ waker[w]]
    /\ waker' = [waker EXCEPT ![w] = FALSE]

\* Sender::send: a closed receiver loses the value.
Send(to, r) ==
    answer' = [c \in Callers |-> IF c \in to /\ ~closed[c] THEN r ELSE answer[c]]

\* Vec::retain(|waiter| !waiter.is_canceled())
Retained(w) == {c \in waiters[w] : ~closed[c]}

\* finish_static_work
Finish(w, r, ends) ==
    /\ running' = [running EXCEPT ![w] = FALSE]
    /\ terminal' = IF ends THEN [terminal EXCEPT ![w] = r] ELSE terminal
    /\ waiters' = [waiters EXCEPT ![w] = {}]
    /\ Send(waiters[w], r)
    /\ UNCHANGED <<requested, blocked>>

\* Dropping a render permit the task itself still holds.
BugDropPermitLeak(w) == permit' = [permit EXCEPT ![w] = "none"] /\ UNCHANGED renders
DropPermit(w) ==
    IF permit[w] = "task"
      THEN /\ permit' = [permit EXCEPT ![w] = "none"]
           /\ renders' = renders - 1
      ELSE UNCHANGED <<permit, renders>>

\* The call returns or is dropped, and its waiter permit with it.
Return(c) ==
    /\ cpc' = [cpc EXCEPT ![c] = "done"]
    /\ joined' = [joined EXCEPT ![c] = None]
    /\ admitted' = IF Managed THEN admitted - 1 ELSE admitted

-----------------------------------------------------------------------------
(* StaticRuntime::render, one call.                                        *)

\* Takes a waiter permit, or is refused; a path that maps to no file fails.
Start(c) ==
    /\ cpc[c] = "idle"
    /\ \/ /\ Managed => admitted + 1 <= WaiterLimit
          /\ cpc' = [cpc EXCEPT ![c] = "key"]
          /\ admitted' = IF Managed THEN admitted + 1 ELSE admitted
       \/ /\ cpc' = [cpc EXCEPT ![c] = "done"]
          /\ UNCHANGED admitted
    /\ UNCHANGED <<registry, workState, wakeVars, joined, answer, closed, gpc,
                   taskVars, streamVars, renders, subscriptions,
                   others, aborted>>

\* The key computation fails to join, or the call is dropped awaiting it.
KeyLost(c) ==
    /\ cpc[c] = "key"
    /\ Return(c)
    /\ UNCHANGED <<registry, workState, wakeVars, answer, closed, gpc,
                   taskVars, streamVars, renders, subscriptions,
                   others, aborted>>

\* A registered entry that upgrades and has no terminal result.  An entry
\* whose task guard is gone has one, so the upgrade decides nothing more.
Active(k) == registry[k] # None /\ terminal[registry[k]] = None

\* The key is known.  Registry lock: join the active work of the first key
\* that has one, or register a new work entry under every key.
Lookup(c) ==
    /\ cpc[c] \in {"key", "lookup"}
    /\ cpc' = [cpc EXCEPT ![c] = "join"]
    /\ IF \E k \in KeysOf(c) : Active(k)
         THEN /\ joined' = [joined EXCEPT ![c] =
                              IF Active(EntryKey[c]) THEN registry[EntryKey[c]]
                                                     ELSE registry[PublishedKey[c]]]
              /\ UNCHANGED registry
         ELSE /\ joined' = [joined EXCEPT ![c] = c]
              /\ registry' = [k \in Keys |-> IF k \in KeysOf(c) THEN c ELSE registry[k]]
    /\ UNCHANGED <<workState, wakeVars, answer, closed, gpc, taskVars, streamVars,
                   pools, aborted>>

\* The generation ended after the lookup; its result belongs to its waiters.
BugEnded(w) == FALSE
Ended(w) == terminal[w] # None

\* Nothing will be rendered for the caller unless it supplies its template.
NeedsTemplate(w) == ~running[w] /\ requested[w] = None

\* State lock: the work may have ended or closed admission since the lookup.
Join(c) ==
    LET w == joined[c] IN
    /\ cpc[c] = "join"
    /\ \/ /\ Ended(w)
          /\ cpc' = [cpc EXCEPT ![c] = "lookup"]
          /\ UNCHANGED <<waiters, requested, joined, admitted>>
       \/ /\ ~Ended(w) /\ blocked[w]
          /\ Return(c)
          /\ UNCHANGED <<waiters, requested>>
       \/ /\ ~Ended(w) /\ ~blocked[w]
          /\ waiters' = [waiters EXCEPT ![w] = Retained(w) \cup {c}]
          /\ requested' = IF NeedsTemplate(w)
                            THEN [requested EXCEPT ![w] = c] ELSE requested
          /\ cpc' = [cpc EXCEPT ![c] = "wake"]
          /\ UNCHANGED <<joined, admitted>>
    /\ UNCHANGED <<registry, running, blocked, terminal, wakeVars, answer,
                   closed, gpc, taskVars, streamVars, renders, subscriptions,
                   others, aborted>>

\* The creator spawns the generation; every accepted caller wakes it.
BugSpawnOnly(c) ==
    /\ cpc[c] = "wake"
    /\ gpc' = IF joined[c] = c THEN [gpc EXCEPT ![c] = "start"] ELSE gpc
    /\ cpc' = [cpc EXCEPT ![c] = "waiting"]
    /\ UNCHANGED <<registry, workState, wakeVars, joined, answer, closed, taskVars,
                   streamVars, pools, aborted>>
SpawnAndWake(c) ==
    LET w == joined[c] IN
    /\ cpc[c] = "wake"
    /\ gpc' = IF w = c THEN [gpc EXCEPT ![c] = "start"] ELSE gpc
    /\ Wake(w)
    /\ cpc' = [cpc EXCEPT ![c] = "waiting"]
    /\ UNCHANGED <<registry, workState, joined, answer, closed, taskVars,
                   streamVars, pools, aborted>>

\* StaticWaiter is dropped, answered or not: the receiver closes first.
CloseWaiter(c) ==
    /\ cpc[c] = "waiting"
    /\ closed' = [closed EXCEPT ![c] = TRUE]
    /\ cpc' = [cpc EXCEPT ![c] = "closing"]
    /\ UNCHANGED <<registry, workState, wakeVars, joined, answer, gpc,
                   taskVars, streamVars, pools, aborted>>

Receive(c) == answer[c] # None /\ CloseWaiter(c)
CancelWait(c) == answer[c] = None /\ CloseWaiter(c)

\* StaticWaiter::drop then wakes the task, and the waiter permit is dropped.
BugDropOnly(c) ==
    /\ cpc[c] = "closing"
    /\ Return(c)
    /\ answer' = [answer EXCEPT ![c] = None]
    /\ UNCHANGED <<registry, workState, wakeVars, closed, gpc, taskVars, streamVars,
                   renders, subscriptions,
                   others, aborted>>
WakeOnDrop(c) ==
    /\ cpc[c] = "closing"
    /\ Wake(joined[c])
    /\ Return(c)
    /\ answer' = [answer EXCEPT ![c] = None]
    /\ UNCHANGED <<registry, workState, closed, gpc, taskVars, streamVars,
                   renders, subscriptions,
                   others, aborted>>

-----------------------------------------------------------------------------
(* Generation::run, the task of one work entry.                            *)

\* Reserves the subscriptions and takes the first template.
GenStart(w) ==
    /\ gpc[w] = "start"
    /\ \/ /\ Managed /\ subscriptions + Regenerate > SubscriptionLimit
          /\ Finish(w, "capacity", TRUE)
          /\ gpc' = [gpc EXCEPT ![w] = "exit"]
          /\ UNCHANGED <<template, reserved, subscriptions>>
       \/ /\ Managed => subscriptions + Regenerate <= SubscriptionLimit
          /\ IF Managed THEN /\ subscriptions' = subscriptions + Regenerate
                             /\ reserved' = [reserved EXCEPT ![w] = Regenerate]
                        ELSE UNCHANGED <<subscriptions, reserved>>
          /\ running' = [running EXCEPT ![w] = TRUE]
          /\ template' = [template EXCEPT ![w] = requested[w]]
          /\ requested' = [requested EXCEPT ![w] = None]
          /\ gpc' = [gpc EXCEPT ![w] = "permit"]
          /\ UNCHANGED <<waiters, blocked, terminal, answer>>
    /\ UNCHANGED <<registry, wakeVars, cpc, joined, closed, first,
                   trigger, permit, io, streams, streamVars, renders, admitted, others,
                   aborted>>

\* WorkState::refuse, and the error for every refused waiter.
BugRefuse(w) ==
    /\ blocked' = [blocked EXCEPT ![w] = TRUE]
    /\ running' = [running EXCEPT ![w] = FALSE]
    /\ waiters' = [waiters EXCEPT ![w] = {}]
    /\ Send(waiters[w], "capacity")
    /\ UNCHANGED <<requested, terminal>>
Refuse(w) ==
    /\ blocked' = [blocked EXCEPT ![w] = TRUE]
    /\ running' = [running EXCEPT ![w] = FALSE]
    /\ requested' = [requested EXCEPT ![w] = None]
    /\ waiters' = [waiters EXCEPT ![w] = {}]
    /\ Send(waiters[w], "capacity")
    /\ UNCHANGED terminal

\* WorkState::begin_render: reopens admission and takes the template that a
\* refreshed request supplied.
BeginRender(w) ==
    /\ blocked' = [blocked EXCEPT ![w] = FALSE]
    /\ running' = [running EXCEPT ![w] = TRUE]
    /\ template' = [template EXCEPT ![w] = IF requested[w] # None THEN requested[w] ELSE @]
    /\ requested' = [requested EXCEPT ![w] = None]
    /\ gpc' = [gpc EXCEPT ![w] = "render"]
    /\ UNCHANGED <<waiters, terminal, answer>>

\* PermitPool::acquire(1) on the render pool of a bound policy.
TakePermit(w) ==
    IF Managed
      THEN /\ renders + 1 <= RenderLimit
           /\ renders' = renders + 1
           /\ permit' = [permit EXCEPT ![w] = "task"]
      ELSE UNCHANGED <<renders, permit>>

\* render_permit: a refusal ends a first render, rejects the callers of a
\* later one, and keeps a consumed subscription event waiting for a slot.
RenderPermit(w) ==
    /\ gpc[w] = "permit"
    /\ \/ TakePermit(w) /\ BeginRender(w)
       \/ /\ Managed /\ renders + 1 > RenderLimit
          /\ IF first[w]
               THEN /\ Finish(w, "capacity", TRUE)
                    /\ gpc' = [gpc EXCEPT ![w] = "exit"]
               ELSE /\ Refuse(w)
                    /\ gpc' = [gpc EXCEPT ![w] = IF trigger[w] = "request"
                                                   THEN "reopen" ELSE "wait_render"]
          /\ UNCHANGED <<renders, permit, template>>
    /\ UNCHANGED <<registry, wakeVars, cpc, joined, closed, first, trigger, io,
                   reserved, streams, streamVars, subscriptions, admitted,
                   others, aborted>>

\* WorkState::reopen, RefusedRender::Retry
Reopen(w) ==
    /\ gpc[w] = "reopen"
    /\ blocked' = [blocked EXCEPT ![w] = FALSE]
    /\ gpc' = [gpc EXCEPT ![w] = "next"]
    /\ UNCHANGED <<registry, waiters, requested, running, terminal, wakeVars,
                   callVars, taskVars, streamVars, pools, aborted>>

\* wait_for_render().await resumes with a permit (module PermitPool).
WaitForRender(w) ==
    /\ gpc[w] = "wait_render"
    /\ TakePermit(w)
    /\ BeginRender(w)
    /\ UNCHANGED <<registry, wakeVars, cpc, joined, closed, first, trigger, io,
                   reserved, streams, streamVars, subscriptions, admitted,
                   others, aborted>>

\* Generation::subscribe: the first completed render installs the streams,
\* each with its share of the reservation; without route parameters in the
\* render's context there are none.
BugSubscribe(w, r) ==
    \/ /\ first[w] /\ (Managed => r # "error")
       /\ streams' = [streams EXCEPT ![w] = Regenerate]
       /\ UNCHANGED reserved
    \/ UNCHANGED <<streams, reserved>>
Subscribe(w, r) ==
    \/ /\ first[w] /\ (Managed => r # "error")
       /\ streams' = [streams EXCEPT ![w] = Regenerate]
       /\ reserved' = [reserved EXCEPT ![w] = 0]
    \/ UNCHANGED <<streams, reserved>>

\* The result of a render: terminal unless a subscription remains.
Complete(w, r) ==
    /\ Finish(w, r, streams'[w] = 0)
    /\ gpc' = [gpc EXCEPT ![w] = "next"]

\* The render future is ready.  A failed render keeps its permit until the
\* iteration ends; an error status is returned inline and gives it up; any
\* other representation is published by a blocking task that owns it.
RenderDone(w) ==
    /\ gpc[w] \in {"render", "rendering"}
    /\ \/ /\ UNCHANGED <<streams, reserved, permit, renders, io>>
          /\ Complete(w, "error")
       \/ /\ DropPermit(w)
          /\ Subscribe(w, "ok")
          /\ Complete(w, "ok")
          /\ UNCHANGED io
       \/ /\ gpc' = [gpc EXCEPT ![w] = "publish"]
          /\ io' = [io EXCEPT ![w] = "running"]
          /\ permit' = [permit EXCEPT ![w] = IF @ = "task" THEN "io" ELSE @]
          /\ UNCHANGED <<workState, answer, streams, reserved, renders>>
    /\ UNCHANGED <<registry, wakeVars, cpc, joined, closed, first, trigger,
                   template, streamVars, subscriptions, admitted,
                   others, aborted>>

\* render_or_abandon without subscriptions: the waker is registered ...
AbandonRegister(w) ==
    /\ gpc[w] = "render" /\ Regenerate = 0
    /\ Register(w)
    /\ gpc' = [gpc EXCEPT ![w] = "abandon"]
    /\ UNCHANGED <<registry, workState, callVars, taskVars, streamVars, pools,
                   aborted>>

\* ... before the waiters are examined; with none left the work ends.
AbandonCheck(w) ==
    /\ gpc[w] = "abandon"
    /\ waiters' = [waiters EXCEPT ![w] = Retained(w)]
    /\ IF Retained(w) = {}
         THEN /\ terminal' = [terminal EXCEPT ![w] = "closed"]
              /\ gpc' = [gpc EXCEPT ![w] = "exit"]
         ELSE /\ gpc' = [gpc EXCEPT ![w] = "rendering"]
              /\ UNCHANGED terminal
    /\ UNCHANGED <<registry, requested, running, blocked, wakeVars, callVars,
                   taskVars, streamVars, pools, aborted>>

\* The blocking publication ends, whatever became of the task, and gives
\* the render permit back.
IoEnd(w) ==
    /\ io[w] = "running"
    /\ \E r \in Outcomes : io' = [io EXCEPT ![w] = IF gpc[w] = "publish" THEN r ELSE "idle"]
    /\ IF permit[w] = "io"
         THEN /\ permit' = [permit EXCEPT ![w] = "none"]
              /\ renders' = renders - 1
         ELSE UNCHANGED <<permit, renders>>
    /\ UNCHANGED <<registry, workState, wakeVars, callVars, gpc, first,
                   trigger, template, reserved, streams, streamVars,
                   subscriptions, admitted,
                   others, aborted>>

\* The task learns how its publication ended.
PublishDone(w) ==
    /\ gpc[w] = "publish" /\ io[w] \in Outcomes
    /\ Subscribe(w, io[w])
    /\ Complete(w, io[w])
    /\ io' = [io EXCEPT ![w] = "idle"]
    /\ UNCHANGED <<registry, wakeVars, cpc, joined, closed, first, trigger,
                   template, permit, streamVars, pools, aborted>>

\* The iteration ends and its permit is dropped.  next_trigger: without a
\* subscription the generation ends, otherwise the poll registers the waker ...
NextTrigger(w) ==
    /\ gpc[w] = "next"
    /\ DropPermit(w)
    /\ first' = [first EXCEPT ![w] = FALSE]
    /\ IF streams[w] = 0
         THEN gpc' = [gpc EXCEPT ![w] = "exit"] /\ UNCHANGED wakeVars
         ELSE gpc' = [gpc EXCEPT ![w] = "check"] /\ Register(w)
    /\ UNCHANGED <<registry, workState, callVars, trigger, template, io,
                   reserved, streams, streamVars, subscriptions, admitted,
                   others, aborted>>

\* ... before it looks for a refreshed request, which wins over the streams.
CheckRequested(w) ==
    /\ gpc[w] = "check"
    /\ IF requested[w] # None
         THEN /\ trigger' = [trigger EXCEPT ![w] = "request"]
              /\ gpc' = [gpc EXCEPT ![w] = "permit"]
         ELSE gpc' = [gpc EXCEPT ![w] = "streams"] /\ UNCHANGED trigger
    /\ UNCHANGED <<registry, workState, wakeVars, callVars, first, template,
                   permit, io, reserved, streams, streamVars, pools,
                   aborted>>

\* The select over the streams yields an event, drops an ended stream with
\* its permit, or parks the task.
PollStreams(w) ==
    /\ gpc[w] = "streams"
    /\ \/ /\ ready[w] = "item"
          /\ trigger' = [trigger EXCEPT ![w] = "subscription"]
          /\ gpc' = [gpc EXCEPT ![w] = "permit"]
          /\ ready' = [ready EXCEPT ![w] = "pending"]
          /\ UNCHANGED <<streams, subscriptions>>
       \/ /\ ready[w] = "end"
          /\ streams' = [streams EXCEPT ![w] = @ - 1]
          /\ subscriptions' = IF Managed THEN subscriptions - 1 ELSE subscriptions
          /\ ready' = [ready EXCEPT ![w] = "pending"]
          /\ gpc' = [gpc EXCEPT ![w] = IF streams[w] = 1 THEN "eof" ELSE "streams"]
          /\ UNCHANGED trigger
       \/ /\ ready[w] = "pending"
          /\ gpc' = [gpc EXCEPT ![w] = "parked"]
          /\ UNCHANGED <<trigger, streams, subscriptions, ready>>
    /\ UNCHANGED <<registry, workState, wakeVars, callVars, first, template,
                   permit, io, reserved, events, renders, admitted, others,
                   aborted>>

\* Every stream has ended: complete a request accepted meanwhile, or close
\* admission.
EndOfStreams(w) ==
    /\ gpc[w] = "eof"
    /\ IF requested[w] = None
         THEN /\ terminal' = [terminal EXCEPT ![w] = "closed"]
              /\ gpc' = [gpc EXCEPT ![w] = "exit"]
              /\ UNCHANGED trigger
         ELSE /\ trigger' = [trigger EXCEPT ![w] = "request"]
              /\ gpc' = [gpc EXCEPT ![w] = "permit"]
              /\ UNCHANGED terminal
    /\ UNCHANGED <<registry, waiters, requested, running, blocked, wakeVars,
                   callVars, first, template, permit, io, reserved,
                   streams, streamVars, pools, aborted>>

\* The executor polls a scheduled task again.
Resume(w) ==
    /\ sched[w]
    /\ \/ gpc[w] = "parked" /\ gpc' = [gpc EXCEPT ![w] = "next"]
       \/ gpc[w] = "rendering" /\ gpc' = [gpc EXCEPT ![w] = "render"]
    /\ sched' = [sched EXCEPT ![w] = FALSE]
    /\ UNCHANGED <<registry, workState, waker, callVars, taskVars, streamVars,
                   pools, aborted>>

\* The result the guard hands out: the settled one, if there is one.
GuardResult(w) == IF terminal[w] = None THEN "ended" ELSE terminal[w]

\* The loop ended: the permit and the streams are dropped, then the guard
\* (StaticTaskGuard::drop): a result for every waiter still registered ...
GuardDrop(w) ==
    LET r == GuardResult(w) IN
    /\ gpc[w] = "exit"
    /\ DropPermit(w)
    /\ streams' = [streams EXCEPT ![w] = 0]
    /\ subscriptions' = IF Managed THEN subscriptions - streams[w] ELSE subscriptions
    /\ terminal' = [terminal EXCEPT ![w] = r]
    /\ waiters' = [waiters EXCEPT ![w] = {}]
    /\ Send(waiters[w], r)
    /\ gpc' = [gpc EXCEPT ![w] = "unregister"]
    /\ UNCHANGED <<registry, requested, running, blocked, wakeVars, cpc, joined,
                   closed, first, trigger, template, io, reserved, streamVars,
                   admitted, others, aborted>>

\* The entries the guard removes: the keys that still lead to this work.
BugOwnEntries(w) == KeysOf(w)
OwnEntries(w) == {k \in KeysOf(w) : registry[k] = w}

\* What is left of the reservation returns to the subscription pool.
DropReservation(w) ==
    subscriptions' = IF Managed THEN subscriptions - reserved[w] ELSE subscriptions

\* ... then the registry entries that are still this work's, and what is
\* left of the reservation.  The task is gone, and its locals with it.
Unregister(w) ==
    /\ gpc[w] = "unregister"
    /\ registry' = [k \in Keys |-> IF k \in OwnEntries(w) THEN None ELSE registry[k]]
    /\ DropReservation(w)
    /\ reserved' = [reserved EXCEPT ![w] = 0]
    /\ gpc' = [gpc EXCEPT ![w] = "gone"]
    /\ first' = [first EXCEPT ![w] = TRUE]
    /\ trigger' = [trigger EXCEPT ![w] = "request"]
    /\ template' = [template EXCEPT ![w] = None]
    /\ events' = [events EXCEPT ![w] = 0]
    /\ ready' = [ready EXCEPT ![w] = "pending"]
    /\ sched' = [sched EXCEPT ![w] = FALSE]
    /\ waker' = [waker EXCEPT ![w] = FALSE]
    /\ UNCHANGED <<workState, callVars, permit, io, streams, renders, admitted, others,
                   aborted>>

AwaitPoints == {"start", "parked", "render", "rendering", "publish", "wait_render"}

\* The task is dropped at an await (its worker stops) or a render panics:
\* its locals go, the guard last.  Blocking I/O keeps its permit.
Abort(w) ==
    /\ gpc[w] \in AwaitPoints
    /\ Cardinality({v \in Callers : aborted[v]}) < MaxAborts
    /\ aborted' = [aborted EXCEPT ![w] = TRUE]
    /\ DropPermit(w)
    /\ streams' = [streams EXCEPT ![w] = 0]
    /\ reserved' = [reserved EXCEPT ![w] = 0]
    /\ subscriptions' = IF Managed THEN subscriptions - streams[w] - reserved[w]
                                   ELSE subscriptions
    /\ gpc' = [gpc EXCEPT ![w] = "exit"]
    /\ UNCHANGED <<registry, workState, wakeVars, callVars, first, trigger,
                   template, io, streamVars, admitted, others>>

-----------------------------------------------------------------------------
(* The environment: the policy's other users, the application's streams.   *)

\* Another route, or another application holding a clone of the policy,
\* takes or drops a render permit.
OtherRender ==
    /\ Managed
    /\ \/ renders + 1 <= RenderLimit /\ renders' = renders + 1 /\ others' = others + 1
       \/ others > 0 /\ renders' = renders - 1 /\ others' = others - 1
    /\ UNCHANGED <<registry, workState, wakeVars, callVars, gpc, taskVars,
                   streamVars, subscriptions, admitted, aborted>>

\* A stream produces an event or ends, and wakes the task polling it.
StreamActivity(w) ==
    /\ streams[w] > 0 /\ ready[w] = "pending"
    /\ \/ /\ events[w] < MaxEvents
          /\ events' = [events EXCEPT ![w] = @ + 1]
          /\ ready' = [ready EXCEPT ![w] = "item"]
       \/ /\ ready' = [ready EXCEPT ![w] = "end"]
          /\ UNCHANGED events
    /\ sched' = [sched EXCEPT ![w] = TRUE]
    /\ UNCHANGED <<registry, workState, waker, callVars, gpc, taskVars, pools,
                   aborted>>

-----------------------------------------------------------------------------
CallStep(c) == \/ Lookup(c) \/ Join(c) \/ SpawnAndWake(c)
               \/ Receive(c) \/ WakeOnDrop(c)

TaskStep(w) == \/ GenStart(w) \/ RenderPermit(w) \/ Reopen(w) \/ WaitForRender(w)
               \/ AbandonRegister(w) \/ AbandonCheck(w) \/ PublishDone(w)
               \/ NextTrigger(w) \/ CheckRequested(w) \/ PollStreams(w)
               \/ EndOfStreams(w) \/ Resume(w) \/ GuardDrop(w) \/ Unregister(w)

\* Every call has returned and every spawned task and blocking job has ended.
Quiescent == /\ \A c \in Callers : cpc[c] = "done"
             /\ \A w \in Callers : gpc[w] \in {"none", "gone"} /\ io[w] # "running"
             /\ others = 0

Idle == Quiescent /\ UNCHANGED vars

Next ==
    \/ \E c \in Callers : Start(c) \/ KeyLost(c) \/ CancelWait(c) \/ CallStep(c)
    \/ \E w \in Callers : TaskStep(w) \/ RenderDone(w) \/ IoEnd(w) \/ Abort(w)
                                   \/ StreamActivity(w)
    \/ OtherRender
    \/ Idle

Spec == Init /\ [][Next]_vars

\* The executor polls scheduled tasks and calls, and blocking I/O ends.
Scheduling == \A c \in Callers : /\ WF_vars(CallStep(c))
                                 /\ WF_vars(TaskStep(c))
                                 /\ WF_vars(IoEnd(c))

\* The application's renders end as well.
RendersEnd == \A w \in Callers : WF_vars(RenderDone(w))

ScheduledSpec == Spec /\ Scheduling
FairSpec == ScheduledSpec /\ RendersEnd

-----------------------------------------------------------------------------
(* Properties.                                                             *)

CallPoints == {"idle", "key", "lookup", "join", "wake", "waiting", "closing", "done"}
TaskPoints == {"none", "start", "permit", "reopen", "wait_render", "render",
               "abandon", "rendering", "publish", "next", "check", "streams",
               "parked", "eof", "exit", "unregister", "gone"}

TypeOK ==
    /\ registry \in [Keys -> Callers \cup {None}]
    /\ waiters \in [Callers -> SUBSET Callers]
    /\ requested \in [Callers -> Callers \cup {None}]
    /\ running \in [Callers -> BOOLEAN]
    /\ blocked \in [Callers -> BOOLEAN]
    /\ terminal \in [Callers -> Results \cup {None}]
    /\ waker \in [Callers -> BOOLEAN]
    /\ sched \in [Callers -> BOOLEAN]
    /\ cpc \in [Callers -> CallPoints]
    /\ joined \in [Callers -> Callers \cup {None}]
    /\ answer \in [Callers -> Results \cup {None}]
    /\ closed \in [Callers -> BOOLEAN]
    /\ gpc \in [Callers -> TaskPoints]
    /\ first \in [Callers -> BOOLEAN]
    /\ trigger \in [Callers -> {"request", "subscription"}]
    /\ template \in [Callers -> Callers \cup {None}]
    /\ permit \in [Callers -> {"none", "task", "io"}]
    /\ io \in [Callers -> {"idle", "running"} \cup Outcomes]
    /\ reserved \in [Callers -> 0..Regenerate]
    /\ streams \in [Callers -> 0..Regenerate]
    /\ ready \in [Callers -> {"pending", "item", "end"}]
    /\ events \in [Callers -> 0..MaxEvents]
    /\ renders \in Int /\ subscriptions \in Int /\ admitted \in Int /\ others \in Nat
    /\ aborted \in [Callers -> BOOLEAN]

\* A registered work entry without a terminal result: its task guard exists,
\* or its creator has still to spawn the task.
Live(w) == /\ terminal[w] = None
           /\ \/ gpc[w] # "none"
              \/ cpc[w] \in {"join", "wake"} /\ joined[w] = w

\* While a generation has no terminal result, every key it publishes under
\* leads to it: two callers of one entry never generate it side by side, and
\* a guard dropped late never removes its successor's registration
\* (StaticRuntime::render, StaticTaskGuard::drop).
SingleFlight == \A w \in Callers : Live(w) => \A k \in KeysOf(w) : registry[k] = w

\* The generation, the acceptance and the answer of a call as its callers see
\* them: what the mutexes, wakers and channels above come to.
Seen(c) == cpc[c] \in {"wake", "waiting"}
Promise == INSTANCE Coalescing WITH
    keys <- [c \in Callers |-> KeysOf(c)],
    generation <- [w \in Callers |-> IF terminal[w] # None THEN "over"
                                     ELSE IF blocked[w] THEN "refusing"
                                     ELSE IF Live(w) THEN "open" ELSE "none"],
    accepted <- [c \in Callers |-> IF Seen(c) THEN joined[c] ELSE None],
    reply <- [c \in Callers |-> IF Seen(c) THEN answer[c] ELSE None]

\* Every step of render, of the generation task and of the guards is a step of
\* Coalescing or invisible to callers: one generation per entry, and no answer
\* missing, repeated or given to a call that came after it.
KeepsPromise == Promise!Spec

\* An accepted caller without an answer is registered with a work entry whose
\* guard has still to run, or whose creator has still to spawn it: no step
\* drops a sender without sending.
NoOrphanedWaiter ==
    \A c \in Callers :
        cpc[c] \in {"wake", "waiting"} /\ answer[c] = None
          => LET w == joined[c] IN
             /\ c \in waiters[w]
             /\ gpc[w] \notin {"unregister", "gone"}
             /\ gpc[w] = "none" => cpc[w] \in {"join", "wake"} /\ joined[w] = w

\* A task parked in next_trigger does not sleep through an accepted request:
\* it is scheduled, or the accepted caller has still to wake it.
NoMissedRequest ==
    \A w \in Callers : gpc[w] = "parked" /\ requested[w] # None
        => sched[w] \/ \E c \in Callers : cpc[c] = "wake" /\ joined[c] = w

\* A task parked in an abandonable render does not sleep through the
\* departure of its last waiter (StaticWaiter::drop, render_or_abandon).
NoMissedAbandonment ==
    \A w \in Callers : gpc[w] = "rendering" /\ Retained(w) = {}
        => sched[w] \/ \E c \in Callers : cpc[c] = "closing" /\ joined[c] = w

\* A caller refused for capacity never supplies the template of a later
\* render: the last accepted template stays (WorkState::refuse, begin_render).
RefusedTemplateIsDropped ==
    \A w \in Callers : gpc[w] \in {"render", "abandon", "rendering", "publish"}
        => template[w] # None /\ answer[template[w]] # "capacity"

\* The render pool counts exactly the renders and publications in progress,
\* blocking I/O that outlived its task included, and stays within its limit.
RenderSlots ==
    Managed =>
      /\ renders = others + Cardinality({w \in Callers : permit[w] # "none"})
      /\ renders <= RenderLimit
      /\ \A w \in Callers : gpc[w] \in {"render", "abandon", "rendering"}
                                \/ io[w] = "running" => permit[w] # "none"

\* The waiter pool counts exactly the calls in flight.
WaiterSlots ==
    Managed =>
      /\ admitted = Cardinality({c \in Callers : cpc[c] \notin {"idle", "done"}})
      /\ admitted <= WaiterLimit

\* The subscription pool counts exactly the live streams and what is left of
\* the reservations (Permit::split_one, Generation::subscribe).
SubscriptionSlots ==
    Managed =>
      /\ subscriptions = Cardinality(UNION {{w} \X (1..(reserved[w] + streams[w])) : w \in Callers})
      /\ subscriptions <= SubscriptionLimit

\* The three pools of a policy count what is in use, no more and no less, in
\* every order of admissions, refusals, stream ends, cancellations and aborts.
PermitsAreExact == RenderSlots /\ WaiterSlots /\ SubscriptionSlots

\* A call that has been admitted returns, whatever the other callers, the
\* task and its worker do.
CallsReturn ==
    \A c \in Callers : cpc[c] = "key" ~> cpc[c] = "done"

\* A subscription event whose render was refused is rendered in the end, if
\* the policy's other users stop taking slots and the task is not dropped:
\* the routes of this runtime cannot keep the slot from it.
RefreshResumes ==
    <>[](others = 0) =>
      \A w \in Callers : gpc[w] = "wait_render" ~> gpc[w] = "render" \/ aborted[w]

\* "Complete accepted work; otherwise close admission before dropping it"
\* (next_trigger): an accepted caller is told that the task ended before
\* completion only if the task was dropped or unwound.
AcceptedWorkIsCompleted ==
    \A c \in Callers : answer[c] = "ended" => aborted[joined[c]]
=============================================================================
