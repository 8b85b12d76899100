--------------------------- MODULE StaticWorkProofs ---------------------------
(***************************************************************************)
(* One generation per entry, no caller without an answer, no missed wakeup *)
(* and exact permits, for any number of callers and keys, any limits and   *)
(* any number of regeneration functions; and that StaticWork implements    *)
(* Coalescing.                                                             *)
(***************************************************************************)
EXTENDS StaticWork, FiniteSetTheorems, TLAPS

-----------------------------------------------------------------------------
(* The inductive invariant, part by part.                                  *)

\* The task is past the loop of Generation::run.
Over(w) == gpc[w] \in {"exit", "unregister", "gone"}

\* The task holds a template and renders it, or publishes what it rendered.
Rendering(w) == gpc[w] \in {"render", "abandon", "rendering", "publish"}

\* The work entry exists: its task was spawned, or its creator is about to.
Begun(w) == gpc[w] # "none" \/ (cpc[w] \in {"join", "wake"} /\ joined[w] = w)

\* A call holds a work entry from its lookup to its return, closes its channel
\* only when it leaves, and finds an answer only on an open channel.
CallState ==
    \A c \in Callers :
        /\ cpc[c] \in {"join", "wake", "waiting", "closing"} => joined[c] \in Callers
        /\ cpc[c] \in {"idle", "key", "done"} => joined[c] = None
        /\ closed[c] => cpc[c] \in {"closing", "done"}
        /\ cpc[c] = "closing" => closed[c]
        /\ answer[c] # None => cpc[c] \in {"wake", "waiting", "closing"}

\* WorkState agrees with the control point of the task, which only a caller
\* that no longer looks for work has spawned.
TaskState ==
    \A w \in Callers :
        /\ gpc[w] # "none" => cpc[w] \in {"waiting", "closing", "done"}
        /\ gpc[w] \in {"none", "start"} => first[w] /\ ~running[w]
        /\ gpc[w] = "permit" => (running[w] <=> first[w])
        /\ Rendering(w) => running[w]
        /\ gpc[w] \in {"reopen", "wait_render", "next", "check", "streams", "parked", "eof"}
             => ~running[w]
        /\ gpc[w] \in {"reopen", "wait_render", "check", "streams", "parked", "eof"} => ~first[w]

\* Admission is closed exactly while a refused render is waited for, and a
\* terminal result exists from the last render to the end of the task.
Admission ==
    \A w \in Callers :
        /\ blocked[w] => gpc[w] \in {"reopen", "wait_render"} \/ Over(w)
        /\ gpc[w] \in {"reopen", "wait_render"} => blocked[w]
        /\ terminal[w] # None => gpc[w] = "next" \/ Over(w)
        /\ terminal[w] # None /\ gpc[w] = "next" => streams[w] = 0
        /\ gpc[w] \in {"unregister", "gone"} => terminal[w] # None

\* The registry and the calls lead only to work that exists and shares a key.
Registration ==
    /\ \A k \in Keys : registry[k] # None => Begun(registry[k]) /\ k \in KeysOf(registry[k])
    /\ \A c \in Callers : cpc[c] \in {"join", "wake", "waiting", "closing"}
          => Begun(joined[c]) /\ KeysOf(c) \cap KeysOf(joined[c]) # {}

\* The senders of a work entry are those of the accepted calls without an
\* answer and of calls that have left.
OwnSenders ==
    \A w \in Callers : \A c \in waiters[w] :
        closed[c] \/ (Seen(c) /\ joined[c] = w /\ answer[c] = None)

\* An accepted call without an answer has a sender.
SeenHasSender ==
    \A c \in Callers : Seen(c) /\ answer[c] = None => c \in waiters[joined[c]]

\* Nobody waits for work that has its result, or for work that neither renders
\* nor is asked to.
NobodyWaits ==
    \A w \in Callers : terminal[w] # None \/ (~running[w] /\ requested[w] = None)
        => Retained(w) = {}

Senders == OwnSenders /\ SeenHasSender /\ NobodyWaits

\* Only w can still answer the call t.
SuppliedTo(w, t) == closed[t] \/ (Seen(t) /\ joined[t] = w)

\* The creator's template, or an earlier caller's, is there when the task
\* starts; from then on the task has one.
HasTemplate ==
    \A w \in Callers :
        /\ running[w] => requested[w] = None
        /\ gpc[w] = "none" /\ cpc[w] = "wake" /\ joined[w] = w => requested[w] # None
        /\ gpc[w] = "start" => requested[w] # None
        /\ gpc[w] \notin {"none", "start"} /\ ~Over(w) => template[w] # None

\* The template to render next is that of a call that waits, or has left.
RequestWaitsOf(w) ==
    requested[w] # None /\ ~Over(w)
      => LET t == requested[w] IN
         /\ SuppliedTo(w, t) /\ answer[t] # "capacity"
         /\ closed[t] \/ t \in waiters[w]
RequestWaits == \A w \in Callers : RequestWaitsOf(w)

\* The template rendered last is that of a call that has its answer, or has
\* left, by the time nothing is rendered: a refusal cannot reach it any more.
TemplateServedOf(w) ==
    template[w] # None /\ ~Over(w)
      => LET t == template[w] IN
         /\ SuppliedTo(w, t) /\ answer[t] # "capacity"
         /\ running[w] \/ closed[t] \/ t \notin waiters[w]
TemplateServed == \A w \in Callers : TemplateServedOf(w)

Templates == HasTemplate /\ RequestWaits /\ TemplateServed

\* While the task may sleep, its waker is registered or has been used.
Armed ==
    \A w \in Callers : gpc[w] \in {"check", "streams", "parked", "abandon", "rendering"}
        => waker[w] \/ sched[w]

\* A request that arrives after the check wakes the task, or is about to.
RequestIsSeen ==
    \A w \in Callers : gpc[w] \in {"streams", "parked"} /\ requested[w] # None
        => sched[w] \/ \E c \in Callers : cpc[c] = "wake" /\ joined[c] = w

\* The streams polled exist.
Polled == \A w \in Callers : gpc[w] \in {"check", "streams"} => streams[w] > 0

\* Under a policy, a task renders with a permit, its blocking publication owns
\* the permit, and nobody else has one.
PermitState ==
    Managed =>
      \A w \in Callers :
        /\ gpc[w] \in {"render", "abandon", "rendering"} => permit[w] = "task"
        /\ permit[w] = "task" => gpc[w] \in {"render", "abandon", "rendering", "next", "exit"}
        /\ permit[w] = "io" <=> io[w] = "running"
        /\ io[w] = "running" => gpc[w] = "publish" \/ Over(w)

\* Under a policy, the reservation is whole until the first render subscribes.
Reservation ==
    \A w \in Callers :
        /\ gpc[w] \in {"none", "start", "gone"} => reserved[w] = 0 /\ streams[w] = 0
        /\ gpc[w] = "unregister" => streams[w] = 0
        /\ first[w] /\ (gpc[w] = "permit" \/ Rendering(w))
             => reserved[w] = (IF Managed THEN Regenerate ELSE 0) /\ streams[w] = 0
        /\ reserved[w] + streams[w] <= Regenerate

WakeInv == Armed /\ RequestIsSeen /\ NoMissedAbandonment

\* Everything but the pools: it does not depend on what the permits count.
IInv == /\ TypeOK /\ Polled /\ CallState /\ TaskState /\ Admission
        /\ Registration /\ SingleFlight /\ Senders /\ Templates /\ WakeInv

-----------------------------------------------------------------------------
(* What the shared pieces of the steps do.                                 *)

\* AtomicWaker::wake schedules the task if its waker is registered.
LEMMA WakeEffect ==
  ASSUME TypeOK, NEW w, Wake(w)
  PROVE  /\ waker' \in [Callers -> BOOLEAN] /\ sched' \in [Callers -> BOOLEAN]
         /\ \A v \in Callers : sched'[v] = (sched[v] \/ (v = w /\ waker[w]))
         /\ \A v \in Callers : waker'[v] = (waker[v] /\ v # w)
  <1>1. sched' \in [Callers -> BOOLEAN] /\ waker' \in [Callers -> BOOLEAN]
    BY Zenon DEF Wake, TypeOK
  <1>2. \A v \in Callers : sched'[v] = (sched[v] \/ (v = w /\ waker[w]))
    BY DEF Wake, TypeOK
  <1>3. \A v \in Callers : waker'[v] = (waker[v] /\ v # w)
    BY DEF Wake, TypeOK
  <1> QED
    BY <1>1, <1>2, <1>3

\* Sending keeps the channels well typed and reaches only open ones.
LEMMA SendEffect ==
  ASSUME TypeOK, NEW to, NEW r \in Results, Send(to, r)
  PROVE  /\ answer' \in [Callers -> Results \cup {None}]
         /\ \A c \in Callers : answer'[c] = IF c \in to /\ ~closed[c] THEN r ELSE answer[c]
  BY DEF Send, TypeOK

\* finish_static_work leaves the work without senders.
LEMMA FinishType ==
  ASSUME TypeOK, NEW w \in Callers, NEW r \in Results, NEW ends, Finish(w, r, ends)
  PROVE  /\ running' \in [Callers -> BOOLEAN] /\ waiters' \in [Callers -> SUBSET Callers]
         /\ terminal' \in [Callers -> Results \cup {None}]
         /\ answer' \in [Callers -> Results \cup {None}]
         /\ requested' = requested /\ blocked' = blocked
  <1>1. answer' \in [Callers -> Results \cup {None}]
    BY SendEffect DEF Finish
  <1>2. terminal' \in [Callers -> Results \cup {None}]
    BY DEF Finish, TypeOK
  <1>3. running' \in [Callers -> BOOLEAN] /\ waiters' \in [Callers -> SUBSET Callers]
    BY DEF Finish, TypeOK
  <1> QED
    BY <1>1, <1>2, <1>3 DEF Finish

\* begin_render, typed.
LEMMA BeginRenderType ==
  ASSUME TypeOK, NEW w \in Callers, TakePermit(w), BeginRender(w)
  PROVE  /\ renders' \in Int /\ permit' \in [Callers -> {"none", "task", "io"}]
         /\ blocked' \in [Callers -> BOOLEAN] /\ running' \in [Callers -> BOOLEAN]
         /\ template' \in [Callers -> Callers \cup {None}]
         /\ requested' \in [Callers -> Callers \cup {None}]
         /\ gpc' \in [Callers -> TaskPoints]
         /\ UNCHANGED <<waiters, terminal, answer>>
  <1>1. renders' \in Int /\ permit' \in [Callers -> {"none", "task", "io"}]
    BY DEF TakePermit, TypeOK
  <1>2. blocked' \in [Callers -> BOOLEAN] /\ running' \in [Callers -> BOOLEAN]
    BY DEF BeginRender, TypeOK
  <1>3. template' \in [Callers -> Callers \cup {None}]
    BY DEF BeginRender, TypeOK
  <1>4. requested' \in [Callers -> Callers \cup {None}] /\ gpc' \in [Callers -> TaskPoints]
    BY DEF BeginRender, TypeOK, TaskPoints
  <1> QED
    BY <1>1, <1>2, <1>3, <1>4 DEF BeginRender

-----------------------------------------------------------------------------
(* Type correctness.                                                       *)

\* Every step of a call keeps the state well typed.
LEMMA CallType ==
  ASSUME TypeOK, NEW c \in Callers,
         \/ Start(c) \/ KeyLost(c) \/ Lookup(c) \/ Join(c) \/ SpawnAndWake(c)
         \/ CloseWaiter(c) \/ WakeOnDrop(c)
  PROVE  TypeOK'
  <1> USE CallersAssumption, KeysAssumption
      DEF workState, wakeVars, callVars, taskVars, streamVars, pools
  <1>1. CASE Start(c) \/ KeyLost(c)
    <2>1. cpc' \in [Callers -> CallPoints] /\ joined' \in [Callers -> Callers \cup {None}]
      BY <1>1 DEF Start, KeyLost, Return, TypeOK, CallPoints
    <2>2. admitted' \in Int
      BY <1>1 DEF Start, KeyLost, Return, TypeOK
    <2> QED
      BY <1>1, <2>1, <2>2 DEF Start, KeyLost, Return, TypeOK
  <1>2. CASE Lookup(c)
    <2>1. registry' \in [Keys -> Callers \cup {None}]
      BY <1>2 DEF Lookup, TypeOK
    <2>2. joined' \in [Callers -> Callers \cup {None}]
      BY <1>2 DEF Lookup, TypeOK
    <2>3. cpc' \in [Callers -> CallPoints]
      BY <1>2 DEF Lookup, TypeOK, CallPoints
    <2> QED
      BY <1>2, <2>1, <2>2, <2>3 DEF Lookup, TypeOK
  <1>3. CASE Join(c)
    <2>1. waiters' \in [Callers -> SUBSET Callers]
      BY <1>3 DEF Join, Return, Retained, TypeOK
    <2>2. requested' \in [Callers -> Callers \cup {None}]
      BY <1>3 DEF Join, Return, TypeOK
    <2>3. joined' \in [Callers -> Callers \cup {None}] /\ admitted' \in Int
      BY <1>3 DEF Join, Return, TypeOK
    <2>4. cpc' \in [Callers -> CallPoints]
      BY <1>3 DEF Join, Return, TypeOK, CallPoints
    <2> QED
      BY <1>3, <2>1, <2>2, <2>3, <2>4 DEF Join, TypeOK
  <1>4. CASE SpawnAndWake(c)
    <2>1. gpc' \in [Callers -> TaskPoints] /\ cpc' \in [Callers -> CallPoints]
      BY <1>4 DEF SpawnAndWake, TypeOK, TaskPoints, CallPoints
    <2>2. waker' \in [Callers -> BOOLEAN] /\ sched' \in [Callers -> BOOLEAN]
      BY <1>4, WakeEffect DEF SpawnAndWake
    <2> QED
      BY <1>4, <2>1, <2>2 DEF SpawnAndWake, TypeOK
  <1>5. CASE CloseWaiter(c)
    <2>1. closed' \in [Callers -> BOOLEAN] /\ cpc' \in [Callers -> CallPoints]
      BY <1>5 DEF CloseWaiter, TypeOK, CallPoints
    <2> QED
      BY <1>5, <2>1 DEF CloseWaiter, TypeOK
  <1>6. CASE WakeOnDrop(c)
    <2>1. waker' \in [Callers -> BOOLEAN] /\ sched' \in [Callers -> BOOLEAN]
      BY <1>6, WakeEffect DEF WakeOnDrop
    <2>2. cpc' \in [Callers -> CallPoints] /\ joined' \in [Callers -> Callers \cup {None}]
      BY <1>6 DEF WakeOnDrop, Return, TypeOK, CallPoints
    <2>3. answer' \in [Callers -> Results \cup {None}] /\ admitted' \in Int
      BY <1>6 DEF WakeOnDrop, Return, TypeOK
    <2> QED
      BY <1>6, <2>1, <2>2, <2>3 DEF WakeOnDrop, TypeOK
  <1> QED
    BY <1>1, <1>2, <1>3, <1>4, <1>5, <1>6

\* Every step of a generation task, of its I/O and of its streams keeps the
\* state well typed.
LEMMA TaskType ==
  ASSUME TypeOK, Polled, NEW w \in Callers,
         TaskStep(w) \/ RenderDone(w) \/ IoEnd(w) \/ Abort(w) \/ StreamActivity(w)
  PROVE  TypeOK'
  <1> USE CallersAssumption, PolicyAssumption
      DEF workState, wakeVars, callVars, taskVars, streamVars, pools
  <1>1. CASE GenStart(w)
    <2>1. /\ running' \in [Callers -> BOOLEAN] /\ waiters' \in [Callers -> SUBSET Callers]
          /\ terminal' \in [Callers -> Results \cup {None}]
          /\ answer' \in [Callers -> Results \cup {None}] /\ blocked' = blocked
          /\ requested' \in [Callers -> Callers \cup {None}]
      <3>1. CASE Finish(w, "capacity", TRUE)
        BY <3>1, FinishType DEF TypeOK, Results
      <3>2. CASE ~Finish(w, "capacity", TRUE)
        BY <1>1, <3>2 DEF GenStart, TypeOK
      <3> QED
        BY <3>1, <3>2
    <2>2. gpc' \in [Callers -> TaskPoints]
      BY <1>1 DEF GenStart, Finish, TypeOK, TaskPoints
    <2>3. template' \in [Callers -> Callers \cup {None}]
      BY <1>1 DEF GenStart, Finish, TypeOK
    <2>4. reserved' \in [Callers -> 0..Regenerate] /\ subscriptions' \in Int
      BY <1>1 DEF GenStart, Finish, TypeOK
    <2> QED
      BY <1>1, <2>1, <2>2, <2>3, <2>4 DEF GenStart, TypeOK
  <1>2. CASE RenderPermit(w)
    <2>1. CASE TakePermit(w) /\ BeginRender(w)
      BY <1>2, <2>1, BeginRenderType DEF RenderPermit, TypeOK
    <2>2. CASE first[w] /\ Finish(w, "capacity", TRUE) /\ gpc' = [gpc EXCEPT ![w] = "exit"]
                /\ UNCHANGED <<renders, permit, template>>
      <3>1. gpc' \in [Callers -> TaskPoints] /\ "capacity" \in Results
        BY <2>2 DEF TypeOK, TaskPoints, Results
      <3> QED
        BY <1>2, <2>2, <3>1, FinishType DEF RenderPermit, TypeOK
    <2>3. CASE Refuse(w) /\ UNCHANGED <<renders, permit, template>>
                /\ gpc' = [gpc EXCEPT ![w] = IF trigger[w] = "request"
                                                THEN "reopen" ELSE "wait_render"]
      <3>1. gpc' \in [Callers -> TaskPoints] /\ "capacity" \in Results
        BY <2>3 DEF TypeOK, TaskPoints, Results
      <3>2. answer' \in [Callers -> Results \cup {None}]
        BY <2>3, <3>1, SendEffect DEF Refuse
      <3>3. blocked' \in [Callers -> BOOLEAN] /\ running' \in [Callers -> BOOLEAN]
        BY <2>3 DEF Refuse, TypeOK
      <3>4. requested' \in [Callers -> Callers \cup {None}] /\ waiters' \in [Callers -> SUBSET Callers]
        BY <2>3 DEF Refuse, TypeOK
      <3> QED
        BY <1>2, <2>3, <3>1, <3>2, <3>3, <3>4 DEF RenderPermit, Refuse, TypeOK
    <2> QED
      BY <1>2, <2>1, <2>2, <2>3 DEF RenderPermit
  <1>3. CASE Reopen(w)
    <2>1. blocked' \in [Callers -> BOOLEAN] /\ gpc' \in [Callers -> TaskPoints]
      BY <1>3 DEF Reopen, TypeOK, TaskPoints
    <2> QED
      BY <1>3, <2>1 DEF Reopen, TypeOK
  <1>4. CASE WaitForRender(w)
    BY <1>4, BeginRenderType DEF WaitForRender, TypeOK
  <1>5. CASE RenderDone(w)
    <2>1. /\ running' \in [Callers -> BOOLEAN] /\ waiters' \in [Callers -> SUBSET Callers]
          /\ terminal' \in [Callers -> Results \cup {None}]
          /\ answer' \in [Callers -> Results \cup {None}]
          /\ requested' = requested /\ blocked' = blocked
      <3>1. CASE \E r \in Outcomes : Complete(w, r)
        BY <3>1, FinishType DEF Complete, Outcomes, Results
      <3>2. CASE UNCHANGED <<workState, answer>>
        BY <3>2 DEF TypeOK
      <3> QED
        BY <1>5, <3>1, <3>2 DEF RenderDone, Outcomes
    <2>2. gpc' \in [Callers -> TaskPoints]
      BY <1>5 DEF RenderDone, Complete, TypeOK, TaskPoints
    <2>3. streams' \in [Callers -> 0..Regenerate] /\ reserved' \in [Callers -> 0..Regenerate]
      BY <1>5 DEF RenderDone, Subscribe, TypeOK
    <2>4. permit' \in [Callers -> {"none", "task", "io"}] /\ renders' \in Int
      BY <1>5 DEF RenderDone, DropPermit, TypeOK
    <2>5. io' \in [Callers -> {"idle", "running"} \cup Outcomes]
      BY <1>5 DEF RenderDone, TypeOK
    <2> QED
      BY <1>5, <2>1, <2>2, <2>3, <2>4, <2>5 DEF RenderDone, TypeOK
  <1>6. CASE PublishDone(w)
    <2>1. io[w] \in Results /\ Finish(w, io[w], streams'[w] = 0)
      BY <1>6 DEF PublishDone, Complete, Results
    <2>2. /\ running' \in [Callers -> BOOLEAN] /\ waiters' \in [Callers -> SUBSET Callers]
          /\ terminal' \in [Callers -> Results \cup {None}]
          /\ answer' \in [Callers -> Results \cup {None}]
          /\ requested' = requested /\ blocked' = blocked
      BY <2>1, FinishType
    <2>3. gpc' \in [Callers -> TaskPoints] /\ io' \in [Callers -> {"idle", "running"} \cup Outcomes]
      BY <1>6 DEF PublishDone, Complete, TypeOK, TaskPoints
    <2>4. streams' \in [Callers -> 0..Regenerate] /\ reserved' \in [Callers -> 0..Regenerate]
      BY <1>6 DEF PublishDone, Subscribe, TypeOK
    <2> QED
      BY <1>6, <2>2, <2>3, <2>4 DEF PublishDone, TypeOK
  <1>7. CASE AbandonRegister(w) \/ NextTrigger(w)
    <2>1. gpc' \in [Callers -> TaskPoints] /\ first' \in [Callers -> BOOLEAN]
      BY <1>7 DEF AbandonRegister, NextTrigger, TypeOK, TaskPoints
    <2>2. waker' \in [Callers -> BOOLEAN] /\ sched' \in [Callers -> BOOLEAN]
      BY <1>7 DEF AbandonRegister, NextTrigger, Register, TypeOK
    <2>3. permit' \in [Callers -> {"none", "task", "io"}] /\ renders' \in Int
      BY <1>7 DEF AbandonRegister, NextTrigger, DropPermit, TypeOK
    <2> QED
      BY <1>7, <2>1, <2>2, <2>3 DEF AbandonRegister, NextTrigger, TypeOK
  <1>8. CASE AbandonCheck(w) \/ EndOfStreams(w)
    <2>1. gpc' \in [Callers -> TaskPoints] /\ trigger' \in [Callers -> {"request", "subscription"}]
      BY <1>8 DEF AbandonCheck, EndOfStreams, TypeOK, TaskPoints
    <2>2. waiters' \in [Callers -> SUBSET Callers]
      BY <1>8 DEF AbandonCheck, EndOfStreams, Retained, TypeOK
    <2>3. terminal' \in [Callers -> Results \cup {None}]
      BY <1>8 DEF AbandonCheck, EndOfStreams, Results, TypeOK
    <2> QED
      BY <1>8, <2>1, <2>2, <2>3 DEF AbandonCheck, EndOfStreams, TypeOK
  <1>9. CASE IoEnd(w)
    <2>1. permit' \in [Callers -> {"none", "task", "io"}] /\ renders' \in Int
      BY <1>9 DEF IoEnd, TypeOK
    <2>2. io' \in [Callers -> {"idle", "running"} \cup Outcomes]
      BY <1>9 DEF IoEnd, TypeOK
    <2> QED
      BY <1>9, <2>1, <2>2 DEF IoEnd, TypeOK
  <1>10. CASE CheckRequested(w) \/ Resume(w)
    <2>1. gpc' \in [Callers -> TaskPoints] /\ trigger' \in [Callers -> {"request", "subscription"}]
      BY <1>10 DEF CheckRequested, Resume, TypeOK, TaskPoints
    <2>2. sched' \in [Callers -> BOOLEAN]
      BY <1>10 DEF CheckRequested, Resume, TypeOK
    <2> QED
      BY <1>10, <2>1, <2>2 DEF CheckRequested, Resume, TypeOK
  <1>11. CASE PollStreams(w)
    <2>1. gpc' \in [Callers -> TaskPoints] /\ trigger' \in [Callers -> {"request", "subscription"}]
      BY <1>11 DEF PollStreams, TypeOK, TaskPoints
    <2>2. streams[w] \in 1..Regenerate
      BY <1>11 DEF PollStreams, TypeOK, Polled
    <2>3. streams' \in [Callers -> 0..Regenerate] /\ subscriptions' \in Int
      BY <1>11, <2>2 DEF PollStreams, TypeOK
    <2>4. ready' \in [Callers -> {"pending", "item", "end"}]
      BY <1>11 DEF PollStreams, TypeOK
    <2> QED
      BY <1>11, <2>1, <2>3, <2>4 DEF PollStreams, TypeOK
  <1>12. CASE GuardDrop(w)
    <2>1. GuardResult(w) \in Results
      BY DEF GuardResult, TypeOK, Results
    <2>2. answer' \in [Callers -> Results \cup {None}]
      BY <1>12, <2>1, SendEffect DEF GuardDrop
    <2>3. terminal' \in [Callers -> Results \cup {None}] /\ waiters' \in [Callers -> SUBSET Callers]
      BY <1>12, <2>1 DEF GuardDrop, TypeOK
    <2>4. permit' \in [Callers -> {"none", "task", "io"}] /\ renders' \in Int
      BY <1>12 DEF GuardDrop, DropPermit, TypeOK
    <2>5. streams' \in [Callers -> 0..Regenerate] /\ subscriptions' \in Int
      BY <1>12 DEF GuardDrop, TypeOK
    <2>6. gpc' \in [Callers -> TaskPoints]
      BY <1>12 DEF GuardDrop, TypeOK, TaskPoints
    <2> QED
      BY <1>12, <2>2, <2>3, <2>4, <2>5, <2>6 DEF GuardDrop, TypeOK
  <1>13. CASE Unregister(w)
    <2>1. registry' \in [Keys -> Callers \cup {None}]
      BY <1>13 DEF Unregister, TypeOK
    <2>2. reserved' \in [Callers -> 0..Regenerate] /\ subscriptions' \in Int
      BY <1>13 DEF Unregister, DropReservation, TypeOK
    <2>3. gpc' \in [Callers -> TaskPoints] /\ first' \in [Callers -> BOOLEAN]
      BY <1>13 DEF Unregister, TypeOK, TaskPoints
    <2>4. trigger' \in [Callers -> {"request", "subscription"}]
      BY <1>13 DEF Unregister, TypeOK
    <2>5. template' \in [Callers -> Callers \cup {None}]
      BY <1>13 DEF Unregister, TypeOK
    <2>6. events' \in [Callers -> 0..MaxEvents] /\ ready' \in [Callers -> {"pending", "item", "end"}]
      BY <1>13 DEF Unregister, TypeOK
    <2>7. sched' \in [Callers -> BOOLEAN] /\ waker' \in [Callers -> BOOLEAN]
      BY <1>13 DEF Unregister, TypeOK
    <2> QED
      BY <1>13, <2>1, <2>2, <2>3, <2>4, <2>5, <2>6, <2>7 DEF Unregister, TypeOK
  <1>14. CASE Abort(w)
    <2>1. permit' \in [Callers -> {"none", "task", "io"}] /\ renders' \in Int
      BY <1>14 DEF Abort, DropPermit, TypeOK
    <2>2. streams' \in [Callers -> 0..Regenerate] /\ reserved' \in [Callers -> 0..Regenerate]
      BY <1>14 DEF Abort, TypeOK
    <2>3. subscriptions' \in Int
      BY <1>14 DEF Abort, TypeOK
    <2>4. gpc' \in [Callers -> TaskPoints] /\ aborted' \in [Callers -> BOOLEAN]
      BY <1>14 DEF Abort, TypeOK, TaskPoints
    <2> QED
      BY <1>14, <2>1, <2>2, <2>3, <2>4 DEF Abort, TypeOK
  <1>15. CASE StreamActivity(w)
    <2>1. events' \in [Callers -> 0..MaxEvents] /\ ready' \in [Callers -> {"pending", "item", "end"}]
      BY <1>15 DEF StreamActivity, TypeOK
    <2>2. sched' \in [Callers -> BOOLEAN]
      BY <1>15 DEF StreamActivity, TypeOK
    <2> QED
      BY <1>15, <2>1, <2>2 DEF StreamActivity, TypeOK
  <1> QED
    BY <1>1, <1>2, <1>3, <1>4, <1>5, <1>6, <1>7, <1>8, <1>9, <1>10, <1>11, <1>12, <1>13,
       <1>14, <1>15 DEF TaskStep

-----------------------------------------------------------------------------
(* Control: one generation per entry.                                      *)

\* The parts of the control invariant that speak of calls and tasks alone.
Control == Polled /\ CallState /\ TaskState /\ Admission

\* Every step of a call keeps calls, tasks and their results in step.
LEMMA CallControl ==
  ASSUME TypeOK, Control, NEW c \in Callers,
         \/ Start(c) \/ KeyLost(c) \/ Lookup(c) \/ Join(c) \/ SpawnAndWake(c)
         \/ CloseWaiter(c) \/ WakeOnDrop(c),
         Registration
  PROVE  Control'
  <1> USE CallersAssumption, KeysAssumption
      DEF workState, wakeVars, callVars, taskVars, streamVars, pools, Over, Rendering
  <1>1. CASE Start(c) \/ KeyLost(c)
    <2>1. CallState'
      BY <1>1 DEF Start, KeyLost, Return, TypeOK, Control, CallState
    <2>2. (Polled /\ TaskState /\ Admission)'
      BY <1>1 DEF Start, KeyLost, Return, TypeOK, Control, Polled, TaskState, Admission
    <2> QED
      BY <2>1, <2>2 DEF Control
  <1>2. CASE Lookup(c)
    <2>1. joined'[c] \in Callers
      BY <1>2 DEF Lookup, Active, KeysOf, TypeOK
    <2>2. CallState'
      BY <1>2, <2>1 DEF Lookup, TypeOK, Control, CallState
    <2>3. (Polled /\ TaskState /\ Admission)'
      BY <1>2 DEF Lookup, TypeOK, Control, Polled, TaskState, Admission
    <2> QED
      BY <2>2, <2>3 DEF Control
  <1>3. CASE Join(c)
    <2>1. CallState'
      BY <1>3 DEF Join, Return, TypeOK, Control, CallState
    <2>2. (Polled /\ TaskState /\ Admission)'
      BY <1>3 DEF Join, Return, TypeOK, Control, Polled, TaskState, Admission
    <2> QED
      BY <2>1, <2>2 DEF Control
  <1>4. CASE SpawnAndWake(c)
    <2>1. CallState'
      BY <1>4 DEF SpawnAndWake, TypeOK, Control, CallState
    <2>2. gpc[c] = "none"
      BY <1>4 DEF SpawnAndWake, Control, TaskState
    <2>3. (Polled /\ TaskState /\ Admission)'
      BY <1>4, <2>2 DEF SpawnAndWake, TypeOK, Control, Polled, TaskState, Admission
    <2> QED
      BY <2>1, <2>3 DEF Control
  <1>5. CASE CloseWaiter(c) \/ WakeOnDrop(c)
    <2>1. CallState'
      BY <1>5 DEF CloseWaiter, WakeOnDrop, Return, TypeOK, Control, CallState
    <2>2. (Polled /\ TaskState /\ Admission)'
      BY <1>5 DEF CloseWaiter, WakeOnDrop, Return, TypeOK, Control, Polled, TaskState, Admission
    <2> QED
      BY <2>1, <2>2 DEF Control
  <1> QED
    BY <1>1, <1>2, <1>3, <1>4, <1>5

\* An answer that a generation sends reaches calls that wait for one.
LEMMA AnswersReachSeen ==
  ASSUME TypeOK, CallState, Senders, NEW w \in Callers, NEW r \in Results,
         Send(waiters[w], r), UNCHANGED <<cpc, joined, closed>>
  PROVE  CallState'
  <1>1. \A c \in Callers : answer'[c] # None => answer[c] # None \/ Seen(c)
    BY SendEffect DEF Senders, OwnSenders, TypeOK
  <1> QED
    BY <1>1 DEF CallState, Seen

\* Every step of a task keeps calls, tasks and their results in step.
LEMMA TaskControl ==
  ASSUME TypeOK, Control, Senders, NEW w \in Callers,
         TaskStep(w) \/ RenderDone(w) \/ IoEnd(w) \/ Abort(w) \/ StreamActivity(w)
  PROVE  Control'
  <1> USE CallersAssumption, PolicyAssumption
      DEF workState, wakeVars, callVars, taskVars, streamVars, pools, Over, Rendering
  <1>1. CASE GenStart(w)
    <2>1. CallState'
      BY <1>1, AnswersReachSeen DEF GenStart, Finish, Control, Results, CallState
    <2>2. (Polled /\ TaskState)'
      BY <1>1 DEF GenStart, Finish, TypeOK, Control, Polled, TaskState
    <2>3. Admission'
      BY <1>1 DEF GenStart, Finish, TypeOK, Control, Admission
    <2> QED
      BY <2>1, <2>2, <2>3 DEF Control
  <1>2. CASE RenderPermit(w)
    <2>1. CallState'
      BY <1>2, AnswersReachSeen DEF RenderPermit, BeginRender, Finish, Refuse, Control, Results,
         CallState
    <2>2. (Polled /\ TaskState /\ Admission)'
      BY <1>2 DEF RenderPermit, BeginRender, Finish, Refuse, TypeOK, Control, Polled, TaskState,
         Admission
    <2> QED
      BY <2>1, <2>2 DEF Control
  <1>3. CASE Reopen(w) \/ WaitForRender(w)
    <2>1. CallState'
      BY <1>3 DEF Reopen, WaitForRender, BeginRender, Control, CallState
    <2>2. (Polled /\ TaskState /\ Admission)'
      BY <1>3 DEF Reopen, WaitForRender, BeginRender, TypeOK, Control, Polled, TaskState, Admission
    <2> QED
      BY <2>1, <2>2 DEF Control
  <1>4. CASE RenderDone(w)
    <2>1. CallState'
      <3>1. CASE UNCHANGED <<workState, answer>>
        BY <1>4, <3>1 DEF RenderDone, Control, CallState
      <3>2. CASE \E r \in Outcomes : Complete(w, r)
        BY <1>4, <3>2, AnswersReachSeen DEF RenderDone, Complete, Finish, Control, Outcomes, Results
      <3> QED
        BY <1>4, <3>1, <3>2 DEF RenderDone, Outcomes
    <2>2. (Polled /\ TaskState)'
      BY <1>4 DEF RenderDone, Subscribe, Complete, Finish, TypeOK, Control, Polled, TaskState
    <2>3. Admission'
      BY <1>4 DEF RenderDone, Subscribe, Complete, Finish, TypeOK, Control, Admission
    <2> QED
      BY <2>1, <2>2, <2>3 DEF Control
  <1>5. CASE PublishDone(w)
    <2>1. CallState'
      BY <1>5, AnswersReachSeen DEF PublishDone, Complete, Finish, Control, Results, CallState
    <2>2. (Polled /\ TaskState)'
      BY <1>5 DEF PublishDone, Subscribe, Complete, Finish, TypeOK, Control, Polled, TaskState
    <2>3. Admission'
      BY <1>5 DEF PublishDone, Subscribe, Complete, Finish, TypeOK, Control, Admission
    <2> QED
      BY <2>1, <2>2, <2>3 DEF Control
  <1>6. CASE AbandonRegister(w) \/ AbandonCheck(w) \/ IoEnd(w)
    BY <1>6 DEF AbandonRegister, AbandonCheck, IoEnd, TypeOK, Control, Polled, CallState, TaskState,
       Admission
  <1>7. CASE NextTrigger(w) \/ CheckRequested(w) \/ EndOfStreams(w)
    BY <1>7 DEF NextTrigger, CheckRequested, EndOfStreams, TypeOK, Control, Polled, CallState,
       TaskState, Admission
  <1>8. CASE PollStreams(w)
    BY <1>8 DEF PollStreams, TypeOK, Control, Polled, CallState, TaskState, Admission
  <1>9. CASE Resume(w) \/ Abort(w) \/ StreamActivity(w)
    BY <1>9 DEF Resume, Abort, AwaitPoints, StreamActivity, TypeOK, Control, Polled, CallState,
       TaskState, Admission
  <1>10. CASE GuardDrop(w)
    <2>1. GuardResult(w) \in Results /\ GuardResult(w) # None
      BY DEF GuardResult, TypeOK, Results, Outcomes
    <2>2. CallState'
      BY <1>10, <2>1, AnswersReachSeen DEF GuardDrop, Control
    <2>3. (Polled /\ TaskState)'
      BY <1>10 DEF GuardDrop, TypeOK, Control, Polled, TaskState
    <2>4. Admission'
      BY <1>10, <2>1 DEF GuardDrop, TypeOK, Control, Admission
    <2> QED
      BY <2>2, <2>3, <2>4 DEF Control
  <1>11. CASE Unregister(w)
    BY <1>11 DEF Unregister, TypeOK, Control, Polled, CallState, TaskState, Admission
  <1> QED
    BY <1>1, <1>2, <1>3, <1>4, <1>5, <1>6, <1>7, <1>8, <1>9, <1>10, <1>11 DEF TaskStep

\* Steps that leave the registry and the calls alone, start no task and take
\* no result back, keep every key leading to its generation.
LEMMA RegistryKept ==
  ASSUME TypeOK, Control, Registration, SingleFlight,
         UNCHANGED <<registry, cpc, joined>>,
         \A v \in Callers : gpc'[v] = "none" <=> gpc[v] = "none",
         \A v \in Callers : terminal[v] # None => terminal'[v] # None
  PROVE  (Registration /\ SingleFlight)'
  <1>1. \A v \in Callers : Begun(v)' <=> Begun(v)
    BY DEF Begun
  <1>2. Registration'
    BY <1>1, KeysAssumption DEF Registration, TypeOK, KeysOf, Control, CallState
  <1>3. SingleFlight'
    BY DEF SingleFlight, Live, KeysOf
  <1> QED
    BY <1>2, <1>3

\* Every step of a call keeps one generation per entry.
LEMMA CallRegistry ==
  ASSUME TypeOK, Control, Registration, SingleFlight, NEW c \in Callers,
         \/ Start(c) \/ KeyLost(c) \/ Lookup(c) \/ Join(c) \/ SpawnAndWake(c)
         \/ CloseWaiter(c) \/ WakeOnDrop(c)
  PROVE  (Registration /\ SingleFlight)'
  <1> USE CallersAssumption, KeysAssumption
      DEF workState, wakeVars, callVars, taskVars, streamVars, pools
  <1>1. CASE Start(c) \/ KeyLost(c)
    <2>1. \A v \in Callers : Begun(v)' <=> Begun(v)
      BY <1>1 DEF Start, KeyLost, Return, TypeOK, Begun
    <2>2. Registration'
      BY <1>1, <2>1 DEF Start, KeyLost, Return, TypeOK, Registration, KeysOf, Control, CallState
    <2>3. SingleFlight'
      BY <1>1, <2>1 DEF Start, KeyLost, Return, TypeOK, SingleFlight, Live, KeysOf
    <2> QED
      BY <2>2, <2>3
  <1>2. CASE Lookup(c)
    <2>1. gpc[c] = "none" /\ ~Begun(c) /\ terminal[c] = None
      BY <1>2 DEF Lookup, Control, TaskState, Begun, Admission, Over
    <2>2. CASE \E k \in KeysOf(c) : Active(k)
      <3>1. PICK k \in KeysOf(c) : Active(k) /\ joined' = [joined EXCEPT ![c] = registry[k]]
        BY <1>2, <2>2 DEF Lookup, KeysOf
      <3>2. k \in Keys /\ registry[k] \in Callers /\ registry' = registry
        BY <1>2, <2>2, <3>1 DEF Lookup, KeysOf, Active, TypeOK
      <3>3. Begun(registry[k]) /\ k \in KeysOf(registry[k]) /\ registry[k] # c
        BY <2>1, <3>2 DEF Registration
      <3>4. \A v \in Callers : Begun(v)' <=> Begun(v)
        BY <1>2, <2>1, <3>1, <3>3 DEF Lookup, TypeOK, Begun
      <3>5. Registration'
        <4>1. ASSUME NEW x \in Callers, cpc'[x] \in {"join", "wake", "waiting", "closing"}
              PROVE  (Begun(joined[x]) /\ KeysOf(x) \cap KeysOf(joined[x]) # {})'
          <5>1. CASE x = c
            BY <3>1, <3>2, <3>3, <3>4, <5>1 DEF TypeOK
          <5>2. CASE x # c
            BY <1>2, <3>1, <3>4, <4>1, <5>2 DEF Lookup, TypeOK, Registration, Control, CallState
          <5> QED
            BY <5>1, <5>2
        <4>2. (\A j \in Keys : registry[j] # None => Begun(registry[j]) /\ j \in KeysOf(registry[j]))'
          BY <3>2, <3>4 DEF Registration, TypeOK
        <4> QED
          BY <4>1, <4>2 DEF Registration, KeysOf
      <3>6. SingleFlight'
        BY <1>2, <3>1, <3>2, <3>3 DEF Lookup, TypeOK, SingleFlight, Live, KeysOf
      <3> QED
        BY <3>5, <3>6
    <2>3. CASE ~\E k \in KeysOf(c) : Active(k)
      <3>1. /\ joined' = [joined EXCEPT ![c] = c] /\ cpc' = [cpc EXCEPT ![c] = "join"]
            /\ registry' = [k \in Keys |-> IF k \in KeysOf(c) THEN c ELSE registry[k]]
            /\ UNCHANGED <<gpc, terminal>>
        BY <1>2, <2>3 DEF Lookup
      <3>2. \A v \in Callers : Begun(v)' <=> Begun(v) \/ v = c
        BY <2>1, <3>1 DEF TypeOK, Begun
      <3>3. Registration'
        <4>1. ASSUME NEW x \in Callers, cpc'[x] \in {"join", "wake", "waiting", "closing"}
              PROVE  (Begun(joined[x]) /\ KeysOf(x) \cap KeysOf(joined[x]) # {})'
          <5>1. CASE x = c
            BY <3>1, <3>2, <5>1 DEF TypeOK, KeysOf
          <5>2. CASE x # c
            BY <3>1, <3>2, <4>1, <5>2 DEF TypeOK, Registration, Control, CallState
          <5> QED
            BY <5>1, <5>2
        <4>2. (\A j \in Keys : registry[j] # None => Begun(registry[j]) /\ j \in KeysOf(registry[j]))'
          BY <3>1, <3>2 DEF Registration, TypeOK
        <4> QED
          BY <4>1, <4>2 DEF Registration, KeysOf
      <3>4. ASSUME NEW w \in Callers, w # c, Live(w)' PROVE \A k \in KeysOf(w) : registry'[k] = w
        \* w was live before, so a key shared with c would have been active
        <4>1. Live(w)
          BY <3>1, <3>4 DEF Live, TypeOK
        <4>2. \A k \in KeysOf(w) : registry[k] = w /\ Active(k)
          BY <4>1 DEF SingleFlight, Live, Active
        <4> QED
          BY <2>3, <3>1, <4>2 DEF KeysOf
      <3>5. \A k \in KeysOf(c) : registry'[k] = c
        BY <3>1 DEF KeysOf
      <3>6. SingleFlight'
        BY <3>4, <3>5 DEF SingleFlight, KeysOf
      <3> QED
        BY <3>3, <3>6
    <2> QED
      BY <2>2, <2>3
  <1>3. CASE Join(c)
    <2>1. joined[c] = c => terminal[c] = None /\ ~blocked[c] /\ gpc[c] = "none"
      BY <1>3 DEF Join, Control, TaskState, Admission, Over
    <2>2. \A v \in Callers : Begun(v)' <=> Begun(v)
      BY <1>3, <2>1 DEF Join, Return, Ended, TypeOK, Begun
    <2>3. Registration'
      BY <1>3, <2>2 DEF Join, Return, TypeOK, Registration, KeysOf, Control, CallState
    <2>4. SingleFlight'
      BY <1>3, <2>1 DEF Join, Return, TypeOK, SingleFlight, Live, KeysOf
    <2> QED
      BY <2>3, <2>4
  <1>4. CASE SpawnAndWake(c)
    <2>1. \A v \in Callers : Begun(v)' <=> Begun(v)
      BY <1>4 DEF SpawnAndWake, TypeOK, Begun, Control, TaskState
    <2>2. Registration'
      BY <1>4, <2>1 DEF SpawnAndWake, TypeOK, Registration, KeysOf, Control, CallState
    <2>3. SingleFlight'
      BY <1>4 DEF SpawnAndWake, TypeOK, SingleFlight, Live, KeysOf
    <2> QED
      BY <2>2, <2>3
  <1>5. CASE CloseWaiter(c) \/ WakeOnDrop(c)
    <2>1. \A v \in Callers : Begun(v)' <=> Begun(v)
      BY <1>5 DEF CloseWaiter, WakeOnDrop, Return, TypeOK, Begun
    <2>2. Registration'
      BY <1>5, <2>1 DEF CloseWaiter, WakeOnDrop, Return, TypeOK, Registration, KeysOf, Control, CallState
    <2>3. SingleFlight'
      BY <1>5, <2>1 DEF CloseWaiter, WakeOnDrop, Return, TypeOK, SingleFlight, Live, KeysOf
    <2> QED
      BY <2>2, <2>3
  <1> QED
    BY <1>1, <1>2, <1>3, <1>4, <1>5

\* Every step of a task keeps one generation per entry.
LEMMA TaskRegistry ==
  ASSUME TypeOK, Control, Registration, SingleFlight, NEW w \in Callers,
         TaskStep(w) \/ RenderDone(w) \/ IoEnd(w) \/ Abort(w) \/ StreamActivity(w)
  PROVE  (Registration /\ SingleFlight)'
  <1> USE CallersAssumption, KeysAssumption
      DEF workState, wakeVars, callVars, taskVars, streamVars, pools
  <1>1. CASE GenStart(w) \/ RenderPermit(w) \/ Reopen(w) \/ WaitForRender(w)
    BY <1>1, RegistryKept DEF GenStart, RenderPermit, Reopen, WaitForRender, BeginRender, Finish,
       Refuse, TypeOK
  <1>2. CASE RenderDone(w) \/ PublishDone(w)
    <2>1. UNCHANGED <<registry, cpc, joined>>
      BY <1>2 DEF RenderDone, PublishDone
    <2>2. \A v \in Callers : gpc'[v] = "none" <=> gpc[v] = "none"
      BY <1>2 DEF RenderDone, PublishDone, Complete, TypeOK
    <2>3. \A v \in Callers : terminal[v] # None => terminal'[v] # None
      BY <1>2 DEF RenderDone, PublishDone, Complete, Finish, Outcomes, TypeOK
    <2> QED
      BY <2>1, <2>2, <2>3, RegistryKept
  <1>3. CASE AbandonRegister(w) \/ AbandonCheck(w) \/ IoEnd(w) \/ NextTrigger(w)
             \/ CheckRequested(w) \/ PollStreams(w) \/ EndOfStreams(w)
    BY <1>3, RegistryKept DEF AbandonRegister, AbandonCheck, IoEnd, NextTrigger, CheckRequested,
       PollStreams, EndOfStreams, TypeOK
  <1>4. CASE Resume(w) \/ Abort(w) \/ StreamActivity(w)
    BY <1>4, RegistryKept DEF Resume, Abort, AwaitPoints, StreamActivity, TypeOK
  <1>5. CASE GuardDrop(w)
    BY <1>5, RegistryKept DEF GuardDrop, GuardResult, TypeOK
  <1>6. CASE Unregister(w)
    \* the guard removes only keys that still lead to w, which has its result
    <2>1. \A v \in Callers : Begun(v)' <=> Begun(v)
      BY <1>6 DEF Unregister, TypeOK, Begun
    <2>2. Registration'
      BY <1>6, <2>1 DEF Unregister, OwnEntries, TypeOK, Registration, KeysOf, Control, CallState
    <2>3. terminal[w] # None
      BY <1>6 DEF Unregister, Control, Admission
    <2>4. SingleFlight'
      BY <1>6, <2>3 DEF Unregister, OwnEntries, TypeOK, SingleFlight, Live, KeysOf
    <2> QED
      BY <2>2, <2>4
  <1> QED
    BY <1>1, <1>2, <1>3, <1>4, <1>5, <1>6 DEF TaskStep

-----------------------------------------------------------------------------
(* Answers: every accepted call has a sender until it is answered.         *)

\* Answering every waiter of one work entry leaves the others' as they were.
LEMMA AnswerAll ==
  ASSUME TypeOK, CallState, OwnSenders, SeenHasSender,
         NEW w \in Callers, NEW r \in Results,
         Send(waiters[w], r), waiters' = [waiters EXCEPT ![w] = {}],
         UNCHANGED <<cpc, joined, closed>>
  PROVE  (OwnSenders /\ SeenHasSender)'
  <1> USE CallersAssumption
  <1>1. r # None
    BY DEF Results, Outcomes
  <1>2. \A c \in Callers : answer'[c] = IF c \in waiters[w] /\ ~closed[c] THEN r ELSE answer[c]
    BY SendEffect
  <1>3. OwnSenders'
    BY <1>2 DEF OwnSenders, Seen, TypeOK
  <1>4. SeenHasSender'
    BY <1>1, <1>2 DEF OwnSenders, SeenHasSender, Seen, CallState, TypeOK
  <1> QED
    BY <1>3, <1>4

\* Nobody is left waiting for w once its waiters were answered, whatever it
\* does next; the other work entries are as they were.
LEMMA NobodyLeft ==
  ASSUME TypeOK, NobodyWaits, NEW w \in Callers,
         waiters' = [waiters EXCEPT ![w] = {}], closed' = closed,
         \A v \in Callers \ {w} : terminal'[v] = terminal[v] /\ running'[v] = running[v]
                                   /\ requested'[v] = requested[v]
  PROVE  NobodyWaits'
  BY DEF NobodyWaits, Retained, TypeOK

\* A render that begins takes the request and keeps every sender.
LEMMA RenderBegins ==
  ASSUME TypeOK, Senders, NEW w \in Callers, terminal[w] = None,
         running' = [running EXCEPT ![w] = TRUE], requested' = [requested EXCEPT ![w] = None],
         UNCHANGED <<waiters, terminal, cpc, joined, closed, answer>>
  PROVE  Senders'
  <1>1. (OwnSenders /\ SeenHasSender)'
    BY DEF Senders, OwnSenders, SeenHasSender, Seen
  <1>2. NobodyWaits'
    BY DEF Senders, NobodyWaits, Retained, TypeOK
  <1> QED
    BY <1>1, <1>2 DEF Senders

\* Every step of a call keeps the senders of the calls that wait.
LEMMA CallSenders ==
  ASSUME TypeOK, Control, Senders, NEW c \in Callers,
         \/ Start(c) \/ KeyLost(c) \/ Lookup(c) \/ Join(c) \/ SpawnAndWake(c)
         \/ CloseWaiter(c) \/ WakeOnDrop(c)
  PROVE  Senders'
  <1> USE CallersAssumption
      DEF workState, wakeVars, callVars, taskVars, streamVars, pools, Seen
  <1>1. CASE Start(c) \/ KeyLost(c) \/ Lookup(c)
    <2>1. cpc[c] \notin {"wake", "waiting"} /\ cpc'[c] \notin {"wake", "waiting"}
          /\ UNCHANGED <<waiters, closed, answer, terminal, running, requested>>
          /\ (\A x \in Callers : x # c => cpc'[x] = cpc[x] /\ joined'[x] = joined[x])
      BY <1>1 DEF Start, KeyLost, Lookup, Return, TypeOK
    <2>2. (OwnSenders /\ SeenHasSender)'
      BY <2>1 DEF Senders, OwnSenders, SeenHasSender, TypeOK
    <2>3. NobodyWaits'
      BY <2>1 DEF Senders, NobodyWaits, Retained
    <2> QED
      BY <2>2, <2>3 DEF Senders
  <1>2. CASE Join(c)
    <2>1. CASE waiters' = waiters
      <3>1. cpc[c] \notin {"wake", "waiting"} /\ cpc'[c] \notin {"wake", "waiting"}
            /\ UNCHANGED <<waiters, closed, answer, terminal, running, requested>>
            /\ (\A x \in Callers : x # c => cpc'[x] = cpc[x] /\ joined'[x] = joined[x])
        <4>1. ~(waiters' = [waiters EXCEPT ![joined[c]] = Retained(joined[c]) \cup {c}])
          BY <1>2, <2>1 DEF Join, Control, CallState, Senders, OwnSenders, TypeOK
        <4> QED
          BY <1>2, <2>1, <4>1 DEF Join, Return, TypeOK
      <3>2. (OwnSenders /\ SeenHasSender)'
        BY <3>1 DEF Senders, OwnSenders, SeenHasSender, TypeOK
      <3>3. NobodyWaits'
        BY <3>1 DEF Senders, NobodyWaits, Retained
      <3> QED
        BY <3>2, <3>3 DEF Senders
    <2>2. CASE waiters' # waiters
      <3> DEFINE w == joined[c]
      <3>1. /\ w \in Callers /\ cpc[c] = "join" /\ ~closed[c] /\ answer[c] = None
            /\ terminal[w] = None /\ cpc' = [cpc EXCEPT ![c] = "wake"]
            /\ waiters' = [waiters EXCEPT ![w] = Retained(w) \cup {c}]
            /\ requested' = IF NeedsTemplate(w) THEN [requested EXCEPT ![w] = c] ELSE requested
            /\ UNCHANGED <<running, terminal, joined, closed, answer>>
        BY <1>2, <2>2 DEF Join, Ended, Control, CallState
      <3> HIDE DEF w
      <3>2. OwnSenders'
        BY <3>1 DEF Senders, OwnSenders, Retained, TypeOK, w
      <3>3. SeenHasSender'
        BY <3>1 DEF Senders, SeenHasSender, Retained, Control, CallState, TypeOK, w
      <3>4. terminal'[w] = None /\ (running'[w] \/ requested'[w] # None)
        BY <3>1 DEF NeedsTemplate, TypeOK
      <3>5. NobodyWaits'
        BY <3>1, <3>4 DEF Senders, NobodyWaits, Retained, TypeOK
      <3> QED
        BY <3>2, <3>3, <3>5 DEF Senders
    <2> QED
      BY <2>1, <2>2
  <1>3. CASE SpawnAndWake(c)
    <2>1. (OwnSenders /\ SeenHasSender)'
      BY <1>3 DEF SpawnAndWake, Senders, OwnSenders, SeenHasSender, TypeOK
    <2>2. NobodyWaits'
      BY <1>3 DEF SpawnAndWake, Senders, NobodyWaits, Retained
    <2> QED
      BY <2>1, <2>2 DEF Senders
  <1>4. CASE CloseWaiter(c) \/ WakeOnDrop(c)
    <2>1. cpc[c] = "closing" => closed[c]
      BY DEF Control, CallState
    <2>2. (OwnSenders /\ SeenHasSender)'
      BY <1>4, <2>1 DEF CloseWaiter, WakeOnDrop, Return, Senders, OwnSenders, SeenHasSender, TypeOK
    <2>3. NobodyWaits'
      BY <1>4 DEF CloseWaiter, WakeOnDrop, Senders, NobodyWaits, Retained, TypeOK
    <2> QED
      BY <2>2, <2>3 DEF Senders
  <1> QED
    BY <1>1, <1>2, <1>3, <1>4

\* Every step of a task keeps the senders of the calls that wait.
LEMMA TaskSenders ==
  ASSUME TypeOK, Control, Senders, NEW w \in Callers,
         TaskStep(w) \/ RenderDone(w) \/ IoEnd(w) \/ Abort(w) \/ StreamActivity(w)
  PROVE  Senders'
  <1> USE CallersAssumption
      DEF workState, wakeVars, callVars, taskVars, streamVars, pools
  <1> DEFINE Kept == OwnSenders /\ SeenHasSender
  <1>1. CASE GenStart(w)
    <2>1. CASE Finish(w, "capacity", TRUE)
      <3>1. Kept'
        BY <1>1, <2>1, AnswerAll DEF GenStart, Finish, Senders, Control, Results
      <3>2. NobodyWaits'
        BY <1>1, <2>1, NobodyLeft DEF GenStart, Finish, Senders, TypeOK
      <3> QED
        BY <3>1, <3>2 DEF Senders
    <2>2. CASE ~Finish(w, "capacity", TRUE)
      <3>1. terminal[w] = None
        BY <1>1 DEF GenStart, Control, Admission, Over
      <3> QED
        BY <1>1, <2>2, <3>1, RenderBegins DEF GenStart
    <2> QED
      BY <2>1, <2>2
  <1>2. CASE RenderPermit(w) \/ WaitForRender(w)
    <2>1. CASE BeginRender(w)
      <3>1. terminal[w] = None /\ UNCHANGED <<cpc, joined, closed>>
        BY <1>2 DEF RenderPermit, WaitForRender, Control, Admission, Over
      <3> QED
        BY <2>1, <3>1, RenderBegins DEF BeginRender
    <2>2. CASE RenderPermit(w) /\ (Finish(w, "capacity", TRUE) \/ Refuse(w))
      <3>1. Kept'
        BY <2>2, AnswerAll DEF RenderPermit, Finish, Refuse, Senders, Control, Results
      <3>2. NobodyWaits'
        BY <2>2, NobodyLeft DEF RenderPermit, Finish, Refuse, Senders, TypeOK
      <3> QED
        BY <3>1, <3>2 DEF Senders
    <2> QED
      BY <1>2, <2>1, <2>2 DEF RenderPermit, WaitForRender
  <1>3. CASE RenderDone(w) \/ PublishDone(w)
    <2>1. UNCHANGED <<cpc, joined, closed>>
      BY <1>3 DEF RenderDone, PublishDone
    <2>2. CASE \E r \in Results : Complete(w, r)
      <3>1. Kept'
        BY <2>1, <2>2, AnswerAll DEF Complete, Finish, Senders, Control
      <3>2. NobodyWaits'
        <4>1. /\ waiters' = [waiters EXCEPT ![w] = {}] /\ requested' = requested
              /\ \A v \in Callers \ {w} : terminal'[v] = terminal[v] /\ running'[v] = running[v]
          BY <2>2 DEF Complete, Finish, TypeOK
        <4> QED
          BY <2>1, <4>1, NobodyLeft DEF Senders
      <3> QED
        BY <3>1, <3>2 DEF Senders
    <2>3. CASE UNCHANGED <<workState, answer>>
      BY <2>1, <2>3 DEF Senders, OwnSenders, SeenHasSender, NobodyWaits, Retained, Seen
    <2>4. \/ \E r \in Results : Complete(w, r)
          \/ UNCHANGED <<workState, answer>>
      BY <1>3 DEF RenderDone, PublishDone, Results, Outcomes
    <2> QED
      BY <2>2, <2>3, <2>4
  <1>4. CASE AbandonCheck(w)
    <2>1. OwnSenders' /\ SeenHasSender'
      BY <1>4 DEF AbandonCheck, Senders, OwnSenders, SeenHasSender, Retained, Seen, Control, CallState,
         TypeOK
    <2>2. NobodyWaits'
      BY <1>4 DEF AbandonCheck, Senders, NobodyWaits, Retained, TypeOK
    <2> QED
      BY <2>1, <2>2 DEF Senders
  <1>5. CASE EndOfStreams(w)
    <2>1. Kept'
      BY <1>5 DEF EndOfStreams, Senders, OwnSenders, SeenHasSender, Seen
    <2>2. ~running[w]
      BY <1>5 DEF EndOfStreams, Control, TaskState
    <2>3. NobodyWaits'
      BY <1>5, <2>2 DEF EndOfStreams, Senders, NobodyWaits, Retained, TypeOK
    <2> QED
      BY <2>1, <2>3 DEF Senders
  <1>6. CASE GuardDrop(w)
    <2>1. GuardResult(w) \in Results
      BY DEF GuardResult, TypeOK, Results
    <2>2. Kept'
      BY <1>6, <2>1, AnswerAll DEF GuardDrop, Senders, Control
    <2>3. NobodyWaits'
      BY <1>6, NobodyLeft DEF GuardDrop, Senders, TypeOK
    <2> QED
      BY <2>2, <2>3 DEF Senders
  <1>7. CASE \/ Reopen(w) \/ AbandonRegister(w) \/ IoEnd(w) \/ NextTrigger(w) \/ CheckRequested(w)
             \/ PollStreams(w) \/ Resume(w) \/ Unregister(w) \/ Abort(w) \/ StreamActivity(w)
    <2>1. UNCHANGED <<waiters, requested, running, terminal, cpc, joined, answer, closed>>
      BY <1>7 DEF Reopen, AbandonRegister, IoEnd, NextTrigger, CheckRequested, PollStreams, Resume,
         Unregister, Abort, StreamActivity
    <2> QED
      BY <2>1 DEF Senders, OwnSenders, SeenHasSender, NobodyWaits, Retained, Seen
  <1> QED
    BY <1>1, <1>2, <1>3, <1>4, <1>5, <1>6, <1>7 DEF TaskStep

-----------------------------------------------------------------------------
(* Templates: a refused caller's is dropped with it.                       *)

\* Every step of a call keeps the templates of the work entries.
LEMMA CallTemplates ==
  ASSUME TypeOK, Control, Registration, Senders, Templates, NEW c \in Callers,
         \/ Start(c) \/ KeyLost(c) \/ Lookup(c) \/ Join(c) \/ SpawnAndWake(c)
         \/ CloseWaiter(c) \/ WakeOnDrop(c)
  PROVE  Templates'
  <1> USE CallersAssumption
      DEF workState, wakeVars, callVars, taskVars, streamVars, pools, Seen, Over, Templates
  <1>1. \A w, t \in Callers : SuppliedTo(w, t) => t # c \/ cpc[c] \in {"wake", "waiting", "closing", "done"}
    BY DEF SuppliedTo, Control, CallState
  <1>2. CASE Start(c) \/ KeyLost(c) \/ Lookup(c)
    <2>1. cpc[c] \notin {"wake", "waiting", "closing", "done"} /\ cpc'[c] # "wake"
          /\ UNCHANGED <<waiters, closed, answer, running, requested, gpc, template>>
          /\ (\A x \in Callers : x # c => cpc'[x] = cpc[x] /\ joined'[x] = joined[x])
      BY <1>2 DEF Start, KeyLost, Lookup, Return, TypeOK
    <2>2. HasTemplate'
      BY <2>1 DEF HasTemplate, TypeOK
    <2>3. RequestWaits'
      BY <1>1, <2>1 DEF RequestWaits, RequestWaitsOf, SuppliedTo, TypeOK
    <2>4. TemplateServed'
      BY <1>1, <2>1 DEF TemplateServed, TemplateServedOf, SuppliedTo, TypeOK
    <2> QED
      BY <2>2, <2>3, <2>4
  <1>3. CASE Join(c)
    <2>1. /\ cpc[c] = "join" /\ ~closed[c] /\ answer[c] = None /\ joined[c] \in Callers
          /\ UNCHANGED <<closed, answer, running, gpc, template>>
          /\ (\A x \in Callers : x # c => cpc'[x] = cpc[x] /\ joined'[x] = joined[x])
      BY <1>3 DEF Join, Return, Control, CallState, TypeOK
    <2>2. CASE waiters' = waiters /\ requested' = requested /\ cpc'[c] # "wake"
      <3>1. HasTemplate'
        BY <2>1, <2>2 DEF HasTemplate, TypeOK
      <3>2. RequestWaits'
        BY <1>1, <2>1, <2>2 DEF RequestWaits, RequestWaitsOf, SuppliedTo, TypeOK
      <3>3. TemplateServed'
        BY <1>1, <2>1, <2>2 DEF TemplateServed, TemplateServedOf, SuppliedTo, TypeOK
      <3> QED
        BY <3>1, <3>2, <3>3
    <2>3. CASE ~(waiters' = waiters /\ requested' = requested /\ cpc'[c] # "wake")
      <3> DEFINE w == joined[c]
      <3>1. /\ w \in Callers /\ terminal[w] = None /\ joined' = joined
            /\ waiters' = [waiters EXCEPT ![w] = Retained(w) \cup {c}]
            /\ requested' = IF NeedsTemplate(w) THEN [requested EXCEPT ![w] = c] ELSE requested
            /\ cpc' = [cpc EXCEPT ![c] = "wake"]
        BY <1>3, <2>1, <2>3 DEF Join, Return, Ended, TypeOK
      <3> HIDE DEF w
      <3>2. HasTemplate'
        BY <2>1, <3>1 DEF HasTemplate, NeedsTemplate, Control, TaskState, TypeOK, w
      <3>3. RequestWaits'
        BY <1>1, <2>1, <3>1 DEF RequestWaits, RequestWaitsOf, SuppliedTo, NeedsTemplate, Retained, TypeOK, w
      <3>4. TemplateServed'
        BY <1>1, <2>1, <3>1 DEF TemplateServed, TemplateServedOf, SuppliedTo, Retained, TypeOK, w
      <3> QED
        BY <3>2, <3>3, <3>4
    <2> QED
      BY <2>2, <2>3
  <1>4. CASE SpawnAndWake(c)
    <2>1. HasTemplate'
      BY <1>4 DEF SpawnAndWake, HasTemplate, Control, TaskState, TypeOK
    <2>2. \A v \in Callers : Over(v)' <=> Over(v)
      BY <1>4 DEF SpawnAndWake, Control, TaskState, TypeOK
    <2>3. RequestWaits' /\ TemplateServed'
      BY <1>4, <2>2 DEF SpawnAndWake, RequestWaits, RequestWaitsOf, TemplateServed, TemplateServedOf, SuppliedTo, TypeOK
    <2> QED
      BY <2>1, <2>3
  <1>5. CASE CloseWaiter(c) \/ WakeOnDrop(c)
    <2>1. cpc[c] = "closing" => closed[c]
      BY DEF Control, CallState
    <2>2. HasTemplate'
      BY <1>5 DEF CloseWaiter, WakeOnDrop, Return, HasTemplate, TypeOK
    <2>3. RequestWaits'
      BY <1>5, <2>1 DEF CloseWaiter, WakeOnDrop, Return, RequestWaits, RequestWaitsOf, SuppliedTo, TypeOK
    <2>4. TemplateServed'
      BY <1>5, <2>1 DEF CloseWaiter, WakeOnDrop, Return, TemplateServed, TemplateServedOf, SuppliedTo, TypeOK
    <2> QED
      BY <2>2, <2>3, <2>4
  <1> QED
    BY <1>2, <1>3, <1>4, <1>5

\* Answering the waiters of w keeps the templates of the others.
LEMMA OtherTemplates ==
  ASSUME TypeOK, Senders, Templates, NEW w \in Callers, NEW r \in Results,
         Send(waiters[w], r), waiters' = [waiters EXCEPT ![w] = {}],
         UNCHANGED <<cpc, joined, closed>>,
         \A v \in Callers \ {w} : requested'[v] = requested[v] /\ running'[v] = running[v]
                                   /\ template'[v] = template[v] /\ gpc'[v] = gpc[v]
  PROVE  \A v \in Callers \ {w} : (RequestWaitsOf(v) /\ TemplateServedOf(v))'
  <1>1. \A t \in Callers : answer'[t] = IF t \in waiters[w] /\ ~closed[t] THEN r ELSE answer[t]
    BY SendEffect
  <1>2. \A v \in Callers \ {w} : \A t \in Callers : SuppliedTo(v, t) => answer'[t] = answer[t]
    BY <1>1 DEF SuppliedTo, Senders, OwnSenders
  <1>3. \A v \in Callers \ {w} : \A t \in Callers : SuppliedTo(v, t) => SuppliedTo(v, t)'
    BY DEF SuppliedTo, Seen
  <1>4. \A v \in Callers \ {w} : RequestWaitsOf(v)'
    BY <1>2, <1>3, CallersAssumption DEF Templates, RequestWaits, RequestWaitsOf, Over, TypeOK
  <1>5. \A v \in Callers \ {w} : TemplateServedOf(v)'
    BY <1>2, <1>3, CallersAssumption DEF Templates, TemplateServed, TemplateServedOf, Over, TypeOK
  <1> QED
    BY <1>4, <1>5

\* Every step of a task keeps the templates of the work entries.
LEMMA TaskTemplates ==
  ASSUME TypeOK, Control, Senders, Templates, NEW w \in Callers,
         TaskStep(w) \/ RenderDone(w) \/ IoEnd(w) \/ Abort(w) \/ StreamActivity(w)
  PROVE  Templates'
  <1> USE CallersAssumption
      DEF workState, wakeVars, callVars, taskVars, streamVars, pools, Over
  <1>1. CASE GenStart(w)
    <2>1. CASE Finish(w, "capacity", TRUE)
      <3>1. /\ Send(waiters[w], "capacity") /\ waiters' = [waiters EXCEPT ![w] = {}]
            /\ running' = [running EXCEPT ![w] = FALSE] /\ gpc' = [gpc EXCEPT ![w] = "exit"]
            /\ UNCHANGED <<cpc, joined, closed, requested, template>>
        BY <1>1, <2>1 DEF GenStart, Finish, TypeOK
      <3>2. HasTemplate'
        BY <3>1 DEF Templates, HasTemplate, TypeOK
      <3>3. RequestWaits' /\ TemplateServed'
        <4>1. \A v \in Callers \ {w} : (RequestWaitsOf(v) /\ TemplateServedOf(v))'
          BY <3>1, OtherTemplates DEF Results, TypeOK
        <4>2. (RequestWaitsOf(w) /\ TemplateServedOf(w))'
          BY <3>1 DEF RequestWaitsOf, TemplateServedOf, TypeOK
        <4> QED
          BY <4>1, <4>2 DEF RequestWaits, TemplateServed
      <3> QED
        BY <3>2, <3>3 DEF Templates
    <2>2. CASE ~Finish(w, "capacity", TRUE)
      <3>1. /\ template' = [template EXCEPT ![w] = requested[w]] /\ requested[w] # None
            /\ requested' = [requested EXCEPT ![w] = None]
            /\ running' = [running EXCEPT ![w] = TRUE] /\ gpc' = [gpc EXCEPT ![w] = "permit"]
            /\ gpc[w] = "start" /\ UNCHANGED <<waiters, answer, cpc, joined, closed>>
        BY <1>1, <2>2 DEF GenStart, Templates, HasTemplate
      <3>2. HasTemplate'
        BY <3>1 DEF Templates, HasTemplate, TypeOK
      <3>3. RequestWaits'
        BY <3>1 DEF Templates, RequestWaits, RequestWaitsOf, SuppliedTo, Seen, TypeOK
      <3>4. TemplateServed'
        BY <3>1 DEF Templates, RequestWaits, RequestWaitsOf, TemplateServed, TemplateServedOf, SuppliedTo, Seen, TypeOK
      <3> QED
        BY <3>2, <3>3, <3>4 DEF Templates
    <2> QED
      BY <2>1, <2>2
  <1>2. CASE (RenderPermit(w) \/ WaitForRender(w)) /\ BeginRender(w)
    <2>1. UNCHANGED <<cpc, joined, closed>> /\ gpc[w] \in {"permit", "wait_render"}
      BY <1>2 DEF RenderPermit, WaitForRender
    <2>2. HasTemplate'
      BY <1>2, <2>1 DEF BeginRender, Templates, HasTemplate, TypeOK
    <2>3. RequestWaits'
      BY <1>2, <2>1 DEF BeginRender, Templates, RequestWaits, RequestWaitsOf, SuppliedTo, Seen, TypeOK
    <2>4. TemplateServed'
      BY <1>2, <2>1 DEF BeginRender, Templates, RequestWaits, RequestWaitsOf, TemplateServed, TemplateServedOf, SuppliedTo, Seen, TypeOK
    <2> QED
      BY <2>2, <2>3, <2>4 DEF Templates
  <1>3. CASE RenderPermit(w) /\ ~BeginRender(w)
    <2>1. CASE first[w]
      <3>1. /\ Send(waiters[w], "capacity") /\ waiters' = [waiters EXCEPT ![w] = {}]
            /\ running' = [running EXCEPT ![w] = FALSE] /\ gpc' = [gpc EXCEPT ![w] = "exit"]
            /\ UNCHANGED <<cpc, joined, closed, requested, template>>
        BY <1>3, <2>1 DEF RenderPermit, Finish, TypeOK
      <3>2. HasTemplate'
        BY <3>1 DEF Templates, HasTemplate, TypeOK
      <3>3. RequestWaits' /\ TemplateServed'
        <4>1. \A v \in Callers \ {w} : (RequestWaitsOf(v) /\ TemplateServedOf(v))'
          BY <3>1, OtherTemplates DEF Results, TypeOK
        <4>2. (RequestWaitsOf(w) /\ TemplateServedOf(w))'
          BY <3>1 DEF RequestWaitsOf, TemplateServedOf, TypeOK
        <4> QED
          BY <4>1, <4>2 DEF RequestWaits, TemplateServed
      <3> QED
        BY <3>2, <3>3 DEF Templates
    <2>2. CASE ~first[w]
      <3>1. /\ Send(waiters[w], "capacity") /\ waiters' = [waiters EXCEPT ![w] = {}]
            /\ running' = [running EXCEPT ![w] = FALSE]
            /\ requested' = [requested EXCEPT ![w] = None]
            /\ gpc[w] = "permit" /\ gpc'[w] \in {"reopen", "wait_render"}
            /\ \A v \in Callers \ {w} : gpc'[v] = gpc[v]
            /\ UNCHANGED <<cpc, joined, closed, template>>
        BY <1>3, <2>2 DEF RenderPermit, Refuse, TypeOK
      <3>2. HasTemplate'
        BY <3>1 DEF Templates, HasTemplate, TypeOK
      <3>3. \A v \in Callers \ {w} : (RequestWaitsOf(v) /\ TemplateServedOf(v))'
        BY <3>1, OtherTemplates DEF Results, TypeOK
      <3>4. \A t \in Callers : answer'[t] = IF t \in waiters[w] /\ ~closed[t] THEN "capacity"
                                                                             ELSE answer[t]
        BY <3>1, SendEffect DEF Results
      <3>5. ~running[w] /\ ~Over(w)
        BY <2>2, <3>1 DEF Control, TaskState
      <3>6. template[w] # None => /\ SuppliedTo(w, template[w])' /\ answer'[template[w]] # "capacity"
                                  /\ template[w] \notin waiters'[w]
        \* nothing is rendered, so the refusal does not reach the template's call
        BY <3>1, <3>4, <3>5 DEF Templates, TemplateServed, TemplateServedOf, SuppliedTo, Seen, TypeOK
      <3>7. (RequestWaitsOf(w) /\ TemplateServedOf(w))'
        BY <3>1, <3>6 DEF RequestWaitsOf, TemplateServedOf, TypeOK
      <3> QED
        BY <3>2, <3>3, <3>7 DEF Templates, RequestWaits, TemplateServed
    <2> QED
      BY <2>1, <2>2
  <1>4. CASE (RenderDone(w) \/ PublishDone(w)) /\ \E r \in Outcomes : Complete(w, r)
    <2>1. PICK r \in Outcomes : Complete(w, r)
      BY <1>4
    <2>2. /\ Send(waiters[w], r) /\ waiters' = [waiters EXCEPT ![w] = {}]
          /\ running' = [running EXCEPT ![w] = FALSE]
          /\ gpc' = [gpc EXCEPT ![w] = "next"] /\ gpc[w] \in {"render", "rendering", "publish"}
          /\ UNCHANGED <<cpc, joined, closed, template, requested>>
      BY <1>4, <2>1 DEF RenderDone, PublishDone, Complete, Finish
    <2>3. running[w] /\ requested[w] = None /\ r \in Results /\ r # "capacity"
      BY <2>2 DEF Control, TaskState, Rendering, Templates, HasTemplate, Outcomes, Results
    <2>4. HasTemplate'
      BY <2>2, <2>3 DEF Templates, HasTemplate, TypeOK
    <2>5. \A v \in Callers \ {w} : (RequestWaitsOf(v) /\ TemplateServedOf(v))'
      BY <2>2, <2>3, OtherTemplates DEF TypeOK
    <2>6. \A t \in Callers : answer'[t] = IF t \in waiters[w] /\ ~closed[t] THEN r ELSE answer[t]
      BY <2>2, <2>3, SendEffect
    <2>7. template[w] # None => /\ SuppliedTo(w, template[w])' /\ answer'[template[w]] # "capacity"
                                /\ template[w] \notin waiters'[w]
      BY <2>2, <2>3, <2>6 DEF Templates, TemplateServed, TemplateServedOf, SuppliedTo, Seen, TypeOK
    <2>8. (RequestWaitsOf(w) /\ TemplateServedOf(w))'
      BY <2>2, <2>3, <2>7 DEF RequestWaitsOf, TemplateServedOf
    <2> QED
      BY <2>4, <2>5, <2>8 DEF Templates, RequestWaits, TemplateServed
  <1>5. CASE RenderDone(w) /\ ~\E r \in Outcomes : Complete(w, r)
    <2>1. /\ gpc' = [gpc EXCEPT ![w] = "publish"] /\ gpc[w] \in {"render", "rendering"}
          /\ UNCHANGED <<waiters, requested, running, answer, cpc, joined, closed, template>>
      BY <1>5 DEF RenderDone, Outcomes
    <2> QED
      BY <2>1 DEF Templates, HasTemplate, RequestWaits, RequestWaitsOf, TemplateServed, TemplateServedOf, SuppliedTo, Seen, TypeOK
  <1>6. CASE AbandonCheck(w)
    <2>1. HasTemplate'
      BY <1>6 DEF AbandonCheck, Templates, HasTemplate, TypeOK
    <2>2. RequestWaits'
      BY <1>6 DEF AbandonCheck, Retained, Templates, RequestWaits, RequestWaitsOf, SuppliedTo, Seen, TypeOK
    <2>3. TemplateServed'
      BY <1>6 DEF AbandonCheck, Retained, Templates, TemplateServed, TemplateServedOf, SuppliedTo, Seen, TypeOK
    <2> QED
      BY <2>1, <2>2, <2>3 DEF Templates
  <1>7. CASE GuardDrop(w)
    <2>1. GuardResult(w) \in Results
      BY DEF GuardResult, TypeOK, Results
    <2>2. HasTemplate'
      BY <1>7 DEF GuardDrop, Templates, HasTemplate, TypeOK
    <2>3. \A v \in Callers \ {w} : (RequestWaitsOf(v) /\ TemplateServedOf(v))'
      BY <1>7, <2>1, OtherTemplates DEF GuardDrop, TypeOK
    <2>4. (RequestWaitsOf(w) /\ TemplateServedOf(w))'
      BY <1>7 DEF GuardDrop, RequestWaitsOf, TemplateServedOf, TypeOK
    <2> QED
      BY <2>2, <2>3, <2>4 DEF Templates, RequestWaits, TemplateServed
  <1>8. CASE \/ Reopen(w) \/ AbandonRegister(w) \/ IoEnd(w) \/ NextTrigger(w) \/ CheckRequested(w)
             \/ PollStreams(w) \/ EndOfStreams(w) \/ Resume(w) \/ Abort(w) \/ StreamActivity(w)
    <2>1. UNCHANGED <<waiters, requested, running, template, cpc, joined, answer, closed>>
      BY <1>8 DEF Reopen, AbandonRegister, IoEnd, NextTrigger, CheckRequested, PollStreams,
         EndOfStreams, Resume, Abort, StreamActivity
    <2>2. \A v \in Callers : /\ gpc'[v] \in {"none", "start"} => gpc'[v] = gpc[v]
                             /\ gpc[v] \in {"none", "start"} => gpc'[v] \in {gpc[v], "exit"}
                             /\ Over(v) => Over(v)'
      BY <1>8 DEF Reopen, AbandonRegister, IoEnd, NextTrigger, CheckRequested, PollStreams,
         EndOfStreams, Resume, Abort, AwaitPoints, StreamActivity, TypeOK
    <2>3. HasTemplate'
      BY <2>1, <2>2 DEF Templates, HasTemplate
    <2>4. RequestWaits' /\ TemplateServed'
      BY <2>1, <2>2 DEF Templates, RequestWaits, RequestWaitsOf, TemplateServed, TemplateServedOf, SuppliedTo, Seen
    <2> QED
      BY <2>3, <2>4 DEF Templates
  <1>9. CASE Unregister(w)
    <2>1. HasTemplate'
      BY <1>9 DEF Unregister, Templates, HasTemplate, TypeOK
    <2>2. RequestWaits' /\ TemplateServed'
      BY <1>9 DEF Unregister, Templates, RequestWaits, RequestWaitsOf, TemplateServed, TemplateServedOf, SuppliedTo, Seen, TypeOK
    <2> QED
      BY <2>1, <2>2 DEF Templates
  <1>10. PublishDone(w) => \E r \in Outcomes : Complete(w, r)
    BY DEF PublishDone
  <1>11. WaitForRender(w) => BeginRender(w)
    BY DEF WaitForRender
  <1> QED
    BY <1>1, <1>2, <1>3, <1>4, <1>5, <1>6, <1>7, <1>8, <1>9, <1>10, <1>11 DEF TaskStep

-----------------------------------------------------------------------------
(* Wakers: the task does not sleep through a request or a departure.       *)

\* Every step of a call keeps the task awake to what it waits for.
LEMMA CallWakes ==
  ASSUME TypeOK, Control, Senders, WakeInv, NEW c \in Callers,
         \/ Start(c) \/ KeyLost(c) \/ Lookup(c) \/ Join(c) \/ SpawnAndWake(c)
         \/ CloseWaiter(c) \/ WakeOnDrop(c)
  PROVE  WakeInv'
  <1> USE CallersAssumption
      DEF workState, wakeVars, callVars, taskVars, streamVars, pools
  <1>1. CASE Start(c) \/ KeyLost(c) \/ Lookup(c)
    <2>1. /\ cpc[c] \notin {"wake", "closing"}
          /\ UNCHANGED <<waiters, closed, requested, gpc, waker, sched>>
          /\ (\A x \in Callers : x # c => cpc'[x] = cpc[x] /\ joined'[x] = joined[x])
      BY <1>1 DEF Start, KeyLost, Lookup, Return, TypeOK
    <2> QED
      BY <2>1 DEF WakeInv, Armed, RequestIsSeen, NoMissedAbandonment, Retained
  <1>2. CASE Join(c)
    <2>1. Armed'
      BY <1>2 DEF Join, WakeInv, Armed
    <2>2. cpc[c] = "join" /\ joined[c] \in Callers /\ ~closed[c]
          /\ UNCHANGED <<closed, gpc, waker, sched>>
          /\ (\A x \in Callers : x # c => cpc'[x] = cpc[x] /\ joined'[x] = joined[x])
      BY <1>2 DEF Join, Return, Control, CallState, TypeOK
    <2>3. \A v \in Callers : requested'[v] = requested[v]
                              \/ (v = joined[c] /\ cpc'[c] = "wake" /\ joined'[c] = v)
      BY <1>2 DEF Join, Return, TypeOK
    <2>4. RequestIsSeen'
      BY <2>2, <2>3 DEF WakeInv, RequestIsSeen
    <2>5. \A v \in Callers : Retained(v)' = {} => Retained(v) = {}
      BY <1>2, <2>2 DEF Join, Return, Retained, TypeOK
    <2>6. NoMissedAbandonment'
      BY <2>2, <2>5 DEF WakeInv, NoMissedAbandonment
    <2> QED
      BY <2>1, <2>4, <2>6 DEF WakeInv
  <1>3. CASE SpawnAndWake(c)
    <2>1. /\ \A v \in Callers : sched'[v] = (sched[v] \/ (v = joined[c] /\ waker[joined[c]]))
          /\ \A v \in Callers : waker'[v] = (waker[v] /\ v # joined[c])
          /\ waker' \in [Callers -> BOOLEAN] /\ sched' \in [Callers -> BOOLEAN]
      BY <1>3, WakeEffect DEF SpawnAndWake
    <2>2. /\ cpc[c] = "wake" /\ cpc' = [cpc EXCEPT ![c] = "waiting"]
          /\ gpc' = IF joined[c] = c THEN [gpc EXCEPT ![c] = "start"] ELSE gpc
          /\ UNCHANGED <<waiters, requested, closed, joined>>
      BY <1>3 DEF SpawnAndWake
    <2>3. Armed'
      BY <2>1, <2>2 DEF WakeInv, Armed, TypeOK
    <2>4. RequestIsSeen'
      BY <2>1, <2>2 DEF WakeInv, Armed, RequestIsSeen, TypeOK
    <2>5. NoMissedAbandonment'
      BY <2>1, <2>2 DEF WakeInv, NoMissedAbandonment, Retained, TypeOK
    <2> QED
      BY <2>3, <2>4, <2>5 DEF WakeInv
  <1>4. CASE CloseWaiter(c)
    <2>1. Armed' /\ RequestIsSeen'
      BY <1>4 DEF CloseWaiter, WakeInv, Armed, RequestIsSeen, TypeOK
    <2>2. /\ cpc' = [cpc EXCEPT ![c] = "closing"] /\ closed' = [closed EXCEPT ![c] = TRUE]
          /\ cpc[c] = "waiting" /\ UNCHANGED <<waiters, joined, gpc, sched>>
      BY <1>4 DEF CloseWaiter
    <2>3. \A v \in Callers : Retained(v)' = {} => Retained(v) = {} \/ joined[c] = v
      \* only c left: w loses its last waiter only if that was c
      BY <2>2 DEF Retained, Senders, OwnSenders, Control, CallState, TypeOK
    <2>4. NoMissedAbandonment'
      BY <2>2, <2>3 DEF WakeInv, NoMissedAbandonment, TypeOK
    <2> QED
      BY <2>1, <2>4 DEF WakeInv
  <1>5. CASE WakeOnDrop(c)
    <2>1. /\ \A v \in Callers : sched'[v] = (sched[v] \/ (v = joined[c] /\ waker[joined[c]]))
          /\ \A v \in Callers : waker'[v] = (waker[v] /\ v # joined[c])
          /\ waker' \in [Callers -> BOOLEAN] /\ sched' \in [Callers -> BOOLEAN]
      BY <1>5, WakeEffect DEF WakeOnDrop
    <2>2. /\ cpc[c] = "closing" /\ UNCHANGED <<waiters, requested, closed, gpc>>
          /\ (\A x \in Callers : x # c => cpc'[x] = cpc[x] /\ joined'[x] = joined[x])
      BY <1>5 DEF WakeOnDrop, Return, TypeOK
    <2>3. Armed'
      BY <2>1, <2>2 DEF WakeInv, Armed, TypeOK
    <2>4. RequestIsSeen'
      BY <2>1, <2>2 DEF WakeInv, RequestIsSeen, TypeOK
    <2>5. NoMissedAbandonment'
      <3>1. \A v \in Callers : Retained(v)' = Retained(v)
        BY <2>2 DEF Retained
      <3>2. ASSUME NEW v \in Callers, gpc[v] = "rendering", Retained(v) = {}
            PROVE  sched'[v] \/ \E x \in Callers : cpc'[x] = "closing" /\ joined'[x] = v
        <4>1. sched[v] \/ \E x \in Callers : cpc[x] = "closing" /\ joined[x] = v
          BY <3>2 DEF WakeInv, NoMissedAbandonment
        <4>2. waker[v] \/ sched[v]
          BY <3>2 DEF WakeInv, Armed
        <4> QED
          BY <2>1, <2>2, <4>1, <4>2
      <3> QED
        BY <2>2, <3>1, <3>2 DEF NoMissedAbandonment
    <2> QED
      BY <2>3, <2>4, <2>5 DEF WakeInv
  <1> QED
    BY <1>1, <1>2, <1>3, <1>4, <1>5

\* Every step of a task keeps it awake to what it waits for.
LEMMA TaskWakes ==
  ASSUME TypeOK, Control, Senders, WakeInv, NEW w \in Callers,
         TaskStep(w) \/ RenderDone(w) \/ IoEnd(w) \/ Abort(w) \/ StreamActivity(w)
  PROVE  WakeInv'
  <1> USE CallersAssumption
      DEF workState, wakeVars, callVars, taskVars, streamVars, pools
  <1> DEFINE Points == {"check", "streams", "parked", "abandon", "rendering"}
  <1>1. CASE \/ GenStart(w) \/ RenderPermit(w) \/ WaitForRender(w) \/ RenderDone(w) \/ PublishDone(w)
             \/ Reopen(w) \/ GuardDrop(w) \/ Unregister(w) \/ Abort(w)
    \* the task neither sleeps nor is about to
    <2>1. /\ gpc'[w] \notin Points
          /\ \A v \in Callers : v # w => /\ gpc'[v] = gpc[v] /\ requested'[v] = requested[v]
                                         /\ waker'[v] = waker[v] /\ sched'[v] = sched[v]
          /\ UNCHANGED <<cpc, joined, closed>>
      BY <1>1 DEF GenStart, RenderPermit, WaitForRender, RenderDone, PublishDone, Complete, Reopen,
         GuardDrop, Unregister, Abort, Finish, Refuse, BeginRender, TypeOK
    <2>2. \A v \in Callers : v # w => waiters'[v] = waiters[v]
      BY <1>1 DEF GenStart, RenderPermit, WaitForRender, RenderDone, PublishDone, Complete, Reopen,
         GuardDrop, Unregister, Abort, Finish, Refuse, BeginRender, TypeOK
    <2>3. Armed' /\ RequestIsSeen'
      BY <2>1 DEF WakeInv, Armed, RequestIsSeen
    <2>4. NoMissedAbandonment'
      BY <2>1, <2>2 DEF WakeInv, NoMissedAbandonment, Retained
    <2> QED
      BY <2>3, <2>4 DEF WakeInv
  <1>2. CASE AbandonRegister(w) \/ NextTrigger(w)
    <2>1. Armed' /\ RequestIsSeen'
      BY <1>2 DEF AbandonRegister, NextTrigger, Register, WakeInv, Armed, RequestIsSeen, TypeOK
    <2>2. NoMissedAbandonment'
      BY <1>2 DEF AbandonRegister, NextTrigger, Register, WakeInv, NoMissedAbandonment, Retained, TypeOK
    <2> QED
      BY <2>1, <2>2 DEF WakeInv
  <1>3. CASE AbandonCheck(w)
    <2>1. Armed' /\ RequestIsSeen'
      BY <1>3 DEF AbandonCheck, WakeInv, Armed, RequestIsSeen, TypeOK
    <2>2. NoMissedAbandonment'
      BY <1>3 DEF AbandonCheck, WakeInv, NoMissedAbandonment, Retained, TypeOK
    <2> QED
      BY <2>1, <2>2 DEF WakeInv
  <1>4. CASE IoEnd(w) \/ CheckRequested(w) \/ PollStreams(w) \/ EndOfStreams(w) \/ StreamActivity(w)
    <2>1. /\ UNCHANGED <<waiters, requested, cpc, joined, closed, waker>>
          /\ \A v \in Callers : sched[v] => sched'[v]
          /\ \A v \in Callers : gpc'[v] = "rendering" <=> gpc[v] = "rendering"
          /\ \A v \in Callers : gpc'[v] \in Points => gpc[v] \in Points
          /\ \A v \in Callers : gpc'[v] \in {"streams", "parked"}
                => gpc[v] \in {"streams", "parked"} \/ requested[v] = None
      BY <1>4 DEF IoEnd, CheckRequested, PollStreams, EndOfStreams, StreamActivity, TypeOK
    <2>2. Armed' /\ RequestIsSeen'
      BY <2>1 DEF WakeInv, Armed, RequestIsSeen
    <2>3. NoMissedAbandonment'
      BY <2>1 DEF WakeInv, NoMissedAbandonment, Retained
    <2> QED
      BY <2>2, <2>3 DEF WakeInv
  <1>5. CASE Resume(w)
    <2>1. /\ UNCHANGED <<waiters, requested, cpc, joined, closed, waker>>
          /\ gpc'[w] \notin Points
          /\ \A v \in Callers : v # w => gpc'[v] = gpc[v] /\ sched'[v] = sched[v]
      BY <1>5 DEF Resume, TypeOK
    <2> QED
      BY <2>1 DEF WakeInv, Armed, RequestIsSeen, NoMissedAbandonment, Retained
  <1> QED
    BY <1>1, <1>2, <1>3, <1>4, <1>5 DEF TaskStep

-----------------------------------------------------------------------------
(* The invariant is inductive.                                             *)

\* Nothing is registered and nobody calls yet.
LEMMA InitIInv == Init => IInv
  <1> SUFFICES ASSUME Init PROVE IInv
    OBVIOUS
  <1> USE CallersAssumption, KeysAssumption, PolicyAssumption DEF Init
  <1>1. TypeOK
    BY DEF TypeOK, CallPoints, TaskPoints
  <1>2. Polled /\ CallState /\ TaskState /\ Admission
    BY DEF Polled, CallState, TaskState, Rendering, Admission, Over
  <1>3. Registration /\ SingleFlight
    BY DEF Registration, SingleFlight, Live, KeysOf
  <1>4. Senders
    BY DEF Senders, OwnSenders, SeenHasSender, NobodyWaits, Retained, Seen
  <1>5. Templates
    BY DEF Templates, HasTemplate, RequestWaits, RequestWaitsOf, TemplateServed, TemplateServedOf, Over
  <1>6. WakeInv
    BY DEF WakeInv, Armed, RequestIsSeen, NoMissedAbandonment
  <1> QED
    BY <1>1, <1>2, <1>3, <1>4, <1>5, <1>6 DEF IInv

\* Every step keeps the invariant.
LEMMA NextIInv == IInv /\ [Next]_vars => IInv'
  <1> SUFFICES ASSUME IInv, [Next]_vars PROVE IInv'
    OBVIOUS
  <1>0. Control
    BY DEF IInv, Control
  <1>1. ASSUME NEW c \in Callers,
               \/ Start(c) \/ KeyLost(c) \/ Lookup(c) \/ Join(c) \/ SpawnAndWake(c)
               \/ CloseWaiter(c) \/ WakeOnDrop(c)
        PROVE  IInv'
    <2>1. TypeOK'
      BY <1>1, CallType DEF IInv
    <2>2. Control'
      BY <1>0, <1>1, CallControl DEF IInv
    <2>3. (Registration /\ SingleFlight)'
      BY <1>0, <1>1, CallRegistry DEF IInv
    <2>4. Senders'
      BY <1>0, <1>1, CallSenders DEF IInv
    <2>5. Templates'
      BY <1>0, <1>1, CallTemplates DEF IInv
    <2>6. WakeInv'
      BY <1>0, <1>1, CallWakes DEF IInv
    <2> QED
      BY <2>1, <2>2, <2>3, <2>4, <2>5, <2>6 DEF IInv, Control
  <1>2. ASSUME NEW w \in Callers,
               TaskStep(w) \/ RenderDone(w) \/ IoEnd(w) \/ Abort(w) \/ StreamActivity(w)
        PROVE  IInv'
    <2>1. TypeOK'
      BY <1>2, TaskType DEF IInv
    <2>2. Control'
      BY <1>0, <1>2, TaskControl DEF IInv
    <2>3. (Registration /\ SingleFlight)'
      BY <1>0, <1>2, TaskRegistry DEF IInv
    <2>4. Senders'
      BY <1>0, <1>2, TaskSenders DEF IInv
    <2>5. Templates'
      BY <1>0, <1>2, TaskTemplates DEF IInv
    <2>6. WakeInv'
      BY <1>0, <1>2, TaskWakes DEF IInv
    <2> QED
      BY <2>1, <2>2, <2>3, <2>4, <2>5, <2>6 DEF IInv, Control
  <1>3. CASE OtherRender \/ UNCHANGED vars
    <2>1. UNCHANGED <<registry, workState, wakeVars, callVars, gpc, taskVars, streamVars, aborted>>
      BY <1>3 DEF OtherRender, vars
    <2> USE <2>1 DEF IInv, workState, wakeVars, callVars, taskVars, streamVars
    <2>2. TypeOK'
      BY <1>3 DEF OtherRender, vars, pools, TypeOK
    <2>3. (Polled /\ CallState /\ TaskState /\ Admission)'
      BY DEF Polled, CallState, TaskState, Admission, Over, Rendering
    <2>4. (Registration /\ SingleFlight)'
      BY DEF Registration, Begun, SingleFlight, Live
    <2>5. Senders'
      BY DEF Senders, OwnSenders, SeenHasSender, NobodyWaits, Retained, Seen
    <2>6. Templates'
      BY DEF Templates, HasTemplate, RequestWaits, RequestWaitsOf, TemplateServed, TemplateServedOf,
         SuppliedTo, Over, Seen
    <2>7. WakeInv'
      BY DEF WakeInv, Armed, RequestIsSeen, NoMissedAbandonment, Retained
    <2> QED
      BY <2>2, <2>3, <2>4, <2>5, <2>6, <2>7
  <1> QED
    BY <1>1, <1>2, <1>3 DEF Next, CallStep, Receive, CancelWait, Idle

\* The invariant holds in every reachable state.
LEMMA Invariant == Spec => []IInv
  BY InitIInv, NextIInv, PTL DEF Spec

-----------------------------------------------------------------------------
\* The state of render, of the work entries and of their tasks is well typed.
THEOREM TypeCorrect == Spec => []TypeOK
  <1>1. IInv => TypeOK
    BY DEF IInv
  <1> QED
    BY Invariant, <1>1, PTL

\* StaticRuntime::render never starts a second generation of an entry that has
\* one, and StaticTaskGuard::drop never removes its successor's registration,
\* for any number of callers and any assignment of keys to them.
THEOREM GenerationIsSingle == Spec => []SingleFlight
  <1>1. IInv => SingleFlight
    BY DEF IInv
  <1> QED
    BY Invariant, <1>1, PTL

\* No step of render, of Generation::run or of its guard drops the sender of an
\* accepted call without sending.
THEOREM WaitersAreKept == Spec => []NoOrphanedWaiter
  <1>1. IInv => NoOrphanedWaiter
    <2> SUFFICES ASSUME IInv, NEW c \in Callers, Seen(c), answer[c] = None
                 PROVE  LET w == joined[c] IN
                        /\ c \in waiters[w]
                        /\ gpc[w] \notin {"unregister", "gone"}
                        /\ gpc[w] = "none" => cpc[w] \in {"join", "wake"} /\ joined[w] = w
      BY DEF NoOrphanedWaiter, Seen
    <2> DEFINE w == joined[c]
    <2>1. w \in Callers /\ Begun(w) /\ ~closed[c]
      BY DEF IInv, CallState, Registration, Seen
    <2>2. c \in waiters[w]
      BY DEF IInv, Senders, SeenHasSender
    <2>3. c \in Retained(w)
      BY <2>1, <2>2 DEF Retained
    <2>4. gpc[w] \notin {"unregister", "gone"}
      BY <2>1, <2>3 DEF IInv, Admission, Senders, NobodyWaits
    <2> QED
      BY <2>1, <2>2, <2>4 DEF Begun
  <1> QED
    BY Invariant, <1>1, PTL

\* next_trigger registers its waker before it looks for a request, so a task
\* parked there is woken for every request accepted later.
THEOREM RequestsAreSeen == Spec => []NoMissedRequest
  <1>1. IInv => NoMissedRequest
    BY DEF IInv, WakeInv, RequestIsSeen, NoMissedRequest
  <1> QED
    BY Invariant, <1>1, PTL

\* render_or_abandon registers its waker before it examines the waiters, and
\* StaticWaiter::drop closes its channel before it wakes, so a task does not
\* sleep through the departure of its last waiter.
THEOREM AbandonmentIsSeen == Spec => []NoMissedAbandonment
  <1>1. IInv => NoMissedAbandonment
    BY DEF IInv, WakeInv
  <1> QED
    BY Invariant, <1>1, PTL

\* WorkState::refuse drops the template of a refused caller with its waiters:
\* what is rendered is never the template of a call that was told "capacity".
THEOREM RefusedIsNotRendered == Spec => []RefusedTemplateIsDropped
  <1>1. IInv => RefusedTemplateIsDropped
    BY DEF IInv, Templates, HasTemplate, TemplateServed, TemplateServedOf, Over, RefusedTemplateIsDropped
  <1> QED
    BY Invariant, <1>1, PTL

-----------------------------------------------------------------------------
(* StaticWork implements Coalescing.                                       *)

\* The refinement mapping, as module Coalescing sees it.
Generation == [w \in Callers |-> IF terminal[w] # None THEN "over"
                                 ELSE IF blocked[w] THEN "refusing"
                                 ELSE IF Live(w) THEN "open" ELSE "none"]
Accepted == [c \in Callers |-> IF Seen(c) THEN joined[c] ELSE None]
Reply == [c \in Callers |-> IF Seen(c) THEN answer[c] ELSE None]
Seen3 == <<Generation, Accepted, Reply>>

\* A step that keeps results, admission, calls and answers, and starts no
\* task, is invisible to the callers.
LEMMA Invisible ==
  ASSUME UNCHANGED <<terminal, blocked, cpc, joined, answer>>,
         \A v \in Callers : gpc'[v] = "none" <=> gpc[v] = "none"
  PROVE  UNCHANGED Seen3
  <1>1. \A v \in Callers : Live(v)' <=> Live(v)
    BY DEF Live
  <1> QED
    BY <1>1 DEF Seen3, Generation, Accepted, Reply, Seen

\* What Coalescing asks of an answer is what sending to every waiter does.
LEMMA AnswerRefines ==
  ASSUME IInv, NEW w \in Callers, NEW r \in Results,
         Send(waiters[w], r), UNCHANGED <<cpc, joined>>
  PROVE  /\ Reply' = [c \in Callers |-> IF Accepted[c] = w /\ Reply[c] = None THEN r ELSE Reply[c]]
         /\ Accepted' = Accepted
  <1>1. \A c \in Callers : answer'[c] = IF c \in waiters[w] /\ ~closed[c] THEN r ELSE answer[c]
    BY SendEffect DEF IInv
  <1>2. \A c \in Callers : Seen(c) => ((c \in waiters[w] /\ ~closed[c])
                                          <=> (joined[c] = w /\ answer[c] = None))
    BY DEF IInv, Senders, OwnSenders, SeenHasSender, CallState, Seen
  <1>3. Accepted' = Accepted
    BY DEF Accepted, Seen
  <1>4. \A c \in Callers : Seen(c)' <=> Seen(c)
    BY DEF Seen
  <1>5. \A c \in Callers : ~Seen(c) => Accepted[c] = None
    BY DEF Accepted
  <1>6. Reply' = [c \in Callers |-> IF Accepted[c] = w /\ Reply[c] = None THEN r ELSE Reply[c]]
    BY <1>1, <1>2, <1>4, CallersAssumption DEF Reply, Accepted
  <1> QED
    BY <1>3, <1>6

\* A generation that is under way, as Coalescing sees it.
LEMMA UnderWayRefines ==
  ASSUME IInv, NEW w \in Callers
  PROVE  /\ Generation[w] = "open" <=> Live(w) /\ ~blocked[w]
         /\ Generation[w] = "refusing" <=> Live(w) /\ blocked[w]
         /\ Live(w) <=> terminal[w] = None /\ Begun(w)
  <1>1. blocked[w] => gpc[w] # "none"
    BY DEF IInv, Admission, Over
  <1> QED
    BY <1>1 DEF Generation, Live, Begun

\* Only w's result, admission and beginning change: so does its generation.
LEMMA GenerationOf ==
  ASSUME IInv, NEW w \in Callers, UNCHANGED <<cpc, joined>>,
         \A v \in Callers : gpc'[v] = "none" <=> gpc[v] = "none",
         \A v \in Callers \ {w} : terminal'[v] = terminal[v] /\ blocked'[v] = blocked[v]
  PROVE  \A g : Generation'[w] = g => Generation' = [Generation EXCEPT ![w] = g]
  <1>1. \A v \in Callers \ {w} : Live(v)' <=> Live(v)
    BY DEF Live
  <1>2. \A v \in Callers \ {w} : Generation'[v] = Generation[v]
    BY <1>1 DEF Generation
  <1> QED
    BY <1>2 DEF Generation

\* The initial state is one of Coalescing's.
LEMMA InitRefines == Init => Promise!Init
  BY DEF Init, Promise!Init, Live, Seen

\* Every step of a call is one of Coalescing's or invisible.
LEMMA CallRefines ==
  ASSUME IInv, NEW c \in Callers,
         \/ Start(c) \/ KeyLost(c) \/ Lookup(c) \/ Join(c) \/ SpawnAndWake(c)
         \/ CloseWaiter(c) \/ WakeOnDrop(c)
  PROVE  [Promise!Next]_Seen3
  <1> USE CallersAssumption, KeysAssumption
      DEF workState, wakeVars, callVars, taskVars, streamVars, pools, Seen
  <1>1. CASE Start(c) \/ KeyLost(c) \/ WakeOnDrop(c)
    <2>1. \A v \in Callers : Live(v)' <=> Live(v)
      BY <1>1 DEF Start, KeyLost, WakeOnDrop, Return, Live, IInv, TypeOK
    <2>2. Generation' = Generation
      BY <1>1, <2>1 DEF Start, KeyLost, WakeOnDrop, Generation
    <2>3. Accepted' = Accepted /\ Reply' = Reply
      BY <1>1 DEF Start, KeyLost, WakeOnDrop, Return, Accepted, Reply, IInv, TypeOK
    <2> QED
      BY <2>2, <2>3 DEF Seen3
  <1>2. CASE Lookup(c)
    <2>1. gpc[c] = "none" /\ terminal[c] = None /\ ~blocked[c] /\ ~Live(c)
      BY <1>2 DEF Lookup, IInv, TaskState, Admission, Over, Live
    <2>2. Accepted' = Accepted /\ Reply' = Reply
      BY <1>2 DEF Lookup, Accepted, Reply, IInv, TypeOK
    <2>3. CASE \E k \in KeysOf(c) : Active(k)
      <3>1. PICK k \in KeysOf(c) : Active(k) /\ joined' = [joined EXCEPT ![c] = registry[k]]
        BY <1>2, <2>3 DEF Lookup, KeysOf
      <3>2. registry[k] # c
        BY <1>2, <2>1, <3>1 DEF Lookup, IInv, Registration, Begun, KeysOf, Active
      <3>3. \A v \in Callers : Live(v)' <=> Live(v)
        BY <1>2, <2>1, <3>1, <3>2 DEF Lookup, Live, IInv, TypeOK
      <3>4. Generation' = Generation
        BY <1>2, <3>3 DEF Lookup, Generation
      <3> QED
        BY <2>2, <3>4 DEF Seen3
    <2>4. CASE ~\E k \in KeysOf(c) : Active(k)
      <3>1. /\ joined' = [joined EXCEPT ![c] = c] /\ cpc' = [cpc EXCEPT ![c] = "join"]
            /\ UNCHANGED <<gpc, terminal, blocked>>
        BY <1>2, <2>4 DEF Lookup
      <3>2. \A v \in Callers : Live(v)' <=> Live(v) \/ v = c
        BY <2>1, <3>1 DEF Live, IInv, TypeOK
      <3>3. Generation[c] = "none" /\ Generation' = [Generation EXCEPT ![c] = "open"]
        BY <2>1, <3>1, <3>2 DEF Generation
      <3>4. \A w \in Callers : Generation[w] \in {"open", "refusing"} => KeysOf(c) \cap KeysOf(w) = {}
        \* work under way has a key of its own active, so it shares none with c
        <4> SUFFICES ASSUME NEW w \in Callers, Generation[w] \in {"open", "refusing"},
                            NEW k \in KeysOf(c), k \in KeysOf(w)
                     PROVE  FALSE
          OBVIOUS
        <4>1. Live(w)
          BY UnderWayRefines
        <4>2. registry[k] = w /\ terminal[w] = None
          BY <4>1 DEF IInv, SingleFlight, Live
        <4> QED
          BY <2>4, <4>2 DEF Active
      <3>5. Promise!Begin(c)
        BY <2>2, <3>3, <3>4 DEF Promise!Begin, Promise!MayBegin, Promise!UnderWay, Promise!SharesKey,
           Generation, Accepted, Reply
      <3> QED
        BY <3>5 DEF Promise!Next
    <2> QED
      BY <2>3, <2>4
  <1>3. CASE Join(c)
    <2>1. joined[c] = c => terminal[c] = None /\ ~blocked[c] /\ gpc[c] = "none"
      BY <1>3 DEF Join, IInv, TaskState, Admission, Over
    <2>2. \A v \in Callers : Live(v)' <=> Live(v)
      BY <1>3, <2>1 DEF Join, Return, Ended, Live, IInv, TypeOK
    <2>3. Generation' = Generation
      BY <1>3, <2>2 DEF Join, Generation
    <2>4. answer[c] = None /\ joined[c] \in Callers /\ cpc[c] = "join"
          /\ Begun(joined[c]) /\ KeysOf(c) \cap KeysOf(joined[c]) # {}
      BY <1>3 DEF Join, IInv, CallState, Registration
    <2>5. CASE cpc'[c] = "wake"
      <3>1. /\ terminal[joined[c]] = None /\ ~blocked[joined[c]]
            /\ cpc' = [cpc EXCEPT ![c] = "wake"] /\ UNCHANGED <<joined, answer>>
        BY <1>3, <2>5 DEF Join, Ended, Return, IInv, TypeOK
      <3>2. PICK w \in Callers : w = joined[c]
        BY <2>4
      <3>3. Generation[w] = "open" /\ KeysOf(c) \cap KeysOf(w) # {}
        BY <2>4, <3>1, <3>2, UnderWayRefines
      <3>4. \A x \in Callers : Seen(x)' <=> Seen(x) \/ x = c
        BY <2>4, <3>1 DEF IInv, TypeOK
      <3>5. ~Seen(c) /\ Reply' = Reply
        BY <2>4, <3>1, <3>4 DEF Reply
      <3>6. Accepted[c] = None /\ Accepted' = [Accepted EXCEPT ![c] = w]
        BY <2>4, <3>1, <3>2, <3>4, <3>5 DEF Accepted
      <3>7. Promise!Accept(c, w)
        BY <2>3, <3>3, <3>5, <3>6 DEF Promise!Accept, Promise!SharesKey, Generation, Accepted, Reply
      <3> QED
        BY <3>7 DEF Promise!Next
    <2>6. CASE cpc'[c] # "wake"
      <3>1. Accepted' = Accepted /\ Reply' = Reply
        BY <1>3, <2>6 DEF Join, Return, Accepted, Reply, IInv, TypeOK
      <3> QED
        BY <2>3, <3>1 DEF Seen3
    <2> QED
      BY <2>5, <2>6
  <1>4. CASE SpawnAndWake(c)
    <2>1. \A v \in Callers : Live(v)' <=> Live(v)
      BY <1>4 DEF SpawnAndWake, Live, IInv, TypeOK
    <2>2. Generation' = Generation /\ Accepted' = Accepted /\ Reply' = Reply
      BY <1>4, <2>1 DEF SpawnAndWake, Generation, Accepted, Reply, IInv, TypeOK
    <2> QED
      BY <2>2 DEF Seen3
  <1>5. CASE CloseWaiter(c)
    <2>1. \A v \in Callers : Live(v)' <=> Live(v)
      BY <1>5 DEF CloseWaiter, Live, IInv, TypeOK
    <2>2. Generation' = Generation
      BY <1>5, <2>1 DEF CloseWaiter, Generation
    <2>3. joined[c] \in Callers
      BY <1>5 DEF CloseWaiter, IInv, CallState
    <2>4. /\ Accepted[c] # None /\ Accepted' = [Accepted EXCEPT ![c] = None]
          /\ Reply' = [Reply EXCEPT ![c] = None]
      BY <1>5, <2>3 DEF CloseWaiter, Accepted, Reply, IInv, TypeOK
    <2>5. Promise!Leave(c)
      BY <2>2, <2>4 DEF Promise!Leave, Generation, Accepted, Reply
    <2> QED
      BY <2>5 DEF Promise!Next
  <1> QED
    BY <1>1, <1>2, <1>3, <1>4, <1>5

\* Ending a generation that is under way ends it in Coalescing.
LEMMA EndRefines ==
  ASSUME IInv, NEW w \in Callers, NEW r \in Results, terminal[w] = None, gpc[w] # "none",
         terminal' = [terminal EXCEPT ![w] = r], blocked' = blocked,
         Send(waiters[w], r), UNCHANGED <<cpc, joined>>,
         \A v \in Callers : gpc'[v] = "none" <=> gpc[v] = "none"
  PROVE  Promise!Next
  <1>1. terminal'[w] # None /\ \A v \in Callers \ {w} : terminal'[v] = terminal[v]
    BY CallersAssumption DEF IInv, TypeOK, Results, Outcomes
  <1>2. Generation' = [Generation EXCEPT ![w] = "over"]
    <2>1. Generation'[w] = "over"
      BY <1>1 DEF Generation
    <2> QED
      BY <1>1, <2>1, GenerationOf
  <1>3. Generation[w] \in {"open", "refusing"}
    BY UnderWayRefines DEF Begun
  <1>4. /\ Reply' = [c \in Callers |-> IF Accepted[c] = w /\ Reply[c] = None THEN r ELSE Reply[c]]
        /\ Accepted' = Accepted
    BY AnswerRefines
  <1>5. Promise!End(w, r)
    BY <1>2, <1>3, <1>4 DEF Promise!End, Promise!UnderWay, Promise!Answered, Generation, Accepted, Reply
  <1> QED
    BY <1>5 DEF Promise!Next

\* Answering every waiter without ending is Coalescing's Answer.
LEMMA AnswerStep ==
  ASSUME IInv, NEW w \in Callers, NEW r \in Results, terminal[w] = None, gpc[w] # "none",
         UNCHANGED <<terminal, blocked, cpc, joined>>, Send(waiters[w], r),
         \A v \in Callers : gpc'[v] = "none" <=> gpc[v] = "none"
  PROVE  Promise!Next
  <1>1. Generation' = Generation
    <2>1. \A v \in Callers : Live(v)' <=> Live(v)
      BY DEF Live
    <2> QED
      BY <2>1 DEF Generation
  <1>2. Generation[w] \in {"open", "refusing"}
    BY UnderWayRefines DEF Begun
  <1>3. /\ Reply' = [c \in Callers |-> IF Accepted[c] = w /\ Reply[c] = None THEN r ELSE Reply[c]]
        /\ Accepted' = Accepted
    BY AnswerRefines
  <1>4. Promise!Answer(w, r)
    BY <1>1, <1>2, <1>3 DEF Promise!Answer, Promise!UnderWay, Promise!Answered, Generation, Accepted,
       Reply
  <1> QED
    BY <1>4 DEF Promise!Next

\* Work that nobody waits for sends nothing by answering.
LEMMA NobodyToAnswer ==
  ASSUME IInv, NEW w \in Callers, NEW r, Retained(w) = {}, answer' = answer
  PROVE  Send(waiters[w], r)
  <1>1. \A c \in Callers : ~(c \in waiters[w] /\ ~closed[c])
    BY DEF Retained, IInv, TypeOK
  <1>2. answer = [c \in Callers |-> answer[c]]
    BY DEF IInv, TypeOK
  <1> QED
    BY <1>1, <1>2 DEF Send

\* Every step of a task is one of Coalescing's or invisible.
LEMMA TaskRefines ==
  ASSUME IInv, NEW w \in Callers,
         TaskStep(w) \/ RenderDone(w) \/ IoEnd(w) \/ Abort(w) \/ StreamActivity(w)
  PROVE  [Promise!Next]_Seen3
  <1> USE CallersAssumption
      DEF workState, wakeVars, callVars, taskVars, streamVars, pools
  <1>0. /\ gpc[w] \notin {"next", "exit", "unregister", "gone"} => terminal[w] = None
        /\ gpc[w] \notin {"reopen", "wait_render", "exit", "unregister", "gone"} => ~blocked[w]
        /\ gpc[w] \in {"reopen", "wait_render"} => blocked[w]
    BY DEF IInv, Admission, Over
  <1>1. CASE GenStart(w)
    <2>1. CASE Finish(w, "capacity", TRUE)
      <3>1. /\ terminal' = [terminal EXCEPT ![w] = "capacity"] /\ Send(waiters[w], "capacity")
            /\ UNCHANGED <<blocked, cpc, joined>> /\ gpc[w] = "start"
            /\ \A v \in Callers : gpc'[v] = "none" <=> gpc[v] = "none"
        BY <1>1, <2>1 DEF GenStart, Finish, IInv, TypeOK
      <3> QED
        BY <1>0, <3>1, EndRefines DEF Results
    <2>2. CASE ~Finish(w, "capacity", TRUE)
      BY <1>1, <2>2, Invisible DEF GenStart, IInv, TypeOK
    <2> QED
      BY <2>1, <2>2
  <1>2. CASE RenderPermit(w)
    <2>1. CASE BeginRender(w)
      <3>1. blocked' = blocked
        BY <1>0, <1>2, <2>1 DEF RenderPermit, BeginRender, IInv, TypeOK
      <3> QED
        BY <1>2, <2>1, <3>1, Invisible DEF RenderPermit, BeginRender, IInv, TypeOK
    <2>2. CASE ~BeginRender(w) /\ first[w]
      <3>1. /\ terminal' = [terminal EXCEPT ![w] = "capacity"] /\ Send(waiters[w], "capacity")
            /\ UNCHANGED <<blocked, cpc, joined>> /\ gpc[w] = "permit"
            /\ \A v \in Callers : gpc'[v] = "none" <=> gpc[v] = "none"
        BY <1>2, <2>2 DEF RenderPermit, Finish, IInv, TypeOK
      <3> QED
        BY <1>0, <3>1, EndRefines DEF Results
    <2>3. CASE ~BeginRender(w) /\ ~first[w]
      <3>1. /\ Refuse(w) /\ UNCHANGED <<cpc, joined>> /\ gpc[w] = "permit"
            /\ gpc'[w] # "none" /\ \A v \in Callers : v # w => gpc'[v] = gpc[v]
        BY <1>2, <2>3 DEF RenderPermit, IInv, TypeOK
      <3>2. /\ blocked' = [blocked EXCEPT ![w] = TRUE] /\ UNCHANGED terminal
            /\ Send(waiters[w], "capacity")
        BY <3>1 DEF Refuse
      <3>3. Generation'[w] = "refusing"
        BY <1>0, <3>1, <3>2 DEF Generation, IInv, TypeOK
      <3>4. Generation' = [Generation EXCEPT ![w] = "refusing"]
        BY <3>1, <3>2, <3>3, GenerationOf DEF IInv, TypeOK
      <3>5. Generation[w] \in {"open", "refusing"}
        BY <1>0, <3>1, UnderWayRefines DEF Begun
      <3>6. /\ Accepted' = Accepted
            /\ Reply' = [c \in Callers |-> IF Accepted[c] = w /\ Reply[c] = None
                                             THEN "capacity" ELSE Reply[c]]
        BY <3>1, <3>2, AnswerRefines DEF Results
      <3>7. Promise!Refuse(w)
        BY <3>4, <3>5, <3>6 DEF Promise!Refuse, Promise!UnderWay, Promise!Answered, Generation,
           Accepted, Reply
      <3> QED
        BY <3>7 DEF Promise!Next
    <2> QED
      BY <2>1, <2>2, <2>3
  <1>3. CASE Reopen(w) \/ WaitForRender(w)
    <2>1. /\ gpc[w] \in {"reopen", "wait_render"} /\ blocked' = [blocked EXCEPT ![w] = FALSE]
          /\ UNCHANGED <<terminal, cpc, joined, answer>>
          /\ gpc'[w] # "none" /\ \A v \in Callers : v # w => gpc'[v] = gpc[v]
      BY <1>3 DEF Reopen, WaitForRender, BeginRender, IInv, TypeOK
    <2>2. Generation[w] = "refusing"
      BY <1>0, <2>1, UnderWayRefines DEF Begun
    <2>3. Generation'[w] = "open"
      BY <1>0, <2>1 DEF Generation, Live, IInv, TypeOK
    <2>4. Generation' = [Generation EXCEPT ![w] = "open"]
      BY <2>1, <2>3, GenerationOf DEF IInv, TypeOK
    <2>5. Accepted' = Accepted /\ Reply' = Reply
      BY <2>1 DEF Accepted, Reply, Seen
    <2>6. Promise!Reopen(w)
      BY <2>2, <2>4, <2>5 DEF Promise!Reopen, Generation, Accepted, Reply
    <2> QED
      BY <2>6 DEF Promise!Next
  <1>4. CASE (RenderDone(w) \/ PublishDone(w)) /\ \E r \in Outcomes : Complete(w, r)
    <2>1. PICK r \in Outcomes : Complete(w, r)
      BY <1>4
    <2>2. /\ Send(waiters[w], r) /\ UNCHANGED <<blocked, cpc, joined>> /\ r \in Results
          /\ gpc' = [gpc EXCEPT ![w] = "next"] /\ gpc[w] \in {"render", "rendering", "publish"}
          /\ terminal' = terminal \/ terminal' = [terminal EXCEPT ![w] = r]
      BY <1>4, <2>1 DEF RenderDone, PublishDone, Complete, Finish, Results
    <2>3. \A v \in Callers : gpc'[v] = "none" <=> gpc[v] = "none"
      BY <2>2 DEF IInv, TypeOK
    <2>4. CASE terminal' = [terminal EXCEPT ![w] = r]
      BY <1>0, <2>2, <2>3, <2>4, EndRefines
    <2>5. CASE terminal' = terminal
      BY <1>0, <2>2, <2>3, <2>5, AnswerStep
    <2> QED
      BY <2>2, <2>4, <2>5
  <1>5. CASE RenderDone(w) /\ ~\E r \in Outcomes : Complete(w, r)
    <2>1. /\ gpc' = [gpc EXCEPT ![w] = "publish"] /\ gpc[w] \in {"render", "rendering"}
          /\ UNCHANGED <<terminal, blocked, cpc, joined, answer>>
      BY <1>5 DEF RenderDone, Outcomes
    <2> QED
      BY <2>1, Invisible DEF IInv, TypeOK
  <1>6. CASE AbandonCheck(w) \/ EndOfStreams(w)
    <2>1. /\ gpc[w] \in {"abandon", "eof"} /\ UNCHANGED <<blocked, cpc, joined, answer>>
          /\ terminal' = terminal \/ terminal' = [terminal EXCEPT ![w] = "closed"]
          /\ \A v \in Callers : gpc'[v] = "none" <=> gpc[v] = "none"
      BY <1>6 DEF AbandonCheck, EndOfStreams, IInv, TypeOK
    <2>2. CASE terminal' = terminal
      BY <2>1, <2>2, Invisible
    <2>3. CASE terminal' # terminal
      <3>1. Retained(w) = {}
        \* nobody waits: the last waiter left, or no request is left to render
        BY <1>6, <2>3 DEF AbandonCheck, EndOfStreams, IInv, TaskState, Senders, NobodyWaits
      <3>2. Send(waiters[w], "closed")
        BY <2>1, <3>1, NobodyToAnswer
      <3> QED
        BY <1>0, <2>1, <2>3, <3>2, EndRefines DEF Results
    <2> QED
      BY <2>2, <2>3
  <1>7. CASE GuardDrop(w)
    <2>1. /\ GuardResult(w) \in Results /\ Send(waiters[w], GuardResult(w))
          /\ UNCHANGED <<blocked, cpc, joined>> /\ gpc[w] = "exit"
          /\ terminal' = [terminal EXCEPT ![w] = GuardResult(w)]
          /\ \A v \in Callers : gpc'[v] = "none" <=> gpc[v] = "none"
      BY <1>7 DEF GuardDrop, GuardResult, IInv, TypeOK, Results
    <2>2. CASE terminal[w] = None
      BY <2>1, <2>2, EndRefines
    <2>3. CASE terminal[w] # None
      <3>1. terminal' = terminal
        BY <2>1, <2>3 DEF GuardResult, IInv, TypeOK
      <3>2. \A c \in Callers : ~(c \in waiters[w] /\ ~closed[c])
        BY <2>3 DEF IInv, Senders, NobodyWaits, Retained, TypeOK
      <3>3. answer' = answer
        BY <2>1, <3>2 DEF Send, IInv, TypeOK
      <3> QED
        BY <2>1, <3>1, <3>3, Invisible
    <2> QED
      BY <2>2, <2>3
  <1>8. CASE \/ AbandonRegister(w) \/ IoEnd(w) \/ NextTrigger(w) \/ CheckRequested(w)
             \/ PollStreams(w) \/ Resume(w) \/ Unregister(w) \/ Abort(w) \/ StreamActivity(w)
    <2>1. UNCHANGED <<terminal, blocked, cpc, joined, answer>>
      BY <1>8 DEF AbandonRegister, IoEnd, NextTrigger, CheckRequested, PollStreams, Resume, Unregister,
         Abort, StreamActivity
    <2>2. \A v \in Callers : gpc'[v] = "none" <=> gpc[v] = "none"
      BY <1>8 DEF AbandonRegister, IoEnd, NextTrigger, CheckRequested, PollStreams, Resume, Unregister,
         Abort, AwaitPoints, StreamActivity, IInv, TypeOK
    <2> QED
      BY <2>1, <2>2, Invisible
  <1>9. PublishDone(w) => \E r \in Outcomes : Complete(w, r)
    BY DEF PublishDone
  <1> QED
    BY <1>1, <1>2, <1>3, <1>4, <1>5, <1>6, <1>7, <1>8, <1>9 DEF TaskStep

\* Coalesced generation keeps its promise to the callers: every step of
\* StaticRuntime::render, of the generation task and of the guards is one of
\* Coalescing's or does not concern them.
THEOREM StaticWorkImplementsCoalescing == Spec => KeepsPromise
  <1>1. IInv /\ [Next]_vars => [Promise!Next]_Promise!coalescing
    <2> SUFFICES ASSUME IInv, [Next]_vars PROVE [Promise!Next]_Seen3
      BY DEF Promise!coalescing, Seen3, Generation, Accepted, Reply
    <2>1. CASE OtherRender \/ UNCHANGED vars
      BY <2>1, Invisible DEF OtherRender, vars, workState, callVars
    <2> QED
      BY <2>1, CallRefines, TaskRefines DEF Next, CallStep, Receive, CancelWait, Idle
  <1> QED
    BY InitRefines, <1>1, Invariant, PTL DEF Spec, KeepsPromise, Promise!Spec

-----------------------------------------------------------------------------
(* Permits: the three pools of a policy count what is in use.              *)

\* Adding and removing one element of a finite set.
LEMMA CountOne ==
  ASSUME NEW S \in SUBSET Callers, NEW x \in Callers
  PROVE  /\ Cardinality(S) \in Nat
         /\ x \notin S => Cardinality(S \cup {x}) = Cardinality(S) + 1
         /\ x \in S => Cardinality(S \ {x}) = Cardinality(S) - 1
  <1>1. IsFiniteSet(S)
    BY CallersAssumption, FS_Subset
  <1> QED
    BY <1>1, FS_CardinalityType, FS_AddElement, FS_RemoveElement

\* The units of an allotment: one for each call and each count up to its share.
Allotments == [Callers -> 0..Regenerate]
UnitsOf(a) == UNION {{w} \X (1..a[w]) : w \in Callers}

\* They form a finite set.
LEMMA UnitsFinite ==
  ASSUME NEW a \in Allotments
  PROVE  IsFiniteSet(UnitsOf(a)) /\ Cardinality(UnitsOf(a)) \in Nat
  <1>1. IsFiniteSet(1..Regenerate)
    BY FS_Interval, PolicyAssumption
  <1>2. IsFiniteSet(Callers \X (1..Regenerate))
    BY <1>1, CallersAssumption, FS_Product
  <1>3. UnitsOf(a) \in SUBSET (Callers \X (1..Regenerate))
    BY PolicyAssumption DEF UnitsOf, Allotments
  <1>4. IsFiniteSet(UnitsOf(a))
    BY <1>2, <1>3, FS_Subset
  <1> QED
    BY <1>4, FS_CardinalityType

\* A share of n makes n units more than none.
LEMMA UnitsOfShare ==
  ASSUME NEW a \in Allotments, NEW w \in Callers
  PROVE  Cardinality(UnitsOf(a)) = Cardinality(UnitsOf([a EXCEPT ![w] = 0])) + a[w]
  <1> DEFINE rest == [a EXCEPT ![w] = 0]
             share == {w} \X (1..a[w])
  <1>1. rest \in Allotments /\ a[w] \in Nat
    BY PolicyAssumption DEF Allotments
  <1>2. IsFiniteSet(1..a[w]) /\ Cardinality(1..a[w]) = a[w]
    BY <1>1, FS_Interval
  <1>3. IsFiniteSet({w}) /\ Cardinality({w}) = 1
    BY FS_Singleton
  <1>4. IsFiniteSet(share) /\ Cardinality(share) = Cardinality({w}) * Cardinality(1..a[w])
    BY <1>2, <1>3, FS_Product
  <1>5. Cardinality(share) = a[w]
    BY <1>1, <1>2, <1>3, <1>4
  <1>6. UnitsOf(a) = UnitsOf(rest) \cup share
    BY PolicyAssumption DEF UnitsOf, Allotments
  <1>7. UnitsOf(rest) \cap share = {}
    BY PolicyAssumption DEF UnitsOf, Allotments
  <1>8. IsFiniteSet(UnitsOf(rest)) /\ Cardinality(UnitsOf(rest)) \in Nat
    BY <1>1, UnitsFinite
  <1> HIDE DEF rest, share
  <1>9. Cardinality(UnitsOf(rest) \cup share) = Cardinality(UnitsOf(rest)) + Cardinality(share)
                                                 - Cardinality(UnitsOf(rest) \cap share)
    BY <1>4, <1>8, FS_Union
  <1>10. Cardinality(UnitsOf(rest) \cap share) = 0
    BY <1>7, FS_EmptySet, Zenon
  <1>11. Cardinality(UnitsOf(a)) = Cardinality(UnitsOf(rest) \cup share)
    BY <1>6, Zenon
  <1>12. Cardinality(UnitsOf(a)) = Cardinality(UnitsOf(rest)) + a[w]
    <2> DEFINE p == Cardinality(UnitsOf(a))
               q == Cardinality(UnitsOf(rest) \cup share)
               r == Cardinality(UnitsOf(rest))
               s == Cardinality(share)
               t == Cardinality(UnitsOf(rest) \cap share)
    <2>1. p = q /\ q = r + s - t /\ s = a[w] /\ t = 0 /\ r \in Nat
      BY <1>5, <1>8, <1>9, <1>10, <1>11, Zenon
    <2> HIDE DEF p, q, r, s, t
    <2>2. p = r + a[w]
      BY <1>1, <2>1
    <2> QED
      BY <2>2 DEF p, r
  <1> QED
    BY <1>12 DEF rest

\* Changing one share changes the number of units by as much.
LEMMA UnitsChange ==
  ASSUME NEW a \in Allotments, NEW b \in Allotments, NEW w \in Callers,
         \A v \in Callers \ {w} : b[v] = a[v]
  PROVE  Cardinality(UnitsOf(b)) = Cardinality(UnitsOf(a)) + b[w] - a[w]
  <1> DEFINE rest == [a EXCEPT ![w] = 0]
  <1>1. rest \in Allotments /\ rest = [b EXCEPT ![w] = 0]
    <2>1. rest \in Allotments /\ [b EXCEPT ![w] = 0] \in Allotments
      BY PolicyAssumption DEF Allotments
    <2>2. \A v \in Callers : rest[v] = [b EXCEPT ![w] = 0][v]
      BY DEF Allotments
    <2> QED
      BY <2>1, <2>2 DEF Allotments
  <1>2. Cardinality(UnitsOf(rest)) \in Nat
    BY <1>1, UnitsFinite
  <1>3. Cardinality(UnitsOf(a)) = Cardinality(UnitsOf(rest)) + a[w]
    BY UnitsOfShare
  <1>4. Cardinality(UnitsOf(b)) = Cardinality(UnitsOf([b EXCEPT ![w] = 0])) + b[w]
    BY UnitsOfShare
  <1>5. Cardinality(UnitsOf(b)) = Cardinality(UnitsOf(rest)) + b[w]
    BY <1>1, <1>4
  <1>6. a[w] \in Int /\ b[w] \in Int
    BY PolicyAssumption DEF Allotments
  <1> HIDE DEF rest
  <1> QED
    BY <1>2, <1>3, <1>5, <1>6

Holders == {w \in Callers : permit[w] # "none"}
InFlight == {c \in Callers : cpc[c] \notin {"idle", "done"}}
Shares == [w \in Callers |-> reserved[w] + streams[w]]

\* The counts themselves.
RendersCount == renders = others + Cardinality(Holders) /\ renders <= RenderLimit
CallsCount == admitted = Cardinality(InFlight) /\ admitted <= WaiterLimit
StreamsCount == subscriptions = Cardinality(UnitsOf(Shares)) /\ subscriptions <= SubscriptionLimit

PermitInv == PermitState /\ Reservation
             /\ (Managed => RendersCount /\ CallsCount /\ StreamsCount)

\* What the property says follows from the counts.
LEMMA PermitsFollow == IInv /\ PermitInv => PermitsAreExact
  <1> SUFFICES ASSUME IInv, PermitInv, Managed PROVE RenderSlots /\ WaiterSlots /\ SubscriptionSlots
    BY DEF PermitsAreExact, RenderSlots, WaiterSlots, SubscriptionSlots
  <1>1. \A w \in Callers : gpc[w] \in {"render", "abandon", "rendering"} \/ io[w] = "running"
                             => permit[w] # "none"
    BY DEF PermitInv, PermitState
  <1>2. UnitsOf(Shares) = UNION {{w} \X (1..(reserved[w] + streams[w])) : w \in Callers}
    BY DEF UnitsOf, Shares
  <1>3. RenderSlots
    BY <1>1 DEF PermitInv, RendersCount, Holders, RenderSlots
  <1>4. WaiterSlots
    BY DEF PermitInv, CallsCount, InFlight, WaiterSlots
  <1>5. SubscriptionSlots
    BY <1>2 DEF PermitInv, StreamsCount, SubscriptionSlots
  <1> QED
    BY <1>3, <1>4, <1>5

\* The allotment of the streams stays one, and only w's share changes.
LEMMA SharesChange ==
  ASSUME TypeOK, TypeOK', Reservation, Reservation', NEW w \in Callers,
         \A v \in Callers \ {w} : reserved'[v] = reserved[v] /\ streams'[v] = streams[v]
  PROVE  /\ Cardinality(UnitsOf(Shares'))
              = Cardinality(UnitsOf(Shares)) + (reserved'[w] + streams'[w]) - (reserved[w] + streams[w])
         /\ Cardinality(UnitsOf(Shares)) \in Nat
  <1>1. Shares \in Allotments
    BY PolicyAssumption DEF Shares, Allotments, TypeOK, Reservation
  <1>2. Shares' \in Allotments
    BY PolicyAssumption DEF Shares, Allotments, TypeOK, Reservation
  <1>3. \A v \in Callers \ {w} : Shares'[v] = Shares[v]
    BY DEF Shares
  <1>4. Shares[w] = reserved[w] + streams[w] /\ Shares'[w] = reserved'[w] + streams'[w]
    BY DEF Shares
  <1> QED
    BY <1>1, <1>2, <1>3, <1>4, UnitsChange, UnitsFinite

\* A step that leaves the tasks' permits and streams alone, and starts at most
\* one task, keeps the tasks' part.
LEMMA TaskPermitsKept ==
  ASSUME PermitInv, Managed => CallsCount',
         UNCHANGED <<permit, io, first, reserved, streams, renders, others, subscriptions>>,
         \A v \in Callers : gpc'[v] = gpc[v] \/ (gpc[v] = "none" /\ gpc'[v] = "start")
  PROVE  PermitInv'
  <1>1. PermitState'
    BY DEF PermitInv, PermitState, Over
  <1>2. Reservation'
    BY DEF PermitInv, Reservation, Rendering
  <1>3. Managed => RendersCount' /\ StreamsCount'
    BY DEF PermitInv, RendersCount, Holders, StreamsCount, Shares
  <1> QED
    BY <1>1, <1>2, <1>3 DEF PermitInv

\* Every step of a call keeps the counts.
LEMMA CallPermits ==
  ASSUME IInv, PermitInv, NEW c \in Callers,
         \/ Start(c) \/ KeyLost(c) \/ Lookup(c) \/ Join(c) \/ SpawnAndWake(c)
         \/ CloseWaiter(c) \/ WakeOnDrop(c)
  PROVE  PermitInv'
  <1> USE PolicyAssumption DEF workState, wakeVars, callVars, taskVars, streamVars, pools
  <1>1. /\ UNCHANGED <<permit, io, first, reserved, streams, renders, others, subscriptions>>
        /\ \A x \in Callers : x # c => cpc'[x] = cpc[x]
    BY DEF Start, KeyLost, Lookup, Join, SpawnAndWake, CloseWaiter, WakeOnDrop, Return, IInv, TypeOK
  <1>2. \A v \in Callers : gpc'[v] = gpc[v] \/ (gpc[v] = "none" /\ gpc'[v] = "start")
    BY DEF Start, KeyLost, Lookup, Join, SpawnAndWake, CloseWaiter, WakeOnDrop, IInv, TypeOK, TaskState
  <1>3. Managed => CallsCount'
    <2> SUFFICES ASSUME Managed PROVE CallsCount'
      OBVIOUS
    <2>1. CallsCount /\ InFlight \in SUBSET Callers
      BY DEF PermitInv, InFlight
    <2>2. \/ /\ cpc[c] \notin {"idle", "done"} /\ cpc'[c] = "done" /\ admitted' = admitted - 1
          \/ /\ cpc[c] = "idle" /\ cpc'[c] = "key" /\ admitted' = admitted + 1
             /\ admitted' <= WaiterLimit
          \/ /\ cpc[c] \in {"idle", "done"} <=> cpc'[c] \in {"idle", "done"}
             /\ admitted' = admitted
      BY DEF Start, KeyLost, Lookup, Join, SpawnAndWake, CloseWaiter, WakeOnDrop, Return, IInv, TypeOK
    <2>3. CASE cpc[c] \notin {"idle", "done"} /\ cpc'[c] = "done" /\ admitted' = admitted - 1
      <3>1. InFlight' = InFlight \ {c} /\ c \in InFlight
        BY <1>1, <2>3 DEF InFlight
      <3> QED
        BY <2>1, <2>3, <3>1, CountOne DEF CallsCount
    <2>4. CASE cpc[c] = "idle" /\ cpc'[c] = "key" /\ admitted' = admitted + 1
               /\ admitted' <= WaiterLimit
      <3>1. InFlight' = InFlight \cup {c} /\ c \notin InFlight
        BY <1>1, <2>4 DEF InFlight
      <3> QED
        BY <2>1, <2>4, <3>1, CountOne DEF CallsCount
    <2>5. CASE (cpc[c] \in {"idle", "done"} <=> cpc'[c] \in {"idle", "done"}) /\ admitted' = admitted
      <3>1. InFlight' = InFlight
        BY <1>1, <2>5 DEF InFlight
      <3> QED
        BY <2>1, <2>5, <3>1 DEF CallsCount
    <2> QED
      BY <2>2, <2>3, <2>4, <2>5
  <1> QED
    BY <1>1, <1>2, <1>3, TaskPermitsKept

\* How the render pool follows one task's permit.
LEMMA RendersFollow ==
  ASSUME TypeOK, TypeOK', RendersCount, NEW w \in Callers, others' = others,
         \A v \in Callers \ {w} : permit'[v] = permit[v],
         \/ /\ permit[w] = "none" /\ permit'[w] # "none" /\ renders' = renders + 1
            /\ renders' <= RenderLimit
         \/ permit[w] # "none" /\ permit'[w] = "none" /\ renders' = renders - 1
         \/ (permit[w] = "none" <=> permit'[w] = "none") /\ renders' = renders
  PROVE  RendersCount'
  <1> USE PolicyAssumption
  <1>1. Holders \in SUBSET Callers /\ renders \in Int /\ others \in Nat
    BY DEF Holders, TypeOK
  <1>2. CASE permit[w] = "none" /\ permit'[w] # "none" /\ renders' = renders + 1
             /\ renders' <= RenderLimit
    <2>1. Holders' = Holders \cup {w} /\ w \notin Holders
      BY <1>2 DEF Holders
    <2> QED
      BY <1>1, <1>2, <2>1, CountOne DEF RendersCount
  <1>3. CASE permit[w] # "none" /\ permit'[w] = "none" /\ renders' = renders - 1
    <2>1. Holders' = Holders \ {w} /\ w \in Holders
      BY <1>3 DEF Holders
    <2> QED
      BY <1>1, <1>3, <2>1, CountOne DEF RendersCount
  <1>4. CASE (permit[w] = "none" <=> permit'[w] = "none") /\ renders' = renders
    <2>1. Holders' = Holders
      BY <1>4 DEF Holders
    <2> QED
      BY <1>4, <2>1 DEF RendersCount
  <1> QED
    BY <1>2, <1>3, <1>4

\* How the subscription pool follows one task's reservation and streams.
LEMMA StreamsFollow ==
  ASSUME TypeOK, TypeOK', Reservation, Reservation', StreamsCount, NEW w \in Callers,
         \A v \in Callers \ {w} : reserved'[v] = reserved[v] /\ streams'[v] = streams[v],
         subscriptions' = subscriptions + (reserved'[w] + streams'[w]) - (reserved[w] + streams[w]),
         subscriptions' <= subscriptions \/ subscriptions' <= SubscriptionLimit
  PROVE  StreamsCount'
  <1>1. /\ Cardinality(UnitsOf(Shares'))
              = Cardinality(UnitsOf(Shares)) + (reserved'[w] + streams'[w]) - (reserved[w] + streams[w])
        /\ Cardinality(UnitsOf(Shares)) \in Nat
    BY SharesChange
  <1>2. /\ reserved[w] \in Int /\ streams[w] \in Int /\ reserved'[w] \in Int /\ streams'[w] \in Int
        /\ SubscriptionLimit \in Int
    BY PolicyAssumption DEF TypeOK
  <1>3. Cardinality(UnitsOf(Shares))' = Cardinality(UnitsOf(Shares'))
    BY DEF UnitsOf
  <1>4. subscriptions' = Cardinality(UnitsOf(Shares'))
    BY <1>1, <1>2 DEF StreamsCount
  <1>5. subscriptions' <= SubscriptionLimit
    BY <1>1, <1>2 DEF StreamsCount
  <1> QED
    BY <1>3, <1>4, <1>5 DEF StreamsCount

\* Every step of a task keeps the render permits where they belong.
LEMMA TaskPermitState ==
  ASSUME IInv, PermitState, Managed, NEW w \in Callers,
         TaskStep(w) \/ RenderDone(w) \/ IoEnd(w) \/ Abort(w) \/ StreamActivity(w)
  PROVE  /\ PermitState'
         /\ \A v \in Callers \ {w} : permit'[v] = permit[v]
         /\ others' = others
         /\ \/ /\ permit[w] = "none" /\ permit'[w] # "none" /\ renders' = renders + 1
               /\ renders' <= RenderLimit
            \/ permit[w] # "none" /\ permit'[w] = "none" /\ renders' = renders - 1
            \/ (permit[w] = "none" <=> permit'[w] = "none") /\ renders' = renders
  <1> USE DEF workState, wakeVars, callVars, taskVars, streamVars, pools
  <1>0. permit[w] \in {"none", "task", "io"}
    BY DEF IInv, TypeOK
  <1>1. CASE GenStart(w) \/ Reopen(w) \/ AbandonRegister(w) \/ AbandonCheck(w)
    <2>1. UNCHANGED <<permit, io, renders, others>>
      BY <1>1 DEF GenStart, Reopen, AbandonRegister, AbandonCheck
    <2>2. PermitState'
      BY <1>1, <2>1 DEF GenStart, Finish, Reopen, AbandonRegister, AbandonCheck, PermitState, Over, IInv, TypeOK
    <2> QED
      BY <2>1, <2>2
  <1>2. CASE RenderPermit(w) \/ WaitForRender(w)
    <2>1. gpc[w] \in {"permit", "wait_render"} /\ permit[w] = "none" /\ UNCHANGED <<io, others>>
          /\ io[w] # "running"
      BY <1>0, <1>2 DEF RenderPermit, WaitForRender, PermitState, Over
    <2>2. CASE TakePermit(w) /\ BeginRender(w)
      <3>1. /\ renders + 1 <= RenderLimit /\ renders' = renders + 1
            /\ permit' = [permit EXCEPT ![w] = "task"] /\ gpc' = [gpc EXCEPT ![w] = "render"]
        BY <2>2 DEF TakePermit, BeginRender
      <3>2. PermitState'
        BY <2>1, <3>1 DEF PermitState, Over, IInv, TypeOK
      <3> QED
        BY <2>1, <3>1, <3>2 DEF IInv, TypeOK
    <2>3. CASE ~(TakePermit(w) /\ BeginRender(w))
      <3>1. UNCHANGED <<permit, renders>> /\ gpc'[w] \in {"exit", "reopen", "wait_render"}
            /\ \A v \in Callers \ {w} : gpc'[v] = gpc[v]
        BY <1>2, <2>3 DEF RenderPermit, WaitForRender, IInv, TypeOK
      <3>2. PermitState'
        BY <2>1, <3>1 DEF PermitState, Over
      <3> QED
        BY <2>1, <3>1, <3>2
    <2> QED
      BY <2>2, <2>3
  <1>3. CASE RenderDone(w)
    <2>1. gpc[w] \in {"render", "rendering"} /\ permit[w] = "task" /\ io[w] # "running"
          /\ others' = others
      BY <1>3 DEF RenderDone, PermitState
    <2>2. CASE UNCHANGED <<permit, renders, io>>
      <3>1. gpc' = [gpc EXCEPT ![w] = "next"]
        BY <1>3, <2>1, <2>2 DEF RenderDone, DropPermit, Complete, IInv, TypeOK
      <3>2. PermitState'
        BY <2>1, <2>2, <3>1 DEF PermitState, Over, IInv, TypeOK
      <3> QED
        BY <2>1, <2>2, <3>2
    <2>3. CASE permit' = [permit EXCEPT ![w] = "none"] /\ renders' = renders - 1 /\ io' = io
               /\ gpc' = [gpc EXCEPT ![w] = "next"]
      BY <2>1, <2>3 DEF PermitState, Over, IInv, TypeOK
    <2>4. CASE permit' = [permit EXCEPT ![w] = "io"] /\ renders' = renders
               /\ io' = [io EXCEPT ![w] = "running"] /\ gpc' = [gpc EXCEPT ![w] = "publish"]
      BY <2>1, <2>4 DEF PermitState, Over, IInv, TypeOK
    <2> QED
      BY <1>3, <2>1, <2>2, <2>3, <2>4 DEF RenderDone, DropPermit, Complete
  <1>4. CASE PublishDone(w)
    <2>1. /\ UNCHANGED <<permit, renders, others>> /\ io' = [io EXCEPT ![w] = "idle"]
          /\ gpc' = [gpc EXCEPT ![w] = "next"] /\ io[w] # "running"
      BY <1>4 DEF PublishDone, Complete, Outcomes
    <2>2. PermitState'
      BY <1>0, <2>1 DEF PermitState, Over, IInv, TypeOK
    <2> QED
      BY <2>1, <2>2
  <1>5. CASE IoEnd(w)
    <2>1. permit[w] = "io" /\ permit' = [permit EXCEPT ![w] = "none"] /\ renders' = renders - 1
          /\ UNCHANGED <<gpc, others>> /\ io'[w] # "running"
          /\ \A v \in Callers \ {w} : io'[v] = io[v]
      BY <1>5 DEF IoEnd, PermitState, Outcomes, IInv, TypeOK
    <2>2. PermitState'
      BY <2>1 DEF PermitState, Over, IInv, TypeOK
    <2> QED
      BY <2>1, <2>2 DEF IInv, TypeOK
  <1>6. CASE NextTrigger(w) \/ GuardDrop(w) \/ Abort(w)
    <2>1. DropPermit(w) /\ UNCHANGED <<io, others>> /\ gpc'[w] \in {"exit", "check", "unregister"}
          /\ (\A v \in Callers \ {w} : gpc'[v] = gpc[v])
          /\ (io[w] = "running" => gpc'[w] \in {"exit", "unregister"})
      BY <1>6 DEF NextTrigger, GuardDrop, Abort, PermitState, Over, IInv, TypeOK
    <2>2. CASE permit[w] = "task"
      <3>1. permit' = [permit EXCEPT ![w] = "none"] /\ renders' = renders - 1
        BY <2>1, <2>2 DEF DropPermit
      <3>2. PermitState'
        BY <2>1, <2>2, <3>1 DEF PermitState, Over, IInv, TypeOK
      <3> QED
        BY <2>1, <2>2, <3>1, <3>2 DEF IInv, TypeOK
    <2>3. CASE permit[w] # "task"
      <3>1. UNCHANGED <<permit, renders>>
        BY <2>1, <2>3 DEF DropPermit
      <3>2. PermitState'
        BY <1>0, <2>1, <2>3, <3>1 DEF PermitState, Over
      <3> QED
        BY <2>1, <3>1, <3>2
    <2> QED
      BY <2>2, <2>3
  <1>7. CASE CheckRequested(w) \/ PollStreams(w) \/ EndOfStreams(w) \/ Resume(w)
             \/ Unregister(w) \/ StreamActivity(w)
    <2>1. UNCHANGED <<permit, io, renders, others>>
      BY <1>7 DEF CheckRequested, PollStreams, EndOfStreams, Resume, Unregister, StreamActivity
    <2>2. PermitState'
      BY <1>7, <2>1 DEF CheckRequested, PollStreams, EndOfStreams, Resume, Unregister, StreamActivity,
         PermitState, Over, IInv, TypeOK
    <2> QED
      BY <2>1, <2>2
  <1> QED
    BY <1>1, <1>2, <1>3, <1>4, <1>5, <1>6, <1>7 DEF TaskStep

\* Every step of a task accounts for its reservation and its streams.
LEMMA TaskReservation ==
  ASSUME IInv, TypeOK', Reservation, NEW w \in Callers,
         TaskStep(w) \/ RenderDone(w) \/ IoEnd(w) \/ Abort(w) \/ StreamActivity(w)
  PROVE  /\ Reservation'
         /\ \A v \in Callers \ {w} : reserved'[v] = reserved[v] /\ streams'[v] = streams[v]
         /\ Managed =>
              /\ subscriptions'
                   = subscriptions + (reserved'[w] + streams'[w]) - (reserved[w] + streams[w])
              /\ subscriptions' <= subscriptions \/ subscriptions' <= SubscriptionLimit
  <1> USE PolicyAssumption
      DEF workState, wakeVars, callVars, taskVars, streamVars, pools
  <1>0. /\ reserved[w] \in 0..Regenerate /\ streams[w] \in 0..Regenerate /\ subscriptions \in Int
        /\ reserved \in [Callers -> 0..Regenerate] /\ streams \in [Callers -> 0..Regenerate]
        /\ gpc \in [Callers -> TaskPoints] /\ first \in [Callers -> BOOLEAN]
    BY DEF IInv, TypeOK
  <1>1. CASE GenStart(w)
    <2>1. gpc[w] = "start" /\ reserved[w] = 0 /\ streams[w] = 0 /\ UNCHANGED <<first, streams>>
      BY <1>1 DEF GenStart, Reservation
    <2>2. CASE Finish(w, "capacity", TRUE)
      <3>1. UNCHANGED <<reserved, subscriptions>> /\ gpc' = [gpc EXCEPT ![w] = "exit"]
        BY <1>1, <2>2 DEF GenStart, Finish, IInv, TypeOK
      <3>2. Reservation'
        BY <1>0, <2>1, <3>1 DEF Reservation, Rendering
      <3> QED
        BY <1>0, <2>1, <3>1, <3>2
    <2>3. CASE ~Finish(w, "capacity", TRUE)
      <3>1. /\ gpc' = [gpc EXCEPT ![w] = "permit"]
            /\ Managed => /\ subscriptions + Regenerate <= SubscriptionLimit
                          /\ subscriptions' = subscriptions + Regenerate
            /\ reserved' = IF Managed THEN [reserved EXCEPT ![w] = Regenerate] ELSE reserved
        BY <1>1, <2>3 DEF GenStart
      <3>2. Reservation'
        BY <1>0, <2>1, <3>1 DEF Reservation, Rendering
      <3> QED
        BY <1>0, <2>1, <3>1, <3>2
    <2> QED
      BY <2>2, <2>3
  <1>2. CASE RenderPermit(w) \/ WaitForRender(w) \/ Reopen(w) \/ AbandonRegister(w) \/ AbandonCheck(w)
             \/ IoEnd(w) \/ CheckRequested(w) \/ EndOfStreams(w) \/ Resume(w) \/ StreamActivity(w)
    <2>1. UNCHANGED <<first, reserved, streams, subscriptions>>
      BY <1>2 DEF RenderPermit, WaitForRender, Reopen, AbandonRegister, AbandonCheck, IoEnd,
         CheckRequested, EndOfStreams, Resume, StreamActivity
    <2>2. \A v \in Callers : gpc'[v] = gpc[v]
            \/ /\ gpc'[v] \notin {"none", "start", "gone", "unregister"}
               /\ gpc'[v] = "permit" \/ Rendering(v)' => ~first[v] \/ gpc[v] = "permit" \/ Rendering(v)
      BY <1>0, <1>2 DEF RenderPermit, WaitForRender, BeginRender, Reopen, AbandonRegister,
         AbandonCheck, IoEnd, CheckRequested, EndOfStreams, Resume, StreamActivity, Rendering,
         IInv, TaskState
    <2>3. Reservation'
      BY <2>1, <2>2 DEF Reservation, Rendering
    <2> QED
      BY <1>0, <2>1, <2>3
  <1>3. CASE RenderDone(w) \/ PublishDone(w)
    <2>1. UNCHANGED <<first, subscriptions>> /\ gpc[w] \in {"render", "rendering", "publish"}
      BY <1>3 DEF RenderDone, PublishDone
    <2>2. gpc' = [gpc EXCEPT ![w] = "next"] \/ gpc' = [gpc EXCEPT ![w] = "publish"]
      BY <1>3 DEF RenderDone, PublishDone, Complete
    <2>3. CASE UNCHANGED <<reserved, streams>>
      <3>1. Reservation'
        BY <1>0, <2>1, <2>2, <2>3 DEF Reservation, Rendering
      <3> QED
        BY <1>0, <2>1, <2>3, <3>1
    <2>4. CASE /\ first[w] /\ streams' = [streams EXCEPT ![w] = Regenerate]
               /\ reserved' = [reserved EXCEPT ![w] = 0] /\ gpc' = [gpc EXCEPT ![w] = "next"]
      <3>1. reserved[w] = (IF Managed THEN Regenerate ELSE 0) /\ streams[w] = 0
        BY <2>1, <2>4 DEF Reservation, Rendering
      <3>2. Reservation'
        BY <1>0, <2>1, <2>4 DEF Reservation, Rendering
      <3> QED
        BY <1>0, <2>1, <2>4, <3>1, <3>2
    <2>5. \/ UNCHANGED <<reserved, streams>>
          \/ /\ first[w] /\ streams' = [streams EXCEPT ![w] = Regenerate]
             /\ reserved' = [reserved EXCEPT ![w] = 0] /\ gpc' = [gpc EXCEPT ![w] = "next"]
      BY <1>3 DEF RenderDone, PublishDone, Subscribe, Complete
    <2> QED
      BY <2>3, <2>4, <2>5
  <1>4. CASE NextTrigger(w)
    <2>1. Reservation'
      BY <1>0, <1>4 DEF NextTrigger, Reservation, Rendering
    <2> QED
      BY <1>0, <1>4, <2>1 DEF NextTrigger
  <1>5. CASE PollStreams(w)
    <2>1. ~first[w] /\ streams[w] > 0 /\ UNCHANGED <<first, reserved>>
      BY <1>5 DEF PollStreams, IInv, TaskState, Polled
    <2>2. \/ streams' = streams /\ subscriptions' = subscriptions
          \/ /\ streams' = [streams EXCEPT ![w] = streams[w] - 1]
             /\ Managed => subscriptions' = subscriptions - 1
      BY <1>5 DEF PollStreams
    <2>3. /\ gpc'[w] \in {"permit", "eof", "streams", "parked"}
          /\ \A v \in Callers \ {w} : gpc'[v] = gpc[v]
      BY <1>0, <1>5 DEF PollStreams
    <2>4. Reservation'
      BY <1>0, <2>1, <2>2, <2>3 DEF Reservation, Rendering
    <2> QED
      BY <1>0, <2>1, <2>2, <2>4
  <1>6. CASE GuardDrop(w)
    <2>1. Reservation'
      BY <1>0, <1>6 DEF GuardDrop, Reservation, Rendering
    <2> QED
      BY <1>0, <1>6, <2>1 DEF GuardDrop
  <1>7. CASE Unregister(w)
    <2>1. streams[w] = 0
      BY <1>7 DEF Unregister, Reservation
    <2>2. Reservation'
      BY <1>0, <1>7, <2>1 DEF Unregister, Reservation, Rendering
    <2> QED
      BY <1>0, <1>7, <2>1, <2>2 DEF Unregister, DropReservation
  <1>8. CASE Abort(w)
    <2>1. Reservation'
      BY <1>0, <1>8 DEF Abort, Reservation, Rendering
    <2> QED
      BY <1>0, <1>8, <2>1 DEF Abort
  <1> QED
    BY <1>1, <1>2, <1>3, <1>4, <1>5, <1>6, <1>7, <1>8 DEF TaskStep

\* Every step keeps the counts.
LEMMA NextPermits == IInv /\ IInv' /\ PermitInv /\ [Next]_vars => PermitInv'
  <1> SUFFICES ASSUME IInv, IInv', PermitInv, [Next]_vars PROVE PermitInv'
    OBVIOUS
  <1>1. ASSUME NEW c \in Callers,
               \/ Start(c) \/ KeyLost(c) \/ Lookup(c) \/ Join(c) \/ SpawnAndWake(c)
               \/ CloseWaiter(c) \/ WakeOnDrop(c)
        PROVE  PermitInv'
    BY <1>1, CallPermits
  <1>2. ASSUME NEW w \in Callers,
               TaskStep(w) \/ RenderDone(w) \/ IoEnd(w) \/ Abort(w) \/ StreamActivity(w)
        PROVE  PermitInv'
    <2>1. Reservation'
      BY <1>2, TaskReservation DEF IInv, PermitInv
    <2>2. CASE ~Managed
      BY <2>1, <2>2 DEF PermitInv, PermitState
    <2>3. CASE Managed
      <3>1. PermitState'
        BY <1>2, <2>3, TaskPermitState DEF PermitInv
      <3>2. RendersCount'
        BY <1>2, <2>3, TaskPermitState, RendersFollow DEF IInv, PermitInv
      <3>3. StreamsCount'
        BY <1>2, <2>1, <2>3, TaskReservation, StreamsFollow DEF IInv, PermitInv
      <3>4. UNCHANGED <<admitted, cpc>>
        BY <1>2 DEF TaskStep, GenStart, RenderPermit, Reopen, WaitForRender, RenderDone, AbandonRegister,
           AbandonCheck, IoEnd, PublishDone, NextTrigger, CheckRequested, PollStreams, EndOfStreams,
           Resume, GuardDrop, Unregister, Abort, StreamActivity, callVars, pools
      <3>5. CallsCount'
        BY <2>3, <3>4 DEF PermitInv, CallsCount, InFlight
      <3> QED
        BY <2>1, <3>1, <3>2, <3>3, <3>5 DEF PermitInv
    <2> QED
      BY <2>2, <2>3
  <1>3. CASE OtherRender
    <2>1. /\ Managed
          /\ UNCHANGED <<permit, io, gpc, first, reserved, streams, admitted, cpc, subscriptions>>
          /\ \/ renders + 1 <= RenderLimit /\ renders' = renders + 1 /\ others' = others + 1
             \/ renders' = renders - 1 /\ others' = others - 1
      BY <1>3 DEF OtherRender, callVars, taskVars
    <2>2. PermitState' /\ Reservation'
      BY <2>1 DEF PermitInv, PermitState, Reservation, Rendering, Over
    <2>3. CallsCount' /\ StreamsCount'
      BY <2>1 DEF PermitInv, CallsCount, InFlight, StreamsCount, Shares
    <2>4. Holders' = Holders /\ Cardinality(Holders) \in Nat
      <3>1. Holders \in SUBSET Callers
        BY DEF Holders
      <3> QED
        BY <2>1, <3>1, CountOne, FS_CardinalityType, FS_Subset, CallersAssumption DEF Holders
    <2>5. RendersCount'
      <3>1. Cardinality(Holders') = Cardinality(Holders)
        BY <2>4
      <3>2. /\ renders \in Int /\ others \in Nat /\ RenderLimit \in Nat
            /\ renders = others + Cardinality(Holders) /\ renders <= RenderLimit
        BY <2>1, PolicyAssumption DEF PermitInv, RendersCount, IInv, TypeOK
      <3>3. renders' = others' + Cardinality(Holders) /\ renders' <= RenderLimit
        BY <2>1, <2>4, <3>2
      <3> QED
        BY <3>1, <3>3 DEF RendersCount
    <2> QED
      BY <2>2, <2>3, <2>5 DEF PermitInv
  <1>4. CASE UNCHANGED vars
    BY <1>4 DEF vars, callVars, taskVars, pools, PermitInv, PermitState, Reservation, Rendering, Over,
       RendersCount, Holders, CallsCount, InFlight, StreamsCount, Shares
  <1> QED
    BY <1>1, <1>2, <1>3, <1>4 DEF Next, CallStep, Receive, CancelWait, Idle

\* The render, waiter and subscription pools count exactly what is in use and
\* stay within their limits: Permit's drops and splits, blocking I/O that
\* outlives its task, refusals, stream ends and aborts included.
THEOREM PermitsCountExactly == Spec => []PermitsAreExact
  <1>1. Init => PermitInv
    <2> SUFFICES ASSUME Init PROVE PermitInv
      OBVIOUS
    <2> USE PolicyAssumption DEF Init
    <2>1. PermitState /\ Reservation
      BY DEF PermitState, Reservation, Rendering
    <2>2. Holders = {} /\ InFlight = {}
      BY DEF Holders, InFlight
    <2>3. UnitsOf(Shares) = {}
      BY DEF UnitsOf, Shares
    <2>4. RendersCount /\ CallsCount /\ StreamsCount
      BY <2>2, <2>3, FS_EmptySet DEF RendersCount, CallsCount, StreamsCount
    <2> QED
      BY <2>1, <2>4 DEF PermitInv
  <1> QED
    BY <1>1, NextPermits, PermitsFollow, Invariant, PTL DEF Spec

=============================================================================
