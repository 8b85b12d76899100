----------------------------- MODULE RequestScope -----------------------------
(***************************************************************************)
(* Native requests owned by the scopes of one origin thread, and the       *)
(* transferable handles to them (src/request.rs): RequestScope, Request    *)
(* and its Token, Registry::collect, and CollectingFuture, the root future *)
(* of RequestRuntime.                                                      *)
(*                                                                         *)
(* Handles live on the origin thread or on a foreign one.  Steps of the    *)
(* origin thread interleave only with those of foreign threads: user code  *)
(* on the origin, native destructors included, runs while the root future  *)
(* is parked or inside its inner future, never between its own steps.      *)
(***************************************************************************)
EXTENDS Naturals, Sequences, FiniteSets, SequencesExt

CONSTANTS
    Scopes,         \* scopes opened on the thread, each at most once
    Runtime,        \* the scope RequestRuntime::block_on opens
    Requests,       \* requests registered, each at most once
    None,
    MaxHandles      \* bound: clones of one handle

ASSUME ScopesAssumption == Runtime \in Scopes /\ None \notin Scopes
ASSUME HandlesAssumption == MaxHandles \in Nat \ {0}

VARIABLES
    stack, opened,      \* SCOPES, and the scopes ever opened
    entries,            \* Registry.entries of each scope
    scopeOf,            \* Token.scope
    here, away,         \* live handles on the origin and on foreign threads
    retiring,           \* a final drop in progress on a foreign thread
    dirty, waker,       \* RetirementWake of each scope
    root, sched,        \* the root future, and whether it will be polled
    pinned              \* requests a with() callback is reading

scopeVars == <<stack, opened>>
wakeVars == <<dirty, waker, sched>>
vars == <<scopeVars, entries, scopeOf, here, away, retiring, wakeVars, root, pinned>>

\* Definitions whose name starts with Bug are faulty variants of the definition
\* that follows; they are used only to check that the properties can fail.

IsOpen(s) == s \in Range(stack)
Strong(q) == here[q] + away[q]

\* The origin thread is free to run user code.
OriginRuns == root \in {"none", "parked", "inner", "ready"}

Init ==
    /\ stack = <<>> /\ opened = {}
    /\ entries = [s \in Scopes |-> {}]
    /\ scopeOf = [q \in Requests |-> None]
    /\ here = [q \in Requests |-> 0] /\ away = [q \in Requests |-> 0]
    /\ retiring = [q \in Requests |-> "no"]
    /\ dirty = [s \in Scopes |-> FALSE] /\ waker = [s \in Scopes |-> FALSE]
    /\ root = "none" /\ sched = FALSE
    /\ pinned = {}

-----------------------------------------------------------------------------
(* RequestScope::new and drop.  Scopes may be closed in any order.         *)

OpenScope(s) ==
    /\ OriginRuns /\ s \notin opened
    /\ stack' = Append(stack, s)
    /\ opened' = opened \cup {s}
    /\ IF s = Runtime THEN root' = "register" ELSE UNCHANGED root
    /\ UNCHANGED <<entries, scopeOf, here, away, retiring, wakeVars, pinned>>

\* RequestScope::drop removes the scope, its waker and its entries.
Close(s) ==
    /\ \E i \in DOMAIN stack : stack[i] = s /\ stack' = RemoveAt(stack, i)
    /\ waker' = [waker EXCEPT ![s] = FALSE]
    /\ entries' = [entries EXCEPT ![s] = {}]

CloseScope(s) ==
    /\ OriginRuns /\ IsOpen(s) /\ s # Runtime
    /\ Close(s)
    /\ UNCHANGED <<opened, scopeOf, here, away, retiring, dirty, sched, root, pinned>>

-----------------------------------------------------------------------------
(* Request and Token on the origin thread.                                 *)

\* current_registry: the most recent open scope.
Current == Last(stack)

\* The scope a token names is the one that owns its entry.
TokenScope == Current

\* Request::try_new
TryNew(q) ==
    /\ OriginRuns /\ scopeOf[q] = None /\ stack # <<>>
    /\ scopeOf' = [scopeOf EXCEPT ![q] = TokenScope]
    /\ entries' = [entries EXCEPT ![Current] = @ \cup {q}]
    /\ here' = [here EXCEPT ![q] = 1]
    /\ UNCHANGED <<scopeVars, away, retiring, wakeVars, root, pinned>>

\* Request::with finds the entry and pins the native request ...
BeginWith(q) ==
    /\ OriginRuns /\ here[q] > 0 /\ q \notin pinned
    /\ IsOpen(scopeOf[q]) /\ q \in entries[scopeOf[q]]
    /\ pinned' = pinned \cup {q}
    /\ UNCHANGED <<scopeVars, entries, scopeOf, here, away, retiring, wakeVars, root>>

\* ... until the callback, which may do anything the thread can, returns.
EndWith(q) ==
    /\ OriginRuns /\ q \in pinned
    /\ pinned' = pinned \ {q}
    /\ UNCHANGED <<scopeVars, entries, scopeOf, here, away, retiring, wakeVars, root>>

CloneHere(q) ==
    /\ OriginRuns /\ here[q] > 0 /\ Strong(q) < MaxHandles
    /\ here' = [here EXCEPT ![q] = @ + 1]
    /\ UNCHANGED <<scopeVars, entries, scopeOf, away, retiring, wakeVars, root, pinned>>

\* A handle moves to a foreign thread.
Send(q) ==
    /\ OriginRuns /\ here[q] > 0
    /\ here' = [here EXCEPT ![q] = @ - 1]
    /\ away' = [away EXCEPT ![q] = @ + 1]
    /\ UNCHANGED <<scopeVars, entries, scopeOf, retiring, wakeVars, root, pinned>>

\* The last handle retires the entry at once if it is dropped on the origin.
BugRetires(q) == here[q] = 1
Retires(q) == Strong(q) = 1

DropHere(q) ==
    /\ OriginRuns /\ here[q] > 0
    /\ here' = [here EXCEPT ![q] = @ - 1]
    /\ entries' = IF Retires(q) THEN [entries EXCEPT ![scopeOf[q]] = @ \ {q}] ELSE entries
    /\ UNCHANGED <<scopeVars, scopeOf, away, retiring, wakeVars, root, pinned>>

-----------------------------------------------------------------------------
(* Foreign threads.                                                        *)

CloneAway(q) ==
    /\ away[q] > 0 /\ Strong(q) < MaxHandles
    /\ away' = [away EXCEPT ![q] = @ + 1]
    /\ UNCHANGED <<scopeVars, entries, scopeOf, here, retiring, wakeVars, root, pinned>>

\* Token::drop on a foreign thread: the count reaches zero, then the flag is
\* set, then the waker is taken and woken.
DropAway(q) ==
    /\ away[q] > 0
    /\ away' = [away EXCEPT ![q] = @ - 1]
    /\ retiring' = [retiring EXCEPT ![q] = IF Strong(q) = 1 THEN "flag" ELSE @]
    /\ UNCHANGED <<scopeVars, entries, scopeOf, here, wakeVars, root, pinned>>

SetDirty(q) ==
    /\ retiring[q] = "flag"
    /\ dirty' = [dirty EXCEPT ![scopeOf[q]] = TRUE]
    /\ retiring' = [retiring EXCEPT ![q] = "wake"]
    /\ UNCHANGED <<scopeVars, entries, scopeOf, here, away, waker, sched, root, pinned>>

WakeRoot(q) ==
    LET s == scopeOf[q] IN
    /\ retiring[q] = "wake"
    /\ sched' = (sched \/ waker[s])
    /\ waker' = [waker EXCEPT ![s] = FALSE]
    /\ retiring' = [retiring EXCEPT ![q] = "done"]
    /\ UNCHANGED <<scopeVars, entries, scopeOf, here, away, dirty, root, pinned>>

-----------------------------------------------------------------------------
(* Registry::collect, by hand and by the root future.                      *)

\* Entries whose token has no strong reference left.
Retired(s) == {q \in entries[s] : Strong(q) = 0}

\* RequestScope::collect on a guard the application holds.
Collect(s) ==
    /\ OriginRuns /\ IsOpen(s) /\ s # Runtime
    /\ entries' = [entries EXCEPT ![s] = @ \ Retired(s)]
    /\ UNCHANGED <<scopeVars, scopeOf, here, away, retiring, wakeVars, root, pinned>>

\* CollectingFuture::poll: register the waker ...
BugFirst == "swap"
First == "register"

Poll ==
    /\ root = "parked" /\ sched
    /\ sched' = FALSE
    /\ root' = First
    /\ UNCHANGED <<scopeVars, entries, scopeOf, here, away, retiring, dirty, waker, pinned>>

Register ==
    /\ root = "register"
    /\ waker' = [waker EXCEPT ![Runtime] = TRUE]
    /\ root' = "swap"
    /\ UNCHANGED <<scopeVars, entries, scopeOf, here, away, retiring, dirty, sched, pinned>>

\* ... before the flag is taken ...
Swap ==
    /\ root = "swap"
    /\ dirty' = [dirty EXCEPT ![Runtime] = FALSE]
    /\ root' = IF dirty[Runtime] THEN "collect" ELSE "inner"
    /\ UNCHANGED <<scopeVars, entries, scopeOf, here, away, retiring, waker, sched, pinned>>

\* ... and the retired entries with it; then the inner future is polled.
CollectRoot ==
    /\ root = "collect"
    /\ entries' = [entries EXCEPT ![Runtime] = @ \ Retired(Runtime)]
    /\ root' = "inner"
    /\ UNCHANGED <<scopeVars, scopeOf, here, away, retiring, wakeVars, pinned>>

\* The inner future is pending, or is ready and block_on drops its scope.
InnerPending ==
    /\ root = "inner" /\ root' = "parked"
    /\ UNCHANGED <<scopeVars, entries, scopeOf, here, away, retiring, wakeVars, pinned>>

InnerReady ==
    /\ root = "inner" /\ root' = "ready"
    /\ Close(Runtime)
    /\ UNCHANGED <<opened, scopeOf, here, away, retiring, dirty, sched, pinned>>

\* The inner future's own events wake the root as well.
InnerWake ==
    /\ root = "parked" /\ ~sched
    /\ sched' = TRUE
    /\ UNCHANGED <<scopeVars, entries, scopeOf, here, away, retiring, dirty, waker, root, pinned>>

-----------------------------------------------------------------------------
RootStep == Poll \/ Register \/ Swap \/ CollectRoot \/ InnerPending
RetireStep(q) == SetDirty(q) \/ WakeRoot(q)

Next ==
    \/ RootStep \/ InnerReady \/ InnerWake
    \/ \E s \in Scopes : OpenScope(s) \/ CloseScope(s) \/ Collect(s)
    \/ \E q \in Requests : \/ TryNew(q) \/ BeginWith(q) \/ EndWith(q) \/ CloneHere(q)
                           \/ Send(q) \/ DropHere(q) \/ CloneAway(q) \/ DropAway(q)
                           \/ RetireStep(q)

Spec == Init /\ [][Next]_vars

\* The root future is polled when it is woken, its polls return, and a drop
\* once begun completes.  The inner future need not make any progress.
FairSpec == Spec /\ WF_vars(RootStep) /\ \A q \in Requests : WF_vars(RetireStep(q))

-----------------------------------------------------------------------------
TypeOK ==
    /\ stack \in Seq(Scopes) /\ Range(stack) \subseteq opened /\ opened \subseteq Scopes
    /\ entries \in [Scopes -> SUBSET Requests]
    /\ \A s \in Scopes : \A q \in entries[s] : scopeOf[q] = s
    /\ scopeOf \in [Requests -> Scopes \cup {None}]
    /\ here \in [Requests -> 0..MaxHandles] /\ away \in [Requests -> 0..MaxHandles]
    /\ retiring \in [Requests -> {"no", "flag", "wake", "done"}]
    /\ dirty \in [Scopes -> BOOLEAN] /\ waker \in [Scopes -> BOOLEAN]
    /\ root \in {"none", "register", "swap", "collect", "inner", "parked", "ready"}
    /\ sched \in BOOLEAN
    /\ pinned \in SUBSET Requests

\* A handle whose scope is open still leads to its native request, whatever
\* its clones on other threads and the collections did meanwhile.
HandlesStayUsable ==
    \A q \in Requests : Strong(q) > 0 /\ IsOpen(scopeOf[q]) => q \in entries[scopeOf[q]]

\* The root future never parks past a retirement: an entry that has been
\* retired on a foreign thread is due in a poll already scheduled, or its
\* thread has still to set the flag or to wake the root.
NoLostRetirement ==
    \A q \in entries[Runtime] : root = "parked" /\ ~sched /\ Strong(q) = 0
        => \E p \in Requests : scopeOf[p] = Runtime /\ retiring[p] \in {"flag", "wake"}

\* A native request of the runtime's scope does not outlive its last handle
\* for ever, even if the application never polls anything again.
RetiredAreCollected ==
    \A q \in Requests : q \in entries[Runtime] /\ Strong(q) = 0 ~> q \notin entries[Runtime]
=============================================================================
