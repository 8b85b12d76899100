----------------------------- MODULE StaticServing -----------------------------
(***************************************************************************)
(* Requests for static pages and a generator on the runtimes of one site   *)
(* root: binding of a policy (src/static_routes/policy.rs), the lookup of  *)
(* work keys (WorkKeys), and the handler and the generator that share      *)
(* generations (src/static_routes.rs).  What StaticRuntime::render does    *)
(* with locks, wakers and tasks is left to the specification it implements *)
(* (Coalescing); a generation's render, publication and slots appear by    *)
(* their outcomes.  The pages lie in one directory.                        *)
(***************************************************************************)
EXTENDS WorkKeys, SequencesExt

CONSTANTS
    Pages, Jobs,        \* requests for pages; calls of the generator, in order
    RuntimeOf,          \* the runtime of each call: its address
    PathsOf,            \* the paths a call may ask for: sequences of segments
    Handles,            \* StaticRoutePolicy handles
    Binders, PolicyOf,  \* calls that bind a policy, the policy of each
    RoutesOf,           \* the runtimes of the listings they bind, as listed
    Scenarios,          \* the site root, what lies above, which handles it gets,
                        \* which calls are made, and a bound: how many entries
                        \* somebody else deletes
    None

Calls == Pages \cup Range(Jobs)
Runtimes == Range(RuntimeOf) \cup UNION {Range(RoutesOf[b]) : b \in Binders}
Looks == [rule : Rules, stored : Names]

\* A failure is an error response as rendered (Inline) or an error that no
\* retry resolves; capacity is what is_admission tells from it.
Outcomes == {"published", "failure", "capacity"}
Answers == Outcomes \cup {"file", "no page", "lost", "dropped", "panic"}

ASSUME CallsAssumption ==
    /\ RuntimeOf \in [Calls -> Nat] /\ \A c \in Calls : PathsOf[c] \subseteq Seq(Names)
    /\ PolicyOf \in [Binders -> Handles]
    /\ None \notin Names \cup Looks \cup Calls \cup Handles \cup Answers

\* The root is a directory or will be one, with files and what the probes of
\* WorkKeys rely on.
ASSUME ScenariosAssumption == \A s \in Scenarios :
    /\ s \in [dir : Directories, above : Seq(Directories), handles : SUBSET Handles,
              calls : SUBSET Calls, deletions : Nat]
    /\ s.dir.kind # "other" /\ IsFiniteSet(s.dir.entries)
    /\ OneRule(<<s.dir>> \o s.above, s.dir.folds)
    /\ \A d \in Range(<<s.dir>> \o s.above) : SingleDirectories(d)

VARIABLES
    site, dir,          \* the directories above, the handles; the root itself
    removals,           \* entries deleted so far
    opened,             \* handles that are open
    binding, lock,      \* of each runtime: PolicyState of the root, its mutex
    binder,             \* binding calls: what they did
    pc, target,         \* calls: control point, file name or None
    policy, look,       \* calls: the policy read by start; what the lookup saw
    managed,            \* the generator: not started (None), under a policy or not
    templates,          \* generations: calls whose template they took
    watching,           \* generations that have installed their subscriptions
    answer,             \* calls: what they returned
    generation, accepted, reply \* of Coalescing

policyVars == <<opened, binding, lock, binder>>
callVars == <<pc, target, policy, look, managed, answer>>
workVars == <<templates, watching, generation, accepted, reply>>
vars == <<site, dir, removals, policyVars, callVars, workVars>>

KeysOf(c) ==
    IF look[c] = None THEN {}
    ELSE {<<RuntimeOf[c], k>> : k \in WorkKey(look[c].rule, look[c].stored, target[c])}

Work == INSTANCE Coalescing WITH Callers <- Calls, Results <- Outcomes, keys <- [c \in Calls |-> KeysOf(c)]

Init ==
    /\ \E s \in Scenarios :
          /\ site = [above |-> s.above, handles |-> s.handles, deletions |-> s.deletions] /\ dir = s.dir
          /\ pc = [c \in Calls |-> IF c \in s.calls THEN "new" ELSE "done"]
    /\ removals = 0 /\ opened = {}
    /\ binding = [rt \in Runtimes |-> [policy |-> None, started |-> FALSE]]
    /\ lock = [rt \in Runtimes |-> None]
    /\ binder = [b \in Binders |-> "idle"]
    /\ target = [c \in Calls |-> None]
    /\ policy = [c \in Calls |-> None]
    /\ look = [c \in Calls |-> None]
    /\ managed = None
    /\ templates = [c \in Calls |-> {}] /\ watching = {}
    /\ answer = [c \in Calls |-> None]
    /\ Work!Init

-----------------------------------------------------------------------------
(* Policies.                                                               *)

\* StaticRoutePolicy::open creates the root; the record is StorageAccounting's.
Created(d) == IF d.kind = "missing" THEN [d EXCEPT !.kind = "dir"] ELSE d
OpenPolicy(h) ==
    /\ h \in site.handles \ opened
    /\ opened' = opened \cup {h} /\ dir' = Created(dir)
    /\ UNCHANGED <<site, removals, binding, lock, binder, callVars, workVars>>

\* configure_routes sorts by address and drops duplicates; bind has one runtime.
BugOrdered(b) ==
    LET first(rt) == SelectInSeq(RoutesOf[b], LAMBDA r : r = rt)
    IN  SetToSortSeq(Range(RoutesOf[b]), LAMBDA x, y : first(x) < first(y))
Ordered(b) == SetToSortSeq(Range(RoutesOf[b]), <)

LockNext(b) ==
    /\ binder[b] \in {"idle", "locking"} /\ PolicyOf[b] \in opened
    /\ \E i \in DOMAIN Ordered(b) :
          /\ \A j \in 1..(i - 1) : lock[Ordered(b)[j]] = b
          /\ lock[Ordered(b)[i]] = None
          /\ lock' = [lock EXCEPT ![Ordered(b)[i]] = b]
    /\ binder' = [binder EXCEPT ![b] = "locking"]
    /\ UNCHANGED <<site, dir, removals, opened, binding, callVars, workVars>>

\* PolicyState::check
Verdict(rt, h) ==
    IF binding[rt].started THEN "AlreadyStarted"
    ELSE IF binding[rt].policy \notin {None, h} THEN "ConflictingPolicy" ELSE "ok"

\* Every runtime is checked before any is bound.
BugBindable(b, rt) == Verdict(rt, PolicyOf[b]) = "ok"
Bindable(b, rt) == \A r \in Range(RoutesOf[b]) : Verdict(r, PolicyOf[b]) = "ok"

BindAll(b) ==
    LET mine == Range(RoutesOf[b])
    IN  /\ binder[b] = "locking" /\ \A rt \in mine : lock[rt] = b
        /\ binding' = [rt \in Runtimes |-> IF rt \in mine /\ Bindable(b, rt)
                                             THEN [binding[rt] EXCEPT !.policy = PolicyOf[b]]
                                             ELSE binding[rt]]
        /\ binder' = [binder EXCEPT ![b] = IF \A rt \in mine : Verdict(rt, PolicyOf[b]) = "ok"
                                             THEN "bound" ELSE "refused"]
        /\ lock' = [rt \in Runtimes |-> IF rt \in mine THEN None ELSE lock[rt]]
        /\ UNCHANGED <<site, dir, removals, opened, callVars, workVars>>

\* PolicyState::start: a root that does not exist has no policy, and keeps no
\* trace of the start.
BugStarted(rt) == [policy |-> binding[rt].policy, started |-> FALSE]
Started(rt) == IF dir.kind = "missing" THEN binding[rt] ELSE [binding[rt] EXCEPT !.started = TRUE]
Governs(rt) == IF dir.kind = "missing" THEN None ELSE binding[rt].policy

Start(rt) ==
    /\ lock[rt] = None
    /\ binding' = [binding EXCEPT ![rt] = Started(rt)]
    /\ UNCHANGED <<opened, lock, binder>>

-----------------------------------------------------------------------------
(* A call of StaticRuntime::render.                                        *)

\* static_path: empty segments are skipped, a trailing slash asks for the
\* index, and segments that could leave the root or hide in it are refused.
\* (Every file name ends in .html.)
Blank == [text |-> "", ascii |-> "lower", other |-> "lower"]
Index == [Blank EXCEPT !.text = "index"]
Unsafe == {".", "..", ".hidden", "nul", "a/b", "a\\b", "undecodable"}

StaticPath(path) ==
    IF \E i \in DOMAIN path : path[i].text \in Unsafe THEN None
    ELSE IF path = <<>> \/ Last(path) = Blank THEN Index ELSE Last(path)

Goto(c, point) == pc' = [pc EXCEPT ![c] = point]
Return(c, what) == Goto(c, "done") /\ answer' = [answer EXCEPT ![c] = what]

\* The file system's lookup of the requested spelling.
Exists(name) == dir.kind = "dir" /\ Selected(dir, name) # {}

\* The handler and its first read: a file that is there is served.
Request(c) ==
    /\ c \in Pages /\ pc[c] = "new"
    /\ \E path \in PathsOf[c] :
          LET name == StaticPath(path)
          IN  /\ target' = [target EXCEPT ![c] = name]
              /\ \/ name = None /\ Return(c, "no page")
                 \/ name # None /\ Exists(name) /\ Return(c, "file")
                 \/ name # None /\ ~Exists(name) /\ Goto(c, "rendering") /\ UNCHANGED answer
    /\ UNCHANGED <<site, dir, removals, policyVars, policy, look, managed, workVars>>

\* The generator's closure starts the runtime, and knows then whether its
\* renders are admitted one at a time; each render starts it again.
Generate ==
    \E rt \in {RuntimeOf[c] : c \in Range(Jobs)} :
        /\ managed = None
        /\ Start(rt)
        /\ managed' = (Governs(rt) # None)
        /\ UNCHANGED <<site, dir, removals, pc, target, policy, look, answer, workVars>>

Job(i) ==
    LET c == Jobs[i]
    IN  /\ managed # None /\ pc[c] = "new"
        /\ managed => \A j \in 1..(i - 1) : pc[Jobs[j]] = "done"
        /\ \E path \in PathsOf[c] : target' = [target EXCEPT ![c] = StaticPath(path)]
        /\ Goto(c, "rendering")
        /\ UNCHANGED <<site, dir, removals, policyVars, policy, look, managed, answer, workVars>>

\* The error of a refusal is told apart by is_admission.
Refused(c) == Return(c, "capacity")

\* start, the waiter permit of its policy, then the path.
Admit(c) ==
    /\ pc[c] = "rendering"
    /\ Start(RuntimeOf[c])
    /\ policy' = [policy EXCEPT ![c] = Governs(RuntimeOf[c])]
    /\ \/ policy'[c] # None /\ Refused(c)
       \/ IF target[c] = None THEN Return(c, "failure") ELSE Goto(c, "lookup") /\ UNCHANGED answer
    /\ UNCHANGED <<site, dir, removals, target, look, managed, workVars>>

\* static_work_key, on a blocking thread.
Namespace == <<dir>> \o site.above
LookUp(c) ==
    /\ pc[c] = "lookup"
    /\ look' = [look EXCEPT ![c] =
          LET rule == CaseRule(Namespace)
          IN  [rule |-> rule,
               stored |-> IF Exists(target[c]) THEN StoredName(dir, target[c], rule) ELSE target[c]]]
    /\ Goto(c, "joining")
    /\ UNCHANGED <<site, dir, removals, policyVars, target, policy, managed, answer, workVars>>

\* The registry, then the work's state: a work that has no render slot turns
\* the call away with the error of the call's own policy, which the code
\* expects to be there.
Register(c) ==
    /\ pc[c] = "joining"
    /\ Work!Begin(c)
    /\ UNCHANGED <<site, dir, removals, policyVars, callVars, templates, watching>>

Join(c) ==
    /\ pc[c] = "joining"
    /\ \E w \in Calls :
          \/ /\ Work!Accept(c, w)
             /\ templates' = [templates EXCEPT ![w] = @ \cup {c}]
             /\ Goto(c, "waiting") /\ UNCHANGED answer
          \/ /\ generation[w] = "refusing" /\ Work!SharesKey(c, w)
             /\ IF policy[c] = None THEN Return(c, "panic") ELSE Refused(c)
             /\ UNCHANGED <<templates, generation, accepted, reply>>
    /\ UNCHANGED <<site, dir, removals, policyVars, target, policy, look, managed, watching>>

\* The answer; a page then opens what was published.
TakeReply(c) ==
    /\ pc[c] = "waiting" /\ reply[c] # None
    /\ Work!Leave(c)
    /\ IF c \in Pages /\ reply[c] = "published" THEN Goto(c, "reopening") /\ UNCHANGED answer
       ELSE Return(c, reply[c])
    /\ UNCHANGED <<site, dir, removals, policyVars, target, policy, look, managed, templates, watching>>

Reopen(c) ==
    /\ pc[c] = "reopening"
    /\ Return(c, IF Exists(target[c]) THEN "file" ELSE "lost")
    /\ UNCHANGED <<site, dir, removals, policyVars, target, policy, look, managed, workVars>>

\* The client goes away while the handler awaits.
Disconnect(c) ==
    /\ c \in Pages /\ pc[c] \in {"rendering", "lookup", "waiting", "reopening"}
    /\ Return(c, "dropped")
    /\ IF accepted[c] # None THEN Work!Leave(c) ELSE UNCHANGED <<generation, accepted, reply>>
    /\ UNCHANGED <<site, dir, removals, policyVars, target, policy, look, managed, templates, watching>>

-----------------------------------------------------------------------------
(* Generations, by their outcomes (StaticWork, Publication).               *)

\* The task is spawned by the call that registered it, once it waits.
Spawned(w) == Work!UnderWay(w) /\ pc[w] # "joining"

\* Without subscriptions the first answer is the last; no refusal installs them.
AnswerOrEnd(w, r) ==
    \/ Work!End(w, r) /\ watching' = watching \ {w}
    \/ /\ w \in watching \/ r # "capacity"
       /\ Work!Answer(w, r) /\ watching' = watching \cup {w}

\* A publication under a policy the process did not bind is refused
\* (StorageAccounting); one that succeeds replaces the entry, and the file
\* system keeps the old spelling or adopts the new one.
MayPublish(w) == policy[w] # None \/ opened = {}
Put(d, old, name) == [d EXCEPT !.entries = (@ \ old) \cup {[name |-> name, id |-> name, dir |-> FALSE]}]

Publish(w) ==
    /\ Spawned(w) /\ MayPublish(w)
    /\ \E c \in templates[w] :
          LET old == Selected(dir, target[c])
          IN  \E name \in {target[c]} \cup {e.name : e \in old} : dir' = Put(Created(dir), old, name)
    /\ AnswerOrEnd(w, "published")
    /\ UNCHANGED <<site, removals, policyVars, callVars, templates>>

\* An error status is answered as rendered; a render or publication may fail,
\* and under a policy the storage or the first slot may be refused.
Fail(w) ==
    /\ Spawned(w)
    /\ \E r \in {"failure"} \cup (IF policy[w] # None THEN {"capacity"} ELSE {}) : AnswerOrEnd(w, r)
    /\ UNCHANGED <<site, dir, removals, policyVars, callVars, templates>>

\* A regeneration event finds no slot: the work waits for one.
RefuseWaiters(w) ==
    /\ w \in watching /\ policy[w] # None
    /\ Work!Refuse(w)
    /\ UNCHANGED <<site, dir, removals, policyVars, callVars, templates, watching>>

SlotFreed(w) ==
    /\ Work!Reopen(w)
    /\ UNCHANGED <<site, dir, removals, policyVars, callVars, templates, watching>>

\* Somebody deletes a file.
Delete ==
    /\ removals < site.deletions /\ removals' = removals + 1
    /\ \E e \in dir.entries : dir' = [dir EXCEPT !.entries = @ \ {e}]
    /\ UNCHANGED <<site, policyVars, callVars, workVars>>

-----------------------------------------------------------------------------
CallStep(c) ==
    Request(c) \/ Admit(c) \/ LookUp(c) \/ Register(c) \/ Join(c) \/ TakeReply(c) \/ Reopen(c)

Next ==
    \/ \E h \in Handles : OpenPolicy(h)
    \/ \E b \in Binders : LockNext(b) \/ BindAll(b)
    \/ Generate \/ \E i \in DOMAIN Jobs : Job(i)
    \/ \E c \in Calls : CallStep(c) \/ Disconnect(c)
    \/ \E w \in Calls : Publish(w) \/ Fail(w) \/ RefuseWaiters(w) \/ SlotFreed(w)
    \/ Delete

\* The process does not stand still while a thread or a task of it can run; a
\* generation that somebody waits for comes to a result, whatever it is
\* (StaticWork, CallsReturn).  Who runs first is left open.
Awaited(w) == \E c \in Calls : accepted[c] = w /\ reply[c] = None
Progress ==
    \/ \E c \in Calls : CallStep(c) \/ (Awaited(c) /\ (Publish(c) \/ Fail(c)))
    \/ \E i \in DOMAIN Jobs : Job(i)
    \/ \E b \in Binders : LockNext(b) \/ BindAll(b)

Spec == Init /\ [][Next]_vars /\ WF_vars(Progress)

-----------------------------------------------------------------------------
\* "only managed work waits for capacity": whoever finds a work that waits for
\* a render slot has a policy to tell its error by, although it read its
\* policy long before it found the work.
OnlyManagedWorkWaits == \A c \in Calls : answer[c] # "panic"

\* configure_routes binds every runtime or changes none, whatever else binds or
\* starts in between; and a policy that was bound is the one every call that
\* starts afterwards runs under.
BindsAllOrNone ==
    /\ \A b \in Binders : \A rt \in Range(RoutesOf[b]) :
          /\ binder[b] = "bound" => binding[rt].policy = PolicyOf[b]
          /\ (binder[b] = "refused" /\ binding[rt].policy = PolicyOf[b]) =>
                \E o \in Binders \ {b} : binder[o] = "bound" /\ PolicyOf[o] = PolicyOf[b]
    /\ \A b \in Binders, c \in Calls :
          (binder[b] = "bound" /\ RuntimeOf[c] \in Range(RoutesOf[b]) /\ pc[c] \in {"lookup", "joining", "waiting"})
              => policy[c] = PolicyOf[b]

\* A page whose generation was answered with a publication finds its file,
\* unless somebody deleted one: nobody is handed the result of a generation
\* that published another entry.
PublishedIsFound == \A c \in Calls : answer[c] = "lost" => removals > 0

\* Two generations of a runtime never write one directory entry at a time.
\* Excepted is what a lookup cannot see: spellings that differ in a directory
\* whose rule it could not observe, and spellings that differ in letters only
\* the file system folds while the entry was missing or was respelled in
\* between.  Calls that ask for one spelling meet, unless it has capitals and
\* one of them looked before the directory's rule could be observed, the other
\* after: the first entry an empty volume gets shows the rule.
OneWriterPerEntry ==
    \A v, w \in Calls :
        /\ v # w /\ Work!UnderWay(v) /\ Work!UnderWay(w)
        /\ RuntimeOf[v] = RuntimeOf[w] /\ SameName(dir, target[v], target[w])
        => /\ target[v] = target[w] => /\ {look[v].rule, look[w].rule} = {"Unknown", "Folds"}
                                       /\ target[v] # Lowered(target[v])
           /\ \/ look[v].rule # "Folds" \/ look[w].rule # "Folds"
              \/ /\ target[v].other # target[w].other
                 /\ Lowered(look[v].stored) # Lowered(look[w].stored)

\* Every request and every binding returns, and a generator that has started
\* gets an answer to each of its calls: no two bindings wait for each other's
\* locks, no call for a generation that has gone.
EveryoneReturns ==
    /\ \A c \in Pages : (pc[c] # "new") ~> (pc[c] = "done")
    /\ (managed # None) ~> (\A i \in DOMAIN Jobs : pc[Jobs[i]] = "done")
    /\ \A b \in Binders : (binder[b] = "locking") ~> (binder[b] \in {"bound", "refused"})
=============================================================================
