------------------------------- MODULE Dispatch -------------------------------
(***************************************************************************)
(* One request to a server function (src/server_fn) or a rendered route    *)
(* (src/render.rs, src/response.rs), from its arrival to the end of the    *)
(* response body and of the tasks it spawned.                              *)
(*                                                                         *)
(* Three things meet here: which response is sent (limits, handshake       *)
(* failures, redirects, the application's overrides), how much of the      *)
(* request body is read, and who keeps the request's reactive Owner alive  *)
(* (src/owner.rs).  Requests share only the registry of server functions,  *)
(* so one request beside the registrations is enough.                      *)
(***************************************************************************)
EXTENDS Integers, Sequences, FiniteSets, SequencesExt

CONSTANTS
    Methods,        \* HTTP methods
    Functions,      \* server functions registered at the request's path
    Limit,          \* payload_limit
    Chunks,         \* sizes of the chunks of a body
    None

ASSUME ConstantsAssumption ==
    /\ Limit \in Nat /\ Chunks \subseteq Nat \ {0}
    /\ None \notin Methods \cup Functions

VARIABLES
    entries, latest,            \* the registry's Vec for the path; last function registered
    pc, route, served,          \* control point, kind of route, function found
    seen, tooLarge, handshake,  \* body bytes read, PayloadTooLarge, HandshakeFailure
    options,                    \* ResponseOptions
    intent, final,              \* what the function meant to answer, and what was sent
    scope,                      \* ConnectionScope: idle, pump, cancelled
    owner, refs, work, away,    \* the Owner, its Arcs, what runs under it, drops off-thread
    terminated                  \* io.terminate() was called

bodyVars == <<seen, tooLarge>>
sentVars == <<intent, final>>
ownerVars == <<owner, refs, work, away>>
vars == <<entries, latest, pc, route, served, bodyVars, handshake, options,
          sentVars, scope, ownerVars, terminated>>

Names == {"cookie", "type", "cache"}
NoOptions == [status |-> 0, location |-> "none", headers |-> [h \in Names |-> <<>>]]

\* A request at a control point, for a kind of route.
Start(point, kind) ==
    /\ entries = <<>> /\ latest = [m \in Methods |-> None]
    /\ pc = point /\ route = kind /\ served = None
    /\ seen = 0 /\ tooLarge = FALSE /\ handshake = 0
    /\ options = NoOptions /\ intent = None /\ final = None
    /\ scope = "idle" /\ owner = "none" /\ refs = {} /\ work = {} /\ away = {}
    /\ terminated = FALSE

RouteKinds == {"catchall", "specific", "render"}
Init == \E kind \in RouteKinds : Start("arrived", kind)

\* Definitions whose name starts with Bug are faulty variants of the definition
\* that follows; they are used only to check that the properties can fail.

-----------------------------------------------------------------------------
(* The registry.                                                           *)

SlotsOf(m) == {i \in DOMAIN entries : entries[i].method = m}
Slot(m) == Min(SlotsOf(m))

\* upsert: one slot per method, the last registration wins.
BugUpsert(m, f) == Append(entries, [method |-> m, fn |-> f])
Upsert(m, f) ==
    IF SlotsOf(m) = {} THEN Append(entries, [method |-> m, fn |-> f])
    ELSE [entries EXCEPT ![Slot(m)].fn = f]

\* The inventory pass and register_explicit; what is registered once the request
\* has its function does not concern it.
Register(m, f) ==
    /\ pc \in {"arrived", "drain"}
    /\ entries' = Upsert(m, f)
    /\ latest' = [latest EXCEPT ![m] = f]
    /\ UNCHANGED <<pc, route, served, bodyVars, handshake, options, sentVars, scope,
                   ownerVars, terminated>>

\* lookup_server_fn
Lookup(m) == IF SlotsOf(m) = {} THEN None ELSE entries[Slot(m)].fn

-----------------------------------------------------------------------------
(* Before dispatch.                                                        *)

\* A response that needs no Owner: adapter errors before any context exists.
Plain(status) == [NoOptions EXCEPT !.status = status]

Refuse(status) == pc' = "over" /\ final' = Plain(status)

Found(m) == [fn |-> Lookup(m), latest |-> latest[m]]

\* A route of its own for a registered function: found when it is mounted.
Mount(m) ==
    /\ pc = "arrived" /\ route = "specific" /\ served = None /\ Lookup(m) # None
    /\ served' = Found(m)
    /\ UNCHANGED <<entries, latest, pc, route, bodyVars, handshake, options, sentVars, scope,
                   ownerVars, terminated>>

\* content_length_exceeds: a declaration that is no number counts as one beyond
\* the limit, none at all does not.
ContentLengthExceeds(declared) == declared \in {"beyond", "malformed"}

\* The route's handler: a declared body beyond the limit is refused unread; then
\* the catch-all looks the function up.
Arrive(m, declared) ==
    /\ pc = "arrived" /\ route # "render"
    /\ route = "specific" => served # None
    /\ IF ContentLengthExceeds(declared)
         THEN Refuse(413) /\ UNCHANGED served
         ELSE /\ served' = IF route = "specific" THEN served ELSE Found(m)
              /\ pc' = IF served'.fn # None THEN "setup" ELSE "drain"
              /\ UNCHANGED final
    /\ UNCHANGED <<entries, latest, route, bodyVars, handshake, options, intent,
                   scope, ownerVars, terminated>>

\* Nobody will read the body: drain_payload consumes it up to the limit, then
\* 405 names the methods of the path, or 400 says that there is none.
Drain(n) ==
    /\ pc = "drain" /\ seen <= Limit
    /\ seen' = seen + n
    /\ UNCHANGED <<entries, latest, pc, route, served, tooLarge, handshake, options,
                   sentVars, scope, ownerVars, terminated>>

Drained ==
    /\ pc = "drain"
    /\ Refuse(IF entries = <<>> THEN 400 ELSE 405)
    /\ UNCHANGED <<entries, latest, route, served, bodyVars, handshake, options, intent,
                   scope, ownerVars, terminated>>

\* Outside a request scope the request is answered with 500; otherwise the
\* cleanup of a new Owner is armed before anything is awaited.
Setup(scoped) ==
    /\ pc = "setup" \/ (pc = "arrived" /\ route = "render")
    /\ IF scoped THEN /\ pc' = "run" /\ owner' = "armed"
                      /\ refs' = {"dispatch"} /\ work' = {"service"}
                      /\ UNCHANGED <<final, away>>
       ELSE Refuse(500) /\ UNCHANGED ownerVars
    /\ UNCHANGED <<entries, latest, route, served, bodyVars, handshake, options, intent,
                   scope, terminated>>

-----------------------------------------------------------------------------
(* While the service runs.                                                 *)

\* A chunk of the body: beyond the limit the request is marked and nothing
\* more is read.
Beyond(n) == seen + n > Limit
Consume(n) == IF Beyond(n) THEN tooLarge' = TRUE /\ UNCHANGED seen
              ELSE seen' = seen + n /\ UNCHANGED tooLarge

\* try_into_bytes and try_into_string collect, try_into_stream hands chunks on;
\* the function may give up at any chunk, as it does when the payload fails.
ReadChunk(n) ==
    /\ pc = "run" /\ route # "render" /\ scope = "idle" /\ ~tooLarge /\ handshake = 0
    /\ Consume(n)
    /\ UNCHANGED <<entries, latest, pc, route, served, handshake, options, sentVars, scope,
                   ownerVars, terminated>>

\* The application's overrides; redirect() is one of them.
Override(o) ==
    /\ pc = "run" /\ options = NoOptions
    /\ options' = o
    /\ UNCHANGED <<entries, latest, pc, route, served, bodyVars, handshake, sentVars, scope,
                   ownerVars, terminated>>

\* verify_handshake: the first check that fails names the error.  A header is
\* the sequence of its fields; protocols are fields of comma-separated offers.
Checks(h) ==
    LET offers == SelectSeq(FlattenSeq(h.protocols), LAMBDA p : p # "")
        fails(condition, error) == [fails |-> condition, error |-> error]
    IN  <<fails(~h.get, "GetMethodRequired"),
          fails(~h.upgrade, "NoWebsocketUpgrade"),
          fails(~h.connection, "NoConnectionUpgrade"),
          fails(h.versions = <<>>, "NoVersionHeader"),
          fails(Len(h.versions) > 1 \/ ~(Range(h.versions) \subseteq {"13", "8", "7"}), "UnsupportedVersion"),
          fails(h.keys # <<"nonce">>, "BadWebsocketKey"),
          fails(h.protocols # <<>> /\ (\/ offers = <<>> \/ ~IsInjective(offers)
                                       \/ "no token" \in Range(offers)), "NoWebsocketUpgrade")>>
VerifyHandshake(h) ==
    LET failed == SelectSeq(Checks(h), LAMBDA c : c.fails)
    IN  IF failed = <<>> THEN "ok" ELSE Head(failed).error

Proper == [get |-> TRUE, upgrade |-> TRUE, connection |-> TRUE, versions |-> <<"13">>,
           keys |-> <<"nonce">>, protocols |-> <<>>]
Handshakes ==
    {Proper, [Proper EXCEPT !.get = FALSE, !.keys = <<>>], [Proper EXCEPT !.upgrade = FALSE],
     [Proper EXCEPT !.connection = FALSE], [Proper EXCEPT !.versions = <<>>],
     [Proper EXCEPT !.versions = <<"13", "13">>], [Proper EXCEPT !.keys = <<"short">>]}
    \cup {[Proper EXCEPT !.protocols = p] : p \in {<<<<"a", "">>, <<"b">>>>, <<<<"a">>, <<"a">>>>,
                                                  <<<<"">>>>, <<<<"no token">>>>}}

\* try_into_websocket: the pump takes the sender of the ConnectionScope, or
\* the failed handshake is kept in the request's extensions, by its status.
\* (A transport that is gone fails it too.)
FailureStatus(error) == IF error = "GetMethodRequired" THEN 405 ELSE 400
StartPump == scope' = "pump" /\ UNCHANGED handshake
FailHandshake(error) == handshake' = FailureStatus(error) /\ UNCHANGED scope

Upgrade(h, io) ==
    /\ pc = "run" /\ route # "render" /\ scope = "idle" /\ seen = 0 /\ ~tooLarge /\ handshake = 0
    /\ LET error == IF VerifyHandshake(h) = "ok" /\ ~io THEN "NoWebsocketUpgrade" ELSE VerifyHandshake(h)
       IN  IF error = "ok" THEN StartPump ELSE FailHandshake(error)
    /\ UNCHANGED <<entries, latest, pc, route, served, bodyVars, options, sentVars,
                   ownerVars, terminated>>

PumpEnds ==
    /\ scope = "pump" /\ scope' = "cancelled"
    /\ UNCHANGED <<entries, latest, pc, route, served, bodyVars, handshake, options, sentVars,
                   ownerVars, terminated>>

\* NtexServerFnBackend::spawn upgrades the weak reference of the context, so
\* that the task holds the Owner after dispatch has returned.  (In a rendered
\* route there is no such reference and the task has no request Owner.)
BugTaskHolds == {}
TaskHolds == IF refs # {} THEN {"task"} ELSE {}

Spawn ==
    /\ route # "render" /\ "task" \notin work /\ work \cap {"service", "producer"} # {}
    /\ work' = work \cup {"task"} /\ refs' = refs \cup TaskHolds
    /\ UNCHANGED <<entries, latest, pc, route, served, bodyVars, handshake, options, sentVars,
                   scope, owner, away, terminated>>

-----------------------------------------------------------------------------
(* The response.                                                           *)

\* A Location or Referer: its origin, and whether a Location is the request's
\* Referer again (server_fn may have added a bare question mark).
Echo(referer) == IF referer = "none" THEN "self" ELSE IF referer = "self" THEN "self echo" ELSE "other echo"
SameOrigin(location) == location \in {"self", "self echo"}
IsEcho(location) == location \in {"self echo", "other echo"}

\* server_fn's own response: with an Accept that contains text/html it
\* redirects to the Referer, on an error with the error in its query.  A
\* middleware may answer instead with anything.
Accepts == {"none", "html", "html;q=0"}
Referers == {"none", "self", "other"}
Raw(accept, referer) ==
    {[status |-> IF accept # "none" THEN 302 ELSE IF e THEN 500 ELSE 200, error |-> e,
      location |-> IF accept = "none" THEN "none"
                   ELSE IF ~e THEN Echo(referer) ELSE IF referer = "other" THEN "other" ELSE "self"]
     : e \in BOOLEAN}
    \cup [status : {200, 302}, error : {FALSE}, location : {"none", "self", "other", Echo(referer)}]

\* reset_status_after_redirect_strip
BugStripped(r) == [r EXCEPT !.location = "none", !.status = IF @ = 302 THEN 200 ELSE @]
Stripped(r) ==
    [r EXCEPT !.location = "none",
              !.status = IF @ # 302 THEN @ ELSE IF r.error THEN 500 ELSE 200]

\* The redirect of an HTML form: the echoed Referer, or a successful response
\* without a Location, goes to the Referer if that is on the same origin.
FormRedirect(r, accept, referer) ==
    IF accept # "html" THEN r
    ELSE IF IsEcho(r.location) /\ referer # "none"
      THEN IF referer = "self" THEN [r EXCEPT !.status = 302, !.location = "self"] ELSE Stripped(r)
    ELSE IF r.status = 200 /\ r.location = "none" /\ referer = "self"
      THEN [r EXCEPT !.status = 302, !.location = "self"]
    ELSE r

\* The same-origin invariant, for whatever Location is left.
Guarded(r) == IF r.location # "none" /\ ~SameOrigin(r.location) THEN Stripped(r) ELSE r

\* extend_response_parts: header_merge for a field that appends, one that keeps
\* the last value and a list that replaces.  A header is the sequence of whose
\* values it carries, the framework's or the application's.
Merge(own, o) ==
    [h \in Names |->
        IF o.headers[h] = <<>> THEN own[h]
        ELSE CASE h = "cookie" -> own[h] \o o.headers[h]
               [] h = "type" -> <<Last(o.headers[h])>>
               [] h = "cache" -> o.headers[h]]

Extend(r, own, o) ==
    [status |-> IF o.status # 0 THEN o.status ELSE r.status,
     location |-> IF o.location # "none" THEN o.location ELSE r.location,
     headers |-> Merge(own, o)]

Framework == [h \in Names |-> <<"own">>]
AdapterError == [NoOptions.headers EXCEPT !["type"] = <<"own">>]

\* finalize_error_response: the adapter's error keeps its status and its
\* representation; the application's other headers survive.
ErrorParts(o) == [o EXCEPT !.status = 0, !.headers["type"] = <<>>]

BugRefused(status, o) == Extend(Plain(status), AdapterError, o)
Refused(status, o) == Extend(Plain(status), AdapterError, ErrorParts(o))

\* The dispatch future is done: its Arc moves into the lease of the body.
BugHandOver == refs \cup {"lease"}
HandOver == (refs \ {"dispatch"}) \cup {"lease"}

Respond(response) ==
    /\ final' = response /\ options' = NoOptions
    /\ pc' = "body"
    /\ refs' = HandOver /\ work' = (work \ {"service"}) \cup {"producer"}
    /\ UNCHANGED <<entries, latest, route, served, bodyVars, handshake, scope, owner, away,
                   terminated>>

Finish(accept, referer, r) ==
    /\ pc = "run" /\ route # "render" /\ scope # "cancelled"
    /\ intent' = [error |-> r.error, options |-> options, tooLarge |-> tooLarge]
    /\ Respond(IF tooLarge THEN Refused(413, options)
               ELSE IF handshake # 0 THEN Refused(handshake, options)
               ELSE Extend(Guarded(FormRedirect(r, accept, referer)), Framework, options))

\* The connection is gone while the function still runs.
RunCancelled ==
    /\ pc = "run" /\ scope = "cancelled"
    /\ Respond(Plain(200)) /\ UNCHANGED intent

\* from_app: the first chunk is there, status and headers are taken.
FirstChunk ==
    /\ pc = "run" /\ route = "render"
    /\ intent' = [error |-> FALSE, options |-> options, tooLarge |-> FALSE]
    /\ Respond(Extend(Plain(200), Framework, options))

\* The body goes on reading a streamed request: too late for a 413, an error
\* of the body ends an HTTP/1 connection.
BodyReads(n, http1) ==
    /\ pc = "body" /\ "producer" \in work /\ route # "render" /\ scope = "idle"
    /\ ~tooLarge /\ handshake = 0
    /\ Consume(n)
    /\ terminated' = (terminated \/ (tooLarge' /\ http1))
    /\ UNCHANGED <<entries, latest, pc, route, served, handshake, options, sentVars, scope,
                   ownerVars>>

-----------------------------------------------------------------------------
(* The end of what runs under the Owner.  Each holder drops its work first *)
(* and its Arc after it; a body or a stream may be dropped on any thread.  *)

Holder(w) == CASE w = "service" -> "dispatch" [] w = "producer" -> "lease" [] w = "task" -> "task"

DropWork(w, foreign) ==
    /\ w \in work
    /\ w # "producer" => ~foreign
    /\ work' = work \ {w}
    /\ away' = IF foreign THEN away \cup {Holder(w)} ELSE away
    /\ pc' = IF w = "service" THEN "over" ELSE pc
    /\ UNCHANGED <<entries, latest, route, served, bodyVars, handshake, options, sentVars, scope,
                   owner, refs, terminated>>

\* OwnerCleanup::drop of the last Arc.
Release(w) ==
    /\ Holder(w) \in refs /\ w \notin work
    /\ w = "service" => pc = "over"
    /\ refs' = refs \ {Holder(w)}
    /\ owner' = IF refs' # {} THEN owner ELSE IF Holder(w) \in away THEN "leaked" ELSE "cleaned"
    /\ UNCHANGED <<entries, latest, pc, route, served, bodyVars, handshake, options, sentVars, scope,
                   work, away, terminated>>

-----------------------------------------------------------------------------
Works == {"service", "producer", "task"}
Overrides == [status : {0, 201}, location : {"none", "other"},
              headers : {[h \in Names |-> v] : v \in {<<>>, <<"app", "app">>}}]

Next ==
    \/ \E m \in Methods, f \in Functions : Register(m, f)
    \/ \E m \in Methods : Mount(m)
    \/ \E m \in Methods, d \in {"within", "beyond", "malformed", "absent"} : Arrive(m, d)
    \/ \E n \in Chunks : Drain(n) \/ ReadChunk(n) \/ \E h \in BOOLEAN : BodyReads(n, h)
    \/ Drained \/ (\E b \in BOOLEAN : Setup(b) \/ \E h \in Handshakes : Upgrade(h, b)) \/ PumpEnds \/ Spawn
    \/ \E o \in Overrides : Override(o)
    \/ \E a \in Accepts, ref \in Referers : \E r \in Raw(a, ref) : Finish(a, ref, r)
    \/ RunCancelled \/ FirstChunk
    \/ \E w \in Works : Release(w) \/ \E b \in BOOLEAN : DropWork(w, b)

Spec == Init /\ [][Next]_vars

\* ntex drops a body when it is sent or its connection ends, and a dispatch
\* that does not end is dropped with its connection; spawned tasks end.
FairSpec == /\ Spec
            /\ \A w \in Works : WF_vars(Release(w)) /\ WF_vars(\E b \in BOOLEAN : DropWork(w, b))

-----------------------------------------------------------------------------
\* A request is served by the last function registered for its method when it
\* was looked up, and the path has one slot per method.
LastRegistrationServes ==
    /\ \A m \in Methods : Cardinality(SlotsOf(m)) <= 1
    /\ served # None => served.fn = served.latest

\* No response leaves the origin unless the application itself redirected: not
\* through an echoed Referer, an error URL, a middleware or an Accept the two
\* parsers read differently; and no failure of a function becomes a success
\* when its redirect is taken away.
RedirectsAreSafe ==
    intent # None =>
        /\ final.location \in {"other", "other echo"} => intent.options.location = "other"
        /\ intent.error /\ ~intent.tooLarge /\ handshake = 0 /\ intent.options.status = 0
              => final.status \in {500, 302} /\ (final.status = 302 => final.location # "none")

\* An overflow seen before the function returned is answered with 413, a failed
\* handshake with its own status, whatever the function and the application
\* made of it, with the error's representation and all of the application's
\* cookies; later or not, no more than the limit is handed over.
AdapterErrorsStand ==
    /\ refs # {} => seen <= Limit
    /\ intent # None /\ (intent.tooLarge \/ handshake # 0) =>
        /\ final.status = IF intent.tooLarge THEN 413 ELSE handshake
        /\ final.headers["type"] = <<"own">>
        /\ final.headers["cookie"] = intent.options.headers["cookie"]

\* The Owner is cleaned up only after the function, the body and the spawned
\* task have been dropped.
OwnerOutlivesWork == owner \in {"cleaned", "leaked"} => work = {}

\* Whoever goes last, and wherever, the Owner does not stay armed.
OwnerIsReleased == owner = "armed" ~> owner # "armed"
=============================================================================
