--------------------------------- MODULE Site ---------------------------------
(***************************************************************************)
(* An application as it is mounted and serves a request: the executor is   *)
(* installed, the route list is generated and registered, the router gives *)
(* the request to a server function, a rendered route or the file handler, *)
(* and that handler runs (Dispatch, FileService).  Static pages are the    *)
(* subject of StaticServing.                                               *)
(***************************************************************************)
EXTENDS Dispatch, RouteTable

CONSTANTS
    Sites,          \* declared routes, server functions, exclusions, registration
    Urls,           \* requests: paths and methods
    \* of FileService
    Assets, PathsOf, Releases, PlainFields, Negotiating, Conditional, MaxChanges

\* A site that has been deployed has a release.
ASSUME ReleasesAssumption == Releases # {}

\* The fields of requests, as FileResponse writes them; plain ones name no
\* coding.
ASSUME FieldsAssumption ==
    /\ \A f \in PlainFields \cup Negotiating \cup Conditional : f.conditions \in
          [method : STRING,
           ifMatch : Seq(SUBSET {"same", "weak", "other", "any"}),
           ifNoneMatch : Seq(SUBSET {"same", "weak", "other", "any"}),
           unmodified : {"none", "before", "equal", "after"},
           modified : {"none", "before", "equal", "after"},
           range : {"none", "within", "beyond", "items", "garbled"},
           ifRange : {"none", "same", "weak", "other", "before", "equal", "after"}]
    /\ \A f \in PlainFields : f.items = <<>>
    /\ None \notin 0..2

\* Applications are finite, and their routes are those of leptos_router.
ASSUME SitesAssumption ==
    \A s \in Sites :
        /\ s.routes \in Seq([segments : Seq([kind : {"static", "param", "optional", "splat", "unit"},
                                             names : Seq(STRING)]),
                             mode : STRING, methods : SUBSET STRING])
        /\ \A i \in DOMAIN s.routes : IsFiniteSet(s.routes[i].methods)
        /\ IsFiniteSet(s.functions) /\ IsFiniteSet(s.excluded)

VARIABLES
    site,           \* the application and the request to be routed, then None
    service, link, cache, tree, siblings, changes, still, asset, sent,
    installed, known, once, verdicts

Files == INSTANCE FileService
Executor == INSTANCE ExecutorInit

fileVars == <<service, link, cache, tree, siblings, changes, still, asset, sent>>
executorVars == <<installed, known, once, verdicts>>
siteVars == <<vars, site, fileVars, executorVars>>

\* The application's own routes come after those of the crate: handlers for
\* the excluded paths, the catch-all of server functions and the file handler.
OwnRoutes(s) ==
    SetToSeq({Route(p, {"GET", "HEAD", "POST"}, "own") : p \in s.excluded})
        \o <<Route(<<[kind |-> "text", name |-> "api"], [kind |-> "tail", name |-> "fn"]>>,
                   {"GET", "POST"}, "catchall"),
             Route(<<[kind |-> "tail", name |-> "tail"]>>, {"GET", "HEAD"}, "file")>>

Registered(s) ==
    LET listings == GenerateRouteList(s.routes, s.excluded)
    IN  IF s.app THEN AppRoutes(listings, s.functions) ELSE ServiceConfigRoutes(listings, s.functions)

HandlerFor(s) == Dispatched(Registered(s) \o OwnRoutes(s), s.url, s.method)

\* Route list generation and every handler factory install the executor.
Mounted == Executor!EnsureExecutorInitialized

SiteInit ==
    /\ Start("unrouted", None)
    /\ \E s \in Sites, u \in Urls :
          site = [routes |-> s.routes, functions |-> s.functions, excluded |-> s.excluded,
                  app |-> s.app, url |-> u.url, method |-> u.method]
    /\ Files!FileInit
    /\ Executor!ExecutorInit

\* The request reaches its handler.  (Which executor runs its tasks makes no
\* difference below: one is enough.)
Dispatchable(kind) == CASE kind = "function" -> "specific" [] OTHER -> kind
RouteRequest ==
    /\ site # None /\ once /\ verdicts = {"ok"} /\ site' = None
    /\ route' = Dispatchable(HandlerFor(site))
    /\ pc' = IF route' \in RouteKinds THEN "arrived" ELSE "over"
    /\ final' = IF route' = "nobody" THEN Plain(404) ELSE IF route' = "unsupported" THEN Plain(500) ELSE None
    /\ UNCHANGED <<entries, latest, served, bodyVars, handshake, options, intent, scope,
                   ownerVars, terminated, fileVars, executorVars>>

\* Only what belongs to the mounted handler goes on.
SiteNext ==
    \/ RouteRequest
    \/ site # None /\ Mounted /\ UNCHANGED <<vars, site, fileVars>>
    \/ site # None /\ (Executor!InstallForeign \/ Executor!TryInitExecutor)
                   /\ UNCHANGED <<vars, site, fileVars>>
    \/ site = None /\ Next /\ UNCHANGED <<site, fileVars, executorVars>>
    \/ site = None /\ route = "file" /\ Files!FileNext /\ UNCHANGED <<vars, site, executorVars>>

\* As in Dispatch: bodies, dispatches and tasks are dropped in the end.
Dropped(A) == site = None /\ A /\ UNCHANGED <<site, fileVars, executorVars>>
SiteFairness ==
    \A w \in Works : /\ WF_siteVars(Dropped(Release(w)))
                     /\ WF_siteVars(Dropped(\E b \in BOOLEAN : DropWork(w, b)))

SiteSpec == SiteInit /\ [][SiteNext]_siteVars /\ SiteFairness

-----------------------------------------------------------------------------
\* Every declared route that is not excluded, with each of its optional
\* parameters given or not, is answered by the crate, HEAD like GET, and so is
\* "/" of an application without routes; what is excluded is left to the
\* application, be it a route, that "/" or a server function, unless a broader
\* pattern of the crate takes it.
Declared(s) ==
    IF s.routes = <<>> THEN {[path |-> <<>>, methods |-> {"GET"}]}
    ELSE UNION {{[path |-> ToNtexPath(p), methods |-> s.routes[i].methods]
                    : p \in ExpandOptionals(s.routes[i].segments)} : i \in DOMAIN s.routes}
Serves(d, s) == /\ d.path \notin s.excluded /\ Matches(d.path, s.url)
                /\ s.method \in UNION {Guard(m) : m \in d.methods}

RoutesReachTheirHandlers ==
    site # None =>
        LET crate == \/ \E d \in Declared(site) : Serves(d, site)
                     \/ \E f \in site.functions :
                           f.path \notin site.excluded /\ Matches(f.path, site.url) /\ f.method = site.method
        IN  crate <=> HandlerFor(site) \in {"function", "render", "static", "unsupported"}

\* Whatever deployments do between the check of a path and the opening of its
\* file, a regular file of the one root is served (FileService).
ServedFromOneRoot == Files!ServedFromOneRoot

\* Coding, conditions and ranges of files are answered as RFC 9110 orders them
\* (FileService).
ResponsesConform == Files!ResponsesConform

\* try_init_executor tells the truth about whose executor is installed, also when
\* another one was first or came in between (ExecutorInit).
VerdictsAreTrue == Executor!VerdictsAreTrue
=============================================================================
