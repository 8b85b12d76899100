------------------------------ MODULE RouteTable ------------------------------
(***************************************************************************)
(* Route lists and their registration: which handler gets a request        *)
(* (src/routes.rs, generate_route_list_with_exclusions_and_ssg_and_context *)
(* and what it calls; src/leptos_routes.rs, both implementations of        *)
(* leptos_routes_with_context).                                            *)
(*                                                                         *)
(* A URL path is a sequence of names; "/" is the empty one.  A segment of  *)
(* a declared route has a kind and a sequence of names (one static text    *)
(* may hold several); a pattern is a sequence of elements that match one   *)
(* name, any one name ("param") or all that is left ("tail").              *)
(***************************************************************************)
EXTENDS Naturals, Sequences, FiniteSets, SequencesExt

\* NtexPath::to_ntex_path; an optional parameter that was not expanded counts
\* as a required one.
Elements(segment) ==
    CASE segment.kind = "static" ->
            [i \in DOMAIN segment.names |-> [kind |-> "text", name |-> segment.names[i]]]
      [] segment.kind \in {"param", "optional"} -> <<[kind |-> "param", name |-> segment.names[1]]>>
      [] segment.kind = "splat" -> <<[kind |-> "tail", name |-> segment.names[1]]>>
      [] segment.kind = "unit" -> <<>>
ToNtexPath(segments) == FlattenSeq([i \in DOMAIN segments |-> Elements(segments[i])])

\* leptos_router's ExpandOptionals: with and without each optional parameter.
Optionals(segments) == {i \in DOMAIN segments : segments[i].kind = "optional"}
ExpandOptionals(segments) ==
    {FlattenSeq([i \in DOMAIN segments |-> IF i \in dropped THEN <<>> ELSE <<segments[i]>>])
        : dropped \in SUBSET Optionals(segments)}

Listing(path, mode, methods, exclude) ==
    [path |-> path, mode |-> mode, methods |-> methods, exclude |-> exclude]

\* IntoRouteListing::into_route_listing
IntoRouteListing(route) ==
    SetToSeq({Listing(ToNtexPath(p), route.mode, route.methods, FALSE)
                : p \in ExpandOptionals(route.segments)})

\* The walked routes, or the synthetic "/" of an application without routes,
\* less the excluded paths, which follow as listings of their own.
Walked(routes) == FlattenSeq([i \in DOMAIN routes |-> IntoRouteListing(routes[i])])
Synthetic == <<Listing(<<>>, "OutOfOrder", {"GET"}, FALSE)>>
Without(listings, excluded) ==
    FlattenSeq([i \in DOMAIN listings |->
                   IF listings[i].path \in excluded THEN <<>> ELSE <<listings[i]>>])
Excluded(excluded) == SetToSeq({Listing(path, "OutOfOrder", {}, TRUE) : path \in excluded})

BugGenerateRouteList(routes, excluded) ==
    (IF Walked(routes) = <<>> THEN Synthetic ELSE Without(Walked(routes), excluded))
        \o Excluded(excluded)
GenerateRouteList(routes, excluded) ==
    Without(IF Walked(routes) = <<>> THEN Synthetic ELSE Walked(routes), excluded)
        \o Excluded(excluded)

-----------------------------------------------------------------------------
\* The guard of a route: GET routes answer HEAD too.
Guard(method) == IF method = "GET" THEN {"GET", "HEAD"} ELSE {method}

Route(path, methods, handler) == [path |-> path, methods |-> methods, handler |-> handler]

\* handle_response, handle_static_route and unsupported_ssr_mode_route, which
\* answers 500 for a mode this crate does not know.
RenderRoute(path, method) == Route(path, Guard(method), "render")
StaticRoute(path, method) == Route(path, Guard(method), "static")
UnsupportedRoute(path, method) == Route(path, Guard(method), "unsupported")

\* The route of a listing by its mode; the streamed ones differ in how the body
\* is produced.
Streamed == {"OutOfOrder", "PartiallyBlocked", "InOrder", "Async"}
RouteOf(listing, method) ==
    CASE listing.mode = "Static" -> StaticRoute(listing.path, method)
      [] listing.mode \in Streamed -> RenderRoute(listing.path, method)
      [] OTHER -> UnsupportedRoute(listing.path, method)

ListingRoutes(listing) ==
    IF listing.exclude THEN <<>> ELSE SetToSeq({RouteOf(listing, m) : m \in listing.methods})

\* A registered server function has a route unless its path is excluded.
FunctionRoutes(functions, excluded) ==
    SetToSeq({Route(f.path, {f.method}, "function") : f \in {g \in functions : g.path \notin excluded}})

ExcludedPaths(listings) == {listings[i].path : i \in {j \in DOMAIN listings : listings[j].exclude}}

\* LeptosRoutes for App
AppRoutes(listings, functions) ==
    FunctionRoutes(functions, ExcludedPaths(listings))
        \o FlattenSeq([i \in DOMAIN listings |-> ListingRoutes(listings[i])])

\* LeptosRoutes for &mut ServiceConfig, and register_leptos_routes
ServiceConfigRoutes(listings, functions) ==
    FunctionRoutes(functions, ExcludedPaths(listings))
        \o FlattenSeq([i \in DOMAIN listings |-> ListingRoutes(listings[i])])

-----------------------------------------------------------------------------
\* ntex's router: a tail takes all that is left, and the first route whose
\* pattern and guard match gets the request.
MatchesElement(element, name) == element.kind = "text" => element.name = name
Matches(pattern, url) ==
    LET fixed == SelectSeq(pattern, LAMBDA e : e.kind # "tail")
    IN  /\ Len(url) >= Len(fixed)
        /\ Len(fixed) = Len(pattern) => Len(url) = Len(fixed)
        /\ \A i \in DOMAIN fixed : MatchesElement(fixed[i], url[i])

Dispatched(table, url, method) ==
    LET fitting == {i \in DOMAIN table : Matches(table[i].path, url) /\ method \in table[i].methods}
    IN  IF fitting = {} THEN "nobody" ELSE table[Min(fitting)].handler
=============================================================================
