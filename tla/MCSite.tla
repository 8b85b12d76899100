-------------------------------- MODULE MCSite --------------------------------
(* A small application: see Site.                                          *)
EXTENDS Site

CONSTANTS a1, a2, v1, v2

Static(names) == [kind |-> "static", names |-> names]
Param(kind) == [kind |-> kind, names |-> <<"id">>]
Text(name) == [kind |-> "text", name |-> name]

\* "/", "/users/:id?", a static page "/docs/*any" and a mode nobody knows
SomeRoutes ==
    <<[segments |-> <<[kind |-> "unit", names |-> <<>>]>>, mode |-> "OutOfOrder", methods |-> {"GET"}],
      [segments |-> <<Static(<<"users">>), Param("optional")>>, mode |-> "Async",
       methods |-> {"GET", "POST"}],
      [segments |-> <<Static(<<"docs">>), Param("splat")>>, mode |-> "Static", methods |-> {"GET"}],
      [segments |-> <<Static(<<"new">>)>>, mode |-> "Unknown", methods |-> {"GET"}]>>

SomeFunctions == {[path |-> <<Text("api"), Text("f")>>, method |-> "POST"]}

Excludable == {<<>>, <<Text("users"), [kind |-> "param", name |-> "id"]>>, <<Text("api"), Text("f")>>}

SmallSites == [routes : {<<>>, SomeRoutes}, functions : {SomeFunctions},
               excluded : SUBSET Excludable, app : BOOLEAN]
SmallUrls == [url : {<<>>, <<"users">>, <<"users", "1">>, <<"docs", "a", "b">>, <<"new">>,
                     <<"api", "f">>, <<"logo">>}, method : {"GET", "HEAD", "POST"}]

\* Paths of the two file requests, most of them refused.
SmallPaths == [r \in {a1, a2} |->
    IF r = a1 THEN {<<"logo">>, <<".", "logo">>, <<".well-known", "logo">>, <<>>, <<"", ".">>,
                    <<"..", "logo">>, <<".env">>, <<"nul">>}
    ELSE {<<"logo">>}]

NoConditions ==
    [method |-> "GET", ifMatch |-> <<>>, ifNoneMatch |-> <<>>, unmodified |-> "none",
     modified |-> "none", range |-> "none", ifRange |-> "none"]
SmallPlain == [items : {<<>>}, conditions : {NoConditions}, option : {None, 200, 503}]

\* Up to two items of Accept-Encoding, or three with distinct tokens; 3
\* is out of range.
Items == [token : {"br", "gzip", "identity", "*"}, q : 0..3]
SmallItems == {<<>>} \cup {<<i>> : i \in Items} \cup {<<i, j>> : i, j \in Items}
    \cup {<<i, j, k>> : i \in {x \in Items : x.token = "br"}, j \in {x \in Items : x.token = "gzip"},
                        k \in {x \in Items : x.token \in {"identity", "*"}}}

Tags == {<<>>, <<{"other"}, {"same"}>>, <<{"weak"}>>, <<{"other"}>>, <<{"any"}>>}
Conditions(method, ranges, ifRanges) ==
    [method : {method}, ifMatch : Tags, ifNoneMatch : Tags,
     unmodified : {"none", "before", "equal"}, modified : {"none", "before", "equal"},
     range : ranges, ifRange : ifRanges]
SmallConditions ==
    Conditions("GET", {"none", "within", "beyond", "items", "garbled"}, {"none", "same", "weak", "equal", "before"})
    \cup Conditions("HEAD", {"none", "within"}, {"none"})

SmallNegotiating == [items : SmallItems, conditions : {NoConditions}, option : {None}]
SmallConditional == [items : {<<>>}, conditions : SmallConditions, option : {None}]
=============================================================================
