---------------------------- MODULE MCStaticServing ----------------------------
(* Two requests and a generator: see StaticServing.                        *)
EXTENDS StaticServing

CONSTANTS r1, g1, g2, p1, p2, b1, b2

Seg(text, ascii, other) == [text |-> text, ascii |-> ascii, other |-> other]
Page(ascii, other) == Seg("index", ascii, other)
Entry(name, id) == [name |-> name, id |-> id, dir |-> FALSE]
Single(name) == Entry(name, name)

SmallTexts == {"", "index", "style", "site", "inode"} \cup Unsafe

\* "/", "/.hidden/"; two spellings of the index page, one of which the request
\* and the second call of the generator may repeat.
SmallPaths == [c \in {r1, g1, g2} |->
    CASE c = r1 -> {<<>>, <<Seg(".hidden", "lower", "lower"), Blank>>, <<Page("upper", "lower")>>}
      [] c = g1 -> {<<Page("upper", "lower")>>}
      [] c = g2 -> {<<Page("lower", "upper")>>, <<Page("upper", "lower")>>}]

OneRuntime == [c \in {r1, g1, g2} |-> 1]
TwoJobs == <<g1, g2>>
SmallPolicies == [b \in {b1, b2} |-> IF b = b1 THEN p1 ELSE p2]
SmallRoutes == [b \in {b1, b2} |-> IF b = b1 THEN <<2, 1, 2>> ELSE <<1, 2>>]

Dir(kind, device, folds, entries) == [kind |-> kind, device |-> device, folds |-> folds, entries |-> entries]
Style == Single(Seg("style", "lower", "lower"))
Linked == Seg("inode", "lower", "lower")
Above(folds) == <<Dir("dir", 0, folds, {Single(Seg("site", "lower", "lower"))})>>

Scenario(d, folds, handles, calls, deletions) ==
    [dir |-> d, above |-> Above(folds), handles |-> handles, calls |-> calls, deletions |-> deletions]

\* Under policies: a volume that folds case and one that does not.  Without:
\* an entry whose case only the file system folds, hard links, an empty volume
\* of its own, and a root that does not exist.
SmallScenarios ==
    {Scenario(Dir("dir", 0, TRUE, {Style}), TRUE, {p1, p2}, {r1, g1}, 0),
     Scenario(Dir("dir", 0, FALSE, {Style}), FALSE, {p1}, {r1, g1}, 1),
     Scenario(Dir("dir", 0, FALSE, {Style}), FALSE, {p1}, {g1, g2}, 0),
     Scenario(Dir("dir", 0, TRUE, {Style}), TRUE, {}, {r1, g2}, 1),
     Scenario(Dir("dir", 0, TRUE, {Single(Page("lower", "lower"))}), TRUE, {}, {g1, g2}, 1),
     Scenario(Dir("dir", 0, FALSE, {Entry(Page("lower", "lower"), Linked), Entry(Page("upper", "lower"), Linked)}),
              FALSE, {}, {r1, g1}, 1),
     Scenario(Dir("dir", 1, TRUE, {}), FALSE, {}, {r1, g1}, 0),
     Scenario(Dir("dir", 1, TRUE, {}), FALSE, {}, {g1, g2}, 0),
     Scenario(Dir("missing", 0, TRUE, {}), TRUE, {}, {r1, g1}, 0)}

\* The root is created by the policy, after a request may have started.
LateScenario == {Scenario(Dir("missing", 0, TRUE, {}), TRUE, {p1}, {r1, g1}, 0)}
=============================================================================
