----------------------------- MODULE FileResponse -----------------------------
(***************************************************************************)
(* Which representation of a file is chosen and how conditions and ranges  *)
(* are answered (src/files.rs, accepted_encodings to file_response), as    *)
(* functions of the request's header fields.                               *)
(*                                                                         *)
(* A file is its size, whether its time of modification can be formatted   *)
(* ("dated"; otherwise it has no validators) and whether its descriptor    *)
(* can be duplicated and examined ("usable").  Entity tags and dates are   *)
(* written relative to the file's: "same", "weak" (W/ and the same tag),   *)
(* "other", "any" for the star; "before", "equal", "after".  A range lies  *)
(* "within" the file or "beyond" it, is in other units ("items") or no     *)
(* text at all ("garbled").                                                *)
(***************************************************************************)
EXTENDS Naturals, Sequences, SequencesExt

CONSTANT None

-----------------------------------------------------------------------------
(* Accept-Encoding: a sequence of items, over all field lines.  A weight   *)
(* is counted in halves: 0, 1 and 2 stand for q = 0, 0.5 and 1.            *)

\* parse_qvalue: a weight that is absent, malformed or out of range counts 1.
Weight(q) == IF q \in 0..2 THEN q ELSE 2

\* The last item with the token decides.
Listed(items, token) ==
    LET of == {i \in DOMAIN items : items[i].token = token}
    IN  IF of = {} THEN None ELSE Weight(items[Max(of)].q)

Or(q, default) == IF q = None THEN default ELSE q
Positive(q) == IF q = 0 THEN None ELSE q

\* accepted_encodings
AcceptedEncodings(items) ==
    LET wildcard == Listed(items, "*")
        identity == Listed(items, "identity")
    IN  [br |-> Positive(Or(Listed(items, "br"), wildcard)),
         gzip |-> Positive(Or(Listed(items, "gzip"), wildcard)),
         identity |-> IF identity = None THEN wildcard # 0 ELSE identity > 0,
         identity_q |-> identity]

\* precompressed_preference: by weight, br before gzip on a tie.
PrecompressedPreference(accepted) ==
    IF accepted.gzip = None THEN IF accepted.br = None THEN <<>> ELSE <<"br">>
    ELSE IF accepted.br = None THEN <<"gzip">>
    ELSE IF accepted.gzip > accepted.br THEN <<"gzip", "br">> ELSE <<"br", "gzip">>

\* An explicit weight of identity competes with the compressed variants.
Outweighed(accepted, variant) ==
    accepted.identity_q # None /\ accepted.identity_q > accepted[variant]

\* open_static_file: the first variant that opens, else the file itself, else
\* "none" stands for 406 Not Acceptable.
Negotiated(accepted, openable) ==
    LET variants == PrecompressedPreference(accepted)
        open == {i \in DOMAIN variants : ~Outweighed(accepted, variants[i]) /\ variants[i] \in openable}
    IN  IF open # {} THEN variants[Min(open)]
        ELSE IF accepted.identity THEN "identity" ELSE "none"

-----------------------------------------------------------------------------
(* The request's conditions.  Entity-tag fields are sequences of lines,    *)
(* each with a set of tags.                                                *)

HasValidators(file) == file.dated

\* ntex_files::NamedFile::into_response, which reads one line of each field
\* and compares If-Match strongly, If-None-Match weakly.
NamedFile(file, h) ==
    LET listed(lines) == lines # <<>> /\ "any" \notin Head(lines)
        matches(lines, tags) == HasValidators(file) /\ Head(lines) \cap tags # {}
        failed == \/ listed(h.ifMatch) /\ ~matches(h.ifMatch, {"same"})
                  \/ HasValidators(file) /\ h.unmodified = "before"
        current == \/ h.ifNoneMatch # <<>> /\ "any" \in Head(h.ifNoneMatch)
                   \/ listed(h.ifNoneMatch) /\ matches(h.ifNoneMatch, {"same", "weak"})
                   \/ h.ifNoneMatch = <<>> /\ HasValidators(file) /\ h.modified \in {"equal", "after"}
    IN  IF failed THEN 412 ELSE IF current THEN 304 ELSE 200

IsSuccess(status) == status \in 200..299
IsRedirection(status) == status \in 300..399
HeadOrGet(h) == h.method \in {"GET", "HEAD"}

Unconditional(h) ==
    [h EXCEPT !.ifMatch = <<>>, !.ifNoneMatch = <<>>, !.unmodified = "none", !.modified = "none"]

\* Several lines of one entity-tag field are one list.
Combined(lines) == IF lines = <<>> THEN <<>> ELSE <<UNION ToSet(lines)>>

\* The request NamedFile is shown: dates that an entity tag or the method
\* overrides are left out, and everything if the page is no success anyway.
Projected(h, base) ==
    IF ~IsSuccess(base) THEN Unconditional(h)
    ELSE [h EXCEPT !.ifMatch = Combined(@), !.ifNoneMatch = Combined(@),
                   !.unmodified = IF h.ifMatch # <<>> THEN "none" ELSE @,
                   !.modified = IF HeadOrGet(h) THEN @ ELSE "none"]

\* Only GET of a plain 200 has ranges, and only in bytes.
RangeApplies(h, base) == h.range \notin {"none", "items"} /\ h.method = "GET" /\ base = 200

IfRangeMatches(file, h) ==
    \/ h.ifRange = "none"
    \/ HasValidators(file) /\ h.ifRange \in {"same", "equal"}

\* One satisfiable range, the first; an empty file has none.
Selected(file, h) == file.size > 0 /\ h.range = "within"

Based(status, h, base) ==
    IF status = 304 /\ ~HeadOrGet(h) THEN 412
    ELSE IF status = 200 THEN base ELSE status

\* file_response
BugFileResponse(file, h, base) ==
    IF RangeApplies(h, base) /\ IfRangeMatches(file, h)
      THEN IF Selected(file, h) THEN 206 ELSE 416
      ELSE Based(NamedFile(file, Projected(h, base)), h, base)
FileResponse(file, h, base) ==
    LET answer == NamedFile(file, Projected(h, base))
    IN  IF IsRedirection(base) THEN base
        ELSE IF RangeApplies(h, base)
          THEN IF ~file.usable THEN 500
               ELSE IF answer \in {304, 412} THEN answer
               ELSE IF ~IfRangeMatches(file, h) THEN answer
               ELSE IF h.range = "garbled" THEN 400
               ELSE IF Selected(file, h) THEN 206 ELSE 416
        ELSE Based(answer, h, base)

-----------------------------------------------------------------------------
(* What RFC 9110 asks for, written from its list of steps.                 *)

\* 12.5.3: "*" speaks for the codings that are not listed; identity is
\* acceptable unless it is refused.  Identity ranks lowest when it has no
\* weight of its own, and a compressed variant wins a tie.
Rank(items, coding) ==
    LET weight == Or(Listed(items, coding), Listed(items, "*"))
    IN  CASE coding = "br" -> 3 * Or(weight, 0) + 2
          [] coding = "gzip" -> 3 * Or(weight, 0) + 1
          [] OTHER -> 3 * Or(Listed(items, coding), 0)
Acceptable(items, coding) ==
    LET weight == Or(Listed(items, coding), Listed(items, "*"))
    IN  IF coding = "identity" THEN weight # 0 ELSE weight \notin {None, 0}

\* The best acceptable coding among those the site has, 406 if there is none.
BestCoding(items, chosen, available) ==
    LET candidates == {c \in available : Acceptable(items, c)}
    IN  IF candidates = {} THEN chosen = "none"
        ELSE chosen \in candidates /\ \A c \in candidates : Rank(items, c) <= Rank(items, chosen)

\* 13.2.2: the steps in their order, those that apply and what they answer.
Answers(h) == <<412, 412, IF HeadOrGet(h) THEN 304 ELSE 412, 304, 400, 206, 416>>
PreconditionSteps(file, h) ==
    LET tags(lines) == UNION ToSet(lines)
        current == IF file.dated THEN {"same"} ELSE {}
        fails(lines, same) == "any" \notin tags(lines) /\ tags(lines) \cap same = {}
        weak == IF file.dated THEN {"same", "weak"} ELSE {}
        exact == IF file.dated THEN {"none", "same", "equal"} ELSE {"none"}
        asks == h.method = "GET" /\ h.ifRange \in exact
    IN  {s \in 1..7 :
          \/ s = 1 /\ h.ifMatch # <<>> /\ fails(h.ifMatch, current)
          \/ s = 2 /\ h.ifMatch = <<>> /\ file.dated /\ h.unmodified = "before"
          \/ s = 3 /\ h.ifNoneMatch # <<>> /\ ~fails(h.ifNoneMatch, weak)
          \/ s = 4 /\ h.ifNoneMatch = <<>> /\ HeadOrGet(h) /\ file.dated /\ h.modified \in {"equal", "after"}
          \/ s = 5 /\ asks /\ h.range = "garbled"
          \/ s = 6 /\ asks /\ h.range = "within" /\ file.size > 0
          \/ s = 7 /\ asks /\ h.range \in {"within", "beyond"}}

\* The first step that applies decides.  13.2.1: conditions do not apply to what
\* would be no success anyway.
RequiredStatus(file, h, base) ==
    LET decide == {s \in PreconditionSteps(file, h) : base # 200 => Answers(h)[s] \in {304, 412}}
    IN  IF ~IsSuccess(base) \/ decide = {} THEN base ELSE Answers(h)[Min(decide)]
=============================================================================
