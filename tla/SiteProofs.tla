------------------------------ MODULE SiteProofs ------------------------------
(***************************************************************************)
(* Theorems about Site and the components it composes: the dispatch of a   *)
(* request, the file service and the executor's installation, for any      *)
(* application, any server functions, bodies and files.                    *)
(***************************************************************************)
EXTENDS Site, FiniteSetTheorems, SequenceTheorems, TLAPS

-----------------------------------------------------------------------------
(* Dispatch.                                                               *)

Early == {"unrouted", "arrived", "setup", "drain"}

DispatchTyped ==
    /\ entries \in Seq([method : Methods, fn : Functions])
    /\ latest \in [Methods -> Functions \cup {None}]
    /\ pc \in Early \cup {"run", "body", "over"}
    /\ seen \in Nat /\ tooLarge \in BOOLEAN /\ handshake \in {0, 400, 405}
    /\ options \in Overrides
    /\ scope \in {"idle", "pump", "cancelled"}
    /\ owner \in {"none", "armed", "cleaned", "leaked"}
    /\ refs \subseteq {"dispatch", "lease", "task"} /\ work \subseteq Works

\* The registry has one slot per method, with the last function registered.
OneSlot ==
    \A i, j \in DOMAIN entries : entries[i].method = entries[j].method => i = j
SlotsAreLatest ==
    /\ \A i \in DOMAIN entries : entries[i].fn = latest[entries[i].method]
    /\ \A m \in Methods : latest[m] # None => \E i \in DOMAIN entries : entries[i].method = m

\* What runs under the Owner holds it, the service until the function has
\* returned or was dropped.
Held ==
    /\ \A w \in work : Holder(w) \in refs
    /\ refs # {} => owner = "armed"
    /\ "service" \in work <=> pc = "run"

\* Before the function runs nothing is held, read or failed.
Untouched ==
    /\ pc \in Early => refs = {} /\ work = {} /\ handshake = 0
    /\ pc \in Early \ {"drain"} => seen = 0
    /\ refs # {} => seen <= Limit
    /\ route = "render" => handshake = 0

\* An answer is settled once.
Answered == intent # None => pc \in {"body", "over"}

\* The function found was the last one registered.
FoundLatest == served # None => served.fn = served.latest

DispatchInv == /\ DispatchTyped /\ OneSlot /\ SlotsAreLatest /\ FoundLatest
               /\ Held /\ Untouched /\ Answered /\ RedirectsAreSafe /\ AdapterErrorsStand

(* FileService.                                                            *)

FilePoints == {"idle", "store", "check", "open", "relative", "reopen", "miss", "done"}

FileTyped ==
    /\ link \in Releases \cup {None} /\ cache \in Releases \cup {None}
    /\ asset \in [Assets -> [pc : FilePoints, root : Releases \cup {None},
                             safe : {None, "name", "target"}]]
    /\ sent = [r \in Assets |-> sent[r]]

\* A request past cached_site_root works with the one stored root.
Rooted ==
    \A r \in Assets :
        /\ asset[r].pc = "store" => asset[r].root # None
        /\ asset[r].pc \in {"check", "open", "relative", "reopen"} =>
              asset[r].root = cache /\ cache # None

\* What was sent stays true, because the root is stored once.
SentRooted ==
    \A r \in Assets : Files!FileSent(r) =>
        sent[r].place = "file" /\ sent[r].root = cache /\ cache # None

FileInv == FileTyped /\ Rooted /\ SentRooted

(* ExecutorInit.                                                           *)

\* The state kept is the executor's, and every verdict is the state's.
ExecutorInv ==
    /\ known \in {"Unknown", "NtexInstalled", "ForeignInstalled"}
    /\ installed \in {"none", "ntex", "foreign"}
    /\ known = "NtexInstalled" <=> installed = "ntex"
    /\ known = "ForeignInstalled" => installed = "foreign"
    /\ "ok" \in verdicts => known = "NtexInstalled"
    /\ "conflict" \in verdicts => known = "ForeignInstalled"

\* Nothing is dispatched before the request is routed.
Unrouted == site # None => pc = "unrouted"

IInv == DispatchInv /\ FileInv /\ ExecutorInv /\ Unrouted

-----------------------------------------------------------------------------
(* The registry.                                                           *)

\* A method has at most one slot: it is the one lookup_server_fn and upsert
\* find.
LEMMA SlotIsTheOne ==
  ASSUME DispatchTyped, OneSlot, NEW m \in Methods, SlotsOf(m) # {}
  PROVE  /\ Slot(m) \in DOMAIN entries /\ entries[Slot(m)].method = m
         /\ SlotsOf(m) = {Slot(m)}
  <1>1. PICK i \in SlotsOf(m) : TRUE
    OBVIOUS
  <1>2. i \in DOMAIN entries /\ entries[i].method = m /\ i \in Nat
    BY <1>1 DEF SlotsOf, DispatchTyped
  <1>3. \A j \in SlotsOf(m) : j = i
    BY <1>2 DEF SlotsOf, OneSlot
  <1>4. SlotsOf(m) = {i}
    BY <1>1, <1>3
  <1>5. Slot(m) = i
    <2>1. \A y \in {i} : i <= y
      BY <1>2
    <2>2. Min({i}) = i
      BY <2>1 DEF Min
    <2> QED
      BY <1>4, <2>2, Zenon DEF Slot
  <1> QED
    BY <1>2, <1>4, <1>5

\* lookup_server_fn finds the last function registered, or none.
LEMMA LookupFindsLatest ==
  ASSUME DispatchTyped, OneSlot, SlotsAreLatest, NEW m \in Methods
  PROVE  Lookup(m) = latest[m]
  <1>1. CASE SlotsOf(m) = {}
    <2>1. ~ \E i \in DOMAIN entries : entries[i].method = m
      BY <1>1 DEF SlotsOf
    <2>2. latest[m] = None
      BY <2>1 DEF SlotsAreLatest
    <2> QED
      BY <1>1, <2>2 DEF Lookup
  <1>2. CASE SlotsOf(m) # {}
    <2>1. Slot(m) \in DOMAIN entries /\ entries[Slot(m)].method = m
      BY <1>2, SlotIsTheOne
    <2> QED
      BY <1>2, <2>1 DEF Lookup, SlotsAreLatest
  <1> QED
    BY <1>1, <1>2

\* upsert replaces the slot of the method or adds one.
LEMMA UpsertKeeps ==
  ASSUME DispatchTyped, OneSlot, SlotsAreLatest, NEW m \in Methods, NEW f \in Functions,
         entries' = Upsert(m, f), latest' = [latest EXCEPT ![m] = f]
  PROVE  /\ entries' \in Seq([method : Methods, fn : Functions])
         /\ latest' \in [Methods -> Functions \cup {None}]
         /\ OneSlot' /\ SlotsAreLatest'
  <1>1. /\ latest' \in [Methods -> Functions \cup {None}] /\ latest'[m] = f
        /\ \A other \in Methods \ {m} : latest'[other] = latest[other]
    BY DEF DispatchTyped
  <1>2. /\ entries \in Seq([method : Methods, fn : Functions]) /\ Len(entries) \in Nat
        /\ DOMAIN entries = 1..Len(entries)
    BY DEF DispatchTyped
  <1>3. \A i \in DOMAIN entries : /\ entries[i] \in [method : Methods, fn : Functions]
                                 /\ entries[i].method \in Methods
    <2> DEFINE S == [method : Methods, fn : Functions]
    <2>1. entries \in Seq(S)
      BY <1>2
    <2>2. \A s \in S : s.method \in Methods
      OBVIOUS
    <2> HIDE DEF S
    <2>3. \A i \in 1..Len(entries) : entries[i] \in S
      BY <2>1, ElementOfSeq
    <2> QED
      BY <1>2, <2>2, <2>3 DEF S
  <1>4. CASE SlotsOf(m) = {}
    <2>1. entries' = Append(entries, [method |-> m, fn |-> f])
      BY <1>4 DEF Upsert
    <2>2. \A i \in DOMAIN entries : entries[i].method # m
      BY <1>4 DEF SlotsOf
    <2>3. /\ DOMAIN entries' = 1..Len(entries) + 1
          /\ entries'[Len(entries) + 1] = [method |-> m, fn |-> f]
          /\ \A i \in DOMAIN entries : entries'[i] = entries[i]
      BY <1>2, <2>1
    <2>4. entries' \in Seq([method : Methods, fn : Functions])
      BY <1>2, <2>1
    <2>5. \A i \in DOMAIN entries' : i = Len(entries) + 1 \/ i \in DOMAIN entries
      BY <1>2, <2>3
    <2>6. /\ entries'[Len(entries) + 1].method = m /\ entries'[Len(entries) + 1].fn = f
          /\ Len(entries) + 1 \in DOMAIN entries'
          /\ \A i \in DOMAIN entries : i \in DOMAIN entries'
      BY <1>2, <2>3
    <2>7. OneSlot'
      BY <2>2, <2>3, <2>5, <2>6 DEF OneSlot
    <2>8. SlotsAreLatest'
      <3>1. \A i \in DOMAIN entries' : entries'[i].fn = latest'[entries'[i].method]
        BY <1>1, <1>3, <2>2, <2>3, <2>5, <2>6 DEF SlotsAreLatest
      <3>2. ASSUME NEW other \in Methods, latest'[other] # None
            PROVE  \E i \in DOMAIN entries' : entries'[i].method = other
        <4>1. CASE other = m
          BY <2>6, <4>1
        <4>2. CASE other # m
          <5>1. PICK i \in DOMAIN entries : entries[i].method = other
            BY <1>1, <3>2, <4>2 DEF SlotsAreLatest
          <5> QED
            BY <2>3, <2>6, <5>1
        <4> QED
          BY <4>1, <4>2
      <3> QED
        BY <3>1, <3>2 DEF SlotsAreLatest
    <2> QED
      BY <1>1, <2>4, <2>7, <2>8
  <1>5. CASE SlotsOf(m) # {}
    <2>1. PICK k : k = Slot(m)
      OBVIOUS
    <2>2. k \in DOMAIN entries /\ entries[k].method = m /\ SlotsOf(m) = {k}
      BY <1>5, <2>1, SlotIsTheOne
    <2>3. entries' = [entries EXCEPT ![k].fn = f]
      BY <1>5, <2>1 DEF Upsert
    <2>4. \A i \in DOMAIN entries : entries[i].method = m => i = k
      BY <2>2 DEF SlotsOf
    <2>5. /\ DOMAIN entries' = DOMAIN entries
          /\ entries'[k] = [entries[k] EXCEPT !.fn = f]
          /\ \A i \in DOMAIN entries : i # k => entries'[i] = entries[i]
      BY <2>2, <2>3
    <2>6. /\ entries'[k].method = m /\ entries'[k].fn = f
          /\ entries'[k] \in [method : Methods, fn : Functions]
      BY <1>3, <2>2, <2>5
    <2>7. entries' \in Seq([method : Methods, fn : Functions])
      <3>1. entries' \in [1..Len(entries) -> [method : Methods, fn : Functions]]
        BY <1>2, <1>3, <2>3, <2>5, <2>6
      <3> QED
        BY <1>2, <3>1, SeqDef
    <2>8. OneSlot'
      BY <2>2, <2>4, <2>5, <2>6 DEF OneSlot
    <2>9. SlotsAreLatest'
      <3>1. \A i \in DOMAIN entries' : entries'[i].fn = latest'[entries'[i].method]
        BY <1>1, <1>3, <2>2, <2>4, <2>5, <2>6 DEF SlotsAreLatest
      <3>2. ASSUME NEW other \in Methods, latest'[other] # None
            PROVE  \E i \in DOMAIN entries' : entries'[i].method = other
        <4>1. CASE other = m
          BY <2>2, <2>5, <2>6, <4>1
        <4>2. CASE other # m
          <5>1. PICK i \in DOMAIN entries : entries[i].method = other
            BY <1>1, <3>2, <4>2 DEF SlotsAreLatest
          <5> QED
            BY <2>2, <2>5, <4>2, <5>1
        <4> QED
          BY <4>1, <4>2
      <3> QED
        BY <3>1, <3>2 DEF SlotsAreLatest
    <2> QED
      BY <1>1, <2>7, <2>8, <2>9
  <1> QED
    BY <1>4, <1>5

-----------------------------------------------------------------------------
(* The response.                                                           *)

\* What an application may have overridden.
LEMMA OverrideParts ==
  ASSUME NEW o \in Overrides
  PROVE  /\ o.status \in {0, 201} /\ o.location \in {"none", "other"}
         /\ o = [status |-> o.status, location |-> o.location, headers |-> o.headers]
         /\ \E v \in {<<>>, <<"app", "app">>} : o.headers = [h \in Names |-> v]
  BY DEF Overrides

\* It may have overridden nothing.
LEMMA NothingOverridden == NoOptions \in Overrides
  <1>1. [h \in Names |-> <<>>] \in {[h \in Names |-> v] : v \in {<<>>, <<"app", "app">>}}
    OBVIOUS
  <1> QED
    BY <1>1 DEF NoOptions, Overrides

\* finalize_error_response keeps the status and the type of the adapter's
\* error and the cookies of the application.
LEMMA RefusedStands ==
  ASSUME NEW s, NEW o \in Overrides
  PROVE  /\ Refused(s, o).status = s /\ Refused(s, o).location = o.location
         /\ Refused(s, o).headers["type"] = <<"own">>
         /\ Refused(s, o).headers["cookie"] = o.headers["cookie"]
  <1>1. PICK v \in {<<>>, <<"app", "app">>} : o.headers = [h \in Names |-> v]
    BY OverrideParts
  <1>2. /\ o.status \in {0, 201} /\ o.location \in {"none", "other"}
        /\ o = [status |-> o.status, location |-> o.location, headers |-> o.headers]
    BY OverrideParts
  <1> DEFINE e == ErrorParts(o)
  <1>3. /\ e.status = 0 /\ e.location = o.location
        /\ e.headers = [o.headers EXCEPT !["type"] = <<>>]
    BY <1>2 DEF ErrorParts
  <1>4. e.headers["type"] = <<>> /\ e.headers["cookie"] = v /\ o.headers["cookie"] = v
    BY <1>1, <1>3 DEF Names
  <1>5. /\ AdapterError["type"] = <<"own">> /\ AdapterError["cookie"] = <<>>
    BY DEF AdapterError, NoOptions, Names
  <1>6. Plain(s).status = s /\ Plain(s).location = "none"
    BY DEF Plain, NoOptions
  <1> HIDE DEF e
  <1>7. Merge(AdapterError, e)["type"] = <<"own">>
    BY <1>4, <1>5 DEF Merge, Names
  <1>8. Merge(AdapterError, e)["cookie"] = v
    <2>1. CASE v = <<>>
      BY <1>4, <1>5, <2>1 DEF Merge, Names
    <2>2. CASE v # <<>>
      <3>1. Merge(AdapterError, e)["cookie"] = AdapterError["cookie"] \o e.headers["cookie"]
        BY <1>4, <2>2 DEF Merge, Names
      <3>2. <<>> \o v = v
        BY <1>1
      <3> QED
        BY <1>4, <1>5, <3>1, <3>2
    <2> QED
      BY <2>1, <2>2
  <1>9. Refused(s, o) = Extend(Plain(s), AdapterError, e)
    BY DEF Refused, e
  <1> QED
    BY <1>2, <1>3, <1>4, <1>6, <1>7, <1>8, <1>9 DEF Extend

\* Locations and responses of server_fn.
Locations == {"none", "self", "other", "self echo", "other echo"}
RawType == [status : {200, 302, 500}, error : BOOLEAN, location : Locations]

\* server_fn answers in these, an error with the redirect to its own URL.
LEMMA RawTyped ==
  ASSUME NEW a \in Accepts, NEW ref \in Referers, NEW r \in Raw(a, ref)
  PROVE  /\ r \in RawType
         /\ r.error => /\ r.status = IF a # "none" THEN 302 ELSE 500
                       /\ r.location = IF a = "none" THEN "none"
                                       ELSE IF ref = "other" THEN "other" ELSE "self"
  <1>1. Echo(ref) \in Locations
    BY DEF Echo, Locations
  <1>2. CASE r \in [status : {200, 302}, error : {FALSE}, location : {"none", "self", "other", Echo(ref)}]
    <2>1. /\ r = [status |-> r.status, error |-> r.error, location |-> r.location]
          /\ r.status \in {200, 302} /\ r.error \in {FALSE}
          /\ r.location \in {"none", "self", "other", Echo(ref)}
      BY <1>2
    <2>2. r.error = FALSE
      BY <2>1
    <2>3. r.error \in BOOLEAN /\ r.location \in Locations
      BY <1>1, <2>1, <2>2, ZenonT(60) DEF Locations
    <2>4. r \in RawType
      BY <2>1, <2>3 DEF RawType
    <2> QED
      BY <2>2, <2>4
  <1>3. CASE \E e \in BOOLEAN :
               r = [status |-> IF a # "none" THEN 302 ELSE IF e THEN 500 ELSE 200, error |-> e,
                    location |-> IF a = "none" THEN "none"
                                 ELSE IF ~e THEN Echo(ref) ELSE IF ref = "other" THEN "other" ELSE "self"]
    <2>1. PICK e \in BOOLEAN :
               r = [status |-> IF a # "none" THEN 302 ELSE IF e THEN 500 ELSE 200, error |-> e,
                    location |-> IF a = "none" THEN "none"
                                 ELSE IF ~e THEN Echo(ref) ELSE IF ref = "other" THEN "other" ELSE "self"]
      BY <1>3
    <2>2. /\ r.error = e
          /\ r.status = IF a # "none" THEN 302 ELSE IF e THEN 500 ELSE 200
          /\ r.location = IF a = "none" THEN "none"
                          ELSE IF ~e THEN Echo(ref) ELSE IF ref = "other" THEN "other" ELSE "self"
          /\ r = [status |-> r.status, error |-> r.error, location |-> r.location]
      BY <2>1
    <2>3. r.error \in BOOLEAN /\ r.status \in {200, 302, 500} /\ r.location \in Locations
      <3>1. r.error \in BOOLEAN
        BY <2>2
      <3>2. r.status \in {200, 302, 500}
        BY <2>2
      <3>3. r.location \in Locations
        BY <1>1, <2>2, Zenon DEF Locations
      <3> QED
        BY <3>1, <3>2, <3>3
    <2>4. r \in RawType
      BY <2>2, <2>3 DEF RawType
    <2> QED
      BY <2>2, <2>4
  <1> QED
    BY <1>2, <1>3 DEF Raw

\* A stripped response has no Location, and is no success after an error.
LEMMA StrippedFields ==
  ASSUME NEW r \in RawType
  PROVE  /\ Stripped(r) \in RawType /\ Stripped(r).location = "none"
         /\ Stripped(r).error = r.error
         /\ Stripped(r).status = IF r.status # 302 THEN r.status ELSE IF r.error THEN 500 ELSE 200
  <1>1. /\ r = [status |-> r.status, error |-> r.error, location |-> r.location]
        /\ r.status \in {200, 302, 500} /\ r.error \in BOOLEAN
    BY DEF RawType
  <1>2. PICK s : s = IF r.status # 302 THEN r.status ELSE IF r.error THEN 500 ELSE 200
    OBVIOUS
  <1>3. s \in {200, 302, 500}
    BY <1>1, <1>2
  <1>4. Stripped(r) = [r EXCEPT !.location = "none", !.status = s]
    BY <1>2, SMTT(60) DEF Stripped
  <1>5. "none" \in Locations
    BY DEF Locations
  <1>6. Stripped(r) \in RawType
    <2> DEFINE S == {200, 302, 500}
    <2>1. r \in [status : S, error : BOOLEAN, location : Locations] /\ s \in S
      BY <1>3 DEF RawType
    <2> HIDE DEF S
    <2>2. [r EXCEPT !.location = "none", !.status = s] \in [status : S, error : BOOLEAN, location : Locations]
      BY <1>5, <2>1
    <2> QED
      BY <1>4, <2>2, SMTT(60) DEF RawType, S
  <1>7. Stripped(r).location = "none" /\ Stripped(r).error = r.error /\ Stripped(r).status = s
    BY <1>4 DEF RawType
  <1> QED
    BY <1>2, <1>6, <1>7

\* The form redirect and the guard leave no foreign Location, and no success
\* of what failed.
LEMMA GuardedIsSafe ==
  ASSUME NEW a \in Accepts, NEW ref \in Referers, NEW r \in Raw(a, ref)
  PROVE  LET g == Guarded(FormRedirect(r, a, ref)) IN
         /\ g.location \in {"none", "self", "self echo"}
         /\ r.error => g.status \in {500, 302} /\ (g.status = 302 => g.location # "none")
  <1> DEFINE f == FormRedirect(r, a, ref)
             own == [r EXCEPT !.status = 302, !.location = "self"]
  <1>1. /\ r \in RawType
        /\ r.error => /\ r.status = IF a # "none" THEN 302 ELSE 500
                      /\ r.location = IF a = "none" THEN "none"
                                      ELSE IF ref = "other" THEN "other" ELSE "self"
    BY RawTyped
  <1>2. /\ Stripped(r) \in RawType /\ Stripped(r).location = "none"
        /\ Stripped(r).error = r.error
        /\ Stripped(r).status = IF r.status # 302 THEN r.status ELSE IF r.error THEN 500 ELSE 200
    BY <1>1, StrippedFields
  <1>3. own \in RawType /\ own.status = 302 /\ own.location = "self" /\ own.error = r.error
    BY <1>1, ZenonT(60) DEF RawType, Locations
  <1>4. f \in {r, own, Stripped(r)}
    BY DEF FormRedirect
  <1>5. f \in RawType /\ f.error = r.error
    <2> HIDE DEF f, own
    <2> QED
      BY <1>1, <1>2, <1>3, <1>4
  <1>6. r.error => f.status \in {500, 302} /\ (f.status = 302 => f.location # "none")
    <2>1. CASE f = r
      BY <1>1, <2>1
    <2>2. CASE f = own
      BY <1>3, <2>2
    <2>3. CASE f = Stripped(r)
      BY <1>1, <1>2, <2>3
    <2> QED
      BY <1>4, <2>1, <2>2, <2>3
  <1> HIDE DEF f
  <1>7. CASE f.location # "none" /\ ~SameOrigin(f.location)
    <2>1. Guarded(f) = Stripped(f)
      BY <1>7 DEF Guarded
    <2>2. /\ Stripped(f).location = "none"
          /\ Stripped(f).status = IF f.status # 302 THEN f.status ELSE IF f.error THEN 500 ELSE 200
      BY <1>5, StrippedFields
    <2>3. Guarded(f).location = "none" /\ (r.error => Guarded(f).status = 500)
      BY <1>5, <1>6, <2>1, <2>2
    <2> QED
      BY <2>3 DEF f
  <1>8. CASE ~(f.location # "none" /\ ~SameOrigin(f.location))
    <2>1. Guarded(f) = f
      BY <1>8 DEF Guarded
    <2>2. f.location \in {"none", "self", "self echo"}
      BY <1>8 DEF SameOrigin
    <2> QED
      <3>1. /\ Guarded(f).location \in {"none", "self", "self echo"}
            /\ r.error => /\ Guarded(f).status \in {500, 302}
                          /\ Guarded(f).status = 302 => Guarded(f).location # "none"
        <4>1. Guarded(f).location = f.location /\ Guarded(f).status = f.status
          BY <2>1
        <4>2. Guarded(f).location \in {"none", "self", "self echo"}
          BY <2>2, <4>1
        <4>3. ASSUME r.error
              PROVE  /\ Guarded(f).status \in {500, 302}
                     /\ Guarded(f).status = 302 => Guarded(f).location # "none"
          BY <1>6, <4>1, <4>3
        <4> QED
          BY <4>2, <4>3
      <3> QED
        BY <3>1 DEF f
  <1> QED
    BY <1>7, <1>8

-----------------------------------------------------------------------------
(* Each action of Dispatch keeps its invariant.                            *)

\* An answer stands when nothing of it changes, or is still to come.
LEMMA AnswerStands ==
  ASSUME RedirectsAreSafe, AdapterErrorsStand, Untouched',
         intent' = None \/ UNCHANGED <<intent, final, handshake>>
  PROVE  RedirectsAreSafe' /\ AdapterErrorsStand'
  <1>1. refs' # {} => seen' <= Limit
    BY DEF Untouched
  <1>2. CASE intent' = None
    BY <1>1, <1>2 DEF RedirectsAreSafe, AdapterErrorsStand
  <1>3. CASE UNCHANGED <<intent, final, handshake>>
    <2>1. RedirectsAreSafe'
      BY <1>3, ZenonT(60) DEF RedirectsAreSafe
    <2>2. AdapterErrorsStand'
      BY <1>1, <1>3, Zenon DEF AdapterErrorsStand
    <2> QED
      BY <2>1, <2>2
  <1> QED
    BY <1>2, <1>3

\* A server function is registered.
LEMMA RegisterKeeps ==
  ASSUME DispatchInv, NEW m \in Methods, NEW f \in Functions, Register(m, f)
  PROVE  DispatchInv'
  <1>1. /\ DispatchTyped /\ OneSlot /\ SlotsAreLatest /\ FoundLatest
        /\ Held /\ Untouched /\ Answered /\ RedirectsAreSafe /\ AdapterErrorsStand
    BY DEF DispatchInv
  <1>2. DispatchTyped'
    <2>1. /\ entries' \in Seq([method : Methods, fn : Functions])
          /\ latest' \in [Methods -> Functions \cup {None}]
      BY <1>1, UpsertKeeps DEF Register
    <2> QED
      BY <1>1, <2>1 DEF DispatchTyped, Register, bodyVars, sentVars, ownerVars
  <1>3. OneSlot' /\ SlotsAreLatest'
    BY <1>1, UpsertKeeps DEF Register
  <1>4. FoundLatest'
    BY <1>1 DEF FoundLatest, Register, bodyVars, sentVars, ownerVars
  <1>5. Held'
    BY <1>1 DEF DispatchTyped, Early, Works, Held, Untouched, Holder, Register, bodyVars, sentVars, ownerVars
  <1>6. Untouched'
    BY <1>1, ConstantsAssumption DEF DispatchTyped, Early, Works, Held, Untouched, Holder, Register, bodyVars, sentVars, ownerVars
  <1>7. Answered'
    BY <1>1 DEF Early, Answered, Register, bodyVars, sentVars, ownerVars
  <1>8. intent' = None \/ UNCHANGED <<intent, final, handshake>>
    BY <1>1 DEF Early, Answered, Register, bodyVars, sentVars, ownerVars
  <1>9. RedirectsAreSafe' /\ AdapterErrorsStand'
    BY <1>1, <1>6, <1>8, AnswerStands
  <1> QED
    BY <1>2, <1>3, <1>4, <1>5, <1>6, <1>7, <1>9 DEF DispatchInv

\* A route of its own finds its function.
LEMMA MountKeeps ==
  ASSUME DispatchInv, NEW m \in Methods, Mount(m)
  PROVE  DispatchInv'
  <1>1. /\ DispatchTyped /\ OneSlot /\ SlotsAreLatest /\ FoundLatest
        /\ Held /\ Untouched /\ Answered /\ RedirectsAreSafe /\ AdapterErrorsStand
    BY DEF DispatchInv
  <1>2. DispatchTyped'
    BY <1>1, ConstantsAssumption DEF DispatchTyped, Early, Works, Mount, bodyVars, sentVars, ownerVars
  <1>3. OneSlot' /\ SlotsAreLatest'
    BY <1>1 DEF OneSlot, SlotsAreLatest, Mount, bodyVars, sentVars, ownerVars
  <1>4. FoundLatest'
    <2>1. Lookup(m) = latest[m]
      BY <1>1, LookupFindsLatest
    <2> QED
      BY <2>1 DEF FoundLatest, Mount, Found
  <1>5. Held'
    BY <1>1 DEF DispatchTyped, Early, Works, Held, Untouched, Holder, Mount, bodyVars, sentVars, ownerVars
  <1>6. Untouched'
    BY <1>1, ConstantsAssumption DEF DispatchTyped, Early, Works, Held, Untouched, Holder, Mount, bodyVars, sentVars, ownerVars
  <1>7. Answered'
    BY <1>1 DEF Early, Answered, Mount, bodyVars, sentVars, ownerVars
  <1>8. intent' = None \/ UNCHANGED <<intent, final, handshake>>
    BY <1>1 DEF Early, Answered, Mount, bodyVars, sentVars, ownerVars
  <1>9. RedirectsAreSafe' /\ AdapterErrorsStand'
    BY <1>1, <1>6, <1>8, AnswerStands
  <1> QED
    BY <1>2, <1>3, <1>4, <1>5, <1>6, <1>7, <1>9 DEF DispatchInv

\* The handler refuses the request or looks its function up.
LEMMA ArriveKeeps ==
  ASSUME DispatchInv, NEW m \in Methods, NEW d, Arrive(m, d)
  PROVE  DispatchInv'
  <1>1. /\ DispatchTyped /\ OneSlot /\ SlotsAreLatest /\ FoundLatest
        /\ Held /\ Untouched /\ Answered /\ RedirectsAreSafe /\ AdapterErrorsStand
    BY DEF DispatchInv
  <1>2. DispatchTyped'
    BY <1>1, ConstantsAssumption DEF DispatchTyped, Early, Works, Arrive, Refuse, Plain, bodyVars, sentVars, ownerVars
  <1>3. OneSlot' /\ SlotsAreLatest'
    BY <1>1 DEF OneSlot, SlotsAreLatest, Arrive, Refuse, Plain, bodyVars, sentVars, ownerVars
  <1>4. FoundLatest'
    <2>1. Lookup(m) = latest[m]
      BY <1>1, LookupFindsLatest
    <2>2. Found(m).fn = Found(m).latest
      BY <2>1 DEF Found
    <2>3. served' = served \/ served' = Found(m)
      BY DEF Arrive
    <2> QED
      BY <1>1, <2>2, <2>3, Zenon DEF FoundLatest
  <1>5. Held'
    BY <1>1 DEF DispatchTyped, Early, Works, Held, Untouched, Holder, Arrive, Refuse, Plain, bodyVars, sentVars, ownerVars
  <1>6. Untouched'
    BY <1>1, ConstantsAssumption DEF DispatchTyped, Early, Works, Held, Untouched, Holder, Arrive, Refuse, Plain, bodyVars, sentVars, ownerVars
  <1>7. Answered'
    BY <1>1 DEF Early, Answered, Arrive, Refuse, Plain, bodyVars, sentVars, ownerVars
  <1>8. intent' = None \/ UNCHANGED <<intent, final, handshake>>
    BY <1>1 DEF Early, Answered, Arrive, Refuse, Plain, bodyVars, sentVars, ownerVars
  <1>9. RedirectsAreSafe' /\ AdapterErrorsStand'
    BY <1>1, <1>6, <1>8, AnswerStands
  <1> QED
    BY <1>2, <1>3, <1>4, <1>5, <1>6, <1>7, <1>9 DEF DispatchInv

\* A body nobody reads is drained.
LEMMA DrainKeeps ==
  ASSUME DispatchInv, NEW n \in Chunks, Drain(n)
  PROVE  DispatchInv'
  <1>1. /\ DispatchTyped /\ OneSlot /\ SlotsAreLatest /\ FoundLatest
        /\ Held /\ Untouched /\ Answered /\ RedirectsAreSafe /\ AdapterErrorsStand
    BY DEF DispatchInv
  <1>2. DispatchTyped'
    BY <1>1, ConstantsAssumption DEF DispatchTyped, Early, Works, Drain, bodyVars, sentVars, ownerVars
  <1>3. OneSlot' /\ SlotsAreLatest'
    BY <1>1 DEF OneSlot, SlotsAreLatest, Drain, bodyVars, sentVars, ownerVars
  <1>4. FoundLatest'
    BY <1>1 DEF FoundLatest, Drain, bodyVars, sentVars, ownerVars
  <1>5. Held'
    BY <1>1 DEF DispatchTyped, Early, Works, Held, Untouched, Holder, Drain, bodyVars, sentVars, ownerVars
  <1>6. Untouched'
    BY <1>1, ConstantsAssumption DEF DispatchTyped, Early, Works, Held, Untouched, Holder, Drain, bodyVars, sentVars, ownerVars
  <1>7. Answered'
    BY <1>1 DEF Early, Answered, Drain, bodyVars, sentVars, ownerVars
  <1>8. intent' = None \/ UNCHANGED <<intent, final, handshake>>
    BY <1>1 DEF Early, Answered, Drain, bodyVars, sentVars, ownerVars
  <1>9. RedirectsAreSafe' /\ AdapterErrorsStand'
    BY <1>1, <1>6, <1>8, AnswerStands
  <1> QED
    BY <1>2, <1>3, <1>4, <1>5, <1>6, <1>7, <1>9 DEF DispatchInv

\* It is answered.
LEMMA DrainedKeeps ==
  ASSUME DispatchInv, Drained
  PROVE  DispatchInv'
  <1>1. /\ DispatchTyped /\ OneSlot /\ SlotsAreLatest /\ FoundLatest
        /\ Held /\ Untouched /\ Answered /\ RedirectsAreSafe /\ AdapterErrorsStand
    BY DEF DispatchInv
  <1>2. DispatchTyped'
    BY <1>1, ConstantsAssumption DEF DispatchTyped, Early, Works, Drained, Refuse, Plain, bodyVars, sentVars, ownerVars
  <1>3. OneSlot' /\ SlotsAreLatest'
    BY <1>1 DEF OneSlot, SlotsAreLatest, Drained, Refuse, Plain, bodyVars, sentVars, ownerVars
  <1>4. FoundLatest'
    BY <1>1 DEF FoundLatest, Drained, Refuse, Plain, bodyVars, sentVars, ownerVars
  <1>5. Held'
    BY <1>1 DEF DispatchTyped, Early, Works, Held, Untouched, Holder, Drained, Refuse, Plain, bodyVars, sentVars, ownerVars
  <1>6. Untouched'
    BY <1>1, ConstantsAssumption DEF DispatchTyped, Early, Works, Held, Untouched, Holder, Drained, Refuse, Plain, bodyVars, sentVars, ownerVars
  <1>7. Answered'
    BY <1>1 DEF Early, Answered, Drained, Refuse, Plain, bodyVars, sentVars, ownerVars
  <1>8. intent' = None \/ UNCHANGED <<intent, final, handshake>>
    BY <1>1 DEF Early, Answered, Drained, Refuse, Plain, bodyVars, sentVars, ownerVars
  <1>9. RedirectsAreSafe' /\ AdapterErrorsStand'
    BY <1>1, <1>6, <1>8, AnswerStands
  <1> QED
    BY <1>2, <1>3, <1>4, <1>5, <1>6, <1>7, <1>9 DEF DispatchInv

\* The Owner is armed, or there is no request scope.
LEMMA SetupKeeps ==
  ASSUME DispatchInv, NEW b \in BOOLEAN, Setup(b)
  PROVE  DispatchInv'
  <1>1. /\ DispatchTyped /\ OneSlot /\ SlotsAreLatest /\ FoundLatest
        /\ Held /\ Untouched /\ Answered /\ RedirectsAreSafe /\ AdapterErrorsStand
    BY DEF DispatchInv
  <1>2. DispatchTyped'
    BY <1>1, ConstantsAssumption DEF DispatchTyped, Early, Works, Setup, Refuse, Plain, bodyVars, sentVars, ownerVars
  <1>3. OneSlot' /\ SlotsAreLatest'
    BY <1>1 DEF OneSlot, SlotsAreLatest, Setup, Refuse, Plain, bodyVars, sentVars, ownerVars
  <1>4. FoundLatest'
    BY <1>1 DEF FoundLatest, Setup, Refuse, Plain, bodyVars, sentVars, ownerVars
  <1>5. Held'
    BY <1>1 DEF DispatchTyped, Early, Works, Held, Untouched, Holder, Setup, Refuse, Plain, bodyVars, sentVars, ownerVars
  <1>6. Untouched'
    BY <1>1, ConstantsAssumption DEF DispatchTyped, Early, Works, Held, Untouched, Holder, Setup, Refuse, Plain, bodyVars, sentVars, ownerVars
  <1>7. Answered'
    BY <1>1 DEF Early, Answered, Setup, Refuse, Plain, bodyVars, sentVars, ownerVars
  <1>8. intent' = None \/ UNCHANGED <<intent, final, handshake>>
    BY <1>1 DEF Early, Answered, Setup, Refuse, Plain, bodyVars, sentVars, ownerVars
  <1>9. RedirectsAreSafe' /\ AdapterErrorsStand'
    BY <1>1, <1>6, <1>8, AnswerStands
  <1> QED
    BY <1>2, <1>3, <1>4, <1>5, <1>6, <1>7, <1>9 DEF DispatchInv

\* The function reads a chunk.
LEMMA ReadChunkKeeps ==
  ASSUME DispatchInv, NEW n \in Chunks, ReadChunk(n)
  PROVE  DispatchInv'
  <1>1. /\ DispatchTyped /\ OneSlot /\ SlotsAreLatest /\ FoundLatest
        /\ Held /\ Untouched /\ Answered /\ RedirectsAreSafe /\ AdapterErrorsStand
    BY DEF DispatchInv
  <1>2. DispatchTyped'
    <2>1. seen' \in Nat /\ tooLarge' \in BOOLEAN
      <3>1. seen \in Nat /\ tooLarge \in BOOLEAN /\ n \in Nat /\ Consume(n)
        BY <1>1, ConstantsAssumption DEF DispatchTyped, ReadChunk
      <3>2. CASE Beyond(n)
        BY <3>1, <3>2 DEF Consume
      <3>3. CASE ~Beyond(n)
        BY <3>1, <3>3 DEF Consume
      <3> QED
        BY <3>2, <3>3
    <2> QED
      BY <1>1, <2>1 DEF DispatchTyped, ReadChunk, sentVars, ownerVars
  <1>3. OneSlot' /\ SlotsAreLatest'
    BY <1>1 DEF OneSlot, SlotsAreLatest, ReadChunk, Consume, Beyond, bodyVars, sentVars, ownerVars
  <1>4. FoundLatest'
    BY <1>1 DEF FoundLatest, ReadChunk, Consume, Beyond, bodyVars, sentVars, ownerVars
  <1>5. Held'
    BY <1>1 DEF DispatchTyped, Early, Works, Held, Untouched, Holder, ReadChunk, Consume, Beyond, bodyVars, sentVars, ownerVars
  <1>6. Untouched'
    BY <1>1, ConstantsAssumption DEF DispatchTyped, Early, Works, Held, Untouched, Holder, ReadChunk, Consume, Beyond, bodyVars, sentVars, ownerVars
  <1>7. Answered'
    BY <1>1 DEF Early, Answered, ReadChunk, Consume, Beyond, bodyVars, sentVars, ownerVars
  <1>8. intent' = None \/ UNCHANGED <<intent, final, handshake>>
    BY <1>1 DEF Early, Answered, ReadChunk, Consume, Beyond, bodyVars, sentVars, ownerVars
  <1>9. RedirectsAreSafe' /\ AdapterErrorsStand'
    BY <1>1, <1>6, <1>8, AnswerStands
  <1> QED
    BY <1>2, <1>3, <1>4, <1>5, <1>6, <1>7, <1>9 DEF DispatchInv

\* The response body reads a chunk.
LEMMA BodyReadsKeeps ==
  ASSUME DispatchInv, NEW n \in Chunks, NEW b \in BOOLEAN, BodyReads(n, b)
  PROVE  DispatchInv'
  <1>1. /\ DispatchTyped /\ OneSlot /\ SlotsAreLatest /\ FoundLatest
        /\ Held /\ Untouched /\ Answered /\ RedirectsAreSafe /\ AdapterErrorsStand
    BY DEF DispatchInv
  <1>2. DispatchTyped'
    <2>1. seen' \in Nat /\ tooLarge' \in BOOLEAN
      <3>1. seen \in Nat /\ tooLarge \in BOOLEAN /\ n \in Nat /\ Consume(n)
        BY <1>1, ConstantsAssumption DEF DispatchTyped, BodyReads
      <3>2. CASE Beyond(n)
        BY <3>1, <3>2 DEF Consume
      <3>3. CASE ~Beyond(n)
        BY <3>1, <3>3 DEF Consume
      <3> QED
        BY <3>2, <3>3
    <2> QED
      BY <1>1, <2>1 DEF DispatchTyped, BodyReads, sentVars, ownerVars
  <1>3. OneSlot' /\ SlotsAreLatest'
    BY <1>1 DEF OneSlot, SlotsAreLatest, BodyReads, Consume, Beyond, bodyVars, sentVars, ownerVars
  <1>4. FoundLatest'
    BY <1>1 DEF FoundLatest, BodyReads, Consume, Beyond, bodyVars, sentVars, ownerVars
  <1>5. Held'
    BY <1>1 DEF DispatchTyped, Early, Works, Held, Untouched, Holder, BodyReads, Consume, Beyond, bodyVars, sentVars, ownerVars
  <1>6. Untouched'
    BY <1>1, ConstantsAssumption DEF DispatchTyped, Early, Works, Held, Untouched, Holder, BodyReads, Consume, Beyond, bodyVars, sentVars, ownerVars
  <1>7. Answered'
    BY <1>1 DEF Early, Answered, BodyReads, Consume, Beyond, bodyVars, sentVars, ownerVars
  <1>8. intent' = None \/ UNCHANGED <<intent, final, handshake>>
    BY <1>1 DEF Early, Answered, BodyReads, Consume, Beyond, bodyVars, sentVars, ownerVars
  <1>9. RedirectsAreSafe' /\ AdapterErrorsStand'
    BY <1>1, <1>6, <1>8, AnswerStands
  <1> QED
    BY <1>2, <1>3, <1>4, <1>5, <1>6, <1>7, <1>9 DEF DispatchInv

\* The application overrides the response.
LEMMA OverrideKeeps ==
  ASSUME DispatchInv, NEW o \in Overrides, Override(o)
  PROVE  DispatchInv'
  <1>1. /\ DispatchTyped /\ OneSlot /\ SlotsAreLatest /\ FoundLatest
        /\ Held /\ Untouched /\ Answered /\ RedirectsAreSafe /\ AdapterErrorsStand
    BY DEF DispatchInv
  <1>2. DispatchTyped'
    BY <1>1, ConstantsAssumption DEF DispatchTyped, Early, Works, Override, bodyVars, sentVars, ownerVars
  <1>3. OneSlot' /\ SlotsAreLatest'
    BY <1>1 DEF OneSlot, SlotsAreLatest, Override, bodyVars, sentVars, ownerVars
  <1>4. FoundLatest'
    BY <1>1 DEF FoundLatest, Override, bodyVars, sentVars, ownerVars
  <1>5. Held'
    BY <1>1 DEF DispatchTyped, Early, Works, Held, Untouched, Holder, Override, bodyVars, sentVars, ownerVars
  <1>6. Untouched'
    BY <1>1, ConstantsAssumption DEF DispatchTyped, Early, Works, Held, Untouched, Holder, Override, bodyVars, sentVars, ownerVars
  <1>7. Answered'
    BY <1>1 DEF Early, Answered, Override, bodyVars, sentVars, ownerVars
  <1>8. intent' = None \/ UNCHANGED <<intent, final, handshake>>
    BY <1>1 DEF Early, Answered, Override, bodyVars, sentVars, ownerVars
  <1>9. RedirectsAreSafe' /\ AdapterErrorsStand'
    BY <1>1, <1>6, <1>8, AnswerStands
  <1> QED
    BY <1>2, <1>3, <1>4, <1>5, <1>6, <1>7, <1>9 DEF DispatchInv

\* A WebSocket handshake succeeds or fails.
LEMMA UpgradeKeeps ==
  ASSUME DispatchInv, NEW h, NEW b \in BOOLEAN, Upgrade(h, b)
  PROVE  DispatchInv'
  <1>1. /\ DispatchTyped /\ OneSlot /\ SlotsAreLatest /\ FoundLatest
        /\ Held /\ Untouched /\ Answered /\ RedirectsAreSafe /\ AdapterErrorsStand
    BY DEF DispatchInv
  <1>2. DispatchTyped'
    BY <1>1, ConstantsAssumption DEF DispatchTyped, Early, Works, Upgrade, StartPump, FailHandshake, FailureStatus, bodyVars, sentVars, ownerVars
  <1>3. OneSlot' /\ SlotsAreLatest'
    BY <1>1 DEF OneSlot, SlotsAreLatest, Upgrade, StartPump, FailHandshake, FailureStatus, bodyVars, sentVars, ownerVars
  <1>4. FoundLatest'
    BY <1>1 DEF FoundLatest, Upgrade, StartPump, FailHandshake, FailureStatus, bodyVars, sentVars, ownerVars
  <1>5. Held'
    BY <1>1 DEF DispatchTyped, Early, Works, Held, Untouched, Holder, Upgrade, StartPump, FailHandshake, FailureStatus, bodyVars, sentVars, ownerVars
  <1>6. Untouched'
    BY <1>1, ConstantsAssumption DEF DispatchTyped, Early, Works, Held, Untouched, Holder, Upgrade, StartPump, FailHandshake, FailureStatus, bodyVars, sentVars, ownerVars
  <1>7. Answered'
    BY <1>1 DEF Early, Answered, Upgrade, StartPump, FailHandshake, FailureStatus, bodyVars, sentVars, ownerVars
  <1>8. intent' = None \/ UNCHANGED <<intent, final, handshake>>
    BY <1>1 DEF Early, Answered, Upgrade, StartPump, FailHandshake, FailureStatus, bodyVars, sentVars, ownerVars
  <1>9. RedirectsAreSafe' /\ AdapterErrorsStand'
    BY <1>1, <1>6, <1>8, AnswerStands
  <1> QED
    BY <1>2, <1>3, <1>4, <1>5, <1>6, <1>7, <1>9 DEF DispatchInv

\* The WebSocket connection ends.
LEMMA PumpEndsKeeps ==
  ASSUME DispatchInv, PumpEnds
  PROVE  DispatchInv'
  <1>1. /\ DispatchTyped /\ OneSlot /\ SlotsAreLatest /\ FoundLatest
        /\ Held /\ Untouched /\ Answered /\ RedirectsAreSafe /\ AdapterErrorsStand
    BY DEF DispatchInv
  <1>2. DispatchTyped'
    BY <1>1, ConstantsAssumption DEF DispatchTyped, Early, Works, PumpEnds, bodyVars, sentVars, ownerVars
  <1>3. OneSlot' /\ SlotsAreLatest'
    BY <1>1 DEF OneSlot, SlotsAreLatest, PumpEnds, bodyVars, sentVars, ownerVars
  <1>4. FoundLatest'
    BY <1>1 DEF FoundLatest, PumpEnds, bodyVars, sentVars, ownerVars
  <1>5. Held'
    BY <1>1 DEF DispatchTyped, Early, Works, Held, Untouched, Holder, PumpEnds, bodyVars, sentVars, ownerVars
  <1>6. Untouched'
    BY <1>1, ConstantsAssumption DEF DispatchTyped, Early, Works, Held, Untouched, Holder, PumpEnds, bodyVars, sentVars, ownerVars
  <1>7. Answered'
    BY <1>1 DEF Early, Answered, PumpEnds, bodyVars, sentVars, ownerVars
  <1>8. intent' = None \/ UNCHANGED <<intent, final, handshake>>
    BY <1>1 DEF Early, Answered, PumpEnds, bodyVars, sentVars, ownerVars
  <1>9. RedirectsAreSafe' /\ AdapterErrorsStand'
    BY <1>1, <1>6, <1>8, AnswerStands
  <1> QED
    BY <1>2, <1>3, <1>4, <1>5, <1>6, <1>7, <1>9 DEF DispatchInv

\* A task is spawned under the Owner.
LEMMA SpawnKeeps ==
  ASSUME DispatchInv, Spawn
  PROVE  DispatchInv'
  <1>1. /\ DispatchTyped /\ OneSlot /\ SlotsAreLatest /\ FoundLatest
        /\ Held /\ Untouched /\ Answered /\ RedirectsAreSafe /\ AdapterErrorsStand
    BY DEF DispatchInv
  <1>2. DispatchTyped'
    BY <1>1, ConstantsAssumption DEF DispatchTyped, Early, Works, Spawn, TaskHolds, bodyVars, sentVars, ownerVars
  <1>3. OneSlot' /\ SlotsAreLatest'
    BY <1>1 DEF OneSlot, SlotsAreLatest, Spawn, TaskHolds, bodyVars, sentVars, ownerVars
  <1>4. FoundLatest'
    BY <1>1 DEF FoundLatest, Spawn, TaskHolds, bodyVars, sentVars, ownerVars
  <1>5. Held'
    BY <1>1 DEF DispatchTyped, Early, Works, Held, Untouched, Holder, Spawn, TaskHolds, bodyVars, sentVars, ownerVars
  <1>6. Untouched'
    BY <1>1, ConstantsAssumption DEF DispatchTyped, Early, Works, Held, Untouched, Holder, Spawn, TaskHolds, bodyVars, sentVars, ownerVars
  <1>7. Answered'
    BY <1>1 DEF Early, Answered, Spawn, TaskHolds, bodyVars, sentVars, ownerVars
  <1>8. intent' = None \/ UNCHANGED <<intent, final, handshake>>
    BY <1>1 DEF Early, Answered, Spawn, TaskHolds, bodyVars, sentVars, ownerVars
  <1>9. RedirectsAreSafe' /\ AdapterErrorsStand'
    BY <1>1, <1>6, <1>8, AnswerStands
  <1> QED
    BY <1>2, <1>3, <1>4, <1>5, <1>6, <1>7, <1>9 DEF DispatchInv

\* The function is dropped with its connection.
LEMMA RunCancelledKeeps ==
  ASSUME DispatchInv, RunCancelled
  PROVE  DispatchInv'
  <1>1. /\ DispatchTyped /\ OneSlot /\ SlotsAreLatest /\ FoundLatest
        /\ Held /\ Untouched /\ Answered /\ RedirectsAreSafe /\ AdapterErrorsStand
    BY DEF DispatchInv
  <1>2. DispatchTyped'
    <2>1. /\ options' \in Overrides /\ pc' = "body"
      BY NothingOverridden DEF RunCancelled, Respond
    <2>2. refs' \subseteq {"dispatch", "lease", "task"} /\ work' \subseteq Works
      BY <1>1 DEF DispatchTyped, Works, RunCancelled, Respond, HandOver
    <2> QED
      BY <1>1, <2>1, <2>2 DEF DispatchTyped, RunCancelled, Respond, bodyVars
  <1>3. OneSlot' /\ SlotsAreLatest'
    BY <1>1 DEF OneSlot, SlotsAreLatest, RunCancelled, Respond, HandOver, bodyVars, sentVars, ownerVars
  <1>4. FoundLatest'
    BY <1>1 DEF FoundLatest, RunCancelled, Respond, HandOver, bodyVars, sentVars, ownerVars
  <1>5. Held'
    BY <1>1 DEF DispatchTyped, Early, Works, Held, Untouched, Holder, RunCancelled, Respond, HandOver, bodyVars, sentVars, ownerVars
  <1>6. Untouched'
    BY <1>1, ConstantsAssumption DEF DispatchTyped, Early, Works, Held, Untouched, Holder, RunCancelled, Respond, HandOver, bodyVars, sentVars, ownerVars
  <1>7. Answered'
    BY <1>1 DEF Early, Answered, RunCancelled, Respond, HandOver, bodyVars, sentVars, ownerVars
  <1>8. intent' = None \/ UNCHANGED <<intent, final, handshake>>
    BY <1>1 DEF Early, Answered, RunCancelled, Respond, HandOver, bodyVars, sentVars, ownerVars
  <1>9. RedirectsAreSafe' /\ AdapterErrorsStand'
    BY <1>1, <1>6, <1>8, AnswerStands
  <1> QED
    BY <1>2, <1>3, <1>4, <1>5, <1>6, <1>7, <1>9 DEF DispatchInv

\* The function, the body or the task is dropped.
LEMMA DropWorkKeeps ==
  ASSUME DispatchInv, NEW w \in Works, NEW b \in BOOLEAN, DropWork(w, b)
  PROVE  DispatchInv'
  <1>1. /\ DispatchTyped /\ OneSlot /\ SlotsAreLatest /\ FoundLatest
        /\ Held /\ Untouched /\ Answered /\ RedirectsAreSafe /\ AdapterErrorsStand
    BY DEF DispatchInv
  <1>2. DispatchTyped'
    BY <1>1, ConstantsAssumption DEF DispatchTyped, Early, Works, DropWork, bodyVars, sentVars, ownerVars
  <1>3. OneSlot' /\ SlotsAreLatest'
    BY <1>1 DEF OneSlot, SlotsAreLatest, DropWork, bodyVars, sentVars, ownerVars
  <1>4. FoundLatest'
    BY <1>1 DEF FoundLatest, DropWork, bodyVars, sentVars, ownerVars
  <1>5. Held'
    BY <1>1 DEF DispatchTyped, Early, Works, Held, Untouched, Holder, DropWork, bodyVars, sentVars, ownerVars
  <1>6. Untouched'
    BY <1>1, ConstantsAssumption DEF DispatchTyped, Early, Works, Held, Untouched, Holder, DropWork, bodyVars, sentVars, ownerVars
  <1>7. Answered'
    BY <1>1 DEF Early, Answered, DropWork, bodyVars, sentVars, ownerVars
  <1>8. intent' = None \/ UNCHANGED <<intent, final, handshake>>
    BY <1>1 DEF Early, Answered, DropWork, bodyVars, sentVars, ownerVars
  <1>9. RedirectsAreSafe' /\ AdapterErrorsStand'
    BY <1>1, <1>6, <1>8, AnswerStands
  <1> QED
    BY <1>2, <1>3, <1>4, <1>5, <1>6, <1>7, <1>9 DEF DispatchInv

\* An Arc of the Owner is dropped, the last one cleans up.
LEMMA ReleaseKeeps ==
  ASSUME DispatchInv, NEW w \in Works, Release(w)
  PROVE  DispatchInv'
  <1>1. /\ DispatchTyped /\ OneSlot /\ SlotsAreLatest /\ FoundLatest
        /\ Held /\ Untouched /\ Answered /\ RedirectsAreSafe /\ AdapterErrorsStand
    BY DEF DispatchInv
  <1>2. DispatchTyped'
    <2>1. owner' \in {"none", "armed", "cleaned", "leaked"}
      BY <1>1 DEF DispatchTyped, Release
    <2>2. refs' \subseteq {"dispatch", "lease", "task"}
      BY <1>1 DEF DispatchTyped, Release
    <2> QED
      BY <1>1, <2>1, <2>2 DEF DispatchTyped, Release, bodyVars
  <1>3. OneSlot' /\ SlotsAreLatest'
    BY <1>1 DEF OneSlot, SlotsAreLatest, Release, bodyVars, sentVars, ownerVars
  <1>4. FoundLatest'
    BY <1>1 DEF FoundLatest, Release, bodyVars, sentVars, ownerVars
  <1>5. Held'
    BY <1>1 DEF DispatchTyped, Early, Works, Held, Untouched, Holder, Release, bodyVars, sentVars, ownerVars
  <1>6. Untouched'
    BY <1>1, ConstantsAssumption DEF DispatchTyped, Early, Works, Held, Untouched, Holder, Release, bodyVars, sentVars, ownerVars
  <1>7. Answered'
    BY <1>1 DEF Early, Answered, Release, bodyVars, sentVars, ownerVars
  <1>8. intent' = None \/ UNCHANGED <<intent, final, handshake>>
    BY <1>1 DEF Early, Answered, Release, bodyVars, sentVars, ownerVars
  <1>9. RedirectsAreSafe' /\ AdapterErrorsStand'
    BY <1>1, <1>6, <1>8, AnswerStands
  <1> QED
    BY <1>2, <1>3, <1>4, <1>5, <1>6, <1>7, <1>9 DEF DispatchInv

\* A response keeps what is not about the answer.
LEMMA RespondKeeps ==
  ASSUME DispatchInv, pc = "run", NEW response, Respond(response)
  PROVE  /\ DispatchTyped' /\ OneSlot' /\ SlotsAreLatest' /\ FoundLatest'
         /\ Held' /\ Untouched' /\ Answered'
  <1>1. /\ DispatchTyped /\ OneSlot /\ SlotsAreLatest /\ FoundLatest
        /\ Held /\ Untouched /\ Answered
    BY DEF DispatchInv
  <1>2. DispatchTyped'
    <2>1. /\ options' \in Overrides /\ pc' = "body"
      BY NothingOverridden DEF Respond
    <2>2. refs' \subseteq {"dispatch", "lease", "task"} /\ work' \subseteq Works
      BY <1>1 DEF DispatchTyped, Works, Respond, HandOver
    <2> QED
      BY <1>1, <2>1, <2>2 DEF DispatchTyped, Respond, bodyVars
  <1>3. OneSlot' /\ SlotsAreLatest' /\ FoundLatest'
    BY <1>1 DEF OneSlot, SlotsAreLatest, FoundLatest, Respond
  <1>4. Held'
    BY <1>1 DEF DispatchTyped, Works, Held, Holder, Respond, HandOver
  <1>5. Untouched'
    BY <1>1, ConstantsAssumption DEF DispatchTyped, Early, Works, Held, Untouched, Holder, Respond,
       HandOver, bodyVars
  <1>6. Answered'
    BY DEF Answered, Respond
  <1> QED
    BY <1>2, <1>3, <1>4, <1>5, <1>6

\* The server function has returned.
LEMMA FinishKeeps ==
  ASSUME DispatchInv, NEW a \in Accepts, NEW ref \in Referers, NEW r \in Raw(a, ref),
         Finish(a, ref, r)
  PROVE  DispatchInv'
  <1> DEFINE g == Guarded(FormRedirect(r, a, ref))
             response == IF tooLarge THEN Refused(413, options)
                         ELSE IF handshake # 0 THEN Refused(handshake, options)
                         ELSE Extend(g, Framework, options)
  <1>1. pc = "run" /\ Respond(response)
    BY DEF Finish
  <1>2. /\ intent' = [error |-> r.error, options |-> options, tooLarge |-> tooLarge]
        /\ final' = response /\ handshake' = handshake
    BY DEF Finish, Respond
  <1>3. /\ DispatchTyped' /\ OneSlot' /\ SlotsAreLatest' /\ FoundLatest'
        /\ Held' /\ Untouched' /\ Answered'
    BY <1>1, RespondKeeps
  <1>4. options \in Overrides /\ tooLarge \in BOOLEAN
    BY DEF DispatchInv, DispatchTyped
  <1>5. /\ options.status \in {0, 201} /\ options.location \in {"none", "other"}
    BY <1>4, OverrideParts
  <1>6. /\ intent'.error = r.error /\ intent'.options = options /\ intent'.tooLarge = tooLarge
    BY <1>2
  <1>7. /\ g.location \in {"none", "self", "self echo"}
        /\ r.error => g.status \in {500, 302} /\ (g.status = 302 => g.location # "none")
    BY GuardedIsSafe, ZenonT(60)
  <1>8. \A s : /\ Refused(s, options).status = s
               /\ Refused(s, options).location = options.location
               /\ Refused(s, options).headers["type"] = <<"own">>
               /\ Refused(s, options).headers["cookie"] = options.headers["cookie"]
    BY <1>4, RefusedStands
  <1> HIDE DEF g
  <1>9. /\ Extend(g, Framework, options).status
             = IF options.status # 0 THEN options.status ELSE g.status
        /\ Extend(g, Framework, options).location
             = IF options.location # "none" THEN options.location ELSE g.location
    BY DEF Extend
  <1>10. RedirectsAreSafe'
    <2>1. final'.location \in {"other", "other echo"} => intent'.options.location = "other"
      <3>1. CASE tooLarge \/ handshake # 0
        <4>1. final'.location = options.location
          BY <1>2, <1>8, <3>1
        <4> QED
          BY <1>5, <1>6, <4>1
      <3>2. CASE ~tooLarge /\ handshake = 0
        <4>1. final' = Extend(g, Framework, options)
          BY <1>2, <3>2
        <4>2. final'.location = IF options.location # "none" THEN options.location ELSE g.location
          BY <1>9, <4>1
        <4> QED
          BY <1>5, <1>6, <1>7, <4>2
      <3> QED
        BY <1>4, <3>1, <3>2
    <2>2. ASSUME intent'.error, ~intent'.tooLarge, handshake' = 0, intent'.options.status = 0
          PROVE  final'.status \in {500, 302} /\ (final'.status = 302 => final'.location # "none")
      <3>1. r.error /\ ~tooLarge /\ handshake = 0 /\ options.status = 0
        BY <1>2, <1>6, <2>2
      <3>2. final' = Extend(g, Framework, options)
        BY <1>2, <3>1
      <3>3. /\ final'.status = g.status
            /\ final'.location = IF options.location # "none" THEN options.location ELSE g.location
        BY <1>9, <3>1, <3>2
      <3>4. g.status \in {500, 302} /\ (g.status = 302 => g.location # "none")
        BY <1>7, <3>1
      <3> QED
        BY <3>3, <3>4
    <2> QED
      BY <2>1, <2>2 DEF RedirectsAreSafe
  <1>11. AdapterErrorsStand'
    <2>1. refs' # {} => seen' <= Limit
      BY <1>3 DEF Untouched
    <2>2. ASSUME intent'.tooLarge \/ handshake' # 0
          PROVE  /\ final'.status = IF intent'.tooLarge THEN 413 ELSE handshake'
                 /\ final'.headers["type"] = <<"own">>
                 /\ final'.headers["cookie"] = intent'.options.headers["cookie"]
      <3>1. CASE tooLarge
        BY <1>2, <1>6, <1>8, <3>1
      <3>2. CASE ~tooLarge
        BY <1>2, <1>6, <1>8, <2>2, <3>2
      <3> QED
        BY <1>4, <3>1, <3>2
    <2> QED
      BY <2>1, <2>2 DEF AdapterErrorsStand
  <1> QED
    BY <1>3, <1>10, <1>11 DEF DispatchInv

\* The first chunk of a rendered route is there.
LEMMA FirstChunkKeeps ==
  ASSUME DispatchInv, FirstChunk
  PROVE  DispatchInv'
  <1>1. /\ pc = "run" /\ route = "render"
        /\ Respond(Extend(Plain(200), Framework, options))
    BY DEF FirstChunk
  <1>2. /\ intent' = [error |-> FALSE, options |-> options, tooLarge |-> FALSE]
        /\ final' = Extend(Plain(200), Framework, options) /\ handshake' = handshake
    BY DEF FirstChunk, Respond
  <1>3. /\ DispatchTyped' /\ OneSlot' /\ SlotsAreLatest' /\ FoundLatest'
        /\ Held' /\ Untouched' /\ Answered'
    BY <1>1, RespondKeeps
  <1>4. handshake' = 0
    BY <1>1, <1>2 DEF DispatchInv, Untouched
  <1>5. options.location \in {"none", "other"}
    BY OverrideParts DEF DispatchInv, DispatchTyped
  <1>6. final'.location = options.location
    BY <1>2, <1>5 DEF Extend, Plain, NoOptions
  <1>7. RedirectsAreSafe'
    BY <1>2, <1>5, <1>6 DEF RedirectsAreSafe
  <1>8. AdapterErrorsStand'
    BY <1>2, <1>3, <1>4 DEF AdapterErrorsStand, Untouched
  <1> QED
    BY <1>3, <1>7, <1>8 DEF DispatchInv

\* Every step of Dispatch keeps the invariant.
LEMMA DispatchStep ==
  ASSUME DispatchInv, [Next]_vars
  PROVE  DispatchInv'
  <1>1. CASE UNCHANGED vars
    <2>1. /\ DispatchTyped /\ OneSlot /\ SlotsAreLatest /\ FoundLatest
          /\ Held /\ Untouched /\ Answered /\ RedirectsAreSafe /\ AdapterErrorsStand
      BY DEF DispatchInv
    <2>2. DispatchTyped' /\ OneSlot' /\ SlotsAreLatest' /\ FoundLatest'
      BY <1>1, <2>1 DEF DispatchTyped, OneSlot, SlotsAreLatest, FoundLatest, vars, bodyVars, ownerVars
    <2>3. Held' /\ Untouched' /\ Answered'
      BY <1>1, <2>1 DEF Held, Untouched, Answered, vars, bodyVars, sentVars, ownerVars
    <2>4. UNCHANGED <<intent, final, handshake>>
      BY <1>1 DEF vars, sentVars
    <2> QED
      BY <2>1, <2>2, <2>3, <2>4, AnswerStands DEF DispatchInv
  <1>2. CASE \E m \in Methods, f \in Functions : Register(m, f)
    BY <1>2, RegisterKeeps
  <1>3. CASE \/ \E m \in Methods : Mount(m)
             \/ \E m \in Methods, d \in {"within", "beyond", "malformed", "absent"} : Arrive(m, d)
    BY <1>3, MountKeeps, ArriveKeeps
  <1>4. CASE \E n \in Chunks : Drain(n) \/ ReadChunk(n) \/ \E h \in BOOLEAN : BodyReads(n, h)
    BY <1>4, DrainKeeps, ReadChunkKeeps, BodyReadsKeeps
  <1>5. CASE Drained \/ (\E b \in BOOLEAN : Setup(b) \/ \E h \in Handshakes : Upgrade(h, b))
    BY <1>5, DrainedKeeps, SetupKeeps, UpgradeKeeps
  <1>6. CASE PumpEnds \/ Spawn \/ RunCancelled \/ FirstChunk
    BY <1>6, PumpEndsKeeps, SpawnKeeps, RunCancelledKeeps, FirstChunkKeeps
  <1>7. CASE \E o \in Overrides : Override(o)
    BY <1>7, OverrideKeeps
  <1>8. CASE \E a \in Accepts, ref \in Referers : \E r \in Raw(a, ref) : Finish(a, ref, r)
    BY <1>8, FinishKeeps
  <1>9. CASE \E w \in Works : Release(w) \/ \E b \in BOOLEAN : DropWork(w, b)
    BY <1>9, ReleaseKeeps, DropWorkKeeps
  <1> QED
    BY <1>1, <1>2, <1>3, <1>4, <1>5, <1>6, <1>7, <1>8, <1>9 DEF Next

\* A request starts with nothing done.
LEMMA DispatchStarts ==
  ASSUME NEW point \in {"unrouted", "arrived"}, NEW kind, Start(point, kind)
  PROVE  DispatchInv
  <1>1. DispatchTyped
    <2>1. options \in Overrides
      BY NothingOverridden DEF Start
    <2>2. entries \in Seq([method : Methods, fn : Functions])
      BY DEF Start
    <2>3. latest \in [Methods -> Functions \cup {None}]
      BY DEF Start
    <2>4. tooLarge \in BOOLEAN /\ handshake = 0 /\ seen = 0 /\ pc \in {"unrouted", "arrived"}
      BY DEF Start
    <2>5. scope = "idle" /\ owner = "none" /\ refs = {} /\ work = {}
      BY DEF Start
    <2> QED
      BY <2>1, <2>2, <2>3, <2>4, <2>5 DEF DispatchTyped, Early
  <1>2. OneSlot /\ SlotsAreLatest /\ FoundLatest
    <2>1. DOMAIN entries = {} /\ served = None
      BY DEF Start
    <2>2. \A m \in Methods : latest[m] = None
      BY DEF Start
    <2> QED
      BY <2>1, <2>2 DEF OneSlot, SlotsAreLatest, FoundLatest
  <1>3. Held /\ Untouched /\ Answered
    BY ConstantsAssumption DEF Start, Held, Untouched, Answered, Early
  <1>4. RedirectsAreSafe /\ AdapterErrorsStand
    BY ConstantsAssumption DEF Start, RedirectsAreSafe, AdapterErrorsStand
  <1> QED
    BY <1>1, <1>2, <1>3, <1>4 DEF DispatchInv

-----------------------------------------------------------------------------
(* The file service.                                                       *)

\* A request moves on with its root.
LEMMA GotoKeeps ==
  ASSUME FileInv, NEW r \in Assets, NEW point \in FilePoints, Files!Goto(r, point),
         \/ point \in {"idle", "miss", "done"}
         \/ asset[r].pc \in {"open", "relative"} /\ point \in {"open", "relative"},
         UNCHANGED <<link, cache, sent>>
  PROVE  FileInv'
  <1>1. asset' = [asset EXCEPT ![r].pc = point]
    BY DEF Files!Goto
  <1>2. FileTyped'
    BY <1>1 DEF FileInv, FileTyped
  <1>3. Rooted'
    BY <1>1 DEF FileInv, FileTyped, Rooted, FilePoints
  <1>4. SentRooted'
    BY DEF FileInv, SentRooted, Files!FileSent
  <1> QED
    BY <1>2, <1>3, <1>4 DEF FileInv

\* A response is sent: a file of the stored root, or none.
LEMMA SendKeeps ==
  ASSUME FileInv, NEW r \in Assets, NEW response, Files!Send(r, response),
         response.coding # "none" =>
             response.place = "file" /\ response.root = cache /\ cache # None
  PROVE  FileInv'
  <1>1. /\ asset' = [asset EXCEPT ![r].pc = "done"] /\ sent' = [sent EXCEPT ![r] = response]
        /\ UNCHANGED <<link, cache>>
    BY DEF Files!Send, Files!Goto, Files!namespace
  <1>2. FileTyped'
    <2>1. asset' \in [Assets -> [pc : FilePoints, root : Releases \cup {None},
                                 safe : {None, "name", "target"}]]
      BY <1>1 DEF FileInv, FileTyped, FilePoints
    <2>2. sent' = [x \in Assets |-> sent'[x]]
      BY <1>1 DEF FileInv, FileTyped
    <2> QED
      BY <1>1, <2>1, <2>2 DEF FileInv, FileTyped
  <1>3. Rooted'
    BY <1>1 DEF FileInv, FileTyped, Rooted, FilePoints
  <1>4. ASSUME NEW x \in Assets, Files!FileSent(x)'
        PROVE  sent'[x].place = "file" /\ sent'[x].root = cache' /\ cache' # None
    <2>1. CASE x = r
      <3>1. sent'[x] = response
        BY <1>1, <2>1 DEF FileInv, FileTyped
      <3> QED
        BY <1>1, <1>4, <3>1 DEF Files!FileSent
    <2>2. CASE x # r
      <3>1. sent'[x] = sent[x]
        BY <1>1, <2>2 DEF FileInv, FileTyped
      <3> QED
        BY <1>1, <1>4, <3>1 DEF Files!FileSent, FileInv, SentRooted
    <2> QED
      BY <2>1, <2>2
  <1> QED
    BY <1>2, <1>3, <1>4 DEF FileInv, SentRooted

\* cached_site_root: the root is resolved, and stored once.
LEMMA RootKeeps ==
  ASSUME FileInv, NEW r \in Assets, Files!ResolveRoot(r) \/ Files!StoreRoot(r)
  PROVE  FileInv'
  <1>1. CASE Files!ResolveRoot(r)
    <2>1. UNCHANGED <<link, cache, sent>>
      BY <1>1 DEF Files!ResolveRoot, Files!namespace
    <2>2. CASE cache = None /\ link = None
      <3>1. Files!Goto(r, "miss")
        BY <1>1, <2>2 DEF Files!ResolveRoot
      <3>2. "miss" \in FilePoints
        BY DEF FilePoints
      <3> QED
        BY <2>1, <3>1, <3>2, GotoKeeps
    <2>3. CASE cache # None
      <3>1. asset' = [asset EXCEPT ![r].root = cache, ![r].pc = "check"]
        BY <1>1, <2>3 DEF Files!ResolveRoot
      <3>2. FileTyped'
        BY <2>1, <3>1, ZenonT(60) DEF FileInv, FileTyped, FilePoints
      <3>3. Rooted'
        BY <2>1, <2>3, <3>1 DEF FileInv, FileTyped, Rooted, FilePoints
      <3>4. SentRooted'
        BY <2>1 DEF FileInv, SentRooted, Files!FileSent
      <3> QED
        BY <3>2, <3>3, <3>4 DEF FileInv
    <2>4. CASE cache = None /\ link # None
      <3>1. asset' = [asset EXCEPT ![r].root = link, ![r].pc = "store"]
        BY <1>1, <2>4 DEF Files!ResolveRoot
      <3>2. FileTyped'
        BY <2>1, <3>1, ZenonT(60) DEF FileInv, FileTyped, FilePoints
      <3>3. Rooted'
        BY <2>1, <2>4, <3>1 DEF FileInv, FileTyped, Rooted, FilePoints
      <3>4. SentRooted'
        BY <2>1 DEF FileInv, SentRooted, Files!FileSent
      <3> QED
        BY <3>2, <3>3, <3>4 DEF FileInv
    <2> QED
      BY <2>2, <2>3, <2>4
  <1>2. CASE Files!StoreRoot(r)
    <2>1. PICK root \in Releases : root = IF cache = None THEN asset[r].root ELSE cache
      BY <1>2 DEF Files!StoreRoot, Files!At, FileInv, FileTyped, Rooted
    <2>2. /\ cache' = root /\ root # None
          /\ asset' = [asset EXCEPT ![r].root = root, ![r].pc = "check"]
          /\ UNCHANGED <<link, sent>>
      BY <1>2, <2>1 DEF Files!StoreRoot, Files!At, Files!Stored, Files!namespace, FileInv, FileTyped, Rooted
    <2>3. cache # None => cache' = cache
      BY <2>1, <2>2
    <2>4. FileTyped'
      BY <2>2, ZenonT(60) DEF FileInv, FileTyped, FilePoints
    <2>5. Rooted'
      BY <2>2, <2>3 DEF FileInv, FileTyped, Rooted, FilePoints
    <2>6. SentRooted'
      BY <2>2, <2>3 DEF FileInv, SentRooted, Files!FileSent
    <2> QED
      BY <2>4, <2>5, <2>6 DEF FileInv
  <1> QED
    BY <1>1, <1>2

\* A request is checked or resolved again, under the root it has.
LEMMA SafeKeeps ==
  ASSUME FileInv, NEW r \in Assets, asset[r].pc \in {"check", "relative"},
         NEW point \in {"open", "reopen"}, NEW safe \in {"name", "target"},
         asset' = [asset EXCEPT ![r].pc = point, ![r].safe = safe],
         UNCHANGED <<link, cache, sent>>
  PROVE  FileInv'
  <1>1. FileTyped'
    BY ZenonT(60) DEF FileInv, FileTyped, FilePoints
  <1>2. Rooted'
    BY DEF FileInv, FileTyped, Rooted, FilePoints
  <1>3. SentRooted'
    BY DEF FileInv, SentRooted, Files!FileSent
  <1> QED
    BY <1>1, <1>2, <1>3 DEF FileInv

\* safe_subpath and SiteRoot::relative do that.
LEMMA CheckKeeps ==
  ASSUME FileInv, NEW r \in Assets, Files!Relative(r) \/ \E path : Files!CheckPath(r, path)
  PROVE  FileInv'
  <1>1. /\ asset[r].pc \in {"check", "relative"} /\ UNCHANGED <<link, cache, sent>>
        /\ \/ Files!Goto(r, "miss")
           \/ \E point \in {"open", "reopen"}, safe \in {"name", "target"} :
                 asset' = [asset EXCEPT ![r].pc = point, ![r].safe = safe]
    BY DEF Files!Relative, Files!CheckPath, Files!At, Files!namespace
  <1>2. "miss" \in FilePoints
    BY DEF FilePoints
  <1> QED
    BY <1>1, <1>2, GotoKeeps, SafeKeeps

\* A file is served from the root of its request.
LEMMA ServeKeeps ==
  ASSUME FileInv, NEW r \in Assets, asset[r].pc \in {"open", "reopen"},
         NEW place, NEW coding, NEW fields, Files!Serve(r, place, coding, fields),
         coding # "none" => place = "file"
  PROVE  FileInv'
  <1>1. PICK response : /\ Files!Send(r, response)
                        /\ response.coding = coding /\ response.place = place
                        /\ response.root = asset[r].root
    BY DEF Files!Serve
  <1>2. asset[r].root = cache /\ cache # None
    BY DEF FileInv, Rooted
  <1> QED
    BY <1>1, <1>2, SendKeeps

\* SiteRoot::open_file serves a regular file or goes on.
LEMMA OpenKeeps ==
  ASSUME FileInv, NEW r \in Assets, NEW fields,
         Files!OpenFile(r, fields) \/ Files!OpenRelative(r, fields)
  PROVE  FileInv'
  <1>1. "relative" \in FilePoints /\ "miss" \in FilePoints
    BY DEF FilePoints
  <1>2. CASE Files!OpenFile(r, fields)
    <2> DEFINE coding == Files!Negotiated(Files!AcceptedEncodings(fields.items),
                            IF asset[r].safe = "name" THEN siblings[asset[r].root] ELSE {})
               kind == IF asset[r].safe = "name" THEN tree[asset[r].root] ELSE "file"
    <2>1. /\ asset[r].pc = "open"
          /\ IF coding # "identity" \/ kind = "file"
               THEN Files!Serve(r, IF coding = "identity" THEN kind ELSE "file", coding, fields)
               ELSE Files!Goto(r, "relative") /\ UNCHANGED <<link, cache, sent>>
      BY <1>2 DEF Files!OpenFile, Files!At, Files!CapabilityOpens, Files!namespace
    <2> HIDE DEF coding, kind
    <2>2. CASE coding # "identity" \/ kind = "file"
      <3>1. (IF coding = "identity" THEN kind ELSE "file") = "file"
        BY <2>2
      <3> QED
        BY <2>1, <2>2, <3>1, ServeKeeps
    <2>3. CASE ~(coding # "identity" \/ kind = "file")
      BY <1>1, <2>1, <2>3, GotoKeeps
    <2> QED
      BY <2>2, <2>3
  <1>3. CASE Files!OpenRelative(r, fields)
    <2> DEFINE kind == IF asset[r].safe = "name" THEN tree[asset[r].root] ELSE "file"
    <2>1. /\ asset[r].pc = "reopen"
          /\ IF kind = "file" THEN Files!Serve(r, kind, "identity", fields)
             ELSE Files!Goto(r, "miss") /\ UNCHANGED <<link, cache, sent>>
      BY <1>3 DEF Files!OpenRelative, Files!At, Files!CapabilityOpens, Files!namespace
    <2> HIDE DEF kind
    <2>2. CASE kind = "file"
      BY <2>1, <2>2, ServeKeeps
    <2>3. CASE kind # "file"
      BY <1>1, <2>1, <2>3, GotoKeeps
    <2> QED
      BY <2>2, <2>3
  <1> QED
    BY <1>2, <1>3

\* Every step of the file service and of a deployment keeps the invariant.
LEMMA FileStepKeeps ==
  ASSUME FileInv, Files!FileNext
  PROVE  FileInv'
  <1>1. CASE Files!MountFiles \/ \E release \in Releases :
                Files!MoveLink(release) \/ \E kind \in Files!Kinds : Files!Replace(release, kind)
    <2>1. (CHOOSE release \in Releases : TRUE) \in Releases
      BY ReleasesAssumption
    <2>2. link' \in Releases \cup {None} /\ UNCHANGED <<cache, asset, sent>>
      BY <1>1, <2>1 DEF Files!MountFiles, Files!MoveLink, Files!Replace, FileInv, FileTyped
    <2>3. FileTyped'
      BY <2>2 DEF FileInv, FileTyped
    <2>4. Rooted' /\ SentRooted'
      BY <2>2 DEF FileInv, Rooted, SentRooted, Files!FileSent
    <2> QED
      BY <2>3, <2>4 DEF FileInv
  <1>2. ASSUME NEW r \in Assets, Files!FileStep(r)
        PROVE  FileInv'
    <2>1. CASE Files!ResolveRoot(r) \/ Files!StoreRoot(r)
      BY <2>1, RootKeeps
    <2>2. CASE Files!Relative(r) \/ \E path \in PathsOf[r] : Files!CheckPath(r, path)
      BY <2>2, CheckKeeps
    <2>3. CASE Files!OutOfScope(r)
      <3>1. Files!Send(r, Files!NoFile(500)) /\ Files!NoFile(500).coding = "none"
        BY <2>3 DEF Files!OutOfScope, Files!NoFile
      <3> QED
        BY <3>1, SendKeeps
    <2>4. CASE \E fields \in Files!FieldsNow : Files!OpenFile(r, fields)
      BY <2>4, OpenKeeps
    <2>5. CASE \E fields \in PlainFields : Files!OpenRelative(r, fields)
      BY <2>5, OpenKeeps
    <2>6. CASE \E fields \in PlainFields : Files!Miss(r, fields)
      <3>1. PICK status : Files!Send(r, Files!NoFile(status))
        BY <2>6 DEF Files!Miss
      <3>2. Files!NoFile(status).coding = "none"
        BY DEF Files!NoFile
      <3> QED
        BY <3>1, <3>2, SendKeeps
    <2> QED
      BY <1>2, <2>1, <2>2, <2>3, <2>4, <2>5, <2>6 DEF Files!FileStep
  <1> QED
    BY <1>1, <1>2 DEF Files!FileNext

-----------------------------------------------------------------------------
(* The responses of the file service.                                      *)

\* The first of some positions.
LEMMA FirstPosition ==
  ASSUME NEW S \in SUBSET Nat, NEW k \in S, \A j \in S : k <= j
  PROVE  Files!Min(S) = k
  <1>1. \E x \in S : \A y \in S : x <= y
    OBVIOUS
  <1>2. ASSUME NEW x \in S, \A y \in S : x <= y
        PROVE  x = k
    <2>1. x \in Nat /\ k \in Nat /\ x <= k /\ k <= x
      BY <1>2
    <2> QED
      BY <2>1
  <1> QED
    BY <1>1, <1>2 DEF Files!Min

\* Of the steps of RFC 9110 the first that applies decides.
LEMMA FirstStepDecides ==
  ASSUME NEW file, NEW h, NEW steps, steps = Files!PreconditionSteps(file, h)
  PROVE  Files!RequiredStatus(file, h, 200) =
           IF 1 \in steps THEN 412 ELSE IF 2 \in steps THEN 412
           ELSE IF 3 \in steps THEN IF Files!HeadOrGet(h) THEN 304 ELSE 412
           ELSE IF 4 \in steps THEN 304 ELSE IF 5 \in steps THEN 400
           ELSE IF 6 \in steps THEN 206 ELSE IF 7 \in steps THEN 416 ELSE 200
  <1>1. steps \subseteq 1..7
    BY DEF Files!PreconditionSteps
  <1>2. Files!RequiredStatus(file, h, 200) =
          IF steps = {} THEN 200 ELSE Files!Answers(h)[Files!Min(steps)]
    <2>1. Files!IsSuccess(200)
      BY DEF Files!IsSuccess
    <2>2. steps = {s \in steps : 200 # 200 => Files!Answers(h)[s] \in {304, 412}}
      OBVIOUS
    <2>3. Files!RequiredStatus(file, h, 200) =
            LET decide == {s \in steps : 200 # 200 => Files!Answers(h)[s] \in {304, 412}}
            IN  IF ~Files!IsSuccess(200) \/ decide = {} THEN 200
                ELSE Files!Answers(h)[Files!Min(decide)]
      BY Zenon DEF Files!RequiredStatus
    <2> QED
      BY <2>1, <2>2, <2>3, ZenonT(30)
  <1>3. ASSUME NEW k \in 1..7, k \in steps, \A j \in 1..7 : j < k => j \notin steps
        PROVE  Files!RequiredStatus(file, h, 200) = Files!Answers(h)[k]
    <2>1. steps \in SUBSET Nat /\ k \in steps
      BY <1>1, <1>3
    <2>2. \A j \in steps : k <= j
      BY <1>1, <1>3
    <2>3. Files!Min(steps) = k
      BY <2>1, <2>2, FirstPosition
    <2>4. steps # {}
      BY <1>3
    <2> QED
      BY <1>2, <2>3, <2>4, Zenon
  <1>4. /\ Files!Answers(h)[1] = 412 /\ Files!Answers(h)[2] = 412
        /\ Files!Answers(h)[3] = (IF Files!HeadOrGet(h) THEN 304 ELSE 412)
        /\ Files!Answers(h)[4] = 304 /\ Files!Answers(h)[5] = 400
        /\ Files!Answers(h)[6] = 206 /\ Files!Answers(h)[7] = 416
    BY DEF Files!Answers
  <1>5. \A j \in 1..7 : j \in {1, 2, 3, 4, 5, 6, 7}
    OBVIOUS
  <1>6. \/ 1 \in steps \/ 2 \in steps \/ 3 \in steps \/ 4 \in steps \/ 5 \in steps \/ 6 \in steps
        \/ 7 \in steps \/ steps = {}
    BY <1>1, <1>5
  <1>7. ASSUME NEW k \in 1..7, NEW s \in steps, ~ \E j \in 1..7 : j < k /\ j \in steps
        PROVE  k <= s
    BY <1>1, <1>7
  <1>8. CASE 1 \in steps
    BY <1>3, <1>4, <1>8
  <1>9. CASE 1 \notin steps /\ 2 \in steps
    BY <1>3, <1>4, <1>9
  <1>10. CASE 1 \notin steps /\ 2 \notin steps /\ 3 \in steps
    BY <1>3, <1>4, <1>10
  <1>11. CASE 1 \notin steps /\ 2 \notin steps /\ 3 \notin steps /\ 4 \in steps
    BY <1>3, <1>4, <1>11
  <1>12. CASE 1 \notin steps /\ 2 \notin steps /\ 3 \notin steps /\ 4 \notin steps /\ 5 \in steps
    BY <1>3, <1>4, <1>12
  <1>13. CASE /\ 1 \notin steps /\ 2 \notin steps /\ 3 \notin steps /\ 4 \notin steps /\ 5 \notin steps
              /\ 6 \in steps
    BY <1>3, <1>4, <1>13
  <1>14. CASE /\ 1 \notin steps /\ 2 \notin steps /\ 3 \notin steps /\ 4 \notin steps /\ 5 \notin steps
              /\ 6 \notin steps /\ 7 \in steps
    BY <1>3, <1>4, <1>14
  <1>15. CASE steps = {}
    BY <1>2, <1>15
  <1> QED
    BY <1>6, <1>8, <1>9, <1>10, <1>11, <1>12, <1>13, <1>14, <1>15

\* The fields any request of the instance may carry.
AllFields == PlainFields \cup Negotiating \cup Conditional

\* file_response answers as required.
LEMMA AsRequired ==
  ASSUME NEW fields \in AllFields, NEW file \in Files!Files, file.usable,
         NEW h, h = fields.conditions
  PROVE  Files!FileResponse(file, h, 200) = Files!RequiredStatus(file, h, 200)
  <1>1. h \in [method : STRING,
               ifMatch : Seq(SUBSET {"same", "weak", "other", "any"}),
               ifNoneMatch : Seq(SUBSET {"same", "weak", "other", "any"}),
               unmodified : {"none", "before", "equal", "after"},
               modified : {"none", "before", "equal", "after"},
               range : {"none", "within", "beyond", "items", "garbled"},
               ifRange : {"none", "same", "weak", "other", "before", "equal", "after"}]
    BY FieldsAssumption DEF AllFields
  <1>2. PICK M, N : M = UNION Files!ToSet(h.ifMatch) /\ N = UNION Files!ToSet(h.ifNoneMatch)
    OBVIOUS
  <1>3. PICK steps : steps = Files!PreconditionSteps(file, h)
    OBVIOUS
  <1> DEFINE get == h.method \in {"GET", "HEAD"}
             exact == h.ifRange = "none" \/ (file.dated /\ h.ifRange \in {"same", "equal"})
             asks == h.method = "GET" /\ exact
  <1>4. /\ 1 \in steps <=> /\ h.ifMatch # <<>> /\ "any" \notin M
                           /\ file.dated => "same" \notin M
        /\ 2 \in steps <=> h.ifMatch = <<>> /\ file.dated /\ h.unmodified = "before"
        /\ 3 \in steps <=> /\ h.ifNoneMatch # <<>>
                           /\ "any" \in N \/ (file.dated /\ ("same" \in N \/ "weak" \in N))
        /\ 4 \in steps <=> /\ h.ifNoneMatch = <<>> /\ get
                           /\ file.dated /\ h.modified \in {"equal", "after"}
        /\ 5 \in steps <=> asks /\ h.range = "garbled"
        /\ 6 \in steps <=> asks /\ h.range = "within" /\ file.size > 0
        /\ 7 \in steps <=> asks /\ h.range \in {"within", "beyond"}
    <2> DEFINE current == IF file.dated THEN {"same"} ELSE {}
               weak == IF file.dated THEN {"same", "weak"} ELSE {}
               strict == IF file.dated THEN {"none", "same", "equal"} ELSE {"none"}
    <2>1. steps = {s \in 1..7 :
            \/ s = 1 /\ h.ifMatch # <<>> /\ ("any" \notin M /\ M \cap current = {})
            \/ s = 2 /\ h.ifMatch = <<>> /\ file.dated /\ h.unmodified = "before"
            \/ s = 3 /\ h.ifNoneMatch # <<>> /\ ~("any" \notin N /\ N \cap weak = {})
            \/ s = 4 /\ h.ifNoneMatch = <<>> /\ Files!HeadOrGet(h) /\ file.dated /\ h.modified \in {"equal", "after"}
            \/ s = 5 /\ (h.method = "GET" /\ h.ifRange \in strict) /\ h.range = "garbled"
            \/ s = 6 /\ (h.method = "GET" /\ h.ifRange \in strict) /\ h.range = "within" /\ file.size > 0
            \/ s = 7 /\ (h.method = "GET" /\ h.ifRange \in strict) /\ h.range \in {"within", "beyond"}}
      BY <1>2, <1>3, Zenon DEF Files!PreconditionSteps
    <2>2. M \cap current = {} <=> (file.dated => "same" \notin M)
      OBVIOUS
    <2>3. N \cap weak = {} <=> ~(file.dated /\ ("same" \in N \/ "weak" \in N))
      OBVIOUS
    <2>4. h.ifRange \in strict <=> exact
      OBVIOUS
    <2>5. Files!HeadOrGet(h) <=> get
      BY DEF Files!HeadOrGet
    <2> HIDE DEF current, weak, strict, exact, get
    <2> QED
      BY <2>1, <2>2, <2>3, <2>4, <2>5
  <1>5. PICK p : p = Files!Projected(h, 200)
    OBVIOUS
  <1>6. /\ p.ifMatch = IF h.ifMatch = <<>> THEN <<>> ELSE <<M>>
        /\ p.ifNoneMatch = IF h.ifNoneMatch = <<>> THEN <<>> ELSE <<N>>
        /\ p.unmodified = IF h.ifMatch # <<>> THEN "none" ELSE h.unmodified
        /\ p.modified = IF get THEN h.modified ELSE "none"
    BY <1>1, <1>2, <1>5 DEF Files!Projected, Files!IsSuccess, Files!Combined, Files!HeadOrGet
  <1>7. Files!NamedFile(file, p) =
           IF 1 \in steps \/ 2 \in steps THEN 412 ELSE IF 3 \in steps \/ 4 \in steps THEN 304 ELSE 200
    <2>1. /\ p.ifMatch # <<>> <=> h.ifMatch # <<>>
          /\ p.ifNoneMatch # <<>> <=> h.ifNoneMatch # <<>>
          /\ h.ifMatch # <<>> => Head(p.ifMatch) = M
          /\ h.ifNoneMatch # <<>> => Head(p.ifNoneMatch) = N
      BY <1>6
    <2>2. /\ M \cap {"same"} # {} <=> "same" \in M
          /\ N \cap {"same", "weak"} # {} <=> "same" \in N \/ "weak" \in N
      OBVIOUS
    <2>3. p.unmodified = "before" <=> h.ifMatch = <<>> /\ h.unmodified = "before"
      BY <1>6
    <2>4. p.modified \in {"equal", "after"} <=> get /\ h.modified \in {"equal", "after"}
      BY <1>6
    <2> QED
      BY <1>4, <2>1, <2>2, <2>3, <2>4 DEF Files!NamedFile, Files!HasValidators
  <1>8. PICK answer : answer = Files!NamedFile(file, p)
    OBVIOUS
  <1>9. Files!FileResponse(file, h, 200) =
           IF h.range \notin {"none", "items"} /\ h.method = "GET"
             THEN IF answer \in {304, 412} THEN answer
                  ELSE IF ~exact THEN answer
                  ELSE IF h.range = "garbled" THEN 400
                  ELSE IF file.size > 0 /\ h.range = "within" THEN 206 ELSE 416
           ELSE IF answer = 304 /\ ~get THEN 412
           ELSE answer
    BY <1>5, <1>8 DEF Files!FileResponse, Files!IsRedirection, Files!RangeApplies,
       Files!IfRangeMatches, Files!HasValidators, Files!Selected, Files!Based, Files!HeadOrGet
  <1>10. Files!HeadOrGet(h) <=> get
    BY DEF Files!HeadOrGet
  <1>11. h.range \in {"none", "within", "beyond", "items", "garbled"}
    BY <1>1
  <1>12. CASE answer \in {304, 412}
    <2>1. Files!RequiredStatus(file, h, 200) =
            IF 1 \in steps \/ 2 \in steps THEN 412 ELSE IF get THEN 304 ELSE 412
      <3>1. 4 \in steps => get
        BY <1>4
      <3>2. Files!RequiredStatus(file, h, 200) =
              IF 1 \in steps THEN 412 ELSE IF 2 \in steps THEN 412
              ELSE IF 3 \in steps THEN IF get THEN 304 ELSE 412
              ELSE IF 4 \in steps THEN 304 ELSE IF 5 \in steps THEN 400
              ELSE IF 6 \in steps THEN 206 ELSE IF 7 \in steps THEN 416 ELSE 200
        BY <1>3, <1>10, FirstStepDecides
      <3>3. 1 \in steps \/ 2 \in steps \/ 3 \in steps \/ 4 \in steps
        BY <1>7, <1>8, <1>12
      <3> HIDE DEF get
      <3> QED
        BY <3>1, <3>2, <3>3
    <2>2. h.method = "GET" => get
      OBVIOUS
    <2> HIDE DEF get, exact
    <2> QED
      BY <1>7, <1>8, <1>9, <1>12, <2>1, <2>2
  <1>13. CASE answer = 200
    <2>1. 1 \notin steps /\ 2 \notin steps /\ 3 \notin steps /\ 4 \notin steps
      BY <1>7, <1>8, <1>13
    <2>2. Files!RequiredStatus(file, h, 200) =
            IF 5 \in steps THEN 400 ELSE IF 6 \in steps THEN 206 ELSE IF 7 \in steps THEN 416 ELSE 200
      BY <1>3, <2>1, FirstStepDecides
    <2> QED
      BY <1>4, <1>9, <1>11, <1>13, <2>2
  <1> QED
    BY <1>7, <1>8, <1>12, <1>13

\* What open_static_file chooses, of weights 1 and 2 and None for what is not
\* wanted: b and g for the variants, i for identity if it has one.
Choice(b, g, i, plain, variants) ==
    LET opens(v, q) == v \in variants /\ q # None /\ ~(i # None /\ i > q)
    IN  IF opens("br", b) /\ (opens("gzip", g) => ~(g > b)) THEN "br"
        ELSE IF opens("gzip", g) THEN "gzip"
        ELSE IF plain THEN "identity" ELSE "none"

\* It is what the search through the preferences ends with.
LEMMA ChoiceMade ==
  ASSUME NEW b \in {None, 1, 2}, NEW g \in {None, 1, 2}, NEW i \in {None, 0, 1, 2}, NEW plain \in BOOLEAN,
         NEW variants \in SUBSET {"br", "gzip"}, NEW accepted,
         accepted = [br |-> b, gzip |-> g, identity |-> plain, identity_q |-> i]
  PROVE  Files!Negotiated(accepted, variants) = Choice(b, g, i, plain, variants)
  <1>1. /\ accepted.br = b /\ accepted.gzip = g /\ accepted.identity_q = i
        /\ accepted["br"] = b /\ accepted["gzip"] = g /\ accepted.identity <=> plain
    OBVIOUS
  <1>2. PICK s : s = Files!PrecompressedPreference(accepted)
    OBVIOUS
  <1> DEFINE out(v) == Files!Outweighed(accepted, v)
             open == {k \in DOMAIN s : ~out(s[k]) /\ s[k] \in variants}
  <1>3. Files!Negotiated(accepted, variants) =
          IF open # {} THEN s[Files!Min(open)] ELSE IF plain THEN "identity" ELSE "none"
    BY <1>1, <1>2 DEF Files!Negotiated
  <1>4. (out("br") <=> i # None /\ i > b) /\ (out("gzip") <=> i # None /\ i > g)
    BY <1>1 DEF Files!Outweighed
  <1>5. s = IF g = None THEN IF b = None THEN <<>> ELSE <<"br">>
            ELSE IF b = None THEN <<"gzip">>
            ELSE IF g > b THEN <<"gzip", "br">> ELSE <<"br", "gzip">>
    BY <1>1, <1>2 DEF Files!PrecompressedPreference
  <1> HIDE DEF out
  <1>6. ASSUME NEW k \in DOMAIN s, DOMAIN s \in SUBSET Nat, k \in open, \A j \in open : k <= j
        PROVE  Files!Negotiated(accepted, variants) = s[k]
    <2>1. open \in SUBSET Nat /\ open # {}
      BY <1>6
    <2>2. Files!Min(open) = k
      BY <1>6, <2>1, FirstPosition
    <2> HIDE DEF open
    <2> QED
      BY <1>3, <2>1, <2>2
  <1>7. CASE g = None /\ b = None
    <2>1. s = <<>> /\ DOMAIN s = {}
      BY <1>5, <1>7
    <2>2. open = {}
      BY <2>1
    <2> HIDE DEF open
    <2> QED
      BY <1>3, <1>7, <2>2 DEF Choice
  <1>8. CASE g = None /\ b # None
    <2>1. s = <<"br">> /\ DOMAIN s = {1} /\ s[1] = "br"
      BY <1>5, <1>8
    <2>2. CASE out("br") \/ "br" \notin variants
      <3>1. open = {}
        BY <2>1, <2>2
      <3> HIDE DEF open
      <3> QED
        BY <1>3, <1>4, <1>8, <2>2, <3>1 DEF Choice
    <2>3. CASE ~out("br") /\ "br" \in variants
      <3>1. 1 \in open /\ \A j \in open : 1 <= j
        BY <2>1, <2>3
      <3>2. Files!Negotiated(accepted, variants) = "br"
        BY <1>6, <2>1, <3>1
      <3> QED
        BY <1>4, <1>8, <2>3, <3>2 DEF Choice
    <2> QED
      BY <2>2, <2>3
  <1>9. CASE g # None /\ b = None
    <2>1. s = <<"gzip">> /\ DOMAIN s = {1} /\ s[1] = "gzip"
      BY <1>5, <1>9
    <2>2. CASE out("gzip") \/ "gzip" \notin variants
      <3>1. open = {}
        BY <2>1, <2>2
      <3> HIDE DEF open
      <3> QED
        BY <1>3, <1>4, <1>9, <2>2, <3>1 DEF Choice
    <2>3. CASE ~out("gzip") /\ "gzip" \in variants
      <3>1. 1 \in open /\ \A j \in open : 1 <= j
        BY <2>1, <2>3
      <3>2. Files!Negotiated(accepted, variants) = "gzip"
        BY <1>6, <2>1, <3>1
      <3> QED
        BY <1>4, <1>9, <2>3, <3>2 DEF Choice
    <2> QED
      BY <2>2, <2>3
  <1>10. ASSUME g # None, b # None, NEW x \in {"br", "gzip"}, NEW y \in {"br", "gzip"}, x # y,
                s = <<x, y>>
         PROVE  Files!Negotiated(accepted, variants) =
                  IF ~out(x) /\ x \in variants THEN x ELSE IF ~out(y) /\ y \in variants THEN y
                  ELSE IF plain THEN "identity" ELSE "none"
    <2>1. DOMAIN s = {1, 2} /\ s[1] = x /\ s[2] = y
      BY <1>10
    <2>2. CASE ~out(x) /\ x \in variants
      <3>1. 1 \in open /\ \A j \in open : 1 <= j
        BY <2>1, <2>2
      <3> QED
        BY <1>6, <2>1, <2>2, <3>1
    <2>3. CASE ~(~out(x) /\ x \in variants) /\ (~out(y) /\ y \in variants)
      <3>1. 2 \in open /\ \A j \in open : j = 2
        BY <2>1, <2>3
      <3> QED
        BY <1>6, <2>1, <2>3, <3>1
    <2>4. CASE ~(~out(x) /\ x \in variants) /\ ~(~out(y) /\ y \in variants)
      <3>1. open = {}
        BY <2>1, <2>4
      <3> HIDE DEF open
      <3> QED
        BY <1>3, <2>4, <3>1
    <2> QED
      BY <2>2, <2>3, <2>4
  <1>11. CASE g # None /\ b # None /\ g > b
    <2>1. s = <<"gzip", "br">>
      BY <1>5, <1>11
    <2>2. Files!Negotiated(accepted, variants) =
            IF ~out("gzip") /\ "gzip" \in variants THEN "gzip"
            ELSE IF ~out("br") /\ "br" \in variants THEN "br"
            ELSE IF plain THEN "identity" ELSE "none"
      BY <1>10, <1>11, <2>1
    <2> QED
      BY <1>4, <1>11, <2>2 DEF Choice
  <1>12. CASE g # None /\ b # None /\ ~(g > b)
    <2>1. s = <<"br", "gzip">>
      BY <1>5, <1>12
    <2>2. Files!Negotiated(accepted, variants) =
            IF ~out("br") /\ "br" \in variants THEN "br"
            ELSE IF ~out("gzip") /\ "gzip" \in variants THEN "gzip"
            ELSE IF plain THEN "identity" ELSE "none"
      BY <1>10, <1>12, <2>1
    <2> QED
      BY <1>4, <1>12, <2>2 DEF Choice
  <1> QED
    BY <1>7, <1>8, <1>9, <1>11, <1>12

\* It is the best acceptable coding.
LEMMA BestChosen ==
  ASSUME NEW items, NEW variants \in SUBSET {"br", "gzip"}
  PROVE  Files!BestCoding(items, Files!Negotiated(Files!AcceptedEncodings(items), variants),
                          {"identity"} \cup variants)
  <1>1. None \notin {0, 1, 2}
    BY FieldsAssumption
  <1>2. PICK b, g, i, w \in {None, 0, 1, 2} :
           /\ b = Files!Listed(items, "br") /\ g = Files!Listed(items, "gzip")
           /\ i = Files!Listed(items, "identity") /\ w = Files!Listed(items, "*")
    <2>1. \A t : Files!Listed(items, t) \in {None, 0, 1, 2}
      <3>1. \A q : Files!Weight(q) \in {0, 1, 2}
        BY DEF Files!Weight
      <3> QED
        BY <3>1 DEF Files!Listed
    <2> QED
      BY <2>1
  <1>3. PICK eb, eg, ei \in {None, 0, 1, 2} :
           /\ eb = Files!Or(b, w) /\ eg = Files!Or(g, w) /\ ei = Files!Or(i, w)
    BY DEF Files!Or
  <1>4. PICK pb, pg \in {None, 1, 2} : pb = Files!Positive(eb) /\ pg = Files!Positive(eg)
    BY DEF Files!Positive
  <1>5. PICK plain \in BOOLEAN : plain <=> (IF i = None THEN w # 0 ELSE i > 0)
    OBVIOUS
  <1>6. Files!AcceptedEncodings(items) = [br |-> pb, gzip |-> pg, identity |-> plain, identity_q |-> i]
    BY <1>2, <1>3, <1>4, <1>5 DEF Files!AcceptedEncodings
  <1>7. PICK chosen : chosen = Choice(pb, pg, i, plain, variants)
    OBVIOUS
  <1>8. Files!Negotiated(Files!AcceptedEncodings(items), variants) = chosen
    BY <1>6, <1>7, ChoiceMade
  <1>9. /\ Files!Acceptable(items, "br") <=> pb # None
        /\ Files!Acceptable(items, "gzip") <=> pg # None
        /\ Files!Acceptable(items, "identity") <=> plain
    BY <1>1, <1>2, <1>3, <1>4, <1>5 DEF Files!Acceptable, Files!Or, Files!Positive
  <1>10. /\ pb # None => Files!Rank(items, "br") = 3 * pb + 2
         /\ pg # None => Files!Rank(items, "gzip") = 3 * pg + 1
         /\ Files!Rank(items, "identity") = IF i = None THEN 0 ELSE 3 * i
    BY <1>1, <1>2, <1>3, <1>4 DEF Files!Rank, Files!Or, Files!Positive
  <1> DEFINE candidates == {c \in {"identity"} \cup variants : Files!Acceptable(items, c)}
  <1>11. /\ "br" \in candidates <=> "br" \in variants /\ pb # None
         /\ "gzip" \in candidates <=> "gzip" \in variants /\ pg # None
         /\ "identity" \in candidates <=> plain
         /\ candidates \subseteq {"br", "gzip", "identity"}
    BY <1>9
  <1>12. i # None /\ i > 0 => plain
    BY <1>5
  <1> HIDE DEF candidates
  <1>13. IF candidates = {} THEN chosen = "none"
         ELSE /\ chosen \in candidates
              /\ \A c \in candidates : Files!Rank(items, c) <= Files!Rank(items, chosen)
    <2> DEFINE opens(v, q) == v \in variants /\ q # None /\ ~(i # None /\ i > q)
    <2>1. CASE opens("br", pb) /\ (opens("gzip", pg) => ~(pg > pb))
      <3>1. chosen = "br" /\ "br" \in candidates
        BY <1>7, <1>11, <2>1 DEF Choice
      <3>2. "gzip" \in candidates => Files!Rank(items, "gzip") <= Files!Rank(items, "br")
        BY <1>1, <1>10, <1>11, <2>1
      <3>3. Files!Rank(items, "identity") <= Files!Rank(items, "br")
        BY <1>1, <1>10, <1>11, <2>1
      <3>4. Files!Rank(items, "br") <= Files!Rank(items, "br")
        BY <1>1, <1>10, <2>1
      <3> QED
        BY <1>11, <3>1, <3>2, <3>3, <3>4
    <2>2. CASE ~(opens("br", pb) /\ (opens("gzip", pg) => ~(pg > pb))) /\ opens("gzip", pg)
      <3>1. chosen = "gzip" /\ "gzip" \in candidates
        BY <1>7, <1>11, <2>2 DEF Choice
      <3>2. "br" \in candidates => Files!Rank(items, "br") <= Files!Rank(items, "gzip")
        BY <1>1, <1>10, <1>11, <2>2
      <3>3. Files!Rank(items, "identity") <= Files!Rank(items, "gzip")
        BY <1>1, <1>10, <1>11, <2>2
      <3>4. Files!Rank(items, "gzip") <= Files!Rank(items, "gzip")
        BY <1>1, <1>10, <2>2
      <3> QED
        BY <1>11, <3>1, <3>2, <3>3, <3>4
    <2>3. CASE ~opens("br", pb) /\ ~opens("gzip", pg)
      <3>1. chosen = IF plain THEN "identity" ELSE "none"
        BY <1>7, <2>3 DEF Choice
      <3>2. ASSUME ~plain
            PROVE  candidates = {}
        BY <1>1, <1>11, <1>12, <2>3, <3>2
      <3>3. ASSUME plain
            PROVE  /\ "identity" \in candidates
                   /\ \A c \in candidates : Files!Rank(items, c) <= Files!Rank(items, "identity")
        <4>1. "br" \in candidates => Files!Rank(items, "br") <= Files!Rank(items, "identity")
          BY <1>1, <1>10, <1>11, <2>3
        <4>2. "gzip" \in candidates => Files!Rank(items, "gzip") <= Files!Rank(items, "identity")
          BY <1>1, <1>10, <1>11, <2>3
        <4>3. Files!Rank(items, "identity") <= Files!Rank(items, "identity")
          BY <1>1, <1>10
        <4> QED
          BY <1>11, <3>3, <4>1, <4>2, <4>3
      <3> QED
        BY <3>1, <3>2, <3>3
    <2> QED
      BY <2>1, <2>2, <2>3
  <1> QED
    BY <1>8, <1>13 DEF Files!BestCoding, candidates

\* A response as it should be.
Conforms(s) ==
    s.vary =>
        /\ Files!BestCoding(s.fields.items, s.coding,
                            {"identity"} \cup (IF s.safe = "name" THEN s.siblings ELSE {}))
        /\ s.fields.option = None /\ s.coding # "none" /\ s.file.usable =>
              s.status = Files!RequiredStatus(s.file, s.fields.conditions, 200)

\* Every response sent is.
Conformed ==
    /\ siblings \in [Releases -> SUBSET {"br", "gzip"}]
    /\ \A r \in Assets : sent[r] # None => Conforms(sent[r])

\* A response is sent, and the others stay as they are.
LEMMA SendConforms ==
  ASSUME FileInv, Conformed, NEW r \in Assets, NEW response, Files!Send(r, response),
         Conforms(response)
  PROVE  Conformed'
  <1>1. sent' = [sent EXCEPT ![r] = response] /\ siblings' = siblings
    BY DEF Files!Send, Files!namespace
  <1>2. \A x \in Assets : sent'[x] = IF x = r THEN response ELSE sent[x]
    BY <1>1 DEF FileInv, FileTyped
  <1> QED
    BY <1>1, <1>2 DEF Conformed

\* What is served has the best coding and the status its conditions ask for.
LEMMA ServeConforms ==
  ASSUME FileInv, Conformed, NEW r \in Assets, NEW place, NEW coding, NEW fields \in AllFields,
         Files!Serve(r, place, coding, fields),
         Files!BestCoding(fields.items, coding,
             {"identity"} \cup (IF asset[r].safe = "name" THEN siblings[asset[r].root] ELSE {}))
  PROVE  Conformed'
  <1>1. PICK file \in Files!Files : \E response :
           /\ Files!Send(r, response)
           /\ response.status = Files!Overridden(IF coding = "none" THEN 406
                                  ELSE Files!FileResponse(file, fields.conditions, 200), fields.option)
           /\ response.coding = coding /\ response.file = file /\ response.fields = fields
           /\ response.siblings = siblings[asset[r].root] /\ response.safe = asset[r].safe
    BY DEF Files!Serve
  <1>2. PICK response :
           /\ Files!Send(r, response)
           /\ response.status = Files!Overridden(IF coding = "none" THEN 406
                                  ELSE Files!FileResponse(file, fields.conditions, 200), fields.option)
           /\ response.coding = coding /\ response.file = file /\ response.fields = fields
           /\ response.siblings = siblings[asset[r].root] /\ response.safe = asset[r].safe
    BY <1>1
  <1>3. fields.option = None /\ coding # "none" =>
          response.status = Files!FileResponse(file, fields.conditions, 200)
    BY <1>2 DEF Files!Overridden
  <1>4. file.usable => Files!FileResponse(file, fields.conditions, 200)
                         = Files!RequiredStatus(file, fields.conditions, 200)
    BY AsRequired
  <1>5. Conforms(response)
    BY <1>2, <1>3, <1>4 DEF Conforms
  <1> QED
    BY <1>2, <1>5, SendConforms

\* So does whatever the file service sends.
LEMMA FilesConform ==
  ASSUME FileInv, Conformed, Files!FileNext
  PROVE  Conformed'
  <1>1. ASSUME UNCHANGED <<sent, siblings>>
        PROVE  Conformed'
    BY <1>1 DEF Conformed, Conforms
  <1>2. CASE Files!MountFiles
    <2>1. sent' = sent /\ (siblings' = siblings \/ \E v \in SUBSET {"br", "gzip"} : siblings' = [x \in Releases |-> v])
      BY <1>2 DEF Files!MountFiles
    <2> QED
      <3>1. siblings' \in [Releases -> SUBSET {"br", "gzip"}]
        BY <2>1 DEF Conformed
      <3>2. \A r \in Assets : sent'[r] # None => Conforms(sent'[r])
        BY <2>1 DEF Conformed
      <3> QED
        BY <3>1, <3>2 DEF Conformed
  <1>3. CASE \E release \in Releases :
                Files!MoveLink(release) \/ \E kind \in Files!Kinds : Files!Replace(release, kind)
    BY <1>1, <1>3 DEF Files!MoveLink, Files!Replace
  <1>4. ASSUME NEW r \in Assets, Files!FileStep(r)
        PROVE  Conformed'
    <2>1. CASE \/ Files!ResolveRoot(r) \/ Files!StoreRoot(r) \/ Files!Relative(r)
               \/ \E path \in PathsOf[r] : Files!CheckPath(r, path)
      BY <1>1, <2>1 DEF Files!ResolveRoot, Files!StoreRoot, Files!Relative, Files!CheckPath, Files!namespace
    <2>2. ASSUME NEW status, Files!Send(r, Files!NoFile(status))
          PROVE  Conformed'
      <3>1. Conforms(Files!NoFile(status))
        BY DEF Conforms, Files!NoFile
      <3> QED
        BY <2>2, <3>1, SendConforms
    <2>3. CASE Files!OutOfScope(r)
      BY <2>2, <2>3 DEF Files!OutOfScope
    <2>4. CASE \E fields \in PlainFields : Files!Miss(r, fields)
      BY <2>2, <2>4 DEF Files!Miss
    <2>5. ASSUME NEW fields \in Files!FieldsNow, Files!OpenFile(r, fields)
          PROVE  Conformed'
      <3> DEFINE variants == IF asset[r].safe = "name" THEN siblings[asset[r].root] ELSE {}
                 coding == Files!Negotiated(Files!AcceptedEncodings(fields.items), variants)
                 kind == IF asset[r].safe = "name" THEN tree[asset[r].root] ELSE "file"
      <3>1. fields \in AllFields
        BY DEF Files!FieldsNow, AllFields
      <3>2. variants \in SUBSET {"br", "gzip"}
        <4>1. asset[r].root \in Releases
          BY <2>5 DEF Files!OpenFile, Files!At, FileInv, FileTyped, Rooted
        <4> QED
          BY <4>1 DEF Conformed
      <3>3. \/ \E place : Files!Serve(r, place, coding, fields)
            \/ UNCHANGED <<sent, siblings>>
        BY <2>5 DEF Files!OpenFile, Files!namespace
      <3>4. Files!BestCoding(fields.items, coding, {"identity"} \cup variants)
        BY <3>2, BestChosen
      <3> HIDE DEF coding
      <3> QED
        BY <1>1, <3>1, <3>3, <3>4, ServeConforms
    <2>6. ASSUME NEW fields \in PlainFields, Files!OpenRelative(r, fields)
          PROVE  Conformed'
      <3>1. fields \in AllFields /\ fields.items = <<>>
        BY FieldsAssumption DEF AllFields
      <3>2. \/ \E place : Files!Serve(r, place, "identity", fields)
            \/ UNCHANGED <<sent, siblings>>
        BY <2>6 DEF Files!OpenRelative, Files!namespace
      <3>3. PICK variants \in SUBSET {"br", "gzip"} :
               variants = IF asset[r].safe = "name" THEN siblings[asset[r].root] ELSE {}
        <4>1. asset[r].root \in Releases
          BY <2>6 DEF Files!OpenRelative, Files!At, FileInv, FileTyped, Rooted
        <4> QED
          BY <4>1 DEF Conformed
      <3>4. \A t : Files!Listed(fields.items, t) = None
        BY <3>1 DEF Files!Listed
      <3>5. \A c \in {"identity"} \cup variants :
               Files!Acceptable(fields.items, c) <=> c = "identity"
        BY <3>4, FieldsAssumption DEF Files!Acceptable, Files!Or
      <3>6. Files!Rank(fields.items, "identity") = 0
        BY <3>4 DEF Files!Rank, Files!Or
      <3>7. Files!BestCoding(fields.items, "identity", {"identity"} \cup variants)
        BY <3>5, <3>6 DEF Files!BestCoding
      <3> QED
        BY <1>1, <3>1, <3>2, <3>3, <3>7, ServeConforms
    <2> QED
      BY <1>4, <2>1, <2>3, <2>4, <2>5, <2>6 DEF Files!FileStep
  <1> QED
    BY <1>2, <1>3, <1>4 DEF Files!FileNext

-----------------------------------------------------------------------------
(* The executor.                                                           *)

\* Every installation keeps state and verdicts true.
LEMMA ExecutorKeeps ==
  ASSUME ExecutorInv,
         \/ Executor!EnsureExecutorInitialized
         \/ Executor!InstallForeign \/ Executor!TryInitExecutor
  PROVE  ExecutorInv'
  <1>1. CASE Executor!InitNtexExecutor
    <2>1. CASE known = "Unknown" /\ installed = "none"
      BY <1>1, <2>1 DEF ExecutorInv, Executor!InitNtexExecutor, Executor!Kept
    <2>2. CASE known = "Unknown" /\ installed # "none"
      BY <1>1, <2>2 DEF ExecutorInv, Executor!InitNtexExecutor, Executor!Kept
    <2>3. CASE known # "Unknown"
      BY <1>1, <2>3 DEF ExecutorInv, Executor!InitNtexExecutor, Executor!Kept
    <2> QED
      BY <2>1, <2>2, <2>3
  <1>2. CASE UNCHANGED Executor!executorVars
    BY <1>2 DEF ExecutorInv, Executor!executorVars
  <1>3. CASE Executor!InstallForeign
    BY <1>3 DEF ExecutorInv, Executor!InstallForeign
  <1> QED
    BY <1>1, <1>2, <1>3 DEF Executor!EnsureExecutorInitialized, Executor!TryInitExecutor

-----------------------------------------------------------------------------
(* The routes.                                                             *)

\* The least of some indices.
LEMMA LeastIndex ==
  ASSUME NEW T \in SUBSET Nat, T # {}
  PROVE  Min(T) \in T /\ \A i \in T : Min(T) <= i
  <1> DEFINE R == OpToRel(<, Nat)
  <1>1. R = {ss \in Nat \X Nat : ss[1] < ss[2]}
    BY Zenon DEF OpToRel
  <1>2. IsWellFoundedOn(R, Nat)
    BY NatLessThanWellFounded, Zenon
  <1> HIDE DEF R
  <1>3. PICK x \in T : \A y \in T : ~(<<y, x>> \in R)
    BY <1>2, WFMin, Zenon
  <1>4. ASSUME NEW y \in T PROVE x =< y
    <2>1. ~(<<y, x>> \in {ss \in Nat \X Nat : ss[1] < ss[2]})
      BY <1>1, <1>3, Zenon
    <2> QED
      BY <2>1
  <1> QED
    BY <1>4 DEF Min

\* SetToSeq lists the members of a finite set.
LEMMA MembersListed ==
  ASSUME NEW S, IsFiniteSet(S)
  PROVE  SetToSeq(S) \in Seq(S) /\ Range(SetToSeq(S)) = S
  <1>1. Cardinality(S) \in Nat /\ ExistsBijection(1..Cardinality(S), S)
    BY FS_CardinalityType
  <1>2. PICK g \in Bijection(1..Cardinality(S), S) : TRUE
    BY <1>1 DEF ExistsBijection
  <1>3. g \in [1..Cardinality(S) -> S] /\ IsInjective(g)
    BY <1>2 DEF Bijection, Injection
  <1>4. PICK f : f = SetToSeq(S)
    OBVIOUS
  <1>5. f \in [1..Cardinality(S) -> S] /\ IsInjective(f)
    BY <1>3, <1>4 DEF SetToSeq
  <1>6. f \in Injection(1..Cardinality(S), S)
    BY <1>5 DEF Injection
  <1>7. Range(f) = S
    <2>1. IsFiniteSet(1..Cardinality(S)) /\ Cardinality(1..Cardinality(S)) = Cardinality(S)
      BY <1>1, FS_Interval
    <2>2. f \in Surjection(1..Cardinality(S), S)
      BY <1>6, <2>1, FS_Injection
    <2> QED
      BY <2>2 DEF Surjection, Range
  <1>8. f \in Seq(S)
    BY <1>1, <1>5
  <1> QED
    BY <1>4, <1>7, <1>8

\* What is given for each index of a sequence is a sequence.
LEMMA SameIndices ==
  ASSUME NEW S, NEW s \in Seq(S), NEW T, NEW g, g = [i \in DOMAIN s |-> g[i]],
         \A i \in DOMAIN s : g[i] \in T
  PROVE  g \in Seq(T) /\ DOMAIN g = DOMAIN s
  <1>1. DOMAIN s = 1..Len(s) /\ Len(s) \in Nat
    OBVIOUS
  <1>2. g \in [1..Len(s) -> T] /\ DOMAIN g = DOMAIN s
    BY <1>1
  <1> QED
    BY <1>1, <1>2

\* FlattenSeq is what its definition says.
LEMMA FlattenStep ==
  ASSUME NEW S, NEW seqs \in Seq(S), Len(seqs) # 0
  PROVE  \E f : /\ f = [i \in 1..Len(seqs) |-> IF i = 1 THEN seqs[i] ELSE f[i - 1] \o seqs[i]]
                /\ FlattenSeq(seqs) = f[Len(seqs)]
  <1> DEFINE Solves(g, n) == g = [i \in 1..n |-> IF i = 1 THEN seqs[i] ELSE g[i - 1] \o seqs[i]]
             failing == {n \in Nat : ~ \E g : Solves(g, n)}
  <1>1. failing = {}
    <2> SUFFICES ASSUME failing # {} PROVE FALSE
      OBVIOUS
    <2>1. PICK n \in Nat : n \in failing /\ \A k \in failing : n <= k
      BY LeastIndex
    <2>2. CASE n = 0
      <3>1. Solves([i \in 1..0 |-> i], 0)
        OBVIOUS
      <3> QED
        BY <2>1, <2>2, <3>1
    <2>3. CASE n # 0
      <3>1. n - 1 \in Nat /\ n - 1 < n
        BY <2>3
      <3>2. n - 1 \notin failing
        <4> HIDE DEF failing
        <4> QED
          BY <2>1, <3>1
      <3>3. PICK g : Solves(g, n - 1)
        BY <3>1, <3>2, Zenon
      <3>4. \A i \in 1..(n - 1) : g[i] = IF i = 1 THEN seqs[i] ELSE g[i - 1] \o seqs[i]
        BY <3>3, Zenon
      <3> DEFINE h == [i \in 1..n |-> IF i = n THEN IF i = 1 THEN seqs[i] ELSE g[i - 1] \o seqs[i]
                                     ELSE g[i]]
      <3>5. \A i \in 1..n : h[i] = IF i = 1 THEN seqs[i] ELSE h[i - 1] \o seqs[i]
        <4> SUFFICES ASSUME NEW i \in 1..n
                     PROVE  h[i] = IF i = 1 THEN seqs[i] ELSE h[i - 1] \o seqs[i]
          OBVIOUS
        <4>1. CASE i = 1
          BY <3>4, <4>1
        <4>2. CASE i # 1 /\ i = n
          <5>1. i - 1 \in 1..n /\ i - 1 # n
            BY <4>2
          <5> QED
            BY <4>2, <5>1
        <4>3. CASE i # 1 /\ i # n
          <5>1. i - 1 \in 1..n /\ i - 1 # n /\ i \in 1..(n - 1)
            BY <4>3
          <5> QED
            BY <3>4, <4>3, <5>1
        <4> QED
          BY <4>1, <4>2, <4>3
      <3>6. Solves(h, n)
        <4>1. h = [i \in 1..n |-> h[i]]
          OBVIOUS
        <4> HIDE DEF h
        <4> QED
          BY <3>5, <4>1
      <3> QED
        BY <2>1, <3>6
    <2> QED
      BY <2>2, <2>3
  <1>2. Len(seqs) \in Nat
    OBVIOUS
  <1>3. \E g : Solves(g, Len(seqs))
    BY <1>1, <1>2
  <1>4. PICK f : f = CHOOSE g : Solves(g, Len(seqs))
    OBVIOUS
  <1>5. Solves(f, Len(seqs))
    BY <1>3, <1>4, Zenon
  <1>6. FlattenSeq(seqs) = f[Len(seqs)]
    BY <1>4, Zenon DEF FlattenSeq
  <1> QED
    BY <1>5, <1>6

\* It has the members of all the sequences.
LEMMA Flattened ==
  ASSUME NEW S, NEW seqs \in Seq(Seq(S))
  PROVE  /\ FlattenSeq(seqs) \in Seq(S)
         /\ Range(FlattenSeq(seqs)) = UNION {Range(seqs[i]) : i \in DOMAIN seqs}
  <1>1. CASE Len(seqs) = 0
    <2>1. seqs = <<>> /\ FlattenSeq(seqs) = <<>>
      BY <1>1 DEF FlattenSeq
    <2>2. <<>> \in Seq(S) /\ DOMAIN <<>> = {}
      OBVIOUS
    <2>3. FlattenSeq(seqs) \in Seq(S) /\ DOMAIN seqs = {} /\ DOMAIN FlattenSeq(seqs) = {}
      BY <2>1, <2>2, Zenon
    <2>4. Range(FlattenSeq(seqs)) = {} /\ UNION {Range(seqs[i]) : i \in DOMAIN seqs} = {}
      BY <2>3 DEF Range
    <2> QED
      BY <2>3, <2>4
  <1>2. CASE Len(seqs) # 0
    <2>1. PICK f : /\ f = [i \in 1..Len(seqs) |-> IF i = 1 THEN seqs[i] ELSE f[i - 1] \o seqs[i]]
                   /\ FlattenSeq(seqs) = f[Len(seqs)]
      BY <1>2, FlattenStep, Zenon
    <2>2. \A i \in 1..Len(seqs) : f[i] = IF i = 1 THEN seqs[i] ELSE f[i - 1] \o seqs[i]
      BY <2>1, Zenon
    <2> DEFINE Good(n) == f[n] \in Seq(S) /\ Range(f[n]) = UNION {Range(seqs[i]) : i \in 1..n}
               failing == {n \in 1..Len(seqs) : ~Good(n)}
    <2>3. failing = {}
      <3> SUFFICES ASSUME failing # {} PROVE FALSE
        OBVIOUS
      <3>1. failing \in SUBSET Nat
        OBVIOUS
      <3>2. PICK n : n \in failing /\ \A k \in failing : n <= k
        <4> HIDE DEF failing
        <4> QED
          BY <3>1, LeastIndex
      <3>3. n \in 1..Len(seqs) /\ ~Good(n)
        BY <3>2
      <3>4. CASE n = 1
        <4>1. f[1] = seqs[1]
          BY <2>2, <3>3, <3>4
        <4>2. 1..1 = {1}
          OBVIOUS
        <4>3. UNION {Range(seqs[i]) : i \in {1}} = Range(seqs[1])
          OBVIOUS
        <4> QED
          BY <3>3, <3>4, <4>1, <4>2, <4>3
      <3>5. CASE n # 1
        <4>1. n \in 1..Len(seqs)
          BY <3>3
        <4>2. n - 1 \in 1..Len(seqs)
          BY <3>5, <4>1
        <4>3. f[n] = f[n - 1] \o seqs[n]
          BY <2>2, <3>5, <4>1, Zenon
        <4>4. n - 1 \in 1..Len(seqs) /\ f[n] = f[n - 1] \o seqs[n]
          BY <4>2, <4>3
        <4>5. Good(n - 1)
          <5>1. n - 1 < n
            BY <3>3
          <5>2. n - 1 \notin failing
            <6> HIDE DEF failing
            <6> QED
              BY <3>1, <3>2, <4>4, <5>1
          <5> QED
            BY <4>4, <5>2, Zenon
        <4>6. seqs[n] \in Seq(S)
          BY <3>3
        <4>7. f[n] \in Seq(S) /\ Range(f[n]) = Range(f[n - 1]) \cup Range(seqs[n])
          BY <4>4, <4>5, <4>6, RangeConcatenation
        <4>8. 1..n = 1..(n - 1) \cup {n}
          BY <3>3
        <4>9. UNION {Range(seqs[i]) : i \in 1..n} =
                (UNION {Range(seqs[i]) : i \in 1..(n - 1)}) \cup Range(seqs[n])
          BY <4>8
        <4> QED
          BY <3>3, <4>5, <4>7, <4>9
      <3> QED
        BY <3>4, <3>5
    <2>4. Len(seqs) \in 1..Len(seqs) /\ DOMAIN seqs = 1..Len(seqs)
      BY <1>2
    <2>5. Good(Len(seqs))
      BY <2>3, <2>4
    <2> QED
      BY <2>1, <2>4, <2>5
  <1> QED
    BY <1>1, <1>2

\* The handlers of the crate; a route fits a request by pattern and guard.
CrateHandlers == {"function", "render", "static", "unsupported"}
Fits(r, url, method) == Matches(r.path, url) /\ method \in r.methods

\* The crate's routes come first: it gets a request as soon as one fits.
LEMMA CrateComesFirst ==
  ASSUME NEW S, NEW T1 \in Seq(S), NEW T2 \in Seq(S), NEW url, NEW method,
         \A r \in Range(T1) : r.handler \in CrateHandlers,
         \A r \in Range(T2) : r.handler \in {"own", "catchall", "file"}
  PROVE  Dispatched(T1 \o T2, url, method) \in CrateHandlers
           <=> \E r \in Range(T1) : Fits(r, url, method)
  <1> DEFINE table == T1 \o T2
             fitting == {i \in DOMAIN table : Matches(table[i].path, url) /\ method \in table[i].methods}
  <1>1. /\ table \in Seq(S) /\ DOMAIN table = 1..(Len(T1) + Len(T2))
        /\ Len(T1) \in Nat /\ Len(T2) \in Nat /\ DOMAIN T1 = 1..Len(T1) /\ DOMAIN T2 = 1..Len(T2)
        /\ \A i \in 1..Len(T1) : table[i] = T1[i]
        /\ \A i \in 1..Len(T2) : table[Len(T1) + i] = T2[i]
    OBVIOUS
  <1>2. Dispatched(table, url, method) = IF fitting = {} THEN "nobody" ELSE table[Min(fitting)].handler
    BY Zenon DEF Dispatched
  <1> HIDE DEF table
  <1>3. CASE fitting = {}
    <2>1. ASSUME NEW r \in Range(T1) PROVE ~Fits(r, url, method)
      <3>1. PICK i \in 1..Len(T1) : r = T1[i]
        BY <1>1, <2>1 DEF Range
      <3>2. i \in DOMAIN table /\ table[i] = r
        BY <1>1, <3>1
      <3> QED
        BY <1>3, <3>2 DEF Fits
    <2> QED
      BY <1>2, <1>3, <2>1 DEF CrateHandlers, table
  <1>4. CASE fitting # {}
    <2>1. PICK k : k = Min(fitting)
      OBVIOUS
    <2>2. fitting \in SUBSET Nat
      BY <1>1
    <2>3. k \in fitting /\ \A i \in fitting : k <= i
      BY <1>4, <2>1, <2>2, LeastIndex, Zenon
    <2>4. Dispatched(T1 \o T2, url, method) = table[k].handler
      BY <1>2, <1>4, <2>1, Zenon DEF table
    <2>5. k \in 1..(Len(T1) + Len(T2)) /\ Fits(table[k], url, method)
      BY <1>1, <2>3 DEF Fits
    <2>6. CASE k <= Len(T1)
      <3>1. table[k] = T1[k] /\ k \in DOMAIN T1
        BY <1>1, <2>5, <2>6
      <3>2. T1[k] \in Range(T1)
        BY <3>1 DEF Range
      <3> QED
        BY <2>4, <2>5, <3>1, <3>2
    <2>7. CASE k > Len(T1)
      <3>1. PICK j : j = k - Len(T1)
        OBVIOUS
      <3>2. j \in 1..Len(T2) /\ k = Len(T1) + j
        BY <1>1, <2>5, <2>7, <3>1
      <3>3. j \in DOMAIN T2 /\ table[k] = T2[j]
        BY <1>1, <3>2
      <3>4. table[k] \in Range(T2)
        BY <3>3 DEF Range
      <3>5. table[k].handler \notin CrateHandlers
        BY <3>4 DEF CrateHandlers
      <3>6. ASSUME NEW r \in Range(T1), Fits(r, url, method) PROVE FALSE
        <4>1. PICK i \in 1..Len(T1) : r = T1[i]
          BY <1>1, <3>6 DEF Range
        <4>2. i \in fitting
          BY <1>1, <3>6, <4>1 DEF Fits
        <4> QED
          BY <1>1, <2>3, <2>5, <2>7, <4>1, <4>2
      <3> QED
        BY <2>4, <3>5, <3>6
    <2> QED
      BY <1>1, <2>5, <2>6, <2>7
  <1> QED
    BY <1>3, <1>4

\* A finite set has finitely many images.
LEMMA FiniteImage ==
  ASSUME NEW S, IsFiniteSet(S), NEW f, f = [x \in S |-> f[x]]
  PROVE  IsFiniteSet({f[x] : x \in S})
  <1> DEFINE T == {f[x] : x \in S}
  <1>1. f \in [S -> T]
    OBVIOUS
  <1>2. \A t \in T : \E x \in S : f[x] = t
    OBVIOUS
  <1> HIDE DEF T
  <1>3. f \in Surjection(S, T)
    BY <1>1, <1>2 DEF Surjection
  <1>4. IsFiniteSet(T)
    BY <1>3, FS_Surjection
  <1> QED
    BY <1>4 DEF T

\* Sequences of two sets are joined.
LEMMA Joined ==
  ASSUME NEW A, NEW B, NEW s \in Seq(A), NEW t \in Seq(B)
  PROVE  /\ s \o t \in Seq(A \cup B) /\ s \in Seq(A \cup B) /\ t \in Seq(A \cup B)
         /\ Range(s \o t) = Range(s) \cup Range(t)
  <1>1. s \in Seq(A \cup B) /\ t \in Seq(A \cup B)
    OBVIOUS
  <1> QED
    BY <1>1, RangeConcatenation

\* A path has finitely many expansions, and one at least.
LEMMA Expansions ==
  ASSUME NEW S, NEW segments \in Seq(S)
  PROVE  IsFiniteSet(ExpandOptionals(segments)) /\ ExpandOptionals(segments) # {}
  <1>1. IsFiniteSet(Optionals(segments))
    <2>1. IsFiniteSet(1..Len(segments)) /\ DOMAIN segments = 1..Len(segments)
      BY FS_Interval
    <2>2. Optionals(segments) \subseteq 1..Len(segments)
      BY <2>1 DEF Optionals
    <2> QED
      BY <2>1, <2>2, FS_Subset
  <1>2. PICK D : D = SUBSET Optionals(segments)
    OBVIOUS
  <1>3. IsFiniteSet(D) /\ {} \in D
    BY <1>1, <1>2, FS_SUBSET
  <1> DEFINE given(dropped) ==
               FlattenSeq([i \in DOMAIN segments |-> IF i \in dropped THEN <<>> ELSE <<segments[i]>>])
             f == [dropped \in D |-> given(dropped)]
  <1>4. ExpandOptionals(segments) = {given(x) : x \in D}
    BY <1>2, Zenon DEF ExpandOptionals
  <1> HIDE DEF given
  <1>5. f = [x \in D |-> f[x]] /\ {f[x] : x \in D} = {given(x) : x \in D}
    OBVIOUS
  <1> HIDE DEF f
  <1>6. IsFiniteSet({f[x] : x \in D})
    BY <1>3, <1>5, FiniteImage
  <1> QED
    BY <1>3, <1>4, <1>5, <1>6

\* A declared route, what becomes of it, and of all of them.
RouteTyped == [segments : Seq([kind : {"static", "param", "optional", "splat", "unit"},
                               names : Seq(STRING)]),
               mode : STRING, methods : SUBSET STRING]
ListingsOf(declared) == {Listing(ToNtexPath(p), declared.mode, declared.methods, FALSE)
                        : p \in ExpandOptionals(declared.segments)}
ListingsOfAll(routes) == UNION {ListingsOf(routes[i]) : i \in DOMAIN routes}

\* The listings walked are those of the routes, and there are none only when
\* there are no routes.
LEMMA WalkedAll ==
  ASSUME NEW routes \in Seq(RouteTyped)
  PROVE  /\ Walked(routes) \in Seq(ListingsOfAll(routes))
         /\ Range(Walked(routes)) = ListingsOfAll(routes)
         /\ Walked(routes) = <<>> <=> routes = <<>>
  <1>1. ASSUME NEW declared \in RouteTyped
        PROVE  /\ IntoRouteListing(declared) \in Seq(ListingsOf(declared))
               /\ Range(IntoRouteListing(declared)) = ListingsOf(declared)
               /\ ListingsOf(declared) # {}
    <2>1. declared.segments \in Seq([kind : {"static", "param", "optional", "splat", "unit"},
                                  names : Seq(STRING)])
      BY DEF RouteTyped
    <2>2. PICK E : E = ExpandOptionals(declared.segments)
      OBVIOUS
    <2>3. IsFiniteSet(E) /\ E # {}
      BY <2>1, <2>2, Expansions
    <2> DEFINE f == [p \in E |-> Listing(ToNtexPath(p), declared.mode, declared.methods, FALSE)]
    <2>4. f = [p \in E |-> f[p]]
      OBVIOUS
    <2>5. {f[p] : p \in E} = ListingsOf(declared)
      BY <2>2 DEF ListingsOf
    <2> HIDE DEF f
    <2>6. IsFiniteSet(ListingsOf(declared))
      <3>1. IsFiniteSet({f[p] : p \in E})
        BY <2>3, <2>4, FiniteImage
      <3> QED
        BY <2>5, <3>1
    <2>7. IntoRouteListing(declared) = SetToSeq(ListingsOf(declared))
      BY Zenon DEF IntoRouteListing, ListingsOf
    <2>8. ListingsOf(declared) # {}
      BY <2>3, <2>5
    <2> QED
      BY <2>6, <2>7, <2>8, MembersListed
  <1> DEFINE seqs == [i \in DOMAIN routes |-> IntoRouteListing(routes[i])]
             all == ListingsOfAll(routes)
  <1>2. \A i \in DOMAIN routes : routes[i] \in RouteTyped
    OBVIOUS
  <1>3. seqs \in Seq(Seq(all)) /\ DOMAIN seqs = DOMAIN routes
    <2>1. \A i \in DOMAIN routes : ListingsOf(routes[i]) \subseteq all
      BY DEF ListingsOfAll
    <2> HIDE DEF all
    <2>2. \A i \in DOMAIN routes : seqs[i] \in Seq(all)
      BY <1>1, <1>2, <2>1, SeqMonotonic
    <2>3. seqs = [i \in DOMAIN routes |-> seqs[i]]
      OBVIOUS
    <2> HIDE DEF seqs
    <2> QED
      BY <2>2, <2>3, SameIndices
  <1>4. \A i \in DOMAIN routes : Range(seqs[i]) = ListingsOf(routes[i])
    BY <1>1, <1>2
  <1>5. Walked(routes) = FlattenSeq(seqs)
    BY Zenon DEF Walked
  <1> HIDE DEF seqs, all
  <1>6. Walked(routes) \in Seq(all) /\ Range(Walked(routes)) = UNION {Range(seqs[i]) : i \in DOMAIN seqs}
    BY <1>3, <1>5, Flattened
  <1>7. Range(Walked(routes)) = all
    BY <1>3, <1>4, <1>6 DEF all, ListingsOfAll
  <1>8. Walked(routes) = <<>> <=> routes = <<>>
    <2>1. Walked(routes) = <<>> <=> Range(Walked(routes)) = {}
      BY <1>6 DEF Range
    <2>2. ASSUME routes = <<>> PROVE all = {}
      BY <2>2 DEF all, ListingsOfAll
    <2>3. ASSUME routes # <<>> PROVE all # {}
      <3>1. 1 \in DOMAIN routes
        BY <2>3
      <3>2. ListingsOf(routes[1]) # {}
        BY <1>1, <1>2, <3>1
      <3> QED
        BY <3>1, <3>2 DEF all, ListingsOfAll
    <2> QED
      BY <1>7, <2>1, <2>2, <2>3
  <1> QED
    BY <1>6, <1>7, <1>8 DEF all

\* Without leaves out what is excluded.
LEMMA OthersKept ==
  ASSUME NEW S, NEW listings \in Seq(S), NEW excluded
  PROVE  /\ Without(listings, excluded) \in Seq(S)
         /\ Range(Without(listings, excluded)) = {l \in Range(listings) : l.path \notin excluded}
  <1> DEFINE seqs == [i \in DOMAIN listings |->
                        IF listings[i].path \in excluded THEN <<>> ELSE <<listings[i]>>]
  <1>1. \A i \in DOMAIN listings : seqs[i] \in Seq(S)
    OBVIOUS
  <1>2. \A i \in DOMAIN listings :
           Range(seqs[i]) = IF listings[i].path \in excluded THEN {} ELSE {listings[i]}
    BY DEF Range
  <1>3. seqs \in Seq(Seq(S)) /\ DOMAIN seqs = DOMAIN listings
    <2>1. seqs = [i \in DOMAIN listings |-> seqs[i]]
      OBVIOUS
    <2> HIDE DEF seqs
    <2> QED
      BY <1>1, <2>1, SameIndices
  <1>4. Without(listings, excluded) = FlattenSeq(seqs)
    BY Zenon DEF Without
  <1> HIDE DEF seqs
  <1>5. Range(listings) = {listings[i] : i \in DOMAIN listings}
    BY DEF Range
  <1>6. /\ Without(listings, excluded) \in Seq(S)
        /\ Range(Without(listings, excluded)) = UNION {Range(seqs[i]) : i \in DOMAIN listings}
    BY <1>3, <1>4, Flattened
  <1>7. ASSUME NEW l, l \in Range(Without(listings, excluded))
        PROVE  l \in Range(listings) /\ l.path \notin excluded
    <2>1. PICK i \in DOMAIN listings : l \in Range(seqs[i])
      BY <1>6, <1>7
    <2> QED
      BY <1>2, <1>5, <2>1
  <1>8. ASSUME NEW l \in Range(listings), l.path \notin excluded
        PROVE  l \in Range(Without(listings, excluded))
    <2>1. PICK i \in DOMAIN listings : l = listings[i]
      BY <1>5
    <2>2. l \in Range(seqs[i])
      BY <1>2, <1>8, <2>1
    <2> QED
      BY <1>6, <2>2
  <1> QED
    BY <1>6, <1>7, <1>8

\* The listings of an application: what is left of those walked, or of the
\* synthetic one, and one for each excluded path.
BaseListings(s) == IF s.routes = <<>> THEN {Listing(<<>>, "OutOfOrder", {"GET"}, FALSE)}
                   ELSE ListingsOfAll(s.routes)
ExclusionsOf(s) == {Listing(path, "OutOfOrder", {}, TRUE) : path \in s.excluded}

\* An application as SitesAssumption has it.
SiteTyped(s) ==
    /\ s.routes \in Seq(RouteTyped)
    /\ \A i \in DOMAIN s.routes : IsFiniteSet(s.routes[i].methods)
    /\ IsFiniteSet(s.functions) /\ IsFiniteSet(s.excluded)

\* generate_route_list lists them.
LEMMA Generated ==
  ASSUME NEW s, SiteTyped(s)
  PROVE  /\ GenerateRouteList(s.routes, s.excluded) \in Seq(BaseListings(s) \cup ExclusionsOf(s))
         /\ Range(GenerateRouteList(s.routes, s.excluded))
              = {l \in BaseListings(s) : l.path \notin s.excluded} \cup ExclusionsOf(s)
  <1>1. PICK walked : walked = IF Walked(s.routes) = <<>> THEN Synthetic ELSE Walked(s.routes)
    OBVIOUS
  <1>2. walked \in Seq(BaseListings(s)) /\ Range(walked) = BaseListings(s)
    <2>1. CASE s.routes = <<>>
      <3>1. walked = Synthetic
        BY <1>1, <2>1, WalkedAll DEF SiteTyped
      <3>2. \A x : <<x>> \in Seq({x}) /\ Range(<<x>>) = {x}
        BY DEF Range
      <3> QED
        BY <2>1, <3>1, <3>2 DEF Synthetic, BaseListings
    <2>2. CASE s.routes # <<>>
      BY <1>1, <2>2, WalkedAll DEF SiteTyped, BaseListings
    <2> QED
      BY <2>1, <2>2
  <1>3. Excluded(s.excluded) \in Seq(ExclusionsOf(s)) /\ Range(Excluded(s.excluded)) = ExclusionsOf(s)
    <2>1. PICK E : E = s.excluded
      OBVIOUS
    <2> DEFINE f == [path \in E |-> Listing(path, "OutOfOrder", {}, TRUE)]
    <2>2. f = [path \in E |-> f[path]] /\ {f[path] : path \in E} = ExclusionsOf(s)
      BY <2>1 DEF ExclusionsOf
    <2>3. IsFiniteSet(E)
      BY <2>1 DEF SiteTyped
    <2> HIDE DEF f
    <2>4. IsFiniteSet(ExclusionsOf(s))
      BY <2>2, <2>3, FiniteImage
    <2>5. Excluded(s.excluded) = SetToSeq(ExclusionsOf(s))
      BY Zenon DEF Excluded, ExclusionsOf
    <2> QED
      BY <2>4, <2>5, MembersListed
  <1>4. /\ Without(walked, s.excluded) \in Seq(BaseListings(s))
        /\ Range(Without(walked, s.excluded)) = {l \in BaseListings(s) : l.path \notin s.excluded}
    BY <1>2, OthersKept
  <1>5. GenerateRouteList(s.routes, s.excluded) = Without(walked, s.excluded) \o Excluded(s.excluded)
    BY <1>1 DEF GenerateRouteList
  <1>6. PICK A, B : A = BaseListings(s) /\ B = ExclusionsOf(s)
    OBVIOUS
  <1>7. PICK x \in Seq(A), y \in Seq(B) :
           x = Without(walked, s.excluded) /\ y = Excluded(s.excluded)
    BY <1>3, <1>4, <1>6
  <1>8. x \o y \in Seq(A \cup B) /\ Range(x \o y) = Range(x) \cup Range(y)
    BY Joined, SMTT(30)
  <1> QED
    BY <1>3, <1>4, <1>5, <1>6, <1>7, <1>8, Zenon

\* The routes of the crate, as a set.
FunctionSet(s) == {Route(f.path, {f.method}, "function") : f \in {g \in s.functions : g.path \notin s.excluded}}
ListingSet(l) == IF l.exclude THEN {} ELSE {RouteOf(l, m) : m \in l.methods}

\* The routes registered are those of the functions and listings that are not
\* excluded.
LEMMA RegisteredAll ==
  ASSUME NEW s, SiteTyped(s)
  PROVE  \E S : /\ Registered(s) \in Seq(S)
                /\ Range(Registered(s)) = FunctionSet(s)
                     \cup UNION {ListingSet(l) : l \in {b \in BaseListings(s) : b.path \notin s.excluded}}
  <1>1. PICK L : L = GenerateRouteList(s.routes, s.excluded)
    OBVIOUS
  <1>2. PICK A : A = BaseListings(s) \cup ExclusionsOf(s)
    OBVIOUS
  <1>3. /\ L \in Seq(A)
        /\ Range(L) = {l \in BaseListings(s) : l.path \notin s.excluded} \cup ExclusionsOf(s)
    BY <1>1, <1>2, Generated
  <1>4. /\ \A l \in BaseListings(s) : ~l.exclude /\ IsFiniteSet(l.methods)
        /\ \A l \in ExclusionsOf(s) : l.exclude /\ l.path \in s.excluded
        /\ \A p \in s.excluded : \E l \in ExclusionsOf(s) : l.path = p
    <2>1. ASSUME NEW l \in BaseListings(s) PROVE ~l.exclude /\ IsFiniteSet(l.methods)
      <3>1. CASE s.routes = <<>>
        <4>1. l = Listing(<<>>, "OutOfOrder", {"GET"}, FALSE)
          BY <3>1 DEF BaseListings
        <4>2. IsFiniteSet({"GET"})
          BY FS_Singleton
        <4> QED
          BY <4>1, <4>2 DEF Listing
      <3>2. CASE s.routes # <<>>
        <4>1. PICK i \in DOMAIN s.routes : l \in ListingsOf(s.routes[i])
          BY <3>2 DEF BaseListings, ListingsOfAll
        <4>2. IsFiniteSet(s.routes[i].methods)
          BY DEF SiteTyped
        <4> QED
          BY <4>1, <4>2 DEF ListingsOf, Listing
      <3> QED
        BY <3>1, <3>2
    <2>2. \A l \in ExclusionsOf(s) : l.exclude /\ l.path \in s.excluded
      BY DEF ExclusionsOf, Listing
    <2>3. ASSUME NEW p \in s.excluded PROVE \E l \in ExclusionsOf(s) : l.path = p
      <3>1. Listing(p, "OutOfOrder", {}, TRUE) \in ExclusionsOf(s)
        BY DEF ExclusionsOf
      <3>2. Listing(p, "OutOfOrder", {}, TRUE).path = p
        BY DEF Listing
      <3> QED
        BY <3>1, <3>2
    <2> QED
      BY <2>1, <2>2, <2>3
  <1>5. ExcludedPaths(L) = s.excluded
    <2>1. Range(L) = {L[i] : i \in DOMAIN L}
      BY DEF Range
    <2>2. ASSUME NEW p \in ExcludedPaths(L) PROVE p \in s.excluded
      <3>1. PICK i \in DOMAIN L : L[i].exclude /\ p = L[i].path
        BY <2>2 DEF ExcludedPaths
      <3>2. L[i] \in Range(L)
        BY <2>1
      <3> QED
        BY <1>3, <1>4, <3>1, <3>2
    <2>3. ASSUME NEW p \in s.excluded PROVE p \in ExcludedPaths(L)
      <3>1. PICK l \in ExclusionsOf(s) : l.path = p
        BY <1>4
      <3>2. PICK i \in DOMAIN L : l = L[i]
        BY <1>3, <2>1
      <3>3. L[i].exclude
        BY <1>4, <3>2
      <3> QED
        BY <3>1, <3>2, <3>3 DEF ExcludedPaths
    <2> QED
      BY <2>2, <2>3
  <1>6. PICK F : F = FunctionRoutes(s.functions, ExcludedPaths(L))
    OBVIOUS
  <1>7. F \in Seq(FunctionSet(s)) /\ Range(F) = FunctionSet(s)
    <2>1. PICK E : E = {g \in s.functions : g.path \notin s.excluded}
      OBVIOUS
    <2>2. IsFiniteSet(E)
      BY <2>1, FS_Subset DEF SiteTyped
    <2> DEFINE f == [g \in E |-> Route(g.path, {g.method}, "function")]
    <2>3. f = [g \in E |-> f[g]] /\ {f[g] : g \in E} = FunctionSet(s)
      BY <2>1 DEF FunctionSet
    <2> HIDE DEF f
    <2>4. IsFiniteSet(FunctionSet(s))
      BY <2>2, <2>3, FiniteImage
    <2>5. F = SetToSeq(FunctionSet(s))
      BY <1>5, <1>6, Zenon DEF FunctionRoutes, FunctionSet
    <2> QED
      BY <2>4, <2>5, MembersListed
  <1>8. ASSUME NEW l \in Range(L)
        PROVE  ListingRoutes(l) \in Seq(ListingSet(l)) /\ Range(ListingRoutes(l)) = ListingSet(l)
    <2>1. CASE l.exclude
      <3>1. ListingRoutes(l) = <<>> /\ ListingSet(l) = {}
        BY <2>1 DEF ListingRoutes, ListingSet
      <3>2. <<>> \in Seq({}) /\ Range(<<>>) = {}
        BY DEF Range
      <3> QED
        BY <3>1, <3>2, Zenon
    <2>2. CASE ~l.exclude
      <3>1. PICK M : M = l.methods
        OBVIOUS
      <3>2. IsFiniteSet(M)
        BY <1>3, <1>4, <2>2, <3>1
      <3> DEFINE f == [m \in M |-> RouteOf(l, m)]
      <3>3. f = [m \in M |-> f[m]] /\ {f[m] : m \in M} = ListingSet(l)
        BY <2>2, <3>1 DEF ListingSet
      <3> HIDE DEF f
      <3>4. IsFiniteSet(ListingSet(l))
        BY <3>2, <3>3, FiniteImage
      <3>5. ListingRoutes(l) = SetToSeq(ListingSet(l))
        BY <2>2, Zenon DEF ListingRoutes, ListingSet
      <3> QED
        BY <3>4, <3>5, MembersListed
    <2> QED
      BY <2>1, <2>2
  <1> DEFINE seqs == [i \in DOMAIN L |-> ListingRoutes(L[i])]
             all == UNION {ListingSet(l) : l \in Range(L)}
  <1>9. \A i \in DOMAIN L : L[i] \in Range(L)
    BY DEF Range
  <1>10. \A i \in DOMAIN L : seqs[i] \in Seq(all) /\ Range(seqs[i]) = ListingSet(L[i])
    <2>1. \A l \in Range(L) : ListingSet(l) \subseteq all
      OBVIOUS
    <2> HIDE DEF all
    <2> QED
      BY <1>8, <1>9, <2>1, SeqMonotonic
  <1>11. seqs \in Seq(Seq(all)) /\ DOMAIN seqs = DOMAIN L
    <2>1. seqs = [i \in DOMAIN L |-> seqs[i]]
      OBVIOUS
    <2> HIDE DEF seqs, all
    <2> QED
      BY <1>3, <1>10, <2>1, SameIndices
  <1>12. Registered(s) = F \o FlattenSeq(seqs)
    BY <1>1, <1>6 DEF Registered, AppRoutes, ServiceConfigRoutes
  <1> HIDE DEF seqs
  <1>13. /\ FlattenSeq(seqs) \in Seq(all)
         /\ Range(FlattenSeq(seqs)) = UNION {Range(seqs[i]) : i \in DOMAIN L}
    <2> HIDE DEF all
    <2> QED
      BY <1>11, Flattened
  <1>14. UNION {Range(seqs[i]) : i \in DOMAIN L}
           = UNION {ListingSet(l) : l \in {b \in BaseListings(s) : b.path \notin s.excluded}}
    <2> DEFINE kept == {b \in BaseListings(s) : b.path \notin s.excluded}
    <2>1. ASSUME NEW i \in DOMAIN L, NEW r \in Range(seqs[i])
          PROVE  \E l \in kept : r \in ListingSet(l)
      <3>1. r \in ListingSet(L[i]) /\ L[i] \in kept \cup ExclusionsOf(s)
        BY <1>3, <1>9, <1>10
      <3>2. L[i] \notin ExclusionsOf(s)
        BY <1>4, <3>1 DEF ListingSet
      <3> QED
        BY <3>1, <3>2
    <2>2. ASSUME NEW l \in kept, NEW r \in ListingSet(l)
          PROVE  \E i \in DOMAIN L : r \in Range(seqs[i])
      <3>1. PICK i \in DOMAIN L : l = L[i]
        BY <1>3 DEF Range
      <3> QED
        BY <1>10, <3>1
    <2> HIDE DEF kept
    <2>3. \A r : r \in UNION {Range(seqs[i]) : i \in DOMAIN L}
                   <=> r \in UNION {ListingSet(l) : l \in kept}
      BY <2>1, <2>2
    <2> QED
      BY <2>3 DEF kept
  <1>15. /\ Registered(s) \in Seq(FunctionSet(s) \cup all)
         /\ Range(Registered(s)) = Range(F) \cup Range(FlattenSeq(seqs))
    <2> HIDE DEF all
    <2>1. PICK B, C : B = FunctionSet(s) /\ C = all
      OBVIOUS
    <2>2. PICK x \in Seq(B), y \in Seq(C) : x = F /\ y = FlattenSeq(seqs)
      BY <1>7, <1>13, <2>1
    <2>3. x \o y \in Seq(B \cup C) /\ Range(x \o y) = Range(x) \cup Range(y)
      BY Joined, SMTT(30)
    <2> QED
      BY <1>12, <2>1, <2>2, <2>3, Zenon
  <1>16. Range(Registered(s)) = FunctionSet(s)
           \cup UNION {ListingSet(l) : l \in {b \in BaseListings(s) : b.path \notin s.excluded}}
    BY <1>7, <1>13, <1>14, <1>15
  <1> QED
    BY <1>15, <1>16

\* The application's own routes are after them.
LEMMA OwnTyped ==
  ASSUME NEW s, SiteTyped(s)
  PROVE  \E S : /\ OwnRoutes(s) \in Seq(S)
                /\ \A r \in Range(OwnRoutes(s)) : r.handler \in {"own", "catchall", "file"}
  <1>1. PICK E : E = s.excluded
    OBVIOUS
  <1> DEFINE f == [p \in E |-> Route(p, {"GET", "HEAD", "POST"}, "own")]
  <1>2. PICK own : own = {Route(p, {"GET", "HEAD", "POST"}, "own") : p \in s.excluded}
    OBVIOUS
  <1>3. f = [p \in E |-> f[p]] /\ {f[p] : p \in E} = own
    BY <1>1, <1>2
  <1>4. IsFiniteSet(E)
    BY <1>1 DEF SiteTyped
  <1> HIDE DEF f
  <1>5. IsFiniteSet(own)
    BY <1>3, <1>4, FiniteImage
  <1>6. PICK x, y : /\ x = Route(<<[kind |-> "text", name |-> "api"], [kind |-> "tail", name |-> "fn"]>>,
                                  {"GET", "POST"}, "catchall")
                    /\ y = Route(<<[kind |-> "tail", name |-> "tail"]>>, {"GET", "HEAD"}, "file")
    OBVIOUS
  <1>7. OwnRoutes(s) = SetToSeq(own) \o <<x, y>>
    BY <1>2, <1>6 DEF OwnRoutes
  <1>8. SetToSeq(own) \in Seq(own) /\ Range(SetToSeq(own)) = own
    BY <1>5, MembersListed
  <1>9. <<x, y>> \in Seq({x, y}) /\ Range(<<x, y>>) = {x, y}
    BY DEF Range
  <1>10. PICK s1 \in Seq(own), s2 \in Seq({x, y}) : s1 = SetToSeq(own) /\ s2 = <<x, y>>
    BY <1>8, <1>9
  <1>11. s1 \o s2 \in Seq(own \cup {x, y}) /\ Range(s1 \o s2) = Range(s1) \cup Range(s2)
    BY Joined, SMTT(30)
  <1>12. OwnRoutes(s) \in Seq(own \cup {x, y}) /\ Range(OwnRoutes(s)) = own \cup {x, y}
    BY <1>7, <1>8, <1>9, <1>10, <1>11, Zenon
  <1>13. \A r \in own \cup {x, y} : r.handler \in {"own", "catchall", "file"}
    BY <1>2, <1>6 DEF Route
  <1> QED
    BY <1>12, <1>13

\* A route has the path of its listing, the guard of its method and a handler
\* of the crate.
LEMMA RouteParts ==
  ASSUME NEW l, NEW m
  PROVE  /\ RouteOf(l, m).path = l.path /\ RouteOf(l, m).methods = Guard(m)
         /\ RouteOf(l, m).handler \in CrateHandlers
  <1>1. PICK h \in CrateHandlers : RouteOf(l, m) = Route(l.path, Guard(m), h)
    <2>1. CASE l.mode = "Static"
      BY <2>1 DEF RouteOf, StaticRoute, CrateHandlers, Streamed
    <2>2. CASE l.mode # "Static" /\ l.mode \in Streamed
      BY <2>2 DEF RouteOf, RenderRoute, CrateHandlers
    <2>3. CASE l.mode # "Static" /\ l.mode \notin Streamed
      BY <2>3 DEF RouteOf, UnsupportedRoute, CrateHandlers
    <2> QED
      BY <2>1, <2>2, <2>3
  <1> QED
    BY <1>1 DEF Route

\* The crate answers what is declared and not excluded.
LEMMA Reached ==
  ASSUME NEW s, SiteTyped(s)
  PROVE  HandlerFor(s) \in CrateHandlers
           <=> \/ \E d \in Declared(s) : Serves(d, s)
               \/ \E f \in s.functions :
                     f.path \notin s.excluded /\ Matches(f.path, s.url) /\ f.method = s.method
  <1>1. PICK S1, T1 : T1 = Registered(s) /\ T1 \in Seq(S1) /\ Range(T1) = FunctionSet(s)
           \cup UNION {ListingSet(l) : l \in {b \in BaseListings(s) : b.path \notin s.excluded}}
    BY RegisteredAll
  <1>2. PICK S2, T2 : /\ T2 = OwnRoutes(s) /\ T2 \in Seq(S2)
                      /\ \A r \in Range(T2) : r.handler \in {"own", "catchall", "file"}
    BY OwnTyped
  <1>3. PICK S : S = S1 \cup S2
    OBVIOUS
  <1>4. T1 \in Seq(S) /\ T2 \in Seq(S)
    BY <1>1, <1>2, <1>3, Joined
  <1> DEFINE kept == {b \in BaseListings(s) : b.path \notin s.excluded}
  <1>5. \A l \in kept : ~l.exclude
    <2>1. \A r : \A l \in ListingsOf(r) : ~l.exclude
      BY DEF ListingsOf, Listing
    <2>2. ~Listing(<<>>, "OutOfOrder", {"GET"}, FALSE).exclude
      BY DEF Listing
    <2> QED
      BY <2>1, <2>2 DEF BaseListings, ListingsOfAll
  <1>6. \A l \in kept : ListingSet(l) = {RouteOf(l, m) : m \in l.methods}
    BY <1>5 DEF ListingSet
  <1>7. Range(T1) = FunctionSet(s) \cup UNION {ListingSet(l) : l \in kept}
    BY <1>1
  <1> HIDE DEF kept
  <1>8. \A r \in Range(T1) : r.handler \in CrateHandlers
    <2>1. \A r \in FunctionSet(s) : r.handler \in CrateHandlers
      BY DEF FunctionSet, Route, CrateHandlers
    <2>2. \A l \in kept : \A r \in ListingSet(l) : r.handler \in CrateHandlers
      BY <1>6, RouteParts
    <2> QED
      BY <1>7, <2>1, <2>2
  <1>9. HandlerFor(s) \in CrateHandlers <=> \E r \in Range(T1) : Fits(r, s.url, s.method)
    <2>1. Dispatched(T1 \o T2, s.url, s.method) \in CrateHandlers
            <=> \E r \in Range(T1) : Fits(r, s.url, s.method)
      BY <1>2, <1>4, <1>8, CrateComesFirst
    <2> QED
      BY <1>1, <1>2, <2>1 DEF HandlerFor
  <1>10. (\E r \in FunctionSet(s) : Fits(r, s.url, s.method)) <=>
           \E f \in s.functions :
              f.path \notin s.excluded /\ Matches(f.path, s.url) /\ f.method = s.method
    <2>1. ASSUME NEW f \in s.functions, f.path \notin s.excluded,
                 Matches(f.path, s.url), f.method = s.method
          PROVE  \E r \in FunctionSet(s) : Fits(r, s.url, s.method)
      <3>1. Route(f.path, {f.method}, "function") \in FunctionSet(s)
        BY <2>1 DEF FunctionSet
      <3>2. Fits(Route(f.path, {f.method}, "function"), s.url, s.method)
        BY <2>1 DEF Fits, Route
      <3> QED
        BY <3>1, <3>2
    <2>2. ASSUME NEW r \in FunctionSet(s), Fits(r, s.url, s.method)
          PROVE  \E f \in s.functions :
                    f.path \notin s.excluded /\ Matches(f.path, s.url) /\ f.method = s.method
      <3>1. PICK f \in s.functions : /\ f.path \notin s.excluded
                                     /\ r = Route(f.path, {f.method}, "function")
        BY <2>2 DEF FunctionSet
      <3>2. Matches(f.path, s.url) /\ f.method = s.method
        BY <2>2, <3>1 DEF Fits, Route
      <3> QED
        BY <3>1, <3>2
    <2> QED
      BY <2>1, <2>2
  <1>11. (\E l \in kept : \E r \in ListingSet(l) : Fits(r, s.url, s.method)) <=>
           \E l \in kept : Matches(l.path, s.url) /\ s.method \in UNION {Guard(m) : m \in l.methods}
    <2>1. \A l, m : Fits(RouteOf(l, m), s.url, s.method) <=> Matches(l.path, s.url) /\ s.method \in Guard(m)
      BY RouteParts DEF Fits
    <2>2. ASSUME NEW l \in kept
          PROVE  (\E r \in ListingSet(l) : Fits(r, s.url, s.method)) <=>
                   Matches(l.path, s.url) /\ s.method \in UNION {Guard(m) : m \in l.methods}
      BY <1>6, <2>1
    <2> QED
      BY <2>2
  <1>12. (\E l \in kept : Matches(l.path, s.url) /\ s.method \in UNION {Guard(m) : m \in l.methods})
           <=> \E d \in Declared(s) : Serves(d, s)
    <2>1. ASSUME NEW l \in BaseListings(s) PROVE [path |-> l.path, methods |-> l.methods] \in Declared(s)
      <3>1. CASE s.routes = <<>>
        <4>1. l = Listing(<<>>, "OutOfOrder", {"GET"}, FALSE)
          BY <3>1 DEF BaseListings
        <4>2. l.path = <<>> /\ l.methods = {"GET"}
          BY <4>1 DEF Listing
        <4>3. Declared(s) = {[path |-> <<>>, methods |-> {"GET"}]}
          BY <3>1 DEF Declared
        <4> QED
          BY <4>2, <4>3
      <3>2. CASE s.routes # <<>>
        <4>1. PICK i \in DOMAIN s.routes : l \in ListingsOf(s.routes[i])
          BY <3>2 DEF BaseListings, ListingsOfAll
        <4>2. PICK p \in ExpandOptionals(s.routes[i].segments) :
                 l.path = ToNtexPath(p) /\ l.methods = s.routes[i].methods
          BY <4>1 DEF ListingsOf, Listing
        <4> QED
          BY <3>2, <4>2 DEF Declared
      <3> QED
        BY <3>1, <3>2
    <2>2. ASSUME NEW d \in Declared(s)
          PROVE  \E l \in BaseListings(s) : l.path = d.path /\ l.methods = d.methods
      <3>1. CASE s.routes = <<>>
        BY <3>1 DEF BaseListings, Declared, Listing
      <3>2. CASE s.routes # <<>>
        <4>1. PICK i \in DOMAIN s.routes : \E p \in ExpandOptionals(s.routes[i].segments) :
                 d = [path |-> ToNtexPath(p), methods |-> s.routes[i].methods]
          BY <3>2 DEF Declared
        <4>2. PICK p \in ExpandOptionals(s.routes[i].segments) :
                 d = [path |-> ToNtexPath(p), methods |-> s.routes[i].methods]
          BY <4>1
        <4>3. PICK l : l = Listing(ToNtexPath(p), s.routes[i].mode, s.routes[i].methods, FALSE)
          OBVIOUS
        <4>4. l \in BaseListings(s)
          <5>1. l \in ListingsOf(s.routes[i])
            BY <4>3 DEF ListingsOf
          <5> QED
            BY <3>2, <5>1 DEF BaseListings, ListingsOfAll
        <4> QED
          BY <4>2, <4>3, <4>4 DEF Listing
      <3> QED
        BY <3>1, <3>2
    <2>3. ASSUME NEW l \in kept, Matches(l.path, s.url), s.method \in UNION {Guard(m) : m \in l.methods}
          PROVE  \E d \in Declared(s) : Serves(d, s)
      <3>1. PICK d : d = [path |-> l.path, methods |-> l.methods]
        OBVIOUS
      <3>2. d \in Declared(s) /\ d.path = l.path /\ d.methods = l.methods /\ l.path \notin s.excluded
        BY <2>1, <3>1 DEF kept
      <3> QED
        BY <2>3, <3>2 DEF Serves
    <2>4. ASSUME NEW d \in Declared(s), Serves(d, s)
          PROVE  \E l \in kept : Matches(l.path, s.url) /\ s.method \in UNION {Guard(m) : m \in l.methods}
      BY <2>2, <2>4 DEF Serves, kept
    <2> QED
      BY <2>3, <2>4
  <1> QED
    BY <1>7, <1>9, <1>10, <1>11, <1>12

-----------------------------------------------------------------------------
(* The site.                                                               *)

\* Where the dispatch does not move, its invariant stays.
LEMMA DispatchRests ==
  ASSUME DispatchInv, UNCHANGED vars
  PROVE  DispatchInv'
  BY DispatchStep

\* Where the files do not move, theirs stays.
LEMMA FilesRest ==
  ASSUME FileInv, UNCHANGED fileVars
  PROVE  FileInv'
  BY DEF FileInv, FileTyped, Rooted, SentRooted, Files!FileSent, fileVars

\* Where nothing is installed, verdicts stay.
LEMMA ExecutorRests ==
  ASSUME ExecutorInv, UNCHANGED executorVars
  PROVE  ExecutorInv'
  BY DEF ExecutorInv, executorVars

\* A routed request has not touched anything yet.
LEMMA RouteKeeps ==
  ASSUME DispatchInv, pc = "unrouted", RouteRequest
  PROVE  DispatchInv'
  <1>1. /\ DispatchTyped /\ OneSlot /\ SlotsAreLatest /\ FoundLatest
        /\ Held /\ Untouched /\ Answered /\ RedirectsAreSafe /\ AdapterErrorsStand
    BY DEF DispatchInv
  <1>2. /\ pc' \in {"arrived", "over"}
        /\ UNCHANGED <<entries, latest, served, seen, tooLarge, handshake, options, intent, scope,
                       owner, refs, work, away, terminated>>
    BY DEF RouteRequest, bodyVars, ownerVars
  <1>3. /\ refs = {} /\ work = {} /\ handshake = 0 /\ seen = 0 /\ intent = None
    BY <1>1 DEF Untouched, Answered, Early
  <1>4. DispatchTyped'
    BY <1>1, <1>2 DEF DispatchTyped, Early
  <1>5. OneSlot' /\ SlotsAreLatest' /\ FoundLatest'
    BY <1>1, <1>2 DEF OneSlot, SlotsAreLatest, FoundLatest
  <1>6. Held' /\ Untouched' /\ Answered'
    BY <1>1, <1>2, <1>3, ConstantsAssumption DEF Held, Untouched, Answered, Early
  <1>7. RedirectsAreSafe' /\ AdapterErrorsStand'
    BY <1>1, <1>2, <1>3, <1>6, AnswerStands
  <1> QED
    BY <1>4, <1>5, <1>6, <1>7 DEF DispatchInv

\* The invariant of the composition: each step belongs to one component and
\* leaves the others alone, and the dispatch waits for the routing.
THEOREM Invariance == SiteSpec => []IInv
  <1>1. SiteInit => IInv
    <2> SUFFICES ASSUME SiteInit PROVE IInv
      OBVIOUS
    <2>1. DispatchInv /\ Unrouted
      <3>1. Start("unrouted", None)
        BY DEF SiteInit
      <3> QED
        BY <3>1, DispatchStarts DEF Start, Unrouted
    <2>2. FileInv
      <3>1. /\ link = None /\ cache = None
            /\ asset = [r \in Assets |-> [pc |-> "idle", root |-> None, safe |-> None]]
            /\ sent = [r \in Assets |-> None]
        BY DEF SiteInit, Files!FileInit
      <3>2. FileTyped
        BY <3>1 DEF FileTyped, FilePoints
      <3>3. Rooted /\ SentRooted
        BY <3>1 DEF Rooted, SentRooted, Files!FileSent
      <3> QED
        BY <3>2, <3>3 DEF FileInv
    <2>3. ExecutorInv
      BY DEF SiteInit, Executor!ExecutorInit, ExecutorInv
    <2> QED
      BY <2>1, <2>2, <2>3 DEF IInv
  <1>2. IInv /\ [SiteNext]_siteVars => IInv'
    <2> SUFFICES ASSUME IInv, [SiteNext]_siteVars PROVE IInv'
      OBVIOUS
    <2>1. DispatchInv /\ FileInv /\ ExecutorInv /\ Unrouted
      BY DEF IInv
    <2>2. CASE RouteRequest
      <3>1. UNCHANGED <<fileVars, executorVars>> /\ site' = None /\ site # None
        BY <2>2 DEF RouteRequest
      <3>2. DispatchInv'
        BY <2>1, <2>2, <3>1, RouteKeeps DEF Unrouted
      <3> QED
        BY <2>1, <3>1, <3>2, FilesRest, ExecutorRests DEF IInv, Unrouted
    <2>3. CASE /\ site # None
               /\ Mounted \/ Executor!InstallForeign \/ Executor!TryInitExecutor
               /\ UNCHANGED <<vars, site, fileVars>>
      <3>1. DispatchInv' /\ FileInv' /\ ExecutorInv'
        BY <2>1, <2>3, DispatchRests, FilesRest, ExecutorKeeps DEF Mounted
      <3>2. Unrouted'
        BY <2>1, <2>3 DEF Unrouted, vars
      <3> QED
        BY <3>1, <3>2 DEF IInv
    <2>4. CASE site = None /\ Next /\ UNCHANGED <<site, fileVars, executorVars>>
      BY <2>1, <2>4, DispatchStep, FilesRest, ExecutorRests DEF IInv, Unrouted
    <2>5. CASE Files!FileNext /\ site = None /\ UNCHANGED <<vars, site, executorVars>>
      BY <2>1, <2>5, DispatchRests, FileStepKeeps, ExecutorRests DEF IInv, Unrouted
    <2>6. CASE UNCHANGED siteVars
      <3>1. UNCHANGED <<vars, site, fileVars, executorVars>>
        BY <2>6 DEF siteVars
      <3>2. DispatchInv' /\ FileInv' /\ ExecutorInv'
        BY <2>1, <3>1, DispatchRests, FilesRest, ExecutorRests
      <3>3. Unrouted'
        BY <2>1, <3>1 DEF Unrouted, vars
      <3> QED
        BY <3>2, <3>3 DEF IInv
    <2> QED
      BY <2>2, <2>3, <2>4, <2>5, <2>6 DEF SiteNext
  <1> QED
    BY <1>1, <1>2, PTL DEF SiteSpec

\* A request is served by the last function registered for its method, and a
\* path has one slot per method.
THEOREM LastRegistrationWins == SiteSpec => []LastRegistrationServes
  <1>1. IInv => LastRegistrationServes
    <2> SUFFICES ASSUME IInv PROVE LastRegistrationServes
      OBVIOUS
    <2>1. DispatchTyped /\ OneSlot /\ FoundLatest
      BY DEF IInv, DispatchInv
    <2>2. ASSUME NEW m \in Methods
          PROVE  Cardinality(SlotsOf(m)) <= 1
      <3>1. CASE SlotsOf(m) = {}
        <4>1. Cardinality(SlotsOf(m)) = 0
          BY <3>1, FS_EmptySet, Zenon
        <4> QED
          BY <4>1
      <3>2. CASE SlotsOf(m) # {}
        <4>1. SlotsOf(m) = {Slot(m)}
          BY <2>1, <3>2, SlotIsTheOne
        <4>2. Cardinality({Slot(m)}) = 1
          BY FS_Singleton
        <4>3. Cardinality(SlotsOf(m)) = 1
          BY <4>1, <4>2, Zenon
        <4> QED
          BY <4>3
      <3> QED
        BY <3>1, <3>2
    <2> QED
      BY <2>1, <2>2 DEF LastRegistrationServes, FoundLatest
  <1> QED
    BY <1>1, Invariance, PTL

\* No response leaves the origin unless the application redirected, and no
\* failure becomes a success when its redirect is stripped.
THEOREM RedirectsStaySafe == SiteSpec => []RedirectsAreSafe
  <1>1. IInv => RedirectsAreSafe
    BY DEF IInv, DispatchInv
  <1> QED
    BY <1>1, Invariance, PTL

\* The adapter's 413 and its handshake failures stand, whatever the function
\* and the application made of them, and no more than payload_limit is read.
THEOREM AdapterErrorsAreKept == SiteSpec => []AdapterErrorsStand
  <1>1. IInv => AdapterErrorsStand
    BY DEF IInv, DispatchInv
  <1> QED
    BY <1>1, Invariance, PTL

\* The Owner is cleaned up only when nothing runs under it any more.
THEOREM OwnerIsHeld == SiteSpec => []OwnerOutlivesWork
  <1>1. IInv => OwnerOutlivesWork
    BY DEF IInv, DispatchInv, Held, OwnerOutlivesWork
  <1> QED
    BY <1>1, Invariance, PTL

\* Whatever deployments do, every file served is a regular file of the one
\* root that was stored first.
THEOREM OneRootServes == SiteSpec => []ServedFromOneRoot
  <1>1. IInv => ServedFromOneRoot
    BY DEF IInv, FileInv, SentRooted, ServedFromOneRoot, Files!ServedFromOneRoot
  <1> QED
    BY <1>1, Invariance, PTL

\* Callers of the executor's installation are told the truth, and the same
\* every time.
THEOREM VerdictsStayTrue == SiteSpec => []VerdictsAreTrue
  <1>1. IInv => VerdictsAreTrue
    BY DEF IInv, ExecutorInv, VerdictsAreTrue, Executor!VerdictsAreTrue
  <1> QED
    BY <1>1, Invariance, PTL

\* Whatever the header fields and whatever the site has, a file is sent in the
\* best coding that is acceptable, and conditions and ranges are answered in
\* the order of RFC 9110.
THEOREM ResponsesAreRight == SiteSpec => []ResponsesConform
  <1>1. SiteInit => Conformed
    BY DEF SiteInit, Files!FileInit, Conformed
  <1>2. IInv /\ Conformed /\ [SiteNext]_siteVars => Conformed'
    <2> SUFFICES ASSUME IInv, Conformed, [SiteNext]_siteVars PROVE Conformed'
      OBVIOUS
    <2>1. CASE UNCHANGED fileVars
      BY <2>1 DEF fileVars, Conformed, Conforms
    <2>2. CASE Files!FileNext
      BY <2>2, FilesConform DEF IInv
    <2> QED
      BY <2>1, <2>2 DEF SiteNext, RouteRequest, siteVars
  <1>3. Conformed => ResponsesConform
    BY DEF Conformed, Conforms, ResponsesConform, Files!ResponsesConform
  <1> QED
    BY <1>1, <1>2, <1>3, Invariance, PTL DEF SiteSpec

\* The application routed is one of those assumed.
SiteKnown == site # None => SiteTyped(site)

\* Whatever is declared, expanded and excluded, the crate answers its routes and
\* server functions and nothing else.
THEOREM RoutesAreReached == SiteSpec => []RoutesReachTheirHandlers
  <1>1. SiteInit => SiteKnown
    <2> SUFFICES ASSUME SiteInit PROVE SiteKnown
      OBVIOUS
    <2>1. PICK s \in Sites, u \in Urls :
             site = [routes |-> s.routes, functions |-> s.functions, excluded |-> s.excluded,
                     app |-> s.app, url |-> u.url, method |-> u.method]
      BY DEF SiteInit
    <2>2. SiteTyped(s)
      BY SitesAssumption DEF SiteTyped, RouteTyped
    <2> QED
      BY <2>1, <2>2 DEF SiteKnown, SiteTyped
  <1>2. SiteKnown /\ [SiteNext]_siteVars => SiteKnown'
    <2>1. [SiteNext]_siteVars => site' = site \/ site' = None
      BY DEF SiteNext, RouteRequest, siteVars
    <2> QED
      BY <2>1 DEF SiteKnown, SiteTyped
  <1>3. SiteKnown => RoutesReachTheirHandlers
    BY Reached, Zenon DEF SiteKnown, RoutesReachTheirHandlers, CrateHandlers
  <1> QED
    BY <1>1, <1>2, <1>3, PTL DEF SiteSpec
=============================================================================
