--------------------------- MODULE RequestScopeProofs ---------------------------
(***************************************************************************)
(* Handles stay usable and no retirement is slept through, for any number  *)
(* of scopes, requests and clones of a handle.                             *)
(***************************************************************************)
EXTENDS RequestScope, SequenceTheorems, TLAPS

-----------------------------------------------------------------------------
(* The inductive invariant.                                                *)

\* A scope is in the stack at most once, so closing it takes it out.
Distinct == IsInjective(stack)

\* A request without a scope has no handle yet; a scope it names was opened; a
\* final drop leaves no handle to clone.
Tokens ==
    \A q \in Requests :
        /\ Strong(q) <= MaxHandles
        /\ scopeOf[q] = None => Strong(q) = 0 /\ retiring[q] = "no"
        /\ scopeOf[q] # None => scopeOf[q] \in opened
        /\ retiring[q] # "no" => Strong(q) = 0

\* An entry without handles has been retired by a foreign thread: the origin
\* takes out what it retires itself.
RetiredAway ==
    \A s \in Scopes : \A q \in entries[s] : Strong(q) = 0 => retiring[q] # "no"

\* An entry whose thread has set the flag is collected under that flag.
FlagCovers ==
    \A q \in entries[Runtime] :
        retiring[q] \in {"wake", "done"} => dirty[Runtime] \/ root = "collect"

\* Past its registration in a poll, the waker of the root future is there for
\* a retirement to take, or one has taken it and scheduled the next poll.
WakerArmed ==
    root \in {"swap", "collect", "inner", "parked"} => waker[Runtime] \/ sched

\* A flag set after the poll looked at it is followed by a wake.
FlagIsSeen ==
    root \in {"collect", "inner", "parked"} /\ dirty[Runtime]
        => sched \/ \E p \in Requests : scopeOf[p] = Runtime /\ retiring[p] = "wake"

IInv == /\ TypeOK /\ Distinct /\ Tokens /\ HandlesStayUsable /\ RetiredAway
        /\ FlagCovers /\ WakerArmed /\ FlagIsSeen
-----------------------------------------------------------------------------
(* The stack of scopes.                                                    *)

\* SequencesExt!RemoveAt takes out one element and closes the gap.
LEMMA RemoveAtEffect ==
  ASSUME NEW S, NEW seq \in Seq(S), NEW i \in 1..Len(seq)
  PROVE  /\ RemoveAt(seq, i) \in Seq(S)
         /\ Len(RemoveAt(seq, i)) = Len(seq) - 1
         /\ \A j \in 1..(Len(seq) - 1) :
               RemoveAt(seq, i)[j] = IF j < i THEN seq[j] ELSE seq[j + 1]
  <1> DEFINE before == SubSeq(seq, 1, i - 1)
             after == SubSeq(seq, i + 1, Len(seq))
  <1>1. /\ before \in Seq(S) /\ Len(before) = i - 1
        /\ \A j \in 1..(i - 1) : before[j] = seq[j]
    <2>1. \A j \in 1..(i - 1) : seq[j] \in S
      OBVIOUS
    <2>2. /\ before \in Seq(S)
          /\ Len(before) = IF 1 <= i - 1 THEN (i - 1) - 1 + 1 ELSE 0
          /\ \A j \in 1..((i - 1) - 1 + 1) : before[j] = seq[1 + j - 1]
      BY <2>1, SubSeqProperties
    <2> QED
      BY <2>2
  <1>2. /\ after \in Seq(S) /\ Len(after) = Len(seq) - i
        /\ \A j \in 1..(Len(seq) - i) : after[j] = seq[i + j]
    <2>1. \A j \in (i + 1)..Len(seq) : seq[j] \in S
      OBVIOUS
    <2>2. /\ after \in Seq(S)
          /\ Len(after) = IF i + 1 <= Len(seq) THEN Len(seq) - (i + 1) + 1 ELSE 0
          /\ \A j \in 1..(Len(seq) - (i + 1) + 1) : after[j] = seq[(i + 1) + j - 1]
      BY <2>1, SubSeqProperties
    <2> QED
      BY <2>2
  <1>3. /\ before \o after \in Seq(S)
        /\ Len(before \o after) = Len(before) + Len(after)
        /\ \A j \in 1..(Len(before) + Len(after)) :
              (before \o after)[j] = IF j <= Len(before) THEN before[j]
                                                         ELSE after[j - Len(before)]
    BY <1>1, <1>2, ConcatProperties
  <1>4. RemoveAt(seq, i) = before \o after
    BY DEF RemoveAt
  <1> HIDE DEF before, after
  <1>5. ASSUME NEW j \in 1..(Len(seq) - 1)
        PROVE  (before \o after)[j] = IF j < i THEN seq[j] ELSE seq[j + 1]
    <2>1. CASE j < i
      BY <1>1, <1>2, <1>3, <2>1
    <2>2. CASE ~(j < i)
      <3>1. j - (i - 1) \in 1..(Len(seq) - i)
        BY <2>2
      <3>2. (before \o after)[j] = after[j - (i - 1)]
        BY <1>1, <1>2, <1>3, <2>2
      <3>3. after[j - (i - 1)] = seq[i + (j - (i - 1))]
        BY <1>2, <3>1
      <3>4. i + (j - (i - 1)) = j + 1
        BY <3>1
      <3> QED
        BY <2>2, <3>2, <3>3, <3>4
    <2> QED
      BY <2>1, <2>2
  <1> QED
    BY <1>1, <1>2, <1>3, <1>4, <1>5

\* Closing a scope takes it, and nothing else, off the stack.
LEMMA CloseEffect ==
  ASSUME stack \in Seq(Scopes), Distinct, NEW s \in Scopes, Close(s)
  PROVE  /\ stack' \in Seq(Scopes) /\ Distinct'
         /\ Range(stack') = Range(stack) \ {s}
  <1>1. PICK i \in 1..Len(stack) : stack[i] = s /\ stack' = RemoveAt(stack, i)
    BY DEF Close
  <1>2. /\ stack' \in Seq(Scopes) /\ Len(stack') = Len(stack) - 1
        /\ \A j \in 1..(Len(stack) - 1) : stack'[j] = IF j < i THEN stack[j] ELSE stack[j + 1]
    BY <1>1, RemoveAtEffect
  <1>3. DOMAIN stack = 1..Len(stack) /\ DOMAIN stack' = 1..(Len(stack) - 1)
    BY <1>2
  <1>4. \A a, b \in 1..Len(stack) : stack[a] = stack[b] => a = b
    BY <1>3 DEF Distinct, IsInjective
  <1>5. \A a, b \in DOMAIN stack' : stack'[a] = stack'[b] => a = b
    <2> SUFFICES ASSUME NEW a \in 1..(Len(stack) - 1), NEW b \in 1..(Len(stack) - 1),
                        stack'[a] = stack'[b]
                 PROVE  a = b
      BY <1>3
    <2> QED
      BY <1>2, <1>4
  <1>6. ASSUME NEW x
        PROVE  x \in Range(stack') <=> x \in Range(stack) /\ x # s
    <2>1. ASSUME x \in Range(stack')
          PROVE  x \in Range(stack) /\ x # s
      <3>1. PICK j \in 1..(Len(stack) - 1) : x = stack'[j]
        BY <1>3, <2>1 DEF Range
      <3>2. PICK k \in 1..Len(stack) : k # i /\ x = stack[k]
        <4>1. CASE j < i
          BY <1>2, <3>1, <4>1
        <4>2. CASE ~(j < i)
          BY <1>2, <3>1, <4>2
        <4> QED
          BY <4>1, <4>2
      <3> QED
        BY <1>1, <1>3, <1>4, <3>2 DEF Range
    <2>2. ASSUME x \in Range(stack), x # s
          PROVE  x \in Range(stack')
      <3>1. PICK j \in 1..Len(stack) : x = stack[j]
        BY <1>3, <2>2 DEF Range
      <3>2. CASE j < i
        <4>1. j \in 1..(Len(stack) - 1) /\ stack'[j] = x
          BY <1>2, <3>1, <3>2
        <4> QED
          BY <1>3, <4>1 DEF Range
      <3>3. CASE j > i
        <4>1. j - 1 \in 1..(Len(stack) - 1) /\ stack'[j - 1] = x
          BY <1>2, <3>1, <3>3
        <4> QED
          BY <1>3, <4>1 DEF Range
      <3> QED
        BY <1>1, <2>2, <3>1, <3>2, <3>3
    <2> QED
      BY <2>1, <2>2
  <1> QED
    BY <1>2, <1>5, <1>6 DEF Distinct, IsInjective

\* Opening a scope for the first time puts it on top.
LEMMA OpenEffect ==
  ASSUME stack \in Seq(Scopes), Distinct, NEW s \in Scopes, s \notin Range(stack),
         stack' = Append(stack, s)
  PROVE  /\ stack' \in Seq(Scopes) /\ Distinct'
         /\ Range(stack') = Range(stack) \cup {s}
  <1>1. /\ stack' \in Seq(Scopes) /\ Len(stack') = Len(stack) + 1
        /\ \A j \in 1..Len(stack) : stack'[j] = stack[j]
        /\ stack'[Len(stack) + 1] = s
    BY AppendProperties
  <1>2. DOMAIN stack = 1..Len(stack) /\ DOMAIN stack' = 1..(Len(stack) + 1)
    BY <1>1
  <1>3. \A a, b \in 1..Len(stack) : stack[a] = stack[b] => a = b
    BY <1>2 DEF Distinct, IsInjective
  <1>4. \A j \in 1..Len(stack) : stack[j] # s
    BY <1>2 DEF Range
  <1>5. \A a, b \in DOMAIN stack' : stack'[a] = stack'[b] => a = b
    BY <1>1, <1>2, <1>3, <1>4
  <1>6. Range(stack') = Range(stack) \cup {s}
    BY <1>1, <1>2 DEF Range
  <1> QED
    BY <1>1, <1>5, <1>6 DEF Distinct, IsInjective

\* The most recent scope is an open one.
LEMMA CurrentIsOpen == TypeOK /\ stack # <<>> => Current \in Scopes /\ IsOpen(Current)
  BY DEF TypeOK, Current, Last, IsOpen, Range

-----------------------------------------------------------------------------
(* Every step keeps the invariant.                                         *)

\* The invariant holds at the start.
LEMMA InitIInv == Init => IInv
  <1> SUFFICES ASSUME Init PROVE IInv
    OBVIOUS
  <1>1. TypeOK
    <2>1. stack \in Seq(Scopes) /\ Range(stack) \subseteq opened /\ opened \subseteq Scopes
      BY DEF Init, Range
    <2>2. /\ entries \in [Scopes -> SUBSET Requests]
          /\ \A s \in Scopes : \A q \in entries[s] : scopeOf[q] = s
          /\ scopeOf \in [Requests -> Scopes \cup {None}]
          /\ here \in [Requests -> 0..MaxHandles] /\ away \in [Requests -> 0..MaxHandles]
          /\ retiring \in [Requests -> {"no", "flag", "wake", "done"}]
          /\ dirty \in [Scopes -> BOOLEAN] /\ waker \in [Scopes -> BOOLEAN]
      BY HandlesAssumption DEF Init
    <2>3. root = "none" /\ sched = FALSE /\ pinned = {}
      BY DEF Init
    <2> QED
      BY <2>1, <2>2, <2>3 DEF TypeOK
  <1>2. Distinct
    BY DEF Init, Distinct, IsInjective
  <1>3. Tokens /\ HandlesStayUsable /\ RetiredAway
    BY HandlesAssumption, ScopesAssumption
       DEF Init, Tokens, Strong, HandlesStayUsable, IsOpen, Range, RetiredAway
  <1>4. FlagCovers /\ WakerArmed /\ FlagIsSeen
    BY ScopesAssumption DEF Init, FlagCovers, WakerArmed, FlagIsSeen
  <1> QED
    BY <1>1, <1>2, <1>3, <1>4 DEF IInv

\* Opening a scope: it owns nothing yet, since no token names it.
LEMMA OpenScopeKeeps ==
  ASSUME IInv, NEW s \in Scopes, OpenScope(s)
  PROVE  IInv'
  <1> USE ScopesAssumption DEF OpenScope, IInv
  <1>1. s \notin Range(stack)
    BY DEF TypeOK
  <1>2. stack' \in Seq(Scopes) /\ Distinct' /\ Range(stack') = Range(stack) \cup {s}
    BY <1>1, OpenEffect DEF TypeOK
  <1>3. TypeOK'
    BY <1>2 DEF TypeOK, wakeVars
  <1>4. Tokens'
    BY DEF Tokens, Strong, wakeVars
  <1>5. HandlesStayUsable'
    BY <1>2 DEF HandlesStayUsable, Tokens, Strong, IsOpen, wakeVars, TypeOK
  <1>6. RetiredAway'
    BY DEF RetiredAway, Strong, wakeVars
  <1>7. FlagCovers' /\ WakerArmed' /\ FlagIsSeen'
    <2>1. root # "collect" /\ (root' = root \/ root' = "register")
      <3>1. OriginRuns /\ (root' = root \/ root' = "register")
        BY Zenon
      <3> QED
        BY <3>1 DEF OriginRuns
    <2> QED
      BY <2>1 DEF FlagCovers, WakerArmed, FlagIsSeen, wakeVars
  <1> QED
    BY <1>2, <1>3, <1>4, <1>5, <1>6, <1>7

\* Closing a scope: its tokens no longer lead anywhere.
LEMMA CloseScopeKeeps ==
  ASSUME IInv, NEW s \in Scopes, Close(s),
         UNCHANGED <<opened, scopeOf, here, away, retiring, dirty, sched, pinned>>,
         \/ s # Runtime /\ UNCHANGED root
         \/ s = Runtime /\ root' = "ready"
  PROVE  IInv'
  <1> USE ScopesAssumption DEF IInv
  <1>1. stack' \in Seq(Scopes) /\ Distinct' /\ Range(stack') = Range(stack) \ {s}
    BY CloseEffect DEF TypeOK
  <1>2. /\ waker' = [waker EXCEPT ![s] = FALSE]
        /\ entries' = [entries EXCEPT ![s] = {}]
    BY DEF Close
  <1>3. TypeOK'
    BY <1>1, <1>2 DEF TypeOK
  <1>4. Tokens'
    BY DEF Tokens, Strong
  <1>5. HandlesStayUsable'
    BY <1>1, <1>2 DEF HandlesStayUsable, Tokens, Strong, IsOpen, TypeOK
  <1>6. RetiredAway'
    BY <1>2 DEF RetiredAway, Strong, TypeOK
  <1>7. FlagCovers' /\ WakerArmed' /\ FlagIsSeen'
    BY <1>2 DEF FlagCovers, WakerArmed, FlagIsSeen, TypeOK
  <1> QED
    BY <1>1, <1>3, <1>4, <1>5, <1>6, <1>7

\* Collecting a scope takes out entries without handles only.
LEMMA CollectKeeps ==
  ASSUME IInv, NEW s \in Scopes, entries' = [entries EXCEPT ![s] = @ \ Retired(s)],
         UNCHANGED <<scopeVars, scopeOf, here, away, retiring, wakeVars, pinned>>,
         \/ UNCHANGED root
         \/ s = Runtime /\ root = "collect" /\ root' = "inner"
  PROVE  IInv'
  <1> USE ScopesAssumption DEF IInv, scopeVars, wakeVars
  <1>1. TypeOK'
    BY DEF TypeOK
  <1>2. Distinct' /\ Tokens'
    BY DEF Distinct, IsInjective, Tokens, Strong
  <1>3. HandlesStayUsable'
    BY DEF HandlesStayUsable, Strong, IsOpen, TypeOK, Retired
  <1>4. RetiredAway'
    BY DEF RetiredAway, Strong, TypeOK
  <1>5. FlagCovers'
    BY DEF FlagCovers, TypeOK, Retired, Strong, Tokens
  <1>6. WakerArmed' /\ FlagIsSeen'
    BY DEF WakerArmed, FlagIsSeen
  <1> QED
    BY <1>1, <1>2, <1>3, <1>4, <1>5, <1>6

\* The application's use of a request on the origin thread: a new one belongs
\* to the current scope, and the last handle takes its entry out.
LEMMA OriginKeeps ==
  ASSUME IInv, NEW q \in Requests,
         TryNew(q) \/ BeginWith(q) \/ EndWith(q) \/ CloneHere(q) \/ Send(q) \/ DropHere(q)
  PROVE  IInv'
  <1> USE ScopesAssumption, HandlesAssumption DEF IInv, scopeVars, wakeVars
  <1>0. /\ UNCHANGED <<stack, opened, retiring, dirty, waker, sched, root>>
        /\ \A p \in Requests \ {q} : here'[p] = here[p] /\ away'[p] = away[p] /\ scopeOf'[p] = scopeOf[p]
    BY DEF TryNew, BeginWith, EndWith, CloneHere, Send, DropHere, TypeOK
  <1>1. CASE TryNew(q)
    <2>1. Current \in Scopes /\ IsOpen(Current) /\ Current \in opened
      BY <1>1, CurrentIsOpen DEF TryNew, TypeOK, IsOpen
    <2>2. /\ scopeOf[q] = None
          /\ scopeOf' = [scopeOf EXCEPT ![q] = Current]
          /\ entries' = [entries EXCEPT ![Current] = @ \cup {q}]
          /\ here' = [here EXCEPT ![q] = 1]
          /\ UNCHANGED <<scopeVars, away, retiring, wakeVars, root, pinned>>
      BY <1>1 DEF TryNew, TokenScope
    <2> HIDE DEF Current
    <2>3. away[q] = 0 /\ here[q] = 0 /\ retiring[q] = "no"
      BY <2>2 DEF Tokens, Strong, TypeOK
    <2>4. TypeOK'
      <3>1. \A s \in Scopes : \A p \in entries'[s] : scopeOf'[p] = s
        BY <2>1, <2>2 DEF TypeOK
      <3>2. /\ entries' \in [Scopes -> SUBSET Requests]
            /\ scopeOf' \in [Requests -> Scopes \cup {None}]
            /\ here' \in [Requests -> 0..MaxHandles]
        BY <2>1, <2>2 DEF TypeOK
      <3> QED
        BY <2>2, <3>1, <3>2 DEF TypeOK
    <2>5. Distinct' /\ Tokens'
      <3>1. here'[q] + away'[q] = 1 /\ scopeOf'[q] = Current /\ Current # None
        BY <2>1, <2>2, <2>3 DEF TypeOK
      <3>2. Tokens'
        BY <1>0, <2>1, <2>2, <2>3, <3>1 DEF Tokens, Strong
      <3> QED
        BY <2>2, <3>2 DEF Distinct, IsInjective
    <2>6. HandlesStayUsable'
      BY <2>1, <2>2 DEF HandlesStayUsable, Strong, IsOpen, TypeOK
    <2>7. RetiredAway'
      BY <2>1, <2>2, <2>3 DEF RetiredAway, Strong, TypeOK
    <2>8. FlagCovers' /\ WakerArmed' /\ FlagIsSeen'
      BY <2>1, <2>2, <2>3 DEF FlagCovers, WakerArmed, FlagIsSeen, TypeOK
    <2> QED
      BY <2>4, <2>5, <2>6, <2>7, <2>8
  <1>2. CASE BeginWith(q) \/ EndWith(q)
    <2>1. UNCHANGED <<stack, opened, entries, scopeOf, here, away, retiring, dirty, waker, sched, root>>
      BY <1>2 DEF BeginWith, EndWith
    <2>2. pinned' \in SUBSET Requests
      BY <1>2 DEF BeginWith, EndWith, TypeOK
    <2> QED
      BY <2>1, <2>2 DEF TypeOK, Distinct, IsInjective, Tokens, Strong, HandlesStayUsable,
         IsOpen, RetiredAway, FlagCovers, WakerArmed, FlagIsSeen
  <1>3. CASE CloneHere(q) \/ Send(q)
    <2>1. /\ UNCHANGED <<stack, opened, entries, scopeOf, retiring, dirty, waker, sched, root, pinned>>
          /\ here[q] > 0 /\ Strong(q) > 0
          /\ here' \in [Requests -> 0..MaxHandles] /\ away' \in [Requests -> 0..MaxHandles]
          /\ here'[q] + away'[q] > 0 /\ here'[q] + away'[q] <= MaxHandles
      <3>1. /\ here[q] \in 1..MaxHandles /\ away[q] \in 0..MaxHandles
            /\ here[q] + away[q] <= MaxHandles
        BY <1>3 DEF CloneHere, Send, TypeOK, Tokens, Strong
      <3>2. CASE CloneHere(q)
        BY <3>1, <3>2 DEF CloneHere, TypeOK, Strong
      <3>3. CASE Send(q)
        BY <3>1, <3>3 DEF Send, TypeOK, Strong
      <3> QED
        BY <1>3, <3>2, <3>3
    <2>2. TypeOK'
      BY <2>1 DEF TypeOK
    <2>3. Distinct' /\ Tokens'
      BY <1>0, <2>1 DEF Distinct, IsInjective, Tokens, Strong
    <2>4. HandlesStayUsable'
      BY <1>0, <2>1 DEF HandlesStayUsable, Strong, IsOpen
    <2>5. RetiredAway'
      <3> SUFFICES ASSUME NEW s \in Scopes, NEW p \in entries[s], here'[p] + away'[p] = 0
                   PROVE  retiring[p] # "no"
        BY <2>1 DEF RetiredAway, Strong
      <3>1. p \in Requests \ {q}
        BY <2>1 DEF TypeOK
      <3> QED
        BY <1>0, <3>1 DEF RetiredAway, Strong
    <2>6. FlagCovers' /\ WakerArmed' /\ FlagIsSeen'
      BY <2>1 DEF FlagCovers, WakerArmed, FlagIsSeen
    <2> QED
      BY <2>2, <2>3, <2>4, <2>5, <2>6
  <1>4. CASE DropHere(q)
    <2>1. /\ UNCHANGED <<stack, opened, scopeOf, away, retiring, dirty, waker, sched, root, pinned>>
          /\ here[q] > 0 /\ scopeOf[q] \in Scopes
          /\ here' = [here EXCEPT ![q] = @ - 1]
          /\ here' \in [Requests -> 0..MaxHandles]
      BY <1>4 DEF DropHere, TypeOK, Tokens, Strong
    <2>2. \A s \in Scopes : /\ entries'[s] \subseteq entries[s]
                            /\ \A p \in entries[s] : p \in entries'[s] \/ (p = q /\ Strong(q) = 1)
                            /\ Strong(q) = 1 => q \notin entries'[s]
      BY <1>4, <2>1 DEF DropHere, Retires, TypeOK
    <2>3. TypeOK'
      <3>1. entries' \in [Scopes -> SUBSET Requests]
        BY <1>4, <2>1 DEF DropHere, TypeOK
      <3> QED
        BY <2>1, <2>2, <3>1 DEF TypeOK
    <2>4. here'[q] + away'[q] = Strong(q) - 1
      BY <2>1 DEF Strong, TypeOK
    <2>5. Distinct' /\ Tokens'
      BY <1>0, <2>1, <2>4 DEF Distinct, IsInjective, Tokens, Strong, TypeOK
    <2>6. HandlesStayUsable'
      BY <1>0, <2>1, <2>2, <2>4 DEF HandlesStayUsable, Strong, IsOpen, TypeOK
    <2>7. RetiredAway'
      <3> SUFFICES ASSUME NEW s \in Scopes, NEW p \in entries'[s], here'[p] + away'[p] = 0
                   PROVE  retiring[p] # "no"
        BY <2>1 DEF RetiredAway, Strong
      <3>1. p \in Requests
        BY <2>2 DEF TypeOK
      <3>2. p # q
        <4>1. p = q => Strong(q) = 1
          BY <2>4 DEF Strong, TypeOK
        <4> QED
          BY <2>2, <4>1
      <3> QED
        BY <1>0, <2>1, <2>2, <3>1, <3>2 DEF RetiredAway, Strong
    <2>8. FlagCovers' /\ WakerArmed' /\ FlagIsSeen'
      BY <2>1, <2>2 DEF FlagCovers, WakerArmed, FlagIsSeen
    <2> QED
      BY <2>3, <2>5, <2>6, <2>7, <2>8
  <1> QED
    BY <1>1, <1>2, <1>3, <1>4

\* Foreign threads clone and drop handles; a final drop sets the flag, then
\* takes the waker, which schedules the root future.
LEMMA ForeignKeeps ==
  ASSUME IInv, NEW q \in Requests,
         CloneAway(q) \/ DropAway(q) \/ SetDirty(q) \/ WakeRoot(q)
  PROVE  IInv'
  <1> USE ScopesAssumption, HandlesAssumption DEF IInv, scopeVars, wakeVars
  <1>1. CASE CloneAway(q) \/ DropAway(q)
    <2>1. /\ UNCHANGED <<stack, opened, entries, scopeOf, here, dirty, waker, sched, root, pinned>>
          /\ away[q] > 0 /\ retiring[q] = "no" /\ scopeOf[q] # None
          /\ away' \in [Requests -> 0..MaxHandles]
          /\ retiring' \in [Requests -> {"no", "flag", "wake", "done"}]
          /\ here[q] + away'[q] <= MaxHandles
          /\ retiring'[q] = IF here[q] + away'[q] = 0 THEN "flag" ELSE "no"
          /\ \A p \in Requests \ {q} : away'[p] = away[p] /\ retiring'[p] = retiring[p]
      <3>1. /\ away[q] \in 1..MaxHandles /\ here[q] \in 0..MaxHandles
            /\ here[q] + away[q] <= MaxHandles
            /\ retiring[q] = "no" /\ scopeOf[q] # None
        BY <1>1 DEF CloneAway, DropAway, TypeOK, Tokens, Strong
      <3>2. CASE CloneAway(q)
        BY <3>1, <3>2 DEF CloneAway, TypeOK, Strong
      <3>3. CASE DropAway(q)
        BY <3>1, <3>3 DEF DropAway, TypeOK, Strong
      <3> QED
        BY <1>1, <3>2, <3>3
    <2>2. TypeOK'
      BY <2>1 DEF TypeOK
    <2>3. Distinct' /\ Tokens'
      BY <2>1 DEF Distinct, IsInjective, Tokens, Strong
    <2>4. HandlesStayUsable'
      <3> SUFFICES ASSUME NEW p \in Requests, here[p] + away'[p] > 0, IsOpen(scopeOf[p])
                   PROVE  p \in entries[scopeOf[p]]
        BY <2>1 DEF HandlesStayUsable, Strong, IsOpen
      <3>1. Strong(p) > 0
        <4>1. here[q] + away[q] > 0
          BY <2>1 DEF TypeOK
        <4> QED
          BY <2>1, <4>1 DEF Strong
      <3> QED
        BY <3>1 DEF HandlesStayUsable
    <2>5. RetiredAway' /\ FlagCovers'
      <3>1. ASSUME NEW p \in Requests
            PROVE  /\ retiring'[p] \in {"wake", "done"} => retiring[p] = retiring'[p]
                   /\ \/ here[p] + away'[p] # 0
                      \/ retiring'[p] = "flag"
                      \/ Strong(p) = 0 /\ retiring'[p] = retiring[p]
        <4>1. CASE p = q
          BY <2>1, <4>1
        <4>2. CASE p # q
          BY <2>1, <4>2 DEF Strong
        <4> QED
          BY <4>1, <4>2
      <3>2. \A s \in Scopes : entries[s] \subseteq Requests
        BY DEF TypeOK
      <3> QED
        BY <2>1, <3>1, <3>2 DEF RetiredAway, Strong, FlagCovers
    <2>6. WakerArmed' /\ FlagIsSeen'
      BY <2>1 DEF WakerArmed, FlagIsSeen
    <2> QED
      BY <2>2, <2>3, <2>4, <2>5, <2>6
  <1>2. CASE SetDirty(q)
    <2>1. /\ UNCHANGED <<stack, opened, entries, scopeOf, here, away, waker, sched, root, pinned>>
          /\ retiring[q] = "flag" /\ retiring' = [retiring EXCEPT ![q] = "wake"]
          /\ dirty' = [dirty EXCEPT ![scopeOf[q]] = TRUE]
          /\ scopeOf[q] \in Scopes
      BY <1>2 DEF SetDirty, TypeOK, Tokens
    <2>2. TypeOK'
      BY <2>1 DEF TypeOK
    <2>3. Distinct' /\ Tokens' /\ HandlesStayUsable' /\ RetiredAway'
      BY <2>1 DEF Distinct, IsInjective, Tokens, Strong, HandlesStayUsable, IsOpen,
         RetiredAway, TypeOK
    <2>4. FlagCovers'
      BY <2>1 DEF FlagCovers, TypeOK
    <2>5. WakerArmed' /\ FlagIsSeen'
      BY <2>1 DEF WakerArmed, FlagIsSeen, TypeOK
    <2> QED
      BY <2>2, <2>3, <2>4, <2>5
  <1>3. CASE WakeRoot(q)
    <2>1. /\ UNCHANGED <<stack, opened, entries, scopeOf, here, away, dirty, root, pinned>>
          /\ retiring[q] = "wake" /\ retiring' = [retiring EXCEPT ![q] = "done"]
          /\ sched' = (sched \/ waker[scopeOf[q]])
          /\ waker' = [waker EXCEPT ![scopeOf[q]] = FALSE]
          /\ scopeOf[q] \in Scopes
      BY <1>3 DEF WakeRoot, TypeOK, Tokens
    <2>2. TypeOK'
      BY <2>1 DEF TypeOK
    <2>3. Distinct' /\ Tokens' /\ HandlesStayUsable' /\ RetiredAway'
      BY <2>1 DEF Distinct, IsInjective, Tokens, Strong, HandlesStayUsable, IsOpen,
         RetiredAway, TypeOK
    <2>4. FlagCovers'
      BY <2>1 DEF FlagCovers, TypeOK
    <2>5. WakerArmed'
      BY <2>1 DEF WakerArmed, TypeOK
    <2>6. FlagIsSeen'
      <3>1. CASE scopeOf[q] = Runtime
        BY <2>1, <3>1 DEF FlagIsSeen, WakerArmed, TypeOK
      <3>2. CASE scopeOf[q] # Runtime
        BY <2>1, <3>2 DEF FlagIsSeen, TypeOK
      <3> QED
        BY <3>1, <3>2
    <2> QED
      BY <2>2, <2>3, <2>4, <2>5, <2>6
  <1> QED
    BY <1>1, <1>2, <1>3

\* The root future registers its waker before it looks at the flag.
LEMMA RootKeeps ==
  ASSUME IInv, Poll \/ Register \/ Swap \/ InnerPending \/ InnerWake
  PROVE  IInv'
  <1> USE ScopesAssumption DEF IInv, scopeVars, wakeVars
  <1>1. UNCHANGED <<stack, opened, entries, scopeOf, here, away, retiring, pinned>>
    BY DEF Poll, Register, Swap, InnerPending, InnerWake
  <1>2. TypeOK'
    BY <1>1 DEF Poll, Register, Swap, InnerPending, InnerWake, First, TypeOK
  <1>3. Distinct' /\ Tokens' /\ HandlesStayUsable' /\ RetiredAway'
    BY <1>1 DEF Distinct, IsInjective, Tokens, Strong, HandlesStayUsable, IsOpen, RetiredAway
  <1>4. FlagCovers'
    BY <1>1 DEF Poll, Register, Swap, InnerPending, InnerWake, First, FlagCovers, TypeOK
  <1>5. WakerArmed' /\ FlagIsSeen'
    BY <1>1 DEF Poll, Register, Swap, InnerPending, InnerWake, First, WakerArmed,
       FlagIsSeen, TypeOK
  <1> QED
    BY <1>2, <1>3, <1>4, <1>5

\* Every step keeps the invariant.
LEMMA NextIInv == IInv /\ [Next]_vars => IInv'
  <1> SUFFICES ASSUME IInv, [Next]_vars PROVE IInv'
    OBVIOUS
  <1>1. CASE Poll \/ Register \/ Swap \/ InnerPending \/ InnerWake
    BY <1>1, RootKeeps
  <1>2. CASE CollectRoot
    BY <1>2, CollectKeeps, ScopesAssumption DEF CollectRoot
  <1>3. CASE InnerReady
    BY <1>3, CloseScopeKeeps, ScopesAssumption DEF InnerReady
  <1>4. ASSUME NEW s \in Scopes, OpenScope(s) PROVE IInv'
    BY <1>4, OpenScopeKeeps
  <1>5. ASSUME NEW s \in Scopes, CloseScope(s) PROVE IInv'
    <2>1. /\ Close(s) /\ s # Runtime /\ UNCHANGED root
          /\ UNCHANGED <<opened, scopeOf, here, away, retiring, dirty, sched, pinned>>
      BY <1>5 DEF CloseScope
    <2> QED
      BY <2>1, CloseScopeKeeps
  <1>6. ASSUME NEW s \in Scopes, Collect(s) PROVE IInv'
    BY <1>6, CollectKeeps DEF Collect
  <1>7. ASSUME NEW q \in Requests,
               \/ TryNew(q) \/ BeginWith(q) \/ EndWith(q) \/ CloneHere(q) \/ Send(q) \/ DropHere(q)
        PROVE  IInv'
    BY <1>7, OriginKeeps
  <1>8. ASSUME NEW q \in Requests, CloneAway(q) \/ DropAway(q) \/ RetireStep(q)
        PROVE  IInv'
    BY <1>8, ForeignKeeps DEF RetireStep
  <1>9. CASE UNCHANGED vars
    BY <1>9 DEF vars, scopeVars, wakeVars, IInv, TypeOK, Distinct, IsInjective, Tokens, Strong,
       HandlesStayUsable, IsOpen, RetiredAway, FlagCovers, WakerArmed, FlagIsSeen
  <1> QED
    BY <1>1, <1>2, <1>3, <1>4, <1>5, <1>6, <1>7, <1>8, <1>9 DEF Next, RootStep

\* The invariant holds in every state.
LEMMA Invariant == Spec => []IInv
  BY InitIInv, NextIInv, PTL DEF Spec

-----------------------------------------------------------------------------
(* The theorems.                                                           *)

\* Every variable keeps its type; in particular an entry lies in the scope its
\* token names.
THEOREM TypeCorrect == Spec => []TypeOK
  BY Invariant, PTL DEF IInv

\* A handle whose scope is open leads to its native request, whatever its
\* clones on other threads and the collections did meanwhile (Request::with,
\* Registry::collect).
THEOREM HandlesAreUsable == Spec => []HandlesStayUsable
  BY Invariant, PTL DEF IInv

\* The root future never parks past a retirement on a foreign thread
\* (CollectingFuture::poll against Token::drop).
THEOREM RetirementsAreSeen == Spec => []NoLostRetirement
  <1>1. IInv => NoLostRetirement
    <2> SUFFICES ASSUME IInv, NEW q \in entries[Runtime],
                        root = "parked", ~sched, Strong(q) = 0
                 PROVE  \E p \in Requests : scopeOf[p] = Runtime /\ retiring[p] \in {"flag", "wake"}
      BY DEF NoLostRetirement
    <2>1. q \in Requests /\ scopeOf[q] = Runtime /\ retiring[q] \in {"flag", "wake", "done"}
      BY ScopesAssumption DEF IInv, TypeOK, RetiredAway
    <2>2. CASE retiring[q] \in {"flag", "wake"}
      BY <2>1, <2>2
    <2>3. CASE retiring[q] = "done"
      <3>1. dirty[Runtime]
        BY <2>3 DEF IInv, FlagCovers
      <3> QED
        BY <3>1 DEF IInv, FlagIsSeen
    <2> QED
      BY <2>1, <2>2, <2>3
  <1> QED
    BY <1>1, Invariant, PTL
=============================================================================
