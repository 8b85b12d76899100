-------------------------- MODULE StaticServingProofs --------------------------
(***************************************************************************)
(* Theorems about StaticServing: policies, work keys and what a page finds *)
(* after its generation, for any calls, bindings, runtimes and site roots. *)
(***************************************************************************)
EXTENDS StaticServing, FiniteSetTheorems, FunctionTheorems, SequenceTheorems, WellFoundedInduction, TLAPS

-----------------------------------------------------------------------------
(* The inductive invariant.                                                *)

Points == {"new", "rendering", "lookup", "joining", "waiting", "reopening", "done"}

Typed ==
    /\ removals \in Nat
    /\ opened \in SUBSET Handles /\ site.handles \in SUBSET Handles
    /\ binding \in [Runtimes -> [policy : Handles \cup {None}, started : BOOLEAN]]
    /\ binder \in [Binders -> {"idle", "locking", "bound", "refused"}]
    /\ pc \in [Calls -> Points]
    /\ target \in [Calls -> Names \cup {None}]
    /\ policy \in [Calls -> Handles \cup {None}]
    /\ look \in [Calls -> Looks \cup {None}]
    /\ templates \in [Calls -> SUBSET Calls]
    /\ answer \in [Calls -> Answers \cup {None}]
    /\ generation \in [Calls -> {"none", "open", "refusing", "over"}]
    /\ accepted \in [Calls -> Calls \cup {None}]
    /\ reply \in [Calls -> Outcomes \cup {None}]

\* The root stays on its volume, whose rule a walk observes.
Volume ==
    /\ dir \in Directories /\ dir.kind \in {"dir", "missing"}
    /\ IsFiniteSet(dir.entries) /\ SingleDirectories(dir)
    /\ site.above \in Seq(Directories)
    /\ OneRule(Namespace, dir.folds)
    /\ \A i \in DOMAIN site.above : SingleDirectories(site.above[i])

\* A call that has looked knows its file, and saw the rule of the volume or none.
Looked(c) ==
    /\ pc[c] \in {"lookup", "joining", "waiting", "reopening"} => target[c] # None
    /\ pc[c] \in {"joining", "waiting", "reopening"} => look[c] # None
    /\ look[c] # None =>
          /\ pc[c] \in {"joining", "waiting", "reopening", "done"} /\ target[c] # None
          /\ look[c].rule = "Folds" => dir.folds
          /\ look[c].rule = "Distinct" => ~dir.folds
          /\ SameName(dir, look[c].stored, target[c])

\* Two generations under way have no key in common.
Disjoint ==
    \A v, w \in Calls : v # w /\ Work!UnderWay(v) /\ Work!UnderWay(w) => ~Work!SharesKey(v, w)

\* A generation has looked, and the calls it took ask for its entry.
Meets(c, w) == look[c] # None /\ look[w] # None /\ SameName(dir, target[c], target[w])
Met ==
    /\ \A w \in Calls : generation[w] # "none" => look[w] # None
    /\ \A w \in Calls : \A c \in templates[w] : Meets(c, w)
    /\ \A c \in Calls : accepted[c] # None => Meets(c, accepted[c])
    /\ \A c \in Calls : reply[c] # None => accepted[c] # None

\* What was answered as published is there while nobody deletes.
Found ==
    \A c \in Calls : removals = 0 /\ (reply[c] = "published" \/ pc[c] = "reopening") => Exists(target[c])

ServingInv == /\ Typed /\ Volume /\ (\A c \in Calls : Looked(c))
              /\ Disjoint /\ Met /\ Found /\ PublishedIsFound

\* Policies are bound by calls that succeeded, to all their runtimes, and not
\* once a call has started under another.
Bound ==
    /\ opened \subseteq site.handles
    /\ site.handles # {} => dir.kind # "missing"
    /\ \A b \in Binders : binder[b] # "idle" => PolicyOf[b] \in opened
    /\ \A b \in Binders : binder[b] = "bound" =>
          \A rt \in Range(RoutesOf[b]) : binding[rt].policy = PolicyOf[b]
    /\ \A rt \in Runtimes : binding[rt].policy # None =>
          \E o \in Binders : binder[o] = "bound" /\ PolicyOf[o] = binding[rt].policy

Governed(c) ==
    pc[c] = "lookup" \/ look[c] # None =>
        /\ policy[c] = binding[RuntimeOf[c]].policy
        /\ binding[RuntimeOf[c]].started \/ site.handles = {}

\* A work waits for a slot only under a policy.
Managed ==
    /\ \A w \in Calls : generation[w] = "refusing" => policy[w] # None
    /\ OnlyManagedWorkWaits

PolicyInv == Bound /\ (\A c \in Calls : Governed(c)) /\ Managed

-----------------------------------------------------------------------------
(* Names, rules and keys.                                                  *)

\* Names that the file system does not tell apart are one class.
LEMMA SameNameIsEquivalence ==
  ASSUME NEW d \in Directories, NEW a \in Names, NEW b \in Names, NEW c \in Names
  PROVE  /\ SameName(d, a, a)
         /\ SameName(d, a, b) => SameName(d, b, a)
         /\ SameName(d, a, b) /\ SameName(d, b, c) => SameName(d, a, c)
  BY DEF SameName

LEMMA FoldKeepsText ==
  ASSUME NEW a \in Names, NEW rule \in Rules
  PROVE  /\ Fold(rule, a) \in Names /\ Fold(rule, a).text = a.text
         /\ Fold(rule, a).other = a.other
         /\ rule # "Folds" => Fold(rule, a) = a
         /\ rule = "Folds" => Fold(rule, a) = [text |-> a.text, ascii |-> "lower", other |-> a.other]
  BY DEF Fold, Lowered, Names, Cases

LEMMA SwappedDiffers ==
  ASSUME NEW a \in Names
  PROVE  /\ Swapped(a) \in Names /\ Swapped(a) # a /\ Swapped(a).text = a.text
  BY DEF Swapped, Names, Cases

\* A directory shows no rule but its own.
LEMMA ObservedIsTrue ==
  ASSUME NEW d \in Directories, SingleDirectories(d)
  PROVE  /\ Observed(d) \in Rules
         /\ Observed(d) = "Folds" => d.folds
         /\ Observed(d) = "Distinct" => ~d.folds
  <1>1. CASE Probes(d) = {}
    BY <1>1 DEF Observed, Rules
  <1>2. CASE Probes(d) # {}
    <2> DEFINE e == CHOOSE e \in Probes(d) : TRUE
               folded == \E alias \in Selected(d, Swapped(e.name)) : alias.id = e.id
    <2>1. e \in Probes(d)
      BY <1>2
    <2>2. Observed(d) = IF folded THEN "Folds" ELSE "Distinct"
      BY <1>2 DEF Observed
    <2> HIDE DEF e
    <2>3. e \in d.entries /\ IsSingle(d, e)
      BY <2>1 DEF Probes
    <2>4. /\ d.entries \in SUBSET Entries /\ d.folds \in BOOLEAN
      BY DEF Directories
    <2>5. e \in Entries /\ e.name \in Names
      BY <2>3, <2>4 DEF Entries
    <2>6. ASSUME d.folds PROVE folded
      <3>1. e \in Selected(d, Swapped(e.name))
        BY <2>3, <2>5, <2>6, SwappedDiffers DEF Selected, SameName
      <3> QED
        BY <3>1
    <2>7. ASSUME folded PROVE d.folds
      <3> SUFFICES ASSUME ~d.folds PROVE FALSE
        OBVIOUS
      <3>1. PICK alias \in Selected(d, Swapped(e.name)) : alias.id = e.id
        BY <2>7
      <3>2. alias \in d.entries /\ alias.name = Swapped(e.name)
        BY DEF Selected, SameName
      <3>3. alias = e
        BY <2>3, <3>1, <3>2 DEF IsSingle, SingleDirectories
      <3> QED
        BY <3>2, <3>3, <2>5, SwappedDiffers
    <2> HIDE DEF folded
    <2> QED
      BY <2>2, <2>6, <2>7 DEF Rules
  <1> QED
    BY <1>1, <1>2

LEMMA LeastIndex ==
  ASSUME NEW T \in SUBSET Nat, T # {}
  PROVE  Min(T) \in T
  <1> DEFINE R == OpToRel(<, Nat)
  <1>1. R = {ss \in Nat \X Nat : ss[1] < ss[2]}
    BY Zenon DEF OpToRel
  <1>2. IsWellFoundedOn(R, Nat)
    BY NatLessThanWellFounded, Zenon
  <1> HIDE DEF R
  <1>3. PICK x \in T : \A y \in T : ~(<<y, x>> \in R)
    BY <1>2, WFMin, Zenon
  <1>4. ASSUME NEW y \in T PROVE x =< y
    <2>1. ~(<<y, x>> \in {ss \in Nat \X Nat : ss[1] < ss[2]})
      BY <1>1, <1>3, Zenon
    <2> QED
      BY <2>1
  <1> QED
    BY <1>4 DEF Min

\* A walk shows no rule but that of the volume.
LEMMA WalkIsTrue ==
  ASSUME NEW dirs \in Seq(Directories), NEW folds \in BOOLEAN, OneRule(dirs, folds),
         \A i \in DOMAIN dirs : SingleDirectories(dirs[i])
  PROVE  /\ CaseRule(dirs) \in Rules
         /\ CaseRule(dirs) = "Folds" => folds
         /\ CaseRule(dirs) = "Distinct" => ~folds
  <1> DEFINE ends == {i \in DOMAIN dirs : Ends(dirs, i)}
  <1>1. CASE ends = {}
    BY <1>1 DEF CaseRule, Rules
  <1>2. CASE ends # {}
    <2>1. DOMAIN dirs \subseteq Nat
      OBVIOUS
    <2>2. Min(ends) \in ends
      BY <1>2, <2>1, LeastIndex
    <2>3. PICK i : i = Min(ends)
      OBVIOUS
    <2>4. i \in DOMAIN dirs /\ Ends(dirs, i)
      BY <2>2, <2>3
    <2>5. CaseRule(dirs) = IF NoRule(dirs, i) THEN "Unknown" ELSE Observed(dirs[i])
      BY <1>2, <2>3 DEF CaseRule
    <2>6. dirs[i] \in Directories
      BY <2>4
    <2>7. ASSUME ~NoRule(dirs, i) PROVE dirs[i].folds = folds
      BY <2>4, <2>7 DEF Ends, NoRule, OneRule
    <2> QED
      BY <2>4, <2>5, <2>6, <2>7, ObservedIsTrue DEF Rules
  <1> QED
    BY <1>1, <1>2

\* The stored spelling is a spelling of the file that was asked for.
LEMMA StoredIsSame ==
  ASSUME NEW d \in Directories, IsFiniteSet(d.entries), NEW name \in Names, NEW rule \in Rules,
         rule = "Folds" => d.folds, Selected(d, name) # {}
  PROVE  StoredName(d, name, rule) \in Names /\ SameName(d, StoredName(d, name, rule), name)
  <1> DEFINE chosen == {x \in d.entries : \E s \in Selected(d, name) : s.id = x.id}
             found == Candidates(d, name)
             matching == {c \in found : Fold(rule, c) = Fold(rule, name)}
  <1>1. d.entries \in SUBSET Entries /\ chosen \subseteq d.entries
    BY DEF Directories
  <1>2. \A e \in d.entries : e.name \in Names
    BY <1>1 DEF Entries
  <1>3. found = {e.name : e \in chosen}
    BY DEF Candidates
  <1>4. found \subseteq Names
    BY <1>1, <1>2, <1>3
  <1>5. IsFiniteSet(found)
    <2> DEFINE f == [e \in chosen |-> e.name]
    <2>1. f \in Surjection(chosen, found)
      BY <1>3 DEF Surjection
    <2>2. IsFiniteSet(chosen)
      BY <1>1, FS_Subset
    <2> QED
      BY <2>1, <2>2, FS_Surjection
  <1>6. PICK s \in Selected(d, name) : s.name \in found
    BY <1>3 DEF Selected
  <1>7. s.name \in Names /\ SameName(d, s.name, name)
    BY <1>2 DEF Selected
  <1>8. CASE Cardinality(found) = 1
    <2>1. PICK x : found = {x}
      BY <1>5, <1>8, FS_Singleton
    <2>2. StoredName(d, name, rule) = CHOOSE c \in found : TRUE
      BY <1>8 DEF StoredName
    <2>3. StoredName(d, name, rule) = s.name
      BY <2>1, <2>2, <1>6
    <2> QED
      BY <2>3, <1>7
  <1>9. CASE ~(Cardinality(found) = 1) /\ (name \in found \/ ~(Cardinality(matching) = 1))
    <2>1. StoredName(d, name, rule) = name
      BY <1>9 DEF StoredName
    <2> QED
      BY <2>1 DEF SameName
  <1>10. CASE ~(Cardinality(found) = 1) /\ name \notin found /\ Cardinality(matching) = 1
    <2>1. StoredName(d, name, rule) = CHOOSE c \in matching : TRUE
      BY <1>10 DEF StoredName
    <2>2. matching # {}
      BY <1>10, FS_EmptySet
    <2>3. PICK c \in matching : c = StoredName(d, name, rule)
      BY <2>1, <2>2
    <2>4. c \in Names /\ Fold(rule, c) = Fold(rule, name)
      BY <1>4
    <2>5. SameName(d, c, name)
      BY <2>4, FoldKeepsText DEF SameName, Rules
    <2> QED
      BY <2>3, <2>4, <2>5
  <1> QED
    BY <1>8, <1>9, <1>10

\* Calls that share a key look for one file, on one runtime.
LEMMA SharedKeysMeet ==
  ASSUME Typed, Volume, NEW c \in Calls, NEW w \in Calls, Looked(c), Looked(w), Work!SharesKey(c, w)
  PROVE  Meets(c, w) /\ RuntimeOf[c] = RuntimeOf[w]
  <1>1. PICK key : key \in KeysOf(c) /\ key \in KeysOf(w)
    BY DEF Work!SharesKey
  <1>2. look[c] # None /\ look[w] # None
    BY <1>1 DEF KeysOf
  <1>3. /\ look[c] \in Looks /\ look[w] \in Looks
        /\ target[c] \in Names /\ target[w] \in Names
    BY <1>2 DEF Typed, Looked
  <1>4. /\ look[c].rule \in Rules /\ look[w].rule \in Rules
        /\ look[c].stored \in Names /\ look[w].stored \in Names
    BY <1>3 DEF Looks
  <1>5. PICK x \in {look[c].stored, target[c]} : key = <<RuntimeOf[c], Fold(look[c].rule, x)>>
    BY <1>1, <1>2 DEF KeysOf, WorkKey
  <1>6. PICK y \in {look[w].stored, target[w]} : key = <<RuntimeOf[w], Fold(look[w].rule, y)>>
    BY <1>1, <1>2 DEF KeysOf, WorkKey
  <1>7. /\ RuntimeOf[c] = RuntimeOf[w]
        /\ Fold(look[c].rule, x) = Fold(look[w].rule, y)
    BY <1>5, <1>6
  <1>8. x \in Names /\ y \in Names
    BY <1>3, <1>4
  <1>9. SameName(dir, x, target[c]) /\ SameName(dir, y, target[w])
    BY <1>2 DEF Looked, SameName
  <1>10. SameName(dir, target[c], target[w])
    <2>1. CASE dir.folds
      <3>1. x.text = y.text
        BY <1>4, <1>7, <1>8, FoldKeepsText
      <3> QED
        BY <2>1, <3>1, <1>9 DEF SameName
    <2>2. CASE ~dir.folds
      <3>1. look[c].rule # "Folds" /\ look[w].rule # "Folds"
        BY <2>2, <1>2 DEF Looked
      <3>2. x = y
        BY <3>1, <1>4, <1>7, <1>8, FoldKeepsText
      <3> QED
        BY <2>2, <3>2, <1>9 DEF SameName
    <2> QED
      BY <2>1, <2>2
  <1> QED
    BY <1>2, <1>7, <1>10 DEF Meets

\* Generations under way that have no key in common write no entry at once,
\* but for what the code excepts.
LEMMA DisjointWriters ==
  ASSUME Typed, \A c \in Calls : Looked(c), Disjoint, Met
  PROVE  OneWriterPerEntry
  <1> SUFFICES ASSUME NEW v \in Calls, NEW w \in Calls, v # w, Work!UnderWay(v), Work!UnderWay(w),
                      RuntimeOf[v] = RuntimeOf[w], SameName(dir, target[v], target[w])
               PROVE  /\ target[v] = target[w] => /\ {look[v].rule, look[w].rule} = {"Unknown", "Folds"}
                                                  /\ target[v] # Lowered(target[v])
                      /\ \/ look[v].rule # "Folds" \/ look[w].rule # "Folds"
                         \/ /\ target[v].other # target[w].other
                            /\ Lowered(look[v].stored) # Lowered(look[w].stored)
    BY DEF OneWriterPerEntry
  <1>1. look[v] # None /\ look[w] # None
    BY DEF Met, Work!UnderWay
  <1>2. /\ look[v] \in Looks /\ look[w] \in Looks
        /\ target[v] \in Names /\ target[w] \in Names
    BY <1>1 DEF Typed, Looked
  <1>3. /\ look[v].rule \in Rules /\ look[w].rule \in Rules
        /\ look[v].stored \in Names /\ look[w].stored \in Names
    BY <1>2 DEF Looks
  <1>4. KeysOf(v) \cap KeysOf(w) = {}
    BY DEF Disjoint, Work!SharesKey
  <1>5. /\ <<RuntimeOf[v], Fold(look[v].rule, target[v])>> \in KeysOf(v)
        /\ <<RuntimeOf[v], Fold(look[v].rule, look[v].stored)>> \in KeysOf(v)
    BY <1>1 DEF KeysOf, WorkKey
  <1>6. /\ <<RuntimeOf[w], Fold(look[w].rule, target[w])>> \in KeysOf(w)
        /\ <<RuntimeOf[w], Fold(look[w].rule, look[w].stored)>> \in KeysOf(w)
    BY <1>1 DEF KeysOf, WorkKey
  <1>7. /\ Fold(look[v].rule, target[v]) # Fold(look[w].rule, target[w])
        /\ Fold(look[v].rule, look[v].stored) # Fold(look[w].rule, look[w].stored)
    BY <1>4, <1>5, <1>6
  <1>8. ASSUME target[v] = target[w]
        PROVE  /\ {look[v].rule, look[w].rule} = {"Unknown", "Folds"}
               /\ target[v] # Lowered(target[v])
    <2>1. look[v].rule = "Folds" <=> look[w].rule # "Folds"
      BY <1>2, <1>3, <1>7, <1>8, FoldKeepsText
    <2>2. ~(look[v].rule = "Folds" /\ look[w].rule = "Distinct")
      BY <1>1 DEF Looked
    <2>3. ~(look[w].rule = "Folds" /\ look[v].rule = "Distinct")
      BY <1>1 DEF Looked
    <2>4. {look[v].rule, look[w].rule} = {"Unknown", "Folds"}
      BY <1>3, <2>1, <2>2, <2>3 DEF Rules
    <2>5. target[v] # Lowered(target[v])
      BY <1>7, <1>8, <2>1 DEF Fold
    <2> QED
      BY <2>4, <2>5
  <1>9. ASSUME look[v].rule = "Folds", look[w].rule = "Folds"
        PROVE  /\ target[v].other # target[w].other
               /\ Lowered(look[v].stored) # Lowered(look[w].stored)
    <2>1. target[v].text = target[w].text
      BY DEF SameName
    <2>2. target[v].other # target[w].other
      BY <1>2, <1>3, <1>7, <1>9, <2>1, FoldKeepsText
    <2>3. /\ Fold(look[v].rule, look[v].stored) = Lowered(look[v].stored)
          /\ Fold(look[w].rule, look[w].stored) = Lowered(look[w].stored)
      BY <1>9 DEF Fold
    <2> QED
      BY <1>7, <2>2, <2>3
  <1> QED
    BY <1>8, <1>9

-----------------------------------------------------------------------------
(* What a step keeps.                                                      *)

\* What a call looked for, and what it saw, stays; the root stays on its volume.
Kept ==
    /\ \A c \in Calls : look[c] # None => look'[c] = look[c] /\ target'[c] = target[c]
    /\ dir'.folds = dir.folds

LEMMA StepsKeep ==
  ASSUME Typed, Volume, \A c \in Calls : Looked(c), [Next]_vars
  PROVE  Kept
  <1> USE DEF Kept
  <1>0. dir \in Directories
    BY DEF Volume
  <1>a. /\ Created(dir).folds = dir.folds
        /\ \A old, name : Put(Created(dir), old, name).folds = dir.folds
    BY <1>0 DEF Created, Put, Directories
  <1>b. \A c \in Calls : pc[c] \in {"new", "rendering", "lookup"} => look[c] = None
    BY DEF Looked, Typed, Points
  <1>c. target \in [Calls -> Names \cup {None}] /\ look \in [Calls -> Looks \cup {None}]
    BY DEF Typed
  <1>1. ASSUME NEW h \in Handles, OpenPolicy(h) PROVE Kept
    BY <1>1, <1>a DEF OpenPolicy, callVars
  <1>2. ASSUME NEW b \in Binders, LockNext(b) \/ BindAll(b) PROVE Kept
    BY <1>2 DEF LockNext, BindAll, callVars
  <1>3. ASSUME Generate PROVE Kept
    BY <1>3 DEF Generate
  <1>4. ASSUME NEW i \in DOMAIN Jobs, Job(i) PROVE Kept
    <2>1. Jobs[i] \in Calls
      BY DEF Calls, Range
    <2>2. PICK t : target' = [target EXCEPT ![Jobs[i]] = t]
      BY <1>4 DEF Job
    <2> QED
      BY <1>4, <1>b, <1>c, <2>1, <2>2 DEF Job
  <1>5. ASSUME NEW c \in Calls, Request(c) PROVE Kept
    <2>1. PICK t : target' = [target EXCEPT ![c] = t]
      BY <1>5 DEF Request
    <2> QED
      BY <1>5, <1>b, <1>c, <2>1 DEF Request
  <1>6. ASSUME NEW c \in Calls, LookUp(c) PROVE Kept
    <2>1. PICK l : look' = [look EXCEPT ![c] = l]
      BY <1>6 DEF LookUp
    <2> QED
      BY <1>6, <1>b, <1>c, <2>1 DEF LookUp
  <1>7. ASSUME NEW c \in Calls, Admit(c) \/ Register(c) \/ Join(c) \/ TakeReply(c) \/ Reopen(c) \/ Disconnect(c)
        PROVE  Kept
    BY <1>7 DEF Admit, Register, Join, TakeReply, Reopen, Disconnect, callVars
  <1>8. ASSUME NEW w \in Calls, Publish(w) PROVE Kept
    <2>1. PICK old, name : dir' = Put(Created(dir), old, name)
      BY <1>8 DEF Publish
    <2> QED
      BY <1>8, <1>a, <2>1 DEF Publish, callVars
  <1>9. ASSUME NEW w \in Calls, Fail(w) \/ RefuseWaiters(w) \/ SlotFreed(w) PROVE Kept
    BY <1>9 DEF Fail, RefuseWaiters, SlotFreed, callVars
  <1>10. ASSUME Delete PROVE Kept
    <2>1. PICK e : dir' = [dir EXCEPT !.entries = @ \ {e}]
      BY <1>10 DEF Delete
    <2> QED
      BY <1>10, <1>0, <2>1 DEF Delete, callVars, Directories
  <1>11. ASSUME UNCHANGED vars PROVE Kept
    BY <1>11 DEF vars, callVars
  <1> QED
    BY <1>1, <1>2, <1>3, <1>4, <1>5, <1>6, <1>7, <1>8, <1>9, <1>10, <1>11 DEF Next, CallStep

\* A path names a file, or none.
LEMMA PathsName ==
  ASSUME NEW c \in Calls, NEW path \in PathsOf[c]
  PROVE  StaticPath(path) \in Names \cup {None}
  <1>1. path \in Seq(Names)
    BY CallsAssumption
  <1>2. Index \in Names
    BY TextsAssumption DEF Index, Blank, Names, Cases
  <1>3. path # <<>> => Last(path) \in Names
    BY <1>1 DEF Last
  <1> QED
    BY <1>2, <1>3 DEF StaticPath

\* What a look at the root sees is true of it.
LEMMA LooksAreTrue ==
  ASSUME Typed, Volume, NEW c \in Calls, Looked(c), LookUp(c)
  PROVE  /\ target[c] \in Names
         /\ look' = [look EXCEPT ![c] = look'[c]]
         /\ look'[c] \in Looks
         /\ look'[c].rule = "Folds" => dir.folds
         /\ look'[c].rule = "Distinct" => ~dir.folds
         /\ SameName(dir, look'[c].stored, target[c])
  <1> DEFINE rule == CaseRule(Namespace)
             stored == IF Exists(target[c]) THEN StoredName(dir, target[c], rule) ELSE target[c]
  <1>1. target[c] \in Names
    BY DEF Typed, Looked, LookUp
  <1>2. dir \in Directories /\ dir.folds \in BOOLEAN /\ site.above \in Seq(Directories)
    BY DEF Volume, Directories
  <1>3. Namespace \in Seq(Directories)
    BY <1>2 DEF Namespace
  <1>4. ASSUME NEW i \in DOMAIN Namespace PROVE SingleDirectories(Namespace[i])
    <2>1. CASE i = 1
      <3>1. Namespace[i] = dir
        BY <1>2, <2>1 DEF Namespace
      <3> QED
        BY <3>1 DEF Volume
    <2>2. CASE i # 1
      <3>1. i - 1 \in DOMAIN site.above /\ Namespace[i] = site.above[i - 1]
        BY <1>2, <2>2, <1>4 DEF Namespace
      <3> QED
        BY <3>1 DEF Volume
    <2> QED
      BY <2>1, <2>2
  <1>5. /\ rule \in Rules
        /\ rule = "Folds" => dir.folds
        /\ rule = "Distinct" => ~dir.folds
    BY <1>2, <1>3, <1>4, WalkIsTrue DEF Volume
  <1> HIDE DEF rule
  <1>6. stored \in Names /\ SameName(dir, stored, target[c])
    <2>1. CASE Exists(target[c])
      <3>1. Selected(dir, target[c]) # {}
        BY <2>1 DEF Exists
      <3>2. IsFiniteSet(dir.entries)
        BY DEF Volume
      <3>3. /\ StoredName(dir, target[c], rule) \in Names
            /\ SameName(dir, StoredName(dir, target[c], rule), target[c])
        BY <1>1, <1>2, <1>5, <3>1, <3>2, StoredIsSame
      <3> QED
        BY <2>1, <3>3
    <2>2. CASE ~Exists(target[c])
      BY <1>1, <1>2, <2>2, SameNameIsEquivalence
    <2> QED
      BY <2>1, <2>2
  <1>7. look' = [look EXCEPT ![c] = [rule |-> rule, stored |-> stored]]
    BY DEF LookUp, rule
  <1> HIDE DEF stored
  <1>8. look'[c] = [rule |-> rule, stored |-> stored]
    BY <1>7 DEF Typed
  <1>9. look'[c] \in Looks /\ look'[c].rule = rule /\ look'[c].stored = stored
    BY <1>5, <1>6, <1>8 DEF Looks
  <1> QED
    BY <1>1, <1>5, <1>6, <1>7, <1>8, <1>9

\* Answering and leaving keep the types of a generation's state.
LEMMA WorkTyped ==
  ASSUME Typed, NEW w \in Calls, NEW r \in Outcomes,
         Work!Answer(w, r) \/ Work!End(w, r) \/ Work!Refuse(w) \/ Work!Reopen(w) \/ Work!Begin(w) \/ Work!Leave(w)
  PROVE  /\ generation' \in [Calls -> {"none", "open", "refusing", "over"}]
         /\ accepted' \in [Calls -> Calls \cup {None}]
         /\ reply' \in [Calls -> Outcomes \cup {None}]
  BY DEF Typed, Outcomes, Work!Answer, Work!End, Work!Refuse, Work!Reopen, Work!Begin, Work!Leave, Work!Answered

\* A generation's result is an answer of Coalescing, or the last one.
LEMMA ResultAnswers ==
  ASSUME NEW w, NEW r, AnswerOrEnd(w, r)
  PROVE  Work!Answer(w, r) \/ Work!End(w, r)
  BY DEF AnswerOrEnd

LEMMA TypedStep ==
  ASSUME Typed, Volume, \A c \in Calls : Looked(c), [Next]_vars
  PROVE  Typed'
  <1>0. /\ target \in [Calls -> Names \cup {None}] /\ pc \in [Calls -> Points]
        /\ answer \in [Calls -> Answers \cup {None}]
        /\ policy \in [Calls -> Handles \cup {None}]
        /\ binding \in [Runtimes -> [policy : Handles \cup {None}, started : BOOLEAN]]
        /\ binder \in [Binders -> {"idle", "locking", "bound", "refused"}]
        /\ templates \in [Calls -> SUBSET Calls]
        /\ look \in [Calls -> Looks \cup {None}]
    BY DEF Typed
  <1>a. \A rt \in Runtimes : /\ Started(rt) \in [policy : Handles \cup {None}, started : BOOLEAN]
                             /\ Governs(rt) \in Handles \cup {None}
    BY <1>0 DEF Started, Governs
  <1>b. \A c \in Calls : RuntimeOf[c] \in Runtimes
    BY CallsAssumption DEF Runtimes, Range
  <1>c. ASSUME NEW c \in Calls, NEW p \in Points, Goto(c, p) PROVE pc' \in [Calls -> Points]
    BY <1>0, <1>c DEF Goto
  <1>d. ASSUME NEW c \in Calls, NEW s \in Answers \cup {None}, Return(c, s)
        PROVE  pc' \in [Calls -> Points] /\ answer' \in [Calls -> Answers \cup {None}]
    BY <1>0, <1>d DEF Return, Goto, Points
  <1>e. \A p \in {"rendering", "lookup", "joining", "waiting", "reopening"} : p \in Points
    BY DEF Points
  <1>g. \A s \in {"no page", "file", "failure", "capacity", "panic", "lost", "dropped"} : s \in Answers
    BY DEF Answers, Outcomes
  <1>1. ASSUME NEW h \in Handles, OpenPolicy(h) PROVE Typed'
    BY <1>1 DEF Typed, OpenPolicy, callVars, workVars
  <1>2. ASSUME NEW b \in Binders, LockNext(b) PROVE Typed'
    <2>1. binder' \in [Binders -> {"idle", "locking", "bound", "refused"}]
      BY <1>0, <1>2 DEF LockNext
    <2> QED
      BY <1>2, <2>1 DEF Typed, LockNext, callVars, workVars
  <1>3. ASSUME NEW b \in Binders, BindAll(b) PROVE Typed'
    <2>1. binder' \in [Binders -> {"idle", "locking", "bound", "refused"}]
      BY <1>0, <1>3 DEF BindAll
    <2>2. PolicyOf[b] \in Handles
      BY CallsAssumption
    <2>3. binding' \in [Runtimes -> [policy : Handles \cup {None}, started : BOOLEAN]]
      BY <1>0, <1>3, <2>2 DEF BindAll
    <2> QED
      BY <1>3, <2>1, <2>3 DEF Typed, BindAll, callVars, workVars
  <1>4. ASSUME Generate PROVE Typed'
    <2>1. binding' \in [Runtimes -> [policy : Handles \cup {None}, started : BOOLEAN]]
      <3>1. PICK rt : rt \in {RuntimeOf[c] : c \in Range(Jobs)} /\ Start(rt)
        BY <1>4 DEF Generate
      <3>2. rt \in Runtimes
        BY <1>b, <3>1 DEF Calls
      <3> QED
        BY <1>0, <1>a, <3>1, <3>2 DEF Start
    <2> QED
      BY <1>4, <2>1 DEF Typed, Generate, Start, workVars
  <1>5. ASSUME NEW i \in DOMAIN Jobs, Job(i) PROVE Typed'
    <2>1. Jobs[i] \in Calls
      BY DEF Calls, Range
    <2>2. PICK path \in PathsOf[Jobs[i]] : target' = [target EXCEPT ![Jobs[i]] = StaticPath(path)]
      BY <1>5 DEF Job
    <2>3. StaticPath(path) \in Names \cup {None}
      BY <2>1, <2>2, PathsName
    <2>4. target' \in [Calls -> Names \cup {None}]
      BY <1>0, <2>1, <2>2, <2>3
    <2>5. pc' \in [Calls -> Points]
      BY <1>5, <1>c, <1>e, <2>1 DEF Job
    <2> QED
      BY <1>5, <2>4, <2>5 DEF Typed, Job, policyVars, workVars
  <1>6. ASSUME NEW c \in Calls, Request(c) PROVE Typed'
    <2>1. PICK path \in PathsOf[c] :
             LET name == StaticPath(path)
             IN  /\ target' = [target EXCEPT ![c] = name]
                 /\ \/ name = None /\ Return(c, "no page")
                    \/ name # None /\ Exists(name) /\ Return(c, "file")
                    \/ name # None /\ ~Exists(name) /\ Goto(c, "rendering") /\ UNCHANGED answer
      BY <1>6 DEF Request
    <2>2. StaticPath(path) \in Names \cup {None}
      BY <2>1, PathsName
    <2>3. target' \in [Calls -> Names \cup {None}]
      BY <1>0, <2>1, <2>2
    <2>4. pc' \in [Calls -> Points] /\ answer' \in [Calls -> Answers \cup {None}]
      BY <1>0, <1>c, <1>d, <1>e, <1>g, <2>1
    <2> QED
      BY <1>6, <2>3, <2>4 DEF Typed, Request, policyVars, workVars
  <1>7. ASSUME NEW c \in Calls, Admit(c) PROVE Typed'
    <2>1. binding' \in [Runtimes -> [policy : Handles \cup {None}, started : BOOLEAN]]
      BY <1>0, <1>7, <1>a, <1>b DEF Admit, Start
    <2>2. policy' \in [Calls -> Handles \cup {None}]
      BY <1>0, <1>7, <1>a, <1>b DEF Admit
    <2>3. pc' \in [Calls -> Points] /\ answer' \in [Calls -> Answers \cup {None}]
      BY <1>0, <1>7, <1>c, <1>d, <1>e, <1>g DEF Admit, Refused
    <2> QED
      BY <1>7, <2>1, <2>2, <2>3 DEF Typed, Admit, Start, workVars
  <1>8. ASSUME NEW c \in Calls, LookUp(c) PROVE Typed'
    <2>1. look' = [look EXCEPT ![c] = look'[c]] /\ look'[c] \in Looks
      BY <1>8, LooksAreTrue
    <2>2. look' \in [Calls -> Looks \cup {None}]
      BY <1>0, <2>1
    <2>3. pc' \in [Calls -> Points]
      BY <1>8, <1>c, <1>e DEF LookUp
    <2> QED
      BY <1>8, <2>2, <2>3 DEF Typed, LookUp, policyVars, workVars
  <1>9. ASSUME NEW c \in Calls, Register(c) PROVE Typed'
    <2>1. generation' \in [Calls -> {"none", "open", "refusing", "over"}]
      BY <1>9 DEF Typed, Register, Work!Begin
    <2> QED
      BY <1>9, <2>1 DEF Typed, Register, Work!Begin, policyVars, callVars
  <1>10. ASSUME NEW c \in Calls, Join(c) PROVE Typed'
    <2>1. /\ pc' \in [Calls -> Points] /\ answer' \in [Calls -> Answers \cup {None}]
      BY <1>0, <1>10, <1>c, <1>d, <1>e, <1>g DEF Join, Refused
    <2>2. /\ templates' \in [Calls -> SUBSET Calls]
          /\ generation' = generation /\ reply' = reply
          /\ accepted' \in [Calls -> Calls \cup {None}]
      BY <1>0, <1>10 DEF Join, Work!Accept, Typed
    <2> QED
      BY <1>10, <2>1, <2>2 DEF Typed, Join, policyVars
  <1>11. ASSUME NEW c \in Calls, TakeReply(c) PROVE Typed'
    <2>1. reply[c] \in Answers \cup {None}
      BY DEF Typed, Answers
    <2>2. /\ pc' \in [Calls -> Points] /\ answer' \in [Calls -> Answers \cup {None}]
      BY <1>0, <1>11, <1>c, <1>d, <1>e, <1>g, <2>1 DEF TakeReply
    <2>3. /\ generation' = generation
          /\ accepted' \in [Calls -> Calls \cup {None}]
          /\ reply' \in [Calls -> Outcomes \cup {None}]
      BY <1>11 DEF TakeReply, Work!Leave, Typed
    <2> QED
      BY <1>11, <2>2, <2>3 DEF Typed, TakeReply, policyVars
  <1>12. ASSUME NEW c \in Calls, Reopen(c) PROVE Typed'
    <2>1. /\ pc' \in [Calls -> Points] /\ answer' \in [Calls -> Answers \cup {None}]
      BY <1>12, <1>d, <1>g DEF Reopen
    <2> QED
      BY <1>12, <2>1 DEF Typed, Reopen, policyVars, workVars
  <1>13. ASSUME NEW c \in Calls, Disconnect(c) PROVE Typed'
    <2>1. /\ pc' \in [Calls -> Points] /\ answer' \in [Calls -> Answers \cup {None}]
      BY <1>13, <1>d, <1>g DEF Disconnect
    <2>2. /\ generation' = generation
          /\ accepted' \in [Calls -> Calls \cup {None}]
          /\ reply' \in [Calls -> Outcomes \cup {None}]
      BY <1>13 DEF Disconnect, Work!Leave, Typed
    <2> QED
      BY <1>13, <2>1, <2>2 DEF Typed, Disconnect, policyVars
  <1>f. ASSUME NEW w \in Calls, NEW r \in Outcomes, AnswerOrEnd(w, r)
        PROVE  /\ generation' \in [Calls -> {"none", "open", "refusing", "over"}]
               /\ accepted' \in [Calls -> Calls \cup {None}]
               /\ reply' \in [Calls -> Outcomes \cup {None}]
    BY <1>f, ResultAnswers, WorkTyped
  <1>14. ASSUME NEW w \in Calls, Publish(w) PROVE Typed'
    <2>1. AnswerOrEnd(w, "published") /\ "published" \in Outcomes
      BY <1>14 DEF Publish, Outcomes
    <2> QED
      BY <1>14, <1>f, <2>1 DEF Typed, Publish, policyVars, callVars
  <1>15. ASSUME NEW w \in Calls, Fail(w) PROVE Typed'
    <2>1. PICK r \in Outcomes : AnswerOrEnd(w, r)
      BY <1>15 DEF Fail, Outcomes
    <2> QED
      BY <1>15, <1>f, <2>1 DEF Typed, Fail, policyVars, callVars
  <1>16. ASSUME NEW w \in Calls, RefuseWaiters(w) \/ SlotFreed(w) PROVE Typed'
    <2>1. /\ generation' \in [Calls -> {"none", "open", "refusing", "over"}]
          /\ accepted' \in [Calls -> Calls \cup {None}]
          /\ reply' \in [Calls -> Outcomes \cup {None}]
      BY <1>16, WorkTyped DEF RefuseWaiters, SlotFreed, Outcomes
    <2> QED
      BY <1>16, <2>1 DEF Typed, RefuseWaiters, SlotFreed, policyVars, callVars
  <1>17. ASSUME Delete PROVE Typed'
    BY <1>17 DEF Typed, Delete, policyVars, callVars, workVars
  <1>18. ASSUME UNCHANGED vars PROVE Typed'
    BY <1>18 DEF Typed, vars, policyVars, callVars, workVars
  <1> QED
    BY <1>1, <1>2, <1>3, <1>4, <1>5, <1>6, <1>7, <1>8, <1>9, <1>10, <1>11, <1>12, <1>13, <1>14, <1>15,
       <1>16, <1>17, <1>18 DEF Next, CallStep

-----------------------------------------------------------------------------
(* The root.                                                               *)

LEMMA RuleKept ==
  ASSUME Volume, site' = site, dir' \in Directories, dir'.device = dir.device, dir'.folds = dir.folds,
         dir.kind = "dir" => dir'.kind = "dir"
  PROVE  OneRule(Namespace, dir.folds)'
  <1>1. site.above \in Seq(Directories)
    BY DEF Volume
  <1>2. /\ Namespace \in Seq(Directories) /\ Namespace' \in Seq(Directories)
        /\ Len(Namespace) = 1 + Len(site.above) /\ Len(Namespace') = 1 + Len(site.above)
    BY <1>1 DEF Volume, Namespace
  <1>3. /\ Namespace[1] = dir /\ Namespace'[1] = dir'
        /\ \A i \in 2..(1 + Len(site.above)) : Namespace'[i] = Namespace[i]
    BY <1>1 DEF Volume, Namespace
  <1>4. DOMAIN Namespace = 1..(1 + Len(site.above)) /\ DOMAIN Namespace' = 1..(1 + Len(site.above))
    BY <1>2
  <1>5. Len(site.above) \in Nat
    BY <1>1
  <1>6. \A i \in DOMAIN Namespace : (Namespace[i].kind = "dir" /\ ~OtherDevice(Namespace, i)) => Namespace[i].folds = dir.folds
    BY DEF Volume, OneRule
  <1> SUFFICES ASSUME NEW i \in 1..(1 + Len(site.above)),
                      Namespace'[i].kind = "dir", ~OtherDevice(Namespace', i)
               PROVE  Namespace'[i].folds = dir.folds
    BY <1>4 DEF OneRule
  <1>7. CASE i = 1
    BY <1>3, <1>7
  <1>8. CASE i # 1
    <2>1. i \in 2..(1 + Len(site.above)) /\ Namespace'[i] = Namespace[i]
      BY <1>3, <1>5, <1>8
    <2>2. ASSUME NEW j \in 1..(i - 1), Namespace[j].kind = "dir" PROVE Namespace[j].device = Namespace[i].device
      <3>1. j = 1 \/ j \in 2..(1 + Len(site.above))
        BY <1>5
      <3>2. Namespace'[j].kind = "dir" /\ Namespace'[j].device = Namespace[j].device
        BY <1>3, <2>2, <3>1
      <3>3. Namespace'[j].device = Namespace'[i].device
        BY <3>2 DEF OtherDevice
      <3> QED
        BY <2>1, <3>2, <3>3
    <2>3. ~OtherDevice(Namespace, i)
      BY <2>2 DEF OtherDevice
    <2> QED
      BY <1>4, <1>6, <2>1, <2>3
  <1> QED
    BY <1>7, <1>8

\* A publication leaves the root a directory of its volume, in which every
\* file that was there is there, and the published one.
LEMMA PutKeeps ==
  ASSUME NEW d \in Directories, d.kind \in {"dir", "missing"}, IsFiniteSet(d.entries), SingleDirectories(d),
         NEW t \in Names, NEW name \in {t} \cup {e.name : e \in Selected(d, t)},
         NEW p, p = Put(Created(d), Selected(d, t), name)
  PROVE  /\ p \in Directories /\ p.kind = "dir" /\ p.device = d.device /\ p.folds = d.folds
         /\ IsFiniteSet(p.entries) /\ SingleDirectories(p)
         /\ \A s \in Names : SameName(d, s, t) \/ Selected(d, s) # {} => Selected(p, s) # {}
  <1> DEFINE old == Selected(d, t)
             new == [name |-> name, id |-> name, dir |-> FALSE]
  <1>1. /\ d.entries \in SUBSET Entries /\ d.device \in Nat /\ d.folds \in BOOLEAN
        /\ d = [kind |-> d.kind, device |-> d.device, folds |-> d.folds, entries |-> d.entries]
    BY DEF Directories
  <1>2. \A e \in d.entries : e.name \in Names
    BY <1>1 DEF Entries
  <1>3. name \in Names /\ SameName(d, name, t)
    BY <1>2 DEF Selected, SameName
  <1>4. new \in Entries
    BY <1>3 DEF Entries
  <1>5. Created(d) = [kind |-> "dir", device |-> d.device, folds |-> d.folds, entries |-> d.entries]
    BY <1>1 DEF Created
  <1>6. p = [kind |-> "dir", device |-> d.device, folds |-> d.folds, entries |-> (d.entries \ old) \cup {new}]
    BY <1>5 DEF Put
  <1>7. p \in Directories /\ p.kind = "dir" /\ p.device = d.device /\ p.folds = d.folds
    <2> DEFINE kept == (d.entries \ old) \cup {new}
    <2>1. kept \in SUBSET Entries
      BY <1>1, <1>4
    <2> HIDE DEF kept
    <2>2. p = [kind |-> "dir", device |-> d.device, folds |-> d.folds, entries |-> kept]
      BY <1>6 DEF kept
    <2> QED
      BY <1>1, <2>1, <2>2 DEF Directories
  <1>8. p.entries = (d.entries \ old) \cup {new}
    BY <1>6
  <1>9. IsFiniteSet(p.entries)
    <2>1. IsFiniteSet(d.entries \ old)
      BY FS_Subset DEF old
    <2> HIDE DEF new, old
    <2>2. IsFiniteSet((d.entries \ old) \cup {new})
      BY <2>1, FS_AddElement
    <2> QED
      BY <1>8, <2>2, Zenon
  <1>10. SingleDirectories(p)
    <2> SUFFICES ASSUME NEW e \in p.entries, e.dir
                 PROVE  e.id = e.name /\ \A x \in p.entries : x.id = e.id => x = e
      BY DEF SingleDirectories
    <2>1. e \in d.entries \ old
      BY <1>8
    <2>2. e.id = e.name /\ \A x \in d.entries : x.id = e.id => x = e
      BY <2>1 DEF SingleDirectories
    <2>3. e.id # name
      BY <1>3, <2>1, <2>2 DEF Selected
    <2> QED
      BY <1>8, <2>2, <2>3
  <1>11. ASSUME NEW s \in Names, SameName(d, s, t) \/ Selected(d, s) # {} PROVE Selected(p, s) # {}
    <2>1. CASE SameName(d, s, t)
      <3>1. SameName(d, name, s)
        BY <1>3, <2>1, SameNameIsEquivalence
      <3>2. new \in Selected(p, s)
        BY <1>7, <1>8, <3>1 DEF Selected, SameName
      <3> QED
        BY <3>2
    <2>2. CASE ~SameName(d, s, t)
      <3>1. PICK e \in Selected(d, s) : TRUE
        BY <1>11, <2>2
      <3>2. e \in d.entries /\ e.name \in Names /\ SameName(d, e.name, s)
        BY <1>2 DEF Selected
      <3>3. e \notin old
        <4> SUFFICES ASSUME SameName(d, e.name, t) PROVE FALSE
          BY DEF Selected
        <4>1. SameName(d, s, e.name)
          BY <3>2, SameNameIsEquivalence
        <4> QED
          BY <3>2, <4>1, <2>2, SameNameIsEquivalence
      <3>4. e \in Selected(p, s)
        BY <1>7, <1>8, <3>2, <3>3 DEF Selected, SameName
      <3> QED
        BY <3>4
    <2> QED
      BY <2>1, <2>2
  <1> QED
    BY <1>7, <1>9, <1>10, <1>11

\* What a publication does to the root.
LEMMA PublishPuts ==
  ASSUME Typed, Volume, \A c \in Calls : Looked(c), Met, NEW w \in Calls, Publish(w)
  PROVE  /\ look[w] # None /\ target[w] \in Names
         /\ dir' \in Directories /\ dir'.kind = "dir" /\ dir'.device = dir.device /\ dir'.folds = dir.folds
         /\ IsFiniteSet(dir'.entries) /\ SingleDirectories(dir')
         /\ \A s \in Names : SameName(dir, s, target[w]) \/ Selected(dir, s) # {} => Selected(dir', s) # {}
  <1>1. PICK c \in templates[w] : \E name \in {target[c]} \cup {e.name : e \in Selected(dir, target[c])} :
                                     dir' = Put(Created(dir), Selected(dir, target[c]), name)
    BY DEF Publish
  <1>2. PICK name \in {target[c]} \cup {e.name : e \in Selected(dir, target[c])} :
             dir' = Put(Created(dir), Selected(dir, target[c]), name)
    BY <1>1
  <1>3. c \in Calls /\ Meets(c, w)
    BY DEF Typed, Met
  <1>4. target[c] \in Names /\ target[w] \in Names /\ look[w] # None
    BY <1>3 DEF Typed, Looked, Meets
  <1>5. dir \in Directories /\ dir.kind \in {"dir", "missing"} /\ IsFiniteSet(dir.entries) /\ SingleDirectories(dir)
    BY DEF Volume
  <1>6. /\ dir' \in Directories /\ dir'.kind = "dir" /\ dir'.device = dir.device /\ dir'.folds = dir.folds
        /\ IsFiniteSet(dir'.entries) /\ SingleDirectories(dir')
        /\ \A s \in Names : SameName(dir, s, target[c]) \/ Selected(dir, s) # {} => Selected(dir', s) # {}
    BY <1>2, <1>4, <1>5, PutKeeps
  <1>7. ASSUME NEW s \in Names, SameName(dir, s, target[w]) PROVE SameName(dir, s, target[c])
    <2>1. SameName(dir, target[w], target[c])
      BY <1>3, <1>4, <1>5, SameNameIsEquivalence DEF Meets
    <2> QED
      BY <1>4, <1>5, <1>7, <2>1, SameNameIsEquivalence
  <1> QED
    BY <1>4, <1>6, <1>7

LEMMA VolumeStep ==
  ASSUME Typed, Volume, \A c \in Calls : Looked(c), Met, [Next]_vars
  PROVE  Volume'
  <1>0. /\ dir \in Directories /\ dir.kind \in {"dir", "missing"}
        /\ IsFiniteSet(dir.entries) /\ SingleDirectories(dir)
        /\ site.above \in Seq(Directories)
        /\ \A i \in DOMAIN site.above : SingleDirectories(site.above[i])
    BY DEF Volume
  <1>1. ASSUME site' = site, dir' \in Directories, dir'.device = dir.device, dir'.folds = dir.folds,
               dir'.kind \in {"dir", "missing"}, dir.kind = "dir" => dir'.kind = "dir",
               IsFiniteSet(dir'.entries), SingleDirectories(dir')
        PROVE  Volume'
    BY <1>0, <1>1, RuleKept DEF Volume
  <1>2. ASSUME NEW h \in Handles, OpenPolicy(h) PROVE Volume'
    <2>1. site' = site /\ dir' = Created(dir)
      BY <1>2 DEF OpenPolicy
    <2>2. /\ dir' \in Directories /\ dir'.device = dir.device /\ dir'.folds = dir.folds
          /\ dir'.kind = "dir" /\ dir'.entries = dir.entries
      BY <1>0, <2>1 DEF Created, Directories
    <2>3. SingleDirectories(dir')
      BY <1>0, <2>2 DEF SingleDirectories
    <2> QED
      BY <1>0, <1>1, <2>1, <2>2, <2>3
  <1>3. ASSUME NEW w \in Calls, Publish(w) PROVE Volume'
    <2>1. site' = site
      BY <1>3 DEF Publish
    <2> QED
      BY <1>1, <1>3, <2>1, PublishPuts
  <1>4. ASSUME Delete PROVE Volume'
    <2>1. site' = site
      BY <1>4 DEF Delete
    <2>2. PICK e : dir' = [dir EXCEPT !.entries = @ \ {e}]
      BY <1>4 DEF Delete
    <2>3. /\ dir' \in Directories /\ dir'.device = dir.device /\ dir'.folds = dir.folds
          /\ dir'.kind = dir.kind /\ dir'.entries = dir.entries \ {e}
      BY <1>0, <2>2 DEF Directories
    <2>4. SingleDirectories(dir')
      BY <1>0, <2>3 DEF SingleDirectories
    <2>5. IsFiniteSet(dir'.entries)
      <3>1. dir'.entries \in SUBSET dir.entries
        BY <2>3
      <3> QED
        BY <1>0, <3>1, FS_Subset
    <2> QED
      BY <1>0, <1>1, <2>1, <2>3, <2>4, <2>5
  <1>5. ASSUME UNCHANGED <<site, dir>> PROVE Volume'
    BY <1>0, <1>1, <1>5
  <1>6. ASSUME NEW c \in Calls, CallStep(c) \/ Disconnect(c) \/ Fail(c) \/ RefuseWaiters(c) \/ SlotFreed(c)
        PROVE  UNCHANGED <<site, dir>>
    BY <1>6 DEF CallStep, Request, Admit, LookUp, Register, Join, TakeReply, Reopen, Disconnect, Fail,
                RefuseWaiters, SlotFreed
  <1>7. ASSUME Generate \/ (\E i \in DOMAIN Jobs : Job(i)) \/ (\E b \in Binders : LockNext(b) \/ BindAll(b))
               \/ UNCHANGED vars
        PROVE  UNCHANGED <<site, dir>>
    BY <1>7 DEF Generate, Job, LockNext, BindAll, vars
  <1> QED
    BY <1>2, <1>3, <1>4, <1>5, <1>6, <1>7 DEF Next

-----------------------------------------------------------------------------
(* Calls and generations.                                                  *)

\* What a call did does not spoil what it knows.
LEMMA LookedKept ==
  ASSUME Kept, NEW c \in Calls, Looked(c), look'[c] = look[c], target'[c] = target[c],
         \/ look[c] = None /\ pc'[c] \in {"new", "rendering", "done"}
         \/ look[c] = None /\ pc'[c] = "lookup" /\ target[c] # None
         \/ look[c] # None /\ pc'[c] \in {"joining", "waiting", "reopening", "done"}
  PROVE  Looked(c)'
  BY DEF Looked, Kept, SameName

LEMMA LookedStep ==
  ASSUME Typed, Volume, \A c \in Calls : Looked(c), Kept, [Next]_vars
  PROVE  \A c \in Calls : Looked(c)'
  <1>0. /\ pc \in [Calls -> Points] /\ target \in [Calls -> Names \cup {None}]
        /\ look \in [Calls -> Looks \cup {None}]
    BY DEF Typed
  <1>a. ASSUME NEW d \in Calls, UNCHANGED <<pc[d], look[d], target[d]>> PROVE Looked(d)'
    BY <1>a DEF Looked, Kept, SameName
  <1>b. \A c \in Calls : pc[c] \in {"new", "rendering", "lookup"} => look[c] = None
    BY DEF Looked, Typed, Points
  <1>c. \A c \in Calls : pc[c] \in {"joining", "waiting", "reopening"} => look[c] # None
    BY DEF Looked
  <1>1. ASSUME NEW i \in DOMAIN Jobs, Job(i), NEW d \in Calls PROVE Looked(d)'
    <2> DEFINE c == Jobs[i]
    <2>1. c \in Calls /\ look' = look
      BY <1>1 DEF Calls, Range, Job
    <2>2. pc' = [pc EXCEPT ![c] = "rendering"] /\ pc[c] = "new"
      BY <1>1 DEF Job, Goto
    <2>3. PICK t : target' = [target EXCEPT ![c] = t]
      BY <1>1 DEF Job
    <2> HIDE DEF c
    <2>4. CASE d = c
      <3>1. look'[d] = None /\ pc'[d] = "rendering"
        BY <1>0, <1>b, <2>1, <2>2, <2>4
      <3> QED
        BY <3>1 DEF Looked
    <2>5. CASE d # c
      BY <1>0, <1>a, <2>1, <2>2, <2>3, <2>5
    <2> QED
      BY <2>4, <2>5
  <1>2. ASSUME NEW c \in Calls, Request(c), NEW d \in Calls PROVE Looked(d)'
    <2>1. look' = look /\ pc[c] = "new"
      BY <1>2 DEF Request
    <2>2. PICK p \in {"rendering", "done"} : pc' = [pc EXCEPT ![c] = p]
      BY <1>2 DEF Request, Return, Goto
    <2>3. PICK t : target' = [target EXCEPT ![c] = t]
      BY <1>2 DEF Request
    <2>4. CASE d = c
      <3>1. look'[d] = None /\ pc'[d] \in {"rendering", "done"}
        BY <1>0, <1>b, <2>1, <2>2, <2>4
      <3> QED
        BY <3>1 DEF Looked
    <2>5. CASE d # c
      BY <1>0, <1>a, <2>1, <2>2, <2>3, <2>5
    <2> QED
      BY <2>4, <2>5
  <1>3. ASSUME NEW c \in Calls, Admit(c), NEW d \in Calls PROVE Looked(d)'
    <2>1. look' = look /\ target' = target /\ pc[c] = "rendering"
      BY <1>3 DEF Admit
    <2>2. PICK p \in {"lookup", "done"} : pc' = [pc EXCEPT ![c] = p] /\ (p = "lookup" => target[c] # None)
      BY <1>3 DEF Admit, Refused, Return, Goto
    <2>3. CASE d = c
      BY <1>0, <1>b, <2>1, <2>2, <2>3, LookedKept
    <2>4. CASE d # c
      BY <1>0, <1>a, <2>1, <2>2, <2>4
    <2> QED
      BY <2>3, <2>4
  <1>4. ASSUME NEW c \in Calls, LookUp(c), NEW d \in Calls PROVE Looked(d)'
    <2>1. dir' = dir /\ target' = target /\ pc' = [pc EXCEPT ![c] = "joining"]
      BY <1>4 DEF LookUp, Goto
    <2>2. /\ target[c] \in Names
          /\ look' = [look EXCEPT ![c] = look'[c]]
          /\ look'[c].rule = "Folds" => dir.folds
          /\ look'[c].rule = "Distinct" => ~dir.folds
          /\ SameName(dir, look'[c].stored, target[c])
          /\ look'[c] \in Looks
      BY <1>4, LooksAreTrue
    <2>3. target[c] # None /\ look'[c] # None
      BY <2>2, CallsAssumption
    <2>4. CASE d = c
      BY <1>0, <2>1, <2>2, <2>3, <2>4 DEF Looked
    <2>5. CASE d # c
      BY <1>0, <1>a, <2>1, <2>2, <2>5
    <2> QED
      BY <2>4, <2>5
  <1>5. ASSUME NEW c \in Calls, Join(c) \/ TakeReply(c) \/ Reopen(c), NEW d \in Calls PROVE Looked(d)'
    <2>1. look' = look /\ target' = target /\ pc[c] \in {"joining", "waiting", "reopening"}
      BY <1>5 DEF Join, TakeReply, Reopen
    <2>2. PICK p \in {"waiting", "reopening", "done"} : pc' = [pc EXCEPT ![c] = p]
      BY <1>5 DEF Join, TakeReply, Reopen, Refused, Return, Goto
    <2>3. CASE d = c
      BY <1>0, <1>c, <2>1, <2>2, <2>3, LookedKept
    <2>4. CASE d # c
      BY <1>0, <1>a, <2>1, <2>2, <2>4
    <2> QED
      BY <2>3, <2>4
  <1>6. ASSUME NEW c \in Calls, Disconnect(c), NEW d \in Calls PROVE Looked(d)'
    <2>1. look' = look /\ target' = target /\ pc' = [pc EXCEPT ![c] = "done"]
      BY <1>6 DEF Disconnect, Return, Goto
    <2>2. CASE d = c
      BY <1>0, <2>1, <2>2, LookedKept
    <2>3. CASE d # c
      BY <1>0, <1>a, <2>1, <2>3
    <2> QED
      BY <2>2, <2>3
  <1>7. ASSUME UNCHANGED <<pc, look, target>>, NEW d \in Calls PROVE Looked(d)'
    BY <1>a, <1>7
  <1>8. ASSUME NEW c \in Calls, Register(c) \/ Publish(c) \/ Fail(c) \/ RefuseWaiters(c) \/ SlotFreed(c)
        PROVE  UNCHANGED <<pc, look, target>>
    BY <1>8 DEF Register, Publish, Fail, RefuseWaiters, SlotFreed, callVars
  <1>9. ASSUME \/ Generate \/ Delete \/ UNCHANGED vars
               \/ \E h \in Handles : OpenPolicy(h)
               \/ \E b \in Binders : LockNext(b) \/ BindAll(b)
        PROVE  UNCHANGED <<pc, look, target>>
    BY <1>9 DEF Generate, Delete, OpenPolicy, LockNext, BindAll, vars, callVars
  <1> QED
    BY <1>1, <1>2, <1>3, <1>4, <1>5, <1>6, <1>7, <1>8, <1>9 DEF Next, CallStep

\* Calls that met stay so, and generations that go on stay disjoint.
LEMMA MeetsKept ==
  ASSUME Kept, NEW c \in Calls, NEW w \in Calls, Meets(c, w)
  PROVE  Meets(c, w)'
  BY DEF Kept, Meets, SameName

LEMMA KeysKept ==
  ASSUME Kept, NEW c \in Calls, look[c] # None
  PROVE  KeysOf(c)' = KeysOf(c)
  BY DEF Kept, KeysOf

LEMMA DisjointKept ==
  ASSUME Kept, Met, Disjoint, \A w \in Calls : Work!UnderWay(w)' => Work!UnderWay(w)
  PROVE  Disjoint'
  <1> SUFFICES ASSUME NEW v \in Calls, NEW w \in Calls, v # w, Work!UnderWay(v)', Work!UnderWay(w)'
               PROVE  KeysOf(v)' \cap KeysOf(w)' = {}
    BY DEF Disjoint, Work!SharesKey
  <1>1. Work!UnderWay(v) /\ Work!UnderWay(w)
    OBVIOUS
  <1>2. look[v] # None /\ look[w] # None
    BY <1>1 DEF Met, Work!UnderWay
  <1>3. KeysOf(v) \cap KeysOf(w) = {}
    BY <1>1 DEF Disjoint, Work!SharesKey
  <1> QED
    BY <1>2, <1>3, KeysKept

\* A call that got its answer, or is about to open its page, knows its file.
LEMMA AnsweredKnow ==
  ASSUME Typed, Met, NEW c \in Calls, Looked(c), reply[c] # None \/ pc[c] = "reopening"
  PROVE  look[c] # None /\ target[c] \in Names
  <1>1. look[c] # None
    BY DEF Met, Meets, Looked
  <1> QED
    BY <1>1 DEF Looked, Typed

\* What was found stays found, unless somebody deletes.
Lasting == /\ removals' \in Nat /\ removals' >= removals
           /\ removals' = 0 => \A s \in Names : Exists(s) => Exists(s)'

LEMMA StepsLast ==
  ASSUME Typed, Volume, \A c \in Calls : Looked(c), Met, [Next]_vars
  PROVE  Lasting
  <1>0. removals \in Nat /\ dir \in Directories /\ dir.kind \in {"dir", "missing"}
    BY DEF Typed, Volume
  <1>1. ASSUME NEW h \in Handles, OpenPolicy(h) PROVE Lasting
    <2>1. dir.kind = "dir" => dir' = dir
      BY <1>1 DEF OpenPolicy, Created
    <2> QED
      BY <1>0, <1>1, <2>1 DEF Lasting, OpenPolicy, Exists
  <1>2. ASSUME NEW w \in Calls, Publish(w) PROVE Lasting
    <2>1. /\ dir'.kind = "dir"
          /\ \A s \in Names : Selected(dir, s) # {} => Selected(dir', s) # {}
      BY <1>2, PublishPuts
    <2>2. removals' = removals
      BY <1>2 DEF Publish
    <2> QED
      BY <1>0, <2>1, <2>2 DEF Lasting, Exists
  <1>3. ASSUME Delete PROVE Lasting
    BY <1>0, <1>3 DEF Lasting, Delete
  <1>4. ASSUME UNCHANGED <<dir, removals>> PROVE Lasting
    BY <1>0, <1>4 DEF Lasting, Exists
  <1>5. ASSUME NEW c \in Calls, CallStep(c) \/ Disconnect(c) \/ Fail(c) \/ RefuseWaiters(c) \/ SlotFreed(c)
        PROVE  UNCHANGED <<dir, removals>>
    BY <1>5 DEF CallStep, Request, Admit, LookUp, Register, Join, TakeReply, Reopen, Disconnect, Fail,
                RefuseWaiters, SlotFreed
  <1>6. ASSUME Generate \/ (\E i \in DOMAIN Jobs : Job(i)) \/ (\E b \in Binders : LockNext(b) \/ BindAll(b))
               \/ UNCHANGED vars
        PROVE  UNCHANGED <<dir, removals>>
    BY <1>6 DEF Generate, Job, LockNext, BindAll, vars
  <1> QED
    BY <1>1, <1>2, <1>3, <1>4, <1>5, <1>6 DEF Next

\* Found again, if nobody is newly answered or comes to open its page.
LEMMA FoundKept ==
  ASSUME Typed, \A c \in Calls : Looked(c), Met, Found, PublishedIsFound, Kept, Lasting,
         \A c \in Calls : reply'[c] = "published" => reply[c] = "published",
         \A c \in Calls : pc'[c] = "reopening" => pc[c] = "reopening" \/ reply[c] = "published",
         \A c \in Calls : answer'[c] = "lost" => answer[c] = "lost"
  PROVE  Found' /\ PublishedIsFound'
  <1>1. removals \in Nat
    BY DEF Typed
  <1>2. ASSUME NEW c \in Calls, removals' = 0, reply'[c] = "published" \/ pc'[c] = "reopening"
        PROVE  Exists(target[c])'
    <2>1. reply[c] = "published" \/ pc[c] = "reopening"
      BY <1>2
    <2>2. look[c] # None /\ target[c] \in Names
      BY <2>1, AnsweredKnow, CallsAssumption DEF Answers, Outcomes
    <2>3. removals = 0
      BY <1>1, <1>2 DEF Lasting
    <2>4. Exists(target[c])
      BY <2>1, <2>3 DEF Found
    <2>5. target'[c] = target[c]
      BY <2>2 DEF Kept
    <2>6. PICK s \in Names : s = target[c]
      BY <2>2
    <2>7. Exists(s)'
      BY <1>2, <2>4, <2>6 DEF Lasting
    <2> QED
      BY <2>5, <2>6, <2>7 DEF Exists
  <1>3. Found'
    BY <1>2 DEF Found
  <1>4. PublishedIsFound'
    BY <1>1 DEF PublishedIsFound, Lasting
  <1> QED
    BY <1>3, <1>4

\* Steps that leave the generations alone.
LEMMA QuietStep ==
  ASSUME Typed, \A c \in Calls : Looked(c), Disjoint, Met, Found, PublishedIsFound, Kept, Lasting,
         UNCHANGED <<templates, generation, accepted, reply>>,
         \A c \in Calls : pc'[c] = "reopening" => pc[c] = "reopening",
         \A c \in Calls : answer'[c] = "lost" => answer[c] = "lost"
  PROVE  Disjoint' /\ Met' /\ Found' /\ PublishedIsFound'
  <1>1. Disjoint'
    BY DisjointKept DEF Work!UnderWay
  <1>2. Met'
    <2>1. \A w \in Calls : generation'[w] # "none" => look'[w] # None
      BY DEF Met, Kept
    <2>2. \A w \in Calls : \A c \in templates'[w] : Meets(c, w)'
      BY MeetsKept DEF Met, Typed
    <2>3. \A c \in Calls : accepted'[c] # None => Meets(c, accepted[c])'
      BY MeetsKept DEF Met, Typed
    <2> QED
      BY <2>1, <2>2, <2>3 DEF Met, Meets
  <1> QED
    BY <1>1, <1>2, FoundKept

\* A generation answers, refuses or ends.
LEMMA AnswerStep ==
  ASSUME Typed, \A c \in Calls : Looked(c), Disjoint, Met, Found, PublishedIsFound, Kept, Lasting,
         NEW w \in Calls, NEW r \in Outcomes, Work!Answered(w, r), generation[w] # "none",
         UNCHANGED <<templates, accepted, pc, answer>>,
         \A v \in Calls : Work!UnderWay(v)' => Work!UnderWay(v),
         \A v \in Calls : generation'[v] # "none" => generation[v] # "none",
         (r = "published" /\ removals' = 0) =>
            \A c \in Calls : accepted[c] = w => Exists(target[c])'
  PROVE  Disjoint' /\ Met' /\ Found' /\ PublishedIsFound'
  <1>1. Disjoint'
    BY DisjointKept
  <1>2. \A c \in Calls : reply'[c] = IF accepted[c] = w /\ reply[c] = None THEN r ELSE reply[c]
    BY DEF Work!Answered
  <1>3. Met'
    <2>1. \A v \in Calls : generation'[v] # "none" => look'[v] # None
      BY DEF Met, Kept
    <2>2. \A v \in Calls : \A c \in templates'[v] : Meets(c, v)'
      BY MeetsKept DEF Met, Typed
    <2>3. \A c \in Calls : accepted'[c] # None => Meets(c, accepted[c])'
      BY MeetsKept DEF Met, Typed
    <2>4. \A c \in Calls : reply'[c] # None => accepted'[c] # None
      BY <1>2, CallsAssumption DEF Met
    <2> QED
      BY <2>1, <2>2, <2>3, <2>4 DEF Met, Meets
  <1>4. removals \in Nat
    BY DEF Typed
  <1>5. ASSUME NEW c \in Calls, removals' = 0, reply'[c] = "published" \/ pc'[c] = "reopening"
        PROVE  Exists(target[c])'
    <2>1. CASE accepted[c] = w /\ reply[c] = None /\ r = "published"
      BY <1>5, <2>1
    <2>2. CASE ~(accepted[c] = w /\ reply[c] = None /\ r = "published")
      <3>1. reply[c] = "published" \/ pc[c] = "reopening"
        BY <1>2, <1>5, <2>2
      <3>2. look[c] # None /\ target[c] \in Names
        BY <3>1, AnsweredKnow, CallsAssumption DEF Answers, Outcomes
      <3>3. removals = 0
        BY <1>4, <1>5 DEF Lasting
      <3>4. Exists(target[c])
        BY <3>1, <3>3 DEF Found
      <3>5. target'[c] = target[c]
        BY <3>2 DEF Kept
      <3>6. PICK s \in Names : s = target[c]
        BY <3>2
      <3>7. Exists(s)'
        BY <1>5, <3>4, <3>6 DEF Lasting
      <3> QED
        BY <3>5, <3>6, <3>7 DEF Exists
    <2> QED
      BY <2>1, <2>2
  <1>6. Found'
    BY <1>5 DEF Found
  <1>7. PublishedIsFound'
    BY <1>4 DEF PublishedIsFound, Lasting
  <1> QED
    BY <1>1, <1>3, <1>6, <1>7

LEMMA WorkStep ==
  ASSUME ServingInv, Kept, Lasting, [Next]_vars
  PROVE  Disjoint' /\ Met' /\ Found' /\ PublishedIsFound'
  <1> DEFINE Goal == Disjoint' /\ Met' /\ Found' /\ PublishedIsFound'
  <1>0. /\ Typed /\ Volume /\ (\A c \in Calls : Looked(c))
        /\ Disjoint /\ Met /\ Found /\ PublishedIsFound
    BY DEF ServingInv
  <1>a. /\ pc \in [Calls -> Points] /\ answer \in [Calls -> Answers \cup {None}]
        /\ generation \in [Calls -> {"none", "open", "refusing", "over"}]
        /\ accepted \in [Calls -> Calls \cup {None}]
        /\ reply \in [Calls -> Outcomes \cup {None}]
        /\ templates \in [Calls -> SUBSET Calls]
        /\ None \notin Answers /\ None \notin Calls /\ Outcomes \subseteq Answers
    BY <1>0, CallsAssumption DEF Typed, Answers
  <1>b. ASSUME NEW c \in Calls, NEW p \in Points, p # "reopening", pc' = [pc EXCEPT ![c] = p]
        PROVE  \A d \in Calls : pc'[d] = "reopening" => pc[d] = "reopening"
    BY <1>a, <1>b
  <1>c. ASSUME NEW c \in Calls, NEW s, s # "lost", answer' = [answer EXCEPT ![c] = s]
        PROVE  \A d \in Calls : answer'[d] = "lost" => answer[d] = "lost"
    BY <1>a, <1>c
  <1> HIDE DEF Goal
  <1>d. ASSUME UNCHANGED <<templates, generation, accepted, reply>>,
               \A c \in Calls : pc'[c] = "reopening" => pc[c] = "reopening",
               \A c \in Calls : answer'[c] = "lost" => answer[c] = "lost"
        PROVE  Goal
    BY <1>0, <1>d, QuietStep DEF Goal
  <1>1. ASSUME \/ Generate \/ Delete \/ UNCHANGED vars
               \/ \E h \in Handles : OpenPolicy(h)
               \/ \E b \in Binders : LockNext(b) \/ BindAll(b)
        PROVE  Goal
    <2>1. UNCHANGED <<pc, answer, templates, generation, accepted, reply>>
      BY <1>1 DEF Generate, Delete, OpenPolicy, LockNext, BindAll, vars, callVars, workVars
    <2> QED
      BY <1>d, <2>1
  <1>2. ASSUME NEW i \in DOMAIN Jobs, Job(i) PROVE Goal
    <2>1. Jobs[i] \in Calls /\ pc' = [pc EXCEPT ![Jobs[i]] = "rendering"]
      BY <1>2 DEF Job, Goto, Calls, Range
    <2>2. UNCHANGED <<answer, templates, generation, accepted, reply>>
      BY <1>2 DEF Job, workVars
    <2> QED
      BY <1>b, <1>d, <2>1, <2>2 DEF Points
  <1>3. ASSUME NEW c \in Calls, Request(c) \/ Admit(c) \/ LookUp(c) PROVE Goal
    <2>1. PICK p \in Points \ {"reopening"} : pc' = [pc EXCEPT ![c] = p]
      BY <1>3 DEF Request, Admit, LookUp, Refused, Return, Goto, Points
    <2>2. UNCHANGED answer \/ \E s \in {"no page", "file", "capacity", "failure"} : answer' = [answer EXCEPT ![c] = s]
      BY <1>3 DEF Request, Admit, LookUp, Refused, Return, Goto
    <2>3. UNCHANGED <<templates, generation, accepted, reply>>
      BY <1>3 DEF Request, Admit, LookUp, workVars
    <2>4. \A d \in Calls : answer'[d] = "lost" => answer[d] = "lost"
      BY <1>c, <2>2
    <2> QED
      BY <1>b, <1>d, <2>1, <2>3, <2>4
  <1>4. ASSUME NEW c \in Calls, Register(c) PROVE Goal
    <2>1. /\ generation' = [generation EXCEPT ![c] = "open"]
          /\ \A w \in Calls : Work!UnderWay(w) => ~Work!SharesKey(c, w)
          /\ UNCHANGED <<pc, look, target, answer, templates, accepted, reply>>
      BY <1>4 DEF Register, Work!Begin, Work!MayBegin, callVars
    <2>2. look[c] # None
      BY <1>0, <1>4 DEF Register, Looked
    <2>3. Disjoint'
      <3> SUFFICES ASSUME NEW v \in Calls, NEW w \in Calls, v # w, Work!UnderWay(v)', Work!UnderWay(w)'
                   PROVE  KeysOf(v)' \cap KeysOf(w)' = {}
        BY DEF Disjoint, Work!SharesKey
      <3>1. KeysOf(v)' = KeysOf(v) /\ KeysOf(w)' = KeysOf(w)
        BY <2>1 DEF KeysOf
      <3>2. (v # c => Work!UnderWay(v)) /\ (w # c => Work!UnderWay(w))
        BY <1>a, <2>1 DEF Work!UnderWay
      <3>3. KeysOf(v) \cap KeysOf(w) = {}
        <4>1. CASE v = c
          BY <2>1, <3>2, <4>1 DEF Work!SharesKey
        <4>2. CASE w = c
          BY <2>1, <3>2, <4>2 DEF Work!SharesKey
        <4>3. CASE v # c /\ w # c
          BY <1>0, <3>2, <4>3 DEF Disjoint, Work!SharesKey
        <4> QED
          BY <4>1, <4>2, <4>3
      <3> QED
        BY <3>1, <3>3
    <2>4. Met'
      <3>1. \A w \in Calls : generation'[w] # "none" => look'[w] # None
        BY <1>0, <1>a, <2>1, <2>2 DEF Met
      <3>2. \A w \in Calls : \A d \in templates'[w] : Meets(d, w)'
        BY <1>0, <1>a, <2>1, MeetsKept DEF Met
      <3>3. \A d \in Calls : accepted'[d] # None => Meets(d, accepted[d])'
        BY <1>0, <1>a, <2>1, MeetsKept DEF Met
      <3> QED
        BY <1>0, <2>1, <3>1, <3>2, <3>3 DEF Met, Meets
    <2>5. Found' /\ PublishedIsFound'
      BY <1>0, <2>1, FoundKept
    <2> QED
      BY <2>3, <2>4, <2>5 DEF Goal
  <1>5. ASSUME NEW c \in Calls, Join(c) PROVE Goal
    <2>1. PICK w \in Calls :
             \/ /\ Work!Accept(c, w)
                /\ templates' = [templates EXCEPT ![w] = @ \cup {c}]
                /\ Goto(c, "waiting") /\ UNCHANGED answer
             \/ /\ generation[w] = "refusing" /\ Work!SharesKey(c, w)
                /\ IF policy[c] = None THEN Return(c, "panic") ELSE Refused(c)
                /\ UNCHANGED <<templates, generation, accepted, reply>>
      BY <1>5 DEF Join
    <2>2. CASE UNCHANGED <<templates, generation, accepted, reply>> /\ (Return(c, "panic") \/ Return(c, "capacity"))
      <3>1. PICK s \in {"panic", "capacity"} : Return(c, s)
        BY <2>2
      <3>2. pc' = [pc EXCEPT ![c] = "done"] /\ answer' = [answer EXCEPT ![c] = s]
        BY <3>1 DEF Return, Goto
      <3>3. "done" \in Points
        BY DEF Points
      <3> QED
        BY <1>b, <1>c, <1>d, <2>2, <3>2, <3>3
    <2>3. CASE /\ Work!Accept(c, w) /\ templates' = [templates EXCEPT ![w] = @ \cup {c}]
               /\ Goto(c, "waiting") /\ UNCHANGED answer
      <3>1. /\ Work!SharesKey(c, w) /\ accepted' = [accepted EXCEPT ![c] = w]
            /\ UNCHANGED <<generation, reply, answer>> /\ pc' = [pc EXCEPT ![c] = "waiting"]
        BY <2>3 DEF Work!Accept, Goto
      <3>2. Meets(c, w)
        BY <1>0, <3>1, SharedKeysMeet
      <3>3. Disjoint'
        BY <1>0, <3>1, DisjointKept DEF Work!UnderWay
      <3>4. \A v \in Calls : \A d \in templates'[v] : d \in Calls /\ Meets(d, v)
        BY <1>0, <1>a, <2>3, <3>2 DEF Met
      <3>5. \A d \in Calls : accepted'[d] # None => accepted'[d] \in Calls /\ Meets(d, accepted'[d])
        BY <1>0, <1>a, <3>1, <3>2 DEF Met
      <3>6. \A v \in Calls : generation'[v] # "none" => look'[v] # None
        BY <1>0, <3>1 DEF Met, Kept
      <3>7. \A d \in Calls : reply'[d] # None => accepted'[d] # None
        BY <1>0, <1>a, <3>1 DEF Met
      <3>8. \A v \in Calls : \A d \in templates'[v] : Meets(d, v)'
        BY <3>4, MeetsKept
      <3>9. \A d \in Calls : accepted'[d] # None =>
               look'[d] # None /\ look'[accepted'[d]] # None /\ SameName(dir', target'[d], target'[accepted'[d]])
        BY <3>5, MeetsKept DEF Meets
      <3>10. Met'
        BY <3>6, <3>7, <3>8, <3>9 DEF Met, Meets
      <3>11. \A d \in Calls : pc'[d] = "reopening" => pc[d] = "reopening"
        BY <1>a, <3>1
      <3>12. Found' /\ PublishedIsFound'
        BY <1>0, <3>1, <3>11, FoundKept
      <3> QED
        BY <3>3, <3>10, <3>12 DEF Goal
    <2> QED
      BY <2>1, <2>2, <2>3 DEF Refused
  <1>e. ASSUME NEW c \in Calls, Work!Leave(c), UNCHANGED templates,
               \A d \in Calls : pc'[d] = "reopening" => pc[d] = "reopening" \/ reply[d] = "published",
               \A d \in Calls : answer'[d] = "lost" => answer[d] = "lost"
        PROVE  Goal
    <2>1. /\ accepted' = [accepted EXCEPT ![c] = None] /\ reply' = [reply EXCEPT ![c] = None]
          /\ UNCHANGED <<generation, templates>>
      BY <1>e DEF Work!Leave
    <2>2. Disjoint'
      BY <1>0, <2>1, DisjointKept DEF Work!UnderWay
    <2>3. \A v \in Calls : generation'[v] # "none" => look'[v] # None
      BY <1>0, <2>1 DEF Met, Kept
    <2>4. \A v \in Calls : \A d \in templates'[v] : Meets(d, v)'
      BY <1>0, <1>a, <2>1, MeetsKept DEF Met
    <2>5. \A d \in Calls : accepted'[d] # None => accepted'[d] = accepted[d] /\ accepted[d] \in Calls /\ Meets(d, accepted[d])
      BY <1>0, <1>a, <2>1 DEF Met
    <2>6. \A d \in Calls : accepted'[d] # None =>
             look'[d] # None /\ look'[accepted'[d]] # None /\ SameName(dir', target'[d], target'[accepted'[d]])
      BY <2>5, MeetsKept DEF Meets
    <2>7. \A d \in Calls : reply'[d] # None => accepted'[d] # None
      BY <1>0, <1>a, <2>1 DEF Met
    <2>8. Met'
      BY <2>3, <2>4, <2>6, <2>7 DEF Met, Meets
    <2>9. \A d \in Calls : reply'[d] = "published" => reply[d] = "published"
      BY <1>a, <2>1 DEF Answers, Outcomes
    <2>10. Found' /\ PublishedIsFound'
      BY <1>0, <1>e, <2>9, FoundKept
    <2> QED
      BY <2>2, <2>8, <2>10 DEF Goal
  <1>6. ASSUME NEW c \in Calls, TakeReply(c) PROVE Goal
    <2>1. /\ Work!Leave(c) /\ UNCHANGED templates
          /\ IF c \in Pages /\ reply[c] = "published" THEN Goto(c, "reopening") /\ UNCHANGED answer
             ELSE Return(c, reply[c])
      BY <1>6 DEF TakeReply
    <2>2. \A d \in Calls : pc'[d] = "reopening" => pc[d] = "reopening" \/ reply[d] = "published"
      BY <1>a, <2>1 DEF Return, Goto
    <2>3. reply[c] # "lost"
      BY <1>a, <1>6 DEF TakeReply, Outcomes
    <2>4. \A d \in Calls : answer'[d] = "lost" => answer[d] = "lost"
      BY <1>c, <2>1, <2>3 DEF Return
    <2> QED
      BY <1>e, <2>1, <2>2, <2>4
  <1>7. ASSUME NEW c \in Calls, Reopen(c) PROVE Goal
    <2>1. /\ pc[c] = "reopening" /\ pc' = [pc EXCEPT ![c] = "done"]
          /\ answer' = [answer EXCEPT ![c] = IF Exists(target[c]) THEN "file" ELSE "lost"]
          /\ UNCHANGED <<templates, generation, accepted, reply>>
          /\ UNCHANGED removals
      BY <1>7 DEF Reopen, Return, Goto, workVars
    <2>2. CASE removals = 0
      <3>1. Exists(target[c])
        BY <1>0, <2>1, <2>2 DEF Found
      <3>2. answer' = [answer EXCEPT ![c] = "file"]
        BY <2>1, <3>1
      <3>3. "done" \in Points
        BY DEF Points
      <3> QED
        BY <1>b, <1>c, <1>d, <2>1, <3>2, <3>3
    <2>3. CASE removals # 0
      <3>1. removals' > 0
        BY <1>0, <2>1, <2>3 DEF Typed
      <3>2. Found' /\ PublishedIsFound'
        BY <3>1 DEF Found, PublishedIsFound
      <3>3. Disjoint'
        BY <1>0, <2>1, DisjointKept DEF Work!UnderWay
      <3>4. \A v \in Calls : generation'[v] # "none" => look'[v] # None
        BY <1>0, <2>1 DEF Met, Kept
      <3>5. \A v \in Calls : \A d \in templates'[v] : Meets(d, v)'
        BY <1>0, <1>a, <2>1, MeetsKept DEF Met
      <3>6. \A d \in Calls : accepted'[d] # None => Meets(d, accepted[d])'
        BY <1>0, <1>a, <2>1, MeetsKept DEF Met
      <3>7. Met'
        BY <1>0, <2>1, <3>4, <3>5, <3>6 DEF Met, Meets
      <3> QED
        BY <3>2, <3>3, <3>7 DEF Goal
    <2> QED
      BY <2>2, <2>3
  <1>8. ASSUME NEW c \in Calls, Disconnect(c) PROVE Goal
    <2>1. /\ pc' = [pc EXCEPT ![c] = "done"] /\ answer' = [answer EXCEPT ![c] = "dropped"]
          /\ UNCHANGED templates
          /\ Work!Leave(c) \/ UNCHANGED <<generation, accepted, reply>>
      BY <1>8 DEF Disconnect, Return, Goto
    <2>2. "done" \in Points
      BY DEF Points
    <2>3. \A d \in Calls : pc'[d] = "reopening" => pc[d] = "reopening"
      BY <1>b, <2>1, <2>2
    <2>4. \A d \in Calls : answer'[d] = "lost" => answer[d] = "lost"
      BY <1>c, <2>1
    <2> QED
      BY <1>d, <1>e, <2>1, <2>3, <2>4
  <1>f. ASSUME NEW w \in Calls, NEW r \in Outcomes, AnswerOrEnd(w, r) \/ (r = "capacity" /\ Work!Refuse(w))
        PROVE  /\ Work!Answered(w, r) /\ generation[w] # "none" /\ UNCHANGED accepted
               /\ \A v \in Calls : Work!UnderWay(v)' => Work!UnderWay(v)
               /\ \A v \in Calls : generation'[v] # "none" => generation[v] # "none"
    BY <1>a, <1>f, ResultAnswers DEF Work!Answer, Work!End, Work!Refuse, Work!UnderWay
  <1>9. ASSUME NEW w \in Calls, Publish(w) PROVE Goal
    <2>1. AnswerOrEnd(w, "published") /\ UNCHANGED <<templates, pc, answer>> /\ "published" \in Outcomes
      BY <1>9 DEF Publish, callVars, Outcomes
    <2>2. /\ look[w] # None /\ target[w] \in Names /\ dir'.kind = "dir"
          /\ \A s \in Names : SameName(dir, s, target[w]) => Selected(dir', s) # {}
      BY <1>0, <1>9, PublishPuts
    <2>3. ASSUME NEW c \in Calls, accepted[c] = w PROVE Exists(target[c])'
      <3>1. Meets(c, w)
        BY <1>0, <1>a, <2>3 DEF Met
      <3>2. target[c] \in Names /\ target'[c] = target[c] /\ SameName(dir, target[c], target[w])
        BY <1>0, <3>1 DEF Meets, Looked, Typed, Kept
      <3> QED
        BY <2>2, <3>2 DEF Exists
    <2> QED
      BY <1>0, <1>f, <2>1, <2>3, AnswerStep DEF Goal
  <1>10. ASSUME NEW w \in Calls, Fail(w) \/ RefuseWaiters(w) PROVE Goal
    <2>1. PICK r \in Outcomes : r # "published" /\ (AnswerOrEnd(w, r) \/ (r = "capacity" /\ Work!Refuse(w)))
      BY <1>10 DEF Fail, RefuseWaiters, Outcomes
    <2>2. UNCHANGED <<templates, pc, answer>>
      BY <1>10 DEF Fail, RefuseWaiters, callVars
    <2> QED
      BY <1>0, <1>f, <2>1, <2>2, AnswerStep DEF Goal
  <1>11. ASSUME NEW w \in Calls, SlotFreed(w) PROVE Goal
    <2>1. /\ generation[w] = "refusing" /\ generation' = [generation EXCEPT ![w] = "open"]
          /\ UNCHANGED <<accepted, reply, templates, pc, answer>>
      BY <1>11 DEF SlotFreed, Work!Reopen, callVars
    <2>2. Disjoint'
      BY <1>0, <1>a, <2>1, DisjointKept DEF Work!UnderWay
    <2>3. \A v \in Calls : generation'[v] # "none" => look'[v] # None
      BY <1>0, <1>a, <2>1 DEF Met, Kept
    <2>4. \A v \in Calls : \A d \in templates'[v] : Meets(d, v)'
      BY <1>0, <1>a, <2>1, MeetsKept DEF Met
    <2>5. \A d \in Calls : accepted'[d] # None => Meets(d, accepted[d])'
      BY <1>0, <1>a, <2>1, MeetsKept DEF Met
    <2>6. Met'
      BY <1>0, <2>1, <2>3, <2>4, <2>5 DEF Met, Meets
    <2>7. Found' /\ PublishedIsFound'
      BY <1>0, <2>1, FoundKept
    <2> QED
      BY <2>2, <2>6, <2>7 DEF Goal
  <1>12. Goal
    BY <1>1, <1>2, <1>3, <1>4, <1>5, <1>6, <1>7, <1>8, <1>9, <1>10, <1>11 DEF Next, CallStep
  <1> QED
    BY <1>12 DEF Goal

LEMMA ServingInit == Init => ServingInv
  <1> SUFFICES ASSUME Init PROVE ServingInv
    OBVIOUS
  <1>1. PICK s \in Scenarios :
           /\ site = [above |-> s.above, handles |-> s.handles, deletions |-> s.deletions] /\ dir = s.dir
           /\ pc = [c \in Calls |-> IF c \in s.calls THEN "new" ELSE "done"]
    BY DEF Init
  <1>2. /\ removals = 0 /\ opened = {}
        /\ binding = [rt \in Runtimes |-> [policy |-> None, started |-> FALSE]]
        /\ binder = [b \in Binders |-> "idle"]
        /\ target = [c \in Calls |-> None] /\ policy = [c \in Calls |-> None]
        /\ look = [c \in Calls |-> None] /\ templates = [c \in Calls |-> {}]
        /\ answer = [c \in Calls |-> None]
        /\ generation = [c \in Calls |-> "none"]
        /\ accepted = [c \in Calls |-> None] /\ reply = [c \in Calls |-> None]
    BY DEF Init, Work!Init
  <1>3. /\ s.dir \in Directories /\ s.above \in Seq(Directories) /\ s.handles \in SUBSET Handles
        /\ s.dir.kind # "other" /\ IsFiniteSet(s.dir.entries)
        /\ OneRule(<<s.dir>> \o s.above, s.dir.folds)
        /\ \A d \in Range(<<s.dir>> \o s.above) : SingleDirectories(d)
    BY ScenariosAssumption
  <1>4. /\ dir = s.dir /\ site.above = s.above /\ site.handles = s.handles
    BY <1>1
  <1>5. Typed
    <2>1. pc \in [Calls -> Points]
      BY <1>1 DEF Points
    <2>2. site.handles \in SUBSET Handles
      BY <1>3, <1>4
    <2> QED
      BY <1>2, <2>1, <2>2 DEF Typed
  <1>6. Volume
    <2>1. s.dir.kind \in {"dir", "missing"}
      BY <1>3 DEF Directories
    <2>2. ASSUME NEW i \in DOMAIN (<<s.dir>> \o s.above) PROVE SingleDirectories((<<s.dir>> \o s.above)[i])
      BY <1>3 DEF Range
    <2>3. SingleDirectories(s.dir)
      <3>1. 1 \in DOMAIN (<<s.dir>> \o s.above) /\ (<<s.dir>> \o s.above)[1] = s.dir
        BY <1>3
      <3> QED
        BY <2>2, <3>1
    <2>4. ASSUME NEW i \in DOMAIN s.above PROVE SingleDirectories(s.above[i])
      <3>1. i + 1 \in DOMAIN (<<s.dir>> \o s.above) /\ (<<s.dir>> \o s.above)[i + 1] = s.above[i]
        BY <1>3
      <3> QED
        BY <2>2, <3>1
    <2> QED
      BY <1>3, <1>4, <2>1, <2>3, <2>4 DEF Volume, Namespace
  <1>7. \A c \in Calls : Looked(c)
    BY <1>1, <1>2 DEF Looked
  <1>8. Disjoint /\ Met
    BY <1>2 DEF Disjoint, Met, Work!UnderWay
  <1>9. None \notin Answers
    BY CallsAssumption
  <1>10. Found /\ PublishedIsFound
    BY <1>1, <1>2, <1>9 DEF Found, PublishedIsFound, Answers, Outcomes
  <1> QED
    BY <1>5, <1>6, <1>7, <1>8, <1>10 DEF ServingInv

LEMMA ServingStep == ServingInv /\ [Next]_vars => ServingInv'
  <1> SUFFICES ASSUME ServingInv, [Next]_vars PROVE ServingInv'
    OBVIOUS
  <1>1. /\ Typed /\ Volume /\ (\A c \in Calls : Looked(c)) /\ Met
    BY DEF ServingInv
  <1>2. Kept
    BY <1>1, StepsKeep
  <1>3. Lasting
    BY <1>1, StepsLast
  <1>4. Typed'
    BY <1>1, TypedStep
  <1>5. Volume'
    BY <1>1, VolumeStep
  <1>6. \A c \in Calls : Looked(c)'
    BY <1>1, <1>2, LookedStep
  <1>7. Disjoint' /\ Met' /\ Found' /\ PublishedIsFound'
    BY <1>2, <1>3, WorkStep
  <1> QED
    BY <1>4, <1>5, <1>6, <1>7 DEF ServingInv

-----------------------------------------------------------------------------
(* Policies.                                                               *)

\* The policies' root is there from the start: open finds it, and does not
\* create it while calls may have started.
RootsExist == \A s \in Scenarios : s.handles # {} => s.dir.kind # "missing"

LEMMA PolicyInit == RootsExist /\ Init => PolicyInv
  <1> SUFFICES ASSUME RootsExist, Init PROVE PolicyInv
    OBVIOUS
  <1>1. PICK s \in Scenarios :
           /\ site = [above |-> s.above, handles |-> s.handles, deletions |-> s.deletions] /\ dir = s.dir
           /\ pc = [c \in Calls |-> IF c \in s.calls THEN "new" ELSE "done"]
    BY DEF Init
  <1>2. site.handles # {} => dir.kind # "missing"
    BY <1>1 DEF RootsExist
  <1>3. None \notin Answers
    BY CallsAssumption
  <1>4. Bound
    BY <1>2 DEF Init, Bound
  <1>5. \A c \in Calls : Governed(c)
    BY <1>1 DEF Init, Governed
  <1>6. Managed
    BY <1>3 DEF Init, Work!Init, Managed, OnlyManagedWorkWaits, Answers, Outcomes
  <1> QED
    BY <1>4, <1>5, <1>6 DEF PolicyInv

\* A root that is there stays, and no call forgets its policy.
LEMMA BoundKept ==
  ASSUME Bound, UNCHANGED <<site, binder>>, opened' = opened, dir.kind # "missing" => dir'.kind # "missing",
         \A rt \in Runtimes : binding'[rt].policy = binding[rt].policy
  PROVE  Bound'
  <1>1. \A b \in Binders : \A rt \in Range(RoutesOf[b]) : rt \in Runtimes
    BY DEF Runtimes
  <1> QED
    BY <1>1 DEF Bound

LEMMA GovernedKept ==
  ASSUME NEW c \in Calls, Governed(c), UNCHANGED site, policy'[c] = policy[c],
         pc'[c] = "lookup" \/ look'[c] # None => pc[c] = "lookup" \/ look[c] # None,
         binding'[RuntimeOf[c]].policy = binding[RuntimeOf[c]].policy,
         binding[RuntimeOf[c]].started => binding'[RuntimeOf[c]].started
  PROVE  Governed(c)'
  BY DEF Governed

\* Starting a runtime changes no policy.
LEMMA StartKeeps ==
  ASSUME Typed, NEW rt \in Runtimes, Start(rt)
  PROVE  /\ \A r \in Runtimes : /\ binding'[r].policy = binding[r].policy
                                /\ binding[r].started => binding'[r].started
         /\ dir.kind # "missing" => binding'[rt].started
  BY DEF Typed, Start, Started

\* Without handles nothing is bound.
LEMMA NoPolicies ==
  ASSUME Bound, site.handles = {}, NEW rt \in Runtimes
  PROVE  binding[rt].policy = None
  BY DEF Bound

LEMMA BoundStep ==
  ASSUME ServingInv, PolicyInv, [Next]_vars
  PROVE  Bound'
  <1>0. Typed /\ Volume /\ Bound /\ Met /\ (\A c \in Calls : Looked(c))
    BY DEF ServingInv, PolicyInv
  <1>a. binder \in [Binders -> {"idle", "locking", "bound", "refused"}]
    BY <1>0 DEF Typed
  <1>b. \A c \in Calls : RuntimeOf[c] \in Runtimes
    BY CallsAssumption DEF Runtimes, Range
  <1>1. ASSUME NEW h \in Handles, OpenPolicy(h) PROVE Bound'
    <2>1. /\ UNCHANGED <<site, binder, binding>> /\ opened' = opened \cup {h} /\ h \in site.handles
          /\ dir' = Created(dir)
      BY <1>1 DEF OpenPolicy
    <2>2. dir'.kind # "missing"
      BY <1>0, <2>1 DEF Created, Volume, Directories
    <2> QED
      BY <1>0, <2>1, <2>2 DEF Bound
  <1>2. ASSUME NEW b \in Binders, LockNext(b) PROVE Bound'
    <2>1. /\ UNCHANGED <<site, dir, opened, binding>> /\ binder' = [binder EXCEPT ![b] = "locking"]
          /\ binder[b] \in {"idle", "locking"} /\ PolicyOf[b] \in opened
      BY <1>2 DEF LockNext
    <2>2. \A o \in Binders : binder'[o] = "bound" <=> binder[o] = "bound"
      BY <1>a, <2>1
    <2>3. \A o \in Binders : binder'[o] # "idle" => PolicyOf[o] \in opened
      BY <1>0, <1>a, <2>1 DEF Bound
    <2> QED
      BY <1>0, <2>1, <2>2, <2>3 DEF Bound
  <1>3. ASSUME NEW b \in Binders, BindAll(b) PROVE Bound'
    <2> DEFINE mine == Range(RoutesOf[b])
               fits == \A rt \in mine : Verdict(rt, PolicyOf[b]) = "ok"
    <2>1. /\ UNCHANGED <<site, dir, opened>> /\ binder[b] = "locking"
          /\ binder' = [binder EXCEPT ![b] = IF fits THEN "bound" ELSE "refused"]
      BY <1>3 DEF BindAll
    <2>2. binding' = [rt \in Runtimes |-> IF rt \in mine /\ fits THEN [binding[rt] EXCEPT !.policy = PolicyOf[b]]
                                          ELSE binding[rt]]
      BY <1>3 DEF BindAll, Bindable
    <2>3. \A rt \in Runtimes : binding'[rt].policy = IF rt \in mine /\ fits THEN PolicyOf[b] ELSE binding[rt].policy
      BY <1>0, <2>2 DEF Typed
    <2>4. mine \subseteq Runtimes /\ \A o \in Binders : Range(RoutesOf[o]) \subseteq Runtimes
      BY DEF Runtimes
    <2>5. fits => \A rt \in mine : binding[rt].policy \in {None, PolicyOf[b]}
      BY DEF Verdict
    <2> HIDE DEF mine, fits
    <2>6. \A o \in Binders : PolicyOf[o] # None
      BY CallsAssumption
    <2>7. \A o \in Binders : binder'[o] # "idle" => PolicyOf[o] \in opened
      BY <1>0, <1>a, <2>1 DEF Bound
    <2>8. ASSUME NEW o \in Binders, binder'[o] = "bound", NEW rt \in Range(RoutesOf[o])
          PROVE  binding'[rt].policy = PolicyOf[o]
      <3>1. rt \in Runtimes
        BY <2>4
      <3>2. CASE o = b
        <4>1. fits
          BY <1>a, <2>1, <2>8, <3>2
        <4> QED
          BY <2>3, <3>1, <3>2, <4>1 DEF mine
      <3>3. CASE o # b
        <4>1. binder[o] = "bound"
          BY <1>a, <2>1, <2>8, <3>3
        <4>2. binding[rt].policy = PolicyOf[o]
          BY <1>0, <4>1 DEF Bound
        <4> QED
          BY <2>3, <2>5, <2>6, <3>1, <4>2
      <3> QED
        BY <3>2, <3>3
    <2>9. ASSUME NEW rt \in Runtimes, binding'[rt].policy # None
          PROVE  \E o \in Binders : binder'[o] = "bound" /\ PolicyOf[o] = binding'[rt].policy
      <3>1. CASE rt \in mine /\ fits
        BY <1>a, <2>1, <2>3, <3>1
      <3>2. CASE ~(rt \in mine /\ fits)
        <4>1. binding'[rt].policy = binding[rt].policy
          BY <2>3, <3>2
        <4>2. PICK o \in Binders : binder[o] = "bound" /\ PolicyOf[o] = binding[rt].policy
          BY <1>0, <2>9, <4>1 DEF Bound
        <4>3. binder'[o] = "bound"
          BY <1>a, <2>1, <4>2
        <4> QED
          BY <4>1, <4>2, <4>3
      <3> QED
        BY <3>1, <3>2
    <2> QED
      BY <1>0, <2>1, <2>7, <2>8, <2>9 DEF Bound
  <1>4. ASSUME Generate PROVE Bound'
    <2>1. PICK rt : rt \in {RuntimeOf[c] : c \in Range(Jobs)} /\ Start(rt)
      BY <1>4 DEF Generate
    <2>2. rt \in Runtimes
      BY <1>b, <2>1 DEF Calls
    <2> QED
      BY <1>0, <1>4, <2>1, <2>2, StartKeeps, BoundKept DEF Generate, Start
  <1>5. ASSUME NEW c \in Calls, Admit(c) PROVE Bound'
    BY <1>0, <1>5, <1>b, StartKeeps, BoundKept DEF Admit, Start
  <1>6. ASSUME NEW w \in Calls, Publish(w) PROVE Bound'
    <2>1. dir'.kind = "dir"
      BY <1>0, <1>6, PublishPuts
    <2> QED
      BY <1>0, <1>6, <2>1, BoundKept DEF Publish, policyVars
  <1>7. ASSUME Delete PROVE Bound'
    <2>1. dir'.kind = dir.kind
      BY <1>0, <1>7 DEF Delete, Volume, Directories
    <2> QED
      BY <1>0, <1>7, <2>1, BoundKept DEF Delete, policyVars
  <1>8. ASSUME UNCHANGED <<site, dir, policyVars>> PROVE Bound'
    BY <1>0, <1>8, BoundKept DEF policyVars
  <1>9. ASSUME NEW c \in Calls, \/ Request(c) \/ LookUp(c) \/ Register(c) \/ Join(c) \/ TakeReply(c) \/ Reopen(c)
                                \/ Disconnect(c) \/ Fail(c) \/ RefuseWaiters(c) \/ SlotFreed(c)
        PROVE  UNCHANGED <<site, dir, policyVars>>
    BY <1>9 DEF Request, LookUp, Register, Join, TakeReply, Reopen, Disconnect, Fail, RefuseWaiters, SlotFreed
  <1>10. ASSUME (\E i \in DOMAIN Jobs : Job(i)) \/ UNCHANGED vars
         PROVE  UNCHANGED <<site, dir, policyVars>>
    BY <1>10 DEF Job, vars
  <1> QED
    BY <1>1, <1>2, <1>3, <1>4, <1>5, <1>6, <1>7, <1>8, <1>9, <1>10 DEF Next, CallStep

LEMMA GovernedStep ==
  ASSUME ServingInv, PolicyInv, [Next]_vars, NEW d \in Calls
  PROVE  Governed(d)'
  <1>0. Typed /\ Volume /\ Bound /\ Looked(d) /\ Governed(d)
    BY DEF ServingInv, PolicyInv
  <1>a. \A c \in Calls : RuntimeOf[c] \in Runtimes
    BY CallsAssumption DEF Runtimes, Range
  <1>b. /\ pc \in [Calls -> Points] /\ look \in [Calls -> Looks \cup {None}]
        /\ policy \in [Calls -> Handles \cup {None}]
    BY <1>0 DEF Typed
  <1>1. ASSUME NEW b \in Binders, BindAll(b) PROVE Governed(d)'
    <2> DEFINE rt == RuntimeOf[d]
               mine == Range(RoutesOf[b])
    <2>1. /\ UNCHANGED <<site, pc, look, policy>> /\ binder[b] = "locking"
      BY <1>1 DEF BindAll, callVars
    <2>2. site.handles # {}
      BY <1>0, <2>1 DEF Bound
    <2>3. binding' = [r \in Runtimes |-> IF r \in mine /\ Bindable(b, r) THEN [binding[r] EXCEPT !.policy = PolicyOf[b]]
                                          ELSE binding[r]]
      BY <1>1 DEF BindAll
    <2>4. binding[rt].started => ~(rt \in mine /\ Bindable(b, rt))
      BY DEF Bindable, Verdict
    <2>5. binding[rt].started => binding'[rt] = binding[rt]
      BY <1>a, <2>3, <2>4
    <2> QED
      BY <1>0, <2>1, <2>2, <2>5 DEF Governed
  <1>2. ASSUME Generate PROVE Governed(d)'
    <2>1. PICK rt : rt \in {RuntimeOf[c] : c \in Range(Jobs)} /\ Start(rt)
      BY <1>2 DEF Generate
    <2>2. rt \in Runtimes
      BY <1>a, <2>1 DEF Calls
    <2> QED
      BY <1>0, <1>2, <1>a, <2>1, <2>2, StartKeeps, GovernedKept DEF Generate
  <1>3. ASSUME NEW c \in Calls, Admit(c) PROVE Governed(d)'
    <2>1. /\ UNCHANGED <<site, dir, look>> /\ Start(RuntimeOf[c]) /\ pc[c] = "rendering"
          /\ policy' = [policy EXCEPT ![c] = Governs(RuntimeOf[c])]
      BY <1>3 DEF Admit
    <2>2. \A r \in Runtimes : /\ binding'[r].policy = binding[r].policy
                              /\ binding[r].started => binding'[r].started
      BY <1>0, <1>a, <2>1, StartKeeps
    <2>3. CASE d = c
      <3>1. CASE dir.kind = "missing"
        <4>1. site.handles = {}
          BY <1>0, <3>1 DEF Bound
        <4>2. binding[RuntimeOf[c]].policy = None
          BY <1>0, <1>a, <4>1, NoPolicies
        <4>3. policy'[c] = None
          BY <1>b, <2>1, <3>1 DEF Governs
        <4> QED
          BY <1>a, <2>1, <2>2, <2>3, <4>1, <4>2, <4>3 DEF Governed
      <3>2. CASE dir.kind # "missing"
        <4>1. binding'[RuntimeOf[c]].started
          BY <1>0, <1>a, <2>1, <3>2, StartKeeps
        <4>2. policy'[c] = binding[RuntimeOf[c]].policy
          BY <1>b, <2>1, <3>2 DEF Governs
        <4> QED
          BY <1>a, <2>2, <2>3, <4>1, <4>2 DEF Governed
      <3> QED
        BY <3>1, <3>2
    <2>4. CASE d # c
      <3>1. pc'[d] = pc[d]
        BY <1>3, <1>b, <2>4 DEF Admit, Refused, Return, Goto
      <3>2. policy'[d] = policy[d]
        BY <1>b, <2>1, <2>4
      <3> QED
        BY <1>0, <1>a, <2>1, <2>2, <3>1, <3>2, GovernedKept
    <2> QED
      BY <2>3, <2>4
  <1>4. ASSUME NEW c \in Calls, LookUp(c) PROVE Governed(d)'
    <2>1. /\ UNCHANGED <<site, policy, binding>> /\ pc[c] = "lookup" /\ pc' = [pc EXCEPT ![c] = "joining"]
      BY <1>4 DEF LookUp, Goto, policyVars
    <2>2. PICK l : look' = [look EXCEPT ![c] = l]
      BY <1>4 DEF LookUp
    <2> QED
      BY <1>0, <1>b, <2>1, <2>2, GovernedKept
  <1>5. ASSUME UNCHANGED <<site, binding, policy, look>>, pc'[d] = "lookup" => pc[d] = "lookup"
        PROVE  Governed(d)'
    BY <1>0, <1>5, GovernedKept
  <1>6. ASSUME NEW c \in Calls, Request(c) \/ Register(c) \/ Join(c) \/ TakeReply(c) \/ Reopen(c) \/ Disconnect(c)
        PROVE  UNCHANGED <<site, binding, policy, look>> /\ (pc'[d] = "lookup" => pc[d] = "lookup")
    <2>1. UNCHANGED <<site, binding, policy, look>>
      BY <1>6 DEF Request, Register, Join, TakeReply, Reopen, Disconnect, policyVars, callVars
    <2>2. pc' = pc \/ \E p \in {"rendering", "waiting", "reopening", "done"} : pc' = [pc EXCEPT ![c] = p]
      BY <1>6 DEF Request, Register, Join, TakeReply, Reopen, Disconnect, Refused, Return, Goto, callVars
    <2> QED
      BY <1>b, <2>1, <2>2
  <1>7. ASSUME NEW i \in DOMAIN Jobs, Job(i)
        PROVE  UNCHANGED <<site, binding, policy, look>> /\ (pc'[d] = "lookup" => pc[d] = "lookup")
    BY <1>7, <1>b DEF Job, Goto, policyVars
  <1>8. ASSUME NEW w \in Calls, Publish(w) \/ Fail(w) \/ RefuseWaiters(w) \/ SlotFreed(w)
        PROVE  UNCHANGED <<site, binding, policy, look, pc>>
    BY <1>8 DEF Publish, Fail, RefuseWaiters, SlotFreed, policyVars, callVars
  <1>9. ASSUME \/ Delete \/ UNCHANGED vars
               \/ \E h \in Handles : OpenPolicy(h)
               \/ \E b \in Binders : LockNext(b)
        PROVE  UNCHANGED <<site, binding, policy, look, pc>>
    BY <1>9 DEF Delete, OpenPolicy, LockNext, vars, policyVars, callVars
  <1> QED
    BY <1>1, <1>2, <1>3, <1>4, <1>5, <1>6, <1>7, <1>8, <1>9 DEF Next, CallStep

LEMMA ManagedStep ==
  ASSUME ServingInv, PolicyInv, [Next]_vars
  PROVE  Managed'
  <1>0. Typed /\ Volume /\ Met /\ (\A c \in Calls : Looked(c)) /\ (\A c \in Calls : Governed(c))
        /\ Managed
    BY DEF ServingInv, PolicyInv
  <1>a. /\ generation \in [Calls -> {"none", "open", "refusing", "over"}]
        /\ answer \in [Calls -> Answers \cup {None}] /\ pc \in [Calls -> Points]
        /\ policy \in [Calls -> Handles \cup {None}]
    BY <1>0 DEF Typed
  <1>b. ASSUME \A c \in Calls : answer'[c] = "panic" => answer[c] = "panic",
               \A w \in Calls : generation'[w] = "refusing" => policy'[w] # None
        PROVE  Managed'
    BY <1>0, <1>b DEF Managed, OnlyManagedWorkWaits
  <1>c. ASSUME \A w \in Calls : generation'[w] = "refusing" => generation[w] = "refusing",
               UNCHANGED policy
        PROVE  \A w \in Calls : generation'[w] = "refusing" => policy'[w] # None
    BY <1>0, <1>c DEF Managed
  <1>d. ASSUME NEW c \in Calls, NEW s, s # "panic", answer' = [answer EXCEPT ![c] = s]
        PROVE  \A e \in Calls : answer'[e] = "panic" => answer[e] = "panic"
    BY <1>a, <1>d
  <1>1. ASSUME UNCHANGED <<generation, policy, answer>> PROVE Managed'
    BY <1>b, <1>c, <1>1
  <1>2. ASSUME \/ Generate \/ Delete \/ UNCHANGED vars \/ \E i \in DOMAIN Jobs : Job(i)
               \/ \E h \in Handles : OpenPolicy(h)
               \/ \E b \in Binders : LockNext(b) \/ BindAll(b)
        PROVE  UNCHANGED <<generation, policy, answer>>
    BY <1>2 DEF Generate, Job, Delete, OpenPolicy, LockNext, BindAll, vars, callVars, workVars
  <1>3. ASSUME NEW c \in Calls, Request(c) \/ LookUp(c) \/ Reopen(c) PROVE Managed'
    <2>1. UNCHANGED <<generation, policy>>
      BY <1>3 DEF Request, LookUp, Reopen, workVars
    <2>2. UNCHANGED answer \/ \E s \in {"no page", "file", "lost"} : answer' = [answer EXCEPT ![c] = s]
      BY <1>3 DEF Request, LookUp, Reopen, Return, Goto
    <2> QED
      BY <1>b, <1>c, <1>d, <2>1, <2>2
  <1>4. ASSUME NEW c \in Calls, Admit(c) PROVE Managed'
    <2>1. UNCHANGED generation /\ pc[c] = "rendering" /\ policy' = [policy EXCEPT ![c] = Governs(RuntimeOf[c])]
      BY <1>4 DEF Admit, workVars
    <2>2. UNCHANGED answer \/ \E s \in {"capacity", "failure"} : answer' = [answer EXCEPT ![c] = s]
      BY <1>4 DEF Admit, Refused, Return, Goto
    <2>3. look[c] = None
      BY <1>0, <2>1 DEF Looked
    <2>4. generation[c] = "none"
      BY <1>0, <1>a, <2>3 DEF Met
    <2>5. \A w \in Calls : generation'[w] = "refusing" => policy'[w] # None
      BY <1>0, <1>a, <2>1, <2>4 DEF Managed
    <2> QED
      BY <1>b, <1>d, <2>2, <2>5
  <1>5. ASSUME NEW c \in Calls, Register(c) PROVE Managed'
    <2>1. UNCHANGED <<policy, answer>> /\ generation' = [generation EXCEPT ![c] = "open"]
      BY <1>5 DEF Register, Work!Begin, callVars
    <2> QED
      BY <1>a, <1>b, <1>c, <2>1
  <1>6. ASSUME NEW c \in Calls, Join(c) PROVE Managed'
    <2>1. PICK w \in Calls :
             \/ Work!Accept(c, w) /\ UNCHANGED answer
             \/ /\ generation[w] = "refusing" /\ Work!SharesKey(c, w)
                /\ IF policy[c] = None THEN Return(c, "panic") ELSE Refused(c)
                /\ UNCHANGED generation
      BY <1>6 DEF Join
    <2>2. UNCHANGED <<generation, policy>>
      BY <1>6, <2>1 DEF Join, Work!Accept
    <2>3. CASE UNCHANGED answer
      BY <1>1, <2>2, <2>3
    <2>4. CASE /\ generation[w] = "refusing" /\ Work!SharesKey(c, w)
               /\ IF policy[c] = None THEN Return(c, "panic") ELSE Refused(c)
      <3>1. Meets(c, w) /\ RuntimeOf[c] = RuntimeOf[w]
        BY <1>0, <2>4, SharedKeysMeet
      <3>2. policy[c] = policy[w]
        BY <1>0, <3>1 DEF Meets, Governed
      <3>3. policy[c] # None
        BY <1>0, <2>4, <3>2 DEF Managed
      <3>4. answer' = [answer EXCEPT ![c] = "capacity"]
        BY <2>4, <3>3 DEF Refused, Return
      <3> QED
        BY <1>b, <1>c, <1>d, <2>2, <3>4
    <2> QED
      BY <2>1, <2>3, <2>4
  <1>7. ASSUME NEW c \in Calls, TakeReply(c) \/ Disconnect(c) PROVE Managed'
    <2>1. UNCHANGED <<generation, policy>>
      BY <1>7 DEF TakeReply, Disconnect, Work!Leave
    <2>2. TakeReply(c) => reply[c] \in Outcomes
      BY <1>0 DEF TakeReply, Typed
    <2>3. UNCHANGED answer \/ \E s \in Outcomes \cup {"dropped"} : answer' = [answer EXCEPT ![c] = s]
      BY <1>7, <2>2 DEF TakeReply, Disconnect, Return
    <2>4. \A s \in Outcomes \cup {"dropped"} : s # "panic"
      BY DEF Outcomes
    <2> QED
      BY <1>b, <1>c, <1>d, <2>1, <2>3, <2>4
  <1>8. ASSUME NEW w \in Calls, Publish(w) \/ Fail(w) PROVE Managed'
    <2>1. UNCHANGED <<policy, answer>>
      BY <1>8 DEF Publish, Fail, callVars
    <2>2. PICK r : AnswerOrEnd(w, r)
      BY <1>8 DEF Publish, Fail
    <2>3. \A v \in Calls : generation'[v] = "refusing" => generation[v] = "refusing"
      BY <1>a, <2>2, ResultAnswers DEF Work!Answer, Work!End
    <2> QED
      BY <1>b, <1>c, <2>1, <2>3
  <1>9. ASSUME NEW w \in Calls, RefuseWaiters(w) PROVE Managed'
    <2>1. UNCHANGED <<policy, answer>> /\ policy[w] # None /\ generation' = [generation EXCEPT ![w] = "refusing"]
      BY <1>9 DEF RefuseWaiters, Work!Refuse, callVars
    <2>2. \A v \in Calls : generation'[v] = "refusing" => policy'[v] # None
      BY <1>0, <1>a, <2>1 DEF Managed
    <2> QED
      BY <1>b, <2>1, <2>2
  <1>10. ASSUME NEW w \in Calls, SlotFreed(w) PROVE Managed'
    <2>1. UNCHANGED <<policy, answer>> /\ generation' = [generation EXCEPT ![w] = "open"]
      BY <1>10 DEF SlotFreed, Work!Reopen, callVars
    <2> QED
      BY <1>a, <1>b, <1>c, <2>1
  <1> QED
    BY <1>1, <1>2, <1>3, <1>4, <1>5, <1>6, <1>7, <1>8, <1>9, <1>10 DEF Next, CallStep

-----------------------------------------------------------------------------
(* Theorems.                                                               *)

\* Whatever is requested, generated, bound and deleted, calls know their
\* files and generations under way have no key in common.
THEOREM ServingInvariance == Spec => []ServingInv
  <1>1. Init => ServingInv
    BY ServingInit
  <1>2. ServingInv /\ [Next]_vars => ServingInv'
    BY ServingStep
  <1> QED
    BY <1>1, <1>2, PTL DEF Spec

\* A page that was answered with a publication finds its file unless somebody
\* deleted one: keys meet only where the file system sees one file
\* (StaticRuntime::render, handle_static_route).
THEOREM PublishedPagesAreFound == Spec => []PublishedIsFound
  <1>1. ServingInv => PublishedIsFound
    BY DEF ServingInv
  <1> QED
    BY <1>1, ServingInvariance, PTL

\* Two generations never write one entry at a time, but for the exceptions
\* that the property names (static_work_key, CaseRule).
THEOREM EntriesHaveOneWriter == Spec => []OneWriterPerEntry
  <1>1. ServingInv => OneWriterPerEntry
    BY DisjointWriters DEF ServingInv
  <1> QED
    BY <1>1, ServingInvariance, PTL

\* Where the root of every policy exists before calls are made, the policy a
\* call reads is the one its runtime is bound to.
THEOREM PolicyInvariance == RootsExist /\ Spec => []PolicyInv
  <1>1. RootsExist /\ Init => PolicyInv
    BY PolicyInit
  <1>2. ServingInv /\ PolicyInv /\ [Next]_vars => PolicyInv'
    BY BoundStep, GovernedStep, ManagedStep DEF PolicyInv
  <1> QED
    BY <1>1, <1>2, ServingInvariance, PTL DEF Spec

\* Then no call finds a work that waits for a slot without a policy to report
\* it by: the code's expect holds (StaticRuntime::render).
THEOREM RefusalsHaveAPolicy == RootsExist /\ Spec => []OnlyManagedWorkWaits
  <1>1. PolicyInv => OnlyManagedWorkWaits
    BY DEF PolicyInv, Managed
  <1> QED
    BY <1>1, PolicyInvariance, PTL

\* And configure_routes binds all its runtimes or none, for good.
THEOREM BindingIsWhole == RootsExist /\ Spec => []BindsAllOrNone
  <1>1. ASSUME ServingInv, PolicyInv PROVE BindsAllOrNone
    <2>1. Bound /\ (\A c \in Calls : Governed(c)) /\ (\A c \in Calls : Looked(c)) /\ Typed
      BY <1>1 DEF ServingInv, PolicyInv
    <2>2. \A b \in Binders : PolicyOf[b] # None /\ Range(RoutesOf[b]) \subseteq Runtimes
      BY CallsAssumption DEF Runtimes
    <2>3. ASSUME NEW b \in Binders, NEW rt \in Range(RoutesOf[b]), binder[b] = "refused", binding[rt].policy = PolicyOf[b]
          PROVE  \E o \in Binders \ {b} : binder[o] = "bound" /\ PolicyOf[o] = PolicyOf[b]
      <3>1. rt \in Runtimes /\ binding[rt].policy # None
        BY <2>2, <2>3
      <3>2. PICK o \in Binders : binder[o] = "bound" /\ PolicyOf[o] = binding[rt].policy
        BY <2>1, <3>1 DEF Bound
      <3> QED
        BY <2>3, <3>2
    <2>4. ASSUME NEW b \in Binders, NEW c \in Calls, binder[b] = "bound", RuntimeOf[c] \in Range(RoutesOf[b]),
                 pc[c] \in {"lookup", "joining", "waiting"}
          PROVE  policy[c] = PolicyOf[b]
      <3>1. binding[RuntimeOf[c]].policy = PolicyOf[b]
        BY <2>1, <2>4 DEF Bound
      <3>2. pc[c] = "lookup" \/ look[c] # None
        BY <2>1, <2>4 DEF Looked
      <3> QED
        BY <2>1, <3>1, <3>2 DEF Governed
    <2> QED
      BY <2>1, <2>3, <2>4 DEF BindsAllOrNone, Bound
  <1> QED
    BY <1>1, ServingInvariance, PolicyInvariance, PTL

=============================================================================
