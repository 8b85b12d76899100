------------------------- MODULE StorageAccountingProofs -------------------------
(***************************************************************************)
(* One policy governs a site, its caches are exact and its limits hold at  *)
(* every moment, for any number of processes, publications, crashes, any   *)
(* lengths and any limits.                                                 *)
(***************************************************************************)
EXTENDS StorageAccounting, FiniteSetTheorems, TLAPS

-----------------------------------------------------------------------------
(* The inductive invariant.                                                *)

\* Who holds the lock on the control file, and in which way.
Leases ==
    /\ \A p \in Publishers : exclusive = p <=>
          pc[p] \in {"admit"} \cup Publishing /\ ProcessOf[p] \in Bound
    /\ \A p \in Publishers : p \in shared <=> pc[p] \in Publishing /\ ProcessOf[p] \notin Bound
    /\ \A p \in Publishers : pc[p] = "admit" => ProcessOf[p] \in Bound
    /\ exclusive # None => shared = {}

\* The record is that of every Storage and of the holder of the exclusive lease;
\* publishers without a policy are at work only while there is no record.
Governed ==
    /\ \A h \in open : record = Limits[h]
    /\ exclusive # None => record = Limits[ProcessOf[exclusive]]
    /\ shared # {} => record = None
    /\ \A p \in Publishers : ProcessOf[p] \in Bound /\ pc[p] # "idle" => ProcessOf[p] \in open

\* Nobody is at work below, or creates anything below, another root's policy.
RootsApart ==
    /\ managed \in {{}, {Above}, Nested}
    /\ ~OpenRoot => DOMAIN disk = {} /\ shared = {}
    /\ open # {} => OpenRoot /\ NoDescendant
    /\ \A p \in shared : ~ActivePolicy(DirOf[job[p].route])
    /\ record # None => Control \in DOMAIN disk

\* There are finitely many entries.
Sized == IsFiniteSet(DOMAIN disk)

\* Temporary files bear the number of the publication that created them, and
\* no two publications have the same one.
Numbered ==
    /\ \A e \in DOMAIN disk : e[1] \in {"html_temp", "metadata_temp"} => e[2] \in 1..seq
    /\ \A p \in Publishers : pc[p] # "idle" => job[p].seq \in 1..seq
    /\ \A p, q \in Publishers :
          pc[p] # "idle" /\ pc[q] # "idle" /\ p # q => job[p].seq # job[q].seq

\* Which temporary files a publication has.
Temporaries ==
    \A p \in Publishers :
        /\ pc[p] \in {"coordinate", "admit", "parents", "html_temp"} => HtmlTemp(job[p]) \notin DOMAIN disk
        /\ pc[p] \in {"coordinate", "admit", "parents", "html_temp", "metadata_temp"}
              => MetadataTemp(job[p]) \notin DOMAIN disk
        /\ pc[p] \in {"metadata_temp", "support", "metadata", "html"} => HtmlTemp(job[p]) \in DOMAIN disk
        /\ pc[p] \in {"support", "metadata"} => MetadataTemp(job[p]) \in DOMAIN disk

\* An admitted publication of a bound process is at work on the disk.
AtWork(p) == exclusive = p /\ pc[p] \in Publishing

\* A cache is never ahead of the record and falls behind when a publication is
\* admitted; one that has not is exact.
Caches ==
    /\ record \in {None, Invalid} => \A h \in Processes : cached[h] = None
    /\ \A h \in Processes : cached[h] # None =>
          /\ cached[h].generation <= generation
          /\ \A p \in Publishers : AtWork(p) => cached[h].generation < generation
    /\ (\A p \in Publishers : ~AtWork(p)) =>
          \A h \in Processes : CacheHit(h) => cached[h].usage = Inventory(disk)

Plus(u, v) == [bytes |-> u.bytes + v.bytes, entries |-> u.entries + v.entries]

\* What a publication does not touch is what it counted besides its directories.
Elsewhere(dirs) == {e \in DOMAIN disk : e[3] \notin dirs}
Counted ==
    \A p \in Publishers :
        /\ pending[p] # None => AtWork(p)
        /\ AtWork(p) =>
              /\ pending[p] # None
              /\ pending[p].total = Plus(pending[p].before, Usage(disk, Elsewhere(pending[p].dirs)))
              /\ DirOf[job[p].route] \in pending[p].dirs
              /\ pc[p] = "parents" /\ MissingParents(job[p].route) # {} => Root \in pending[p].dirs

\* What a publication may still add to the disk before its renames.
Absent(e) == IF e \in DOMAIN disk THEN 0 ELSE 1
SupportLeft(r) == Absent(PublicationLock(r)) + Absent(MetadataDirectory(r))
Remaining(p) ==
    LET j == job[p] IN
    [bytes |-> CASE pc[p] \in {"parents", "html_temp"} -> j.html + j.metadata
                 [] pc[p] = "metadata_temp" -> j.metadata
                 [] OTHER -> 0,
     entries |-> CASE pc[p] = "parents" -> Cardinality(MissingParents(j.route))
                                             + Absent(Scratch(j.route)) + 2 + SupportLeft(j.route)
                   [] pc[p] = "html_temp" -> 2 + SupportLeft(j.route)
                   [] pc[p] = "metadata_temp" -> 1 + SupportLeft(j.route)
                   [] pc[p] = "support" -> SupportLeft(j.route)
                   [] OTHER -> 0]

\* An admitted publication has room for everything it has still to create.
Admitted == \A p \in Publishers : AtWork(p) => Within(Plus(Inventory(disk), Remaining(p)), record)

IInv == /\ TypeOK /\ Leases /\ Governed /\ RootsApart /\ Sized /\ Numbered /\ Temporaries
        /\ Caches /\ Counted /\ Admitted /\ WithinLimits


-----------------------------------------------------------------------------
(* Counting bytes and entries.                                             *)

\* The lengths of a finite set of files add up to a natural number.
LEMMA UsageFinite ==
  ASSUME NEW d, NEW es, IsFiniteSet(es)
  PROVE  IsFiniteSet(Units(d, es)) /\ Usage(d, es) \in UsageType
  <1>1. IsFiniteSet(1..MaxWord)
    BY FS_Interval, SizesAssumption
  <1>2. IsFiniteSet(es \X (1..MaxWord))
    BY <1>1, FS_Product
  <1>3. Units(d, es) \in SUBSET (es \X (1..MaxWord))
    BY DEF Units
  <1>4. IsFiniteSet(Units(d, es))
    BY <1>2, <1>3, FS_Subset
  <1>5. Cardinality(Units(d, es)) \in Nat /\ Cardinality(es) \in Nat
    BY <1>4, FS_CardinalityType
  <1> QED
    BY <1>4, <1>5 DEF Usage, UsageType

\* The usage depends only on the lengths of the files.
LEMMA UsageAgrees ==
  ASSUME NEW d, NEW c, NEW es, \A e \in es : d[e] = c[e]
  PROVE  Usage(d, es) = Usage(c, es)
  <1>1. Units(d, es) = Units(c, es)
    BY DEF Units
  <1> QED
    BY <1>1 DEF Usage

\* One file counts its length and one entry.
LEMMA UsageOfOne ==
  ASSUME NEW d, NEW e, d[e] \in 0..MaxWord
  PROVE  Usage(d, {e}) = [bytes |-> d[e], entries |-> 1]
  <1> DEFINE f == [i \in 1..d[e] |-> <<e, i>>]
  <1>0. MaxWord \in Nat /\ d[e] \in Nat
    BY SizesAssumption
  <1>1. Units(d, {e}) = {u \in {e} \X (1..MaxWord) : u[2] <= d[e]}
    BY DEF Units
  <1>2. \A i \in 1..d[e] : f[i] \in Units(d, {e})
    <2> TAKE i \in 1..d[e]
    <2>1. f[i] = <<e, i>> /\ i \in 1..MaxWord /\ i <= d[e]
      BY <1>0
    <2> QED
      BY <1>1, <2>1
  <1>3. \A i, k \in 1..d[e] : f[i] = f[k] => i = k
    OBVIOUS
  <1>4. \A u \in Units(d, {e}) : \E i \in 1..d[e] : f[i] = u
    <2> TAKE u \in Units(d, {e})
    <2>0. u \in {e} \X (1..MaxWord) /\ u[2] <= d[e]
      BY <1>1
    <2>1. u = <<e, u[2]>> /\ u[2] \in 1..d[e]
      BY <1>0, <2>0
    <2>2. f[u[2]] = <<e, u[2]>>
      BY <2>1
    <2> QED
      BY <2>1, <2>2
  <1>5. f \in Bijection(1..d[e], Units(d, {e}))
    BY <1>2, <1>3, <1>4 DEF Bijection, Injection, Surjection, IsInjective
  <1>6. ExistsBijection(1..d[e], Units(d, {e}))
    BY <1>5 DEF ExistsBijection
  <1>7. Cardinality(Units(d, {e})) = d[e]
    BY <1>0, <1>6, FS_CountingElements
  <1> QED
    BY <1>7, FS_Singleton DEF Usage

\* Usage adds up over disjoint sets of entries.
LEMMA UsageAdds ==
  ASSUME NEW d, NEW es, NEW fs, IsFiniteSet(es), IsFiniteSet(fs), es \cap fs = {}
  PROVE  Usage(d, es \cup fs) = Plus(Usage(d, es), Usage(d, fs))
  <1>1. Units(d, es \cup fs) = Units(d, es) \cup Units(d, fs)
    <2>1. \A u : u \in (es \cup fs) \X (1..MaxWord)
                   <=> u \in es \X (1..MaxWord) \/ u \in fs \X (1..MaxWord)
      OBVIOUS
    <2> QED
      BY <2>1 DEF Units
  <1>2. Units(d, es) \cap Units(d, fs) = {}
    <2>1. \A u : ~(u \in es \X (1..MaxWord) /\ u \in fs \X (1..MaxWord))
      OBVIOUS
    <2> QED
      BY <2>1 DEF Units
  <1>3. IsFiniteSet(Units(d, es)) /\ IsFiniteSet(Units(d, fs))
    BY UsageFinite
  <1>4. Cardinality({}) = 0
    BY FS_EmptySet
  <1>5. /\ Cardinality(Units(d, es)) \in Nat /\ Cardinality(Units(d, fs)) \in Nat
        /\ Cardinality(es) \in Nat /\ Cardinality(fs) \in Nat
    BY <1>3, FS_CardinalityType
  <1>6. Cardinality(Units(d, es \cup fs)) = Cardinality(Units(d, es)) + Cardinality(Units(d, fs))
    <2>1. Cardinality(Units(d, es) \cup Units(d, fs)) = Cardinality(Units(d, es))
            + Cardinality(Units(d, fs)) - Cardinality(Units(d, es) \cap Units(d, fs))
      BY <1>3, FS_Union, Zenon
    <2>2. Cardinality(Units(d, es) \cap Units(d, fs)) = 0
      BY <1>2, <1>4, Zenon
    <2>3. Cardinality(Units(d, es \cup fs)) = Cardinality(Units(d, es) \cup Units(d, fs))
      BY <1>1, Zenon
    <2> QED
      BY <1>5, <2>1, <2>2, <2>3
  <1>7. Cardinality(es \cup fs) = Cardinality(es) + Cardinality(fs)
    <2>1. Cardinality(es \cup fs) = Cardinality(es) + Cardinality(fs) - Cardinality(es \cap fs)
      BY FS_Union, Zenon
    <2>2. Cardinality(es \cap fs) = 0
      BY <1>4, Zenon
    <2> QED
      BY <1>5, <2>1, <2>2
  <1> QED
    BY <1>6, <1>7 DEF Usage, Plus

\* Empty files add entries only.
LEMMA UsageOfEmpty ==
  ASSUME NEW d, NEW es, IsFiniteSet(es), \A e \in es : d[e] = 0
  PROVE  Usage(d, es) = [bytes |-> 0, entries |-> Cardinality(es)]
  <1>1. Units(d, es) = {}
    BY SizesAssumption DEF Units
  <1> QED
    BY <1>1, FS_EmptySet DEF Usage

\* More entries never use less.
LEMMA UsageGrows ==
  ASSUME NEW d, NEW fs, IsFiniteSet(fs), NEW es \in SUBSET fs
  PROVE  /\ Usage(d, es).bytes <= Usage(d, fs).bytes
         /\ Usage(d, es).entries <= Usage(d, fs).entries
  <1>1. IsFiniteSet(es) /\ IsFiniteSet(fs \ es)
    BY FS_Subset
  <1>2. fs = es \cup (fs \ es)
    OBVIOUS
  <1>3. Usage(d, fs) = Plus(Usage(d, es), Usage(d, fs \ es))
    BY <1>1, <1>2, UsageAdds
  <1>4. Usage(d, es) \in UsageType /\ Usage(d, fs \ es) \in UsageType
    BY <1>1, UsageFinite
  <1> QED
    BY <1>3, <1>4 DEF Plus, UsageType

\* Entries that differ from none of the disk's leave the inventory as it is.
LEMMA SameInventory ==
  ASSUME NEW d, NEW c, DOMAIN d = DOMAIN c, \A e \in DOMAIN d : d[e] = c[e]
  PROVE  Inventory(d) = Inventory(c)
  BY UsageAgrees DEF Inventory

\* New entries add to the inventory what they are.
LEMMA InventoryOfNew ==
  ASSUME NEW d, NEW es, NEW n, IsFiniteSet(DOMAIN d), IsFiniteSet(es), es \cap DOMAIN d = {}
  PROVE  Inventory(Put(d, es, n)) = Plus(Inventory(d), Usage(Put(d, es, n), es))
  <1> DEFINE c == Put(d, es, n)
  <1>1. DOMAIN c = DOMAIN d \cup es /\ \A e \in DOMAIN d : c[e] = d[e]
    BY DEF Put
  <1>2. Usage(c, DOMAIN d \cup es) = Plus(Usage(c, DOMAIN d), Usage(c, es))
    BY UsageAdds
  <1>3. Usage(c, DOMAIN d) = Usage(d, DOMAIN d)
    BY <1>1, UsageAgrees
  <1> QED
    BY <1>1, <1>2, <1>3 DEF Inventory

\* The inventory is what some directories hold and what lies elsewhere.
LEMMA InventorySplits ==
  ASSUME NEW dirs, IsFiniteSet(DOMAIN disk)
  PROVE  Inventory(disk) = Plus(LocalUsage(disk, dirs), Usage(disk, Elsewhere(dirs)))
  <1> DEFINE here == {e \in DOMAIN disk : e[3] \in dirs}
  <1>1. IsFiniteSet(here) /\ IsFiniteSet(Elsewhere(dirs))
    BY FS_Subset DEF Elsewhere
  <1>2. here \cap Elsewhere(dirs) = {} /\ DOMAIN disk = here \cup Elsewhere(dirs)
    BY DEF Elsewhere
  <1>3. Usage(disk, here \cup Elsewhere(dirs)) = Plus(Usage(disk, here), Usage(disk, Elsewhere(dirs)))
    BY <1>1, <1>2, UsageAdds
  <1> QED
    BY <1>2, <1>3 DEF Inventory, LocalUsage

\* The inventory of a finite disk is a usage.
LEMMA InventoryTyped ==
  ASSUME NEW d, IsFiniteSet(DOMAIN d)
  PROVE  Inventory(d) \in UsageType
  BY UsageFinite DEF Inventory

-----------------------------------------------------------------------------
(* What the invariant says of leases and records.                          *)

\* A record with limits is neither absent nor refused.
LEMMA LimitsAreLimits ==
  ASSUME NEW h \in Bound
  PROVE  Limits[h] \in UsageType /\ Limits[h] # None /\ Limits[h] # Invalid
  BY ProcessesAssumption, NoneAssumption, Zenon

\* The holder of the exclusive lease is a publication of a bound process, and
\* the record holds its limits.
LEMMA HolderIsBound ==
  ASSUME IInv, exclusive # None
  PROVE  /\ exclusive \in Publishers
         /\ ProcessOf[exclusive] \in Bound
         /\ record = Limits[ProcessOf[exclusive]]
         /\ record \in UsageType /\ record # None /\ record # Invalid
         /\ shared = {}
         /\ OpenRoot /\ NoDescendant
  <1>1. TypeOK /\ Leases /\ Governed /\ RootsApart
    BY DEF IInv
  <1>2. exclusive \in Publishers
    BY <1>1 DEF TypeOK
  <1>3. ProcessOf[exclusive] \in Bound /\ shared = {} /\ pc[exclusive] # "idle"
    BY <1>1, <1>2 DEF Leases, Publishing
  <1>4. record = Limits[ProcessOf[exclusive]] /\ ProcessOf[exclusive] \in open
    BY <1>1, <1>2, <1>3 DEF Governed
  <1>5. OpenRoot /\ NoDescendant
    BY <1>1, <1>4 DEF RootsApart
  <1> QED
    BY <1>2, <1>3, <1>4, <1>5, LimitsAreLimits

\* Without a record nobody holds a Storage, a cache or the exclusive lease.
LEMMA Unrecorded ==
  ASSUME IInv, record \in {None, Invalid}
  PROVE  open = {} /\ exclusive = None /\ \A h \in Processes : cached[h] = None
  <1>1. TypeOK /\ Governed /\ Caches
    BY DEF IInv
  <1>2. exclusive = None
    BY HolderIsBound
  <1>3. open = {}
    BY <1>1, LimitsAreLimits DEF Governed, TypeOK
  <1>4. \A h \in Processes : cached[h] = None
    BY <1>1 DEF Caches
  <1> QED
    BY <1>2, <1>3, <1>4

\* A publication at work holds the exclusive lease, or the shared one on a
\* site without a record.
LEMMA WorkIsLeased ==
  ASSUME IInv, NEW p \in Publishers, pc[p] \in Publishing
  PROVE  \/ AtWork(p) /\ ProcessOf[p] \in Bound
         \/ p \in shared /\ ProcessOf[p] \notin Bound /\ record = None /\ exclusive = None
  <1>1. TypeOK /\ Leases /\ Governed
    BY DEF IInv
  <1>2. CASE ProcessOf[p] \in Bound
    BY <1>1, <1>2 DEF Leases, AtWork
  <1>3. CASE ProcessOf[p] \notin Bound
    BY <1>1, <1>3 DEF Leases, Governed
  <1> QED
    BY <1>2, <1>3

-----------------------------------------------------------------------------
(* Leases, records and roots.                                              *)

Control3 == Leases /\ Governed /\ RootsApart

\* Installing a policy keeps leases, records and roots in order.
LEMMA ControlOpen ==
  ASSUME IInv, NEW h \in Processes, Open(h)
  PROVE  Control3'
  <1>1. TypeOK /\ Leases /\ Governed /\ RootsApart
    BY DEF IInv
  <1>2. /\ UNCHANGED <<managed, exclusive, shared, pc, job, pending, seq, crashes>>
        /\ h \in Bound /\ h \notin open /\ OpenRoot
    BY DEF Open
  <1>3. Leases'
    BY <1>1, <1>2 DEF Leases
  <1>4. Control \in DOMAIN disk'
    BY DEF Open, Put, WriteRecord
  <1>5. \/ InstallFree /\ Agrees(h) /\ NoDescendant
        \/ UNCHANGED <<record, open>>
    BY DEF Open
  <1>6. CASE UNCHANGED <<record, open>>
    <2>1. Governed'
      BY <1>1, <1>2, <1>6 DEF Governed
    <2>2. RootsApart'
      BY <1>1, <1>2, <1>4, <1>6 DEF RootsApart, OpenRoot, NoDescendant, ActivePolicy
    <2> QED
      BY <1>3, <2>1, <2>2 DEF Control3
  <1>7. CASE InstallFree /\ Agrees(h) /\ NoDescendant /\ ~UNCHANGED <<record, open>>
    <2>1. CASE record = None
      <3>1. open = {} /\ exclusive = None /\ shared = {}
        BY <1>7, <2>1, Unrecorded DEF InstallFree
      <3>2. open' \subseteq {h} /\ (h \in open' => record' = Limits[h])
        BY <1>7, <2>1, <3>1 DEF Open, WriteRecord
      <3>3. Governed'
        BY <1>1, <1>2, <3>1, <3>2 DEF Governed
      <3>4. RootsApart'
        BY <1>1, <1>2, <1>4, <1>7, <3>1 DEF RootsApart, OpenRoot, NoDescendant, ActivePolicy
      <3> QED
        BY <1>3, <3>3, <3>4 DEF Control3
    <2>2. CASE record # None
      <3>1. record' = record /\ record = Limits[h] /\ open' = open \cup {h}
        BY <1>7, <2>2 DEF Open, Agrees
      <3>2. Governed'
        BY <1>1, <1>2, <3>1 DEF Governed
      <3>3. RootsApart'
        BY <1>1, <1>2, <1>4, <1>7 DEF RootsApart, OpenRoot, NoDescendant, ActivePolicy, InstallFree
      <3> QED
        BY <1>3, <3>2, <3>3 DEF Control3
    <2> QED
      BY <2>1, <2>2
  <1> QED
    BY <1>5, <1>6, <1>7

\* Beginning a publication keeps leases, records and roots in order.
LEMMA ControlBegin ==
  ASSUME IInv, NEW p \in Publishers, Begin(p)
  PROVE  Control3'
  <1>1. TypeOK /\ Leases /\ Governed /\ RootsApart
    BY DEF IInv
  <1>2. /\ UNCHANGED <<disk, managed, record, exclusive, shared, open>>
        /\ pc' = [pc EXCEPT ![p] = "coordinate"] /\ pc[p] = "idle"
        /\ ProcessOf[p] \in Bound => ProcessOf[p] \in open
        /\ \A q \in Publishers \ {p} : job'[q] = job[q]
    BY <1>1 DEF Begin, TypeOK
  <1>3. /\ pc'[p] = "coordinate" /\ \A q \in Publishers \ {p} : pc'[q] = pc[q]
    BY <1>1, <1>2 DEF TypeOK
  <1>4. Leases'
    BY <1>1, <1>2, <1>3 DEF Leases, Publishing
  <1>5. Governed'
    BY <1>1, <1>2, <1>3 DEF Governed
  <1>6. p \notin shared
    BY <1>1, <1>2 DEF Leases, Publishing
  <1>7. RootsApart'
    <2>1. \A q \in shared : q \in Publishers \ {p}
      BY <1>1, <1>6 DEF TypeOK
    <2> QED
      BY <1>1, <1>2, <2>1 DEF RootsApart, OpenRoot, NoDescendant, ActivePolicy
  <1> QED
    BY <1>4, <1>5, <1>7 DEF Control3

\* Taking the exclusive lease keeps leases, records and roots in order.
LEMMA ControlBound ==
  ASSUME IInv, NEW p \in Publishers, CoordinateBound(p)
  PROVE  Control3'
  <1>1. TypeOK /\ Leases /\ Governed /\ RootsApart
    BY DEF IInv
  <1>2. /\ UNCHANGED <<disk, managed, record, shared, open, job>>
        /\ pc' = [pc EXCEPT ![p] = "admit"] /\ pc[p] = "coordinate"
        /\ ProcessOf[p] \in Bound /\ exclusive = None /\ shared = {}
        /\ record = Limits[ProcessOf[p]] /\ exclusive' = p
    BY DEF CoordinateBound
  <1>3. /\ pc'[p] = "admit" /\ \A q \in Publishers \ {p} : pc'[q] = pc[q]
    BY <1>1, <1>2 DEF TypeOK
  <1>4. p # None
    BY NoneAssumption
  <1>5. \A q \in Publishers : exclusive # q
    BY <1>2, NoneAssumption
  <1>6. Leases'
    BY <1>1, <1>2, <1>3, <1>5 DEF Leases, Publishing
  <1>7. Governed'
    BY <1>1, <1>2, <1>3 DEF Governed
  <1>8. RootsApart'
    BY <1>1, <1>2 DEF RootsApart, OpenRoot, NoDescendant, ActivePolicy
  <1> QED
    BY <1>6, <1>7, <1>8 DEF Control3

\* The end of a lease, whatever happens to the files.
LEMMA ControlUnlock ==
  ASSUME IInv, NEW p \in Publishers, Unlock(p), UNCHANGED <<managed, record, open>>,
         ~OpenRoot => DOMAIN disk' = {},
         record # None => Control \in DOMAIN disk'
  PROVE  Control3'
  <1>1. TypeOK /\ Leases /\ Governed /\ RootsApart
    BY DEF IInv
  <1>2. /\ pc'[p] = "idle" /\ \A q \in Publishers \ {p} : pc'[q] = pc[q] /\ job'[q] = job[q]
        /\ exclusive' = (IF exclusive = p THEN None ELSE exclusive)
        /\ shared' = shared \ {p}
    BY <1>1 DEF Unlock, TypeOK
  <1>3. \A q \in Publishers : q # None
    BY NoneAssumption
  <1>4. Leases'
    BY <1>1, <1>2, <1>3 DEF Leases, Publishing
  <1>5. Governed'
    BY <1>1, <1>2 DEF Governed
  <1>6. RootsApart'
    <2>1. \A q \in shared' : q \in shared /\ q \in Publishers \ {p}
      BY <1>1, <1>2 DEF TypeOK
    <2> QED
      BY <1>1, <1>2, <2>1 DEF RootsApart, OpenRoot, NoDescendant, ActivePolicy
  <1> QED
    BY <1>4, <1>5, <1>6 DEF Control3

\* Taking the shared lease, or being refused it keeps leases, records and roots in order.
LEMMA ControlUnlimited ==
  ASSUME IInv, NEW p \in Publishers, CoordinateUnlimited(p)
  PROVE  Control3'
  <1>1. TypeOK /\ Leases /\ Governed /\ RootsApart
    BY DEF IInv
  <1>2. /\ UNCHANGED <<managed, record, open>>
        /\ pc[p] = "coordinate" /\ ProcessOf[p] \notin Bound /\ exclusive = None
    BY DEF CoordinateUnlimited
  <1>3. /\ ~OpenRoot => DOMAIN disk' = {}
        /\ record # None => Control \in DOMAIN disk'
    BY <1>1 DEF CoordinateUnlimited, RootsApart, Put
  <1>4. CASE Unlock(p)
    BY <1>2, <1>3, <1>4, ControlUnlock
  <1>5. CASE ~Unlock(p)
    <2>1. /\ OpenRoot /\ record = None /\ ~ActivePolicy(DirOf[job[p].route])
          /\ shared' = shared \cup {p} /\ pc' = [pc EXCEPT ![p] = "parents"]
          /\ UNCHANGED <<exclusive, job>>
      BY <1>5 DEF CoordinateUnlimited
    <2>2. /\ pc'[p] = "parents" /\ \A q \in Publishers \ {p} : pc'[q] = pc[q]
      BY <1>1, <2>1 DEF TypeOK
    <2>3. Leases'
      BY <1>1, <1>2, <2>1, <2>2 DEF Leases, Publishing
    <2>4. Governed'
      BY <1>1, <1>2, <2>1, <2>2 DEF Governed
    <2>5. RootsApart'
      BY <1>1, <1>2, <1>3, <2>1 DEF RootsApart, OpenRoot, NoDescendant, ActivePolicy
    <2> QED
      BY <2>3, <2>4, <2>5 DEF Control3
  <1> QED
    BY <1>4, <1>5

\* A step of a publication that holds its lease, whatever it creates.
LEMMA ControlAdvance ==
  ASSUME IInv, NEW p \in Publishers, NEW to \in Publishing,
         pc[p] \in Publishing \/ pc[p] = "admit",
         pc' = [pc EXCEPT ![p] = to],
         UNCHANGED <<managed, record, exclusive, shared, open, job>>,
         record # None => Control \in DOMAIN disk'
  PROVE  Control3'
  <1>1. TypeOK /\ Leases /\ Governed /\ RootsApart
    BY DEF IInv
  <1>2. /\ pc'[p] \in Publishing /\ \A q \in Publishers \ {p} : pc'[q] = pc[q]
    BY <1>1 DEF TypeOK
  <1>3. "admit" \notin Publishing /\ "idle" \notin Publishing
    BY DEF Publishing
  <1>4. Leases'
    BY <1>1, <1>2, <1>3 DEF Leases
  <1>5. Governed'
    BY <1>1, <1>2, <1>3 DEF Governed
  <1>6. OpenRoot
    <2>1. exclusive = p \/ p \in shared
      BY <1>1 DEF Leases
    <2> QED
      BY <1>1, <2>1, HolderIsBound, NoneAssumption DEF RootsApart
  <1>7. RootsApart'
    BY <1>1, <1>6 DEF RootsApart, OpenRoot, NoDescendant, ActivePolicy
  <1> QED
    BY <1>4, <1>5, <1>7 DEF Control3

\* An admission or its refusal keeps leases, records and roots in order.
LEMMA ControlAdmit ==
  ASSUME IInv, NEW p \in Publishers, Admit(p)
  PROVE  Control3'
  <1>1. TypeOK /\ RootsApart
    BY DEF IInv
  <1>2. UNCHANGED <<disk, managed, record, open>> /\ pc[p] = "admit"
    BY DEF Admit
  <1>3. \/ Unlock(p)
        \/ pc' = [pc EXCEPT ![p] = "parents"] /\ UNCHANGED <<exclusive, shared, job>>
    BY DEF Admit
  <1>4. CASE Unlock(p)
    BY <1>1, <1>2, <1>4, ControlUnlock DEF RootsApart
  <1>5. CASE pc' = [pc EXCEPT ![p] = "parents"] /\ UNCHANGED <<exclusive, shared, job>>
    <2>1. "parents" \in Publishing
      BY DEF Publishing
    <2> QED
      BY <1>1, <1>2, <1>5, <2>1, ControlAdvance DEF RootsApart
  <1> QED
    BY <1>3, <1>4, <1>5

\* Creating files keeps leases, records and roots in order.
LEMMA ControlCreate ==
  ASSUME IInv, NEW p \in Publishers, NEW from \in Publishing, NEW to \in Publishing,
         NEW es, NEW n, Create(p, from, to, es, n)
  PROVE  Control3'
  <1>1. TypeOK /\ RootsApart
    BY DEF IInv
  <1>2. /\ UNCHANGED <<managed, record, exclusive, shared, open, job>> /\ pc[p] = from
        /\ pc' = [pc EXCEPT ![p] = to]
    BY DEF Create
  <1>3. record # None => Control \in DOMAIN disk'
    BY <1>1 DEF Create, Put, RootsApart
  <1> QED
    BY <1>2, <1>3, ControlAdvance

\* Publishing a file keeps leases, records and roots in order.
LEMMA ControlRename ==
  ASSUME IInv, NEW p \in Publishers, NEW from \in Publishing, NEW to \in Publishing,
         NEW temp, NEW name, temp # Control, Rename(p, from, to, temp, name)
  PROVE  Control3'
  <1>1. TypeOK /\ RootsApart
    BY DEF IInv
  <1>2. /\ UNCHANGED <<managed, record, exclusive, shared, open, job>> /\ pc[p] = from
        /\ pc' = [pc EXCEPT ![p] = to]
    BY DEF Rename
  <1>3. record # None => Control \in DOMAIN disk'
    BY <1>1 DEF Rename, Put, Without, RootsApart
  <1> QED
    BY <1>2, <1>3, ControlAdvance

\* A commit keeps leases, records and roots in order.
LEMMA ControlCommit ==
  ASSUME IInv, NEW p \in Publishers, Commit(p)
  PROVE  Control3'
  <1>1. RootsApart
    BY DEF IInv
  <1>2. UNCHANGED <<disk, managed, record, open>> /\ Unlock(p)
    BY DEF Commit
  <1> QED
    BY <1>1, <1>2, ControlUnlock DEF RootsApart

\* A failure keeps leases, records and roots in order.
LEMMA ControlFail ==
  ASSUME IInv, NEW p \in Publishers, Fail(p)
  PROVE  Control3'
  <1>1. RootsApart
    BY DEF IInv
  <1>2. UNCHANGED <<managed, record, open>> /\ Unlock(p)
    BY DEF Fail
  <1>3. PICK es \in SUBSET (Temps(p) \cap DOMAIN disk) : disk' = Without(disk, es)
    BY DEF Fail
  <1>4. Control \notin es
    BY <1>3 DEF Temps, HtmlTemp, MetadataTemp, Control
  <1>5. /\ ~OpenRoot => DOMAIN disk' = {}
        /\ record # None => Control \in DOMAIN disk'
    BY <1>1, <1>3, <1>4 DEF RootsApart, Without
  <1> QED
    BY <1>2, <1>5, ControlUnlock

\* A crash keeps leases, records and roots in order.
LEMMA ControlCrash ==
  ASSUME IInv, NEW h \in Processes, Crash(h)
  PROVE  Control3'
  <1> DEFINE mine == {p \in Publishers : ProcessOf[p] = h}
  <1>1. TypeOK /\ Leases /\ Governed /\ RootsApart
    BY DEF IInv
  <1>2. /\ UNCHANGED <<disk, managed, record>> /\ open' = open \ {h}
        /\ exclusive' = (IF exclusive \in mine THEN None ELSE exclusive)
        /\ shared' = shared \ mine
    BY DEF Crash
  <1>3. /\ \A p \in mine : pc'[p] = "idle"
        /\ \A p \in Publishers \ mine : pc'[p] = pc[p] /\ job'[p] = job[p]
    BY DEF Crash
  <1>4. \A q \in Publishers : q # None
    BY NoneAssumption
  <1>5. Leases'
    BY <1>1, <1>2, <1>3, <1>4 DEF Leases, Publishing
  <1>6. Governed'
    BY <1>1, <1>2, <1>3 DEF Governed
  <1>7. RootsApart'
    <2>1. \A q \in shared' : q \in shared /\ q \in Publishers \ mine
      BY <1>1, <1>2 DEF TypeOK
    <2> QED
      BY <1>1, <1>2, <1>3, <2>1 DEF RootsApart, OpenRoot, NoDescendant, ActivePolicy
  <1> QED
    BY <1>5, <1>6, <1>7 DEF Control3

-----------------------------------------------------------------------------
(* Entries of the disk.                                                    *)

Entries == Kinds \X Names \X Names
DiskTyped(d) == /\ DOMAIN d \subseteq Entries /\ \A e \in DOMAIN d : d[e] \in 0..MaxWord
                /\ IsFiniteSet(DOMAIN d)

\* Adding entries keeps a disk well formed.
LEMMA PutTyped ==
  ASSUME NEW d, NEW es, NEW n, DiskTyped(d), es \subseteq Entries, IsFiniteSet(es), n \in 0..MaxWord
  PROVE  DiskTyped(Put(d, es, n))
  <1>1. IsFiniteSet(DOMAIN d \cup es)
    BY FS_Union DEF DiskTyped
  <1> QED
    BY <1>1 DEF DiskTyped, Put

\* Removing entries keeps a disk well formed.
LEMMA WithoutTyped ==
  ASSUME NEW d, NEW es, DiskTyped(d)
  PROVE  DiskTyped(Without(d, es))
  <1>1. IsFiniteSet(DOMAIN d \ es)
    BY FS_Difference DEF DiskTyped
  <1> QED
    BY <1>1 DEF DiskTyped, Without

\* The entries that publications create.
LEMMA EntriesTyped ==
  ASSUME NEW r \in Routes
  PROVE  {Control, Scratch(r), PublicationLock(r), MetadataDirectory(r), Html(r), Metadata(r),
          Directory(r)} \subseteq Entries
  <1>1. r \in Names /\ Root \in Names /\ DirOf[r] \in Names
    BY DEF Names
  <1> QED
    BY <1>1 DEF Entries, Kinds, Control, Scratch, PublicationLock, MetadataDirectory, Html, Metadata,
         Directory

\* The temporary files of a publication are entries.
LEMMA TempsTyped ==
  ASSUME IInv, NEW p \in Publishers, pc[p] # "idle"
  PROVE  Temps(p) \subseteq Entries
  <1>1. TypeOK /\ Numbered
    BY DEF IInv
  <1>2. job[p].seq \in 1..seq /\ seq \in 0..MaxPublications /\ job[p].route \in Routes
    BY <1>1 DEF TypeOK, Numbered
  <1>3. job[p].seq \in Names /\ DirOf[job[p].route] \in Names
    BY <1>2, SizesAssumption DEF Names
  <1> QED
    BY <1>3 DEF Entries, Kinds, Temps, HtmlTemp, MetadataTemp

\* At most one parent directory is missing, and it is not on the disk.
LEMMA ParentsTyped ==
  ASSUME NEW r \in Routes
  PROVE  /\ MissingParents(r) \subseteq {Directory(r)}
         /\ IsFiniteSet(MissingParents(r))
         /\ MissingParents(r) \cap DOMAIN disk = {}
  <1>1. MissingParents(r) \subseteq {Directory(r)} /\ MissingParents(r) \cap DOMAIN disk = {}
    BY DEF MissingParents
  <1>2. IsFiniteSet({Directory(r)})
    BY FS_Singleton
  <1> QED
    BY <1>1, <1>2, FS_Subset

\* Each step of a publication keeps the disk well formed.
LEMMA DiskOpen ==
  ASSUME IInv, NEW h \in Processes, Open(h)
  PROVE  DiskTyped(disk)' /\ DOMAIN disk' = DOMAIN disk \cup {Control}
  <1> DEFINE entries == Put(disk, {Control} \ DOMAIN disk, 0)
  <1>1. DiskTyped(disk)
    BY DEF IInv, TypeOK, Sized, DiskTyped, Entries
  <1>2. Control \in Entries
    BY EntriesTyped, NamesAssumption
  <1>3. IsFiniteSet({Control}) /\ IsFiniteSet({Control} \ DOMAIN disk)
    BY FS_Singleton, FS_Difference
  <1>4. 0 \in 0..MaxWord /\ RecordLen \in 0..MaxWord /\ RecordLen - 1 \in 0..MaxWord
    BY SizesAssumption
  <1>5. DiskTyped(entries)
    BY <1>1, <1>2, <1>3, <1>4, PutTyped
  <1>6. DiskTyped(Put(entries, {Control}, RecordLen)) /\ DiskTyped(Put(entries, {Control}, RecordLen - 1))
    BY <1>2, <1>3, <1>4, <1>5, PutTyped
  <1>7. \/ disk' = entries
        \/ disk' = Put(entries, {Control}, RecordLen)
        \/ disk' = Put(entries, {Control}, RecordLen - 1)
    BY DEF Open, WriteRecord
  <1>8. DiskTyped(disk')
    BY <1>5, <1>6, <1>7
  <1>9. DOMAIN disk' = DOMAIN disk \cup {Control}
    BY <1>7 DEF Put
  <1> QED
    BY <1>8, <1>9 DEF DiskTyped

\* Taking the shared lease, or being refused it keeps the disk well formed.
LEMMA DiskUnlimited ==
  ASSUME IInv, NEW p \in Publishers, CoordinateUnlimited(p)
  PROVE  DiskTyped(disk)' /\ DOMAIN disk \subseteq DOMAIN disk' /\ DOMAIN disk' \subseteq DOMAIN disk \cup {Control}
  <1>1. DiskTyped(disk)
    BY DEF IInv, TypeOK, Sized, DiskTyped, Entries
  <1>2. Control \in Entries
    BY EntriesTyped, NamesAssumption
  <1>3. IsFiniteSet({Control} \ DOMAIN disk)
    BY FS_Singleton, FS_Difference
  <1>4. 0 \in 0..MaxWord
    BY SizesAssumption
  <1>5. DiskTyped(Put(disk, {Control} \ DOMAIN disk, 0))
    BY <1>1, <1>2, <1>3, <1>4, PutTyped
  <1>6. disk' = disk \/ disk' = Put(disk, {Control} \ DOMAIN disk, 0)
    BY DEF CoordinateUnlimited
  <1>7. DiskTyped(disk')
    BY <1>1, <1>5, <1>6
  <1> QED
    BY <1>6, <1>7 DEF DiskTyped, Put

\* Creating files keeps the disk well formed.
LEMMA DiskCreate ==
  ASSUME IInv, NEW p \in Publishers, NEW from, NEW to, NEW es, NEW n,
         es \subseteq Entries, IsFiniteSet(es), n \in 0..MaxWord, Create(p, from, to, es, n)
  PROVE  DiskTyped(disk)' /\ DOMAIN disk' = DOMAIN disk \cup es
  <1>1. DiskTyped(disk)
    BY DEF IInv, TypeOK, Sized, DiskTyped, Entries
  <1>2. disk' = Put(disk, es, n)
    BY DEF Create
  <1>3. DiskTyped(disk')
    BY <1>1, <1>2, PutTyped
  <1> QED
    BY <1>2, <1>3 DEF DiskTyped, Put

\* Publishing a file keeps the disk well formed.
LEMMA DiskRename ==
  ASSUME IInv, NEW p \in Publishers, NEW from, NEW to, NEW temp, NEW name,
         name \in Entries, temp \in DOMAIN disk, Rename(p, from, to, temp, name)
  PROVE  DiskTyped(disk)' /\ DOMAIN disk' = (DOMAIN disk \ {temp}) \cup {name}
  <1>1. DiskTyped(disk)
    BY DEF IInv, TypeOK, Sized, DiskTyped, Entries
  <1>2. disk' = Put(Without(disk, {temp}), {name}, disk[temp])
    BY DEF Rename
  <1>3. IsFiniteSet({name}) /\ disk[temp] \in 0..MaxWord
    BY <1>1, FS_Singleton DEF DiskTyped
  <1>4. DiskTyped(disk')
    BY <1>1, <1>2, <1>3, PutTyped, WithoutTyped
  <1> QED
    BY <1>2, <1>4 DEF DiskTyped, Put, Without

\* A failure keeps the disk well formed.
LEMMA DiskFail ==
  ASSUME IInv, NEW p \in Publishers, Fail(p)
  PROVE  /\ DiskTyped(disk)' /\ DOMAIN disk' \subseteq DOMAIN disk
         /\ DOMAIN disk \ Temps(p) \subseteq DOMAIN disk'
         /\ \A e \in DOMAIN disk' : disk'[e] = disk[e]
  <1>1. DiskTyped(disk)
    BY DEF IInv, TypeOK, Sized, DiskTyped, Entries
  <1>2. PICK es \in SUBSET (Temps(p) \cap DOMAIN disk) : disk' = Without(disk, es)
    BY DEF Fail
  <1>3. DiskTyped(disk')
    BY <1>1, <1>2, WithoutTyped
  <1> QED
    BY <1>2, <1>3 DEF DiskTyped, Without

-----------------------------------------------------------------------------
(* The other types.                                                        *)

JobType == [route : Routes, html : 0..MaxWord, metadata : 0..MaxWord, seq : 0..MaxPublications]
Recorded == {Limits[h] : h \in Bound} \cup {None, Invalid}
Points == {"idle", "coordinate", "admit"} \cup Publishing
RestTyped ==
    /\ managed \subseteq Nested \cup {Above} /\ record \in Recorded /\ generation \in 0..MaxWord
    /\ exclusive \in Publishers \cup {None} /\ shared \in SUBSET Publishers
    /\ cached \in [Processes -> CacheType \cup {None}] /\ open \in SUBSET Bound
    /\ pc \in [Publishers -> Points]
    /\ job \in [Publishers -> JobType] /\ pending \in [Publishers -> PendingType \cup {None}]
    /\ seq \in 0..MaxPublications /\ crashes \in 0..MaxCrashes

\* The types of the disk and of the rest.
LEMMA TypeSplits == TypeOK /\ Sized <=> DiskTyped(disk) /\ RestTyped
  BY DEF TypeOK, Sized, DiskTyped, Entries, RestTyped, JobType, Recorded, Points

\* The same in the next state.
LEMMA TypeSplitsNext == TypeOK' /\ Sized' <=> DiskTyped(disk)' /\ RestTyped'
  BY DEF TypeOK, Sized, DiskTyped, Entries, RestTyped, JobType, Recorded, Points, UsageType,
     CacheType, PendingType, Publishing, Nested, Kinds, Names

\* The job of an idle publication is one.
LEMMA NoJobTyped == NoJob \in JobType
  <1>1. PICK s : s = (CHOOSE r \in Routes : TRUE)
    OBVIOUS
  <1>2. s \in Routes
    BY <1>1, NamesAssumption
  <1>3. NoJob = [route |-> s, html |-> 0, metadata |-> 0, seq |-> 0]
    BY <1>1 DEF NoJob
  <1> QED
    BY <1>2, <1>3, SizesAssumption DEF JobType

\* A publication touches directories of the site.
LEMMA TouchedTyped ==
  ASSUME NEW r \in Routes
  PROVE  Touched(r) \in SUBSET ({Root} \cup {DirOf[s] : s \in Routes})
  BY DEF Touched

\* What some directories hold is a usage.
LEMMA LocalTyped ==
  ASSUME NEW dirs, IsFiniteSet(DOMAIN disk)
  PROVE  LocalUsage(disk, dirs) \in UsageType
  <1>1. IsFiniteSet({e \in DOMAIN disk : e[3] \in dirs})
    BY FS_Subset
  <1> QED
    BY <1>1, UsageFinite DEF LocalUsage

\* The end of a lease keeps the types.
LEMMA UnlockTyped ==
  ASSUME RestTyped, NEW p \in Publishers, Unlock(p)
  PROVE  /\ exclusive' \in Publishers \cup {None} /\ shared' \in SUBSET Publishers
         /\ pc' \in [Publishers -> Points]
         /\ job' \in [Publishers -> JobType] /\ pending' \in [Publishers -> PendingType \cup {None}]
  <1>1. exclusive' \in Publishers \cup {None} /\ shared' \in SUBSET Publishers
    BY DEF Unlock, RestTyped
  <1>2. "idle" \in Points
    BY DEF Points
  <1>3. pc' \in [Publishers -> Points]
    BY <1>2 DEF Unlock, RestTyped
  <1>4. job' \in [Publishers -> JobType]
    BY NoJobTyped DEF Unlock, RestTyped
  <1>5. pending' \in [Publishers -> PendingType \cup {None}]
    BY DEF Unlock, RestTyped
  <1> QED
    BY <1>1, <1>3, <1>4, <1>5

\* Installing a policy keeps the other types.
LEMMA RestOpen ==
  ASSUME IInv, NEW h \in Processes, Open(h)
  PROVE  RestTyped'
  <1>1. RestTyped /\ DiskTyped(disk)
    BY TypeSplits DEF IInv
  <1>2. /\ UNCHANGED <<managed, exclusive, shared, pc, job, pending, seq, crashes>> /\ h \in Bound
    BY DEF Open
  <1>3. record' \in Recorded
    BY <1>1, <1>2 DEF Open, WriteRecord, RestTyped, Recorded
  <1>4. generation' \in 0..MaxWord
    BY <1>1, SizesAssumption DEF Open, RestTyped
  <1>5. open' \in SUBSET Bound
    BY <1>1, <1>2 DEF Open, WriteRecord, RestTyped
  <1>6. cached' \in [Processes -> CacheType \cup {None}]
    <2> DEFINE recorded == IF record = None
                             THEN Put(Put(disk, {Control} \ DOMAIN disk, 0), {Control}, RecordLen)
                             ELSE Put(disk, {Control} \ DOMAIN disk, 0)
    <2>1. IsFiniteSet(DOMAIN recorded)
      <3>1. DOMAIN recorded = DOMAIN disk \cup {Control}
        BY DEF Put
      <3>2. IsFiniteSet(DOMAIN disk \cup {Control})
        BY <1>1, FS_AddElement DEF DiskTyped
      <3> HIDE DEF recorded
      <3> QED
        BY <3>1, <3>2, Zenon
    <2>2. Inventory(recorded) \in UsageType
      BY <2>1, InventoryTyped
    <2>3. [generation |-> generation', usage |-> Inventory(recorded)] \in CacheType
      BY <1>4, <2>2, SizesAssumption DEF CacheType
    <2>4. \/ UNCHANGED cached
          \/ cached' = [cached EXCEPT ![h] = [generation |-> generation', usage |-> Inventory(recorded)]]
          \/ cached' = [cached EXCEPT ![h] = cached[h]]
      BY DEF Open
    <2> HIDE DEF recorded
    <2> QED
      BY <1>1, <2>3, <2>4 DEF RestTyped
  <1> QED
    BY <1>1, <1>2, <1>3, <1>4, <1>5, <1>6 DEF RestTyped, Nested, Recorded, Points, JobType,
       CacheType, UsageType, PendingType, Publishing

\* Beginning a publication keeps the other types.
LEMMA RestBegin ==
  ASSUME IInv, NEW p \in Publishers, Begin(p)
  PROVE  RestTyped' /\ \E r \in Routes, a \in Artifacts :
            job' = [job EXCEPT ![p] = [route |-> r, html |-> a[1], metadata |-> a[2], seq |-> seq + 1]]
  <1>1. RestTyped /\ DiskTyped(disk)
    BY TypeSplits DEF IInv
  <1>2. /\ UNCHANGED <<disk, managed, record, generation, exclusive, shared, cached, open, pending, crashes>>
        /\ seq < MaxPublications /\ seq' = seq + 1 /\ pc' = [pc EXCEPT ![p] = "coordinate"]
    BY DEF Begin
  <1>3. seq' \in 0..MaxPublications
    BY <1>1, <1>2, SizesAssumption DEF RestTyped
  <1>4. PICK r \in Routes, a \in Artifacts :
            job' = [job EXCEPT ![p] = [route |-> r, html |-> a[1], metadata |-> a[2], seq |-> seq + 1]]
    BY DEF Begin
  <1>5. a[1] \in 0..MaxWord /\ a[2] \in 0..MaxWord
    BY SizesAssumption
  <1>6. [route |-> r, html |-> a[1], metadata |-> a[2], seq |-> seq + 1] \in JobType
    BY <1>2, <1>3, <1>5 DEF JobType
  <1>7. job' \in [Publishers -> JobType]
    BY <1>1, <1>4, <1>6 DEF RestTyped
  <1>8. pc' \in [Publishers -> Points]
    BY <1>1, <1>2 DEF RestTyped, Points
  <1>9. RestTyped'
    BY <1>1, <1>2, <1>3, <1>7, <1>8 DEF RestTyped, Nested, Recorded, Points, JobType,
       CacheType, UsageType, PendingType, Publishing
  <1> QED
    BY <1>4, <1>9

\* A step that only moves a publication on.
LEMMA RestAdvance ==
  ASSUME IInv, NEW p \in Publishers, NEW to \in Points, pc' = [pc EXCEPT ![p] = to],
         UNCHANGED <<managed, record, generation, cached, open, job, pending, seq, crashes>>,
         exclusive' \in Publishers \cup {None}, shared' \in SUBSET Publishers
  PROVE  RestTyped'
  <1>1. RestTyped
    BY TypeSplits DEF IInv
  <1>2. pc' \in [Publishers -> Points]
    BY <1>1 DEF RestTyped
  <1> QED
    BY <1>1, <1>2 DEF RestTyped, Nested, Recorded, Points, JobType,
       CacheType, UsageType, PendingType, Publishing

\* A step that only ends a lease.
LEMMA RestUnlock ==
  ASSUME IInv, NEW p \in Publishers, Unlock(p),
         UNCHANGED <<managed, record, open, seq, crashes>>,
         generation' \in 0..MaxWord, cached' \in [Processes -> CacheType \cup {None}]
  PROVE  RestTyped'
  <1>1. RestTyped
    BY TypeSplits DEF IInv
  <1> QED
    BY <1>1, UnlockTyped DEF RestTyped, Nested, Recorded, Points, JobType,
       CacheType, UsageType, PendingType, Publishing

\* Taking the shared lease, or being refused it keeps the other types.
LEMMA RestUnlimited ==
  ASSUME IInv, NEW p \in Publishers, CoordinateUnlimited(p)
  PROVE  RestTyped'
  <1>1. RestTyped
    BY TypeSplits DEF IInv
  <1>2. UNCHANGED <<managed, record, generation, cached, open, seq, crashes>>
    BY DEF CoordinateUnlimited
  <1>3. CASE Unlock(p)
    <2>1. generation' \in 0..MaxWord /\ cached' \in [Processes -> CacheType \cup {None}]
      BY <1>1, <1>2 DEF RestTyped
    <2> QED
      BY <1>2, <1>3, <2>1, RestUnlock
  <1>4. CASE ~Unlock(p)
    <2>1. /\ shared' = shared \cup {p} /\ pc' = [pc EXCEPT ![p] = "parents"]
          /\ UNCHANGED <<exclusive, job, pending>>
      BY <1>4 DEF CoordinateUnlimited
    <2>2. /\ exclusive' \in Publishers \cup {None} /\ shared' \in SUBSET Publishers
          /\ "parents" \in Points
      BY <1>1, <2>1 DEF RestTyped, Points, Publishing
    <2> QED
      BY <1>2, <2>1, <2>2, RestAdvance
  <1> QED
    BY <1>3, <1>4

\* What admission finds: the total is a usage, and so is the part it touches.
LEMMA AdmitTotals ==
  ASSUME IInv, NEW h \in Processes
  PROVE  (IF CacheHit(h) THEN cached[h].usage ELSE Inventory(disk)) \in UsageType
  <1>1. RestTyped /\ DiskTyped(disk)
    BY TypeSplits DEF IInv
  <1>2. Inventory(disk) \in UsageType
    BY <1>1, InventoryTyped DEF DiskTyped
  <1>3. CacheHit(h) => cached[h] \in CacheType
    BY <1>1 DEF RestTyped, CacheHit
  <1> QED
    BY <1>2, <1>3 DEF CacheType

\* An admission or its refusal keeps the other types.
LEMMA RestAdmit ==
  ASSUME IInv, NEW p \in Publishers, Admit(p)
  PROVE  RestTyped'
  <1> DEFINE h == ProcessOf[p]
             total == IF CacheHit(h) THEN cached[h].usage ELSE Inventory(disk)
             dirs == Touched(job[p].route)
             pend == [total |-> total, before |-> LocalUsage(disk, dirs), dirs |-> dirs]
  <1>1. RestTyped /\ DiskTyped(disk)
    BY TypeSplits DEF IInv
  <1>2. /\ UNCHANGED <<managed, record, open, seq, crashes>>
        /\ cached' = [cached EXCEPT ![h] = [generation |-> generation, usage |-> total]]
    BY DEF Admit
  <1>3. h \in Processes /\ total \in UsageType
    BY AdmitTotals, ProcessesAssumption
  <1>4. cached' \in [Processes -> CacheType \cup {None}]
    <2>1. [generation |-> generation, usage |-> total] \in CacheType
      BY <1>1, <1>3, SizesAssumption DEF RestTyped, CacheType
    <2> HIDE DEF total
    <2> QED
      BY <1>1, <1>2, <2>1 DEF RestTyped
  <1>5. CASE Unlock(p) /\ UNCHANGED generation
    <2>1. generation' \in 0..MaxWord
      BY <1>1, <1>5 DEF RestTyped
    <2> QED
      BY <1>2, <1>4, <1>5, <2>1, RestUnlock
  <1>6. CASE /\ CanBump /\ generation' = Announced
             /\ pending' = [pending EXCEPT ![p] = pend]
             /\ pc' = [pc EXCEPT ![p] = "parents"]
             /\ UNCHANGED <<exclusive, shared, job>>
    <2>1. generation' \in 0..MaxWord
      BY <1>1, <1>6, SizesAssumption DEF RestTyped, CanBump, Announced
    <2>2. pend \in PendingType
      <3>1. job[p].route \in Routes
        BY <1>1 DEF RestTyped, JobType
      <3>2. dirs \in SUBSET ({Root} \cup {DirOf[s] : s \in Routes})
        BY <3>1, TouchedTyped
      <3>3. LocalUsage(disk, dirs) \in UsageType
        BY <1>1, LocalTyped DEF DiskTyped
      <3> HIDE DEF total, dirs
      <3> QED
        BY <1>3, <3>2, <3>3 DEF PendingType
    <2>3. pending' \in [Publishers -> PendingType \cup {None}]
      <3> HIDE DEF pend
      <3> QED
        BY <1>1, <1>6, <2>2 DEF RestTyped
    <2>4. pc' \in [Publishers -> Points]
      BY <1>1, <1>6 DEF RestTyped, Points, Publishing
    <2> QED
      BY <1>1, <1>2, <1>4, <1>6, <2>1, <2>3, <2>4 DEF RestTyped, Nested, Recorded, Points, JobType,
         CacheType, UsageType, PendingType, Publishing
  <1> QED
    BY <1>5, <1>6 DEF Admit

\* A crash keeps the other types.
LEMMA RestCrash ==
  ASSUME IInv, NEW h \in Processes, Crash(h)
  PROVE  RestTyped'
  <1> DEFINE mine == {p \in Publishers : ProcessOf[p] = h}
  <1>1. RestTyped
    BY TypeSplits DEF IInv
  <1>2. /\ UNCHANGED <<managed, record, generation, seq>> /\ open' = open \ {h}
        /\ exclusive' = (IF exclusive \in mine THEN None ELSE exclusive)
        /\ shared' = shared \ mine /\ crashes < MaxCrashes /\ crashes' = crashes + 1
        /\ cached' = [cached EXCEPT ![h] = None]
        /\ pc' = [p \in Publishers |-> IF p \in mine THEN "idle" ELSE pc[p]]
        /\ job' = [p \in Publishers |-> IF p \in mine THEN NoJob ELSE job[p]]
        /\ pending' = [p \in Publishers |-> IF p \in mine THEN None ELSE pending[p]]
    BY DEF Crash
  <1>3. crashes' \in 0..MaxCrashes
    BY <1>1, <1>2, SizesAssumption DEF RestTyped
  <1>4. pc' \in [Publishers -> Points]
    BY <1>1, <1>2 DEF RestTyped, Points
  <1>5. job' \in [Publishers -> JobType]
    BY <1>1, <1>2, NoJobTyped DEF RestTyped
  <1>6. pending' \in [Publishers -> PendingType \cup {None}]
    BY <1>1, <1>2 DEF RestTyped
  <1>7. cached' \in [Processes -> CacheType \cup {None}]
    BY <1>1, <1>2 DEF RestTyped
  <1>8. /\ exclusive' \in Publishers \cup {None} /\ shared' \in SUBSET Publishers
        /\ open' \in SUBSET Bound
    BY <1>1, <1>2 DEF RestTyped
  <1> QED
    BY <1>1, <1>2, <1>3, <1>4, <1>5, <1>6, <1>7, <1>8 DEF RestTyped, Nested, Recorded, Points, JobType,
       CacheType, UsageType, PendingType, Publishing

\* A commit keeps the other types.
LEMMA RestCommit ==
  ASSUME IInv, NEW p \in Publishers, Commit(p)
  PROVE  RestTyped'
  <1> DEFINE h == ProcessOf[p]
             d == pending[p]
  <1>1. RestTyped /\ DiskTyped(disk)
    BY TypeSplits DEF IInv
  <1>2. UNCHANGED <<managed, record, open, seq, crashes>> /\ Unlock(p)
    BY DEF Commit
  <1>3. generation' \in 0..MaxWord
    BY <1>1, SizesAssumption DEF RestTyped, Commit, CanBump
  <1>4. cached' \in [Processes -> CacheType \cup {None}]
    <2>1. CASE d # None /\ CanBump /\ d.total.bytes >= d.before.bytes /\ d.total.entries >= d.before.entries
      <3>1. cached' = [cached EXCEPT ![h] = [generation |-> generation + 1, usage |-> Committed(d)]]
        BY <2>1 DEF Commit
      <3>2. d \in PendingType
        BY <1>1, <2>1 DEF RestTyped
      <3>3. LocalUsage(disk, d.dirs) \in UsageType
        BY <1>1, LocalTyped DEF DiskTyped
      <3>4. Committed(d) \in UsageType
        BY <2>1, <3>2, <3>3 DEF PendingType, UsageType, Committed
      <3>5. [generation |-> generation + 1, usage |-> Committed(d)] \in CacheType
        <4> HIDE DEF d
        <4> QED
          BY <1>1, <3>4, SizesAssumption DEF RestTyped, CacheType
      <3> HIDE DEF d
      <3> QED
        BY <1>1, <3>1, <3>5 DEF RestTyped
    <2>2. CASE ~(d # None /\ CanBump /\ d.total.bytes >= d.before.bytes /\ d.total.entries >= d.before.entries)
      <3>1. UNCHANGED cached \/ cached' = [cached EXCEPT ![h] = None]
        BY <2>2 DEF Commit
      <3> QED
        BY <1>1, <3>1 DEF RestTyped
    <2> QED
      BY <2>1, <2>2
  <1> QED
    BY <1>2, <1>3, <1>4, RestUnlock

-----------------------------------------------------------------------------
(* Temporary files.                                                        *)

Files2 == Numbered /\ Temporaries
TempKinds == {"html_temp", "metadata_temp"}

\* Two publications have different temporary files.
LEMMA TempsApart ==
  ASSUME IInv, NEW p \in Publishers, NEW q \in Publishers, p # q, pc[p] # "idle", pc[q] # "idle"
  PROVE  Temps(p) \cap Temps(q) = {}
  <1>1. job[p].seq # job[q].seq
    BY DEF IInv, Numbered
  <1> QED
    BY <1>1 DEF Temps, HtmlTemp, MetadataTemp

\* Entries of other kinds are no temporary files.
LEMMA TempsAreTemps ==
  ASSUME NEW p \in Publishers, NEW e \in Temps(p)
  PROVE  e[1] \in TempKinds /\ e[2] = job[p].seq
  BY DEF Temps, HtmlTemp, MetadataTemp, TempKinds

\* A publication moves on; the temporary files of the others stay.
LEMMA FilesAdvance ==
  ASSUME IInv, NEW p \in Publishers, NEW to \in Points, pc[p] # "idle",
         pc' = [pc EXCEPT ![p] = to], UNCHANGED <<job, seq>>,
         \A e \in DOMAIN disk' \ DOMAIN disk : e[1] \in TempKinds => e \in Temps(p),
         \A e \in DOMAIN disk \ DOMAIN disk' : e \in Temps(p),
         to \in {"coordinate", "admit", "parents", "html_temp"} => HtmlTemp(job[p]) \notin DOMAIN disk',
         to \in {"coordinate", "admit", "parents", "html_temp", "metadata_temp"}
            => MetadataTemp(job[p]) \notin DOMAIN disk',
         to \in {"metadata_temp", "support", "metadata", "html"} => HtmlTemp(job[p]) \in DOMAIN disk',
         to \in {"support", "metadata"} => MetadataTemp(job[p]) \in DOMAIN disk'
  PROVE  Files2'
  <1>1. TypeOK /\ Numbered /\ Temporaries
    BY DEF IInv
  <1>2. pc'[p] = to /\ \A q \in Publishers \ {p} : pc'[q] = pc[q]
    BY <1>1 DEF TypeOK
  <1>3. Numbered'
    <2>1. \A e \in DOMAIN disk' : e[1] \in TempKinds => e[2] \in 1..seq
      BY <1>1, TempsAreTemps DEF Numbered, TempKinds
    <2> QED
      BY <1>1, <1>2, <2>1 DEF Numbered, TempKinds
  <1>4. \A q \in Publishers \ {p} : pc[q] # "idle" => \A e \in Temps(q) :
            e \in DOMAIN disk' <=> e \in DOMAIN disk
    BY TempsApart, TempsAreTemps
  <1>5. \A q \in Publishers \ {p} : pc[q] # "idle" =>
            /\ HtmlTemp(job[q]) \in DOMAIN disk' <=> HtmlTemp(job[q]) \in DOMAIN disk
            /\ MetadataTemp(job[q]) \in DOMAIN disk' <=> MetadataTemp(job[q]) \in DOMAIN disk
    BY <1>4 DEF Temps
  <1>6. Temporaries'
    <2>2. job' = job
      OBVIOUS
    <2>3. ASSUME NEW q \in Publishers
          PROVE  /\ pc'[q] \in {"coordinate", "admit", "parents", "html_temp"}
                      => HtmlTemp(job[q]) \notin DOMAIN disk'
                 /\ pc'[q] \in {"coordinate", "admit", "parents", "html_temp", "metadata_temp"}
                      => MetadataTemp(job[q]) \notin DOMAIN disk'
                 /\ pc'[q] \in {"metadata_temp", "support", "metadata", "html"}
                      => HtmlTemp(job[q]) \in DOMAIN disk'
                 /\ pc'[q] \in {"support", "metadata"} => MetadataTemp(job[q]) \in DOMAIN disk'
      <3>1. CASE q = p
        BY <1>2, <3>1
      <3>2. CASE q # p
        BY <1>1, <1>2, <1>5, <3>2 DEF Temporaries
      <3> QED
        BY <3>1, <3>2
    <2> QED
      BY <2>2, <2>3 DEF Temporaries, HtmlTemp, MetadataTemp
  <1> QED
    BY <1>3, <1>6 DEF Files2

\* A lease ends; the temporary files of the others stay.
LEMMA FilesUnlock ==
  ASSUME IInv, NEW p \in Publishers, pc[p] # "idle", Unlock(p), UNCHANGED seq,
         \A e \in DOMAIN disk' \ DOMAIN disk : e[1] \notin TempKinds,
         \A e \in DOMAIN disk \ DOMAIN disk' : e \in Temps(p)
  PROVE  Files2'
  <1>1. TypeOK /\ Numbered /\ Temporaries
    BY DEF IInv
  <1>2. pc'[p] = "idle" /\ \A q \in Publishers \ {p} : pc'[q] = pc[q] /\ job'[q] = job[q]
    BY <1>1 DEF TypeOK, Unlock
  <1>3. Numbered'
    <2>1. \A e \in DOMAIN disk' : e[1] \in TempKinds => e[2] \in 1..seq
      BY <1>1 DEF Numbered, TempKinds
    <2> QED
      BY <1>1, <1>2, <2>1 DEF Numbered, TempKinds
  <1>4. \A q \in Publishers \ {p} : pc[q] # "idle" => \A e \in Temps(q) :
            e \in DOMAIN disk' <=> e \in DOMAIN disk
    BY TempsApart, TempsAreTemps
  <1>5. \A q \in Publishers \ {p} : pc[q] # "idle" =>
            /\ HtmlTemp(job[q]) \in DOMAIN disk' <=> HtmlTemp(job[q]) \in DOMAIN disk
            /\ MetadataTemp(job[q]) \in DOMAIN disk' <=> MetadataTemp(job[q]) \in DOMAIN disk
    BY <1>4 DEF Temps
  <1>6. Temporaries'
    <2>1. ASSUME NEW q \in Publishers
          PROVE  /\ pc'[q] \in {"coordinate", "admit", "parents", "html_temp"}
                      => HtmlTemp(job'[q]) \notin DOMAIN disk'
                 /\ pc'[q] \in {"coordinate", "admit", "parents", "html_temp", "metadata_temp"}
                      => MetadataTemp(job'[q]) \notin DOMAIN disk'
                 /\ pc'[q] \in {"metadata_temp", "support", "metadata", "html"}
                      => HtmlTemp(job'[q]) \in DOMAIN disk'
                 /\ pc'[q] \in {"support", "metadata"} => MetadataTemp(job'[q]) \in DOMAIN disk'
      <3>1. CASE q = p
        BY <1>2, <3>1
      <3>2. CASE q # p
        BY <1>1, <1>2, <1>5, <3>2 DEF Temporaries
      <3> QED
        BY <3>1, <3>2
    <2> QED
      BY <2>1 DEF Temporaries, HtmlTemp, MetadataTemp
  <1> QED
    BY <1>3, <1>6 DEF Files2

\* Installing a policy keeps the temporary files of each publication.
LEMMA FilesOpen ==
  ASSUME IInv, NEW h \in Processes, Open(h)
  PROVE  Files2'
  <1>1. Numbered /\ Temporaries
    BY DEF IInv
  <1>2. UNCHANGED <<pc, job, seq>>
    BY DEF Open
  <1>3. DOMAIN disk' = DOMAIN disk \cup {Control}
    BY DiskOpen
  <1>4. Numbered'
    BY <1>1, <1>2, <1>3 DEF Numbered, Control
  <1>5. Temporaries'
    BY <1>1, <1>2, <1>3 DEF Temporaries, HtmlTemp, MetadataTemp, Control
  <1> QED
    BY <1>4, <1>5 DEF Files2

\* Beginning a publication keeps the temporary files of each publication.
LEMMA FilesBegin ==
  ASSUME IInv, NEW p \in Publishers, Begin(p)
  PROVE  Files2'
  <1>1. TypeOK /\ Numbered /\ Temporaries
    BY DEF IInv
  <1>2. UNCHANGED disk /\ seq' = seq + 1 /\ pc' = [pc EXCEPT ![p] = "coordinate"]
    BY DEF Begin
  <1>3. PICK r \in Routes, a \in Artifacts :
            job' = [job EXCEPT ![p] = [route |-> r, html |-> a[1], metadata |-> a[2], seq |-> seq + 1]]
    BY RestBegin
  <1>4. pc'[p] = "coordinate" /\ \A q \in Publishers \ {p} : pc'[q] = pc[q] /\ job'[q] = job[q]
    BY <1>1, <1>2, <1>3 DEF TypeOK
  <1>5. job'[p].seq = seq + 1
    BY <1>1, <1>3 DEF TypeOK
  <1>6. seq \in Nat
    BY <1>1, SizesAssumption DEF TypeOK
  <1>7. Numbered'
    <2>1. \A e \in DOMAIN disk' : e[1] \in TempKinds => e[2] \in 1..seq'
      BY <1>1, <1>2, <1>6 DEF Numbered, TempKinds
    <2>2. \A q \in Publishers : pc'[q] # "idle" => job'[q].seq \in 1..seq'
      BY <1>1, <1>2, <1>4, <1>5, <1>6 DEF Numbered
    <2>3. \A q \in Publishers \ {p} : pc'[q] # "idle" => job'[q].seq # job'[p].seq
      BY <1>1, <1>4, <1>5, <1>6 DEF Numbered
    <2> QED
      BY <1>1, <1>4, <2>1, <2>2, <2>3 DEF Numbered, TempKinds
  <1>8. Temporaries'
    <2>1. \A e \in DOMAIN disk : e[1] \in TempKinds => e[2] # job'[p].seq
      BY <1>1, <1>5, <1>6 DEF Numbered, TempKinds
    <2>2. HtmlTemp(job'[p]) \notin DOMAIN disk /\ MetadataTemp(job'[p]) \notin DOMAIN disk
      BY <2>1 DEF HtmlTemp, MetadataTemp, TempKinds
    <2>3. ASSUME NEW q \in Publishers
          PROVE  /\ pc'[q] \in {"coordinate", "admit", "parents", "html_temp"}
                      => HtmlTemp(job'[q]) \notin DOMAIN disk'
                 /\ pc'[q] \in {"coordinate", "admit", "parents", "html_temp", "metadata_temp"}
                      => MetadataTemp(job'[q]) \notin DOMAIN disk'
                 /\ pc'[q] \in {"metadata_temp", "support", "metadata", "html"}
                      => HtmlTemp(job'[q]) \in DOMAIN disk'
                 /\ pc'[q] \in {"support", "metadata"} => MetadataTemp(job'[q]) \in DOMAIN disk'
      <3>1. CASE q = p
        BY <1>2, <1>4, <2>2, <3>1
      <3>2. CASE q # p
        BY <1>1, <1>2, <1>4, <3>2 DEF Temporaries
      <3> QED
        BY <3>1, <3>2
    <2> QED
      BY <2>3 DEF Temporaries, HtmlTemp, MetadataTemp
  <1> QED
    BY <1>7, <1>8 DEF Files2

\* Taking the exclusive lease keeps the temporary files of each publication.
LEMMA FilesBound ==
  ASSUME IInv, NEW p \in Publishers, CoordinateBound(p)
  PROVE  Files2'
  <1>1. /\ UNCHANGED <<disk, job, seq>> /\ pc' = [pc EXCEPT ![p] = "admit"] /\ pc[p] = "coordinate"
    BY DEF CoordinateBound
  <1>2. HtmlTemp(job[p]) \notin DOMAIN disk /\ MetadataTemp(job[p]) \notin DOMAIN disk
    BY <1>1 DEF IInv, Temporaries
  <1> QED
    BY <1>1, <1>2, FilesAdvance DEF Points

\* Taking the shared lease, or being refused it keeps the temporary files of each publication.
LEMMA FilesUnlimited ==
  ASSUME IInv, NEW p \in Publishers, CoordinateUnlimited(p)
  PROVE  Files2'
  <1>1. UNCHANGED seq /\ pc[p] = "coordinate"
    BY DEF CoordinateUnlimited
  <1>2. HtmlTemp(job[p]) \notin DOMAIN disk /\ MetadataTemp(job[p]) \notin DOMAIN disk
    BY <1>1 DEF IInv, Temporaries
  <1>3. DOMAIN disk \subseteq DOMAIN disk' /\ DOMAIN disk' \subseteq DOMAIN disk \cup {Control}
    BY DiskUnlimited
  <1>4. Control[1] \notin TempKinds
    BY DEF Control, TempKinds
  <1>5. HtmlTemp(job[p]) \notin DOMAIN disk' /\ MetadataTemp(job[p]) \notin DOMAIN disk'
    BY <1>2, <1>3 DEF Control, HtmlTemp, MetadataTemp
  <1>6. CASE Unlock(p)
    BY <1>1, <1>3, <1>4, <1>6, FilesUnlock
  <1>7. CASE pc' = [pc EXCEPT ![p] = "parents"] /\ UNCHANGED job
    <2>1. "parents" \in Points
      BY DEF Points, Publishing
    <2> QED
      BY <1>1, <1>3, <1>4, <1>5, <1>7, <2>1, FilesAdvance
  <1> QED
    BY <1>6, <1>7 DEF CoordinateUnlimited

\* An admission or its refusal keeps the temporary files of each publication.
LEMMA FilesAdmit ==
  ASSUME IInv, NEW p \in Publishers, Admit(p)
  PROVE  Files2'
  <1>1. UNCHANGED <<disk, seq>> /\ pc[p] = "admit"
    BY DEF Admit
  <1>2. HtmlTemp(job[p]) \notin DOMAIN disk /\ MetadataTemp(job[p]) \notin DOMAIN disk
    BY <1>1 DEF IInv, Temporaries
  <1>3. CASE Unlock(p)
    BY <1>1, <1>3, FilesUnlock
  <1>4. CASE pc' = [pc EXCEPT ![p] = "parents"] /\ UNCHANGED job
    <2>1. "parents" \in Points
      BY DEF Points, Publishing
    <2> QED
      BY <1>1, <1>2, <1>4, <2>1, FilesAdvance
  <1> QED
    BY <1>3, <1>4 DEF Admit

\* A commit keeps the temporary files of each publication.
LEMMA FilesCommit ==
  ASSUME IInv, NEW p \in Publishers, Commit(p)
  PROVE  Files2'
  <1>1. UNCHANGED <<disk, seq>> /\ pc[p] # "idle" /\ Unlock(p)
    BY DEF Commit
  <1> QED
    BY <1>1, FilesUnlock

\* A failure keeps the temporary files of each publication.
LEMMA FilesFail ==
  ASSUME IInv, NEW p \in Publishers, Fail(p)
  PROVE  Files2'
  <1>1. UNCHANGED seq /\ pc[p] # "idle" /\ Unlock(p)
    BY DEF Fail, Publishing
  <1> QED
    BY <1>1, DiskFail, FilesUnlock

\* A crash keeps the temporary files of each publication.
LEMMA FilesCrash ==
  ASSUME IInv, NEW h \in Processes, Crash(h)
  PROVE  Files2'
  <1>1. TypeOK /\ Numbered /\ Temporaries
    BY DEF IInv
  <1> DEFINE mine == {p \in Publishers : ProcessOf[p] = h}
  <1>2. UNCHANGED <<disk, seq>>
    BY DEF Crash
  <1>3. /\ \A p \in mine : pc'[p] = "idle"
        /\ \A p \in Publishers \ mine : pc'[p] = pc[p] /\ job'[p] = job[p]
    BY DEF Crash
  <1> HIDE DEF mine
  <1>4. Numbered'
    BY <1>1, <1>2, <1>3 DEF Numbered
  <1>5. Temporaries'
    <2>1. ASSUME NEW q \in Publishers
          PROVE  /\ pc'[q] \in {"coordinate", "admit", "parents", "html_temp"}
                      => HtmlTemp(job'[q]) \notin DOMAIN disk'
                 /\ pc'[q] \in {"coordinate", "admit", "parents", "html_temp", "metadata_temp"}
                      => MetadataTemp(job'[q]) \notin DOMAIN disk'
                 /\ pc'[q] \in {"metadata_temp", "support", "metadata", "html"}
                      => HtmlTemp(job'[q]) \in DOMAIN disk'
                 /\ pc'[q] \in {"support", "metadata"} => MetadataTemp(job'[q]) \in DOMAIN disk'
      <3>1. CASE q \in mine
        BY <1>3, <3>1
      <3>2. CASE q \notin mine
        BY <1>1, <1>2, <1>3, <3>2 DEF Temporaries
      <3> QED
        BY <3>1, <3>2
    <2> QED
      BY <2>1 DEF Temporaries, HtmlTemp, MetadataTemp
  <1> QED
    BY <1>4, <1>5 DEF Files2

-----------------------------------------------------------------------------
(* Accounts.                                                               *)

Accounts == Caches /\ Counted /\ Admitted /\ WithinLimits

\* What a publication has still to create is a usage.
LEMMA RemainingTyped ==
  ASSUME IInv, NEW p \in Publishers
  PROVE  Remaining(p) \in UsageType
  <1>1. job[p] \in JobType
    BY TypeSplits DEF IInv, RestTyped
  <1>2. job[p].html \in Nat /\ job[p].metadata \in Nat /\ job[p].route \in Routes
    BY <1>1, SizesAssumption DEF JobType
  <1>3. Cardinality(MissingParents(job[p].route)) \in Nat
    BY <1>2, ParentsTyped, FS_CardinalityType
  <1>4. \A e : Absent(e) \in Nat
    BY DEF Absent
  <1>5. SupportLeft(job[p].route) \in Nat
    BY <1>4 DEF SupportLeft
  <1> QED
    BY <1>2, <1>3, <1>4, <1>5 DEF Remaining, UsageType

\* On a site without a record there is nothing to account for.
LEMMA Unaccounted ==
  ASSUME IInv, record = None, record' = None, exclusive' = None, cached' = cached,
         \A q \in Publishers : pending'[q] = pending[q] \/ pending'[q] = None
  PROVE  Accounts'
  <1>1. \A q \in Publishers : pending[q] = None
    <2>1. exclusive = None
      BY Unrecorded
    <2> QED
      BY <2>1, NoneAssumption DEF IInv, Counted, AtWork
  <1>2. \A h \in Processes : cached[h] = None
    BY Unrecorded
  <1>3. \A q \in Publishers : ~AtWork(q)'
    BY NoneAssumption DEF AtWork
  <1>4. Caches'
    BY <1>2, <1>3 DEF Caches, CacheHit
  <1>5. Counted'
    BY <1>1, <1>3 DEF Counted
  <1>6. Admitted' /\ WithinLimits'
    BY <1>3 DEF Admitted, WithinLimits
  <1> QED
    BY <1>4, <1>5, <1>6 DEF Accounts

\* The disk holds the same entries as before.
SameDisk == DOMAIN disk' = DOMAIN disk /\ \A e \in DOMAIN disk : disk'[e] = disk[e]

\* A step outside the publications at work, on the same disk and record.
LEMMA Undisturbed ==
  ASSUME IInv, SameDisk, UNCHANGED <<record, generation, cached>>,
         \A q \in Publishers : AtWork(q)' <=> AtWork(q),
         \A q \in Publishers : AtWork(q) =>
            job'[q] = job[q] /\ pending'[q] = pending[q] /\ pc'[q] = pc[q],
         \A q \in Publishers : pending'[q] = pending[q] \/ pending'[q] = None
  PROVE  Accounts'
  <1>1. Caches /\ Counted /\ Admitted /\ WithinLimits
    BY DEF IInv
  <1>2. Inventory(disk)' = Inventory(disk)
    BY SameInventory DEF SameDisk, Inventory
  <1>3. Caches'
    BY <1>1, <1>2 DEF Caches, CacheHit
  <1>4. WithinLimits'
    BY <1>1, <1>2 DEF WithinLimits, Within
  <1>5. \A q \in Publishers : AtWork(q) => Remaining(q)' = Remaining(q)
    BY DEF SameDisk, Remaining, MissingParents, Absent, SupportLeft, Scratch, PublicationLock,
       MetadataDirectory, Directory
  <1>6. Admitted'
    BY <1>1, <1>2, <1>5 DEF Admitted, Within, Plus
  <1>7. Counted'
    <2>1. ASSUME NEW q \in Publishers, AtWork(q)
          PROVE  /\ pending'[q] # None
                 /\ pending'[q].total = Plus(pending'[q].before, Usage(disk, Elsewhere(pending[q].dirs))')
                 /\ DirOf[job'[q].route] \in pending'[q].dirs
                 /\ pc'[q] = "parents" /\ MissingParents(job[q].route)' # {} => Root \in pending'[q].dirs
      <3>1. Elsewhere(pending[q].dirs)' = Elsewhere(pending[q].dirs)
        BY <2>1 DEF SameDisk, Elsewhere
      <3>2. Usage(disk', Elsewhere(pending[q].dirs)) = Usage(disk, Elsewhere(pending[q].dirs))
        BY UsageAgrees DEF SameDisk, Elsewhere
      <3>3. MissingParents(job[q].route)' = MissingParents(job[q].route)
        BY <2>1 DEF SameDisk, MissingParents, Directory
      <3>4. Usage(disk, Elsewhere(pending[q].dirs))' = Usage(disk, Elsewhere(pending[q].dirs))
        BY <3>1, <3>2 DEF Usage, Units
      <3> QED
        BY <1>1, <2>1, <3>3, <3>4 DEF Counted
    <2> QED
      BY <1>1, <2>1 DEF Counted
  <1> QED
    BY <1>3, <1>4, <1>6, <1>7 DEF Accounts

\* A publication at work moves on: it holds the lease alone, no cache is current,
\* and what it does in the directories it has counted leaves the rest as it was.
LEMMA AccountWork ==
  ASSUME IInv, NEW p \in Publishers, AtWork(p), NEW to \in Publishing, to # "parents",
         pc' = [pc EXCEPT ![p] = to],
         UNCHANGED <<record, generation, exclusive, cached, job, pending>>,
         IsFiniteSet(DOMAIN disk'),
         \A e : e[3] \notin pending[p].dirs =>
            /\ e \in DOMAIN disk' <=> e \in DOMAIN disk
            /\ e \in DOMAIN disk => disk'[e] = disk[e],
         Remaining(p)' \in UsageType,
         Plus(Inventory(disk)', Remaining(p)').bytes <= Plus(Inventory(disk), Remaining(p)).bytes,
         Plus(Inventory(disk)', Remaining(p)').entries <= Plus(Inventory(disk), Remaining(p)).entries
  PROVE  Accounts'
  <1>1. TypeOK /\ Sized /\ Caches /\ Counted /\ Admitted /\ WithinLimits
    BY DEF IInv
  <1>2. exclusive = p /\ p # None
    BY NoneAssumption DEF AtWork
  <1>3. record \in UsageType /\ record # None /\ record # Invalid
    BY <1>2, HolderIsBound
  <1>4. pc'[p] = to
    BY <1>1 DEF TypeOK
  <1>5. \A q \in Publishers : AtWork(q)' <=> q = p
    BY <1>2, <1>4 DEF AtWork
  <1>6. \A q \in Publishers : AtWork(q) <=> q = p
    BY <1>2 DEF AtWork
  <1>7. Caches'
    <2>1. \A h \in Processes : cached[h] # None => cached[h].generation < generation
      BY <1>1 DEF Caches
    <2>2. generation \in Nat /\ \A h \in Processes : cached[h] # None => cached[h].generation \in Nat
      BY <1>1, SizesAssumption DEF TypeOK, CacheType
    <2> QED
      BY <1>3, <1>5, <2>1, <2>2 DEF Caches
  <1>8. Counted'
    <2>1. Elsewhere(pending[p].dirs)' = Elsewhere(pending[p].dirs)
      BY DEF Elsewhere
    <2>2. Usage(disk', Elsewhere(pending[p].dirs)) = Usage(disk, Elsewhere(pending[p].dirs))
      BY UsageAgrees DEF Elsewhere
    <2>3. Usage(disk, Elsewhere(pending[p].dirs))' = Usage(disk, Elsewhere(pending[p].dirs))
      BY <2>1, <2>2 DEF Usage, Units
    <2> QED
      BY <1>1, <1>4, <1>5, <1>6, <2>3 DEF Counted
  <1>9. Within(Plus(Inventory(disk), Remaining(p)), record)
    BY <1>1 DEF Admitted
  <1>10. /\ Inventory(disk) \in UsageType /\ Inventory(disk)' \in UsageType /\ Remaining(p) \in UsageType
    <2>1. Inventory(disk') \in UsageType
      BY InventoryTyped
    <2> QED
      BY <1>1, <2>1, InventoryTyped, RemainingTyped DEF Sized, Inventory
  <1>11. Within(Plus(Inventory(disk)', Remaining(p)'), record) /\ Within(Inventory(disk)', record)
    BY <1>3, <1>9, <1>10 DEF Within, Plus, UsageType
  <1>12. Admitted' /\ WithinLimits'
    BY <1>5, <1>11 DEF Admitted, WithinLimits, Within, Plus
  <1> QED
    BY <1>7, <1>8, <1>12 DEF Accounts

\* The number of missing entries.
LEMMA CountAbsent ==
  ASSUME NEW a, NEW D
  PROVE  /\ IsFiniteSet({a} \ D)
         /\ Cardinality({a} \ D) = IF a \in D THEN 0 ELSE 1
  <1>1. CASE a \in D
    <2>1. {a} \ D = {}
      BY <1>1
    <2> QED
      BY <1>1, <2>1, FS_EmptySet, Zenon
  <1>2. CASE a \notin D
    <2>1. {a} \ D = {a}
      BY <1>2
    <2> QED
      BY <1>2, <2>1, FS_Singleton, Zenon
  <1> QED
    BY <1>1, <1>2

\* Disjoint sets count together.
LEMMA CountJoined ==
  ASSUME NEW A, NEW B, IsFiniteSet(A), IsFiniteSet(B), A \cap B = {}
  PROVE  IsFiniteSet(A \cup B) /\ Cardinality(A \cup B) = Cardinality(A) + Cardinality(B)
  <1>1. Cardinality(A \cap B) = 0
    BY FS_EmptySet, Zenon
  <1>2. IsFiniteSet(A \cup B)
        /\ Cardinality(A \cup B) = Cardinality(A) + Cardinality(B) - Cardinality(A \cap B)
    BY FS_Union, Zenon
  <1>3. Cardinality(A) \in Nat /\ Cardinality(B) \in Nat
    BY FS_CardinalityType
  <1> QED
    BY <1>1, <1>2, <1>3

\* The number of two entries that are missing.
LEMMA CountAbsentTwo ==
  ASSUME NEW a, NEW b, NEW D, a # b
  PROVE  /\ IsFiniteSet({a, b} \ D)
         /\ Cardinality({a, b} \ D) = (IF a \in D THEN 0 ELSE 1) + (IF b \in D THEN 0 ELSE 1)
  <1>1. {a, b} \ D = ({a} \ D) \cup ({b} \ D) /\ ({a} \ D) \cap ({b} \ D) = {}
    OBVIOUS
  <1>2. IsFiniteSet(({a} \ D) \cup ({b} \ D))
        /\ Cardinality(({a} \ D) \cup ({b} \ D)) = Cardinality({a} \ D) + Cardinality({b} \ D)
    BY <1>1, CountAbsent, CountJoined
  <1>3. IsFiniteSet({a, b} \ D) /\ Cardinality({a, b} \ D) = Cardinality({a} \ D) + Cardinality({b} \ D)
    BY <1>1, <1>2, Zenon
  <1> QED
    BY <1>3, CountAbsent

\* What creating new entries adds.
LEMMA CreateAdds ==
  ASSUME IInv, NEW es, NEW n, IsFiniteSet(es), es \cap DOMAIN disk = {}, disk' = Put(disk, es, n)
  PROVE  /\ Inventory(disk)' = Plus(Inventory(disk), Usage(disk', es))
         /\ n = 0 => Usage(disk', es) = [bytes |-> 0, entries |-> Cardinality(es)]
  <1>1. Inventory(disk') = Plus(Inventory(disk), Usage(disk', es))
    BY InventoryOfNew DEF IInv, Sized
  <1>2. n = 0 => \A e \in es : disk'[e] = 0
    BY DEF Put
  <1>3. n = 0 => Usage(disk', es) = [bytes |-> 0, entries |-> Cardinality(es)]
    BY <1>2, UsageOfEmpty
  <1> QED
    BY <1>1, <1>3 DEF Inventory

\* The facts about a publication at work that its steps use.
LEMMA WorkFacts ==
  ASSUME IInv, NEW p \in Publishers
  PROVE  /\ job[p].route \in Routes /\ job[p].html \in 0..MaxWord /\ job[p].metadata \in 0..MaxWord
         /\ job[p].html \in Nat /\ job[p].metadata \in Nat
         /\ Inventory(disk) \in UsageType
         /\ AtWork(p) => DirOf[job[p].route] \in pending[p].dirs
  <1>1. job[p] \in JobType
    BY TypeSplits DEF IInv, RestTyped
  <1>2. Inventory(disk) \in UsageType
    BY InventoryTyped DEF IInv, Sized
  <1> QED
    BY <1>1, <1>2, SizesAssumption DEF JobType, IInv, Counted

\* One action on the files of a publication: leases, types and temporary files.
Kept == Control3 /\ DiskTyped(disk) /\ RestTyped /\ Files2

\* Creating files keeps leases, types and files.
LEMMA KeptCreate ==
  ASSUME IInv, NEW p \in Publishers, NEW from \in Publishing, NEW to \in Publishing, NEW es, NEW n,
         es \subseteq Entries, IsFiniteSet(es), n \in 0..MaxWord, Create(p, from, to, es, n), Files2'
  PROVE  Kept'
  <1>1. Control3'
    BY ControlCreate
  <1>2. DiskTyped(disk)'
    BY DiskCreate
  <1>3. RestTyped'
    <2>1. /\ pc' = [pc EXCEPT ![p] = to]
          /\ UNCHANGED <<managed, record, generation, exclusive, shared, cached, open, job, pending, seq, crashes>>
      BY DEF Create
    <2>2. /\ exclusive' \in Publishers \cup {None} /\ shared' \in SUBSET Publishers /\ to \in Points
      BY <2>1 DEF IInv, TypeOK, Points
    <2> QED
      BY <2>1, <2>2, RestAdvance
  <1> QED
    BY <1>1, <1>2, <1>3 DEF Kept

\* Publishing a file keeps leases, types and files.
LEMMA KeptRename ==
  ASSUME IInv, NEW p \in Publishers, NEW from \in Publishing, NEW to \in Publishing,
         NEW temp \in Temps(p), NEW name \in Entries, temp \in DOMAIN disk,
         Rename(p, from, to, temp, name), Files2'
  PROVE  Kept'
  <1>0. temp # Control
    BY DEF Temps, HtmlTemp, MetadataTemp, Control
  <1>1. Control3'
    BY <1>0, ControlRename
  <1>2. DiskTyped(disk)'
    BY DiskRename
  <1>3. RestTyped'
    <2>1. /\ pc' = [pc EXCEPT ![p] = to]
          /\ UNCHANGED <<managed, record, generation, exclusive, shared, cached, open, job, pending, seq, crashes>>
      BY DEF Rename
    <2>2. /\ exclusive' \in Publishers \cup {None} /\ shared' \in SUBSET Publishers /\ to \in Points
      BY <2>1 DEF IInv, TypeOK, Points
    <2> QED
      BY <2>1, <2>2, RestAdvance
  <1> QED
    BY <1>1, <1>2, <1>3 DEF Kept

\* Creating new entries in the counted directories, within what was left to create.
LEMMA AccountCreate ==
  ASSUME IInv, NEW p \in Publishers, NEW from \in Publishing, NEW to \in Publishing, to # "parents",
         NEW es, NEW n, es \subseteq Entries, IsFiniteSet(es), es \cap DOMAIN disk = {}, n \in 0..MaxWord,
         Create(p, from, to, es, n),
         AtWork(p) => \A e \in es : e[3] \in pending[p].dirs,
         Remaining(p)' \in UsageType,
         Usage(disk', es).bytes + Remaining(p)'.bytes <= Remaining(p).bytes,
         Usage(disk', es).entries + Remaining(p)'.entries <= Remaining(p).entries
  PROVE  Accounts'
  <1>1. /\ UNCHANGED <<record, generation, exclusive, cached, job, pending>> /\ pc[p] = from
        /\ pc' = [pc EXCEPT ![p] = to] /\ disk' = Put(disk, es, n)
    BY DEF Create
  <1>2. CASE record = None /\ exclusive = None
    BY <1>1, <1>2, Unaccounted
  <1>3. CASE AtWork(p)
    <2>1. IsFiniteSet(DOMAIN disk')
      BY DiskCreate DEF DiskTyped
    <2>2. \A e : e[3] \notin pending[p].dirs =>
            /\ e \in DOMAIN disk' <=> e \in DOMAIN disk
            /\ e \in DOMAIN disk => disk'[e] = disk[e]
      BY <1>1, <1>3 DEF Put
    <2>3. Inventory(disk)' = Plus(Inventory(disk), Usage(disk', es))
      BY <1>1, CreateAdds
    <2>4. Usage(disk', es) \in UsageType /\ Inventory(disk) \in UsageType /\ Remaining(p) \in UsageType
      BY UsageFinite, WorkFacts, RemainingTyped
    <2>5. /\ Plus(Inventory(disk)', Remaining(p)').bytes <= Plus(Inventory(disk), Remaining(p)).bytes
          /\ Plus(Inventory(disk)', Remaining(p)').entries <= Plus(Inventory(disk), Remaining(p)).entries
      BY <2>3, <2>4 DEF Plus, UsageType
    <2> QED
      BY <1>1, <1>3, <2>1, <2>2, <2>5, AccountWork
  <1> QED
    BY <1>1, <1>2, <1>3, WorkIsLeased

-----------------------------------------------------------------------------
(* The steps of a publication.                                             *)

\* Creating directories and the scratch lock keeps the whole invariant.
LEMMA StepParents ==
  ASSUME IInv, NEW p \in Publishers, CreateParents(p)
  PROVE  Kept' /\ Accounts'
  <1> DEFINE r == job[p].route
             es == MissingParents(r) \cup ({Scratch(r)} \ DOMAIN disk)
  <1>1. Create(p, "parents", "html_temp", es, 0)
    BY DEF CreateParents
  <1>2. /\ pc[p] = "parents" /\ disk' = Put(disk, es, 0) /\ pc' = [pc EXCEPT ![p] = "html_temp"]
        /\ UNCHANGED <<job, seq, pending>>
    BY <1>1 DEF Create
  <1>3. r \in Routes /\ job[p].html \in Nat /\ job[p].metadata \in Nat
    BY WorkFacts
  <1>4. "parents" \in Publishing /\ "html_temp" \in Publishing /\ "html_temp" \in Points /\ 0 \in 0..MaxWord
    BY SizesAssumption DEF Publishing, Points
  <1>5. /\ MissingParents(r) \subseteq {Directory(r)} /\ IsFiniteSet(MissingParents(r))
        /\ MissingParents(r) \cap DOMAIN disk = {}
    BY <1>3, ParentsTyped
  <1>6. /\ IsFiniteSet({Scratch(r)} \ DOMAIN disk)
        /\ Cardinality({Scratch(r)} \ DOMAIN disk) = Absent(Scratch(r))
    BY CountAbsent DEF Absent
  <1>7. MissingParents(r) \cap ({Scratch(r)} \ DOMAIN disk) = {}
    BY <1>5 DEF Directory, Scratch
  <1>8. /\ IsFiniteSet(es)
        /\ Cardinality(es) = Cardinality(MissingParents(r)) + Absent(Scratch(r))
    BY <1>5, <1>6, <1>7, CountJoined
  <1>9. es \subseteq Entries /\ es \cap DOMAIN disk = {}
    BY <1>3, <1>5, EntriesTyped
  <1>10. \A e \in es : e[1] \notin TempKinds
    BY <1>5 DEF Directory, Scratch, TempKinds
  <1>11. DOMAIN disk' = DOMAIN disk \cup es
    BY <1>2 DEF Put
  <1>12. Files2'
    <2>1. HtmlTemp(job[p]) \notin DOMAIN disk /\ MetadataTemp(job[p]) \notin DOMAIN disk
      BY <1>2 DEF IInv, Temporaries
    <2>2. HtmlTemp(job[p]) \notin es /\ MetadataTemp(job[p]) \notin es
      BY <1>5 DEF Directory, Scratch, HtmlTemp, MetadataTemp
    <2> HIDE DEF es
    <2> QED
      BY <1>2, <1>4, <1>10, <1>11, <2>1, <2>2, FilesAdvance
  <1>13. AtWork(p) => \A e \in es : e[3] \in pending[p].dirs
    <2>1. AtWork(p) => DirOf[r] \in pending[p].dirs
      BY WorkFacts
    <2>2. AtWork(p) /\ MissingParents(r) # {} => Root \in pending[p].dirs
      BY <1>2 DEF IInv, Counted
    <2> QED
      BY <1>5, <2>1, <2>2 DEF Directory, Scratch
  <1>14. Usage(disk', es) = [bytes |-> 0, entries |-> Cardinality(es)]
    BY <1>2, <1>8, <1>9, CreateAdds
  <1>15. pc'[p] = "html_temp"
    BY <1>2 DEF IInv, TypeOK
  <1>16. /\ Absent(PublicationLock(r))' = Absent(PublicationLock(r))
         /\ Absent(MetadataDirectory(r))' = Absent(MetadataDirectory(r))
    BY <1>2, <1>5, <1>11 DEF Absent, PublicationLock, MetadataDirectory, Directory, Scratch
  <1>17. SupportLeft(r)' = SupportLeft(r) /\ SupportLeft(r) \in Nat /\ Absent(Scratch(r)) \in Nat
    BY <1>2, <1>16 DEF SupportLeft, Absent
  <1>18. Remaining(p)' = [bytes |-> job[p].html + job[p].metadata, entries |-> 2 + SupportLeft(r)]
    BY <1>2, <1>15, <1>17 DEF Remaining
  <1>19. Remaining(p) = [bytes |-> job[p].html + job[p].metadata,
                         entries |-> Cardinality(MissingParents(r)) + Absent(Scratch(r)) + 2 + SupportLeft(r)]
    BY <1>2 DEF Remaining
  <1>20. Cardinality(MissingParents(r)) \in Nat
    BY <1>5, FS_CardinalityType
  <1>21. /\ Remaining(p)' \in UsageType
         /\ Usage(disk', es).bytes + Remaining(p)'.bytes <= Remaining(p).bytes
         /\ Usage(disk', es).entries + Remaining(p)'.entries <= Remaining(p).entries
    <2> HIDE DEF es, r
    <2> QED
      BY <1>3, <1>8, <1>14, <1>17, <1>18, <1>19, <1>20 DEF UsageType
  <1> HIDE DEF es
  <1>22. Kept'
    BY <1>1, <1>4, <1>8, <1>9, <1>12, KeptCreate
  <1>23. Accounts'
    BY <1>1, <1>4, <1>8, <1>9, <1>13, <1>21, AccountCreate
  <1> QED
    BY <1>22, <1>23

\* Writing the temporary HTML keeps the whole invariant.
LEMMA StepHtmlTemp ==
  ASSUME IInv, NEW p \in Publishers, PrepareHtml(p)
  PROVE  Kept' /\ Accounts'
  <1> DEFINE r == job[p].route
             t == HtmlTemp(job[p])
             n == job[p].html
  <1>1. Create(p, "html_temp", "metadata_temp", {t}, n)
    BY DEF PrepareHtml
  <1>2. /\ pc[p] = "html_temp" /\ disk' = Put(disk, {t}, n) /\ pc' = [pc EXCEPT ![p] = "metadata_temp"]
        /\ UNCHANGED <<job, seq, pending>>
    BY <1>1 DEF Create
  <1>3. r \in Routes /\ n \in Nat /\ job[p].metadata \in Nat /\ n \in 0..MaxWord
    BY WorkFacts
  <1>4. /\ "html_temp" \in Publishing /\ "metadata_temp" \in Publishing /\ "metadata_temp" \in Points
    BY DEF Publishing, Points
  <1>5. t \notin DOMAIN disk /\ MetadataTemp(job[p]) \notin DOMAIN disk
    BY <1>2 DEF IInv, Temporaries
  <1>6. t \in Entries /\ t \in Temps(p)
    BY <1>2, TempsTyped DEF Temps
  <1>7. IsFiniteSet({t})
    BY FS_Singleton
  <1>8. DOMAIN disk' = DOMAIN disk \cup {t}
    BY <1>2 DEF Put
  <1>9. Files2'
    <2>1. MetadataTemp(job[p]) # t
      BY DEF HtmlTemp, MetadataTemp
    <2> QED
      BY <1>2, <1>4, <1>5, <1>6, <1>8, <2>1, FilesAdvance
  <1>10. AtWork(p) => t[3] \in pending[p].dirs
    BY WorkFacts DEF HtmlTemp
  <1>11. Usage(disk', {t}) = [bytes |-> n, entries |-> 1]
    <2>1. disk'[t] = n
      BY <1>2 DEF Put
    <2> QED
      BY <1>3, <2>1, UsageOfOne
  <1>12. pc'[p] = "metadata_temp"
    BY <1>2 DEF IInv, TypeOK
  <1>13. /\ Absent(PublicationLock(r))' = Absent(PublicationLock(r))
         /\ Absent(MetadataDirectory(r))' = Absent(MetadataDirectory(r))
    BY <1>2, <1>8 DEF Absent, PublicationLock, MetadataDirectory, HtmlTemp
  <1>14. SupportLeft(r)' = SupportLeft(r) /\ SupportLeft(r) \in Nat
    BY <1>2, <1>13 DEF SupportLeft, Absent
  <1>15. Remaining(p)' = [bytes |-> job[p].metadata, entries |-> 1 + SupportLeft(r)]
    BY <1>2, <1>12, <1>14 DEF Remaining
  <1>16. Remaining(p) = [bytes |-> n + job[p].metadata, entries |-> 2 + SupportLeft(r)]
    BY <1>2 DEF Remaining
  <1>17. /\ Remaining(p)' \in UsageType
         /\ Usage(disk', {t}).bytes + Remaining(p)'.bytes <= Remaining(p).bytes
         /\ Usage(disk', {t}).entries + Remaining(p)'.entries <= Remaining(p).entries
    BY <1>3, <1>11, <1>14, <1>15, <1>16 DEF UsageType
  <1>18. {t} \subseteq Entries /\ {t} \cap DOMAIN disk = {} /\ (AtWork(p) => \A e \in {t} : e[3] \in pending[p].dirs)
    BY <1>5, <1>6, <1>10
  <1> HIDE DEF t, n
  <1>19. Kept'
    BY <1>1, <1>3, <1>4, <1>7, <1>9, <1>18, KeptCreate
  <1>20. Accounts'
    BY <1>1, <1>3, <1>4, <1>7, <1>17, <1>18, AccountCreate
  <1> QED
    BY <1>19, <1>20

\* Writing the temporary metadata keeps the whole invariant.
LEMMA StepMetadataTemp ==
  ASSUME IInv, NEW p \in Publishers, PrepareMetadata(p)
  PROVE  Kept' /\ Accounts'
  <1> DEFINE r == job[p].route
             t == MetadataTemp(job[p])
             n == job[p].metadata
  <1>1. Create(p, "metadata_temp", "support", {t}, n)
    BY DEF PrepareMetadata
  <1>2. /\ pc[p] = "metadata_temp" /\ disk' = Put(disk, {t}, n) /\ pc' = [pc EXCEPT ![p] = "support"]
        /\ UNCHANGED <<job, seq, pending>>
    BY <1>1 DEF Create
  <1>3. r \in Routes /\ n \in Nat /\ n \in 0..MaxWord
    BY WorkFacts
  <1>4. /\ "metadata_temp" \in Publishing /\ "support" \in Publishing /\ "support" \in Points
    BY DEF Publishing, Points
  <1>5. t \notin DOMAIN disk /\ HtmlTemp(job[p]) \in DOMAIN disk
    BY <1>2 DEF IInv, Temporaries
  <1>6. t \in Entries /\ t \in Temps(p)
    BY <1>2, TempsTyped DEF Temps
  <1>7. IsFiniteSet({t})
    BY FS_Singleton
  <1>8. DOMAIN disk' = DOMAIN disk \cup {t}
    BY <1>2 DEF Put
  <1>9. Files2'
    BY <1>2, <1>4, <1>5, <1>6, <1>8, FilesAdvance
  <1>10. AtWork(p) => t[3] \in pending[p].dirs
    BY WorkFacts DEF MetadataTemp
  <1>11. Usage(disk', {t}) = [bytes |-> n, entries |-> 1]
    <2>1. disk'[t] = n
      BY <1>2 DEF Put
    <2> QED
      BY <1>3, <2>1, UsageOfOne
  <1>12. pc'[p] = "support"
    BY <1>2 DEF IInv, TypeOK
  <1>13. /\ Absent(PublicationLock(r))' = Absent(PublicationLock(r))
         /\ Absent(MetadataDirectory(r))' = Absent(MetadataDirectory(r))
    BY <1>2, <1>8 DEF Absent, PublicationLock, MetadataDirectory, MetadataTemp
  <1>14. SupportLeft(r)' = SupportLeft(r) /\ SupportLeft(r) \in Nat
    BY <1>2, <1>13 DEF SupportLeft, Absent
  <1>15. Remaining(p)' = [bytes |-> 0, entries |-> SupportLeft(r)]
    BY <1>2, <1>12, <1>14 DEF Remaining
  <1>16. Remaining(p) = [bytes |-> n, entries |-> 1 + SupportLeft(r)]
    BY <1>2 DEF Remaining
  <1>17. /\ Remaining(p)' \in UsageType
         /\ Usage(disk', {t}).bytes + Remaining(p)'.bytes <= Remaining(p).bytes
         /\ Usage(disk', {t}).entries + Remaining(p)'.entries <= Remaining(p).entries
    BY <1>3, <1>11, <1>14, <1>15, <1>16 DEF UsageType
  <1>18. {t} \subseteq Entries /\ {t} \cap DOMAIN disk = {} /\ (AtWork(p) => \A e \in {t} : e[3] \in pending[p].dirs)
    BY <1>5, <1>6, <1>10
  <1> HIDE DEF t, n
  <1>19. Kept'
    BY <1>1, <1>3, <1>4, <1>7, <1>9, <1>18, KeptCreate
  <1>20. Accounts'
    BY <1>1, <1>3, <1>4, <1>7, <1>17, <1>18, AccountCreate
  <1> QED
    BY <1>19, <1>20

\* Creating the publication lock and the metadata directory keeps the whole invariant.
LEMMA StepSupport ==
  ASSUME IInv, NEW p \in Publishers, CreateSupport(p)
  PROVE  Kept' /\ Accounts'
  <1> DEFINE r == job[p].route
             es == {PublicationLock(r), MetadataDirectory(r)} \ DOMAIN disk
  <1>1. Create(p, "support", "metadata", es, 0)
    BY DEF CreateSupport
  <1>2. /\ pc[p] = "support" /\ disk' = Put(disk, es, 0) /\ pc' = [pc EXCEPT ![p] = "metadata"]
        /\ UNCHANGED <<job, seq, pending>>
    BY <1>1 DEF Create
  <1>3. r \in Routes
    BY WorkFacts
  <1>4. "support" \in Publishing /\ "metadata" \in Publishing /\ "metadata" \in Points /\ 0 \in 0..MaxWord
    BY SizesAssumption DEF Publishing, Points
  <1>5. PublicationLock(r) # MetadataDirectory(r)
    BY DEF PublicationLock, MetadataDirectory
  <1>6. IsFiniteSet(es) /\ Cardinality(es) = SupportLeft(r)
    BY <1>5, CountAbsentTwo DEF SupportLeft, Absent
  <1>7. es \subseteq Entries /\ es \cap DOMAIN disk = {}
    BY <1>3, EntriesTyped
  <1>8. \A e \in es : e[1] \notin TempKinds /\ e[3] = DirOf[r]
    BY DEF PublicationLock, MetadataDirectory, TempKinds
  <1>9. DOMAIN disk' = DOMAIN disk \cup es
    BY <1>2 DEF Put
  <1>10. Files2'
    <2>1. HtmlTemp(job[p]) \in DOMAIN disk /\ MetadataTemp(job[p]) \in DOMAIN disk
      BY <1>2 DEF IInv, Temporaries
    <2> HIDE DEF es
    <2> QED
      BY <1>2, <1>4, <1>8, <1>9, <2>1, FilesAdvance
  <1>11. AtWork(p) => \A e \in es : e[3] \in pending[p].dirs
    BY <1>8, WorkFacts
  <1>12. Usage(disk', es) = [bytes |-> 0, entries |-> Cardinality(es)]
    BY <1>2, <1>6, <1>7, CreateAdds
  <1>13. pc'[p] = "metadata"
    BY <1>2 DEF IInv, TypeOK
  <1>14. Remaining(p)' = [bytes |-> 0, entries |-> 0] /\ Remaining(p) = [bytes |-> 0, entries |-> SupportLeft(r)]
    BY <1>2, <1>13 DEF Remaining
  <1>15. SupportLeft(r) \in Nat
    BY DEF SupportLeft, Absent
  <1>16. /\ Remaining(p)' \in UsageType
         /\ Usage(disk', es).bytes + Remaining(p)'.bytes <= Remaining(p).bytes
         /\ Usage(disk', es).entries + Remaining(p)'.entries <= Remaining(p).entries
    <2> HIDE DEF es, r
    <2> QED
      BY <1>6, <1>12, <1>14, <1>15 DEF UsageType
  <1> HIDE DEF es
  <1>17. Kept'
    BY <1>1, <1>4, <1>6, <1>7, <1>10, KeptCreate
  <1>18. Accounts'
    BY <1>1, <1>4, <1>6, <1>7, <1>11, <1>16, AccountCreate
  <1> QED
    BY <1>17, <1>18

\* A rename never adds to the inventory.
LEMMA RenameShrinks ==
  ASSUME IInv, NEW temp \in DOMAIN disk, NEW name, temp # name,
         disk' = Put(Without(disk, {temp}), {name}, disk[temp])
  PROVE  /\ Inventory(disk').bytes <= Inventory(disk).bytes
         /\ Inventory(disk').entries <= Inventory(disk).entries
  <1> DEFINE rest == DOMAIN disk \ {temp, name}
             kept == DOMAIN disk \ {temp}
  <1>1. IsFiniteSet(DOMAIN disk) /\ disk[temp] \in 0..MaxWord
    BY DEF IInv, Sized, TypeOK
  <1>2. IsFiniteSet(rest) /\ IsFiniteSet(kept) /\ IsFiniteSet({name}) /\ IsFiniteSet({temp})
    BY <1>1, FS_Difference, FS_Singleton
  <1>3. DOMAIN disk' = rest \cup {name} /\ disk'[name] = disk[temp] /\ \A e \in rest : disk'[e] = disk[e]
    BY DEF Put, Without
  <1>4. DOMAIN disk = kept \cup {temp}
    OBVIOUS
  <1>5. Usage(disk', rest \cup {name}) = Plus(Usage(disk', rest), Usage(disk', {name}))
    BY <1>2, UsageAdds
  <1>6. Usage(disk, kept \cup {temp}) = Plus(Usage(disk, kept), Usage(disk, {temp}))
    BY <1>2, UsageAdds
  <1>7. Usage(disk', rest) = Usage(disk, rest)
    <2> HIDE DEF rest
    <2> QED
      BY <1>3, UsageAgrees, Zenon
  <1>8. Usage(disk', {name}) = [bytes |-> disk[temp], entries |-> 1]
    <2>1. disk'[name] \in 0..MaxWord
      BY <1>1, <1>3
    <2>2. Usage(disk', {name}) = [bytes |-> disk'[name], entries |-> 1]
      BY <2>1, UsageOfOne, Zenon
    <2> QED
      BY <1>3, <2>2
  <1>9. Usage(disk, {temp}) = [bytes |-> disk[temp], entries |-> 1]
    BY <1>1, UsageOfOne
  <1>10. /\ Usage(disk, rest).bytes <= Usage(disk, kept).bytes
         /\ Usage(disk, rest).entries <= Usage(disk, kept).entries
    <2>1. rest \in SUBSET kept
      OBVIOUS
    <2> QED
      BY <1>2, <2>1, UsageGrows
  <1>11. Usage(disk, rest) \in UsageType /\ Usage(disk, kept) \in UsageType /\ disk[temp] \in Nat
    BY <1>1, <1>2, UsageFinite, SizesAssumption
  <1>12. Inventory(disk') = Plus(Usage(disk, rest), [bytes |-> disk[temp], entries |-> 1])
    <2> HIDE DEF rest
    <2> QED
      BY <1>3, <1>5, <1>7, <1>8 DEF Inventory
  <1>13. Inventory(disk) = Plus(Usage(disk, kept), [bytes |-> disk[temp], entries |-> 1])
    <2> HIDE DEF kept
    <2> QED
      BY <1>4, <1>6, <1>9 DEF Inventory
  <1> HIDE DEF rest, kept
  <1> QED
    BY <1>10, <1>11, <1>12, <1>13 DEF Plus, UsageType

\* Publishing a file keeps the accounts.
LEMMA AccountRename ==
  ASSUME IInv, NEW p \in Publishers, NEW from \in {"metadata", "html"}, NEW to \in {"html", "commit"},
         NEW temp \in DOMAIN disk, NEW name \in Entries, temp # name, Rename(p, from, to, temp, name),
         temp[3] = DirOf[job[p].route], name[3] = DirOf[job[p].route]
  PROVE  Accounts'
  <1>1. /\ UNCHANGED <<record, generation, exclusive, cached, job, pending>> /\ pc[p] = from
        /\ pc' = [pc EXCEPT ![p] = to] /\ disk' = Put(Without(disk, {temp}), {name}, disk[temp])
    BY DEF Rename
  <1>2. CASE record = None /\ exclusive = None
    BY <1>1, <1>2, Unaccounted
  <1>3. CASE AtWork(p)
    <2>1. IsFiniteSet(DOMAIN disk')
      BY DiskRename DEF DiskTyped
    <2>2. DirOf[job[p].route] \in pending[p].dirs
      BY <1>3, WorkFacts
    <2>3. \A e : e[3] \notin pending[p].dirs =>
            /\ e \in DOMAIN disk' <=> e \in DOMAIN disk
            /\ e \in DOMAIN disk => disk'[e] = disk[e]
      BY <1>1, <2>2 DEF Put, Without
    <2>4. pc'[p] = to
      BY <1>1 DEF IInv, TypeOK
    <2>5. Remaining(p) = [bytes |-> 0, entries |-> 0] /\ Remaining(p)' = [bytes |-> 0, entries |-> 0]
      BY <1>1, <2>4 DEF Remaining
    <2>6. /\ Inventory(disk').bytes <= Inventory(disk).bytes
          /\ Inventory(disk').entries <= Inventory(disk).entries
      BY <1>1, RenameShrinks
    <2>7. Inventory(disk') \in UsageType /\ Inventory(disk) \in UsageType
      BY <2>1, InventoryTyped, WorkFacts
    <2>8. /\ Plus(Inventory(disk'), Remaining(p)').bytes <= Plus(Inventory(disk), Remaining(p)).bytes
          /\ Plus(Inventory(disk'), Remaining(p)').entries <= Plus(Inventory(disk), Remaining(p)).entries
      BY <2>5, <2>6, <2>7 DEF Plus, UsageType
    <2>9. /\ Plus(Inventory(disk)', Remaining(p)').bytes <= Plus(Inventory(disk), Remaining(p)).bytes
          /\ Plus(Inventory(disk)', Remaining(p)').entries <= Plus(Inventory(disk), Remaining(p)).entries
      BY <2>8 DEF Inventory
    <2>10. to \in Publishing /\ to # "parents" /\ Remaining(p)' \in UsageType
      BY <2>5 DEF Publishing, UsageType
    <2> QED
      BY <1>1, <1>3, <2>1, <2>3, <2>9, <2>10, AccountWork
  <1>4. pc[p] \in Publishing
    BY <1>1 DEF Publishing
  <1> QED
    BY <1>2, <1>3, <1>4, WorkIsLeased

\* Publishing the metadata keeps the whole invariant.
LEMMA StepPublishMetadata ==
  ASSUME IInv, NEW p \in Publishers, PublishMetadata(p)
  PROVE  Kept' /\ Accounts'
  <1> DEFINE t == MetadataTemp(job[p])
             f == Metadata(job[p].route)
  <1>1. Rename(p, "metadata", "html", t, f)
    BY DEF PublishMetadata
  <1>2. /\ pc[p] = "metadata" /\ pc' = [pc EXCEPT ![p] = "html"] /\ UNCHANGED <<job, seq>>
    BY <1>1 DEF Rename
  <1>3. t \in DOMAIN disk /\ HtmlTemp(job[p]) \in DOMAIN disk
    BY <1>2 DEF IInv, Temporaries
  <1>4. f \in Entries
    BY WorkFacts, EntriesTyped
  <1>5. t # f /\ t # HtmlTemp(job[p]) /\ f # HtmlTemp(job[p])
    BY DEF MetadataTemp, HtmlTemp, Metadata
  <1>6. t \in Temps(p) /\ f[1] \notin TempKinds
    BY DEF Temps, TempKinds, Metadata
  <1>7. t[3] = DirOf[job[p].route] /\ f[3] = DirOf[job[p].route]
    BY DEF MetadataTemp, Metadata
  <1>8. "metadata" \in Publishing /\ "html" \in Publishing /\ "html" \in Points
    BY DEF Publishing, Points
  <1> HIDE DEF t, f
  <1>9. DOMAIN disk' = (DOMAIN disk \ {t}) \cup {f}
    BY <1>1, <1>3, <1>4, DiskRename
  <1>10. Files2'
    BY <1>2, <1>3, <1>5, <1>6, <1>8, <1>9, FilesAdvance
  <1>11. Kept'
    BY <1>1, <1>3, <1>4, <1>6, <1>8, <1>10, KeptRename
  <1>12. Accounts'
    BY <1>1, <1>3, <1>4, <1>5, <1>7, AccountRename
  <1> QED
    BY <1>11, <1>12

\* Publishing the HTML keeps the whole invariant.
LEMMA StepPublishHtml ==
  ASSUME IInv, NEW p \in Publishers, PublishHtml(p)
  PROVE  Kept' /\ Accounts'
  <1> DEFINE t == HtmlTemp(job[p])
             f == Html(job[p].route)
  <1>1. Rename(p, "html", "commit", t, f)
    BY DEF PublishHtml
  <1>2. /\ pc[p] = "html" /\ pc' = [pc EXCEPT ![p] = "commit"] /\ UNCHANGED <<job, seq>>
    BY <1>1 DEF Rename
  <1>3. t \in DOMAIN disk
    BY <1>2 DEF IInv, Temporaries
  <1>4. f \in Entries
    BY WorkFacts, EntriesTyped
  <1>5. t # f
    BY DEF HtmlTemp, Html
  <1>6. t \in Temps(p) /\ f[1] \notin TempKinds
    BY DEF Temps, TempKinds, Html
  <1>7. t[3] = DirOf[job[p].route] /\ f[3] = DirOf[job[p].route]
    BY DEF HtmlTemp, Html
  <1>8. "html" \in Publishing /\ "commit" \in Publishing /\ "commit" \in Points
    BY DEF Publishing, Points
  <1> HIDE DEF t, f
  <1>9. DOMAIN disk' = (DOMAIN disk \ {t}) \cup {f}
    BY <1>1, <1>3, <1>4, DiskRename
  <1>10. Files2'
    BY <1>2, <1>3, <1>5, <1>6, <1>8, <1>9, FilesAdvance
  <1>11. Kept'
    BY <1>1, <1>3, <1>4, <1>6, <1>8, <1>10, KeptRename
  <1>12. Accounts'
    BY <1>1, <1>3, <1>4, <1>5, <1>7, AccountRename
  <1> QED
    BY <1>11, <1>12

-----------------------------------------------------------------------------
(* Steps that begin and end leases.                                        *)

\* Beginning a publication keeps the whole invariant.
LEMMA StepBegin ==
  ASSUME IInv, NEW p \in Publishers, Begin(p)
  PROVE  Kept' /\ Accounts'
  <1>1. TypeOK /\ Sized
    BY DEF IInv
  <1>2. /\ UNCHANGED <<disk, record, generation, exclusive, cached, pending>> /\ pc[p] = "idle"
        /\ pc' = [pc EXCEPT ![p] = "coordinate"]
        /\ \A q \in Publishers \ {p} : job'[q] = job[q]
    BY <1>1 DEF Begin, TypeOK
  <1>3. pc'[p] = "coordinate" /\ \A q \in Publishers \ {p} : pc'[q] = pc[q]
    BY <1>1, <1>2 DEF TypeOK
  <1>4. SameDisk
    BY <1>2 DEF SameDisk
  <1>5. ~AtWork(p) /\ ~AtWork(p)' /\ \A q \in Publishers \ {p} : AtWork(q)' <=> AtWork(q)
    BY <1>2, <1>3 DEF AtWork, Publishing
  <1>6. Accounts'
    BY <1>2, <1>3, <1>4, <1>5, Undisturbed
  <1>7. DiskTyped(disk)'
    BY <1>1, <1>2, TypeSplits DEF DiskTyped, Entries, Names, Kinds
  <1> QED
    BY <1>6, <1>7, ControlBegin, RestBegin, FilesBegin DEF Kept

\* Taking the exclusive lease keeps the whole invariant.
LEMMA StepBound ==
  ASSUME IInv, NEW p \in Publishers, CoordinateBound(p)
  PROVE  Kept' /\ Accounts'
  <1>1. TypeOK /\ Sized
    BY DEF IInv
  <1>2. /\ UNCHANGED <<disk, managed, record, generation, shared, cached, open, job, pending, seq, crashes>>
        /\ exclusive = None /\ exclusive' = p
        /\ pc' = [pc EXCEPT ![p] = "admit"]
    BY DEF CoordinateBound
  <1>3. pc'[p] = "admit" /\ \A q \in Publishers \ {p} : pc'[q] = pc[q]
    BY <1>1, <1>2 DEF TypeOK
  <1>4. SameDisk
    BY <1>2 DEF SameDisk
  <1>5. \A q \in Publishers : ~AtWork(q) /\ ~AtWork(q)'
    BY <1>2, <1>3, NoneAssumption DEF AtWork, Publishing
  <1>6. Accounts'
    BY <1>2, <1>3, <1>4, <1>5, Undisturbed
  <1>7. DiskTyped(disk)'
    BY <1>1, <1>2, TypeSplits DEF DiskTyped, Entries, Names, Kinds
  <1>8. RestTyped'
    <2>1. exclusive' \in Publishers \cup {None} /\ shared' \in SUBSET Publishers /\ "admit" \in Points
      BY <1>1, <1>2 DEF TypeOK, Points
    <2> QED
      BY <1>2, <2>1, RestAdvance
  <1> QED
    BY <1>6, <1>7, <1>8, ControlBound, FilesBound DEF Kept

\* A publication that has created nothing ends its lease.
LEMMA AccountLeave ==
  ASSUME IInv, NEW p \in Publishers, pc[p] \notin Publishing, Unlock(p), SameDisk,
         UNCHANGED <<record, generation, cached>>
  PROVE  Accounts'
  <1>1. TypeOK
    BY DEF IInv
  <1>2. /\ pc'[p] = "idle" /\ pending'[p] = None
        /\ \A q \in Publishers \ {p} : pc'[q] = pc[q] /\ job'[q] = job[q] /\ pending'[q] = pending[q]
        /\ exclusive' = (IF exclusive = p THEN None ELSE exclusive)
    BY <1>1 DEF Unlock, TypeOK
  <1>3. ~AtWork(p) /\ ~AtWork(p)'
    BY <1>2 DEF AtWork, Publishing
  <1>4. \A q \in Publishers \ {p} : AtWork(q)' <=> AtWork(q)
    BY <1>2, NoneAssumption DEF AtWork
  <1> QED
    BY <1>2, <1>3, <1>4, Undisturbed

\* Taking the shared lease, or being refused it keeps the whole invariant.
LEMMA StepUnlimited ==
  ASSUME IInv, NEW p \in Publishers, CoordinateUnlimited(p)
  PROVE  Kept' /\ Accounts'
  <1>1. TypeOK /\ RootsApart
    BY DEF IInv
  <1>2. /\ UNCHANGED <<record, generation, cached>> /\ pc[p] = "coordinate" /\ exclusive = None
    BY DEF CoordinateUnlimited
  <1>3. Accounts'
    <2>1. CASE record = None
      <3>1. exclusive' = None /\ \A q \in Publishers : pending'[q] = pending[q] \/ pending'[q] = None
        BY <1>1, <1>2 DEF CoordinateUnlimited, Unlock, TypeOK
      <3> QED
        BY <1>2, <2>1, <3>1, Unaccounted
    <2>2. CASE record # None
      <3>1. Unlock(p)
        BY <2>2 DEF CoordinateUnlimited
      <3>2. SameDisk
        BY <1>1, <2>2 DEF SameDisk, CoordinateUnlimited, RootsApart, Put
      <3>3. pc[p] \notin Publishing
        BY <1>2 DEF Publishing
      <3> QED
        BY <1>2, <3>1, <3>2, <3>3, AccountLeave
    <2> QED
      BY <2>1, <2>2
  <1> QED
    BY <1>3, ControlUnlimited, DiskUnlimited, RestUnlimited, FilesUnlimited DEF Kept

\* A publication at work fails: the caches stay behind, and files only go.
LEMMA StepFail ==
  ASSUME IInv, NEW p \in Publishers, Fail(p)
  PROVE  Kept' /\ Accounts'
  <1>1. TypeOK /\ Sized /\ Temporaries /\ Caches /\ Counted /\ WithinLimits
    BY DEF IInv
  <1>2. UNCHANGED <<managed, record, generation, cached, open, seq, crashes>> /\ Unlock(p)
    BY DEF Fail
  <1>3. /\ pc'[p] = "idle" /\ pending'[p] = None
        /\ \A q \in Publishers \ {p} : pc'[q] = pc[q] /\ job'[q] = job[q] /\ pending'[q] = pending[q]
        /\ exclusive' = (IF exclusive = p THEN None ELSE exclusive)
    BY <1>1, <1>2 DEF Unlock, TypeOK
  <1>4. /\ DOMAIN disk' \subseteq DOMAIN disk /\ DOMAIN disk \ Temps(p) \subseteq DOMAIN disk'
        /\ \A e \in DOMAIN disk' : disk'[e] = disk[e]
    BY DiskFail
  <1>5. Kept'
    <2>1. generation' \in 0..MaxWord /\ cached' \in [Processes -> CacheType \cup {None}]
      BY <1>1, <1>2 DEF TypeOK
    <2> QED
      BY <1>2, <2>1, ControlFail, DiskFail, FilesFail, RestUnlock DEF Kept
  <1>6. ASSUME pc[p] \notin Publishing PROVE Accounts'
    <2>1. pc[p] \in {"coordinate", "admit"}
      BY <1>6 DEF Fail
    <2>2. Temps(p) \cap DOMAIN disk = {}
      BY <1>1, <2>1 DEF Temporaries, Temps
    <2>3. SameDisk
      BY <1>4, <2>2 DEF SameDisk
    <2> QED
      BY <1>2, <1>6, <2>3, AccountLeave
  <1>7. ASSUME pc[p] \in Publishing PROVE Accounts'
    <2>1. CASE record = None /\ exclusive = None
      BY <1>2, <1>3, <2>1, Unaccounted
    <2>2. CASE AtWork(p)
      <3>1. exclusive = p /\ p # None /\ record # None /\ record # Invalid /\ record \in UsageType
        BY <2>2, HolderIsBound, NoneAssumption DEF AtWork
      <3>2. \A q \in Publishers : ~AtWork(q)'
        BY <1>3, <3>1, NoneAssumption DEF AtWork
      <3>3. \A q \in Publishers \ {p} : ~AtWork(q)
        BY <3>1 DEF AtWork
      <3>4. Caches'
        <4>1. \A h \in Processes : cached[h] # None => cached[h].generation < generation
          BY <1>1, <2>2 DEF Caches
        <4>2. generation \in Nat /\ \A h \in Processes : cached[h] # None => cached[h].generation \in Nat
          BY <1>1, SizesAssumption DEF TypeOK, CacheType
        <4> QED
          BY <1>2, <3>1, <3>2, <4>1, <4>2 DEF Caches, CacheHit
      <3>5. Counted'
        BY <1>1, <1>3, <3>2, <3>3 DEF Counted
      <3>6. WithinLimits'
        <4>1. Usage(disk', DOMAIN disk') = Usage(disk, DOMAIN disk')
          BY <1>4, UsageAgrees
        <4>2. /\ Usage(disk, DOMAIN disk').bytes <= Usage(disk, DOMAIN disk).bytes
              /\ Usage(disk, DOMAIN disk').entries <= Usage(disk, DOMAIN disk).entries
          BY <1>1, <1>4, UsageGrows DEF Sized
        <4>3. Usage(disk, DOMAIN disk) \in UsageType /\ Usage(disk, DOMAIN disk') \in UsageType
          <5>1. IsFiniteSet(DOMAIN disk')
            BY DiskFail DEF DiskTyped
          <5> QED
            BY <1>1, <5>1, UsageFinite DEF Sized
        <4>4. Within(Usage(disk, DOMAIN disk), record)
          BY <1>1, <3>1 DEF WithinLimits, Inventory
        <4>5. Within(Usage(disk', DOMAIN disk'), record)
          BY <3>1, <4>1, <4>2, <4>3, <4>4 DEF Within, UsageType
        <4> QED
          BY <1>2, <4>5 DEF WithinLimits, Within, Inventory
      <3>7. Admitted'
        BY <3>2 DEF Admitted
      <3> QED
        BY <3>4, <3>5, <3>6, <3>7 DEF Accounts
    <2> QED
      BY <1>7, <2>1, <2>2, WorkIsLeased
  <1> QED
    BY <1>5, <1>6, <1>7

\* The total an admission starts from is the inventory: nobody is at work, so
\* a cache at the generation of the record is exact.
LEMMA TotalIsExact ==
  ASSUME IInv, NEW p \in Publishers, pc[p] = "admit", NEW h \in Processes
  PROVE  /\ exclusive = p /\ \A q \in Publishers : ~AtWork(q)
         /\ (IF CacheHit(h) THEN cached[h].usage ELSE Inventory(disk)) = Inventory(disk)
  <1>1. Leases /\ Caches
    BY DEF IInv
  <1>2. exclusive = p
    BY <1>1 DEF Leases
  <1>3. \A q \in Publishers : ~AtWork(q)
    BY <1>2 DEF AtWork, Publishing
  <1> QED
    BY <1>1, <1>2, <1>3 DEF Caches

\* The support entries that are missing.
LEMMA SupportCounted ==
  ASSUME NEW r
  PROVE  Cardinality({Scratch(r), PublicationLock(r), MetadataDirectory(r)} \ DOMAIN disk)
           = Absent(Scratch(r)) + SupportLeft(r)
  <1>1. /\ Scratch(r) # PublicationLock(r) /\ Scratch(r) # MetadataDirectory(r)
        /\ PublicationLock(r) # MetadataDirectory(r)
    BY DEF Scratch, PublicationLock, MetadataDirectory
  <1>2. Cardinality({Scratch(r), PublicationLock(r), MetadataDirectory(r)} \ DOMAIN disk)
            = Cardinality({Scratch(r)} \ DOMAIN disk)
               + Cardinality({PublicationLock(r), MetadataDirectory(r)} \ DOMAIN disk)
    <2> DEFINE A == {Scratch(r)} \ DOMAIN disk
               B == {PublicationLock(r), MetadataDirectory(r)} \ DOMAIN disk
    <2>1. {Scratch(r), PublicationLock(r), MetadataDirectory(r)} \ DOMAIN disk = A \cup B
      OBVIOUS
    <2>2. A \cap B = {}
      BY <1>1
    <2>3. IsFiniteSet(A) /\ IsFiniteSet(B)
      BY <1>1, CountAbsent, CountAbsentTwo
    <2> HIDE DEF A, B
    <2>4. Cardinality(A \cup B) = Cardinality(A) + Cardinality(B)
      BY <2>2, <2>3, CountJoined
    <2> QED
      BY <2>1, <2>4, Zenon DEF A, B
  <1>3. Cardinality({Scratch(r)} \ DOMAIN disk) = Absent(Scratch(r))
    BY CountAbsent DEF Absent
  <1>4. Cardinality({PublicationLock(r), MetadataDirectory(r)} \ DOMAIN disk) = SupportLeft(r)
    BY <1>1, CountAbsentTwo DEF Absent, SupportLeft
  <1> QED
    BY <1>2, <1>3, <1>4

\* What a publication has still to create when it is admitted is within the
\* peak that was admitted.
LEMMA PeakCovers ==
  ASSUME IInv, NEW p \in Publishers, record \in UsageType, Within(Peak(Inventory(disk), job[p]), record),
         UNCHANGED <<disk, job>>, pc'[p] = "parents"
  PROVE  Within(Plus(Inventory(disk), Remaining(p)'), record)
  <1> DEFINE r == job[p].route
             D == DOMAIN disk
             support == {Scratch(r), PublicationLock(r), MetadataDirectory(r)}
             left == IF MissingParents(r) # {} THEN 3 ELSE Cardinality(support \ D)
  <1>1. r \in Routes /\ job[p].html \in Nat /\ job[p].metadata \in Nat /\ Inventory(disk) \in UsageType
    BY WorkFacts
  <1>2. Cardinality(MissingParents(r)) \in Nat
    BY <1>1, ParentsTyped, FS_CardinalityType
  <1>4. Cardinality(support \ D) = Absent(Scratch(r)) + SupportLeft(r)
    BY SupportCounted
  <1>5. \A e : Absent(e) \in 0..1
    BY DEF Absent
  <1>6. Absent(Scratch(r)) + SupportLeft(r) <= left /\ left \in Nat
    BY <1>4, <1>5 DEF SupportLeft
  <1>7. Peak(Inventory(disk), job[p]) =
          [bytes |-> Inventory(disk).bytes + job[p].html + job[p].metadata,
           entries |-> Inventory(disk).entries + Cardinality(MissingParents(r)) + 2 + left]
    BY DEF Peak
  <1>8. Remaining(p)' = [bytes |-> job[p].html + job[p].metadata,
           entries |-> Cardinality(MissingParents(r)) + Absent(Scratch(r)) + 2 + SupportLeft(r)]
    BY DEF Remaining, MissingParents, Absent, SupportLeft, Scratch, PublicationLock, MetadataDirectory,
       Directory
  <1>9. SupportLeft(r) \in Nat /\ Absent(Scratch(r)) \in Nat
    BY <1>5 DEF SupportLeft
  <1> HIDE DEF left, support, D, r
  <1> QED
    BY <1>1, <1>2, <1>6, <1>7, <1>8, <1>9 DEF Within, Plus, UsageType

\* An admission or its refusal keeps the whole invariant.
LEMMA StepAdmit ==
  ASSUME IInv, NEW p \in Publishers, Admit(p)
  PROVE  Kept' /\ Accounts'
  <1> DEFINE h == ProcessOf[p]
             total == IF CacheHit(h) THEN cached[h].usage ELSE Inventory(disk)
             dirs == Touched(job[p].route)
             pend == [total |-> total, before |-> LocalUsage(disk, dirs), dirs |-> dirs]
  <1>1. TypeOK /\ Sized /\ Caches /\ Counted /\ WithinLimits
    BY DEF IInv
  <1>2. /\ UNCHANGED <<disk, record, open, seq>> /\ pc[p] = "admit"
        /\ cached' = [cached EXCEPT ![h] = [generation |-> generation, usage |-> total]]
    BY DEF Admit
  <1>3. h \in Processes
    BY ProcessesAssumption
  <1>4. exclusive = p /\ p # None /\ (\A q \in Publishers : ~AtWork(q)) /\ total = Inventory(disk)
    BY <1>2, <1>3, TotalIsExact, NoneAssumption
  <1>5. record # None /\ record # Invalid /\ record \in UsageType
    BY <1>4, HolderIsBound
  <1> HIDE DEF total
  <1>6. /\ cached'[h] = [generation |-> generation, usage |-> Inventory(disk)]
        /\ \A g \in Processes \ {h} : cached'[g] = cached[g]
    BY <1>1, <1>2, <1>3, <1>4 DEF TypeOK
  <1>7. Inventory(disk)' = Inventory(disk) /\ generation \in Nat
    BY <1>1, <1>2, SizesAssumption DEF Inventory, Usage, Units, TypeOK
  <1>8. \A q \in Publishers : pending[q] = None
    BY <1>1, <1>4 DEF Counted
  <1>9. WithinLimits'
    BY <1>1, <1>2, <1>7 DEF WithinLimits, Within
  <1>10. \A g \in Processes : cached'[g] # None => cached'[g].generation \in Nat /\ cached'[g].generation <= generation
    <2>1. \A g \in Processes : cached[g] # None => cached[g].generation \in Nat /\ cached[g].generation <= generation
      BY <1>1 DEF Caches, TypeOK, CacheType
    <2> QED
      BY <1>6, <1>7, <2>1
  <1>11. ASSUME Unlock(p) /\ UNCHANGED generation PROVE Accounts'
    <2>1. exclusive' = None /\ \A q \in Publishers : ~AtWork(q)'
      BY <1>4, <1>11, NoneAssumption DEF Unlock, AtWork
    <2>2. \A q \in Publishers : pending'[q] = None
      BY <1>1, <1>8, <1>11 DEF Unlock, TypeOK
    <2>3. Caches'
      <3>1. \A g \in Processes : CacheHit(g)' => cached'[g].usage = Inventory(disk)
        <4> TAKE g \in Processes
        <4>1. CASE g = h
          BY <1>6, <4>1
        <4>2. CASE g # h
          BY <1>1, <1>4, <1>6, <1>11, <4>2 DEF Caches, CacheHit
        <4> QED
          BY <4>1, <4>2
      <3> QED
        BY <1>2, <1>5, <1>7, <1>10, <1>11, <2>1, <3>1 DEF Caches
    <2>4. Counted'
      BY <2>1, <2>2 DEF Counted
    <2>5. Admitted'
      BY <2>1 DEF Admitted
    <2> QED
      BY <1>9, <2>3, <2>4, <2>5 DEF Accounts
  <1>12. ASSUME Within(Peak(total, job[p]), record), generation' = generation + 1,
                pending' = [pending EXCEPT ![p] = pend],
                pc' = [pc EXCEPT ![p] = "parents"], UNCHANGED <<exclusive, shared, job>>
         PROVE  Accounts'
    <2>1. pc'[p] = "parents" /\ pending'[p] = pend /\ \A q \in Publishers \ {p} : pending'[q] = None
      BY <1>1, <1>8, <1>12 DEF TypeOK
    <2>2. \A q \in Publishers : AtWork(q)' <=> q = p
      BY <1>4, <1>12, <2>1 DEF AtWork, Publishing
    <2>3. Caches'
      <3>1. \A g \in Processes : cached'[g] # None => cached'[g].generation < generation'
        BY <1>7, <1>10, <1>12
      <3> QED
        BY <1>2, <1>5, <1>7, <1>10, <1>12, <2>2, <3>1 DEF Caches
    <2>4. Counted'
      <3>1. /\ pend # None
        <4>2. job[p].route \in Routes
          BY WorkFacts
        <4>3. dirs \in SUBSET ({Root} \cup {DirOf[s] : s \in Routes})
          BY <4>2, TouchedTyped
        <4>4. LocalUsage(disk, dirs) \in UsageType /\ total \in UsageType
          BY <1>1, <1>4, LocalTyped, InventoryTyped DEF Sized
        <4> HIDE DEF dirs
        <4>5. pend \in PendingType
          BY <4>3, <4>4 DEF PendingType
        <4> QED
          BY <4>5, NoneAssumption
      <3>2. pend.total = Plus(pend.before, Usage(disk, Elsewhere(pend.dirs)))
        <4> HIDE DEF dirs
        <4> QED
          BY <1>1, <1>4, InventorySplits DEF Sized
      <3>3. DirOf[job[p].route] \in pend.dirs
        BY DEF Touched
      <3>4. MissingParents(job[p].route) # {} => Root \in pend.dirs
        BY DEF Touched
      <3> HIDE DEF pend
      <3>5. Usage(disk, Elsewhere(pending[p].dirs))' = Usage(disk, Elsewhere(pend.dirs))
        BY <1>2, <2>1 DEF Usage, Units, Elsewhere
      <3>6. MissingParents(job[p].route)' = MissingParents(job[p].route)
        BY <1>2, <1>12 DEF MissingParents, Directory
      <3> QED
        BY <1>12, <2>1, <2>2, <3>1, <3>2, <3>3, <3>4, <3>5, <3>6 DEF Counted
    <2>5. Within(Plus(Inventory(disk), Remaining(p)'), record)
      BY <1>2, <1>4, <1>5, <1>12, <2>1, PeakCovers
    <2>6. Admitted'
      BY <1>2, <1>7, <2>2, <2>5 DEF Admitted, Within, Plus
    <2> QED
      BY <1>9, <2>3, <2>4, <2>6 DEF Accounts
  <1>13. Accounts'
    BY <1>11, <1>12 DEF Admit, total, Announced
  <1>14. DiskTyped(disk)'
    BY <1>1, <1>2, TypeSplits DEF DiskTyped, Entries, Names, Kinds
  <1> QED
    BY <1>13, <1>14, ControlAdmit, RestAdmit, FilesAdmit DEF Kept

\* Commit accounts for exactly what the publication changed.
LEMMA CommittedIsExact ==
  ASSUME IInv, NEW p \in Publishers, AtWork(p)
  PROVE  /\ pending[p] # None
         /\ pending[p].total.bytes >= pending[p].before.bytes
         /\ pending[p].total.entries >= pending[p].before.entries
         /\ Committed(pending[p]) = Inventory(disk)
  <1> DEFINE d == pending[p]
             other == Usage(disk, Elsewhere(d.dirs))
             after == LocalUsage(disk, d.dirs)
  <1>1. RestTyped /\ Sized /\ Counted
    BY TypeSplits DEF IInv
  <1>2. d # None /\ d \in PendingType /\ d.total = Plus(d.before, other)
    BY <1>1 DEF Counted, RestTyped
  <1>3. IsFiniteSet(Elsewhere(d.dirs))
    BY <1>1, FS_Subset DEF Sized, Elsewhere
  <1>4. other \in UsageType /\ after \in UsageType /\ d.before \in UsageType
    BY <1>1, <1>2, <1>3, UsageFinite, LocalTyped DEF Sized, PendingType
  <1>5. Inventory(disk) = Plus(after, other)
    BY <1>1, InventorySplits DEF Sized
  <1>6. Committed(d) = [bytes |-> d.total.bytes - d.before.bytes + after.bytes,
                        entries |-> d.total.entries - d.before.entries + after.entries]
    BY DEF Committed
  <1> HIDE DEF d, other, after
  <1>7. d.total.bytes >= d.before.bytes /\ d.total.entries >= d.before.entries
    BY <1>2, <1>4 DEF Plus, UsageType
  <1>8. Committed(d) = Inventory(disk)
    BY <1>2, <1>4, <1>5, <1>6 DEF Plus, UsageType
  <1> QED
    BY <1>2, <1>7, <1>8 DEF d

\* A commit keeps the whole invariant.
LEMMA StepCommit ==
  ASSUME IInv, NEW p \in Publishers, Commit(p)
  PROVE  Kept' /\ Accounts'
  <1> DEFINE h == ProcessOf[p]
  <1>1. TypeOK /\ Sized /\ Caches /\ Counted /\ WithinLimits
    BY DEF IInv
  <1>2. UNCHANGED <<disk, managed, record, open, seq, crashes>> /\ pc[p] = "commit" /\ Unlock(p)
    BY DEF Commit
  <1>3. /\ pc'[p] = "idle" /\ pending'[p] = None
        /\ \A q \in Publishers \ {p} : pc'[q] = pc[q] /\ job'[q] = job[q] /\ pending'[q] = pending[q]
        /\ exclusive' = (IF exclusive = p THEN None ELSE exclusive)
    BY <1>1, <1>2 DEF Unlock, TypeOK
  <1>4. pc[p] \in Publishing
    BY <1>2 DEF Publishing
  <1>5. ASSUME record = None, exclusive = None PROVE Accounts'
    <2>1. pending[p] = None
      BY <1>1, <1>5, NoneAssumption DEF Counted, AtWork
    <2>2. UNCHANGED cached
      BY <2>1 DEF Commit
    <2> QED
      BY <1>2, <1>3, <1>5, <2>2, Unaccounted
  <1>6. ASSUME AtWork(p) PROVE Accounts'
    <2>1. exclusive = p /\ p # None /\ record # None /\ record # Invalid
      BY <1>6, HolderIsBound, NoneAssumption DEF AtWork
    <2>2. \A q \in Publishers : ~AtWork(q)'
      BY <1>3, <2>1, NoneAssumption DEF AtWork
    <2>3. \A q \in Publishers \ {p} : ~AtWork(q)
      BY <2>1 DEF AtWork
    <2>4. Inventory(disk)' = Inventory(disk)
      BY <1>2 DEF Inventory, Usage, Units
    <2>5. generation \in Nat /\ h \in Processes
          /\ \A g \in Processes : cached[g] # None => cached[g].generation \in Nat /\ cached[g].generation < generation
      BY <1>1, <1>6, SizesAssumption, ProcessesAssumption DEF TypeOK, CacheType, Caches
    <2>6. /\ pending[p] # None
          /\ pending[p].total.bytes >= pending[p].before.bytes
          /\ pending[p].total.entries >= pending[p].before.entries
          /\ Committed(pending[p]) = Inventory(disk)
      BY <1>6, CommittedIsExact
    <2>7. Caches'
      <3>1. CASE CanBump
        <4>1. /\ generation' = generation + 1
              /\ cached' = [cached EXCEPT ![h] = [generation |-> generation + 1, usage |-> Inventory(disk)]]
          BY <2>6, <3>1 DEF Commit
        <4>2. /\ cached'[h] = [generation |-> generation + 1, usage |-> Inventory(disk)]
              /\ \A g \in Processes \ {h} : cached'[g] = cached[g]
          BY <1>1, <2>5, <4>1 DEF TypeOK
        <4>3. \A g \in Processes \ {h} : ~CacheHit(g)'
          BY <2>5, <4>1, <4>2 DEF CacheHit
        <4>4. \A g \in Processes : cached'[g] # None => cached'[g].generation <= generation'
          BY <2>5, <4>1, <4>2
        <4> QED
          BY <1>2, <2>1, <2>2, <2>4, <4>2, <4>3, <4>4 DEF Caches
      <3>2. CASE ~CanBump
        <4>1. generation' = generation /\ cached' = [cached EXCEPT ![h] = None]
          BY <2>6, <3>2 DEF Commit
        <4>2. cached'[h] = None /\ \A g \in Processes \ {h} : cached'[g] = cached[g]
          BY <1>1, <2>5, <4>1 DEF TypeOK
        <4>3. \A g \in Processes : cached'[g] # None => cached'[g].generation \in Nat /\ cached'[g].generation < generation'
          BY <2>5, <4>1, <4>2
        <4> QED
          BY <1>2, <2>1, <2>2, <2>5, <4>1, <4>3 DEF Caches, CacheHit
      <3> QED
        BY <3>1, <3>2
    <2>8. Counted'
      BY <1>1, <1>3, <2>2, <2>3 DEF Counted
    <2>9. WithinLimits'
      BY <1>1, <1>2, <2>4 DEF WithinLimits, Within
    <2>10. Admitted'
      BY <2>2 DEF Admitted
    <2> QED
      BY <2>7, <2>8, <2>9, <2>10 DEF Accounts
  <1>7. Accounts'
    BY <1>4, <1>5, <1>6, WorkIsLeased
  <1>8. DiskTyped(disk)'
    BY <1>1, <1>2, TypeSplits DEF DiskTyped, Entries, Names, Kinds
  <1> QED
    BY <1>7, <1>8, ControlCommit, RestCommit, FilesCommit DEF Kept

\* A crash keeps the whole invariant.
LEMMA StepCrash ==
  ASSUME IInv, NEW h \in Processes, Crash(h)
  PROVE  Kept' /\ Accounts'
  <1> DEFINE mine == {p \in Publishers : ProcessOf[p] = h}
  <1>1. TypeOK /\ Sized /\ Caches /\ Counted /\ Admitted /\ WithinLimits
    BY DEF IInv
  <1>2. /\ UNCHANGED <<disk, managed, record, generation, seq>>
        /\ exclusive' = (IF exclusive \in mine THEN None ELSE exclusive)
        /\ cached' = [cached EXCEPT ![h] = None]
    BY DEF Crash
  <1>3. /\ \A p \in mine : pc'[p] = "idle" /\ pending'[p] = None
        /\ \A p \in Publishers \ mine : pc'[p] = pc[p] /\ job'[p] = job[p] /\ pending'[p] = pending[p]
    BY DEF Crash
  <1>4. cached'[h] = None /\ \A g \in Processes \ {h} : cached'[g] = cached[g]
    BY <1>1, <1>2 DEF TypeOK
  <1>5. mine \subseteq Publishers
    OBVIOUS
  <1> HIDE DEF mine
  <1>6. \A p \in mine : ~AtWork(p)'
    BY <1>3 DEF AtWork, Publishing
  <1>7. \A p \in Publishers \ mine : AtWork(p)' <=> AtWork(p)
    BY <1>2, <1>3, NoneAssumption DEF AtWork
  <1>8. Inventory(disk)' = Inventory(disk)
    BY <1>2 DEF Inventory, Usage, Units
  <1>9. /\ generation \in Nat
        /\ \A g \in Processes : cached[g] # None => cached[g].generation \in Nat
    BY <1>1, SizesAssumption DEF TypeOK, CacheType
  <1>10. Caches'
    <2>1. \A g \in Processes : cached'[g] # None =>
            /\ cached'[g].generation <= generation
            /\ \A p \in Publishers : AtWork(p)' => cached'[g].generation < generation
      BY <1>1, <1>4, <1>5, <1>6, <1>7 DEF Caches
    <2>2. \A g \in Processes : CacheHit(g)' => CacheHit(g) /\ cached'[g] = cached[g]
      BY <1>2, <1>4 DEF CacheHit
    <2>3. ASSUME \A p \in Publishers : ~AtWork(p)', NEW g \in Processes, CacheHit(g)'
          PROVE  cached'[g].usage = Inventory(disk)
      <3>1. CacheHit(g) /\ cached'[g] = cached[g]
        BY <2>2, <2>3
      <3>2. \A p \in Publishers : ~AtWork(p)
        BY <1>1, <1>9, <3>1 DEF Caches, CacheHit
      <3> QED
        BY <1>1, <3>1, <3>2 DEF Caches
    <2>4. record \in {None, Invalid} => \A g \in Processes : cached'[g] = None
      BY <1>1, <1>4 DEF Caches
    <2> QED
      BY <1>2, <1>8, <2>1, <2>3, <2>4 DEF Caches
  <1>11. \A p \in Publishers : AtWork(p)' =>
            p \notin mine /\ AtWork(p) /\ pc'[p] = pc[p] /\ job'[p] = job[p] /\ pending'[p] = pending[p]
    BY <1>3, <1>6, <1>7
  <1>12. Counted'
    <2>1. ASSUME NEW p \in Publishers, AtWork(p)'
          PROVE  /\ Usage(disk, Elsewhere(pending[p].dirs))' = Usage(disk, Elsewhere(pending[p].dirs))
                 /\ MissingParents(job[p].route)' = MissingParents(job[p].route)
      BY <1>2, <1>11, <2>1 DEF Usage, Units, Elsewhere, MissingParents, Directory
    <2>2. \A p \in Publishers : pending'[p] # None => AtWork(p)'
      BY <1>1, <1>3, <1>7 DEF Counted
    <2> QED
      BY <1>1, <1>11, <2>1, <2>2 DEF Counted
  <1>13. \A p \in Publishers : AtWork(p)' => Remaining(p)' = Remaining(p)
    BY <1>2, <1>11 DEF Remaining, MissingParents, Absent, SupportLeft, Scratch, PublicationLock,
       MetadataDirectory, Directory
  <1>14. Admitted'
    BY <1>1, <1>2, <1>8, <1>11, <1>13 DEF Admitted, Within, Plus
  <1>15. WithinLimits'
    BY <1>1, <1>2, <1>8 DEF WithinLimits, Within
  <1>16. DiskTyped(disk)'
    BY <1>1, <1>2, TypeSplits DEF DiskTyped, Entries, Names, Kinds
  <1> QED
    BY <1>10, <1>12, <1>14, <1>15, <1>16, ControlCrash, RestCrash, FilesCrash DEF Kept, Accounts

\* Installing a policy keeps the whole invariant.
LEMMA StepOpen ==
  ASSUME IInv, NEW h \in Processes, Open(h)
  PROVE  Kept' /\ Accounts'
  <1> DEFINE entries == Put(disk, {Control} \ DOMAIN disk, 0)
             recorded == IF record = None THEN Put(entries, {Control}, RecordLen) ELSE entries
             installs == InstallFree /\ Agrees(h) /\ NoDescendant /\ Within(Inventory(recorded), Limits[h])
  <1>1. TypeOK /\ Sized /\ RootsApart /\ Caches /\ Counted /\ WithinLimits
    BY DEF IInv
  <1>2. /\ UNCHANGED <<managed, exclusive, shared, pc, job, pending, seq, crashes>>
        /\ h \in Bound /\ h \notin open
    BY DEF Open
  <1>3. ASSUME ~installs PROVE Accounts'
    <2>1. disk' = entries /\ UNCHANGED <<record, generation, cached, open>>
      BY <1>3 DEF Open
    <2>2. CASE record = None
      <3>1. exclusive' = None
        BY <1>2, <2>2, Unrecorded
      <3> QED
        BY <1>2, <2>1, <2>2, <3>1, Unaccounted
    <2>3. CASE record # None
      <3>1. SameDisk
        BY <1>1, <2>1, <2>3 DEF SameDisk, RootsApart, Put
      <3>2. \A q \in Publishers : AtWork(q)' <=> AtWork(q)
        BY <1>2 DEF AtWork
      <3> QED
        BY <1>2, <2>1, <3>1, <3>2, Undisturbed
    <2> QED
      BY <2>2, <2>3
  <1>4. ASSUME installs PROVE Accounts'
    <2>1. exclusive = None /\ exclusive' = None
      BY <1>2, <1>4 DEF InstallFree
    <2>2. \A q \in Publishers : ~AtWork(q) /\ ~AtWork(q)' /\ pending[q] = None /\ pending'[q] = None
      BY <1>1, <1>2, <2>1, NoneAssumption DEF AtWork, Counted
    <2>3. Counted' /\ Admitted'
      BY <2>2 DEF Counted, Admitted
    <2>4. /\ generation' = IF record = None THEN 0 ELSE generation
          /\ cached' = [cached EXCEPT ![h] = IF h \in open'
                          THEN [generation |-> generation', usage |-> Inventory(recorded)] ELSE @]
          /\ IF record = None THEN WriteRecord(h, entries)
             ELSE disk' = recorded /\ open' = open \cup {h} /\ UNCHANGED record
      BY <1>4 DEF Open
    <2>5. /\ cached'[h] = IF h \in open' THEN [generation |-> generation', usage |-> Inventory(recorded)]
                          ELSE cached[h]
          /\ \A g \in Processes \ {h} : cached'[g] = cached[g]
      <3> HIDE DEF recorded
      <3> QED
        BY <1>1, <2>4 DEF TypeOK
    <2>6. generation \in Nat
      BY <1>1, SizesAssumption DEF TypeOK
    <2>7. CASE record = None
      <3>1. \A g \in Processes : cached[g] = None
        BY <2>7, Unrecorded
      <3>2. \/ record' = Limits[h] /\ disk' = recorded
            \/ record' = Invalid /\ h \notin open'
        BY <1>2, <2>4, <2>7 DEF WriteRecord
      <3>3. CASE record' = Invalid /\ h \notin open'
        <4>1. \A g \in Processes : cached'[g] = None
          BY <2>5, <3>1, <3>3
        <4>2. Caches'
          BY <4>1 DEF Caches, CacheHit
        <4>3. WithinLimits'
          BY <3>3 DEF WithinLimits
        <4> QED
          BY <2>3, <4>2, <4>3 DEF Accounts
      <3>4. CASE record' = Limits[h] /\ disk' = recorded
        <4>1. record' # None /\ record' # Invalid
          BY <1>2, <3>4, LimitsAreLimits
        <4>2. Inventory(disk)' = Inventory(recorded)
          <5> HIDE DEF recorded
          <5> QED
            BY <3>4 DEF Inventory, Usage, Units
        <4>3. WithinLimits'
          <5> HIDE DEF recorded
          <5> QED
            BY <1>4, <3>4, <4>2 DEF WithinLimits, Within
        <4>4. Caches'
          <5>1. \A g \in Processes : cached'[g] # None =>
                  /\ cached'[g] = [generation |-> generation', usage |-> Inventory(recorded)]
            <6> HIDE DEF recorded
            <6> QED
              BY <2>5, <3>1
          <5>2. generation' = 0
            BY <2>4, <2>7
          <5> HIDE DEF recorded
          <5> QED
            BY <2>2, <4>1, <4>2, <5>1, <5>2 DEF Caches, CacheHit
        <4> QED
          BY <2>3, <4>3, <4>4 DEF Accounts
      <3> QED
        BY <3>2, <3>3, <3>4
    <2>8. CASE record # None
      <3>1. record' = record /\ record = Limits[h] /\ generation' = generation /\ disk' = entries
            /\ h \in open' /\ recorded = entries
        BY <1>4, <2>4, <2>8 DEF Agrees
      <3>2. SameDisk
        BY <1>1, <2>8, <3>1 DEF SameDisk, RootsApart, Put
      <3>3. Inventory(disk') = Inventory(disk)
        BY <3>2, SameInventory DEF SameDisk
      <3>4. Inventory(disk)' = Inventory(disk) /\ Inventory(recorded) = Inventory(disk)
        <4> HIDE DEF entries, recorded
        <4> QED
          BY <3>1, <3>3 DEF Inventory, Usage, Units
      <3>5. WithinLimits'
        BY <1>1, <3>1, <3>4 DEF WithinLimits, Within
      <3>6. Caches'
        <4> HIDE DEF entries, recorded
        <4>1. record' # None /\ record' # Invalid
          BY <1>2, <3>1, LimitsAreLimits
        <4>2. cached'[h] = [generation |-> generation, usage |-> Inventory(disk)]
          BY <2>5, <3>1, <3>4
        <4>3. \A g \in Processes : cached'[g] # None => cached'[g].generation <= generation
          BY <1>1, <2>5, <2>6, <4>2 DEF Caches
        <4>4. \A g \in Processes : CacheHit(g)' => cached'[g].usage = Inventory(disk)
          <5> TAKE g \in Processes
          <5>1. CASE g = h
            BY <4>2, <5>1
          <5>2. CASE g # h
            BY <1>1, <2>2, <2>5, <3>1, <5>2 DEF Caches, CacheHit
          <5> QED
            BY <5>1, <5>2
        <4> QED
          BY <2>2, <3>1, <3>4, <4>1, <4>3, <4>4 DEF Caches
      <3> QED
        BY <2>3, <3>5, <3>6 DEF Accounts
    <2> QED
      BY <2>7, <2>8
  <1> QED
    BY <1>3, <1>4, ControlOpen, DiskOpen, RestOpen, FilesOpen DEF Kept

-----------------------------------------------------------------------------
(* The invariant.                                                          *)

\* The invariant holds at the start.
LEMMA InitIInv == Init => IInv
  <1> SUFFICES ASSUME Init PROVE IInv
    OBVIOUS
  <1> DEFINE T == {<<"directory", d, Root>> : d \in managed \ {Above}}
             f == [r \in Routes |-> <<"directory", DirOf[r], Root>>]
             U == {<<"directory", DirOf[r], Root>> : r \in Routes}
  <1>1. /\ managed \in {{}, {Above}, Nested} /\ disk = [e \in T |-> 0]
        /\ record = None /\ generation = 0 /\ exclusive = None /\ shared = {}
        /\ cached = [h \in Processes |-> None] /\ open = {}
        /\ pc = [p \in Publishers |-> "idle"] /\ job = [p \in Publishers |-> NoJob]
        /\ pending = [p \in Publishers |-> None] /\ seq = 0 /\ crashes = 0
    BY DEF Init
  <1>2. T \subseteq U
    BY <1>1 DEF Nested
  <1>3. IsFiniteSet(U)
    <2>1. f \in Surjection(Routes, U)
      BY DEF Surjection
    <2> QED
      BY <2>1, FS_Surjection, NamesAssumption
  <1>4. DiskTyped(disk)
    <2>1. U \subseteq Entries
      BY DEF Entries, Kinds, Names
    <2>2. IsFiniteSet(T)
      BY <1>2, <1>3, FS_Subset
    <2>3. DOMAIN disk = T /\ \A e \in T : disk[e] = 0
      BY <1>1
    <2>4. IsFiniteSet(DOMAIN disk)
      <3> HIDE DEF T
      <3> QED
        BY <2>2, <2>3, Zenon
    <2> QED
      BY <1>2, <2>1, <2>3, <2>4, SizesAssumption DEF DiskTyped
  <1>5. RestTyped
    BY <1>1, NoJobTyped, SizesAssumption DEF RestTyped, Recorded, Points
  <1>6. Leases /\ Governed
    BY <1>1, NoneAssumption DEF Leases, Governed, Publishing
  <1>7. RootsApart
    <2>1. ~OpenRoot => managed = {Above}
      BY <1>1, NamesAssumption DEF OpenRoot, ActivePolicy, Nested
    <2>2. managed = {Above} => DOMAIN disk = {}
      BY <1>1
    <2> QED
      BY <1>1, <2>1, <2>2 DEF RootsApart
  <1>8. Numbered
    BY <1>1 DEF Numbered
  <1>9. Temporaries
    BY <1>1 DEF Temporaries
  <1>10. \A p \in Publishers : ~AtWork(p)
    BY <1>1, NoneAssumption DEF AtWork
  <1>11. Caches /\ Counted /\ Admitted /\ WithinLimits
    BY <1>1, <1>10 DEF Caches, CacheHit, Counted, Admitted, WithinLimits
  <1> QED
    BY <1>4, <1>5, <1>6, <1>7, <1>8, <1>9, <1>11, TypeSplits DEF IInv

\* The parts that the lemmas above keep make up the invariant.
LEMMA Together == ASSUME Kept', Accounts' PROVE IInv'
  BY TypeSplitsNext DEF Kept, Accounts, Control3, Files2, IInv

\* Every step keeps the invariant.
LEMMA NextIInv == IInv /\ [Next]_vars => IInv'
  <1> SUFFICES ASSUME IInv, [Next]_vars PROVE IInv'
    OBVIOUS
  <1>1. CASE UNCHANGED vars
    <2>1. UNCHANGED <<disk, managed, record, generation, exclusive, shared, cached, open, pc, job,
                      pending, seq, crashes>>
      BY <1>1 DEF vars
    <2>2. DiskTyped(disk) /\ RestTyped
      BY TypeSplits DEF IInv
    <2>3. Control3'
      BY <2>1 DEF IInv, Control3, Leases, Governed, RootsApart, OpenRoot, NoDescendant, ActivePolicy
    <2>4. DiskTyped(disk)' /\ RestTyped'
      BY <2>1, <2>2 DEF DiskTyped, Entries, Names, Kinds, RestTyped, Nested, Recorded, Points, JobType,
         CacheType, UsageType, PendingType, Publishing
    <2>5. Files2'
      BY <2>1 DEF IInv, Files2, Numbered, Temporaries, HtmlTemp, MetadataTemp
    <2>6. Accounts'
      BY <2>1, Undisturbed DEF SameDisk, AtWork
    <2> QED
      BY <2>3, <2>4, <2>5, <2>6, Together DEF Kept
  <1>2. ASSUME NEW h \in Processes, Open(h) PROVE IInv'
    BY <1>2, StepOpen, Together
  <1>3. ASSUME NEW h \in Processes, Crash(h) PROVE IInv'
    BY <1>3, StepCrash, Together
  <1>4. ASSUME NEW p \in Publishers, Begin(p) PROVE IInv'
    BY <1>4, StepBegin, Together
  <1>5. ASSUME NEW p \in Publishers, PublishStep(p) PROVE IInv'
    <2>1. CASE CoordinateBound(p)
      BY <2>1, StepBound, Together
    <2>2. CASE CoordinateUnlimited(p)
      BY <2>2, StepUnlimited, Together
    <2>3. CASE Admit(p)
      BY <2>3, StepAdmit, Together
    <2>4. CASE CreateParents(p)
      BY <2>4, StepParents, Together
    <2>5. CASE PrepareHtml(p)
      BY <2>5, StepHtmlTemp, Together
    <2>6. CASE PrepareMetadata(p)
      BY <2>6, StepMetadataTemp, Together
    <2>7. CASE CreateSupport(p)
      BY <2>7, StepSupport, Together
    <2>8. CASE PublishMetadata(p)
      BY <2>8, StepPublishMetadata, Together
    <2>9. CASE PublishHtml(p)
      BY <2>9, StepPublishHtml, Together
    <2>10. CASE Commit(p)
      BY <2>10, StepCommit, Together
    <2> QED
      BY <1>5, <2>1, <2>2, <2>3, <2>4, <2>5, <2>6, <2>7, <2>8, <2>9, <2>10 DEF PublishStep
  <1>6. ASSUME NEW p \in Publishers, Fail(p) PROVE IInv'
    BY <1>6, StepFail, Together
  <1> QED
    BY <1>1, <1>2, <1>3, <1>4, <1>5, <1>6 DEF Next

\* The invariant holds in every state.
THEOREM Invariance == Spec => []IInv
  <1>1. Init => IInv
    BY InitIInv
  <1>2. IInv /\ [Next]_vars => IInv'
    BY NextIInv
  <1> QED
    BY <1>1, <1>2, PTL DEF Spec

\* Records, leases, jobs and files keep their types, whatever fails or crashes.
THEOREM TypeCorrect == Spec => []TypeOK
  <1>1. IInv => TypeOK
    BY DEF IInv
  <1> QED
    BY <1>1, Invariance, PTL

\* The limits of the record govern everybody at work in the site, although
\* Storage::open waits for nobody and coordinate checks the record only once.
THEOREM PolicyGoverns == Spec => []OnePolicyGoverns
  <1>1. IInv => OnePolicyGoverns
    <2> SUFFICES ASSUME IInv PROVE OnePolicyGoverns
      OBVIOUS
    <2>1. TypeOK /\ Leases /\ Governed /\ RootsApart
      BY DEF IInv
    <2>2. ASSUME NEW p \in Publishers, pc[p] \in Publishing
          PROVE  (record # None => ProcessOf[p] \in Bound) /\ ~ActivePolicy(DirOf[job[p].route])
      <3>1. CASE p \in shared /\ record = None
        BY <2>1, <3>1 DEF RootsApart
      <3>2. CASE AtWork(p) /\ ProcessOf[p] \in Bound
        <4>1. NoDescendant /\ OpenRoot
          BY <3>2, HolderIsBound, NoneAssumption DEF AtWork
        <4>2. job[p].route \in Routes
          BY WorkFacts
        <4>3. Root \notin managed
          BY <2>1, NamesAssumption DEF RootsApart, Nested
        <4> QED
          BY <3>2, <4>1, <4>2, <4>3 DEF NoDescendant, ActivePolicy, Nested
      <3> QED
        BY <2>2, <3>1, <3>2, WorkIsLeased
    <2>3. ActivePolicy(Above) => DOMAIN disk = {}
      BY <2>1 DEF RootsApart, OpenRoot
    <2> QED
      BY <2>1, <2>2, <2>3 DEF OnePolicyGoverns, Governed
  <1> QED
    BY <1>1, Invariance, PTL

\* A cache that the next admission would trust is the inventory: the generation
\* that admit writes before the first file makes every other cache stale.
THEOREM CachesAreExact == Spec => []CacheExact
  <1>1. IInv => CacheExact
    BY NoneAssumption DEF IInv, Caches, CacheExact, AtWork
  <1> QED
    BY <1>1, Invariance, PTL

\* A managed site is within its limits at every moment: what admit reserved
\* covers all that the publication creates, and what failed ones leave is counted.
THEOREM LimitsHold == Spec => []WithinLimits
  <1>1. IInv => WithinLimits
    BY DEF IInv
  <1> QED
    BY <1>1, Invariance, PTL
=============================================================================
