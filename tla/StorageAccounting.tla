-------------------------- MODULE StorageAccounting --------------------------
(***************************************************************************)
(* The storage policy of a site root (src/static_routes/storage.rs): the   *)
(* control record that cooperating processes share, Storage::open which    *)
(* installs it, the publication lease (coordinate), admission against the  *)
(* limits (admit) and the cached inventory that spares a scan (commit).    *)
(* The files created in between are those of write_static_route_managed    *)
(* (src/static_routes.rs).                                                 *)
(*                                                                         *)
(* The disk maps the entries below the root to their lengths.  An entry is *)
(* a triple of kind, name and directory; directories are the root and its  *)
(* direct children.  A process that is not in Bound publishes without a    *)
(* policy.                                                                 *)
(***************************************************************************)
EXTENDS Naturals, FiniteSets

CONSTANTS
    Processes, Bound,       \* cooperating processes, those with a policy
    Publishers, ProcessOf,  \* blocking publications, the process of each
    Limits,                 \* StaticStorageLimits of each bound process
    Routes, DirOf, Root,    \* published names, their directory, the site root
    Artifacts,              \* lengths of HTML and metadata, as pairs
    RecordLen,              \* length of the control record
    Above,                  \* a directory the root lies in
    None, Invalid,          \* no record; one that decode refuses
    MaxWord,                \* u64::MAX
    MaxPublications,        \* bound: publications that begin
    MaxCrashes              \* bound: processes that die

\* Files below a directory: their lengths, and their number with the directories.
UsageType == [bytes : Nat, entries : Nat]

CacheType == [generation : Nat, usage : UsageType]
PendingType == [total : UsageType, before : UsageType,
                dirs : SUBSET ({Root} \cup {DirOf[r] : r \in Routes})]

ASSUME ProcessesAssumption == /\ Bound \subseteq Processes
                              /\ ProcessOf \in [Publishers -> Processes]
                              /\ Limits \in [Bound -> UsageType]
ASSUME NamesAssumption == /\ Routes # {} /\ IsFiniteSet(Routes)
                          /\ Above \notin {DirOf[r] : r \in Routes} \cup {Root}
ASSUME SizesAssumption == /\ MaxWord \in Nat /\ RecordLen \in 2..MaxWord
                          /\ Artifacts \subseteq (0..MaxWord) \X (0..MaxWord)
                          /\ MaxPublications \in Nat /\ MaxCrashes \in Nat
ASSUME NoneAssumption ==
    /\ None # Invalid /\ {None, Invalid} \cap UsageType = {}
    /\ None \notin Publishers \cup CacheType \cup PendingType

VARIABLES
    disk,               \* entries below the root and their lengths
    managed,            \* other directories with a policy of their own
    record, generation, \* the control record: limits (None: empty), generation
    exclusive, shared,  \* holders of the lock on the control file
    cached,             \* StorageInner.cached of each process
    open,               \* processes that hold a Storage
    pc, job, pending,   \* publications: control point, what, Pending
    seq, crashes        \* TEMP_SEQ with the process id; processes that died

vars == <<disk, managed, record, generation, exclusive, shared, cached, open, pc, job,
          pending, seq, crashes>>

\* Definitions whose name starts with Bug are faulty variants of the definition
\* that follows; they are used only to check that the properties can fail.

Control == <<"control", Root, Root>>
Scratch(r) == <<"lock", r, DirOf[r]>>
PublicationLock(r) == <<"publication_lock", DirOf[r], DirOf[r]>>
MetadataDirectory(r) == <<"metadata_directory", DirOf[r], DirOf[r]>>
Html(r) == <<"html", r, DirOf[r]>>
Metadata(r) == <<"metadata", r, DirOf[r]>>
HtmlTemp(j) == <<"html_temp", j.seq, DirOf[j.route]>>
MetadataTemp(j) == <<"metadata_temp", j.seq, DirOf[j.route]>>
Directory(r) == <<"directory", DirOf[r], Root>>

\* The parent directories of a route that do not exist.
MissingParents(r) == IF DirOf[r] = Root THEN {} ELSE {Directory(r)} \ DOMAIN disk

Put(d, es, n) == [e \in DOMAIN d \cup es |-> IF e \in es THEN n ELSE d[e]]
Without(d, es) == [e \in DOMAIN d \ es |-> d[e]]

\* One unit per byte, so that lengths add up as the units of a union.
Units(d, es) == {u \in es \X (1..MaxWord) : u[2] <= d[u[1]]}

\* inventory, charge: entries, and bytes of files.
Usage(d, es) == [bytes |-> Cardinality(Units(d, es)), entries |-> Cardinality(es)]
Inventory(d) == Usage(d, DOMAIN d)

\* local_usage: the directory, and the directory that publication creates.
LocalUsage(d, dirs) == Usage(d, {e \in DOMAIN d : e[3] \in dirs})

\* check_limits
Within(usage, limits) == usage.bytes <= limits.bytes /\ usage.entries <= limits.entries

NoJob == [route |-> CHOOSE r \in Routes : TRUE, html |-> 0, metadata |-> 0, seq |-> 0]

\* The root is new, lies in a managed directory, or has managed ones in it.
Nested == {DirOf[r] : r \in Routes} \ {Root}
Init ==
    /\ managed \in {{}, {Above}, Nested}
    /\ disk = [e \in {<<"directory", d, Root>> : d \in managed \ {Above}} |-> 0]
    /\ record = None /\ generation = 0
    /\ exclusive = None /\ shared = {}
    /\ cached = [h \in Processes |-> None]
    /\ open = {}
    /\ pc = [p \in Publishers |-> "idle"]
    /\ job = [p \in Publishers |-> NoJob]
    /\ pending = [p \in Publishers |-> None]
    /\ seq = 0 /\ crashes = 0

-----------------------------------------------------------------------------
(* Storage::open.  Installation does not wait for the lock.                *)

\* An installed record is kept only if its limits are the ones asked for.
Agrees(h) == record = None \/ record = Limits[h]

BugInstallFree == exclusive = None
InstallFree == exclusive = None /\ shared = {}

\* A policy of another root: open_root refuses one above before it creates
\* anything, inventory one below, admit one of the destination.
ActivePolicy(d) == d \in managed
OpenRoot == ~ActivePolicy(Above)
NoDescendant == \A d \in Nested : ~ActivePolicy(d)

\* The record is written whole, cut short, or whole while the synchronisation
\* that follows fails.
WriteRecord(h, entries) ==
    \/ /\ disk' = Put(entries, {Control}, RecordLen) /\ record' = Limits[h]
       /\ open' \in {open, open \cup {h}}
    \/ /\ disk' = Put(entries, {Control}, RecordLen - 1) /\ record' = Invalid
       /\ UNCHANGED open

\* The control file is created first, and stays if the installation is refused:
\* because the lock is taken, the limits differ, the site exceeds them or holds
\* another one.
Open(h) ==
    LET entries == Put(disk, {Control} \ DOMAIN disk, 0)
        recorded == IF record = None THEN Put(entries, {Control}, RecordLen) ELSE entries
        usage == Inventory(recorded)
    IN
    /\ h \in Bound \ open /\ OpenRoot
    /\ IF InstallFree /\ Agrees(h) /\ NoDescendant /\ Within(usage, Limits[h])
         THEN /\ IF record = None THEN WriteRecord(h, entries)
                 ELSE disk' = recorded /\ open' = open \cup {h} /\ UNCHANGED record
              /\ generation' = IF record = None THEN 0 ELSE generation
              /\ cached' = [cached EXCEPT ![h] =
                              IF h \in open' THEN [generation |-> generation', usage |-> usage] ELSE @]
         ELSE /\ disk' = entries
              /\ UNCHANGED <<record, generation, cached, open>>
    /\ UNCHANGED <<managed, exclusive, shared, pc, job, pending, seq, crashes>>

-----------------------------------------------------------------------------
(* One publication.                                                        *)

\* A bound process publishes once it has its Storage.
Begin(p) ==
    /\ pc[p] = "idle"
    /\ ProcessOf[p] \in Bound => ProcessOf[p] \in open
    /\ seq < MaxPublications
    /\ seq' = seq + 1
    /\ \E r \in Routes, a \in Artifacts :
          job' = [job EXCEPT ![p] =
                    [route |-> r, html |-> a[1], metadata |-> a[2], seq |-> seq + 1]]
    /\ pc' = [pc EXCEPT ![p] = "coordinate"]
    /\ UNCHANGED <<disk, managed, record, generation, exclusive, shared, cached, open, pending, crashes>>

\* Dropping the PublicationGuard ends the lease.
Unlock(p) ==
    /\ exclusive' = IF exclusive = p THEN None ELSE exclusive
    /\ shared' = shared \ {p}
    /\ pc' = [pc EXCEPT ![p] = "idle"]
    /\ job' = [job EXCEPT ![p] = NoJob]
    /\ pending' = [pending EXCEPT ![p] = None]

\* coordinate, bound: the exclusive lease, and the record must be the policy's.
CoordinateBound(p) ==
    /\ pc[p] = "coordinate" /\ ProcessOf[p] \in Bound
    /\ exclusive = None /\ shared = {}
    /\ record = Limits[ProcessOf[p]]
    /\ exclusive' = p
    /\ pc' = [pc EXCEPT ![p] = "admit"]
    /\ UNCHANGED <<disk, managed, record, generation, shared, cached, open, job, pending, seq, crashes>>

\* coordinate, unlimited: the shared lease.  A record, or a policy of the
\* destination's directory, means BindingRequired.
CoordinateUnlimited(p) ==
    /\ pc[p] = "coordinate" /\ ProcessOf[p] \notin Bound
    /\ exclusive = None
    /\ disk' = IF OpenRoot THEN Put(disk, {Control} \ DOMAIN disk, 0) ELSE disk
    /\ IF OpenRoot /\ record = None /\ ~ActivePolicy(DirOf[job[p].route])
         THEN /\ shared' = shared \cup {p}
              /\ pc' = [pc EXCEPT ![p] = "parents"]
              /\ UNCHANGED <<exclusive, job, pending>>
         ELSE Unlock(p)
    /\ UNCHANGED <<managed, record, generation, cached, open, seq, crashes>>

\* Storage::cached: only at the generation of the record.
CacheHit(h) == cached[h] # None /\ cached[h].generation = generation

\* The most a publication of j occupies before its renames: both temporary
\* files, the missing directories and the missing support entries.
BugPeak(total, j) ==
    LET support == {Scratch(j.route), PublicationLock(j.route), MetadataDirectory(j.route)} IN
    [bytes |-> total.bytes + j.html,
     entries |-> total.entries + Cardinality(MissingParents(j.route)) + 2
                   + IF MissingParents(j.route) # {} THEN 3
                     ELSE Cardinality(support \ DOMAIN disk)]
Peak(total, j) ==
    LET support == {Scratch(j.route), PublicationLock(j.route), MetadataDirectory(j.route)} IN
    [bytes |-> total.bytes + j.html + j.metadata,
     entries |-> total.entries + Cardinality(MissingParents(j.route)) + 2
                   + IF MissingParents(j.route) # {} THEN 3
                     ELSE Cardinality(support \ DOMAIN disk)]

\* The directories local_usage covers, fixed when the publication is admitted.
Touched(r) == IF MissingParents(r) = {} THEN {DirOf[r]} ELSE {Root, DirOf[r]}

\* bump refuses to overflow.
CanBump == generation < MaxWord

\* bump in admit: the record announces the publication before its files exist.
BugAnnounced == generation
Announced == generation + 1

\* admit: the cached or scanned inventory plus the peak must fit.
Admit(p) ==
    LET h == ProcessOf[p]
        j == job[p]
        total == IF CacheHit(h) THEN cached[h].usage ELSE Inventory(disk)
    IN
    /\ pc[p] = "admit"
    /\ cached' = [cached EXCEPT ![h] = [generation |-> generation, usage |-> total]]
    /\ IF Within(Peak(total, j), record) /\ CanBump
         THEN /\ generation' = Announced
              /\ pending' = [pending EXCEPT ![p] =
                   [total |-> total, before |-> LocalUsage(disk, Touched(j.route)),
                    dirs |-> Touched(j.route)]]
              /\ pc' = [pc EXCEPT ![p] = "parents"]
              /\ UNCHANGED <<exclusive, shared, job>>
         ELSE Unlock(p) /\ UNCHANGED generation
    /\ UNCHANGED <<disk, managed, record, open, seq, crashes>>

\* One step of the files' creation.
Create(p, from, to, es, n) ==
    /\ pc[p] = from
    /\ disk' = Put(disk, es, n)
    /\ pc' = [pc EXCEPT ![p] = to]
    /\ UNCHANGED <<managed, record, generation, exclusive, shared, cached, open, job, pending, seq, crashes>>

\* root.parent(create) and lock_file, prepare_file twice, publication_lock
\* and the metadata directory.
CreateParents(p) == Create(p, "parents", "html_temp",
    MissingParents(job[p].route) \cup ({Scratch(job[p].route)} \ DOMAIN disk), 0)
PrepareHtml(p) == Create(p, "html_temp", "metadata_temp", {HtmlTemp(job[p])}, job[p].html)
PrepareMetadata(p) == Create(p, "metadata_temp", "support", {MetadataTemp(job[p])}, job[p].metadata)
CreateSupport(p) == Create(p, "support", "metadata",
    {PublicationLock(job[p].route), MetadataDirectory(job[p].route)} \ DOMAIN disk, 0)

\* publish_file renames a temporary file over its destination.
Rename(p, from, to, temp, name) ==
    /\ pc[p] = from
    /\ disk' = Put(Without(disk, {temp}), {name}, disk[temp])
    /\ pc' = [pc EXCEPT ![p] = to]
    /\ UNCHANGED <<managed, record, generation, exclusive, shared, cached, open, job, pending, seq, crashes>>

PublishMetadata(p) ==
    Rename(p, "metadata", "html", MetadataTemp(job[p]), Metadata(job[p].route))
PublishHtml(p) == Rename(p, "html", "commit", HtmlTemp(job[p]), Html(job[p].route))

\* The usage commit records: the difference the touched directories show.
Committed(d) ==
    LET after == LocalUsage(disk, d.dirs) IN
    [bytes |-> d.total.bytes - d.before.bytes + after.bytes,
     entries |-> d.total.entries - d.before.entries + after.entries]

\* commit, then the end of the lease.  An overflow drops the cache.
Commit(p) ==
    LET h == ProcessOf[p]
        d == pending[p]
    IN
    /\ pc[p] = "commit"
    /\ IF d = None
         THEN UNCHANGED <<generation, cached>>
         ELSE IF CanBump /\ d.total.bytes >= d.before.bytes
                          /\ d.total.entries >= d.before.entries
                THEN /\ generation' = generation + 1
                     /\ cached' = [cached EXCEPT ![h] =
                          [generation |-> generation + 1, usage |-> Committed(d)]]
                ELSE /\ cached' = [cached EXCEPT ![h] = None]
                     /\ generation' = IF CanBump THEN generation + 1 ELSE generation
    /\ Unlock(p)
    /\ UNCHANGED <<disk, managed, record, open, seq, crashes>>

Publishing == {"parents", "html_temp", "metadata_temp", "support", "metadata", "html", "commit"}
Temps(p) == {HtmlTemp(job[p]), MetadataTemp(job[p])}

\* A step fails: the temporary files are removed (TempFileGuard::drop) as far
\* as that succeeds, then the lease ends.
Fail(p) ==
    /\ pc[p] \in {"coordinate", "admit"} \cup Publishing
    /\ \E es \in SUBSET (Temps(p) \cap DOMAIN disk) : disk' = Without(disk, es)
    /\ Unlock(p)
    /\ UNCHANGED <<managed, record, generation, cached, open, seq, crashes>>

\* A process dies: its leases end, its files stay, and so does the record.
Crash(h) ==
    LET mine == {p \in Publishers : ProcessOf[p] = h} IN
    /\ crashes < MaxCrashes
    /\ crashes' = crashes + 1
    /\ open' = open \ {h}
    /\ cached' = [cached EXCEPT ![h] = None]
    /\ exclusive' = IF exclusive \in mine THEN None ELSE exclusive
    /\ shared' = shared \ mine
    /\ pc' = [p \in Publishers |-> IF p \in mine THEN "idle" ELSE pc[p]]
    /\ job' = [p \in Publishers |-> IF p \in mine THEN NoJob ELSE job[p]]
    /\ pending' = [p \in Publishers |-> IF p \in mine THEN None ELSE pending[p]]
    /\ UNCHANGED <<disk, managed, record, generation, seq>>

-----------------------------------------------------------------------------
PublishStep(p) == \/ CoordinateBound(p) \/ CoordinateUnlimited(p) \/ Admit(p)
                  \/ CreateParents(p) \/ PrepareHtml(p) \/ PrepareMetadata(p)
                  \/ CreateSupport(p) \/ PublishMetadata(p) \/ PublishHtml(p) \/ Commit(p)

Next == \/ \E h \in Processes : Open(h) \/ Crash(h)
        \/ \E p \in Publishers : Begin(p) \/ PublishStep(p) \/ Fail(p)

Spec == Init /\ [][Next]_vars

-----------------------------------------------------------------------------
Kinds == {"control", "lock", "publication_lock", "metadata_directory", "html",
          "metadata", "html_temp", "metadata_temp", "directory"}
Names == Routes \cup {Root} \cup {DirOf[r] : r \in Routes} \cup 1..MaxPublications

TypeOK ==
    /\ DOMAIN disk \subseteq Kinds \X Names \X Names
    /\ \A e \in DOMAIN disk : disk[e] \in 0..MaxWord
    /\ managed \subseteq Nested \cup {Above}
    /\ record \in {Limits[h] : h \in Bound} \cup {None, Invalid}
    /\ generation \in 0..MaxWord
    /\ exclusive \in Publishers \cup {None} /\ shared \in SUBSET Publishers
    /\ cached \in [Processes -> CacheType \cup {None}]
    /\ open \in SUBSET Bound
    /\ pc \in [Publishers -> {"idle", "coordinate", "admit"} \cup Publishing]
    /\ job \in [Publishers -> [route : Routes, html : 0..MaxWord, metadata : 0..MaxWord,
                               seq : 0..MaxPublications]]
    /\ pending \in [Publishers -> PendingType \cup {None}]
    /\ seq \in 0..MaxPublications /\ crashes \in 0..MaxCrashes

\* A cache the next admission would trust is exact: "valid exactly while
\* nobody else has published", whatever failed, crashed or was refused since.
CacheExact ==
    exclusive = None =>
        \A h \in Processes : CacheHit(h) => cached[h].usage = Inventory(disk)

\* A managed site is within its limits at every moment: during publications,
\* with the temporary files of failed and crashed ones, after any of them.
WithinLimits == record \notin {None, Invalid} => Within(Inventory(disk), record)

\* The limits of the record govern the site: no publisher without the policy is
\* at work in it, although installation waits for nobody, and every process
\* that holds a Storage enforces these limits (Storage::open, coordinate).  Nor
\* does anybody publish, or leave so much as a control file, where another
\* root's policy governs.
OnePolicyGoverns ==
    /\ record # None => \A p \in Publishers : pc[p] \in Publishing => ProcessOf[p] \in Bound
    /\ \A h \in open : record = Limits[h]
    /\ \A p \in Publishers : pc[p] \in Publishing => ~ActivePolicy(DirOf[job[p].route])
    /\ ActivePolicy(Above) => DOMAIN disk = {}
=============================================================================
