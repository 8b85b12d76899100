---------------------------- MODULE PublicationProofs ----------------------------
(***************************************************************************)
(* Paired reads are whole, fresh and fail only over a torn pair, for any   *)
(* number of publications, interruptions and concurrent readers, and for   *)
(* any bodies.                                                             *)
(***************************************************************************)
EXTENDS Publication, TLAPS

-----------------------------------------------------------------------------
(* The inductive invariant.                                                *)

\* The writer that may rename holds the publication lock, the file of which
\* exists by then, and readers that hold it keep the writer out.
Locks ==
    /\ \A w \in Writers : wpc[w] \in {"metadata", "html", "release"} <=> exclusive = w
    /\ \A w \in Writers : wpc[w] = "lock" => lockFile
    /\ exclusive # None => shared = {} /\ lockFile
    /\ \A r \in Readers :
          \/ rpc[r] \in {"rehtml", "remeta"}
          \/ rpc[r] \in {"html", "meta"} /\ ~lockless[r]
          => r \in shared

\* The two directory entries belong together, unless a publication is between
\* its renames or left the pair torn; without metadata, nothing was ever
\* published and no reader can have met more than an older publisher's body.
Files ==
    /\ meta = None => html \in {None, Legacy} /\ \A r \in Readers : pinHtml[r] \in {None, Legacy}
    /\ meta = Damaged => torn
    /\ \A w \in Writers : wpc[w] = "html" => meta = w
    /\ ~torn /\ meta \in Pairs /\ (\A w \in Writers : wpc[w] # "html") => html = meta

\* The metadata entry is that of the last completed publication or of one that
\* has not completed; what is still to be published has never been.
History ==
    /\ \A i \in 1..Len(done) : wpc[done[i]] \in {"release", "done"}
    /\ Len(done) > 0 => Fresh(meta, Len(done))
    /\ \A r \in Readers : since[r] <= Len(done)

\* A remembered pair has one body.
CacheWhole == cache # None => BodyOf[cache[1]] = BodyOf[cache[2]]

\* What a reader has pinned is there to be parsed.
Pinned(r) ==
    /\ rpc[r] \in {"meta", "remeta", "parse", "reparse"} => pinHtml[r] # None
    /\ rpc[r] \in {"parse", "reparse"} => pinMeta[r] \in Pairs

\* A successful snapshot has one body, or is an older publisher's.
Whole(r) ==
    snapshot[r].ok => IF snapshot[r].meta = None THEN snapshot[r].html = Legacy
                      ELSE BodyOf[snapshot[r].html] = BodyOf[snapshot[r].meta]

\* The metadata a reader has pinned, and that of its snapshot, are not older
\* than the publication that had completed when it started.
ReadFresh(r) ==
    since[r] > 0 =>
        /\ rpc[r] \in {"parse", "reparse"} => Fresh(pinMeta[r], since[r])
        /\ snapshot[r].ok => Fresh(snapshot[r].meta, since[r])

\* A read in progress has met the torn pair that is there.
TornSeen(r) == torn /\ rpc[r] # "idle" => metTorn[r]

\* No publication can come between the two pins of the reader: it holds the
\* lock, or has found no lock file and there still is none.
Stable(r) == rpc[r] \in {"remeta", "reparse"} \/ ~lockless[r] \/ ~lockFile

\* Pins that no publication separates belong together, unless the pair is torn.
Paired(r) ==
    Stable(r) => /\ rpc[r] \in {"meta", "remeta"} => pinHtml[r] = html
                 /\ rpc[r] \in {"parse", "reparse"} => pinHtml[r] = pinMeta[r] \/ metTorn[r]

\* An error that nothing will make the reader read again is a torn pair's.
ErrorStands(r) ==
    /\ snapshot[r].why = "inconsistent"
    /\ rpc[r] = "end" \/ (rpc[r] = "recheck" /\ ~lockFile)
    => metTorn[r]

ReaderInv(r) == /\ Pinned(r) /\ Whole(r) /\ ReadFresh(r) /\ TornSeen(r)
                /\ Paired(r) /\ ErrorStands(r)

IInv == /\ TypeOK /\ Locks /\ Files /\ History /\ CacheWhole
        /\ \A r \in Readers : ReaderInv(r)

-----------------------------------------------------------------------------
(* Publications in order.                                                  *)

\* What is not older than a publication is not older than an earlier one.
LEMMA FreshMonotone ==
  ASSUME NEW w, NEW n \in Nat, NEW m \in 1..n, Fresh(w, n)
  PROVE  Fresh(w, m)
  <1> SUFFICES ASSUME NEW i \in 1..m, done[i] = w PROVE i = m
    BY DEF Fresh
  <1>1. i \in 1..n
    OBVIOUS
  <1>2. i = n
    BY <1>1 DEF Fresh
  <1> QED
    BY <1>2

\* A completion leaves the publications before it where they were.
LEMMA Completed ==
  ASSUME TypeOK, NEW w \in Writers, done' = Append(done, w)
  PROVE  /\ done' \in Seq(Writers) /\ Len(done') = Len(done) + 1
         /\ done'[Len(done) + 1] = w
         /\ \A i \in 1..Len(done) : done'[i] = done[i]
  BY DEF TypeOK

-----------------------------------------------------------------------------
(* The steps of writers.                                                   *)

\* The invariant holds at the start.
LEMMA InitIInv == Init => IInv
  <1> SUFFICES ASSUME Init PROVE IInv
    OBVIOUS
  <1> USE FilesAssumption
  <1>1. TypeOK
    <2>1. html \in Htmls \cup {None} /\ meta \in Pairs \cup {Damaged, None}
      BY DEF Init, Htmls, Pairs
    <2>2. NoRead \in ReadResult
      BY DEF NoRead, ReadResult
    <2>3. torn \in BOOLEAN /\ done \in Seq(Writers)
      BY DEF Init
    <2> QED
      BY <2>1, <2>2, <2>3 DEF Init, TypeOK
  <1>2. Locks
    BY DEF Init, Locks
  <1>3. Files
    BY DEF Init, Files, Pairs
  <1>4. History /\ CacheWhole
    BY DEF Init, History, CacheWhole
  <1>5. ASSUME NEW r \in Readers PROVE ReaderInv(r)
    BY DEF Init, ReaderInv, Pinned, Whole, ReadFresh, TornSeen, Paired, ErrorStands, NoRead
  <1> QED
    BY <1>1, <1>2, <1>3, <1>4, <1>5 DEF IInv

\* Writers leave the readers' variables alone.
LEMMA ReadersKept ==
  ASSUME NEW w \in Writers, WriterStep(w) \/ Interrupt(w)
  PROVE  UNCHANGED <<shared, rpc, lockless, pinHtml, pinMeta, snapshot, cache, since>>
  <1>1. CASE Stage(w) \/ CreateLock(w) \/ LockExclusive(w)
    BY <1>1 DEF Stage, CreateLock, LockExclusive, readerVars
  <1>2. CASE PublishMetadata(w) \/ PublishHtml(w)
    BY <1>2 DEF PublishMetadata, PublishHtml, readerVars
  <1>3. CASE Release(w) \/ Interrupt(w)
    BY <1>3 DEF Release, Interrupt, readerVars
  <1> QED
    BY <1>1, <1>2, <1>3 DEF WriterStep

\* A step of the writer keeps the types.
LEMMA WriterType ==
  ASSUME TypeOK, NEW w \in Writers, WriterStep(w) \/ Interrupt(w)
  PROVE  TypeOK'
  <1> USE FilesAssumption
  <1>1. UNCHANGED readerVars
    BY ReadersKept DEF readerVars
  <1>2. wpc' \in [Writers -> {"idle", "staged", "lock", "metadata", "html", "release", "done"}]
    <2>1. \E p \in {"staged", "lock", "metadata", "html", "release", "done"} :
             wpc' = [wpc EXCEPT ![w] = p]
      BY DEF WriterStep, Stage, CreateLock, LockExclusive, PublishMetadata, PublishHtml, Release,
         Interrupt, ReleaseLocks
    <2> QED
      BY <2>1 DEF TypeOK
  <1>3. html' \in Htmls \cup {None} /\ meta' \in Pairs \cup {Damaged, None}
    BY DEF WriterStep, Stage, CreateLock, LockExclusive, PublishMetadata, PublishHtml, Release,
       Interrupt, TypeOK, Htmls, Pairs
  <1>7. lockFile' \in BOOLEAN
    BY DEF WriterStep, Stage, CreateLock, LockExclusive, PublishMetadata, PublishHtml, Release,
       Interrupt, TypeOK
  <1>8. scratch' \in Writers \cup {None} /\ exclusive' \in Writers \cup {None}
    BY DEF WriterStep, Stage, CreateLock, LockExclusive, PublishMetadata, PublishHtml, Release,
       Interrupt, ReleaseLocks, TypeOK
  <1>4. done' \in Seq(Writers)
    <2>1. UNCHANGED done \/ done' = Append(done, w)
      BY DEF WriterStep, Stage, CreateLock, LockExclusive, PublishMetadata, PublishHtml, Release,
         Interrupt
    <2> QED
      BY <2>1, Completed DEF TypeOK
  <1>5. torn' \in BOOLEAN
    BY DEF WriterStep, Stage, CreateLock, LockExclusive, PublishMetadata, PublishHtml, Release,
       Interrupt, TypeOK
  <1>6. metTorn' \in [Readers -> BOOLEAN]
    BY <1>5 DEF WriterStep, Stage, CreateLock, LockExclusive, PublishMetadata, PublishHtml, Release,
       Interrupt, TypeOK
  <1> QED
    BY <1>1, <1>2, <1>3, <1>4, <1>5, <1>6, <1>7, <1>8 DEF TypeOK, readerVars

\* A step of the writer keeps the locks exclusive.
LEMMA WriterLocks ==
  ASSUME IInv, NEW w \in Writers, WriterStep(w) \/ Interrupt(w)
  PROVE  Locks'
  <1> USE FilesAssumption DEF IInv
  <1>1. UNCHANGED <<rpc, lockless, shared>>
    BY ReadersKept
  <1>2. CASE Stage(w)
    BY <1>1, <1>2 DEF Stage, Locks, TypeOK
  <1>3. CASE CreateLock(w)
    BY <1>1, <1>3 DEF CreateLock, Locks, TypeOK
  <1>4. CASE LockExclusive(w)
    BY <1>1, <1>4 DEF LockExclusive, Locks, TypeOK
  <1>5. CASE PublishMetadata(w)
    BY <1>1, <1>5 DEF PublishMetadata, Locks, TypeOK
  <1>6. CASE PublishHtml(w)
    BY <1>1, <1>6 DEF PublishHtml, Locks, TypeOK
  <1>7. CASE Release(w)
    BY <1>1, <1>7 DEF Release, ReleaseLocks, Locks, TypeOK
  <1>8. CASE Interrupt(w)
    BY <1>1, <1>8 DEF Interrupt, ReleaseLocks, Locks, TypeOK
  <1> QED
    BY <1>2, <1>3, <1>4, <1>5, <1>6, <1>7, <1>8 DEF WriterStep

\* A step of the writer keeps what the files hold in step with its progress.
LEMMA WriterFiles ==
  ASSUME IInv, NEW w \in Writers, WriterStep(w) \/ Interrupt(w)
  PROVE  Files' /\ History'
  <1> USE FilesAssumption DEF IInv
  <1>1. UNCHANGED <<pinHtml, since>>
    BY ReadersKept
  <1>2. CASE Stage(w) \/ CreateLock(w) \/ LockExclusive(w) \/ Release(w)
    <2>1. /\ UNCHANGED <<html, meta, done, torn>>
          /\ \A v \in Writers : (wpc[v] = "html" <=> wpc'[v] = "html")
                                /\ (wpc[v] \in {"release", "done"} => wpc'[v] \in {"release", "done"})
      BY <1>2 DEF Stage, CreateLock, LockExclusive, Release, ReleaseLocks, TypeOK
    <2>2. \A i \in 1..Len(done) : done[i] \in Writers
      BY DEF TypeOK
    <2> QED
      BY <1>1, <2>1, <2>2 DEF Files, History, Fresh
  <1>3. CASE PublishMetadata(w)
    <2>1. /\ UNCHANGED <<html, done, torn>> /\ meta' = w
          /\ wpc[w] = "metadata" /\ wpc' = [wpc EXCEPT ![w] = "html"]
          /\ \A v \in Writers \ {w} : wpc[v] # "html"
      BY <1>3 DEF PublishMetadata, Locks, TypeOK
    <2>2. Files'
      <3>1. meta' # None /\ meta' # Damaged
        BY <2>1
      <3>2. wpc'[w] = "html" /\ \A v \in Writers : wpc'[v] = "html" => v = w
        BY <2>1 DEF TypeOK
      <3> QED
        BY <2>1, <3>1, <3>2 DEF Files
    <2>3. \A i \in 1..Len(done) : done[i] \in Writers /\ done[i] # w
      <3>1. \A i \in 1..Len(done) : done[i] \in Writers
        BY DEF TypeOK
      <3> QED
        BY <2>1, <3>1 DEF History
    <2>4. History'
      BY <1>1, <2>1, <2>3 DEF History, Fresh, TypeOK
    <2> QED
      BY <2>2, <2>4
  <1>4. CASE PublishHtml(w)
    <2>1. /\ html' = w /\ meta' = w /\ torn' = FALSE
          /\ wpc[w] = "html" /\ wpc' = [wpc EXCEPT ![w] = "release"]
          /\ done' = Append(done, w)
      BY <1>4 DEF PublishHtml, Files
    <2>2. Files'
      BY <1>1, <2>1 DEF Files, TypeOK
    <2>3. \A i \in 1..Len(done) : done[i] \in Writers /\ done[i] # w
      BY <2>1 DEF History, TypeOK
    <2>4. /\ Len(done) \in Nat /\ Len(done') = Len(done) + 1
          /\ done'[Len(done) + 1] = w
          /\ \A i \in 1..Len(done) : done'[i] = done[i]
      BY <2>1, Completed DEF TypeOK
    <2>5. \A i \in 1..Len(done') : wpc'[done'[i]] \in {"release", "done"}
      <3> SUFFICES ASSUME NEW i \in 1..Len(done') PROVE wpc'[done'[i]] \in {"release", "done"}
        OBVIOUS
      <3>1. CASE i = Len(done) + 1
        BY <2>1, <2>4, <3>1 DEF TypeOK
      <3>2. CASE i \in 1..Len(done)
        BY <2>1, <2>3, <2>4, <3>2 DEF TypeOK, History
      <3> QED
        BY <2>4, <3>1, <3>2
    <2>6. \A i \in 1..Len(done') : done'[i] = w => i = Len(done')
      BY <2>3, <2>4
    <2>7. History'
      BY <1>1, <2>1, <2>4, <2>5, <2>6 DEF History, Fresh, TypeOK
    <2> QED
      BY <2>2, <2>7
  <1>5. CASE Interrupt(w)
    <2>1. /\ UNCHANGED <<html, meta, done>>
          /\ wpc' = [wpc EXCEPT ![w] = "done"]
          /\ torn' <=> (torn \/ wpc[w] = "html")
      BY <1>5 DEF Interrupt, ReleaseLocks
    <2>2. Files'
      BY <1>1, <2>1 DEF Files, TypeOK
    <2>3. \A i \in 1..Len(done) : done[i] \in Writers
      BY DEF TypeOK
    <2>4. History'
      BY <1>1, <2>1, <2>3 DEF History, Fresh, TypeOK
    <2> QED
      BY <2>2, <2>4
  <1> QED
    BY <1>2, <1>3, <1>4, <1>5 DEF WriterStep

\* Readers notice no writer: the lock keeps it from their pins, and if there is
\* no lock file there is no writer at its renames.
LEMMA WriterReaders ==
  ASSUME IInv, NEW w \in Writers, WriterStep(w) \/ Interrupt(w), NEW r \in Readers
  PROVE  ReaderInv(r)'
  <1> USE FilesAssumption DEF IInv
  <1>1. UNCHANGED <<rpc, lockless, pinHtml, pinMeta, snapshot, since>>
    BY ReadersKept
  <1>2. /\ lockFile => lockFile'
        /\ metTorn[r] => metTorn'[r]
        /\ torn' /\ rpc[r] # "idle" => metTorn'[r]
        /\ done' = done \/ \E v \in Writers : done' = Append(done, v)
    <2>1. CASE Interrupt(w)
      BY <2>1 DEF Interrupt, TypeOK
    <2>2. CASE PublishHtml(w)
      BY <2>2 DEF PublishHtml
    <2>3. CASE Stage(w) \/ CreateLock(w) \/ LockExclusive(w) \/ PublishMetadata(w) \/ Release(w)
      BY <2>3 DEF Stage, CreateLock, LockExclusive, PublishMetadata, Release, ReaderInv, TornSeen
    <2> QED
      BY <2>1, <2>2, <2>3 DEF WriterStep
  <1>3. ReaderInv(r)
    OBVIOUS
  <1>4. Pinned(r)' /\ Whole(r)'
    BY <1>1, <1>3 DEF ReaderInv, Pinned, Whole
  <1>5. ReadFresh(r)'
    <2> SUFFICES ASSUME since[r] > 0
                 PROVE  /\ rpc[r] \in {"parse", "reparse"} => Fresh(pinMeta[r], since[r])'
                        /\ snapshot[r].ok => Fresh(snapshot[r].meta, since[r])'
      BY <1>1 DEF ReadFresh
    <2>1. since[r] \in Nat /\ since[r] <= Len(done)
      BY DEF TypeOK, History
    <2>2. \A i \in 1..since[r] : done'[i] = done[i]
      BY <1>2, <2>1, Completed DEF TypeOK
    <2>3. \A v : Fresh(v, since[r]) => Fresh(v, since[r])'
      BY <1>1, <2>2 DEF Fresh
    <2> QED
      BY <1>1, <1>3, <2>3 DEF ReaderInv, ReadFresh, Fresh
  <1>6. TornSeen(r)' /\ ErrorStands(r)'
    BY <1>1, <1>2, <1>3 DEF ReaderInv, TornSeen, ErrorStands
  <1>7. Paired(r)'
    <2>1. Stable(r)' => Stable(r)
      BY <1>1, <1>2 DEF Stable
    <2>2. CASE html' = html
      BY <1>1, <1>2, <1>3, <2>1, <2>2 DEF ReaderInv, Paired
    <2>3. CASE html' # html
      <3>1. PublishHtml(w)
        BY <2>3 DEF WriterStep, Stage, CreateLock, LockExclusive, PublishMetadata, Release, Interrupt
      <3>2. shared = {} /\ lockFile
        BY <3>1 DEF PublishHtml, Locks
      <3>3. Stable(r) => rpc[r] \notin {"meta", "remeta"}
        BY <3>2 DEF Stable, Locks
      <3> QED
        BY <1>1, <1>2, <1>3, <2>1, <3>3 DEF ReaderInv, Paired
    <2> QED
      BY <2>2, <2>3
  <1> QED
    BY <1>4, <1>5, <1>6, <1>7 DEF ReaderInv

-----------------------------------------------------------------------------
(* The steps of readers.                                                   *)

ReadPoints == {"idle", "find_lock", "lock", "html", "meta", "parse", "recheck",
               "relock", "rehtml", "remeta", "reparse", "end"}

\* A reader touches its own variables, the lock it shares and the cache.
LEMMA ReaderFrame ==
  ASSUME TypeOK, NEW r \in Readers, StartRead(r) \/ ReaderStep(r)
  PROVE  /\ UNCHANGED <<html, meta, lockFile, scratch, exclusive, wpc, done, torn>>
         /\ rpc' \in [Readers -> ReadPoints]
         /\ shared' \subseteq shared \cup {r}
         /\ \A q \in Readers \ {r} :
               /\ rpc'[q] = rpc[q] /\ lockless'[q] = lockless[q]
               /\ pinHtml'[q] = pinHtml[q] /\ pinMeta'[q] = pinMeta[q]
               /\ snapshot'[q] = snapshot[q] /\ since'[q] = since[q] /\ metTorn'[q] = metTorn[q]
               /\ q \in shared => q \in shared'
  <1> USE DEF TypeOK, ReadPoints, AfterFirst
  <1>1. CASE StartRead(r)
    BY <1>1 DEF StartRead, writerVars
  <1>2. CASE FindLock(r)
    BY <1>2 DEF FindLock, writerVars
  <1>3. CASE LockShared(r)
    BY <1>3 DEF LockShared, writerVars
  <1>4. CASE OpenHtml(r)
    BY <1>4 DEF OpenHtml, writerVars
  <1>5. CASE OpenMeta(r)
    BY <1>5 DEF OpenMeta, writerVars
  <1>6. CASE Parse(r)
    BY <1>6 DEF Parse, writerVars
  <1>7. CASE Recheck(r)
    BY <1>7 DEF Recheck, writerVars
  <1>8. CASE EndRead(r)
    BY <1>8 DEF EndRead, writerVars
  <1> QED
    BY <1>1, <1>2, <1>3, <1>4, <1>5, <1>6, <1>7, <1>8 DEF ReaderStep

\* Nothing a reader does concerns what the others know.
LEMMA OtherReaders ==
  ASSUME IInv, NEW r \in Readers, StartRead(r) \/ ReaderStep(r), NEW q \in Readers \ {r}
  PROVE  ReaderInv(q)'
  <1> USE DEF IInv
  <1>1. /\ UNCHANGED <<html, lockFile, done, torn>>
        /\ rpc'[q] = rpc[q] /\ lockless'[q] = lockless[q]
        /\ pinHtml'[q] = pinHtml[q] /\ pinMeta'[q] = pinMeta[q]
        /\ snapshot'[q] = snapshot[q] /\ since'[q] = since[q] /\ metTorn'[q] = metTorn[q]
    BY ReaderFrame
  <1>2. ReaderInv(q)
    OBVIOUS
  <1>3. Pinned(q)' /\ Whole(q)' /\ TornSeen(q)' /\ ErrorStands(q)'
    BY <1>1, <1>2 DEF ReaderInv, Pinned, Whole, TornSeen, ErrorStands
  <1>4. ReadFresh(q)'
    BY <1>1, <1>2 DEF ReaderInv, ReadFresh, Fresh
  <1>5. Paired(q)'
    BY <1>1, <1>2 DEF ReaderInv, Paired, Stable
  <1> QED
    BY <1>3, <1>4, <1>5 DEF ReaderInv

\* A step of a reader keeps the types.
LEMMA ReaderType ==
  ASSUME IInv, NEW r \in Readers, StartRead(r) \/ ReaderStep(r)
  PROVE  TypeOK'
  <1>1. TypeOK /\ Pinned(r)
    BY DEF IInv, ReaderInv
  <1>2. /\ UNCHANGED <<html, meta, lockFile, scratch, exclusive, wpc, done, torn>>
        /\ rpc' \in [Readers -> ReadPoints] /\ shared' \subseteq Readers
    BY <1>1, ReaderFrame DEF TypeOK
  <1>3. /\ lockless' \in [Readers -> BOOLEAN] /\ pinHtml' \in [Readers -> Htmls \cup {None}]
        /\ pinMeta' \in [Readers -> Pairs \cup {Damaged, None}]
    <2>1. lockless' \in [Readers -> BOOLEAN]
      <3>1. CASE FindLock(r)
        BY <1>1, <3>1 DEF FindLock, TypeOK
      <3>2. CASE EndRead(r)
        BY <1>1, <3>2 DEF EndRead, TypeOK
      <3>3. CASE UNCHANGED lockless
        BY <1>1, <3>3 DEF TypeOK
      <3> QED
        BY <3>1, <3>2, <3>3 DEF ReaderStep, StartRead, LockShared, OpenHtml, OpenMeta, Parse, Recheck
    <2>2. UNCHANGED pinHtml \/ \E v \in Htmls \cup {None} : pinHtml' = [pinHtml EXCEPT ![r] = v]
      BY <1>1 DEF ReaderStep, StartRead, FindLock, LockShared, OpenHtml, OpenMeta, Parse, Recheck, EndRead, TypeOK
    <2>3. UNCHANGED pinMeta \/ \E v \in Pairs \cup {Damaged, None} : pinMeta' = [pinMeta EXCEPT ![r] = v]
      BY <1>1 DEF ReaderStep, StartRead, FindLock, LockShared, OpenHtml, OpenMeta, Parse, Recheck, EndRead, TypeOK
    <2>4. pinHtml' \in [Readers -> Htmls \cup {None}]
      BY <1>1, <2>2 DEF TypeOK
    <2>5. pinMeta' \in [Readers -> Pairs \cup {Damaged, None}]
      BY <1>1, <2>3 DEF TypeOK
    <2> QED
      BY <2>1, <2>4, <2>5
  <1>4. since' \in [Readers -> Nat] /\ metTorn' \in [Readers -> BOOLEAN]
    <2>1. Len(done) \in Nat
      BY <1>1 DEF TypeOK
    <2>2. UNCHANGED since \/ \E v \in Nat : since' = [since EXCEPT ![r] = v]
      BY <2>1 DEF ReaderStep, StartRead, FindLock, LockShared, OpenHtml, OpenMeta, Parse, Recheck, EndRead
    <2>3. metTorn' \in [Readers -> BOOLEAN]
      <3>1. CASE StartRead(r)
        BY <1>1, <3>1 DEF StartRead, TypeOK
      <3>2. CASE EndRead(r)
        BY <1>1, <3>2 DEF EndRead, TypeOK
      <3>3. CASE UNCHANGED metTorn
        BY <1>1, <3>3 DEF TypeOK
      <3> QED
        BY <3>1, <3>2, <3>3 DEF ReaderStep, FindLock, LockShared, OpenHtml, OpenMeta, Parse, Recheck
    <2>4. since' \in [Readers -> Nat]
      BY <1>1, <2>2 DEF TypeOK
    <2> QED
      BY <2>3, <2>4
  <1>5. snapshot' \in [Readers -> ReadResult] /\ (cache' = None \/ cache' \in Htmls \X Pairs)
    <2>1. CASE UNCHANGED <<snapshot, cache>>
      BY <1>1, <2>1 DEF TypeOK
    <2>2. CASE StartRead(r) \/ OpenHtml(r) \/ EndRead(r)
      <3>1. NoRead \in ReadResult /\ Missing \in ReadResult
        BY DEF NoRead, Missing, ReadResult
      <3>2. \/ UNCHANGED snapshot
            \/ snapshot' = [snapshot EXCEPT ![r] = NoRead]
            \/ snapshot' = [snapshot EXCEPT ![r] = Missing]
        BY <2>2 DEF StartRead, OpenHtml, EndRead
      <3>3. UNCHANGED cache
        BY <2>2 DEF StartRead, OpenHtml, EndRead
      <3> QED
        BY <1>1, <3>1, <3>2, <3>3 DEF TypeOK
    <2>3. CASE OpenMeta(r)
      <3>1. pinHtml[r] \in Htmls
        BY <1>1, <2>3 DEF OpenMeta, Pinned, TypeOK
      <3>2. /\ [ok |-> TRUE, html |-> pinHtml[r], meta |-> None, why |-> "legacy"] \in ReadResult
            /\ [NoRead EXCEPT !.why = "inconsistent"] \in ReadResult
        BY <3>1 DEF NoRead, ReadResult
      <3>3. \/ UNCHANGED snapshot
            \/ snapshot' = [snapshot EXCEPT ![r] =
                  [ok |-> TRUE, html |-> pinHtml[r], meta |-> None, why |-> "legacy"]]
            \/ snapshot' = [snapshot EXCEPT ![r] = [NoRead EXCEPT !.why = "inconsistent"]]
        BY <2>3 DEF OpenMeta
      <3>4. UNCHANGED cache
        BY <2>3 DEF OpenMeta
      <3> QED
        BY <1>1, <3>2, <3>3, <3>4 DEF TypeOK
    <2>4. CASE Parse(r)
      <3>1. pinHtml[r] \in Htmls /\ pinMeta[r] \in Pairs
        BY <1>1, <2>4 DEF Parse, Pinned, TypeOK
      <3>2. Verified(r) => cache[2] = pinMeta[r]
        BY DEF Verified
      <3>3. /\ [ok |-> TRUE, html |-> pinHtml[r], meta |-> pinMeta[r], why |-> "cached"] \in ReadResult
            /\ [ok |-> TRUE, html |-> pinHtml[r], meta |-> pinMeta[r], why |-> "digest"] \in ReadResult
            /\ [NoRead EXCEPT !.why = "inconsistent"] \in ReadResult
        BY <3>1 DEF NoRead, ReadResult
      <3>4. \E v \in ReadResult : snapshot' = [snapshot EXCEPT ![r] = v]
        BY <2>4, <3>2, <3>3 DEF Parse
      <3>5. cache' = cache \/ cache' = <<pinHtml[r], pinMeta[r]>>
        BY <2>4 DEF Parse
      <3> QED
        BY <1>1, <3>1, <3>4, <3>5 DEF TypeOK
    <2> QED
      BY <2>1, <2>2, <2>3, <2>4 DEF ReaderStep, FindLock, LockShared, Recheck
  <1> QED
    BY <1>1, <1>2, <1>3, <1>4, <1>5 DEF TypeOK, ReadPoints

\* The lock, the files, the publications and the cache after a reader's step.
LEMMA ReaderShares ==
  ASSUME IInv, NEW r \in Readers, StartRead(r) \/ ReaderStep(r)
  PROVE  Locks' /\ Files' /\ History' /\ CacheWhole'
  <1> USE FilesAssumption DEF IInv
  <1>1. TypeOK
    OBVIOUS
  <1>2. /\ UNCHANGED <<html, meta, lockFile, exclusive, wpc, done, torn>>
        /\ rpc' \in [Readers -> ReadPoints]
        /\ \A q \in Readers \ {r} :
              /\ rpc'[q] = rpc[q] /\ lockless'[q] = lockless[q] /\ pinHtml'[q] = pinHtml[q]
              /\ since'[q] = since[q] /\ (q \in shared => q \in shared')
    BY <1>1, ReaderFrame
  <1>3. Locks'
    <2>1. exclusive # None => shared' = {}
      BY DEF ReaderStep, StartRead, FindLock, LockShared, OpenHtml, OpenMeta, Parse, Recheck,
         EndRead, Locks
    <2>2. \/ rpc'[r] \in {"rehtml", "remeta"}
          \/ rpc'[r] \in {"html", "meta"} /\ ~lockless'[r]
          => r \in shared'
      <3>1. CASE FindLock(r)
        BY <3>1 DEF FindLock, TypeOK
      <3>2. CASE LockShared(r)
        BY <3>2 DEF LockShared, TypeOK
      <3>3. CASE OpenHtml(r)
        BY <3>3 DEF OpenHtml, AfterFirst, Locks, TypeOK
      <3>4. CASE StartRead(r) \/ OpenMeta(r) \/ Parse(r) \/ Recheck(r) \/ EndRead(r)
        BY <3>4 DEF StartRead, OpenMeta, Parse, Recheck, EndRead, AfterFirst, TypeOK
      <3> QED
        BY <3>1, <3>2, <3>3, <3>4 DEF ReaderStep
    <2>3. \A q \in Readers :
             \/ rpc'[q] \in {"rehtml", "remeta"}
             \/ rpc'[q] \in {"html", "meta"} /\ ~lockless'[q]
             => q \in shared'
      BY <1>2, <2>2 DEF Locks
    <2> QED
      BY <1>2, <2>1, <2>3 DEF Locks
  <1>4. Files'
    <2>1. pinHtml'[r] \in {pinHtml[r], html, None}
      BY DEF ReaderStep, StartRead, FindLock, LockShared, OpenHtml, OpenMeta, Parse, Recheck,
         EndRead, TypeOK
    <2> QED
      BY <1>2, <2>1 DEF Files
  <1>5. History'
    <2>1. since'[r] \in {since[r], Len(done), 0}
      BY DEF ReaderStep, StartRead, FindLock, LockShared, OpenHtml, OpenMeta, Parse, Recheck,
         EndRead, TypeOK
    <2>2. Len(done) \in Nat
      BY DEF TypeOK
    <2> QED
      BY <1>2, <2>1, <2>2 DEF History, Fresh
  <1>6. CacheWhole'
    <2>1. \/ UNCHANGED cache
          \/ DigestMatches(r) /\ cache' = <<pinHtml[r], pinMeta[r]>>
      BY DEF ReaderStep, StartRead, FindLock, LockShared, OpenHtml, OpenMeta, Parse, Recheck, EndRead
    <2> QED
      BY <2>1 DEF CacheWhole, DigestMatches
  <1> QED
    BY <1>3, <1>4, <1>5, <1>6

\* The reader's own knowledge after its step.
LEMMA ReaderOwn ==
  ASSUME IInv, NEW r \in Readers, StartRead(r) \/ ReaderStep(r)
  PROVE  ReaderInv(r)'
  <1>1. TypeOK /\ Locks /\ Files /\ History /\ CacheWhole /\ ReaderInv(r)
    BY DEF IInv
  <1>2. UNCHANGED <<html, meta, lockFile, wpc, done, torn>>
    BY <1>1, ReaderFrame
  <1>3. Len(done) \in Nat /\ since[r] \in Nat /\ since[r] <= Len(done)
    BY <1>1 DEF TypeOK, History
  <1>5. CASE StartRead(r)
    <2>1. /\ rpc'[r] \in {"find_lock", "end"} /\ lockless' = lockless
          /\ snapshot'[r] \in {NoRead, Missing} /\ (metTorn'[r] <=> torn)
      BY <1>1, <1>5 DEF StartRead, TypeOK
    <2>2. /\ ~NoRead.ok /\ NoRead.why # "inconsistent"
          /\ ~Missing.ok /\ Missing.why # "inconsistent"
      BY DEF NoRead, Missing
    <2> QED
      BY <1>2, <2>1, <2>2
         DEF ReaderInv, Pinned, Whole, ReadFresh, TornSeen, Paired, ErrorStands
  <1>6. CASE FindLock(r)
    <2>1. /\ rpc[r] = "find_lock"
          /\ rpc'[r] = (IF lockFile THEN "lock" ELSE "html")
          /\ UNCHANGED <<pinHtml, pinMeta, snapshot, since, metTorn>>
      BY <1>1, <1>6 DEF FindLock, TypeOK
    <2> QED
      BY <1>1, <1>2, <2>1
         DEF ReaderInv, Pinned, Whole, ReadFresh, Fresh, TornSeen, Paired, ErrorStands
  <1>7. CASE LockShared(r)
    <2>1. /\ rpc[r] \in {"lock", "relock"} /\ rpc'[r] \in {"html", "rehtml"}
          /\ UNCHANGED <<lockless, pinHtml, pinMeta, snapshot, since, metTorn>>
      BY <1>1, <1>7 DEF LockShared, TypeOK
    <2> QED
      BY <1>1, <1>2, <2>1
         DEF ReaderInv, Pinned, Whole, ReadFresh, Fresh, TornSeen, Paired, ErrorStands
  <1>8. CASE OpenHtml(r)
    <2>1. /\ rpc[r] \in {"html", "rehtml"} /\ pinHtml'[r] = html
          /\ UNCHANGED <<lockless, pinMeta, since, metTorn>>
      BY <1>1, <1>8 DEF OpenHtml, TypeOK
    <2>2. ~Missing.ok /\ Missing.why # "inconsistent"
      BY DEF NoRead, Missing
    <2>3. CASE HtmlFound
      <3>1. html # None /\ rpc'[r] \in {"meta", "remeta"} /\ UNCHANGED snapshot
        BY <1>1, <1>8, <2>3 DEF OpenHtml, HtmlFound, TypeOK
      <3> QED
        BY <1>1, <1>2, <2>1, <3>1
           DEF ReaderInv, Pinned, Whole, ReadFresh, Fresh, TornSeen, Paired, ErrorStands
    <2>4. CASE ~HtmlFound
      <3>1. rpc'[r] \in {"recheck", "end"} /\ snapshot'[r] = Missing
        BY <1>1, <1>8, <2>4 DEF OpenHtml, AfterFirst, TypeOK
      <3> QED
        BY <1>1, <1>2, <2>1, <2>2, <3>1
           DEF ReaderInv, Pinned, Whole, ReadFresh, TornSeen, Paired, ErrorStands
    <2> QED
      BY <2>3, <2>4
  <1>9. CASE OpenMeta(r)
    <2>1. /\ rpc[r] \in {"meta", "remeta"} /\ pinMeta'[r] = meta
          /\ UNCHANGED <<lockless, pinHtml, since, metTorn>>
          /\ pinHtml[r] \in Htmls
      BY <1>1, <1>9 DEF OpenMeta, TypeOK, ReaderInv, Pinned
    <2>2. since[r] > 0 => Fresh(meta, since[r])
      <3>1. CASE since[r] > 0
        <4>1. since[r] \in 1..Len(done) /\ Fresh(meta, Len(done))
          BY <1>1, <1>3, <3>1 DEF History
        <4> QED
          BY <1>3, <4>1, FreshMonotone
      <3> QED
        BY <3>1
    <2>3. torn => metTorn[r]
      BY <1>1, <2>1 DEF ReaderInv, TornSeen
    <2>4. CASE meta = None
      <3> DEFINE legacy == [ok |-> TRUE, html |-> pinHtml[r], meta |-> None, why |-> "legacy"]
      <3>1. rpc'[r] = "end" /\ snapshot'[r] = legacy
        BY <1>1, <1>9, <2>4, FilesAssumption DEF OpenMeta, TypeOK, Pairs
      <3>2. pinHtml[r] = Legacy
        BY <1>1, <2>1, <2>4 DEF Files, ReaderInv, Pinned
      <3>3. since[r] = 0
        BY <1>3, <2>2, <2>4, FilesAssumption DEF Fresh
      <3> QED
        BY <1>1, <1>2, <2>1, <3>1, <3>2, <3>3
           DEF ReaderInv, Pinned, Whole, ReadFresh, TornSeen, Paired, ErrorStands
    <2>5. CASE meta = Damaged
      <3> DEFINE wrong == [NoRead EXCEPT !.why = "inconsistent"]
      <3>1. rpc'[r] \in {"recheck", "end"} /\ snapshot'[r] = wrong
        BY <1>1, <1>9, <2>5, FilesAssumption DEF OpenMeta, AfterFirst, TypeOK, Pairs
      <3>2. ~wrong.ok
        BY DEF NoRead
      <3>3. metTorn[r]
        BY <1>1, <2>3, <2>5 DEF Files
      <3> QED
        BY <1>1, <1>2, <2>1, <3>1, <3>2, <3>3
           DEF ReaderInv, Pinned, Whole, ReadFresh, TornSeen, Paired, ErrorStands
    <2>6. CASE meta \in Pairs
      <3>1. /\ UNCHANGED snapshot
            /\ rpc'[r] = IF rpc[r] = "meta" THEN "parse" ELSE "reparse"
        BY <1>1, <1>9, <2>6, FilesAssumption DEF OpenMeta, TypeOK, Pairs
      <3>2. Stable(r)' => pinHtml[r] = meta \/ metTorn[r]
        <4> SUFFICES ASSUME Stable(r)', ~metTorn[r] PROVE pinHtml[r] = meta
          OBVIOUS
        <4>1. Stable(r)
          BY <1>2, <2>1, <3>1 DEF Stable
        <4>2. pinHtml[r] = html
          BY <1>1, <2>1, <4>1 DEF ReaderInv, Paired
        <4>3. \A w \in Writers : wpc[w] # "html"
          BY <1>1, <2>1, <4>1, FilesAssumption DEF Locks, Stable
        <4> QED
          BY <1>1, <2>3, <2>6, <4>2, <4>3 DEF Files
      <3>3. Pinned(r)' /\ Whole(r)' /\ TornSeen(r)' /\ ErrorStands(r)'
        BY <1>1, <1>2, <2>1, <2>6, <3>1 DEF ReaderInv, Pinned, Whole, TornSeen, ErrorStands
      <3>4. ReadFresh(r)'
        BY <1>1, <1>2, <2>1, <2>2, <3>1 DEF ReaderInv, ReadFresh, Fresh
      <3>5. Paired(r)'
        BY <2>1, <3>1, <3>2 DEF Paired
      <3> QED
        BY <3>3, <3>4, <3>5 DEF ReaderInv
    <2> QED
      BY <1>9, <2>4, <2>5, <2>6 DEF OpenMeta
  <1>10. CASE Parse(r)
    <2>1. /\ rpc[r] \in {"parse", "reparse"}
          /\ rpc'[r] = IF rpc[r] = "parse" THEN AfterFirst(r) ELSE "end"
          /\ UNCHANGED <<lockless, pinHtml, pinMeta, since, metTorn>>
          /\ pinHtml[r] \in Htmls /\ pinMeta[r] \in Pairs
      BY <1>1, <1>10 DEF Parse, TypeOK, ReaderInv, Pinned
    <2>2. rpc'[r] \in {"recheck", "end"}
      BY <2>1 DEF AfterFirst
    <2>3. CASE Verified(r) \/ DigestMatches(r)
      <3>1. /\ snapshot'[r].ok /\ snapshot'[r].html = pinHtml[r] /\ snapshot'[r].meta = pinMeta[r]
            /\ snapshot'[r].why # "inconsistent"
        <4>1. Verified(r) => cache[2] = pinMeta[r]
          BY DEF Verified
        <4>2. CASE Verified(r)
          BY <1>1, <1>10, <4>1, <4>2 DEF Parse, TypeOK
        <4>3. CASE ~Verified(r) /\ DigestMatches(r)
          BY <1>1, <1>10, <4>3 DEF Parse, TypeOK
        <4> QED
          BY <2>3, <4>2, <4>3
      <3>2. BodyOf[pinHtml[r]] = BodyOf[pinMeta[r]]
        BY <1>1, <2>3 DEF Verified, DigestMatches, CacheWhole
      <3>3. pinMeta[r] # None
        BY <2>1, FilesAssumption DEF Pairs
      <3>4. Pinned(r)' /\ Whole(r)' /\ TornSeen(r)' /\ ErrorStands(r)' /\ Paired(r)'
        BY <1>1, <1>2, <2>1, <2>2, <3>1, <3>2, <3>3
           DEF ReaderInv, Pinned, Whole, TornSeen, ErrorStands, Paired
      <3>5. ReadFresh(r)'
        BY <1>1, <1>2, <2>1, <2>2, <3>1 DEF ReaderInv, ReadFresh, Fresh
      <3> QED
        BY <3>4, <3>5 DEF ReaderInv
    <2>4. CASE ~Verified(r) /\ ~DigestMatches(r)
      <3> DEFINE wrong == [NoRead EXCEPT !.why = "inconsistent"]
      <3>1. snapshot'[r] = wrong
        BY <1>1, <1>10, <2>4 DEF Parse, TypeOK
      <3>2. ~wrong.ok
        BY DEF NoRead
      <3>3. pinHtml[r] # pinMeta[r]
        BY <2>4 DEF DigestMatches
      <3>4. ErrorStands(r)'
        <4> SUFFICES ASSUME rpc'[r] = "end" \/ (rpc'[r] = "recheck" /\ ~lockFile)
                     PROVE  metTorn[r]
          BY <1>2, <2>1 DEF ErrorStands
        <4>1. Stable(r)
          BY <2>1 DEF Stable, AfterFirst
        <4> QED
          BY <1>1, <2>1, <3>3, <4>1 DEF ReaderInv, Paired
      <3> QED
        BY <1>1, <1>2, <2>1, <2>2, <3>1, <3>2, <3>4
           DEF ReaderInv, Pinned, Whole, ReadFresh, TornSeen, Paired
    <2> QED
      BY <2>3, <2>4
  <1>11. CASE Recheck(r)
    <2>1. /\ rpc[r] = "recheck" /\ rpc'[r] = (IF lockFile THEN "relock" ELSE "end")
          /\ UNCHANGED <<lockless, pinHtml, pinMeta, snapshot, since, metTorn>>
      BY <1>1, <1>11 DEF Recheck, TypeOK
    <2> QED
      BY <1>1, <1>2, <2>1
         DEF ReaderInv, Pinned, Whole, ReadFresh, Fresh, TornSeen, Paired, ErrorStands
  <1>12. CASE EndRead(r)
    <2>1. rpc'[r] = "idle" /\ snapshot'[r] = NoRead /\ since'[r] = 0
      BY <1>1, <1>12 DEF EndRead, TypeOK
    <2>2. ~NoRead.ok
      BY DEF NoRead
    <2> QED
      BY <2>1, <2>2 DEF ReaderInv, Pinned, Whole, ReadFresh, TornSeen, Paired, ErrorStands
  <1> QED
    BY <1>5, <1>6, <1>7, <1>8, <1>9, <1>10, <1>11, <1>12 DEF ReaderStep

-----------------------------------------------------------------------------
(* Every step keeps the invariant.                                         *)

\* Every step keeps the invariant.
LEMMA NextIInv == IInv /\ [Next]_vars => IInv'
  <1> SUFFICES ASSUME IInv, [Next]_vars PROVE IInv'
    OBVIOUS
  <1>1. ASSUME NEW w \in Writers, WriterStep(w) \/ Interrupt(w) PROVE IInv'
    <2>1. TypeOK'
      BY <1>1, WriterType DEF IInv
    <2>2. Locks' /\ Files' /\ History'
      BY <1>1, WriterLocks, WriterFiles
    <2>3. CacheWhole'
      BY <1>1, ReadersKept DEF IInv, CacheWhole
    <2>4. \A r \in Readers : ReaderInv(r)'
      BY <1>1, WriterReaders
    <2> QED
      BY <2>1, <2>2, <2>3, <2>4 DEF IInv
  <1>2. ASSUME NEW r \in Readers, StartRead(r) \/ ReaderStep(r) PROVE IInv'
    <2>1. \A q \in Readers : ReaderInv(q)'
      BY <1>2, ReaderOwn, OtherReaders
    <2> QED
      BY <1>2, <2>1, ReaderType, ReaderShares DEF IInv
  <1>3. CASE ForgetVerified
    <2>1. /\ UNCHANGED <<html, meta, lockFile, scratch, exclusive, wpc, done, torn>>
          /\ UNCHANGED <<shared, rpc, lockless, pinHtml, pinMeta, snapshot, since, metTorn>>
          /\ cache' = None
      BY <1>3 DEF ForgetVerified, writerVars
    <2> QED
      BY <2>1 DEF IInv, TypeOK, Locks, Files, History, Fresh, CacheWhole, ReaderInv, Pinned, Whole,
         ReadFresh, TornSeen, Paired, Stable, ErrorStands
  <1>4. CASE UNCHANGED vars
    BY <1>4 DEF vars, writerVars, readerVars, IInv, TypeOK, Locks, Files, History, Fresh, CacheWhole,
       ReaderInv, Pinned, Whole, ReadFresh, TornSeen, Paired, Stable, ErrorStands
  <1> QED
    BY <1>1, <1>2, <1>3, <1>4 DEF Next

\* The invariant holds in every state.
LEMMA Invariant == Spec => []IInv
  BY InitIInv, NextIInv, PTL DEF Spec

-----------------------------------------------------------------------------
(* The theorems.                                                           *)

\* Every variable keeps its type.
THEOREM TypeCorrect == Spec => []TypeOK
  BY Invariant, PTL DEF IInv

\* A body is served with its own metadata, or is an older publisher's
\* (read_paired_static_file, parse_static_snapshot, the cache of pairs).
THEOREM ReadsAreWhole == Spec => []PairsAreWhole
  <1>1. IInv => PairsAreWhole
    BY DEF IInv, ReaderInv, Whole, PairsAreWhole, Success
  <1> QED
    BY <1>1, Invariant, PTL

\* A read returns the publication that had completed when it began or a later
\* one: publishers commit metadata before HTML, readers pin HTML before metadata.
THEOREM ReadsReturnTheLatest == Spec => []ReadsAreFresh
  <1>1. IInv => ReadsAreFresh
    BY DEF IInv, ReaderInv, ReadFresh, ReadsAreFresh, Success
  <1> QED
    BY <1>1, Invariant, PTL

\* Publications in progress never show through as inconsistent pairs: the lock
\* separates the pins from the renames, and a reader that found no lock file
\* looks for it again before it gives up.
THEOREM OnlyTornPairsFail == Spec => []ErrorsOnlyWhenTorn
  <1>1. IInv => ErrorsOnlyWhenTorn
    BY DEF IInv, ReaderInv, ErrorStands, ErrorsOnlyWhenTorn
  <1> QED
    BY <1>1, Invariant, PTL
=============================================================================
