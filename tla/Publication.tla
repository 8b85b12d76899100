------------------------------ MODULE Publication ------------------------------
(***************************************************************************)
(* Publication of one static route and the readers that serve it           *)
(* (src/static_routes.rs): write_static_route_managed from the scratch     *)
(* lock on, read_paired_static_file with parse_static_snapshot, and the    *)
(* cache of verified pairs.                                                *)
(*                                                                         *)
(* A publication replaces two files, the response metadata and then the    *)
(* HTML, under an exclusive lock whose file the first publication creates; *)
(* readers share that lock if its file exists.  A file is identified by    *)
(* the writer that produced it: every publication makes new inodes.  An    *)
(* older publisher leaves HTML without metadata (Legacy), and a deployment *)
(* may bring a complete pair without its lock file (Deployed), or one      *)
(* whose metadata entry leads nowhere (Damaged).  Writers and readers may  *)
(* belong to different processes.                                          *)
(***************************************************************************)
EXTENDS Naturals, Sequences, FiniteSets

CONSTANTS
    Writers,    \* publications of the route
    Readers,    \* concurrent read_paired_static_file calls
    Legacy,     \* HTML left by an older publisher
    Deployed,   \* a complete pair brought by a deployment
    Damaged,    \* a metadata entry that cannot be opened, a dangling link
    None,       \* no file, nobody
    BodyOf      \* HTML body of each file; bodies may repeat

ASSUME FilesAssumption == /\ None \notin Writers \cup {Legacy, Deployed, Damaged}
                          /\ Legacy \notin Writers \cup {Deployed, Damaged}
                          /\ Deployed \notin Writers \cup {Damaged}
                          /\ Damaged \notin Writers

VARIABLES
    html, meta,         \* the two directory entries
    lockFile,           \* the publication lock file exists
    scratch,            \* owner of the name's scratch lock
    exclusive, shared,  \* holders of the publication lock
    wpc,                \* writers
    rpc, lockless, pinHtml, pinMeta, snapshot,  \* readers
    cache,              \* verified::ENTRIES for this path
    \* observers: completed publications in order, the position each reader
    \* started from, an interruption left the pair torn, and a reader met that
    done, since, torn, metTorn

writerVars == <<html, meta, lockFile, scratch, exclusive, wpc, done, torn>>
readerVars == <<shared, rpc, lockless, pinHtml, pinMeta, snapshot, cache, since>>
vars == <<writerVars, readerVars, metTorn>>

Pairs == Writers \cup {Deployed}
Htmls == Pairs \cup {Legacy}
NoRead == [ok |-> FALSE, html |-> None, meta |-> None, why |-> "none"]

\* The site starts empty, with an older publisher's artifact, or deployed, the
\* metadata intact or not.
Init ==
    /\ html \in {None, Legacy, Deployed}
    /\ meta \in IF html = Deployed THEN {Deployed, Damaged} ELSE {None}
    /\ lockFile = FALSE
    /\ scratch = None /\ exclusive = None /\ shared = {}
    /\ wpc = [w \in Writers |-> "idle"]
    /\ rpc = [r \in Readers |-> "idle"]
    /\ lockless = [r \in Readers |-> FALSE]
    /\ pinHtml = [r \in Readers |-> None]
    /\ pinMeta = [r \in Readers |-> None]
    /\ snapshot = [r \in Readers |-> NoRead]
    /\ cache = None
    /\ done = <<>> /\ since = [r \in Readers |-> 0]
    /\ torn = (meta = Damaged) /\ metTorn = [r \in Readers |-> FALSE]

-----------------------------------------------------------------------------
(* write_static_route_managed.                                             *)

\* Definitions whose name starts with Bug are faulty variants of the definition
\* that follows; they are used only to check that the properties can fail.

\* The scratch lock of the entry's bucket, then both temporary files.
Stage(w) ==
    /\ wpc[w] = "idle" /\ scratch = None
    /\ scratch' = w
    /\ wpc' = [wpc EXCEPT ![w] = "staged"]
    /\ UNCHANGED <<html, meta, lockFile, exclusive, done, torn, readerVars, metTorn>>

\* publication_lock(dir, true): the file is created, then locked.
CreateLock(w) ==
    /\ wpc[w] = "staged"
    /\ lockFile' = TRUE
    /\ wpc' = [wpc EXCEPT ![w] = "lock"]
    /\ UNCHANGED <<html, meta, scratch, exclusive, done, torn, readerVars, metTorn>>

LockExclusive(w) ==
    /\ wpc[w] = "lock" /\ exclusive = None /\ shared = {}
    /\ exclusive' = w
    /\ wpc' = [wpc EXCEPT ![w] = "metadata"]
    /\ UNCHANGED <<html, meta, lockFile, scratch, done, torn, readerVars, metTorn>>

\* publish_file of the metadata ...
PublishMetadata(w) ==
    /\ wpc[w] = "metadata"
    /\ meta' = w
    /\ wpc' = [wpc EXCEPT ![w] = "html"]
    /\ UNCHANGED <<html, lockFile, scratch, exclusive, done, torn, readerVars, metTorn>>

\* ... and only then of the HTML.
PublishHtml(w) ==
    /\ wpc[w] = "html"
    /\ html' = w
    /\ done' = Append(done, w)
    /\ torn' = FALSE
    /\ wpc' = [wpc EXCEPT ![w] = "release"]
    /\ UNCHANGED <<meta, lockFile, scratch, exclusive, readerVars, metTorn>>

\* Dropping the lock guards.
ReleaseLocks(w) ==
    /\ scratch' = IF scratch = w THEN None ELSE scratch
    /\ exclusive' = IF exclusive = w THEN None ELSE exclusive
    /\ wpc' = [wpc EXCEPT ![w] = "done"]

Release(w) ==
    /\ wpc[w] = "release"
    /\ ReleaseLocks(w)
    /\ UNCHANGED <<html, meta, lockFile, done, torn, readerVars, metTorn>>

\* A step fails, or the process dies: the locks go, the renames stay.
Interrupt(w) ==
    /\ wpc[w] \in {"staged", "lock", "metadata", "html"}
    /\ ReleaseLocks(w)
    /\ torn' = (torn \/ wpc[w] = "html")
    /\ metTorn' = [r \in Readers |-> metTorn[r] \/ (torn' /\ rpc[r] # "idle")]
    /\ UNCHANGED <<html, meta, lockFile, done, readerVars>>

-----------------------------------------------------------------------------
(* read_paired_static_file.                                                *)

HtmlFound == html # None
Missing == [NoRead EXCEPT !.why = "missing"]

\* canonical_file: without HTML there is nothing to read.
StartRead(r) ==
    /\ rpc[r] = "idle"
    /\ rpc' = [rpc EXCEPT ![r] = IF HtmlFound THEN "find_lock" ELSE "end"]
    /\ snapshot' = [snapshot EXCEPT ![r] = IF HtmlFound THEN NoRead ELSE Missing]
    /\ since' = [since EXCEPT ![r] = Len(done)]
    /\ metTorn' = [metTorn EXCEPT ![r] = torn]
    /\ UNCHANGED <<writerVars, shared, lockless, pinHtml, pinMeta, cache>>

\* The shared lock if its file exists; otherwise the read is lockless.
FindLock(r) ==
    /\ rpc[r] = "find_lock"
    /\ lockless' = [lockless EXCEPT ![r] = ~lockFile]
    /\ rpc' = [rpc EXCEPT ![r] = IF lockFile THEN "lock" ELSE "html"]
    /\ UNCHANGED <<writerVars, shared, pinHtml, pinMeta, snapshot, cache, since, metTorn>>

LockShared(r) ==
    /\ rpc[r] \in {"lock", "relock"} /\ exclusive = None
    /\ shared' = shared \cup {r}
    /\ rpc' = [rpc EXCEPT ![r] = IF rpc[r] = "lock" THEN "html" ELSE "rehtml"]
    /\ UNCHANGED <<writerVars, lockless, pinHtml, pinMeta, snapshot, cache, since, metTorn>>

\* What a failed first pin or validation means for a lockless reader: it
\* looks for the lock again; a reader that held the lock is done.
AfterFirst(r) == IF lockless[r] THEN "recheck" ELSE "end"

\* pin_snapshot: the HTML first ...
OpenHtml(r) ==
    /\ rpc[r] \in {"html", "rehtml"}
    /\ pinHtml' = [pinHtml EXCEPT ![r] = html]
    /\ IF HtmlFound
         THEN /\ rpc' = [rpc EXCEPT ![r] = IF rpc[r] = "html" THEN "meta" ELSE "remeta"]
              /\ UNCHANGED <<snapshot, shared>>
         ELSE /\ rpc' = [rpc EXCEPT ![r] = IF rpc[r] = "html" THEN AfterFirst(r) ELSE "end"]
              /\ snapshot' = [snapshot EXCEPT ![r] = Missing]
              /\ shared' = shared \ {r}
    /\ UNCHANGED <<writerVars, lockless, pinMeta, cache, since, metTorn>>

\* ... then the metadata (open_static_metadata): its absence makes the snapshot a
\* legacy one, an entry that is there and cannot be opened an error.  The lock
\* is dropped once both are pinned.
OpenMeta(r) ==
    LET first == rpc[r] = "meta" IN
    /\ rpc[r] \in {"meta", "remeta"}
    /\ pinMeta' = [pinMeta EXCEPT ![r] = meta]
    /\ shared' = shared \ {r}
    /\ \/ /\ meta = None
          /\ snapshot' = [snapshot EXCEPT ![r] =
                [ok |-> TRUE, html |-> pinHtml[r], meta |-> None, why |-> "legacy"]]
          /\ rpc' = [rpc EXCEPT ![r] = "end"]
       \/ /\ meta = Damaged
          /\ snapshot' = [snapshot EXCEPT ![r] = [NoRead EXCEPT !.why = "inconsistent"]]
          /\ rpc' = [rpc EXCEPT ![r] = IF first THEN AfterFirst(r) ELSE "end"]
       \/ /\ meta \in Pairs
          /\ rpc' = [rpc EXCEPT ![r] = IF first THEN "parse" ELSE "reparse"]
          /\ UNCHANGED snapshot
    /\ UNCHANGED <<writerVars, lockless, pinHtml, cache, since, metTorn>>

\* verified::lookup: the entry vouches only for the very same pair of files.
BugVerified(r) == cache # None
Verified(r) == cache # None /\ cache = <<pinHtml[r], pinMeta[r]>>

\* The digest in the metadata is that of the body.
BugDigestMatches(r) == TRUE
DigestMatches(r) == BodyOf[pinMeta[r]] = BodyOf[pinHtml[r]]

\* parse_static_snapshot: the cached response of the pair, or the stored one
\* if its digest is the body's, remembered for the next reader.
Parse(r) ==
    /\ rpc[r] \in {"parse", "reparse"}
    /\ rpc' = [rpc EXCEPT ![r] = IF rpc[r] = "parse" THEN AfterFirst(r) ELSE "end"]
    /\ IF Verified(r)
         THEN /\ snapshot' = [snapshot EXCEPT ![r] =
                   [ok |-> TRUE, html |-> pinHtml[r], meta |-> cache[2], why |-> "cached"]]
              /\ UNCHANGED cache
         ELSE IF DigestMatches(r)
           THEN /\ snapshot' = [snapshot EXCEPT ![r] =
                     [ok |-> TRUE, html |-> pinHtml[r], meta |-> pinMeta[r], why |-> "digest"]]
                /\ cache' = <<pinHtml[r], pinMeta[r]>>
           ELSE /\ snapshot' = [snapshot EXCEPT ![r] = [NoRead EXCEPT !.why = "inconsistent"]]
                /\ UNCHANGED cache
    /\ UNCHANGED <<writerVars, shared, lockless, pinHtml, pinMeta, since, metTorn>>

\* A lockless reader of a pair, or of nothing, may have met the first
\* publisher: it reads again if the lock file exists by now.
BugRecheck(r) ==
    /\ rpc[r] = "recheck"
    /\ rpc' = [rpc EXCEPT ![r] = "end"]
    /\ UNCHANGED <<writerVars, shared, lockless, pinHtml, pinMeta, snapshot, cache, since, metTorn>>
BugRecheckLoop(r) ==
    /\ rpc[r] = "recheck"
    /\ rpc' = [rpc EXCEPT ![r] = IF lockFile THEN "html" ELSE "end"]
    /\ UNCHANGED <<writerVars, shared, lockless, pinHtml, pinMeta, snapshot, cache, since, metTorn>>
Recheck(r) ==
    /\ rpc[r] = "recheck"
    /\ rpc' = [rpc EXCEPT ![r] = IF lockFile THEN "relock" ELSE "end"]
    /\ UNCHANGED <<writerVars, shared, lockless, pinHtml, pinMeta, snapshot, cache, since, metTorn>>

\* The caller takes the result and may read again.
EndRead(r) ==
    /\ rpc[r] = "end"
    /\ rpc' = [rpc EXCEPT ![r] = "idle"]
    /\ lockless' = [lockless EXCEPT ![r] = FALSE]
    /\ pinHtml' = [pinHtml EXCEPT ![r] = None]
    /\ pinMeta' = [pinMeta EXCEPT ![r] = None]
    /\ snapshot' = [snapshot EXCEPT ![r] = NoRead]
    /\ since' = [since EXCEPT ![r] = 0]
    /\ metTorn' = [metTorn EXCEPT ![r] = FALSE]
    /\ UNCHANGED <<writerVars, shared, cache>>

\* The cache is full and is cleared for another path, or the process restarts.
ForgetVerified ==
    /\ cache # None /\ cache' = None
    /\ UNCHANGED <<writerVars, shared, rpc, lockless, pinHtml, pinMeta, snapshot, since, metTorn>>

-----------------------------------------------------------------------------
WriterStep(w) == \/ Stage(w) \/ CreateLock(w) \/ LockExclusive(w) \/ PublishMetadata(w)
                 \/ PublishHtml(w) \/ Release(w)
ReaderStep(r) == \/ FindLock(r) \/ LockShared(r) \/ OpenHtml(r) \/ OpenMeta(r) \/ Parse(r)
                 \/ Recheck(r) \/ EndRead(r)

Next == \/ \E w \in Writers : WriterStep(w) \/ Interrupt(w)
        \/ \E r \in Readers : StartRead(r) \/ ReaderStep(r)
        \/ ForgetVerified

Spec == Init /\ [][Next]_vars

\* Blocking-pool threads run on; the file system grants a free lock.
FairSpec == /\ Spec
            /\ \A w \in Writers : WF_vars(WriterStep(w))
            /\ \A r \in Readers : WF_vars(ReaderStep(r))

-----------------------------------------------------------------------------
ReadResult ==
    [ok : {TRUE}, html : Htmls, meta : Pairs \cup {None},
     why : {"legacy", "cached", "digest"}]
    \cup [ok : {FALSE}, html : {None}, meta : {None}, why : {"none", "missing", "inconsistent"}]

TypeOK ==
    /\ html \in Htmls \cup {None} /\ meta \in Pairs \cup {Damaged, None} /\ lockFile \in BOOLEAN
    /\ scratch \in Writers \cup {None} /\ exclusive \in Writers \cup {None}
    /\ shared \in SUBSET Readers
    /\ wpc \in [Writers -> {"idle", "staged", "lock", "metadata", "html", "release", "done"}]
    /\ rpc \in [Readers -> {"idle", "find_lock", "lock", "html", "meta", "parse", "recheck",
                            "relock", "rehtml", "remeta", "reparse", "end"}]
    /\ lockless \in [Readers -> BOOLEAN]
    /\ pinHtml \in [Readers -> Htmls \cup {None}]
    /\ pinMeta \in [Readers -> Pairs \cup {Damaged, None}]
    /\ snapshot \in [Readers -> ReadResult]
    /\ cache = None \/ cache \in Htmls \X Pairs
    /\ done \in Seq(Writers) /\ since \in [Readers -> Nat]
    /\ torn \in BOOLEAN /\ metTorn \in [Readers -> BOOLEAN]

Success(r) == rpc[r] = "end" /\ snapshot[r].ok

\* A body is never served with metadata written for another body, whichever
\* publications the two files come from (digest, cache of verified pairs), and
\* only an older publisher's body is served without any: publishers commit
\* metadata before HTML, readers open them the other way round, and damaged
\* metadata is not taken for missing metadata.
PairsAreWhole ==
    \A r \in Readers : Success(r) =>
        IF snapshot[r].meta = None THEN snapshot[r].html = Legacy
        ELSE BodyOf[snapshot[r].html] = BodyOf[snapshot[r].meta]

\* The metadata w is that of the n-th completed publication or of a later one.
Fresh(w, n) == w \in Writers /\ \A i \in 1..n : done[i] = w => i = n

\* A read that began after a publication completed returns that publication's
\* response or that of a publication after it, never an older one.
ReadsAreFresh ==
    \A r \in Readers : Success(r) /\ since[r] > 0
        => Fresh(snapshot[r].meta, since[r])

\* A read finds the pair inconsistent only if it was deployed so or a publication
\* was interrupted between its two renames, and no later one has completed:
\* publications in progress, the very first included, never show through.
ErrorsOnlyWhenTorn ==
    \A r \in Readers : rpc[r] = "end" /\ snapshot[r].why = "inconsistent" => metTorn[r]

\* Every read ends: publications that keep coming, fail or die with the lock
\* neither block a reader for ever nor make it start over again and again.
ReadsEnd == \A r \in Readers : rpc[r] # "idle" ~> rpc[r] = "idle"
=============================================================================
