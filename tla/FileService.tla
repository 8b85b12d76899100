------------------------------ MODULE FileService ------------------------------
(***************************************************************************)
(* Files served from disk: site_pkg_dir_service and the fallback handler   *)
(* file_and_error_handler (src/files.rs), and the directory capability     *)
(* they open files through (src/fs_boundary.rs).                           *)
(*                                                                         *)
(* A request resolves the served root once for all, checks its path        *)
(* against it and opens the file, on a blocking thread, while deployments  *)
(* move the root's symbolic link and replace what a name denotes.  What a  *)
(* response says is a function of the opened descriptor and the request's  *)
(* fields, so it is sent in the step that ends the opening.                *)
(***************************************************************************)
EXTENDS FileResponse, FiniteSets

CONSTANTS
    Assets,         \* requests
    PathsOf,        \* the paths of each: sequences of decoded segments
    Releases,       \* directories the root's symbolic link may name
    \* Fields of requests: Accept-Encoding items, conditions, and the status that
    \* additional_context of the fallback handler sets, or None
    PlainFields,    \* neither items nor conditions
    Negotiating,    \* items
    Conditional,    \* conditions
    MaxChanges      \* bound: changes of the namespace

VARIABLES
    service,        \* the handler: "package" or "fallback"
    link,           \* the release the configured root leads to, None if missing
    cache,          \* RootCache
    tree, siblings, \* what the requested name denotes in a release; its .br and .gz
    changes,        \* changes of the namespace so far
    still,          \* there will be none
    asset,          \* control point and locals of each request
    sent            \* the responses

fileVars == <<service, link, cache, tree, siblings, changes, still, asset, sent>>
namespace == <<link, tree, siblings, changes, still>>

\* A regular file, a directory, a FIFO, an absolute symbolic link to a regular
\* file under the root, one to a file outside, or nothing.
Kinds == {"file", "dir", "fifo", "inside", "outside", "missing"}

FileInit ==
    /\ service = None /\ link = None /\ cache = None
    /\ tree = [r \in Releases |-> "missing"] /\ siblings = [r \in Releases |-> {}]
    /\ changes = 0 /\ still = FALSE
    /\ asset = [r \in Assets |-> [pc |-> "idle", root |-> None, safe |-> None]]
    /\ sent = [r \in Assets |-> None]

\* One of the two handlers is registered, on a site that has been deployed or
\* is still missing.  Either requests are served while the namespace changes,
\* or one is served from a still site and its header fields vary: neither the
\* choice of a coding nor the answer to a condition depends on other steps.
MountFiles ==
    /\ service = None
    /\ service' \in {"package", "fallback"}
    /\ \/ /\ still' = FALSE
          /\ link' \in {None, CHOOSE r \in Releases : TRUE}
          /\ \E kind \in {"file", "inside"} : tree' = [r \in Releases |-> kind]
          /\ UNCHANGED siblings
       \/ /\ still' = TRUE
          /\ link' = CHOOSE r \in Releases : TRUE
          /\ tree' = [r \in Releases |-> "file"]
          /\ \E variants \in {{}, {"gzip"}, {"br", "gzip"}} : siblings' = [r \in Releases |-> variants]
    /\ UNCHANGED <<cache, changes, asset, sent>>

At(r, pc) == asset[r].pc = pc
Goto(r, pc) == asset' = [asset EXCEPT ![r].pc = pc]

-----------------------------------------------------------------------------
(* cached_site_root                                                        *)

\* The cached root, or SiteRoot::open of the directory as it is now.
ResolveRoot(r) ==
    /\ At(r, "idle") /\ service # None
    /\ still => \A other \in Assets : At(other, "idle")
    /\ IF cache # None THEN asset' = [asset EXCEPT ![r].root = cache, ![r].pc = "check"]
       ELSE IF link = None THEN Goto(r, "miss")
       ELSE asset' = [asset EXCEPT ![r].root = link, ![r].pc = "store"]
    /\ UNCHANGED <<service, namespace, cache, sent>>

\* OnceLock::set keeps the first root; everyone uses the one that is stored.
BugStored(own) == own
Stored(own) == IF cache = None THEN own ELSE cache

StoreRoot(r) ==
    /\ At(r, "store")
    /\ cache' = IF cache = None THEN asset[r].root ELSE cache
    /\ asset' = [asset EXCEPT ![r].root = Stored(@), ![r].pc = "check"]
    /\ UNCHANGED <<service, namespace, sent>>

-----------------------------------------------------------------------------
(* safe_subpath                                                            *)

\* is_blocked_dot_segment: every dot name but .well-known.
DotNames == {".", "..", ".env", ".well-known"}
BlockedDot(segment) == segment \in DotNames \ {".well-known"}

\* Segments with a NUL, a slash or a backslash after decoding, or no UTF-8.
Malformed == {"nul", "slash", "backslash", "undecodable"}

SafeSegments(path) ==
    \A i \in DOMAIN path :
        /\ path[i] # "." => ~BlockedDot(path[i])
        /\ path[i] \notin Malformed
        \* an empty path or a lone dot is the root itself, a directory
        /\ \E j \in DOMAIN path : path[j] \notin {"", "."}

\* The target as it resolves now: a regular file under the root, by its own
\* name or as the file a link leads to.
CheckPath(r, path) ==
    LET kind == tree[asset[r].root] IN
    /\ At(r, "check")
    /\ IF path # <<>> /\ SafeSegments(path) /\ kind \in {"file", "inside"}
         THEN asset' = [asset EXCEPT ![r].pc = "open",
                                     ![r].safe = IF kind = "file" THEN "name" ELSE "target"]
         ELSE Goto(r, "miss")
    /\ UNCHANGED <<service, namespace, cache, sent>>

-----------------------------------------------------------------------------
(* The responses.                                                          *)

\* extend_response, in the fallback handler only.
Overridden(status, option) == IF service = "fallback" /\ option # None THEN option ELSE status

Send(r, response) ==
    /\ Goto(r, "done")
    /\ sent' = [sent EXCEPT ![r] = response]
    /\ UNCHANGED <<service, namespace, cache>>

NoFile(status) == [status |-> status, coding |-> "none", vary |-> FALSE]

\* Outside a request scope the fallback handler answers 500, file or no file.
OutOfScope(r) == service = "fallback" /\ (At(r, "open") \/ At(r, "miss")) /\ Send(r, NoFile(500))

\* 404: the package service's own, or the rendered shell, whose overrides may
\* change its status but not to 200.
Miss(r, fields) ==
    /\ At(r, "miss")
    /\ Send(r, NoFile(IF fields.option = 200 THEN 404 ELSE Overridden(404, fields.option)))

Files == [size : {0, 2}, dated : BOOLEAN, usable : {TRUE}] \cup {[size |-> 2, dated |-> TRUE, usable |-> FALSE]}

\* A file of the root in the chosen coding, or the refusal of every coding;
\* both vary with Accept-Encoding.
Serve(r, place, coding, fields) ==
    \E file \in Files :
        LET status == IF coding = "none" THEN 406 ELSE FileResponse(file, fields.conditions, 200) IN
        Send(r, [status |-> Overridden(status, fields.option), coding |-> coding, vary |-> TRUE,
                 root |-> asset[r].root, place |-> place, file |-> file,
                 fields |-> fields, siblings |-> siblings[asset[r].root], safe |-> asset[r].safe])

-----------------------------------------------------------------------------
(* SiteRoot::open_file                                                     *)

\* open_regular through the capability, which follows no absolute link.
CapabilityOpens(kind) == kind = "file"

FieldsNow ==
    CASE ~still -> PlainFields
      [] still /\ UNION {siblings[r] : r \in Releases} = {} -> Negotiating \cup Conditional
      [] OTHER -> Negotiating

\* The compressed variants of the file by its own name, then the file: through
\* the capability at once, or by the path it resolves to.
OpenFile(r, fields) ==
    LET root == asset[r].root
        variants == IF asset[r].safe = "name" THEN siblings[root] ELSE {}
        coding == Negotiated(AcceptedEncodings(fields.items), variants)
        kind == IF asset[r].safe = "name" THEN tree[root] ELSE "file"
    IN  /\ At(r, "open")
        /\ IF coding # "identity" \/ CapabilityOpens(kind)
             THEN Serve(r, IF coding = "identity" THEN kind ELSE "file", coding, fields)
             ELSE /\ Goto(r, "relative")
                  /\ UNCHANGED <<service, namespace, cache, sent>>

\* SiteRoot::relative: what the name resolves to now, if that is in the root.
Relative(r) ==
    LET kind == tree[asset[r].root] IN
    /\ At(r, "relative")
    /\ IF kind \in {"missing", "outside"} THEN Goto(r, "miss")
       ELSE asset' = [asset EXCEPT ![r].pc = "reopen",
                                   ![r].safe = IF kind = "inside" THEN "target" ELSE "name"]
    /\ UNCHANGED <<service, namespace, cache, sent>>

OpenRelative(r, fields) ==
    LET kind == IF asset[r].safe = "name" THEN tree[asset[r].root] ELSE "file" IN
    /\ At(r, "reopen")
    /\ IF CapabilityOpens(kind) THEN Serve(r, kind, "identity", fields)
       ELSE Goto(r, "miss") /\ UNCHANGED <<service, namespace, cache, sent>>

-----------------------------------------------------------------------------
(* Deployments.                                                            *)

MoveLink(release) ==
    /\ service # None /\ ~still
    /\ changes < MaxChanges /\ changes' = changes + 1
    /\ link' = release
    /\ UNCHANGED <<service, cache, tree, siblings, still, asset, sent>>

Replace(release, kind) ==
    /\ service # None /\ ~still
    /\ changes < MaxChanges /\ changes' = changes + 1
    /\ tree' = [tree EXCEPT ![release] = kind]
    /\ UNCHANGED <<service, cache, link, siblings, still, asset, sent>>

FileStep(r) ==
    \/ ResolveRoot(r) \/ StoreRoot(r) \/ Relative(r) \/ OutOfScope(r)
    \/ \E path \in PathsOf[r] : CheckPath(r, path)
    \/ At(r, "open") /\ \E fields \in FieldsNow : OpenFile(r, fields)
    \/ \E fields \in PlainFields : OpenRelative(r, fields) \/ Miss(r, fields)

FileNext ==
    \/ MountFiles
    \/ \E r \in Assets : FileStep(r)
    \/ \E release \in Releases : MoveLink(release)
                                 \/ \E kind \in Kinds : Replace(release, kind)

-----------------------------------------------------------------------------
FileSent(r) == sent[r] # None /\ sent[r].coding # "none"

\* However the root's link and the names under it change between the check and
\* the opening, what is served is a regular file of the root, and one root
\* serves every request, also when two of them resolve it at once.
ServedFromOneRoot ==
    \A r \in Assets : FileSent(r) => sent[r].place = "file" /\ sent[r].root = cache

\* The coding is the best acceptable one the site has, and conditions and
\* ranges are answered as RFC 9110 orders them, for every combination of the
\* header fields.
ResponsesConform ==
    \A r \in Assets : sent[r] # None /\ sent[r].vary =>
        LET s == sent[r]
            available == {"identity"} \cup (IF s.safe = "name" THEN s.siblings ELSE {})
        IN  /\ BestCoding(s.fields.items, s.coding, available)
            /\ s.fields.option = None /\ s.coding # "none" /\ s.file.usable =>
                  s.status = RequiredStatus(s.file, s.fields.conditions, 200)
=============================================================================
