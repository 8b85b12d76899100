------------------------------- MODULE WorkKeys -------------------------------
(***************************************************************************)
(* The keys under which a path's generation is registered: where its       *)
(* directory folds case, and how an existing entry is spelled there        *)
(* (src/static_routes.rs, static_work_key and the probes it makes).        *)
(*                                                                         *)
(* A name is its text and the case it is written in: "ascii" for letters   *)
(* this code can fold, "other" for letters only the file system knows how  *)
(* to fold.  A directory is a record; a path's directories are the         *)
(* sequence from its parent up.  A probe sees one state of the directory.  *)
(***************************************************************************)
EXTENDS Naturals, Sequences, FiniteSets, FiniteSetsExt

CONSTANT Texts  \* what names say, whatever their case
ASSUME TextsAssumption == "index" \in Texts

Cases == {"lower", "upper"}
Names == [text : Texts, ascii : Cases, other : Cases]
Entries == [name : Names, id : Names, dir : BOOLEAN]
Directories == [kind : {"dir", "missing", "other"}, device : Nat, folds : BOOLEAN, entries : SUBSET Entries]
Rules == {"Folds", "Distinct", "Unknown"}

\* Lettered names have ASCII letters; a transient name is a temporary file of
\* this publisher, renamed away while it is listed.
HasAsciiLetter(name) == name.text # "42"
Transient(name) == name.text = ".tmp"

\* map_ascii_case, swap_ascii_case
Lowered(name) == [name EXCEPT !.ascii = "lower"]
Swapped(name) == [name EXCEPT !.ascii = IF @ = "lower" THEN "upper" ELSE "lower"]

\* The file system's own lookup: the entry a name selects, if any.
SameName(dir, a, b) == IF dir.folds THEN a.text = b.text ELSE a = b
Selected(dir, name) == {e \in dir.entries : SameName(dir, e.name, name)}

\* CaseRule::fold
BugFold(rule, name) == Lowered(name)
Fold(rule, name) == IF rule = "Folds" THEN Lowered(name) ELSE name

-----------------------------------------------------------------------------
\* Entries that can tell: named with letters, here to stay, with one name only.
IsSingle(dir, e) == e.dir \/ \A x \in dir.entries : x.id = e.id => x = e
Probes(dir) == {e \in dir.entries : /\ ~Transient(e.name)
                                    /\ HasAsciiLetter(e.name)
                                    /\ IsSingle(dir, e)}

\* observe_case_rule: look an entry up under the opposite case.
Observed(dir) ==
    IF Probes(dir) = {} THEN "Unknown"
    ELSE LET e == CHOOSE e \in Probes(dir) : TRUE IN
         IF \E alias \in Selected(dir, Swapped(e.name)) : alias.id = e.id
           THEN "Folds" ELSE "Distinct"

\* The walk up from the parent: what cannot be read is skipped, and the walk
\* ends at something that is no directory, at another device, or at a rule.
OtherDevice(dirs, i) == \E j \in 1..(i - 1) : dirs[j].kind = "dir" /\ dirs[j].device # dirs[i].device
NoRule(dirs, i) == dirs[i].kind = "other" \/ (dirs[i].kind = "dir" /\ OtherDevice(dirs, i))
Ends(dirs, i) == NoRule(dirs, i) \/ (dirs[i].kind = "dir" /\ Observed(dirs[i]) # "Unknown")

\* What the probes rely on: the directories of one volume that a walk passes
\* follow one rule, and a directory has a single name.
OneRule(dirs, folds) ==
    \A i \in DOMAIN dirs : (dirs[i].kind = "dir" /\ ~OtherDevice(dirs, i)) => dirs[i].folds = folds
SingleDirectories(dir) ==
    \A e \in dir.entries : e.dir => e.id = e.name /\ \A x \in dir.entries : x.id = e.id => x = e

\* ascii_case_rule
CaseRule(dirs) ==
    LET ends == {i \in DOMAIN dirs : Ends(dirs, i)} IN
    IF ends = {} THEN "Unknown"
    ELSE LET i == Min(ends) IN IF NoRule(dirs, i) THEN "Unknown" ELSE Observed(dirs[i])

\* The stored spellings of what the name selects, hard links included.
Candidates(dir, name) == {e.name : e \in {x \in dir.entries : \E s \in Selected(dir, name) : s.id = x.id}}

\* stored_entry_name: the requested spelling selects among hard links, exactly
\* or up to the directory's rule; a missing entry keeps the requested spelling.
StoredName(dir, name, rule) ==
    LET found == Candidates(dir, name)
        matching == {c \in found : Fold(rule, c) = Fold(rule, name)}
    IN  IF Cardinality(found) = 1 THEN CHOOSE c \in found : TRUE
        ELSE IF name \in found THEN name
        ELSE IF Cardinality(matching) = 1 THEN CHOOSE c \in matching : TRUE
        ELSE name

\* static_work_key: the entry's spelling and the one to publish under, which a
\* file system may adopt when it replaces the entry.
BugWorkKey(rule, stored, name) == {Fold(rule, name)}
WorkKey(rule, stored, name) == {Fold(rule, stored), Fold(rule, name)}
=============================================================================
