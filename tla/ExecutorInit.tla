------------------------------ MODULE ExecutorInit ------------------------------
(***************************************************************************)
(* Installation of the ntex executor (src/routes.rs, init_ntex_executor).  *)
(* The process has one executor, whoever installs one first.  Every        *)
(* handler factory and the route list generator ask for it, from any       *)
(* thread; the state's mutex is held over the whole installation.          *)
(***************************************************************************)
VARIABLES
    installed,  \* any_spawner's executor: "none", "ntex", "foreign"
    known,      \* EXECUTOR_INIT_STATE
    once,       \* the Once of ensure_executor_initialized has run
    verdicts    \* what callers have been told: "ok", "conflict"

executorVars == <<installed, known, once, verdicts>>

ExecutorInit ==
    /\ installed = "none" /\ known = "Unknown" /\ once = FALSE /\ verdicts = {}

\* Another runtime, or the application, sets an executor of its own.
InstallForeign ==
    /\ installed = "none" /\ installed' = "foreign"
    /\ UNCHANGED <<known, once, verdicts>>

\* init_ntex_executor: the outcome of the one attempt is kept.
BugKept(outcome) == "Unknown"
Kept(outcome) == outcome

InitNtexExecutor ==
    LET attempt == known = "Unknown"
        outcome == IF ~attempt THEN known
                   ELSE IF installed = "none" THEN "NtexInstalled" ELSE "ForeignInstalled"
    IN  /\ known' = Kept(outcome)
        /\ installed' = IF attempt /\ installed = "none" THEN "ntex" ELSE installed
        /\ verdicts' = verdicts \cup {IF outcome = "NtexInstalled" THEN "ok" ELSE "conflict"}

TryInitExecutor == InitNtexExecutor /\ UNCHANGED once

EnsureExecutorInitialized ==
    IF once THEN UNCHANGED executorVars ELSE InitNtexExecutor /\ once' = TRUE

\* Callers are told of a conflict exactly when the executor that runs their
\* tasks was installed by someone else, however often and in whatever order
\* the lazy and the explicit installation are asked for.
VerdictsAreTrue ==
    /\ "conflict" \in verdicts => installed = "foreign"
    /\ "ok" \in verdicts => installed = "ntex"
=============================================================================
