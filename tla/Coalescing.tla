------------------------------ MODULE Coalescing ------------------------------
(***************************************************************************)
(* What coalesced generation promises, without the locks, wakers and tasks *)
(* that bring it about (src/static_routes.rs, StaticRuntime::render).      *)
(*                                                                         *)
(* A call asks for an entry under one or two keys.  It begins a generation *)
(* only if none under way shares a key with it; otherwise it is accepted   *)
(* by that generation or turned away.  Whoever a generation has accepted   *)
(* and has not left is answered whenever the generation answers, and by    *)
(* its end at the latest.  StaticWork is shown to implement this module,   *)
(* and StaticServing is built on it.                                       *)
(***************************************************************************)
CONSTANTS
    Callers,    \* calls; a generation carries the name of the call that began it
    Results,    \* what a generation can answer
    None

VARIABLES
    keys,       \* the keys of each call, known before it begins a generation
    generation, \* "none", "open", "refusing" (no slot to render in), "over"
    accepted,   \* the generation that owes the call an answer
    reply       \* the answer, until the call has returned

coalescing == <<generation, accepted, reply>>

Init ==
    /\ generation = [w \in Callers |-> "none"]
    /\ accepted = [c \in Callers |-> None]
    /\ reply = [c \in Callers |-> None]

UnderWay(w) == generation[w] \in {"open", "refusing"}
SharesKey(c, w) == keys[c] \cap keys[w] # {}

\* Nobody generates an entry of this call yet.
MayBegin(c) == \A w \in Callers : UnderWay(w) => ~SharesKey(c, w)

Begin(c) ==
    /\ generation[c] = "none" /\ MayBegin(c)
    /\ generation' = [generation EXCEPT ![c] = "open"]
    /\ UNCHANGED <<accepted, reply>>

Accept(c, w) ==
    /\ generation[w] = "open" /\ SharesKey(c, w)
    /\ accepted[c] = None
    /\ accepted' = [accepted EXCEPT ![c] = w]
    /\ UNCHANGED <<generation, reply>>

\* Everybody who is owed an answer gets this one.
Answered(w, r) ==
    reply' = [c \in Callers |-> IF accepted[c] = w /\ reply[c] = None THEN r ELSE reply[c]]

Answer(w, r) ==
    /\ UnderWay(w)
    /\ Answered(w, r)
    /\ UNCHANGED <<generation, accepted>>

\* No slot for the next render: turn the waiting calls and new ones away.
Refuse(w) ==
    /\ UnderWay(w)
    /\ Answered(w, "capacity")
    /\ generation' = [generation EXCEPT ![w] = "refusing"]
    /\ UNCHANGED accepted

Reopen(w) ==
    /\ generation[w] = "refusing"
    /\ generation' = [generation EXCEPT ![w] = "open"]
    /\ UNCHANGED <<accepted, reply>>

End(w, r) ==
    /\ UnderWay(w)
    /\ Answered(w, r)
    /\ generation' = [generation EXCEPT ![w] = "over"]
    /\ UNCHANGED accepted

\* The call returns with its answer, or its future is dropped without one.
Leave(c) ==
    /\ accepted[c] # None
    /\ accepted' = [accepted EXCEPT ![c] = None]
    /\ reply' = [reply EXCEPT ![c] = None]
    /\ UNCHANGED generation

Next ==
    \/ \E c \in Callers : Begin(c) \/ Leave(c) \/ \E w \in Callers : Accept(c, w)
    \/ \E w \in Callers : Refuse(w) \/ Reopen(w)
                          \/ \E r \in Results : Answer(w, r) \/ End(w, r)

Spec == Init /\ [][Next]_coalescing
=============================================================================
