----------------------------- MODULE OutputStore -----------------------------
(***************************************************************************)
(* What the runner's output service promises to the steps that publish     *)
(* through it: one store per pipeline, opened once and closed once; a      *)
(* publication is accepted only while its pipeline is open, is applied     *)
(* whole and at once, and touches the outputs of the publishing step only. *)
(* OutputService.tla implements it.                                        *)
(***************************************************************************)
EXTENDS OutputMap

CONSTANTS
    Pipeline,   \* pipeline ids, <repo>/<build>/<stage>
    Step,       \* step names
    Publisher,  \* drone-output invocations
    Batch       \* the op sequences a drone-output invocation may send

Token == Pipeline \X Step

Idle == [at |-> "idle"]

VARIABLES
    phase,  \* phase[p]: "new", "open" or "closed"
    store,  \* store[t]: the outputs published with token t
    req     \* req[w]: the publication of publisher w

vars == <<phase, store, req>>

Init ==
    /\ phase = [p \in Pipeline |-> "new"]
    /\ store = [t \in Token |-> EmptyMap]
    /\ req = [w \in Publisher |-> Idle]

Open(p) ==
    /\ phase[p] = "new"
    /\ phase' = [phase EXCEPT ![p] = "open"]
    /\ UNCHANGED <<store, req>>

Close(p) ==
    /\ phase[p] = "open"
    /\ phase' = [phase EXCEPT ![p] = "closed"]
    /\ UNCHANGED <<store, req>>

Send(w) ==
    /\ req[w].at = "idle"
    /\ \E t \in Token, ops \in Batch :
          req' = [req EXCEPT ![w] = [at |-> "sent", token |-> t, ops |-> ops]]
    /\ UNCHANGED <<phase, store>>

Accept(w) ==
    /\ req[w].at = "sent"
    /\ phase[req[w].token[1]] = "open"
    /\ req' = [req EXCEPT ![w].at = "accepted"]
    /\ UNCHANGED <<phase, store>>

Refuse(w) ==
    /\ req[w].at = "sent"
    /\ req' = [req EXCEPT ![w].at = "refused"]
    /\ UNCHANGED <<phase, store>>

\* An accepted publication lands at one instant; it may be after the close,
\* where nobody can see it.
Publish(w) ==
    /\ req[w].at = "accepted"
    /\ store' = [store EXCEPT ![req[w].token] = ApplyAll(@, req[w].ops)]
    /\ req' = [req EXCEPT ![w].at = "done"]
    /\ UNCHANGED phase

Next ==
    \/ \E p \in Pipeline : Open(p) \/ Close(p)
    \/ \E w \in Publisher : Send(w) \/ Accept(w) \/ Refuse(w) \/ Publish(w)

Spec == Init /\ [][Next]_vars
=============================================================================
