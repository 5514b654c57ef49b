------------------------------- MODULE MCExecer -------------------------------
(***************************************************************************)
(* Small instances of Execer for TLC: sets of specs the compiler may emit. *)
(***************************************************************************)
EXTENDS Execer

CONSTANTS a, b, c,  \* steps
          p1, p2    \* pipelines

MCOrder == <<a, b, c>>
MCOrder2 == <<a, b>>

NoDeps == [s \in Step |-> {}]
Plain  == [s \in Step |-> "on-success"]
Strict == [s \in Step |-> "fail"]
NoSource == [s \in Step |-> s]

Absent == [steps |-> {}, deps |-> NoDeps, run |-> Plain, onerr |-> Strict,
           detached |-> {}, source |-> NoSource, transport |-> "unix",
           reportErrs |-> {FALSE}]

Alone(conf1) == [p \in Pipeline |-> IF p = p1 THEN conf1 ELSE Absent]

\* a and b in parallel, then c.
Diamond(onerrA, runB, runC, det, errs) ==
    [steps |-> {a, b, c}, deps |-> [NoDeps EXCEPT ![c] = {a, b}],
     run |-> [Plain EXCEPT ![b] = runB, ![c] = runC],
     onerr |-> [Strict EXCEPT ![a] = onerrA],
     detached |-> det, source |-> NoSource, transport |-> "unix",
     reportErrs |-> errs]

\* a, then b consuming a's output, then c.
Consuming(onerrA, runB, runC, errs) ==
    [steps |-> {a, b, c}, deps |-> [NoDeps EXCEPT ![b] = {a}, ![c] = {b}],
     run |-> [Plain EXCEPT ![b] = runB, ![c] = runC],
     onerr |-> [Strict EXCEPT ![a] = onerrA],
     detached |-> {}, source |-> [NoSource EXCEPT ![b] = a], transport |-> "file",
     reportErrs |-> errs]

\* The same two steps in both pipelines: b consumes a's output.
Chain(transport) ==
    [steps |-> {a, b}, deps |-> [NoDeps EXCEPT ![b] = {a}], run |-> Plain,
     onerr |-> Strict, detached |-> {}, source |-> [NoSource EXCEPT ![b] = a],
     transport |-> transport, reportErrs |-> {FALSE}]

\* Two steps in parallel, to be skipped, whose reports may fail.
Pair ==
    [steps |-> {a, b}, deps |-> NoDeps, run |-> [s \in Step |-> "on-failure"], onerr |-> Strict,
     detached |-> {}, source |-> NoSource, transport |-> "unix",
     reportErrs |-> BOOLEAN]

Both(conf1) == [p \in Pipeline |-> conf1]

\* Another pipeline that has a step a too.
Neighbour(conf1) ==
    [p \in Pipeline |->
        IF p = p1 THEN conf1
        ELSE [Absent EXCEPT !.steps = {a}]]

MCPlans ==
    {Alone(Diamond(onerrA, "on-success", runC, {}, {FALSE})) :
        onerrA \in ErrPolicy, runC \in {"on-success", "on-failure", "always"}}
    \cup {Alone(Diamond("ignore", "never", "on-success", {}, BOOLEAN)),
          Alone(Diamond("fail-fast", "on-success", "always", {b}, BOOLEAN))}
    \cup {Alone(Consuming("ignore", "always", "always", BOOLEAN)),
          Alone(Consuming("fail-fast", "on-success", "always", {FALSE}))}
    \cup {Neighbour(Chain("unix")), Neighbour(Pair),
          Alone([Chain("unix") EXCEPT !.run[b] = "always"])}

\* The specs of Execer_core.cfg, which names three steps, meet the hypotheses
\* of all theorems.
ASSUME PlansMeetHypotheses ==
    c \in Step => \A pl \in MCPlans : \A p \in Pipeline : Acyclic(pl[p])

MCPlansFile == {Both(Chain("file"))}

\* A consumer that runs on failure too.
MCPlansFailing == {Alone([Chain("unix") EXCEPT !.run[b] = "always"])}

\* A fail-fast step whose conditions are not met.
MCPlansNever ==
    {Alone([Chain("unix") EXCEPT !.run[b] = "never", !.onerr[b] = "fail-fast",
                                 !.source = NoSource])}
=============================================================================
