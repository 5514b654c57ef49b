------------------------------- MODULE Execer -------------------------------
(***************************************************************************)
(* internal/outputexec: the executor of the daemon.  One Execer runs every *)
(* pipeline the daemon has accepted; Exec sets the docker environment up,  *)
(* runs the steps as a dependency graph (natessilva/dag, one goroutine per *)
(* step), and cleans up.  Shared between pipelines are the semaphore that  *)
(* limits concurrent steps and, in the file transport, the map of          *)
(* collected outputs.                                                      *)
(*                                                                         *)
(* A step's goroutine is at pc[p][s]; what it does between two calls that  *)
(* take a lock, report, or wait is one action.  Containers and docker are  *)
(* reduced to how engine.Run returns.                                      *)
(***************************************************************************)
EXTENDS PipelineState, FiniteSets

CONSTANTS
    Pipeline,   \* pipelines that run at the same time
    Step,       \* step names; pipelines use the same ones
    Order,      \* the steps in the order of the spec
    Threads,    \* DRONE_RUNNER_MAX_PROCS, 0 for no limit
    Plans,      \* the combinations of specs to run: [Pipeline -> conf]
    Nobody      \* no pipeline

ASSUME OrderAssumption ==
    /\ IsFiniteSet(Step)
    /\ Order \in [1 .. Cardinality(Step) -> Step]
    /\ \A s \in Step : \E i \in DOMAIN Order : Order[i] = s

ASSUME ThreadsAssumption == Threads \in Nat
ASSUME NobodyAssumption ==
    /\ Nobody \notin Pipeline \cup {"absent", "empty"}
    /\ {"absent", "empty"} \cap Pipeline = {}

RunPolicy == {"on-success", "on-failure", "always", "never"}
ErrPolicy == {"fail", "fail-fast", "ignore"}

\* What the compiler decided about a pipeline; source[s] is the step whose
\* output s consumes, or s itself if it consumes none.  reportErrs says whether
\* reports to the server, and closing a log, may fail.
Conf == [steps : SUBSET Step, deps : [Step -> SUBSET Step],
         run : [Step -> RunPolicy], onerr : [Step -> ErrPolicy],
         detached : SUBSET Step, source : [Step -> Step],
         transport : {"file", "unix"}, reportErrs : {{FALSE}, BOOLEAN}]

ASSUME PlansAssumption == Plans \subseteq [Pipeline -> Conf]

\* What dag.Run runs: an edge to an unknown step and a cycle are errors there.
Acyclic(cf) ==
    /\ \A s \in cf.steps : cf.deps[s] \subseteq cf.steps
    /\ \A S \in SUBSET cf.steps : S # {} => \E s \in S : cf.deps[s] \cap S = {}

\* A step that consumes an output runs on success only, and after a producer
\* whose failure counts.
Waits(cf, s) ==
    LET d == cf.source[s]
    IN  cf.run[s] = "on-success" /\ d \in cf.deps[s] /\ cf.onerr[d] # "ignore"

Visible(conf) == {s \in conf.steps : conf.run[s] # "never"}

\* How engine.Run returns: with an error, or with an exit code, of a container
\* that docker may say ran out of memory, one that exited with 0 too.  "exit 1"
\* stands for every other code, out of memory or not.
ZeroExits    == {"exit 0", "oom 0"}
NeutralExits == {"exit 78", "oom 78"}
Outcomes     == ZeroExits \cup NeutralExits \cup {"exit 1", "error"}

Locations ==
    {"blocked", "called", "deciding", "starting", "injecting",
     "running", "ended", "collecting", "returned", "done"}

Holding == {"deciding", "starting", "injecting", "running", "ended", "collecting"}

VARIABLES
    plan,       \* the specs; never changes
    phase,      \* phase[p]: Exec is "setup", "running", "closing" or "done"
    ctxDone,    \* ctxDone[p]: the context of the steps is cancelled
    state,      \* state[p]: pipeline.State
    pc,         \* pc[p][s]: where the goroutine of a step is
    failed,     \* failed[p][s]: exec returned an error
    dagErr,     \* dagErr[p]: the graph stopped scheduling on an error
    result,     \* result[p][s]: how engine.Run returned
    published,  \* published[p]: steps that published an output
    outputs,    \* Execer.outputs: whose values are kept for a step name
    injected,   \* injected[p][s]: whose value the step was started with
    launched,   \* launched[p]: steps handed to engine.Run
    panicked    \* the process died of a panic

stepVars == <<pc, failed, result>>
pipeVars == <<phase, ctxDone, dagErr>>
dataVars == <<published, outputs, injected, launched>>
vars == <<plan, pipeVars, state, stepVars, dataVars, panicked>>

conf(p) == plan[p]
Ignored(p) == {s \in Step : conf(p).onerr[s] = "ignore"}
Upd(p, st) == Update(st, Order, Ignored(p))

\* No value: nothing was collected, or what was collected has no such key.
NoOutput == {"absent", "empty"}

Init ==
    /\ plan \in Plans
    /\ phase = [p \in Pipeline |-> IF conf(p).steps = {} THEN "done" ELSE "setup"]
    /\ ctxDone = [p \in Pipeline |-> FALSE]
    /\ state = [p \in Pipeline |-> Fresh(Visible(conf(p)))]
    /\ pc = [p \in Pipeline |-> [s \in Step |-> "blocked"]]
    /\ failed = [p \in Pipeline |-> [s \in Step |-> FALSE]]
    /\ dagErr = [p \in Pipeline |-> FALSE]
    /\ result = [p \in Pipeline |-> [s \in Step |-> "none"]]
    /\ published = [p \in Pipeline |-> {}]
    /\ outputs = [s \in Step |-> "absent"]
    /\ injected = [p \in Pipeline |-> [s \in Step |-> Nobody]]
    /\ launched = [p \in Pipeline |-> {}]
    /\ panicked = FALSE

Goto(p, s, l) == pc' = [pc EXCEPT ![p][s] = l]

\* exec returns, with or without an error.
Return(p, s, err) ==
    /\ Goto(p, s, "returned")
    /\ failed' = [failed EXCEPT ![p][s] = err]

-----------------------------------------------------------------------------
\* engine.Setup; a failure fails the stage and no step is started.
Setup(p) ==
    /\ phase[p] = "setup"
    /\ \/ /\ phase' = [phase EXCEPT ![p] = "running"]
          /\ pc' = [pc EXCEPT ![p] =
               [s \in Step |-> IF s \in conf(p).steps /\ conf(p).deps[s] = {}
                               THEN "called" ELSE "blocked"]]
          /\ UNCHANGED state
       \/ /\ phase' = [phase EXCEPT ![p] = "closing"]
          /\ state' = [state EXCEPT ![p] = FailAll(@)]
          /\ UNCHANGED pc
    /\ UNCHANGED <<plan, ctxDone, dagErr, failed, result, dataVars, panicked>>

\* The server cancels the build, or its timeout expires.
CancelContext(p) ==
    /\ phase[p] = "running"
    /\ ~ctxDone[p]
    /\ ctxDone' = [ctxDone EXCEPT ![p] = TRUE]
    /\ UNCHANGED <<plan, phase, dagErr, state, stepVars, dataVars, panicked>>

\* State.Cancel and a nil return: every place that finds the context done.
CancelAndReturn(p, s) ==
    /\ ctxDone[p]
    /\ state' = [state EXCEPT ![p] = Upd(p, Cancel(@))]
    /\ Return(p, s, FALSE)

\* Definitions named Bug... are plausible mistakes in the definition that
\* follows them; no specification uses them.

BugHeld ==                  \* an error return forgets to release
    {x \in Pipeline \X Step : \/ pc[x[1]][x[2]] \in Holding
                              \/ failed[x[1]][x[2]]}

Held == {x \in Pipeline \X Step : pc[x[1]][x[2]] \in Holding}

\* The test of the context and the wait for the semaphore, which the context
\* ends too.  Without a limit there is no semaphore.
Acquire(p, s) ==
    /\ pc[p][s] = "called"
    /\ \/ CancelAndReturn(p, s)
       \/ /\ ~ctxDone[p]
          /\ Threads = 0 \/ Cardinality(Held) < Threads
          /\ Goto(p, s, "deciding")
          /\ UNCHANGED <<state, failed>>
    /\ UNCHANGED <<plan, pipeVars, result, dataVars, panicked>>

BugAlready(policy, st, s) == Finished(st, s)    \* tested before the policy

\* Last case of the switch: a step that always runs never gets that far.
Already(policy, st, s) == policy # "always" /\ Finished(st, s)

\* The switch on the state and the run policy, in its order.
Decide(p, s) ==
    LET st     == state[p]
        policy == conf(p).run[s]
        quiet  == Cancelled(st) \/ policy = "never"
        skips  == \/ policy = "on-failure" /\ ~Failed(st)
                  \/ policy = "on-success" /\ Failed(st)
    IN  /\ pc[p][s] = "deciding"
        /\ \/ /\ quiet
              /\ Return(p, s, FALSE)
              /\ UNCHANGED state
           \/ /\ ~quiet /\ skips
              /\ state' = [state EXCEPT ![p] = Skip(@, s)]
              /\ \E reportErr \in conf(p).reportErrs : Return(p, s, reportErr)
           \/ /\ ~quiet /\ ~skips /\ Already(policy, st, s)
              /\ Return(p, s, FALSE)
              /\ UNCHANGED state
           \/ /\ ~quiet /\ ~skips /\ ~Already(policy, st, s)
              /\ Goto(p, s, "starting")
              /\ UNCHANGED <<state, failed>>
        /\ UNCHANGED <<plan, pipeVars, result, dataVars, panicked>>

StartStep(p, s) ==
    /\ pc[p][s] = "starting"
    /\ state' = [state EXCEPT ![p] = Start(@, s)]
    /\ \/ Goto(p, s, "injecting") /\ UNCHANGED failed
       \/ TRUE \in conf(p).reportErrs /\ Return(p, s, TRUE)
    /\ UNCHANGED <<plan, pipeVars, result, dataVars, panicked>>

\* resolveOutputValue: the service keeps outputs per pipeline, Execer.outputs
\* per step name only.
Resolved(p, d) ==
    IF conf(p).transport = "file" THEN outputs[d]
    ELSE IF d \in published[p] THEN p ELSE "absent"

\* injectOutputs, then engine.Run is called; a detached step's exec returns
\* at once.
Inject(p, s) ==
    LET d     == conf(p).source[s]
        value == IF d = s THEN Nobody ELSE Resolved(p, d)
    IN  /\ pc[p][s] = "injecting"
        /\ \/ /\ value \in NoOutput
              /\ state' = [state EXCEPT ![p] = Upd(p, Fail(@, s))]
              /\ Return(p, s, TRUE)
              /\ UNCHANGED <<injected, launched>>
           \/ /\ value \notin NoOutput
              /\ injected' = [injected EXCEPT ![p][s] = value]
              /\ launched' = [launched EXCEPT ![p] = @ \cup {s}]
              /\ IF s \in conf(p).detached
                 THEN Return(p, s, FALSE)
                 ELSE Goto(p, s, "running") /\ UNCHANGED failed
              /\ UNCHANGED state
        /\ UNCHANGED <<plan, pipeVars, result, published, outputs, panicked>>

\* The container of the step calls drone-output.
Publish(p, s) ==
    /\ pc[p][s] = "running"
    /\ s \notin published[p]
    /\ published' = [published EXCEPT ![p] = @ \cup {s}]
    /\ UNCHANGED <<plan, pipeVars, state, stepVars, outputs, injected, launched,
                   panicked>>

\* engine.Run returns and exec looks at the context.
RunReturns(p, s) ==
    /\ pc[p][s] = "running"
    /\ \/ CancelAndReturn(p, s) /\ UNCHANGED result
       \/ /\ ~ctxDone[p]
          /\ \E r \in Outcomes : result' = [result EXCEPT ![p][s] = r]
          /\ Goto(p, s, "ended")
          /\ UNCHANGED <<state, failed>>
    /\ UNCHANGED <<plan, pipeVars, dataVars, panicked>>

BugCollects(p, r) == r # "error" /\ conf(p).transport = "file"

\* In the file transport the outputs of a container that exited with 0 are
\* collected, also when it ran out of memory; exec tests the exit code after the
\* report.
Collects(p, r) == r \in ZeroExits /\ conf(p).transport = "file"

\* Finish or Fail, and the report: a container that ran out of memory counts as
\* a failure whatever its exit code.  An error of the report, or of closing the
\* log, is kept and returned at the end of exec.
FinishStep(p, s) ==
    LET r    == result[p][s]
        code == CASE r = "exit 0" -> 0 [] r = "exit 78" -> 78
                  [] r \in {"oom 0", "oom 78"} -> 137 [] OTHER -> 1
        st   == IF r = "error" THEN Upd(p, Fail(state[p], s))
                ELSE Upd(p, Finish(state[p], s, code))
    IN  /\ pc[p][s] = "ended"
        /\ state' = [state EXCEPT ![p] = IF r \in NeutralExits THEN SkipAll(st) ELSE st]
        /\ \E resultErr \in conf(p).reportErrs :
              failed' = [failed EXCEPT ![p][s] = resultErr]
        /\ Goto(p, s, IF Collects(p, r)
                      THEN "collecting" ELSE "returned")
        /\ UNCHANGED <<plan, pipeVars, result, dataVars, panicked>>

\* collectOutputs: the whole map of the step is replaced, by nothing if the
\* step published nothing.
Collect(p, s) ==
    /\ pc[p][s] = "collecting"
    /\ \/ /\ outputs' = [outputs EXCEPT ![s] =
                            IF s \in published[p] THEN p ELSE "empty"]
          /\ Goto(p, s, "returned")
          /\ UNCHANGED <<state, failed>>
       \/ /\ state' = [state EXCEPT ![p] = Upd(p, Fail(@, s))]
          /\ Return(p, s, TRUE)
          /\ UNCHANGED outputs
    /\ UNCHANGED <<plan, pipeVars, result, published, injected, launched, panicked>>

-----------------------------------------------------------------------------
\* The goroutine of the vertex after exec: a fail-fast step with a positive
\* exit code cancels the context.  The graph takes the result; after the
\* first error it starts nothing more, else it starts every step whose
\* dependencies are now done.
Complete(p, s) ==
    LET fast  == conf(p).onerr[s] = "fail-fast"
        err   == dagErr[p] \/ failed[p][s]
        ended == {d \in Step : pc[p][d] = "done"} \cup {s}
    IN  /\ pc[p][s] = "returned"
        /\ fast => s \in Visible(conf(p))
        /\ ctxDone' = [ctxDone EXCEPT ![p] = @ \/ (fast /\ state[p].exit[s])]
        /\ dagErr' = [dagErr EXCEPT ![p] = err]
        /\ pc' = [pc EXCEPT ![p] =
             [t \in Step |->
                IF t = s THEN "done"
                ELSE IF /\ pc[p][t] = "blocked" /\ t \in conf(p).steps
                        /\ ~err /\ conf(p).deps[t] \subseteq ended
                THEN "called" ELSE pc[p][t]]]
        /\ UNCHANGED <<plan, phase, state, failed, result, dataVars, panicked>>

\* State.Find panics for a step the stage does not list.
FindPanics(p, s) ==
    /\ pc[p][s] = "returned"
    /\ conf(p).onerr[s] = "fail-fast"
    /\ s \notin Visible(conf(p))
    /\ panicked' = TRUE
    /\ UNCHANGED <<plan, pipeVars, state, stepVars, dataVars>>

BugFinishExec(p) ==         \* trusts the steps to have failed the stage
    /\ phase[p] = "running"
    /\ \A s \in Step : pc[p][s] \in {"blocked", "done"}
    /\ phase' = [phase EXCEPT ![p] = "closing"]
    /\ state' = [state EXCEPT ![p] = FinishAll(@)]
    /\ UNCHANGED <<plan, ctxDone, dagErr, stepVars, dataVars, panicked>>

\* The graph has returned: the rest of Exec up to its return.
FinishExec(p) ==
    /\ phase[p] = "running"
    /\ \A s \in Step : pc[p][s] \in {"blocked", "done"}
    /\ phase' = [phase EXCEPT ![p] = "closing"]
    /\ state' = [state EXCEPT ![p] =
          FinishAll(IF dagErr[p] /\ ~Failed(@) THEN FailAll(@) ELSE @)]
    /\ UNCHANGED <<plan, ctxDone, dagErr, stepVars, dataVars, panicked>>

\* The deferred calls: cancel, close the socket, DeletePipeline, Destroy,
\* remove the output directory.
CleanUp(p) ==
    /\ phase[p] = "closing"
    /\ phase' = [phase EXCEPT ![p] = "done"]
    /\ ctxDone' = [ctxDone EXCEPT ![p] = TRUE]
    /\ published' = [published EXCEPT ![p] = {}]
    /\ UNCHANGED <<plan, dagErr, state, stepVars, outputs, injected, launched,
                   panicked>>

StepNext(p, s) ==
    \/ Acquire(p, s) \/ Decide(p, s) \/ StartStep(p, s)
    \/ Inject(p, s) \/ RunReturns(p, s) \/ FinishStep(p, s) \/ Collect(p, s)
    \/ Complete(p, s) \/ FindPanics(p, s)

Next ==
    /\ ~panicked
    /\ \/ \E p \in Pipeline :
             Setup(p) \/ CancelContext(p) \/ FinishExec(p) \/ CleanUp(p)
       \/ \E p \in Pipeline, s \in Step : StepNext(p, s) \/ Publish(p, s)

Spec == Init /\ [][Next]_vars

\* Goroutines run, and a container ends by itself or because the pipeline's
\* timeout cancels the context: either way engine.Run returns.  Nothing else
\* has to happen: no cancellation, no successful report.
FairSpec ==
    /\ Spec
    /\ \A p \in Pipeline :
          /\ WF_vars(~panicked /\ Setup(p))
          /\ WF_vars(~panicked /\ FinishExec(p))
          /\ WF_vars(~panicked /\ CleanUp(p))
          /\ \A s \in Step : WF_vars(~panicked /\ StepNext(p, s))

-----------------------------------------------------------------------------
TypeOK ==
    /\ plan \in Plans
    /\ phase \in [Pipeline -> {"setup", "running", "closing", "done"}]
    /\ ctxDone \in [Pipeline -> BOOLEAN]
    /\ \A p \in Pipeline :
          /\ state[p].stage \in StageStatus
          /\ state[p].step \in [Visible(conf(p)) -> StepStatus]
          /\ state[p].exit \in [Visible(conf(p)) -> BOOLEAN]
    /\ pc \in [Pipeline -> [Step -> Locations]]
    /\ failed \in [Pipeline -> [Step -> BOOLEAN]]
    /\ dagErr \in [Pipeline -> BOOLEAN]
    /\ result \in [Pipeline -> [Step -> Outcomes \cup {"none"}]]
    /\ published \in [Pipeline -> SUBSET Step]
    /\ outputs \in [Step -> Pipeline \cup NoOutput]
    /\ injected \in [Pipeline -> [Step -> Pipeline \cup {Nobody}]]
    /\ launched \in [Pipeline -> SUBSET Step]
    /\ panicked \in BOOLEAN

\* A stage reported as a success has no step that broke, was killed or was left
\* out by an aborted graph: every step was skipped by its policy, or its
\* container was run and did not fail unless its failure is ignored.
SuccessIsHonest ==
    \A p \in Pipeline :
        phase[p] \in {"closing", "done"} /\ state[p].stage = "success" =>
            \A s \in Visible(conf(p)) :
              /\ pc[p][s] = "done"
              /\ \/ state[p].step[s] = "skipped"
                 \/ s \in launched[p] /\ state[p].step[s] = "success"
                 \/ s \in launched[p] /\ state[p].step[s] = "failure" /\ s \in Ignored(p)

\* A step that runs on success is never started after one of its dependencies
\* failed, broke or was killed, whatever other branches of the graph, the
\* fail-fast cancellation and the skips of exit code 78 do meanwhile.
FailureStopsDependents ==
    \A p \in Pipeline : \A s \in launched[p] : \A d \in conf(p).deps[s] :
        /\ conf(p).run[s] = "on-success"
        /\ d \in Visible(conf(p)) \ conf(p).detached
        => \/ state[p].step[d] \in {"success", "skipped"}
           \/ state[p].step[d] = "failure" /\ d \in Ignored(p)

\* Unless the context is cancelled or a step's exec returns an error, a step
\* configured to always run is run, whatever failed or was skipped before it.
AlwaysStepsRun ==
    \A p \in Pipeline :
        /\ phase[p] = "closing" /\ ~ctxDone[p] /\ ~dagErr[p]
        /\ \E s \in Step : pc[p][s] = "done"
        => \A s \in conf(p).steps :
              conf(p).run[s] = "always" => s \in launched[p]

\* README.md: an output is consumed within the same pipeline execution only.
OwnOutputsOnly ==
    \A p \in Pipeline, s \in Step : injected[p][s] \in {p, Nobody}

\* docs/step-outputs.md: the outputs of a producer step that fails are not
\* published: no step is started with an output of a container of its pipeline
\* that did not exit with 0, or ran out of memory.
FailedProducersPublishNothing ==
    \A p \in Pipeline, s \in Step :
        injected[p][s] = p => result[p][conf(p).source[s]] = "exit 0"

\* What holds of it.  A step is started with an output of a failed producer of
\* its pipeline in two cases only: in the file transport, where exec collects by
\* the exit code alone, the container ran out of memory and exited with 0 all
\* the same; over the socket the consumer does not wait for the producer's
\* success.
OnlyKnownFailuresPublish ==
    \A p \in Pipeline, s \in Step : injected[p][s] = p =>
        LET r == result[p][conf(p).source[s]]
        IN  \/ r = "exit 0"
            \/ conf(p).transport = "file" /\ r = "oom 0"
            \/ conf(p).transport = "unix" /\ ~Waits(conf(p), s)

\* A step whose conditions are not met is skipped; the runner does not die of it.
RunnerSurvives == ~panicked

\* Every Exec returns: the semaphore shared by all pipelines, cancelled
\* waiters, errors in the middle of the graph and fail-fast steps never leave
\* an Exec waiting for ever.
ExecReturns ==
    \A p \in Pipeline : phase[p] = "setup" ~> phase[p] = "done" \/ panicked
=============================================================================
