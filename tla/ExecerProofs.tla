------------------------------ MODULE ExecerProofs ------------------------------
(***************************************************************************)
(* Theorems about Execer for any number of pipelines and steps, any limit   *)
(* of the semaphore, and all specs of the assumptions; those that need more *)
(* of a spec say what.                                                     *)
(***************************************************************************)
EXTENDS Execer, LeastNumber, FiniteSetTheorems, TLAPS

-----------------------------------------------------------------------------
(* What the operations of PipelineState do to the status of a step, for any  *)
(* set V of visible steps                                                    *)

Stat(V) == [stage : StageStatus, step : [V -> StepStatus], exit : [V -> BOOLEAN]]

\* The statuses that decide the stage.
Bad(status, v, ignored) ==
    \/ status[v] \in {"killed", "error"}
    \/ status[v] = "failure" /\ v \notin ignored

LEMMA FreshFacts ==
  ASSUME NEW V
  PROVE  /\ Fresh(V) \in Stat(V)
         /\ Fresh(V).stage = "running"
         /\ \A v \in V : Fresh(V).step[v] = "pending"
BY DEF Fresh, Stat, StageStatus, StepStatus

\* order names every member of S.
Lists(order, S) ==
    \E n \in Nat : /\ order \in [1 .. n -> S]
                   /\ \A s \in S : \E i \in 1 .. n : order[i] = s

\* The stage takes the status of a bad step if there is one and keeps its own
\* if there is none.
LEMMA UpdateFacts ==
  ASSUME NEW V, NEW S, V \subseteq S, NEW order, Lists(order, S), NEW ignored,
         NEW st \in Stat(V)
  PROVE  LET u == Update(st, order, ignored)
         IN  /\ u \in Stat(V) /\ u.step = st.step /\ u.exit = st.exit
             /\ \/ u.stage = st.stage /\ \A v \in V : ~Bad(st.step, v, ignored)
                \/ \E v \in V : Bad(st.step, v, ignored) /\ u.stage = st.step[v]
<1> PICK n \in Nat : /\ order \in [1 .. n -> S]
                     /\ \A s \in S : \E i \in 1 .. n : order[i] = s
  BY DEF Lists
<1> DEFINE bad(i) == /\ order[i] \in DOMAIN st.step
                     /\ \/ st.step[order[i]] \in {"killed", "error"}
                        \/ st.step[order[i]] = "failure" /\ order[i] \notin ignored
           first == {i \in DOMAIN order : bad(i) /\ \A j \in 1 .. i - 1 : ~bad(j)}
           u == Update(st, order, ignored)
<1>1. DOMAIN st.step = V /\ DOMAIN order = 1 .. n
  BY DEF Stat
<1>2. \A i \in 1 .. n : bad(i) <=> order[i] \in V /\ Bad(st.step, order[i], ignored)
  BY <1>1 DEF Bad
<1>3. ASSUME NEW v \in V, Bad(st.step, v, ignored)
      PROVE  first # {}
  <2> DEFINE T == {i \in 1 .. n : bad(i)}
  <2>1. T \in SUBSET Nat /\ T # {}
    <3>1. PICK i \in 1 .. n : order[i] = v
      OBVIOUS
    <3> QED
      BY <1>2, <1>3, <3>1
  <2>2. PICK m \in T : \A k \in T : ~(k < m)
    BY <2>1, Least
  <2>3. \A j \in 1 .. m - 1 : j \in 1 .. n /\ j < m
    BY <2>2
  <2>4. \A j \in 1 .. m - 1 : ~bad(j)
    BY <2>2, <2>3
  <2>5. m \in DOMAIN order /\ bad(m)
    BY <1>1, <2>2
  <2> QED
    BY <2>4, <2>5
<1>4. u = IF first = {} THEN st
          ELSE [st EXCEPT !.stage = st.step[order[CHOOSE i \in first : TRUE]]]
  BY DEF Update
<1>5. CASE first = {}
  BY <1>3, <1>4, <1>5
<1>6. CASE first # {}
  <2>1. PICK i \in first : u = [st EXCEPT !.stage = st.step[order[i]]]
    BY <1>4, <1>6
  <2>2. order[i] \in V /\ Bad(st.step, order[i], ignored)
    BY <1>1, <1>2, <2>1
  <2>3. st.step[order[i]] \in StageStatus
    BY <2>2 DEF Bad, StageStatus
  <2> HIDE DEF first, u
  <2>4. u \in Stat(V) /\ u.step = st.step /\ u.exit = st.exit /\ u.stage = st.step[order[i]]
    BY <2>1, <2>3 DEF Stat
  <2> QED
    BY <2>2, <2>4 DEF u
<1> QED
  BY <1>5, <1>6

LEMMA StartFacts ==
  ASSUME NEW V, NEW st \in Stat(V), NEW s \in V
  PROVE  LET u == Start(st, s)
         IN  /\ u \in Stat(V) /\ u.stage = st.stage
             /\ \A v \in V : u.step[v] = IF v = s /\ st.step[v] = "pending"
                                         THEN "running" ELSE st.step[v]
BY DEF Start, Stat, StepStatus

LEMMA SkipFacts ==
  ASSUME NEW V, NEW st \in Stat(V), NEW s \in V
  PROVE  LET u == Skip(st, s)
         IN  /\ u \in Stat(V) /\ u.stage = st.stage
             /\ \A v \in V : u.step[v] = IF v = s /\ st.step[v] = "pending"
                                         THEN "skipped" ELSE st.step[v]
BY DEF Skip, Stat, StepStatus

LEMMA SkipAllFacts ==
  ASSUME NEW V, NEW st \in Stat(V)
  PROVE  LET u == SkipAll(st)
         IN  /\ u \in Stat(V) /\ u.stage = st.stage
             /\ \A v \in V : u.step[v] = IF st.step[v] = "pending"
                                         THEN "skipped" ELSE st.step[v]
BY DEF SkipAll, Move, Stat, StepStatus

LEMMA FinishFacts ==
  ASSUME NEW V, NEW st \in Stat(V), NEW s \in V, NEW code \in Nat
  PROVE  LET u == Finish(st, s, code)
         IN  /\ u \in Stat(V) /\ u.stage = st.stage
             /\ \A v \in V : u.step[v] =
                   IF v = s /\ st.step[v] \in {"pending", "running"}
                   THEN IF code \in {0, 78} THEN "success" ELSE "failure"
                   ELSE st.step[v]
BY DEF Finish, Finished, Stat, StepStatus

LEMMA FailFacts ==
  ASSUME NEW V, NEW st \in Stat(V), NEW s \in V
  PROVE  LET u == Fail(st, s)
         IN  /\ u \in Stat(V) /\ u.stage = st.stage
             /\ \A v \in V : u.step[v] = IF v = s THEN "error" ELSE st.step[v]
BY DEF Fail, Stat, StepStatus

LEMMA CancelFacts ==
  ASSUME NEW V, NEW st \in Stat(V)
  PROVE  LET u == Cancel(st)
         IN  /\ u \in Stat(V) /\ u.stage = "killed"
             /\ \A v \in V : u.step[v] = CASE st.step[v] = "pending" -> "skipped"
                                           [] st.step[v] = "running" -> "killed"
                                           [] OTHER -> st.step[v]
BY DEF Cancel, Move, Stat, StepStatus, StageStatus

LEMMA FailAllFacts ==
  ASSUME NEW V, NEW st \in Stat(V)
  PROVE  LET u == FailAll(st)
         IN  /\ u \in Stat(V)
             /\ u.stage = IF st.stage = "running" THEN "error" ELSE st.stage
             /\ \A v \in V : u.step[v] = IF st.step[v] = "pending"
                                         THEN "skipped" ELSE st.step[v]
BY DEF FailAll, SkipAll, Move, Stat, StepStatus, StageStatus

LEMMA FinishAllFacts ==
  ASSUME NEW V, NEW st \in Stat(V)
  PROVE  LET u == FinishAll(st)
         IN  /\ u \in Stat(V)
             /\ u.stage = IF st.stage = "running" THEN "success" ELSE st.stage
             /\ \A v \in V : u.step[v] = CASE st.step[v] = "pending" -> "skipped"
                                           [] st.step[v] = "running" -> "success"
                                           [] OTHER -> st.step[v]
BY DEF FinishAll, Move, Stat, StepStatus, StageStatus

-----------------------------------------------------------------------------
(* The inductive invariant *)

Ready    == {"blocked", "called", "deciding", "starting"}
Launched == {"running", "ended", "collecting"}
Over     == {"returned", "done"}
NotRun   == Ready \cup {"injecting", "running"}

\* What TypeOK says of the records, and that they are records.
StateType ==
    /\ state = [p \in Pipeline |-> state[p]]
    /\ \A p \in Pipeline : state[p] \in Stat(Visible(conf(p)))

\* The graph: a step is called when its dependencies are done, without an
\* error, and a graph without an error leaves no such step behind.
GraphInv(p) ==
    /\ phase[p] = "setup" => \A s \in Step : pc[p][s] = "blocked"
    /\ phase[p] \in {"closing", "done"} => \A s \in Step : pc[p][s] \in {"blocked", "done"}
    /\ \A s \in Step : pc[p][s] # "blocked" =>
          /\ s \in conf(p).steps
          /\ \A d \in conf(p).deps[s] : pc[p][d] = "done" /\ ~failed[p][d]
    /\ \A s \in Step : pc[p][s] = "done" /\ failed[p][s] => dagErr[p]
    /\ phase[p] = "running" /\ ~dagErr[p] =>
          \A s \in conf(p).steps : pc[p][s] = "blocked" =>
              \E d \in conf(p).deps[s] : pc[p][d] # "done"

\* Which steps reach docker, and which of those publish.
LaunchInv(p) ==
    /\ \A s \in Step :
          /\ pc[p][s] \in {"starting", "injecting"} => conf(p).run[s] # "never"
          /\ pc[p][s] \in Launched => s \in launched[p] \ conf(p).detached
          /\ s \in launched[p] => s \in Visible(conf(p)) /\ pc[p][s] \in Launched \cup Over
          /\ s \in published[p] => s \in launched[p] \ conf(p).detached
          /\ pc[p][s] \in NotRun => result[p][s] = "none"
          /\ pc[p][s] = "collecting" =>
                result[p][s] \in ZeroExits /\ conf(p).transport = "file"
          /\ /\ conf(p).run[s] = "always" /\ pc[p][s] \in Over
             /\ ~failed[p][s] /\ ~ctxDone[p]
             => s \in launched[p]

\* A step whose exec ended well, as long as nothing has failed the stage.
Settled(p, s) ==
    \/ state[p].step[s] = "skipped"
    \/ /\ s \in launched[p]
       /\ \/ state[p].step[s] \in {"success", "failure"}
          \/ state[p].step[s] = "running" /\ s \in conf(p).detached

\* The record against the goroutines: as long as the stage runs no step is bad,
\* and the stage leaves "running" for good.
StatusInv(p) ==
    /\ phase[p] \in {"setup", "running"} => state[p].stage # "success"
    /\ \/ state[p].stage = "killed"
       \/ \E s \in Visible(conf(p)) : state[p].step[s] = "killed"
       => ctxDone[p]
    /\ \A s \in Visible(conf(p)) :
          /\ pc[p][s] \in Ready => state[p].step[s] \in {"pending", "skipped"}
          /\ state[p].stage = "running" =>
                /\ ~Bad(state[p].step, s, Ignored(p))
                /\ pc[p][s] \notin Ready => state[p].step[s] # "pending"
                /\ pc[p][s] = "collecting" \/ (pc[p][s] \in Over /\ ~failed[p][s])
                   => Settled(p, s)

\* What a dependency of a started step was, it stays.
Fine(p, d) ==
    \/ state[p].step[d] \in {"success", "skipped"}
    \/ state[p].step[d] = "failure" /\ d \in Ignored(p)

Started(p, s) == pc[p][s] \in {"starting", "injecting"} \/ s \in launched[p]

DepsInv(p) ==
    \A s \in Step : Started(p, s) /\ conf(p).run[s] = "on-success" =>
        \A d \in (conf(p).deps[s] \cap Visible(conf(p))) \ conf(p).detached : Fine(p, d)

NonePending(p) == \A v \in Visible(conf(p)) : state[p].step[v] # "pending"

\* When a step that is still to run, or has run, is skipped, all that pend were,
\* and so they are by exit code 78; hence the last part: a step that runs on
\* success was started after containers that exited with 0, if their failure
\* counts.
SkipInv(p) ==
    /\ \A s \in Visible(conf(p)) :
          /\ pc[p][s] \notin Over \/ s \in launched[p] =>
                (state[p].step[s] = "skipped" => NonePending(p))
          /\ phase[p] \in {"setup", "running"} /\ state[p].step[s] = "success" =>
                /\ pc[p][s] \in {"collecting", "returned", "done"}
                /\ result[p][s] \in {"exit 0", "exit 78"}
    /\ \A s \in Step : result[p][s] = "exit 78" /\ pc[p][s] \in Over => NonePending(p)
    /\ \A s \in Step : Started(p, s) /\ conf(p).run[s] = "on-success" =>
          \A d \in (conf(p).deps[s] \cap launched[p]) \ (conf(p).detached \cup Ignored(p)) :
              result[p][d] = "exit 0"

\* The producer of an output of its own pipeline that a step was given.
Traced(p, s) ==
    LET d == conf(p).source[s]
    IN  /\ conf(p).transport = "file" => result[p][d] \in ZeroExits /\ pc[p][d] \in Over
        /\ conf(p).transport = "unix" /\ Waits(conf(p), s) =>
              result[p][d] = "exit 0" /\ pc[p][d] \in Over

\* Where an output that is kept, or was given to a step, comes from.
OutputInv(p) ==
    /\ \A d \in Step : outputs[d] = p =>
          /\ d \in conf(p).steps /\ conf(p).transport = "file"
          /\ result[p][d] \in ZeroExits /\ pc[p][d] \in Over
    /\ \A s \in Step : injected[p][s] # Nobody =>
          s \in conf(p).steps /\ conf(p).source[s] # s
    /\ \A s \in Step : injected[p][s] = p => Traced(p, s)

EndInv(p) ==
    /\ phase[p] \in {"closing", "done"} /\ Acyclic(conf(p)) /\ state[p].stage = "success" =>
          \A s \in Visible(conf(p)) :
              /\ pc[p][s] = "done"
              /\ \/ state[p].step[s] = "skipped"
                 \/ s \in launched[p] /\ state[p].step[s] = "success"
                 \/ s \in launched[p] /\ state[p].step[s] = "failure" /\ s \in Ignored(p)
    /\ /\ phase[p] = "closing" /\ ~dagErr[p] /\ Acyclic(conf(p))
       /\ \E s \in Step : pc[p][s] = "done"
       => \A s \in conf(p).steps : pc[p][s] = "done"

PInv(p) ==
    /\ GraphInv(p) /\ LaunchInv(p) /\ StatusInv(p) /\ DepsInv(p) /\ SkipInv(p)
    /\ OutputInv(p) /\ EndInv(p)

PermitsInv == IsFiniteSet(Held) /\ (Threads # 0 => Cardinality(Held) <= Threads)

IInv ==
    /\ TypeOK /\ StateType /\ (\A p \in Pipeline : PInv(p))
    /\ PermitsInv

-----------------------------------------------------------------------------
(* Types *)

LEMMA ConfFacts ==
  ASSUME plan \in Plans, NEW p \in Pipeline
  PROVE  /\ conf(p) \in Conf
         /\ conf(p).steps \subseteq Step /\ Visible(conf(p)) \subseteq conf(p).steps
         /\ \A s \in Step : conf(p).deps[s] \subseteq Step /\ conf(p).source[s] \in Step
         /\ \A s \in Step : conf(p).run[s] \in RunPolicy
         /\ conf(p).transport \in {"file", "unix"}
         /\ conf(p).reportErrs \subseteq BOOLEAN
         /\ \A s \in conf(p).steps : s \in Visible(conf(p)) <=> conf(p).run[s] # "never"
<1>1. conf(p) \in Conf
  BY PlansAssumption DEF conf
<1> QED
  BY <1>1 DEF Conf, Visible

\* The stage's order lists every step.
LEMMA UpdFacts ==
  ASSUME plan \in Plans, NEW p \in Pipeline, NEW st \in Stat(Visible(conf(p)))
  PROVE  LET u == Upd(p, st)
             V == Visible(conf(p))
         IN  /\ u \in Stat(V) /\ u.step = st.step
             /\ \/ u.stage = st.stage /\ \A v \in V : ~Bad(st.step, v, Ignored(p))
                \/ \E v \in V : Bad(st.step, v, Ignored(p)) /\ u.stage = st.step[v]
<1>1. Visible(conf(p)) \subseteq Step
  BY ConfFacts
<1>2. Lists(Order, Step)
  BY OrderAssumption, FS_CardinalityType DEF Lists
<1> HIDE DEF conf
<1> QED
  BY <1>1, <1>2, UpdateFacts DEF Upd

\* What CancelAndReturn and a failure leave of the record.
LEMMA CancelUpd ==
  ASSUME plan \in Plans, NEW p \in Pipeline, NEW st \in Stat(Visible(conf(p)))
  PROVE  LET u == Upd(p, Cancel(st))
         IN  /\ u \in Stat(Visible(conf(p)))
             /\ u.stage \in {"killed", "error", "failure"}
             /\ \A v \in Visible(conf(p)) :
                   u.step[v] = CASE st.step[v] = "pending" -> "skipped"
                                 [] st.step[v] = "running" -> "killed"
                                 [] OTHER -> st.step[v]
<1>1. Cancel(st) \in Stat(Visible(conf(p))) /\ Cancel(st).stage = "killed"
  BY CancelFacts
<1>2. Upd(p, Cancel(st)).stage \in {"killed", "error", "failure"}
  BY <1>1, UpdFacts DEF Bad
<1> QED
  BY <1>1, <1>2, UpdFacts, CancelFacts

LEMMA FailUpd ==
  ASSUME plan \in Plans, NEW p \in Pipeline, NEW st \in Stat(Visible(conf(p))),
         NEW s \in Visible(conf(p))
  PROVE  LET u == Upd(p, Fail(st, s))
         IN  /\ u \in Stat(Visible(conf(p)))
             /\ u.stage \in {"killed", "error", "failure"}
             /\ u.stage = "killed" => \E v \in Visible(conf(p)) : u.step[v] = "killed"
             /\ \A v \in Visible(conf(p)) :
                   u.step[v] = IF v = s THEN "error" ELSE st.step[v]
<1>1. /\ Fail(st, s) \in Stat(Visible(conf(p)))
      /\ \A v \in Visible(conf(p)) :
            Fail(st, s).step[v] = IF v = s THEN "error" ELSE st.step[v]
  BY FailFacts
<1>2. Bad(Fail(st, s).step, s, Ignored(p))
  BY <1>1 DEF Bad
<1>3. \E v \in Visible(conf(p)) : /\ Bad(Fail(st, s).step, v, Ignored(p))
                                  /\ Upd(p, Fail(st, s)).stage = Fail(st, s).step[v]
  BY <1>1, <1>2, UpdFacts
<1>4. Upd(p, Fail(st, s)).step = Fail(st, s).step
  BY <1>1, UpdFacts
<1> QED
  BY <1>1, <1>3, <1>4, UpdFacts DEF Bad

\* What the end of a container leaves of the record.
LEMMA FinishUpd ==
  ASSUME plan \in Plans, NEW p \in Pipeline, NEW st \in Stat(Visible(conf(p))),
         NEW s \in Visible(conf(p)), NEW code \in Nat
  PROVE  LET u == Upd(p, Finish(st, s, code))
         IN  /\ u \in Stat(Visible(conf(p)))
             /\ \/ u.stage = st.stage
                   /\ \A v \in Visible(conf(p)) : ~Bad(u.step, v, Ignored(p))
                \/ /\ u.stage \in {"killed", "error", "failure"}
                   /\ u.stage = "killed" => \E v \in Visible(conf(p)) : u.step[v] = "killed"
             /\ \A v \in Visible(conf(p)) : u.step[v] =
                   IF v = s /\ st.step[v] \in {"pending", "running"}
                   THEN IF code \in {0, 78} THEN "success" ELSE "failure"
                   ELSE st.step[v]
<1>1. /\ Finish(st, s, code) \in Stat(Visible(conf(p)))
      /\ Finish(st, s, code).stage = st.stage
  BY FinishFacts
<1>2. Upd(p, Finish(st, s, code)).step = Finish(st, s, code).step
  BY <1>1, UpdFacts
<1> DEFINE f == Finish(st, s, code)
           u == Upd(p, f)
<1>3. \/ u.stage = f.stage /\ \A v \in Visible(conf(p)) : ~Bad(f.step, v, Ignored(p))
      \/ \E v \in Visible(conf(p)) :
            Bad(f.step, v, Ignored(p)) /\ u.stage = f.step[v]
  BY <1>1, UpdFacts
<1>4. u \in Stat(Visible(conf(p)))
  BY <1>1, UpdFacts
<1>5. \A v \in Visible(conf(p)) : f.step[v] =
          IF v = s /\ st.step[v] \in {"pending", "running"}
          THEN IF code \in {0, 78} THEN "success" ELSE "failure"
          ELSE st.step[v]
  BY FinishFacts
<1> HIDE DEF f, u
<1>6. u.step = f.step /\ f.stage = st.stage
  BY <1>1, <1>2 DEF f, u
<1>7. \/ /\ u.stage = st.stage
         /\ \A v \in Visible(conf(p)) : ~Bad(u.step, v, Ignored(p))
      \/ /\ u.stage \in {"killed", "error", "failure"}
         /\ u.stage = "killed" => \E v \in Visible(conf(p)) : u.step[v] = "killed"
  BY <1>3, <1>6 DEF Bad
<1> QED
  BY <1>4, <1>5, <1>6, <1>7 DEF f, u

\* All variables but the records.
PlainType ==
    /\ plan \in Plans
    /\ phase \in [Pipeline -> {"setup", "running", "closing", "done"}]
    /\ ctxDone \in [Pipeline -> BOOLEAN]
    /\ pc \in [Pipeline -> [Step -> Locations]]
    /\ failed \in [Pipeline -> [Step -> BOOLEAN]]
    /\ dagErr \in [Pipeline -> BOOLEAN]
    /\ result \in [Pipeline -> [Step -> Outcomes \cup {"none"}]]
    /\ published \in [Pipeline -> SUBSET Step]
    /\ outputs \in [Step -> Pipeline \cup NoOutput]
    /\ injected \in [Pipeline -> [Step -> Pipeline \cup {Nobody}]]
    /\ launched \in [Pipeline -> SUBSET Step]
    /\ panicked \in BOOLEAN

LEMMA TypeSplits == StateType => (TypeOK <=> PlainType)
<1> SUFFICES ASSUME StateType PROVE TypeOK <=> PlainType
  OBVIOUS
<1>1. \A p \in Pipeline :
          /\ state[p].stage \in StageStatus
          /\ state[p].step \in [Visible(conf(p)) -> StepStatus]
          /\ state[p].exit \in [Visible(conf(p)) -> BOOLEAN]
  BY DEF StateType, Stat
<1> QED
  BY <1>1 DEF TypeOK, PlainType

\* One record is replaced by one of its type.
LEMMA StateUpdated ==
  ASSUME StateType, plan' = plan, NEW p \in Pipeline, NEW st \in Stat(Visible(conf(p))),
         state' = [state EXCEPT ![p] = st]
  PROVE  StateType'
BY DEF StateType, conf

LEMMA StateKept ==
  ASSUME StateType, plan' = plan, state' = state
  PROVE  StateType'
BY DEF StateType, conf

LEMMA CancelAndReturnType ==
  ASSUME plan \in Plans, StateType, plan' = plan, NEW p \in Pipeline, NEW s \in Step,
         CancelAndReturn(p, s)
  PROVE  StateType'
<1>1. Upd(p, Cancel(state[p])) \in Stat(Visible(conf(p)))
  BY CancelUpd DEF StateType
<1>2. state' = [state EXCEPT ![p] = Upd(p, Cancel(state[p]))]
  BY DEF CancelAndReturn
<1> QED
  BY <1>1, <1>2, StateUpdated, Zenon

\* Where a goroutine is, its step is visible.
LEMMA AtVisible ==
  ASSUME PlainType, NEW p \in Pipeline, GraphInv(p), LaunchInv(p), NEW s \in Step
  PROVE  /\ pc[p][s] # "blocked" => s \in conf(p).steps
         /\ pc[p][s] \in Holding \ {"deciding"} => s \in Visible(conf(p))
<1>1. pc[p][s] # "blocked" => s \in conf(p).steps
  BY DEF GraphInv
<1>2. pc[p][s] \in {"starting", "injecting"} => s \in Visible(conf(p))
  BY <1>1 DEF LaunchInv, Visible
<1>3. pc[p][s] \in Launched => s \in Visible(conf(p))
  BY <1>1 DEF LaunchInv
<1> QED
  BY <1>1, <1>2, <1>3 DEF Holding, Launched

LEMMA StepStateType ==
  ASSUME PlainType, StateType, NEW p \in Pipeline, GraphInv(p), LaunchInv(p),
         NEW s \in Step, StepNext(p, s) \/ Publish(p, s)
  PROVE  StateType'
<1> DEFINE V == Visible(conf(p))
<1>1. plan \in Plans /\ state[p] \in Stat(V)
  BY DEF PlainType, StateType
<1>2. plan' = plan
  BY DEF StepNext, Acquire, Decide, StartStep, Inject, RunReturns, FinishStep, Collect,
         Complete, FindPanics, Publish
<1>3. CASE Acquire(p, s)
  BY <1>1, <1>2, <1>3, CancelAndReturnType, StateKept DEF Acquire
<1>4. CASE Decide(p, s)
  <2>1. pc[p][s] = "deciding"
    BY <1>4 DEF Decide
  <2>2. CASE state' = state
    BY <1>2, <2>2, StateKept
  <2>3. CASE conf(p).run[s] # "never" /\ state' = [state EXCEPT ![p] = Skip(@, s)]
    <3>1. s \in V
      BY <2>1, <2>3 DEF GraphInv, Visible
    <3>2. Skip(state[p], s) \in Stat(V)
      BY <1>1, <3>1, SkipFacts
    <3>3. state' = [state EXCEPT ![p] = Skip(state[p], s)]
      BY <2>3
    <3> QED
      BY <1>2, <3>2, <3>3, StateUpdated
  <2> QED
    BY <1>4, <2>2, <2>3 DEF Decide
<1>5. CASE StartStep(p, s)
  <2>1. s \in V
    BY <1>5, AtVisible DEF StartStep, Holding
  <2>2. Start(state[p], s) \in Stat(V)
    BY <1>1, <2>1, StartFacts
  <2>3. state' = [state EXCEPT ![p] = Start(state[p], s)]
    BY <1>5 DEF StartStep
  <2> QED
    BY <1>2, <2>2, <2>3, StateUpdated
<1>6. CASE Inject(p, s)
  <2>1. s \in V
    BY <1>6, AtVisible DEF Inject, Holding
  <2>2. Upd(p, Fail(state[p], s)) \in Stat(V)
    BY <1>1, <2>1, FailUpd
  <2>3. state' = state \/ state' = [state EXCEPT ![p] = Upd(p, Fail(state[p], s))]
    BY <1>6 DEF Inject
  <2> QED
    BY <1>2, <2>2, <2>3, StateUpdated, StateKept
<1>7. CASE RunReturns(p, s)
  BY <1>1, <1>2, <1>7, CancelAndReturnType, StateKept DEF RunReturns
<1>8. CASE FinishStep(p, s)
  <2> DEFINE r == result[p][s]
             code == CASE r = "exit 0" -> 0 [] r = "exit 78" -> 78
                       [] r \in {"oom 0", "oom 78"} -> 137 [] OTHER -> 1
             st == IF r = "error" THEN Upd(p, Fail(state[p], s))
                   ELSE Upd(p, Finish(state[p], s, code))
             n == IF r \in NeutralExits THEN SkipAll(st) ELSE st
  <2>1. s \in V
    BY <1>8, AtVisible DEF FinishStep, Holding
  <2>2. state' = [state EXCEPT ![p] = n]
    BY <1>8 DEF FinishStep
  <2>3. code \in Nat
    OBVIOUS
  <2>4. st \in Stat(V)
    <3> HIDE DEF code
    <3>1. Upd(p, Fail(state[p], s)) \in Stat(V)
      BY <1>1, <2>1, FailUpd
    <3>2. Upd(p, Finish(state[p], s, code)) \in Stat(V)
      BY <1>1, <2>1, <2>3, FinishUpd
    <3> QED
      BY <3>1, <3>2
  <2>5. n \in Stat(V)
    <3> HIDE DEF st
    <3> QED
      BY <2>4, SkipAllFacts
  <2> HIDE DEF n
  <2> QED
    BY <1>2, <2>2, <2>5, StateUpdated
<1>9. CASE Collect(p, s)
  <2>1. s \in V
    BY <1>9, AtVisible DEF Collect, Holding
  <2>2. Upd(p, Fail(state[p], s)) \in Stat(V)
    BY <1>1, <2>1, FailUpd
  <2>3. state' = state \/ state' = [state EXCEPT ![p] = Upd(p, Fail(state[p], s))]
    BY <1>9 DEF Collect
  <2> QED
    BY <1>2, <2>2, <2>3, StateUpdated, StateKept
<1>10. CASE Complete(p, s) \/ FindPanics(p, s) \/ Publish(p, s)
  BY <1>2, <1>10, StateKept DEF Complete, FindPanics, Publish
<1> QED
  BY <1>3, <1>4, <1>5, <1>6, <1>7, <1>8, <1>9, <1>10 DEF StepNext

LEMMA PipelineStateType ==
  ASSUME PlainType, StateType, NEW p \in Pipeline,
         Setup(p) \/ CancelContext(p) \/ FinishExec(p) \/ CleanUp(p)
  PROVE  StateType'
<1> DEFINE V == Visible(conf(p))
<1>1. state[p] \in Stat(V)
  BY DEF StateType
<1>2. plan' = plan
  BY DEF Setup, CancelContext, FinishExec, CleanUp
<1>3. CASE Setup(p)
  <2>1. FailAll(state[p]) \in Stat(V)
    BY <1>1, FailAllFacts
  <2>2. state' = state \/ state' = [state EXCEPT ![p] = FailAll(state[p])]
    BY <1>3 DEF Setup
  <2> QED
    BY <1>2, <2>1, <2>2, StateUpdated, StateKept
<1>4. CASE FinishExec(p)
  <2> DEFINE st == IF dagErr[p] /\ ~Failed(state[p]) THEN FailAll(state[p]) ELSE state[p]
  <2>1. st \in Stat(V)
    BY <1>1, FailAllFacts
  <2>2. state' = [state EXCEPT ![p] = FinishAll(st)]
    BY <1>4 DEF FinishExec
  <2>3. FinishAll(st) \in Stat(V)
    BY <2>1, FinishAllFacts
  <2> QED
    BY <1>2, <2>2, <2>3, StateUpdated
<1>5. CASE CancelContext(p) \/ CleanUp(p)
  BY <1>2, <1>5, StateKept DEF CancelContext, CleanUp
<1> QED
  BY <1>3, <1>4, <1>5

\* Where a step leaves its goroutine, and what its exec returns.
Goes(p, s, l) ==
    /\ pc' = [pc EXCEPT ![p][s] = l]
    /\ failed' = failed \/ \E err \in BOOLEAN : failed' = [failed EXCEPT ![p][s] = err]

LEMMA GoesType ==
  ASSUME PlainType, NEW p \in Pipeline, NEW s \in Step, NEW l \in Locations, Goes(p, s, l)
  PROVE  /\ pc' \in [Pipeline -> [Step -> Locations]]
         /\ failed' \in [Pipeline -> [Step -> BOOLEAN]]
         /\ \A q \in Pipeline, t \in Step :
               pc'[q][t] = IF q = p /\ t = s THEN l ELSE pc[q][t]
         /\ \A q \in Pipeline, t \in Step :
               ~(q = p /\ t = s) => failed'[q][t] = failed[q][t]
<1>1. pc \in [Pipeline -> [Step -> Locations]] /\ failed \in [Pipeline -> [Step -> BOOLEAN]]
  BY DEF PlainType
<1>2. pc' = [pc EXCEPT ![p][s] = l]
  BY DEF Goes
<1>3. failed' = failed \/ \E err \in BOOLEAN : failed' = [failed EXCEPT ![p][s] = err]
  BY DEF Goes
<1>4. pc' \in [Pipeline -> [Step -> Locations]]
  BY <1>1, <1>2
<1>5. \A q \in Pipeline, t \in Step : pc'[q][t] = IF q = p /\ t = s THEN l ELSE pc[q][t]
  BY <1>1, <1>2
<1>6. CASE failed' = failed
  BY <1>1, <1>4, <1>5, <1>6
<1>7. ASSUME NEW err \in BOOLEAN, failed' = [failed EXCEPT ![p][s] = err]
      PROVE  /\ failed' \in [Pipeline -> [Step -> BOOLEAN]]
             /\ \A q \in Pipeline, t \in Step :
                   ~(q = p /\ t = s) => failed'[q][t] = failed[q][t]
  BY <1>1, <1>7
<1> QED
  BY <1>3, <1>4, <1>5, <1>6, <1>7

\* Every part of exec is such a step.
LEMMA StepGoes ==
  ASSUME PlainType, NEW p \in Pipeline, NEW s \in Step,
         \/ Acquire(p, s) \/ Decide(p, s) \/ StartStep(p, s) \/ Inject(p, s)
         \/ RunReturns(p, s) \/ FinishStep(p, s) \/ Collect(p, s)
  PROVE  /\ pc[p][s] \notin {"blocked", "returned", "done"}
         /\ \E l \in Locations \ {"blocked", "done"} : Goes(p, s, l)
<1>1. conf(p).reportErrs \subseteq BOOLEAN
  BY ConfFacts DEF PlainType
<1>2. \A err \in BOOLEAN : Return(p, s, err) => Goes(p, s, "returned")
  BY DEF Return, Goto, Goes
<1>3. \A l : Goto(p, s, l) /\ UNCHANGED failed => Goes(p, s, l)
  BY DEF Goto, Goes
<1>4. CASE Acquire(p, s)
  BY <1>2, <1>3, <1>4 DEF Acquire, CancelAndReturn, Locations
<1>5. CASE Decide(p, s)
  BY <1>1, <1>2, <1>3, <1>5 DEF Decide, Locations
<1>6. CASE StartStep(p, s)
  BY <1>2, <1>3, <1>6 DEF StartStep, Locations
<1>7. CASE Inject(p, s)
  BY <1>2, <1>3, <1>7 DEF Inject, Locations
<1>8. CASE RunReturns(p, s)
  BY <1>2, <1>3, <1>8 DEF RunReturns, CancelAndReturn, Locations
<1>9. CASE FinishStep(p, s)
  BY <1>1, <1>9 DEF FinishStep, Goto, Goes, Locations
<1>10. CASE Collect(p, s)
  BY <1>2, <1>3, <1>10 DEF Collect, Locations
<1> QED
  BY <1>4, <1>5, <1>6, <1>7, <1>8, <1>9, <1>10

LEMMA StepPlainType ==
  ASSUME PlainType, NEW p \in Pipeline, NEW s \in Step, StepNext(p, s) \/ Publish(p, s)
  PROVE  PlainType'
<1> DEFINE Exec == \/ Acquire(p, s) \/ Decide(p, s) \/ StartStep(p, s) \/ Inject(p, s)
                   \/ RunReturns(p, s) \/ FinishStep(p, s) \/ Collect(p, s)
<1>1. Exec => /\ pc' \in [Pipeline -> [Step -> Locations]]
              /\ failed' \in [Pipeline -> [Step -> BOOLEAN]]
  BY StepGoes, GoesType
<1>2. CASE Acquire(p, s) \/ Decide(p, s) \/ StartStep(p, s) \/ FinishStep(p, s)
  <2>1. UNCHANGED <<plan, pipeVars, result, dataVars, panicked>>
    BY <1>2 DEF Acquire, Decide, StartStep, FinishStep
  <2> QED
    BY <1>1, <1>2, <2>1 DEF PlainType, pipeVars, dataVars
<1>3. CASE Inject(p, s)
  <2> DEFINE d == conf(p).source[s]
             value == IF d = s THEN Nobody ELSE Resolved(p, d)
  <2>1. Resolved(p, d) \in Pipeline \cup NoOutput
    <3>1. d \in Step
      BY ConfFacts DEF PlainType
    <3> QED
      BY <3>1 DEF Resolved, PlainType, NoOutput
  <2>2. value \notin NoOutput => value \in Pipeline \cup {Nobody}
    BY <2>1
  <2>3. \/ UNCHANGED <<injected, launched>>
        \/ /\ value \notin NoOutput
           /\ injected' = [injected EXCEPT ![p][s] = value]
           /\ launched' = [launched EXCEPT ![p] = @ \cup {s}]
    BY <1>3 DEF Inject
  <2> HIDE DEF value
  <2>4. injected \in [Pipeline -> [Step -> Pipeline \cup {Nobody}]]
    BY DEF PlainType
  <2>5. injected' \in [Pipeline -> [Step -> Pipeline \cup {Nobody}]]
    BY <2>2, <2>3, <2>4
  <2>6. launched' \in [Pipeline -> SUBSET Step]
    <3>1. launched \in [Pipeline -> SUBSET Step]
      BY DEF PlainType
    <3> QED
      BY <2>3, <3>1
  <2>7. UNCHANGED <<plan, pipeVars, result, published, outputs, panicked>>
    BY <1>3 DEF Inject
  <2> QED
    BY <1>1, <1>3, <2>5, <2>6, <2>7 DEF PlainType, pipeVars
<1>4. CASE RunReturns(p, s)
  <2>1. result' = result \/ \E r \in Outcomes : result' = [result EXCEPT ![p][s] = r]
    BY <1>4 DEF RunReturns
  <2>2. UNCHANGED <<plan, pipeVars, dataVars, panicked>>
    BY <1>4 DEF RunReturns
  <2>3. result' \in [Pipeline -> [Step -> Outcomes \cup {"none"}]]
    <3>1. result \in [Pipeline -> [Step -> Outcomes \cup {"none"}]]
      BY DEF PlainType
    <3>2. ASSUME NEW r \in Outcomes, result' = [result EXCEPT ![p][s] = r]
          PROVE  result' \in [Pipeline -> [Step -> Outcomes \cup {"none"}]]
      BY <3>1, <3>2
    <3> QED
      BY <2>1, <3>1, <3>2
  <2> QED
    BY <1>1, <1>4, <2>2, <2>3 DEF PlainType, pipeVars, dataVars
<1>5. CASE Collect(p, s)
  <2>1. outputs' = outputs
        \/ outputs' = [outputs EXCEPT ![s] = IF s \in published[p] THEN p ELSE "empty"]
    BY <1>5 DEF Collect
  <2>2. UNCHANGED <<plan, pipeVars, result, published, injected, launched, panicked>>
    BY <1>5 DEF Collect
  <2> QED
    BY <1>1, <1>5, <2>1, <2>2 DEF PlainType, pipeVars, NoOutput
<1>6. CASE Complete(p, s)
  <2>1. UNCHANGED <<plan, phase, failed, result, dataVars, panicked>>
    BY <1>6 DEF Complete
  <2>2. ctxDone' \in [Pipeline -> BOOLEAN] /\ dagErr' \in [Pipeline -> BOOLEAN]
    BY <1>6 DEF PlainType, Complete
  <2>3. pc' \in [Pipeline -> [Step -> Locations]]
    BY <1>6 DEF PlainType, Complete, Locations
  <2> QED
    BY <2>1, <2>2, <2>3 DEF PlainType, dataVars
<1>7. CASE FindPanics(p, s)
  BY <1>7 DEF PlainType, FindPanics, pipeVars, stepVars, dataVars
<1>8. CASE Publish(p, s)
  <2>1. published' \in [Pipeline -> SUBSET Step]
    <3>1. published \in [Pipeline -> SUBSET Step]
      BY DEF PlainType
    <3> QED
      BY <1>8, <3>1 DEF Publish
  <2> QED
    BY <1>8, <2>1 DEF PlainType, Publish, pipeVars, stepVars
<1> QED
  BY <1>2, <1>3, <1>4, <1>5, <1>6, <1>7, <1>8 DEF StepNext

LEMMA NextType ==
  ASSUME PlainType, StateType, \A p \in Pipeline : GraphInv(p) /\ LaunchInv(p), [Next]_vars
  PROVE  PlainType' /\ StateType'
<1>1. ASSUME NEW p \in Pipeline,
             Setup(p) \/ CancelContext(p) \/ FinishExec(p) \/ CleanUp(p)
      PROVE  PlainType'
  <2>1. CASE Setup(p)
    <3>1. pc \in [Pipeline -> [Step -> Locations]]
      BY DEF PlainType
    <3>2. pc' \in [Pipeline -> [Step -> Locations]]
      BY <2>1, <3>1 DEF Setup, Locations
    <3>3. phase' \in [Pipeline -> {"setup", "running", "closing", "done"}]
      BY <2>1 DEF Setup, PlainType
    <3> QED
      BY <2>1, <3>2, <3>3 DEF PlainType, Setup, dataVars
  <2>2. CASE CancelContext(p) \/ FinishExec(p)
    BY <2>2 DEF PlainType, CancelContext, FinishExec, stepVars, dataVars
  <2>3. CASE CleanUp(p)
    <3>1. published' \in [Pipeline -> SUBSET Step]
      BY <2>3 DEF CleanUp, PlainType
    <3> QED
      BY <2>3, <3>1 DEF PlainType, CleanUp, stepVars
  <2> QED
    BY <1>1, <2>1, <2>2, <2>3
<1>2. CASE UNCHANGED vars
  BY <1>2, StateKept DEF vars, PlainType, pipeVars, stepVars, dataVars
<1> QED
  BY <1>1, <1>2, StepPlainType, StepStateType, PipelineStateType DEF Next

-----------------------------------------------------------------------------
(* What a step leaves alone *)

\* Nothing of pipeline q changes, and no output of q appears.
Kept(q) ==
    /\ plan' = plan /\ phase'[q] = phase[q] /\ ctxDone'[q] = ctxDone[q]
    /\ state'[q] = state[q] /\ pc'[q] = pc[q] /\ failed'[q] = failed[q]
    /\ dagErr'[q] = dagErr[q] /\ result'[q] = result[q] /\ published'[q] = published[q]
    /\ injected'[q] = injected[q] /\ launched'[q] = launched[q]
    /\ \A d \in Step : outputs'[d] = q => outputs[d] = q

LEMMA KeptInv ==
  ASSUME NEW q \in Pipeline, PInv(q), Kept(q)
  PROVE  PInv(q)'
<1>1. conf(q)' = conf(q) /\ Visible(conf(q))' = Visible(conf(q)) /\ Ignored(q)' = Ignored(q)
  BY DEF Kept, conf, Visible, Ignored
<1>2. GraphInv(q)'
  BY <1>1 DEF PInv, GraphInv, Kept
<1>3. LaunchInv(q)'
  BY <1>1 DEF PInv, LaunchInv, Kept
<1>4. StatusInv(q)'
  BY <1>1 DEF PInv, StatusInv, Settled, Kept
<1>5. DepsInv(q)'
  BY <1>1 DEF PInv, DepsInv, Fine, Started, Kept
<1>6. SkipInv(q)'
  BY <1>1 DEF PInv, SkipInv, NonePending, Started, Kept
<1>7. OutputInv(q)'
  BY <1>1 DEF PInv, OutputInv, Traced, Kept
<1>8. EndInv(q)'
  BY <1>1 DEF PInv, EndInv, Kept
<1> QED
  BY <1>2, <1>3, <1>4, <1>5, <1>6, <1>7, <1>8 DEF PInv

LEMMA OthersKept ==
  ASSUME PlainType, StateType, NEW p \in Pipeline,
         \/ Setup(p) \/ CancelContext(p) \/ FinishExec(p) \/ CleanUp(p)
         \/ \E s \in Step : StepNext(p, s) \/ Publish(p, s)
  PROVE  \A q \in Pipeline \ {p} : Kept(q)
<1>1. DOMAIN state = Pipeline
  BY DEF StateType
<1>2. CASE Setup(p) \/ CancelContext(p) \/ FinishExec(p) \/ CleanUp(p)
  BY <1>1, <1>2 DEF PlainType, Kept, Setup, CancelContext, FinishExec, CleanUp, pipeVars,
                    stepVars, dataVars
<1>3. ASSUME NEW s \in Step, StepNext(p, s) \/ Publish(p, s)
      PROVE  \A q \in Pipeline \ {p} : Kept(q)
  <2>1. CASE Acquire(p, s) \/ Decide(p, s) \/ StartStep(p, s)
    BY <1>1, <2>1 DEF PlainType, Kept, Acquire, CancelAndReturn, Decide, StartStep, Return,
                      Goto, pipeVars, dataVars
  <2>2. CASE Inject(p, s)
    <3>1. \A q \in Pipeline \ {p} :
              state'[q] = state[q] /\ pc'[q] = pc[q] /\ failed'[q] = failed[q]
      <4>1. state' = state \/ state' = [state EXCEPT ![p] = Upd(p, Fail(@, s))]
        BY <2>2 DEF Inject
      <4>2. /\ \E l : pc' = [pc EXCEPT ![p][s] = l]
            /\ failed' = failed \/ \E err : failed' = [failed EXCEPT ![p][s] = err]
        BY <2>2 DEF Inject, Return, Goto
      <4>3. pc = [q \in Pipeline |-> pc[q]] /\ failed = [q \in Pipeline |-> failed[q]]
        BY DEF PlainType
      <4> QED
        BY <1>1, <4>1, <4>2, <4>3
    <3>2. \A q \in Pipeline \ {p} : injected'[q] = injected[q] /\ launched'[q] = launched[q]
      <4>1. \/ UNCHANGED <<injected, launched>>
            \/ \E v : /\ injected' = [injected EXCEPT ![p][s] = v]
                     /\ launched' = [launched EXCEPT ![p] = @ \cup {s}]
        BY <2>2 DEF Inject
      <4>2. injected = [q \in Pipeline |-> injected[q]] /\ launched = [q \in Pipeline |-> launched[q]]
        BY DEF PlainType
      <4> QED
        BY <4>1, <4>2
    <3> QED
      BY <2>2, <3>1, <3>2 DEF Kept, Inject, pipeVars
  <2>3. CASE RunReturns(p, s)
    BY <1>1, <2>3 DEF PlainType, Kept, RunReturns, CancelAndReturn, Return, Goto, pipeVars,
                      dataVars
  <2>4. CASE FinishStep(p, s)
    BY <1>1, <2>4 DEF PlainType, Kept, FinishStep, Goto, pipeVars, dataVars
  <2>5. CASE Collect(p, s)
    BY <1>1, <2>5, NobodyAssumption DEF PlainType, Kept, Collect, Return, Goto, pipeVars
  <2>6. CASE Complete(p, s)
    BY <1>1, <2>6 DEF PlainType, Kept, Complete, dataVars
  <2>7. CASE FindPanics(p, s) \/ Publish(p, s)
    BY <1>1, <2>7 DEF PlainType, Kept, FindPanics, Publish, pipeVars, stepVars, dataVars
  <2> QED
    BY <1>3, <2>1, <2>2, <2>3, <2>4, <2>5, <2>6, <2>7 DEF StepNext
<1> QED
  BY <1>2, <1>3

-----------------------------------------------------------------------------
(* What one step of the exec of s leaves so, part by part of the invariant.  *)
(* Status(p, v) and Status(p, v)' are the status of v before and after it.   *)

Status(p, v) == state[p].step[v]

Exec(p, s) ==
    \/ Acquire(p, s) \/ Decide(p, s) \/ StartStep(p, s) \/ Inject(p, s)
    \/ RunReturns(p, s) \/ FinishStep(p, s) \/ Collect(p, s)

\* Only what belongs to s changes.
Frame(p, s) ==
    /\ plan' = plan /\ phase'[p] = phase[p] /\ ctxDone'[p] = ctxDone[p]
    /\ dagErr'[p] = dagErr[p] /\ published'[p] = published[p]
    /\ pc[p][s] \notin {"blocked", "returned", "done"} /\ pc'[p][s] \notin {"blocked", "done"}
    /\ \A t \in Step \ {s} :
          /\ pc'[p][t] = pc[p][t] /\ failed'[p][t] = failed[p][t]
          /\ result'[p][t] = result[p][t] /\ injected'[p][t] = injected[p][t]
          /\ t \in launched'[p] <=> t \in launched[p]
          /\ outputs'[t] = outputs[t]

LEMMA ExecFrame ==
  ASSUME PlainType, NEW p \in Pipeline, NEW s \in Step, Exec(p, s)
  PROVE  Frame(p, s)
<1>1. /\ pc[p][s] \notin {"blocked", "returned", "done"}
      /\ \E l \in Locations \ {"blocked", "done"} : Goes(p, s, l)
  BY StepGoes DEF Exec
<1>2. /\ pc'[p][s] \notin {"blocked", "done"}
      /\ \A t \in Step \ {s} : pc'[p][t] = pc[p][t] /\ failed'[p][t] = failed[p][t]
  BY <1>1, GoesType
<1>3. UNCHANGED <<plan, pipeVars, published>>
  BY DEF Exec, Acquire, Decide, StartStep, Inject, RunReturns, FinishStep, Collect, dataVars
<1>4. result' = result \/ \E r : result' = [result EXCEPT ![p][s] = r]
  BY DEF Exec, Acquire, Decide, StartStep, Inject, RunReturns, FinishStep, Collect
<1>5. outputs' = outputs \/ \E v : outputs' = [outputs EXCEPT ![s] = v]
  BY DEF Exec, Acquire, Decide, StartStep, Inject, RunReturns, FinishStep, Collect, dataVars
<1>6. \/ UNCHANGED <<injected, launched>>
      \/ \E v : /\ injected' = [injected EXCEPT ![p][s] = v]
                /\ launched' = [launched EXCEPT ![p] = @ \cup {s}]
  BY DEF Exec, Acquire, Decide, StartStep, Inject, RunReturns, FinishStep, Collect, dataVars
<1>7. \A t \in Step \ {s} : result'[p][t] = result[p][t]
  <2>1. result \in [Pipeline -> [Step -> Outcomes \cup {"none"}]]
    BY DEF PlainType
  <2> QED
    BY <1>4, <2>1
<1>8. \A t \in Step \ {s} : outputs'[t] = outputs[t]
  BY <1>5 DEF PlainType
<1>9. \A t \in Step \ {s} : /\ injected'[p][t] = injected[p][t]
                            /\ t \in launched'[p] <=> t \in launched[p]
  <2>1. /\ injected \in [Pipeline -> [Step -> Pipeline \cup {Nobody}]]
        /\ launched \in [Pipeline -> SUBSET Step]
    BY DEF PlainType
  <2> QED
    BY <1>6, <2>1
<1> QED
  BY <1>1, <1>2, <1>3, <1>7, <1>8, <1>9 DEF Frame, pipeVars

LEMMA FrameConf ==
  ASSUME NEW p \in Pipeline, plan' = plan
  PROVE  conf(p)' = conf(p) /\ Visible(conf(p))' = Visible(conf(p)) /\ Ignored(p)' = Ignored(p)
BY DEF conf, Visible, Ignored

\* The graph runs while a goroutine does.
LEMMA FrameRuns ==
  ASSUME PlainType, NEW p \in Pipeline, NEW s \in Step, GraphInv(p),
         pc[p][s] \notin {"blocked", "done"}
  PROVE  phase[p] = "running"
<1>1. phase[p] \in {"setup", "running", "closing", "done"}
  BY DEF PlainType
<1> QED
  BY <1>1 DEF GraphInv

LEMMA FrameGraph ==
  ASSUME PlainType, NEW p \in Pipeline, NEW s \in Step, GraphInv(p), Frame(p, s)
  PROVE  GraphInv(p)'
<1>1. phase[p] = "running"
  BY FrameRuns DEF Frame
<1>2. \A t \in Step : conf(p).deps[t] \subseteq Step
  BY ConfFacts DEF PlainType
<1>3. \A t \in Step : pc[p][t] # "blocked" =>
          /\ t \in conf(p).steps
          /\ \A d \in conf(p).deps[t] : d # s /\ pc[p][d] = "done" /\ ~failed[p][d]
  BY DEF GraphInv, Frame
<1>4. \A t \in Step : pc'[p][t] # "blocked" => pc[p][t] # "blocked"
  BY DEF Frame
<1>5. \A t \in Step : pc'[p][t] = "done" => t # s
  BY DEF Frame
<1>6. \A t \in Step : pc'[p][t] # "blocked" =>
          /\ t \in conf(p).steps
          /\ \A d \in conf(p).deps[t] : pc'[p][d] = "done" /\ ~failed'[p][d]
  BY <1>2, <1>3, <1>4 DEF Frame
<1>7. \A t \in Step : pc'[p][t] = "done" /\ failed'[p][t] => dagErr'[p]
  BY <1>5 DEF Frame, GraphInv
<1>8. ~dagErr[p] => \A t \in conf(p).steps : pc[p][t] = "blocked" =>
                        \E d \in conf(p).deps[t] : pc[p][d] # "done"
  BY <1>1 DEF GraphInv
<1>9. conf(p).steps \subseteq Step
  BY ConfFacts DEF PlainType
<1>10. ~dagErr'[p] => \A t \in conf(p).steps : pc'[p][t] = "blocked" =>
                        \E d \in conf(p).deps[t] : pc'[p][d] # "done"
  BY <1>2, <1>5, <1>8, <1>9 DEF Frame
<1> QED
  BY <1>1, <1>6, <1>7, <1>10, FrameConf DEF Frame, GraphInv

LEMMA FrameLaunch ==
  ASSUME PlainType, NEW p \in Pipeline, NEW s \in Step, GraphInv(p), LaunchInv(p), Frame(p, s),
         pc'[p][s] \in {"starting", "injecting"} => conf(p).run[s] # "never",
         pc'[p][s] \in Launched => s \in launched'[p] \ conf(p).detached,
         s \in launched'[p] => s \in Visible(conf(p)) /\ pc'[p][s] \in Launched \cup Over,
         s \in launched[p] => s \in launched'[p],
         pc'[p][s] \in NotRun => result'[p][s] = "none",
         pc'[p][s] = "collecting" => result'[p][s] \in ZeroExits /\ conf(p).transport = "file",
         /\ conf(p).run[s] = "always" /\ pc'[p][s] \in Over
         /\ ~failed'[p][s] /\ ~ctxDone[p]
         => s \in launched'[p]
  PROVE  LaunchInv(p)'
<1>1. \A t \in Step \ {s} :
          /\ pc'[p][t] \in {"starting", "injecting"} => conf(p).run[t] # "never"
          /\ pc'[p][t] \in Launched => t \in launched'[p] \ conf(p).detached
          /\ t \in launched'[p] => t \in Visible(conf(p)) /\ pc'[p][t] \in Launched \cup Over
          /\ t \in published'[p] => t \in launched'[p] \ conf(p).detached
          /\ pc'[p][t] \in NotRun => result'[p][t] = "none"
          /\ pc'[p][t] = "collecting" =>
                result'[p][t] \in ZeroExits /\ conf(p).transport = "file"
          /\ /\ conf(p).run[t] = "always" /\ pc'[p][t] \in Over
             /\ ~failed'[p][t] /\ ~ctxDone'[p]
             => t \in launched'[p]
  BY DEF LaunchInv, Frame
<1>2. s \in published'[p] => s \in launched'[p] \ conf(p).detached
  BY DEF LaunchInv, Frame
<1>3. ctxDone'[p] = ctxDone[p]
  BY DEF Frame
<1> QED
  BY <1>1, <1>2, <1>3, FrameConf DEF LaunchInv, Frame

LEMMA FrameStatus ==
  ASSUME PlainType, NEW p \in Pipeline, NEW s \in Step, GraphInv(p), StatusInv(p), Frame(p, s),
         state'[p].stage \in {state[p].stage, "error", "failure", "killed"},
         state'[p].stage = "killed" =>
            \/ state[p].stage = "killed" \/ ctxDone[p]
            \/ \E v \in Visible(conf(p)) : Status(p, v)' = "killed",
         \A v \in Visible(conf(p)) : Status(p, v)' = "killed" => Status(p, v) = "killed" \/ ctxDone[p],
         \A v \in Visible(conf(p)) \ {s} : \/ Status(p, v)' = Status(p, v)
                                           \/ Status(p, v) = "pending" /\ Status(p, v)' = "skipped"
                                           \/ Status(p, v) = "running" /\ state'[p].stage # "running",
         s \in launched[p] => s \in launched'[p],
         s \in Visible(conf(p)) =>
            /\ pc'[p][s] \in Ready => Status(p, s)' \in {"pending", "skipped"}
            /\ state'[p].stage = "running" =>
                  /\ ~Bad(state'[p].step, s, Ignored(p))
                  /\ pc'[p][s] \notin Ready => Status(p, s)' # "pending"
                  /\ pc'[p][s] = "collecting" \/ (pc'[p][s] \in Over /\ ~failed'[p][s])
                     => Settled(p, s)'
  PROVE  StatusInv(p)'
<1>1. phase[p] = "running" /\ phase'[p] = "running"
  BY FrameRuns DEF Frame
<1>2. state'[p].stage # "success"
  BY <1>1 DEF StatusInv
<1>3. \/ state'[p].stage = "killed"
      \/ \E v \in Visible(conf(p)) : state'[p].step[v] = "killed"
      => ctxDone'[p]
  BY DEF StatusInv, Status, Frame
<1>4. state'[p].stage = "running" => state[p].stage = "running"
  OBVIOUS
<1>5. Visible(conf(p)) \subseteq Step
  BY ConfFacts DEF PlainType
<1>6. ASSUME NEW v \in Visible(conf(p)), v # s
      PROVE  /\ pc'[p][v] \in Ready => Status(p, v)' \in {"pending", "skipped"}
             /\ state'[p].stage = "running" =>
                  /\ ~Bad(state'[p].step, v, Ignored(p))
                  /\ pc'[p][v] \notin Ready => Status(p, v)' # "pending"
                  /\ pc'[p][v] = "collecting" \/ (pc'[p][v] \in Over /\ ~failed'[p][v])
                     => Settled(p, v)'
  <2>1. /\ pc'[p][v] = pc[p][v] /\ failed'[p][v] = failed[p][v]
        /\ v \in launched'[p] <=> v \in launched[p]
    BY <1>5, <1>6 DEF Frame
  <2>2. pc'[p][v] \in Ready => Status(p, v)' \in {"pending", "skipped"}
    BY <1>6, <2>1 DEF StatusInv, Status
  <2>3. ASSUME state'[p].stage = "running"
        PROVE  /\ ~Bad(state'[p].step, v, Ignored(p))
               /\ pc'[p][v] \notin Ready => Status(p, v)' # "pending"
               /\ pc'[p][v] = "collecting" \/ (pc'[p][v] \in Over /\ ~failed'[p][v])
                  => Settled(p, v)'
    <3>1. \/ Status(p, v)' = Status(p, v)
          \/ Status(p, v) = "pending" /\ Status(p, v)' = "skipped"
      BY <1>6, <2>3
    <3>2. /\ ~Bad(state[p].step, v, Ignored(p))
          /\ pc[p][v] \notin Ready => Status(p, v) # "pending"
          /\ pc[p][v] = "collecting" \/ (pc[p][v] \in Over /\ ~failed[p][v]) => Settled(p, v)
      BY <1>4, <2>3 DEF StatusInv, Status
    <3>3. conf(p)' = conf(p)
      BY FrameConf DEF Frame
    <3> QED
      BY <2>1, <3>1, <3>2, <3>3 DEF Bad, Settled, Status
  <2> QED
    BY <2>2, <2>3
<1>7. plan' = plan
  BY DEF Frame
<1> QED
  BY <1>2, <1>3, <1>6, <1>7, FrameConf DEF StatusInv, Status

-----------------------------------------------------------------------------
(* The outcomes of exec's parts, as they show in the record and beside it *)

Rest(p, s) ==
    /\ result'[p][s] = result[p][s] /\ injected'[p][s] = injected[p][s]
    /\ s \in launched'[p] <=> s \in launched[p]
    /\ outputs'[s] = outputs[s]

Returns(p, s, err) == pc'[p][s] = "returned" /\ failed'[p][s] = err

SameRecord(p) ==
    /\ state'[p].stage = state[p].stage
    /\ \A v \in Visible(conf(p)) : Status(p, v)' = Status(p, v)

\* The stage is failed by a bad step.
BadStage(p) ==
    /\ state'[p].stage \in {"killed", "error", "failure"}
    /\ state'[p].stage = "killed" => \E v \in Visible(conf(p)) : Status(p, v)' = "killed"

Cancels(p, s) ==
    /\ pc[p][s] \in {"called", "running"} /\ ctxDone[p] /\ Returns(p, s, FALSE)
    /\ state'[p].stage \in {"killed", "error", "failure"}
    /\ \A v \in Visible(conf(p)) :
          Status(p, v)' = CASE Status(p, v) = "pending" -> "skipped"
                            [] Status(p, v) = "running" -> "killed"
                            [] OTHER -> Status(p, v)
    /\ Rest(p, s)

Grants(p, s) ==
    /\ pc[p][s] = "called" /\ pc'[p][s] = "deciding" /\ SameRecord(p) /\ Rest(p, s)

Leaves(p, s) ==
    /\ pc[p][s] = "deciding" /\ Returns(p, s, FALSE) /\ SameRecord(p) /\ Rest(p, s)
    /\ \/ state[p].stage = "killed" \/ conf(p).run[s] = "never"
       \/ /\ conf(p).run[s] # "always"
          /\ s \in Visible(conf(p)) => Status(p, s) \notin {"pending", "running"}

Skips(p, s) ==
    /\ pc[p][s] = "deciding" /\ pc'[p][s] = "returned" /\ Rest(p, s)
    /\ conf(p).run[s] \in {"on-success", "on-failure"}
    /\ state'[p].stage = state[p].stage
    /\ \A v \in Visible(conf(p)) :
          Status(p, v)' = IF v = s /\ Status(p, v) = "pending" THEN "skipped" ELSE Status(p, v)

Chooses(p, s) ==
    /\ pc[p][s] = "deciding" /\ pc'[p][s] = "starting" /\ SameRecord(p) /\ Rest(p, s)
    /\ conf(p).run[s] # "never"
    /\ conf(p).run[s] = "on-success" =>
          /\ state[p].stage \notin {"killed", "error", "failure"}
          /\ Status(p, s) \in {"pending", "running"}

Starts(p, s) ==
    /\ pc[p][s] = "starting" /\ Rest(p, s)
    /\ pc'[p][s] = "injecting" \/ Returns(p, s, TRUE)
    /\ state'[p].stage = state[p].stage
    /\ \A v \in Visible(conf(p)) :
          Status(p, v)' = IF v = s /\ Status(p, v) = "pending" THEN "running" ELSE Status(p, v)

Fails(p, s) ==
    /\ pc[p][s] \in {"injecting", "collecting"} /\ Returns(p, s, TRUE) /\ Rest(p, s)
    /\ BadStage(p)
    /\ \A v \in Visible(conf(p)) :
          Status(p, v)' = IF v = s THEN "error" ELSE Status(p, v)

Launches(p, s) ==
    LET d == conf(p).source[s]
        value == IF d = s THEN Nobody ELSE Resolved(p, d)
    IN  /\ pc[p][s] = "injecting" /\ SameRecord(p)
        /\ IF s \in conf(p).detached THEN Returns(p, s, FALSE) ELSE pc'[p][s] = "running"
        /\ result'[p][s] = result[p][s] /\ outputs'[s] = outputs[s]
        /\ s \in launched'[p] /\ injected'[p][s] = value /\ value \notin NoOutput

Ends(p, s) ==
    /\ pc[p][s] = "running" /\ pc'[p][s] = "ended" /\ SameRecord(p)
    /\ injected'[p][s] = injected[p][s] /\ outputs'[s] = outputs[s]
    /\ s \in launched'[p] <=> s \in launched[p]

Finishes(p, s) ==
    /\ pc[p][s] = "ended" /\ Rest(p, s)
    /\ pc'[p][s] = IF Collects(p, result[p][s]) THEN "collecting" ELSE "returned"
    /\ \/ BadStage(p)
       \/ /\ state'[p].stage = state[p].stage
          /\ \A v \in Visible(conf(p)) : ~Bad(state'[p].step, v, Ignored(p))
          /\ result[p][s] # "error"
    /\ \A v \in Visible(conf(p)) \ {s} : Status(p, v)' =
          IF result[p][s] \in NeutralExits /\ Status(p, v) = "pending"
          THEN "skipped" ELSE Status(p, v)
    /\ \/ result[p][s] = "error" /\ Status(p, s)' = "error"
       \/ /\ Status(p, s) \in {"pending", "running"}
          /\ Status(p, s)' \in {"success", "failure"}
          /\ Status(p, s)' = "success" => result[p][s] \in {"exit 0", "exit 78"}
       \/ Status(p, s) \notin {"pending", "running"} /\ Status(p, s)' = Status(p, s)

Keeps(p, s) ==
    /\ pc[p][s] = "collecting" /\ pc'[p][s] = "returned" /\ SameRecord(p)
    /\ failed'[p][s] = failed[p][s] /\ result'[p][s] = result[p][s]
    /\ injected'[p][s] = injected[p][s]
    /\ s \in launched'[p] <=> s \in launched[p]

\* The record of one pipeline is replaced.
LEMMA NewRecord ==
  ASSUME StateType, plan' = plan, NEW p \in Pipeline, NEW st \in Stat(Visible(conf(p))),
         state' = [state EXCEPT ![p] = st]
  PROVE  state'[p] = st
BY DEF StateType

\* The fields of s after Goes.
LEMMA At ==
  ASSUME PlainType, NEW p \in Pipeline, NEW s \in Step, NEW l \in Locations,
         NEW err \in BOOLEAN
  PROVE  /\ Goto(p, s, l) => pc'[p][s] = l
         /\ Return(p, s, err) => Returns(p, s, err)
<1>1. pc \in [Pipeline -> [Step -> Locations]] /\ failed \in [Pipeline -> [Step -> BOOLEAN]]
  BY DEF PlainType
<1>2. \A m \in Locations : Goto(p, s, m) => pc'[p][s] = m
  BY <1>1 DEF Goto
<1>3. Return(p, s, err) => failed'[p][s] = err
  BY <1>1 DEF Return
<1> QED
  BY <1>2, <1>3 DEF Return, Returns, Locations

LEMMA AcquireEffect ==
  ASSUME PlainType, StateType, NEW p \in Pipeline, NEW s \in Step, Acquire(p, s)
  PROVE  Cancels(p, s) \/ Grants(p, s)
<1>1. pc[p][s] = "called" /\ UNCHANGED <<plan, pipeVars, result, dataVars, panicked>>
  BY DEF Acquire
<1>2. plan \in Plans /\ state[p] \in Stat(Visible(conf(p)))
  BY DEF PlainType, StateType
<1>3. Rest(p, s)
  BY <1>1 DEF Rest, dataVars
<1>4. CASE CancelAndReturn(p, s)
  <2>1. state'[p] = Upd(p, Cancel(state[p]))
    BY <1>1, <1>2, <1>4, CancelUpd, NewRecord DEF CancelAndReturn
  <2>2. Returns(p, s, FALSE) /\ ctxDone[p]
    BY <1>4, At DEF CancelAndReturn, Locations
  <2> QED
    BY <1>1, <1>2, <1>3, <2>1, <2>2, CancelUpd DEF Cancels, Status
<1>5. CASE Goto(p, s, "deciding") /\ state' = state
  BY <1>1, <1>3, <1>5, At DEF Grants, SameRecord, Locations, Status
<1> QED
  BY <1>4, <1>5 DEF Acquire

LEMMA DecideEffect ==
  ASSUME PlainType, StateType, NEW p \in Pipeline, NEW s \in Step, GraphInv(p), Decide(p, s)
  PROVE  Leaves(p, s) \/ Skips(p, s) \/ Chooses(p, s)
<1> DEFINE st     == state[p]
           policy == conf(p).run[s]
           quiet  == Cancelled(st) \/ policy = "never"
           skips  == \/ policy = "on-failure" /\ ~Failed(st)
                     \/ policy = "on-success" /\ Failed(st)
<1>1. pc[p][s] = "deciding" /\ UNCHANGED <<plan, pipeVars, result, dataVars, panicked>>
  BY DEF Decide
<1>2. st \in Stat(Visible(conf(p)))
  BY DEF StateType
<1>3. Rest(p, s)
  BY <1>1 DEF Rest, dataVars
<1>4. policy \in RunPolicy /\ conf(p).reportErrs \subseteq BOOLEAN
  BY ConfFacts DEF PlainType
<1>5. s \in conf(p).steps
  BY <1>1 DEF GraphInv
<1>6. \A err \in BOOLEAN : Return(p, s, err) => Returns(p, s, err)
  BY At DEF Locations
<1>7. CASE quiet /\ Return(p, s, FALSE) /\ state' = state
  BY <1>1, <1>3, <1>6, <1>7 DEF Leaves, SameRecord, Cancelled, Status
<1>8. CASE /\ ~quiet /\ skips
           /\ state' = [state EXCEPT ![p] = Skip(@, s)]
           /\ \E reportErr \in conf(p).reportErrs : Return(p, s, reportErr)
  <2>1. s \in Visible(conf(p))
    BY <1>5, <1>8 DEF Visible
  <2>2. state'[p] = Skip(st, s)
    BY <1>1, <1>2, <1>8, <2>1, SkipFacts, NewRecord
  <2>3. pc'[p][s] = "returned"
    BY <1>4, <1>6, <1>8 DEF Returns
  <2> QED
    BY <1>1, <1>2, <1>3, <1>8, <2>1, <2>2, <2>3, SkipFacts DEF Skips, Status
<1>9. CASE ~quiet /\ ~skips /\ Already(policy, st, s) /\ Return(p, s, FALSE) /\ state' = state
  BY <1>1, <1>3, <1>6, <1>9 DEF Leaves, SameRecord, Already, Finished, Status
<1>10. CASE ~quiet /\ ~skips /\ ~Already(policy, st, s) /\ Goto(p, s, "starting") /\ state' = state
  <2>1. pc'[p][s] = "starting"
    BY <1>10, At DEF Locations
  <2> QED
    BY <1>1, <1>3, <1>10, <2>1 DEF Chooses, SameRecord, Already, Finished, Failed, Status
<1> QED
  BY <1>7, <1>8, <1>9, <1>10 DEF Decide

LEMMA StartEffect ==
  ASSUME PlainType, StateType, NEW p \in Pipeline, NEW s \in Visible(conf(p)), StartStep(p, s)
  PROVE  Starts(p, s)
<1>1. pc[p][s] = "starting" /\ UNCHANGED <<plan, pipeVars, result, dataVars, panicked>>
  BY DEF StartStep
<1>2. s \in Step /\ state[p] \in Stat(Visible(conf(p)))
  BY ConfFacts DEF StateType, PlainType
<1>3. Rest(p, s)
  BY <1>1 DEF Rest, dataVars
<1>4. state'[p] = Start(state[p], s)
  BY <1>1, <1>2, StartFacts, NewRecord DEF StartStep
<1>5. pc'[p][s] = "injecting" \/ Returns(p, s, TRUE)
  BY <1>2, At DEF StartStep, Locations
<1>6. /\ state'[p].stage = state[p].stage
      /\ \A v \in Visible(conf(p)) : state'[p].step[v] =
            IF v = s /\ state[p].step[v] = "pending" THEN "running" ELSE state[p].step[v]
  BY <1>2, <1>4, StartFacts
<1> QED
  BY <1>1, <1>3, <1>5, <1>6 DEF Starts, Status

LEMMA FailEffect ==
  ASSUME PlainType, StateType, NEW p \in Pipeline, NEW s \in Visible(conf(p)),
         pc[p][s] \in {"injecting", "collecting"}, plan' = plan, Rest(p, s), Return(p, s, TRUE),
         state' = [state EXCEPT ![p] = Upd(p, Fail(state[p], s))]
  PROVE  Fails(p, s)
<1>1. s \in Step /\ state[p] \in Stat(Visible(conf(p))) /\ plan \in Plans
  BY ConfFacts DEF StateType, PlainType
<1> DEFINE u == Upd(p, Fail(state[p], s))
<1>2. /\ u \in Stat(Visible(conf(p)))
      /\ u.stage \in {"killed", "error", "failure"}
      /\ u.stage = "killed" => \E v \in Visible(conf(p)) : u.step[v] = "killed"
      /\ \A v \in Visible(conf(p)) :
            u.step[v] = IF v = s THEN "error" ELSE state[p].step[v]
  BY <1>1, FailUpd
<1> HIDE DEF u
<1>3. state'[p] = u
  BY <1>2, NewRecord DEF u
<1>4. Returns(p, s, TRUE)
  BY <1>1, At DEF Locations
<1> QED
  BY <1>2, <1>3, <1>4 DEF Fails, BadStage, Status

LEMMA InjectEffect ==
  ASSUME PlainType, StateType, NEW p \in Pipeline, NEW s \in Visible(conf(p)), Inject(p, s)
  PROVE  Fails(p, s) \/ Launches(p, s)
<1> DEFINE d     == conf(p).source[s]
           value == IF d = s THEN Nobody ELSE Resolved(p, d)
<1>1. pc[p][s] = "injecting" /\ UNCHANGED <<plan, pipeVars, result, published, outputs, panicked>>
  BY DEF Inject
<1>2. s \in Step
  BY ConfFacts DEF PlainType
<1>3. CASE /\ state' = [state EXCEPT ![p] = Upd(p, Fail(@, s))]
           /\ Return(p, s, TRUE)
           /\ UNCHANGED <<injected, launched>>
  <2>1. Rest(p, s)
    BY <1>1, <1>3 DEF Rest
  <2> QED
    BY <1>1, <1>3, <2>1, FailEffect
<1>4. CASE /\ value \notin NoOutput
           /\ injected' = [injected EXCEPT ![p][s] = value]
           /\ launched' = [launched EXCEPT ![p] = @ \cup {s}]
           /\ IF s \in conf(p).detached
              THEN Return(p, s, FALSE)
              ELSE Goto(p, s, "running") /\ UNCHANGED failed
           /\ UNCHANGED state
  <2>1. IF s \in conf(p).detached THEN Returns(p, s, FALSE) ELSE pc'[p][s] = "running"
    BY <1>2, <1>4, At DEF Locations
  <2>2. s \in launched'[p] /\ injected'[p][s] = value
    <3>1. /\ injected \in [Pipeline -> [Step -> Pipeline \cup {Nobody}]]
          /\ launched \in [Pipeline -> SUBSET Step]
      BY DEF PlainType
    <3> HIDE DEF value
    <3> QED
      BY <1>2, <1>4, <3>1
  <2>3. SameRecord(p)
    BY <1>4, <1>1 DEF SameRecord, Status
  <2> QED
    BY <1>1, <1>4, <2>1, <2>2, <2>3 DEF Launches
<1> QED
  BY <1>3, <1>4 DEF Inject

LEMMA RunEffect ==
  ASSUME PlainType, StateType, NEW p \in Pipeline, NEW s \in Step, RunReturns(p, s)
  PROVE  Cancels(p, s) \/ Ends(p, s)
<1>1. pc[p][s] = "running" /\ UNCHANGED <<plan, pipeVars, dataVars, panicked>>
  BY DEF RunReturns
<1>2. plan \in Plans /\ state[p] \in Stat(Visible(conf(p)))
  BY DEF PlainType, StateType
<1>3. CASE CancelAndReturn(p, s) /\ UNCHANGED result
  <2>1. state'[p] = Upd(p, Cancel(state[p]))
    BY <1>1, <1>2, <1>3, CancelUpd, NewRecord DEF CancelAndReturn
  <2>2. Returns(p, s, FALSE) /\ ctxDone[p]
    BY <1>3, At DEF CancelAndReturn, Locations
  <2>3. Rest(p, s)
    BY <1>1, <1>3 DEF Rest, dataVars
  <2>4. /\ state'[p].stage \in {"killed", "error", "failure"}
        /\ \A v \in Visible(conf(p)) : state'[p].step[v] =
              CASE state[p].step[v] = "pending" -> "skipped"
                [] state[p].step[v] = "running" -> "killed"
                [] OTHER -> state[p].step[v]
    BY <1>2, <2>1, CancelUpd
  <2> QED
    BY <1>1, <2>2, <2>3, <2>4 DEF Cancels, Status
<1>4. CASE Goto(p, s, "ended") /\ UNCHANGED <<state, failed>>
  BY <1>1, <1>4, At DEF Ends, SameRecord, Locations, Status, dataVars
<1> QED
  BY <1>3, <1>4 DEF RunReturns

LEMMA CollectEffect ==
  ASSUME PlainType, StateType, NEW p \in Pipeline, NEW s \in Visible(conf(p)), Collect(p, s)
  PROVE  Fails(p, s) \/ Keeps(p, s)
<1>1. /\ pc[p][s] = "collecting"
      /\ UNCHANGED <<plan, pipeVars, result, published, injected, launched, panicked>>
  BY DEF Collect
<1>2. s \in Step
  BY ConfFacts DEF PlainType
<1>3. CASE /\ state' = [state EXCEPT ![p] = Upd(p, Fail(@, s))]
           /\ Return(p, s, TRUE) /\ UNCHANGED outputs
  <2>1. Rest(p, s)
    BY <1>1, <1>3 DEF Rest
  <2> QED
    BY <1>1, <1>3, <2>1, FailEffect
<1>4. CASE Goto(p, s, "returned") /\ UNCHANGED <<state, failed>>
  BY <1>1, <1>2, <1>4, At DEF Keeps, SameRecord, Locations, Status
<1> QED
  BY <1>3, <1>4 DEF Collect

LEMMA FinishEffect ==
  ASSUME PlainType, StateType, NEW p \in Pipeline, NEW s \in Visible(conf(p)), FinishStep(p, s)
  PROVE  Finishes(p, s)
<1> DEFINE V == Visible(conf(p))
           r == result[p][s]
           code == CASE r = "exit 0" -> 0 [] r = "exit 78" -> 78
                     [] r \in {"oom 0", "oom 78"} -> 137 [] OTHER -> 1
           st == IF r = "error" THEN Upd(p, Fail(state[p], s))
                 ELSE Upd(p, Finish(state[p], s, code))
           n == IF r \in NeutralExits THEN SkipAll(st) ELSE st
<1>1. pc[p][s] = "ended" /\ UNCHANGED <<plan, pipeVars, result, dataVars, panicked>>
  BY DEF FinishStep
<1>2. s \in Step /\ state[p] \in Stat(V) /\ plan \in Plans
  BY ConfFacts DEF StateType, PlainType
<1>3. PICK c \in Nat : \E f :
          /\ c \in {0, 78} => r \in {"exit 0", "exit 78"}
          /\ f = IF r = "error" THEN Upd(p, Fail(state[p], s)) ELSE Upd(p, Finish(state[p], s, c))
          /\ state' = [state EXCEPT ![p] = IF r \in NeutralExits THEN SkipAll(f) ELSE f]
  <2>1. state' = [state EXCEPT ![p] = n]
    BY DEF FinishStep
  <2>2. code \in Nat /\ (code \in {0, 78} => r \in {"exit 0", "exit 78"})
    <3> HIDE DEF r
    <3>1. \/ code = 137
          \/ code = 1
          \/ code = 0 /\ r = "exit 0"
          \/ code = 78 /\ r = "exit 78"
      BY Zenon
    <3> HIDE DEF code
    <3>2. PICK r0, r78 : r0 = "exit 0" /\ r78 = "exit 78"
      OBVIOUS
    <3>3. \/ code = 137 \/ code = 1
          \/ code = 0 /\ r = r0
          \/ code = 78 /\ r = r78
      BY <3>1, <3>2, Zenon
    <3>4. code \in Nat /\ (code \in {0, 78} => r \in {r0, r78})
      BY <3>3
    <3> QED
      BY <3>2, <3>4, Zenon
  <2>3. n = IF r \in NeutralExits THEN SkipAll(st) ELSE st
    OBVIOUS
  <2>4. st = IF r = "error" THEN Upd(p, Fail(state[p], s)) ELSE Upd(p, Finish(state[p], s, code))
    OBVIOUS
  <2> HIDE DEF n, st, code, r
  <2> QED
    BY <2>1, <2>2, <2>3, <2>4
<1>4. PICK f :
          /\ f = IF r = "error" THEN Upd(p, Fail(state[p], s)) ELSE Upd(p, Finish(state[p], s, c))
          /\ state' = [state EXCEPT ![p] = IF r \in NeutralExits THEN SkipAll(f) ELSE f]
  BY <1>3
<1>5. Rest(p, s)
  BY <1>1 DEF Rest, dataVars
<1>6. pc'[p][s] = IF Collects(p, r) THEN "collecting" ELSE "returned"
  <2>1. "collecting" \in Locations /\ "returned" \in Locations
    BY DEF Locations
  <2> QED
    BY <1>2, <2>1, At DEF FinishStep
<1> HIDE DEF n, st, code, r
<1>7. /\ f \in Stat(V)
      /\ \/ /\ f.stage \in {"killed", "error", "failure"}
            /\ f.stage = "killed" => \E v \in V : f.step[v] = "killed"
         \/ /\ r # "error" /\ f.stage = state[p].stage
            /\ \A v \in V : ~Bad(f.step, v, Ignored(p))
      /\ \A v \in V \ {s} : f.step[v] = state[p].step[v]
      /\ \/ r = "error" /\ f.step[s] = "error"
         \/ /\ state[p].step[s] \in {"pending", "running"}
            /\ f.step[s] = IF c \in {0, 78} THEN "success" ELSE "failure"
         \/ state[p].step[s] \notin {"pending", "running"} /\ f.step[s] = state[p].step[s]
  <2>1. CASE r = "error"
    <3> DEFINE u == Upd(p, Fail(state[p], s))
    <3>1. /\ u \in Stat(V)
          /\ u.stage \in {"killed", "error", "failure"}
          /\ u.stage = "killed" => \E v \in V : u.step[v] = "killed"
          /\ \A v \in V : u.step[v] = IF v = s THEN "error" ELSE state[p].step[v]
      BY <1>2, FailUpd
    <3>2. f = u
      BY <1>4, <2>1
    <3> HIDE DEF u
    <3> QED
      BY <2>1, <3>1, <3>2
  <2>2. CASE r # "error"
    <3> DEFINE u == Upd(p, Finish(state[p], s, c))
    <3>1. /\ u \in Stat(V)
          /\ \/ u.stage = state[p].stage /\ \A v \in V : ~Bad(u.step, v, Ignored(p))
             \/ /\ u.stage \in {"killed", "error", "failure"}
                /\ u.stage = "killed" => \E v \in V : u.step[v] = "killed"
          /\ \A v \in V : u.step[v] =
                IF v = s /\ state[p].step[v] \in {"pending", "running"}
                THEN IF c \in {0, 78} THEN "success" ELSE "failure"
                ELSE state[p].step[v]
      BY <1>2, FinishUpd
    <3>2. f = u
      BY <1>4, <2>2
    <3> HIDE DEF u
    <3> QED
      BY <2>2, <3>1, <3>2
  <2> QED
    BY <2>1, <2>2
<1> DEFINE g == IF r \in NeutralExits THEN SkipAll(f) ELSE f
<1>8. /\ g \in Stat(V) /\ g.stage = f.stage
      /\ \A v \in V : g.step[v] =
            IF r \in NeutralExits /\ f.step[v] = "pending" THEN "skipped" ELSE f.step[v]
  <2>1. /\ SkipAll(f) \in Stat(V) /\ SkipAll(f).stage = f.stage
        /\ \A v \in V : SkipAll(f).step[v] =
              IF f.step[v] = "pending" THEN "skipped" ELSE f.step[v]
    BY <1>7, SkipAllFacts
  <2> QED
    BY <1>7, <2>1
<1> HIDE DEF g
<1>9. state'[p] = g
  BY <1>1, <1>4, <1>8, NewRecord DEF g
<1>10. \A v \in V : Bad(g.step, v, Ignored(p)) => Bad(f.step, v, Ignored(p))
  BY <1>8 DEF Bad
<1>11. \/ BadStage(p)
       \/ /\ state'[p].stage = state[p].stage
          /\ \A v \in V : ~Bad(state'[p].step, v, Ignored(p))
          /\ r # "error"
  BY <1>7, <1>8, <1>9, <1>10 DEF BadStage, Status
<1>12. \A v \in V \ {s} : Status(p, v)' =
           IF r \in NeutralExits /\ Status(p, v) = "pending" THEN "skipped" ELSE Status(p, v)
  BY <1>7, <1>8, <1>9 DEF Status
<1>13. \/ r = "error" /\ Status(p, s)' = "error"
       \/ /\ Status(p, s) \in {"pending", "running"}
          /\ Status(p, s)' \in {"success", "failure"}
          /\ Status(p, s)' = "success" => r \in {"exit 0", "exit 78"}
       \/ Status(p, s) \notin {"pending", "running"} /\ Status(p, s)' = Status(p, s)
  BY <1>3, <1>7, <1>8, <1>9 DEF Status
<1> QED
  BY <1>1, <1>5, <1>6, <1>11, <1>12, <1>13 DEF Finishes, r

\* A part of exec has one of these outcomes.
LEMMA ExecEffect ==
  ASSUME PlainType, StateType, NEW p \in Pipeline, NEW s \in Step, GraphInv(p), LaunchInv(p),
         Exec(p, s)
  PROVE  \/ Cancels(p, s) \/ Grants(p, s) \/ Leaves(p, s) \/ Skips(p, s) \/ Chooses(p, s)
         \/ s \in Visible(conf(p)) /\ (Starts(p, s) \/ Fails(p, s) \/ Launches(p, s))
         \/ s \in Visible(conf(p)) /\ (Ends(p, s) \/ Finishes(p, s) \/ Keeps(p, s))
<1>1. pc[p][s] \in Holding \ {"deciding"} => s \in Visible(conf(p))
  BY AtVisible
<1>2. StartStep(p, s) \/ Inject(p, s) \/ RunReturns(p, s) \/ FinishStep(p, s) \/ Collect(p, s)
         => s \in Visible(conf(p))
  BY <1>1 DEF StartStep, Inject, RunReturns, FinishStep, Collect, Holding
<1> QED
  BY <1>2, AcquireEffect, DecideEffect, StartEffect, InjectEffect, RunEffect, FinishEffect,
     CollectEffect DEF Exec

-----------------------------------------------------------------------------
(* The invariant after a part of exec *)

\* Where the dependencies of a step that has been called are.
LEMMA DepsDone ==
  ASSUME PlainType, NEW p \in Pipeline, NEW s \in Step, GraphInv(p), LaunchInv(p), Frame(p, s)
  PROVE  \A t \in Step : Started(p, t) \/ t = s =>
            /\ t \in conf(p).steps
            /\ \A d \in conf(p).deps[t] :
                  d \in Step /\ d # s /\ pc[p][d] = "done" /\ ~failed[p][d]
<1> SUFFICES ASSUME NEW t \in Step, Started(p, t) \/ t = s
             PROVE  /\ t \in conf(p).steps
                    /\ \A d \in conf(p).deps[t] :
                          d \in Step /\ d # s /\ pc[p][d] = "done" /\ ~failed[p][d]
  OBVIOUS
<1>1. pc[p][t] # "blocked"
  BY DEF Started, LaunchInv, Frame, Launched, Over
<1>2. conf(p).deps[t] \subseteq Step
  BY ConfFacts DEF PlainType
<1> QED
  BY <1>1, <1>2 DEF GraphInv, Frame

LEMMA FrameDeps ==
  ASSUME PlainType, NEW p \in Pipeline, NEW s \in Step, GraphInv(p), LaunchInv(p), DepsInv(p),
         Frame(p, s),
         \A v \in Visible(conf(p)) \ {s} :
            Status(p, v) \in {"success", "skipped", "failure"} => Status(p, v)' = Status(p, v),
         Started(p, s)' /\ conf(p).run[s] = "on-success" =>
            \/ Started(p, s)
            \/ \A d \in (conf(p).deps[s] \cap Visible(conf(p))) \ conf(p).detached : Fine(p, d)
  PROVE  DepsInv(p)'
<1>1. \A t \in Step \ {s} : Started(p, t)' => Started(p, t)
  BY DEF Started, Frame
<1>2. ASSUME NEW t \in Step, Started(p, t)', conf(p).run[t] = "on-success",
             NEW d \in (conf(p).deps[t] \cap Visible(conf(p))) \ conf(p).detached
      PROVE  Fine(p, d)'
  <2>1. Started(p, t) \/ t = s
    BY <1>1, <1>2
  <2>2. Fine(p, d)
    BY <1>1, <1>2 DEF DepsInv
  <2>3. d # s
    BY <2>1, DepsDone
  <2>4. Status(p, d)' = Status(p, d)
    BY <1>2, <2>2, <2>3 DEF Fine, Status
  <2>5. Ignored(p)' = Ignored(p)
    BY FrameConf DEF Frame
  <2> QED
    BY <2>2, <2>4, <2>5 DEF Fine, Status
<1> QED
  BY <1>2, FrameConf DEF DepsInv, Frame

LEMMA FrameSkip ==
  ASSUME PlainType, NEW p \in Pipeline, NEW s \in Step, GraphInv(p), LaunchInv(p), SkipInv(p),
         Frame(p, s),
         \A v \in Visible(conf(p)) : Status(p, v)' = "pending" => Status(p, v) = "pending",
         \A v \in Visible(conf(p)) \ {s} :
            /\ Status(p, v)' = "skipped" => Status(p, v) = "skipped" \/ NonePending(p)'
            /\ Status(p, v)' = "success" => Status(p, v) = "success",
         s \in Visible(conf(p)) =>
            /\ pc'[p][s] \notin Over \/ s \in launched'[p] =>
                  (Status(p, s)' = "skipped" => NonePending(p)')
            /\ Status(p, s)' = "success" =>
                  /\ pc'[p][s] \in {"collecting", "returned", "done"}
                  /\ result'[p][s] \in {"exit 0", "exit 78"},
         result'[p][s] = "exit 78" /\ pc'[p][s] \in Over => NonePending(p)',
         Started(p, s)' /\ conf(p).run[s] = "on-success" =>
            \/ Started(p, s)
            \/ \A d \in (conf(p).deps[s] \cap launched[p]) \ (conf(p).detached \cup Ignored(p)) :
                  result[p][d] = "exit 0"
  PROVE  SkipInv(p)'
<1>1. plan' = plan /\ phase[p] = "running" /\ phase'[p] = "running"
  BY FrameRuns DEF Frame
<1>2. Visible(conf(p)) \subseteq Step
  BY ConfFacts DEF PlainType
<1>3. NonePending(p) => NonePending(p)'
  BY <1>1, FrameConf DEF NonePending, Status
<1>4. ASSUME NEW v \in Visible(conf(p)), v # s
      PROVE  /\ pc'[p][v] \notin Over \/ v \in launched'[p] =>
                   (Status(p, v)' = "skipped" => NonePending(p)')
             /\ Status(p, v)' = "success" =>
                   /\ pc'[p][v] \in {"collecting", "returned", "done"}
                   /\ result'[p][v] \in {"exit 0", "exit 78"}
  <2>1. /\ pc'[p][v] = pc[p][v] /\ result'[p][v] = result[p][v]
        /\ v \in launched'[p] <=> v \in launched[p]
    BY <1>2, <1>4 DEF Frame
  <2> QED
    BY <1>1, <1>3, <1>4, <2>1 DEF SkipInv, Status
<1>5. \A v \in Visible(conf(p)) :
          /\ pc'[p][v] \notin Over \/ v \in launched'[p] =>
                (state'[p].step[v] = "skipped" => NonePending(p)')
          /\ phase'[p] \in {"setup", "running"} /\ state'[p].step[v] = "success" =>
                /\ pc'[p][v] \in {"collecting", "returned", "done"}
                /\ result'[p][v] \in {"exit 0", "exit 78"}
  BY <1>4 DEF Status
<1>6. \A t \in Step : result'[p][t] = "exit 78" /\ pc'[p][t] \in Over => NonePending(p)'
  BY <1>3 DEF SkipInv, Frame
<1>7. ASSUME NEW t \in Step, Started(p, t)', conf(p).run[t] = "on-success",
             NEW d \in (conf(p).deps[t] \cap launched'[p]) \ (conf(p).detached \cup Ignored(p))
      PROVE  result'[p][d] = "exit 0"
  <2>1. Started(p, t) \/ t = s
    BY <1>7 DEF Started, Frame
  <2>2. d \in Step /\ d # s
    <3>1. d \in conf(p).deps[t]
      BY <1>7
    <3> QED
      BY ONLY <2>1, <3>1, PlainType, GraphInv(p), LaunchInv(p), Frame(p, s), p \in Pipeline,
              s \in Step, t \in Step, DepsDone
  <2>3. d \in launched[p] /\ result'[p][d] = result[p][d]
    BY <1>7, <2>2 DEF Frame
  <2> QED
    BY <1>7, <2>1, <2>3 DEF SkipInv
<1> QED
  BY <1>1, <1>5, <1>6, <1>7, FrameConf DEF SkipInv

LEMMA FrameOutput ==
  ASSUME PlainType, NEW p \in Pipeline, NEW s \in Step, OutputInv(p), Frame(p, s),
         outputs'[s] = p =>
            /\ s \in conf(p).steps /\ conf(p).transport = "file"
            /\ result'[p][s] \in ZeroExits /\ pc'[p][s] \in Over,
         \/ injected'[p][s] = injected[p][s]
         \/ /\ injected'[p][s] # Nobody => s \in conf(p).steps /\ conf(p).source[s] # s
            /\ injected'[p][s] = p => Traced(p, s)
  PROVE  OutputInv(p)'
<1>1. conf(p)' = conf(p)
  BY FrameConf DEF Frame
<1>2. pc[p][s] \notin Over
  BY DEF Frame, Over
<1>3. \A d \in Step : outputs'[d] = p =>
          /\ d \in conf(p).steps /\ conf(p).transport = "file"
          /\ result'[p][d] \in ZeroExits /\ pc'[p][d] \in Over
  BY DEF OutputInv, Frame
<1>4. \A t \in Step : injected'[p][t] # Nobody => t \in conf(p).steps /\ conf(p).source[t] # t
  BY DEF OutputInv, Frame
<1>5. ASSUME NEW t \in Step, injected'[p][t] = p
      PROVE  Traced(p, t)'
  <2>1. Traced(p, t)
    <3>1. CASE t = s /\ injected'[p][s] # injected[p][s]
      BY <1>5, <3>1
    <3>2. CASE injected'[p][t] = injected[p][t]
      BY <1>5, <3>2 DEF OutputInv
    <3> QED
      BY <3>1, <3>2 DEF Frame
  <2>2. conf(p).source[t] \in Step
    BY ConfFacts DEF PlainType
  <2> DEFINE d == conf(p).source[t]
  <2>3. pc[p][d] \in Over => pc'[p][d] = pc[p][d] /\ result'[p][d] = result[p][d]
    BY <1>2, <2>2 DEF Frame
  <2> QED
    BY <1>1, <2>1, <2>3 DEF Traced
<1> QED
  BY <1>1, <1>3, <1>4, <1>5 DEF OutputInv

LEMMA ExecLaunch ==
  ASSUME PlainType, StateType, NEW p \in Pipeline, NEW s \in Step, PInv(p), Exec(p, s)
  PROVE  LaunchInv(p)'
<1> DEFINE Good ==
      /\ pc'[p][s] \in {"starting", "injecting"} => conf(p).run[s] # "never"
      /\ pc'[p][s] \in Launched => s \in launched'[p] \ conf(p).detached
      /\ s \in launched'[p] => s \in Visible(conf(p)) /\ pc'[p][s] \in Launched \cup Over
      /\ s \in launched[p] => s \in launched'[p]
      /\ pc'[p][s] \in NotRun => result'[p][s] = "none"
      /\ pc'[p][s] = "collecting" => result'[p][s] \in ZeroExits /\ conf(p).transport = "file"
      /\ /\ conf(p).run[s] = "always" /\ pc'[p][s] \in Over
         /\ ~failed'[p][s] /\ ~ctxDone[p]
         => s \in launched'[p]
<1>1. GraphInv(p) /\ LaunchInv(p) /\ StatusInv(p) /\ Frame(p, s)
  BY ExecFrame DEF PInv
<1> SUFFICES Good
  BY <1>1, FrameLaunch
<1>2. /\ pc[p][s] \in {"starting", "injecting"} => conf(p).run[s] # "never"
      /\ pc[p][s] \in Launched => s \in launched[p] \ conf(p).detached
      /\ s \in launched[p] => s \in Visible(conf(p)) /\ pc[p][s] \in Launched \cup Over
      /\ pc[p][s] \in NotRun => result[p][s] = "none"
      /\ NotRun = {"blocked", "called", "deciding", "starting", "injecting", "running"}
      /\ pc[p][s] = "collecting" => result[p][s] \in ZeroExits /\ conf(p).transport = "file"
  BY <1>1 DEF LaunchInv, NotRun, Ready
<1>3. CASE Cancels(p, s) \/ Grants(p, s)
  BY <1>2, <1>3 DEF Cancels, Grants, Rest, Returns, Launched, Over
<1>4. CASE Leaves(p, s)
  <2>1. state[p].stage = "killed" => ctxDone[p]
    BY <1>1 DEF StatusInv
  <2> QED
    BY <1>2, <1>4, <2>1 DEF Leaves, Rest, Returns, Launched, Over
<1>5. CASE Skips(p, s) \/ Chooses(p, s)
  BY <1>2, <1>5 DEF Skips, Chooses, Rest, Returns, Launched, Over
<1>6. CASE Starts(p, s) \/ Fails(p, s)
  BY <1>2, <1>6 DEF Starts, Fails, Rest, Returns, Launched, Over
<1>7. CASE Launches(p, s) /\ s \in Visible(conf(p))
  BY <1>2, <1>7 DEF Launches, Returns, Launched, Over
<1>8. CASE Ends(p, s)
  BY <1>2, <1>8 DEF Ends, Launched, Over
<1>9. CASE Finishes(p, s)
  BY <1>2, <1>9 DEF Finishes, Collects, Rest, Launched, Over
<1>10. CASE Keeps(p, s)
  BY <1>2, <1>10 DEF Keeps, Launched, Over
<1> QED
  BY <1>1, <1>3, <1>4, <1>5, <1>6, <1>7, <1>8, <1>9, <1>10, ExecEffect

LEMMA ExecStatus ==
  ASSUME PlainType, StateType, NEW p \in Pipeline, NEW s \in Step, PInv(p), Exec(p, s)
  PROVE  StatusInv(p)'
<1> DEFINE V == Visible(conf(p))
           StageGood ==
              /\ state'[p].stage \in {state[p].stage, "error", "failure", "killed"}
              /\ state'[p].stage = "killed" =>
                    \/ state[p].stage = "killed" \/ ctxDone[p]
                    \/ \E v \in V : Status(p, v)' = "killed"
           OthersGood ==
              /\ \A v \in V : Status(p, v)' = "killed" => Status(p, v) = "killed" \/ ctxDone[p]
              /\ \A v \in V \ {s} : \/ Status(p, v)' = Status(p, v)
                                    \/ Status(p, v) = "pending" /\ Status(p, v)' = "skipped"
                                    \/ Status(p, v) = "running" /\ state'[p].stage # "running"
           StepGood == s \in V =>
              /\ pc'[p][s] \in Ready => Status(p, s)' \in {"pending", "skipped"}
              /\ state'[p].stage = "running" =>
                    /\ ~Bad(state'[p].step, s, Ignored(p))
                    /\ pc'[p][s] \notin Ready => Status(p, s)' # "pending"
                    /\ pc'[p][s] = "collecting" \/ (pc'[p][s] \in Over /\ ~failed'[p][s])
                       => Settled(p, s)'
<1>1. GraphInv(p) /\ LaunchInv(p) /\ StatusInv(p) /\ Frame(p, s) /\ LaunchInv(p)'
  BY ExecFrame, ExecLaunch DEF PInv
<1>2. /\ s \in launched[p] => s \in launched'[p]
      /\ Ready = {"blocked", "called", "deciding", "starting"}
      /\ Over = {"returned", "done"}
      /\ pc[p][s] \in Launched => s \in launched[p] \ conf(p).detached
      /\ conf(p)' = conf(p)
  <2>1. s \in launched[p] => pc[p][s] \in Launched
    BY <1>1 DEF LaunchInv, Frame, Over
  <2>2. s \in launched[p] => s \in launched'[p]
    BY <1>1, <2>1, ExecEffect DEF Cancels, Grants, Leaves, Skips, Chooses, Starts, Fails, Launches,
                              Ends, Finishes, Keeps, Rest
  <2> QED
    BY <1>1, <2>2, FrameConf DEF Ready, Over, LaunchInv, Frame
<1> SUFFICES StageGood /\ OthersGood /\ StepGood
  BY <1>1, <1>2, FrameStatus
<1>3. s \in V =>
         /\ pc[p][s] \in Ready => Status(p, s) \in {"pending", "skipped"}
         /\ state[p].stage = "running" =>
               /\ ~Bad(state[p].step, s, Ignored(p))
               /\ pc[p][s] \notin Ready => Status(p, s) # "pending"
               /\ pc[p][s] = "collecting" => Settled(p, s)
  BY <1>1 DEF StatusInv, Status
<1>4. CASE Cancels(p, s)
  BY <1>1, <1>2, <1>3, <1>4 DEF Cancels, Returns
<1>5. CASE Grants(p, s)
  BY <1>1, <1>2, <1>3, <1>5 DEF Grants, SameRecord, Bad, Status
<1>6. s \in V => Status(p, s) \in StepStatus
  BY DEF StateType, Stat, Status
<1>7. CASE Leaves(p, s)
  <2>1. s \in V => conf(p).run[s] # "never"
    BY DEF Visible
  <2> QED
    BY <1>2, <1>3, <1>7, <2>1 DEF Leaves, Rest, Returns, SameRecord, Settled, Bad, Status
<1>8. CASE Skips(p, s)
  BY <1>2, <1>3, <1>8 DEF Skips, Rest, Settled, Bad, Status
<1>9. CASE Chooses(p, s)
  BY <1>2, <1>3, <1>9 DEF Chooses, SameRecord, Bad, Status
<1>10. CASE Starts(p, s)
  BY <1>2, <1>3, <1>10 DEF Starts, Returns, Bad, Status
<1>11. CASE Fails(p, s)
  BY <1>2, <1>11 DEF Fails, BadStage, Returns
<1>12. CASE Launches(p, s)
  BY <1>2, <1>3, <1>6, <1>12 DEF Launches, SameRecord, Returns, Settled, Bad, Status, StepStatus
<1>13. CASE Ends(p, s)
  BY <1>2, <1>3, <1>13 DEF Ends, SameRecord, Bad, Status
<1>14. CASE Finishes(p, s)
  <2>1. s \in launched'[p]
    BY <1>2, <1>14 DEF Finishes, Launched
  <2>2. CASE BadStage(p)
    BY <1>2, <1>14, <2>2 DEF Finishes, BadStage
  <2>3. CASE /\ state'[p].stage = state[p].stage
             /\ \A v \in V : ~Bad(state'[p].step, v, Ignored(p))
             /\ result[p][s] # "error"
    BY <1>2, <1>3, <1>6, <1>14, <2>1, <2>3 DEF Finishes, Settled, Bad, Status, StepStatus
  <2> QED
    BY <1>14, <2>2, <2>3 DEF Finishes
<1>15. CASE Keeps(p, s)
  BY <1>2, <1>3, <1>15 DEF Keeps, SameRecord, Settled, Bad, Status
<1> QED
  BY <1>4, <1>5, <1>7, <1>8, <1>9, <1>10, <1>11, <1>12, <1>13, <1>14, <1>15, <1>1, ExecEffect

LEMMA ExecDeps ==
  ASSUME PlainType, StateType, NEW p \in Pipeline, NEW s \in Step, PInv(p), Exec(p, s)
  PROVE  DepsInv(p)'
<1> DEFINE V == Visible(conf(p))
           deps == (conf(p).deps[s] \cap V) \ conf(p).detached
           OthersGood == \A v \in V \ {s} :
              Status(p, v) \in {"success", "skipped", "failure"} => Status(p, v)' = Status(p, v)
           StepGood == Started(p, s)' /\ conf(p).run[s] = "on-success" =>
              Started(p, s) \/ \A d \in deps : Fine(p, d)
<1>1. /\ GraphInv(p) /\ LaunchInv(p) /\ StatusInv(p) /\ DepsInv(p) /\ SkipInv(p)
      /\ Frame(p, s)
  BY ExecFrame DEF PInv
<1> SUFFICES OthersGood /\ StepGood
  BY <1>1, FrameDeps
<1>2. OthersGood
  <2>1. CASE Cancels(p, s) \/ Skips(p, s) \/ Starts(p, s) \/ Fails(p, s)
    BY <2>1 DEF Cancels, Skips, Starts, Fails
  <2>2. CASE SameRecord(p)
    BY <2>2 DEF SameRecord
  <2>3. CASE Finishes(p, s)
    BY <2>3 DEF Finishes
  <2> QED
    BY <1>1, <2>1, <2>2, <2>3, ExecEffect DEF Grants, Leaves, Chooses, Launches, Ends, Keeps
<1>3. CASE ~Chooses(p, s)
  <2>1. Started(p, s)' => Started(p, s)
    BY <1>1, <1>3, ExecEffect DEF Started, Cancels, Grants, Leaves, Skips, Starts, Fails, Launches,
                                  Ends, Finishes, Keeps, Rest, Returns
  <2> QED
    BY <1>2, <2>1
<1>4. CASE Chooses(p, s)
  <2> SUFFICES ASSUME conf(p).run[s] = "on-success", NEW d \in deps
               PROVE  Fine(p, d)
    BY <1>2
  <2>1. state[p].stage = "running"
    <3>1. phase[p] = "running" /\ state[p].stage \in StageStatus
      BY <1>1, FrameRuns DEF Frame, StateType, Stat
    <3> QED
      BY <1>1, <1>4, <3>1 DEF Chooses, StatusInv, StageStatus
  <2>2. d \in Step /\ pc[p][d] = "done" /\ ~failed[p][d]
    BY <1>1, DepsDone
  <2>3. Settled(p, d) /\ ~Bad(state[p].step, d, Ignored(p))
    BY <1>1, <2>1, <2>2 DEF StatusInv, Over
  <2> QED
    BY <2>3 DEF Settled, Fine, Bad
<1> QED
  BY <1>3, <1>4

LEMMA ExecSkip ==
  ASSUME PlainType, StateType, NEW p \in Pipeline, NEW s \in Step, PInv(p), Exec(p, s)
  PROVE  SkipInv(p)'
<1> DEFINE V == Visible(conf(p))
           deps == (conf(p).deps[s] \cap launched[p]) \ (conf(p).detached \cup Ignored(p))
           OthersGood ==
              /\ \A v \in V : Status(p, v)' = "pending" => Status(p, v) = "pending"
              /\ \A v \in V \ {s} :
                    /\ Status(p, v)' = "skipped" => Status(p, v) = "skipped" \/ NonePending(p)'
                    /\ Status(p, v)' = "success" => Status(p, v) = "success"
           StepGood == s \in V =>
              /\ pc'[p][s] \notin Over \/ s \in launched'[p] =>
                    (Status(p, s)' = "skipped" => NonePending(p)')
              /\ Status(p, s)' = "success" =>
                    /\ pc'[p][s] \in {"collecting", "returned", "done"}
                    /\ result'[p][s] \in {"exit 0", "exit 78"}
           AllSkipped == result'[p][s] = "exit 78" /\ pc'[p][s] \in Over => NonePending(p)'
           DepsGood == Started(p, s)' /\ conf(p).run[s] = "on-success" =>
              Started(p, s) \/ \A d \in deps : result[p][d] = "exit 0"
<1>1. /\ GraphInv(p) /\ LaunchInv(p) /\ StatusInv(p) /\ DepsInv(p) /\ SkipInv(p)
      /\ Frame(p, s)
  BY ExecFrame DEF PInv
<1> SUFFICES OthersGood /\ StepGood /\ AllSkipped /\ DepsGood
  BY <1>1, FrameSkip
<1>2. DepsGood
  <2>1. CASE ~Chooses(p, s)
    <3>1. Started(p, s)' => Started(p, s)
      BY <1>1, <2>1, ExecEffect DEF Started, Cancels, Grants, Leaves, Skips, Starts, Fails,
                                    Launches, Ends, Finishes, Keeps, Rest, Returns
    <3> QED
      BY <3>1
  <2>2. CASE Chooses(p, s)
    <3> SUFFICES ASSUME conf(p).run[s] = "on-success", NEW d \in deps
                 PROVE  result[p][d] = "exit 0"
      OBVIOUS
    <3>1. state[p].stage = "running"
      <4>1. phase[p] = "running" /\ state[p].stage \in StageStatus
        BY <1>1, FrameRuns DEF Frame, StateType, Stat
      <4> QED
        BY <1>1, <2>2, <4>1 DEF Chooses, StatusInv, StageStatus
    <3>2. d \in Step /\ pc[p][d] = "done" /\ ~failed[p][d] /\ s \in conf(p).steps
      BY <1>1, DepsDone
    <3>3. d \in V
      BY <1>1, <3>2 DEF LaunchInv
    <3>4. Settled(p, d) /\ ~Bad(state[p].step, d, Ignored(p))
      BY <1>1, <3>1, <3>2, <3>3 DEF StatusInv, Over
    <3>5. s \in V /\ Status(p, s) = "pending"
      BY <1>1, <2>2, <3>2 DEF Chooses, Visible, StatusInv, Ready, Status
    <3>6. ~NonePending(p)
      BY <3>5 DEF NonePending, Status
    <3>7. state[p].step[d] # "skipped"
      BY <1>1, <3>3, <3>6 DEF SkipInv
    <3>8. state[p].step[d] = "success"
      BY <3>4, <3>7 DEF Settled, Bad
    <3>9. result[p][d] \in {"exit 0", "exit 78"}
      BY <1>1, <3>3, <3>8, FrameRuns DEF SkipInv, Frame
    <3> QED
      BY <1>1, <3>2, <3>6, <3>9 DEF SkipInv, Over
  <2> QED
    BY <2>1, <2>2
<1>3. /\ s \in V =>
           /\ pc[p][s] \in Ready => Status(p, s) \in {"pending", "skipped"}
           /\ Status(p, s) = "skipped" => NonePending(p)
           /\ Status(p, s) = "success" =>
                 pc[p][s] = "collecting" /\ result[p][s] \in {"exit 0", "exit 78"}
      /\ pc[p][s] = "collecting" => result[p][s] # "exit 78"
      /\ pc[p][s] \in NotRun => result[p][s] = "none"
      /\ NotRun = {"blocked", "called", "deciding", "starting", "injecting", "running"}
      /\ Over = {"returned", "done"}
      /\ s \in launched[p] => pc[p][s] \in {"running", "ended", "collecting"}
  BY <1>1, FrameRuns DEF StatusInv, SkipInv, LaunchInv, Frame, Status, Over, Launched, NotRun, Ready,
                         ZeroExits
<1>4. (\A v \in V : Status(p, v)' = "pending" => Status(p, v) = "pending")
      => (NonePending(p) => NonePending(p)')
  BY <1>1, FrameConf DEF NonePending, Status, Frame
<1> SUFFICES OthersGood /\ StepGood /\ AllSkipped
  BY <1>2
<1>5. CASE Cancels(p, s)
  <2>1. NonePending(p)'
    BY <1>1, <1>5, FrameConf DEF Cancels, NonePending, Status, Frame
  <2> QED
    BY <1>3, <1>5, <2>1 DEF Cancels, Rest
<1>6. CASE Skips(p, s)
  BY <1>3, <1>6 DEF Skips, Rest
<1>7. CASE Starts(p, s)
  BY <1>3, <1>4, <1>7 DEF Starts, Rest, Returns
<1>8. CASE Fails(p, s)
  BY <1>3, <1>8 DEF Fails, Rest, Returns
<1>9. CASE Finishes(p, s)
  <2>1. result[p][s] \in NeutralExits => NonePending(p)'
    BY <1>1, <1>9, FrameConf DEF Finishes, NonePending, Status, Frame
  <2>2. result[p][s] = "exit 78" => result[p][s] \in NeutralExits
    BY DEF NeutralExits
  <2> QED
    BY <1>3, <1>4, <1>9, <2>1, <2>2 DEF Finishes, Rest, Collects
<1>10. ASSUME SameRecord(p),
              Grants(p, s) \/ Leaves(p, s) \/ Chooses(p, s) \/ Launches(p, s) \/ Ends(p, s)
                \/ Keeps(p, s)
       PROVE  OthersGood /\ StepGood /\ AllSkipped
  <2>1. NonePending(p) => NonePending(p)'
    BY <1>4, <1>10 DEF SameRecord
  <2>2. result'[p][s] = result[p][s] \/ pc'[p][s] = "ended"
    BY <1>10 DEF Grants, Leaves, Chooses, Launches, Ends, Keeps, Rest
  <2>3. Keeps(p, s) => pc'[p][s] = "returned"
    BY DEF Keeps
  <2>4. pc[p][s] = "collecting" => Keeps(p, s)
    BY <1>10 DEF Grants, Leaves, Chooses, Launches, Ends
  <2>5. pc[p][s] \in NotRun \cup {"collecting"}
    BY <1>3, <1>10 DEF Grants, Leaves, Chooses, Launches, Ends, Keeps
  <2> QED
    BY <1>3, <1>10, <2>1, <2>2, <2>3, <2>4, <2>5 DEF SameRecord
<1> QED
  BY <1>1, <1>5, <1>6, <1>7, <1>8, <1>9, <1>10, ExecEffect
     DEF Grants, Leaves, Chooses, Launches, Ends, Keeps

LEMMA ExecOutput ==
  ASSUME PlainType, StateType, NEW p \in Pipeline, NEW s \in Step, PInv(p), Exec(p, s)
  PROVE  OutputInv(p)'
<1> DEFINE KeptGood == outputs'[s] = p =>
              /\ s \in conf(p).steps /\ conf(p).transport = "file"
              /\ result'[p][s] \in ZeroExits /\ pc'[p][s] \in Over
           GivenGood ==
              \/ injected'[p][s] = injected[p][s]
              \/ /\ injected'[p][s] # Nobody => s \in conf(p).steps /\ conf(p).source[s] # s
                 /\ injected'[p][s] = p => Traced(p, s)
<1>1. /\ GraphInv(p) /\ LaunchInv(p) /\ SkipInv(p) /\ OutputInv(p) /\ Frame(p, s)
  BY ExecFrame DEF PInv
<1> SUFFICES KeptGood /\ GivenGood
  BY <1>1, FrameOutput
<1>2. outputs[s] # p
  BY <1>1 DEF OutputInv, Frame, Over
<1>3. s \in conf(p).steps
  BY <1>1 DEF GraphInv, Frame
<1>4. KeptGood
  <2>1. CASE Keeps(p, s)
    BY <1>1, <1>3, <2>1 DEF Keeps, LaunchInv, Over
  <2>2. CASE ~Keeps(p, s)
    BY <1>1, <1>2, <2>2, ExecEffect DEF Cancels, Grants, Leaves, Skips, Chooses, Starts, Fails,
                                        Launches, Ends, Finishes, Rest
  <2> QED
    BY <2>1, <2>2
<1>5. CASE Launches(p, s)
  <2> DEFINE d == conf(p).source[s]
             value == IF d = s THEN Nobody ELSE Resolved(p, d)
  <2>1. d \in Step
    BY ConfFacts DEF PlainType
  <2>2. injected'[p][s] = value
    BY <1>5 DEF Launches
  <2>3. ASSUME value = p
        PROVE  Traced(p, s)
    <3>1. d # s /\ Resolved(p, d) = p
      BY <2>3, NobodyAssumption
    <3>2. CASE conf(p).transport = "file"
      BY <1>1, <2>1, <3>1, <3>2 DEF Resolved, OutputInv, Traced
    <3>3. CASE conf(p).transport # "file" /\ Waits(conf(p), s)
      <4>1. d \in published[p]
        BY <3>1, <3>3, NobodyAssumption DEF Resolved
      <4>2. d \in launched[p] \ conf(p).detached
        BY <1>1, <2>1, <4>1 DEF LaunchInv
      <4>3. conf(p).run[s] = "on-success" /\ d \in conf(p).deps[s] /\ d \notin Ignored(p)
        BY <3>3 DEF Waits, Ignored
      <4>4. Started(p, s)
        BY <1>5 DEF Launches, Started
      <4>5. result[p][d] = "exit 0"
        BY <1>1, <4>2, <4>3, <4>4 DEF SkipInv
      <4>6. pc[p][d] = "done"
        BY <1>1, <4>3, DepsDone
      <4> QED
        BY <3>3, <4>5, <4>6 DEF Over, Traced
    <3> QED
      BY <3>2, <3>3 DEF Traced
  <2>4. value # Nobody => d # s
    OBVIOUS
  <2> HIDE DEF value
  <2>5. GivenGood
    BY <1>3, <2>2, <2>3, <2>4
  <2> QED
    BY <1>4, <2>5
<1>6. CASE ~Launches(p, s)
  <2>1. injected'[p][s] = injected[p][s]
    BY <1>1, <1>6, ExecEffect DEF Cancels, Grants, Leaves, Skips, Chooses, Starts, Fails,
                                  Ends, Finishes, Keeps, Rest
  <2> QED
    BY <1>4, <2>1
<1> QED
  BY <1>5, <1>6

LEMMA ExecPInv ==
  ASSUME PlainType, StateType, NEW p \in Pipeline, NEW s \in Step, PInv(p), Exec(p, s)
  PROVE  PInv(p)'
<1>1. GraphInv(p) /\ Frame(p, s)
  BY ExecFrame DEF PInv
<1>2. GraphInv(p)'
  BY <1>1, FrameGraph
<1>3. EndInv(p)'
  <2>1. phase'[p] = "running"
    BY <1>1, FrameRuns DEF Frame
  <2> QED
    BY <2>1 DEF EndInv
<1> QED
  BY <1>2, <1>3, ExecLaunch, ExecStatus, ExecDeps, ExecSkip, ExecOutput DEF PInv

-----------------------------------------------------------------------------
(* The invariant after the other actions *)

LEMMA PublishPInv ==
  ASSUME PlainType, NEW p \in Pipeline, NEW s \in Step, PInv(p), Publish(p, s)
  PROVE  PInv(p)'
<1>1. /\ pc[p][s] = "running" /\ plan' = plan
      /\ UNCHANGED <<phase, ctxDone, dagErr, state, pc, failed, result, outputs, injected, launched>>
  BY DEF Publish, pipeVars, stepVars
<1>2. published'[p] = published[p] \cup {s}
  BY DEF Publish, PlainType
<1>3. GraphInv(p)' /\ StatusInv(p)' /\ DepsInv(p)' /\ SkipInv(p)' /\ OutputInv(p)' /\ EndInv(p)'
  <2>1. conf(p)' = conf(p) /\ Visible(conf(p))' = Visible(conf(p)) /\ Ignored(p)' = Ignored(p)
    BY <1>1, FrameConf
  <2>2. GraphInv(p)' /\ StatusInv(p)'
    BY <1>1, <2>1 DEF PInv, GraphInv, StatusInv, Settled
  <2>3. DepsInv(p)'
    BY <1>1, <2>1 DEF PInv, DepsInv, Fine, Started
  <2>4. SkipInv(p)'
    BY <1>1, <2>1 DEF PInv, SkipInv, NonePending, Started
  <2>5. OutputInv(p)' /\ EndInv(p)'
    BY <1>1, <2>1 DEF PInv, OutputInv, Traced, EndInv
  <2> QED
    BY <2>2, <2>3, <2>4, <2>5
<1>4. LaunchInv(p)
  BY DEF PInv
<1>5. s \in launched[p] \ conf(p).detached
  BY <1>1, <1>4 DEF LaunchInv, Launched
<1>6. LaunchInv(p)'
  BY <1>1, <1>2, <1>4, <1>5, FrameConf DEF LaunchInv
<1> QED
  BY <1>3, <1>6 DEF PInv

\* Goroutines are called or end; the record and the data stay.
Moves(p) ==
    /\ phase[p] \in {"setup", "running"} /\ phase'[p] = "running"
    /\ UNCHANGED <<plan, state, failed, result, published, outputs, injected, launched>>
    /\ ctxDone[p] => ctxDone'[p]
    /\ \A t \in Step : \/ pc'[p][t] = pc[p][t]
                       \/ pc[p][t] = "blocked" /\ pc'[p][t] = "called"
                       \/ pc[p][t] = "returned" /\ pc'[p][t] = "done"

LEMMA MovesPInv ==
  ASSUME PlainType, NEW p \in Pipeline, PInv(p), Moves(p), GraphInv(p)'
  PROVE  PInv(p)'
<1>1. /\ LaunchInv(p) /\ StatusInv(p) /\ DepsInv(p) /\ SkipInv(p) /\ OutputInv(p)
      /\ conf(p)' = conf(p) /\ Visible(conf(p))' = Visible(conf(p)) /\ Ignored(p)' = Ignored(p)
  BY FrameConf DEF PInv, Moves
<1>2. Visible(conf(p)) \subseteq Step
  BY ConfFacts DEF PlainType
<1>3. \A t \in Step :
          /\ pc'[p][t] \in Ready <=> pc[p][t] \in Ready
          /\ pc'[p][t] \in Launched <=> pc[p][t] \in Launched
          /\ pc'[p][t] \in Over <=> pc[p][t] \in Over
          /\ pc'[p][t] \in NotRun <=> pc[p][t] \in NotRun
          /\ pc'[p][t] \in {"starting", "injecting"} <=> pc[p][t] \in {"starting", "injecting"}
          /\ pc'[p][t] = "collecting" <=> pc[p][t] = "collecting"
          /\ pc[p][t] \in {"collecting", "returned", "done"} =>
                pc'[p][t] \in {"collecting", "returned", "done"}
  BY DEF Moves, Ready, Launched, Over, NotRun
<1>4. LaunchInv(p)'
  <2>1. ASSUME NEW t \in Step
        PROVE  /\ pc'[p][t] \in {"starting", "injecting"} => conf(p).run[t] # "never"
               /\ pc'[p][t] \in Launched => t \in launched'[p] \ conf(p).detached
               /\ t \in launched'[p] => t \in Visible(conf(p)) /\ pc'[p][t] \in Launched \cup Over
               /\ t \in published'[p] => t \in launched'[p] \ conf(p).detached
               /\ pc'[p][t] \in NotRun => result'[p][t] = "none"
               /\ pc'[p][t] = "collecting" =>
                     result'[p][t] \in ZeroExits /\ conf(p).transport = "file"
               /\ /\ conf(p).run[t] = "always" /\ pc'[p][t] \in Over
                  /\ ~failed'[p][t] /\ ~ctxDone'[p]
                  => t \in launched'[p]
    BY <1>1, <1>3 DEF LaunchInv, Moves
  <2> QED
    BY <1>1, <2>1 DEF LaunchInv
<1>5. StatusInv(p)'
  BY <1>1, <1>2, <1>3 DEF StatusInv, Settled, Moves
<1>6. DepsInv(p)'
  BY <1>1, <1>3 DEF DepsInv, Fine, Started, Moves
<1>7. SkipInv(p)'
  <2>1. /\ NonePending(p)' <=> NonePending(p)
        /\ \A t \in Step : Started(p, t)' <=> Started(p, t)
    BY <1>1, <1>3 DEF NonePending, Started, Moves
  <2>2. \A v \in Visible(conf(p)) :
            /\ pc'[p][v] \notin Over \/ v \in launched'[p] =>
                  (state'[p].step[v] = "skipped" => NonePending(p)')
            /\ phase'[p] \in {"setup", "running"} /\ state'[p].step[v] = "success" =>
                  /\ pc'[p][v] \in {"collecting", "returned", "done"}
                  /\ result'[p][v] \in {"exit 0", "exit 78"}
    BY <1>1, <1>2, <1>3, <2>1 DEF SkipInv, Moves
  <2>3. \A t \in Step : result'[p][t] = "exit 78" /\ pc'[p][t] \in Over => NonePending(p)'
    BY <1>1, <1>3, <2>1 DEF SkipInv, Moves
  <2>4. \A t \in Step : Started(p, t)' /\ conf(p).run[t] = "on-success" =>
            \A d \in (conf(p).deps[t] \cap launched'[p]) \ (conf(p).detached \cup Ignored(p)) :
                result'[p][d] = "exit 0"
    BY <1>1, <2>1 DEF SkipInv, Moves
  <2> QED
    BY <1>1, <2>2, <2>3, <2>4 DEF SkipInv
<1>8. OutputInv(p)'
  <2>1. \A t \in Step : conf(p).source[t] \in Step
    BY ConfFacts DEF PlainType
  <2>2. \A d \in Step : outputs'[d] = p =>
            /\ d \in conf(p).steps /\ conf(p).transport = "file"
            /\ result'[p][d] \in ZeroExits /\ pc'[p][d] \in Over
    BY <1>1, <1>3 DEF OutputInv, Moves
  <2>3. \A t \in Step : injected'[p][t] # Nobody =>
            t \in conf(p).steps /\ conf(p).source[t] # t
    BY <1>1 DEF OutputInv, Moves
  <2>4. \A t \in Step : injected'[p][t] = p => Traced(p, t)'
    <3> SUFFICES ASSUME NEW t \in Step, injected'[p][t] = p
                 PROVE  Traced(p, t)'
      OBVIOUS
    <3> DEFINE d == conf(p).source[t]
    <3>1. Traced(p, t)
      BY <1>1 DEF OutputInv, Moves
    <3>2. pc'[p][d] \in Over <=> pc[p][d] \in Over
      BY <1>3, <2>1
    <3> QED
      BY <1>1, <3>1, <3>2 DEF Traced, Moves
  <2> QED
    BY <1>1, <2>2, <2>3, <2>4 DEF OutputInv
<1>9. EndInv(p)'
  BY DEF EndInv, Moves
<1> QED
  BY <1>4, <1>5, <1>6, <1>7, <1>8, <1>9 DEF PInv

LEMMA CompletePInv ==
  ASSUME PlainType, NEW p \in Pipeline, NEW s \in Step, PInv(p), Complete(p, s)
  PROVE  PInv(p)'
<1> DEFINE err   == dagErr[p] \/ failed[p][s]
           ended == {d \in Step : pc[p][d] = "done"} \cup {s}
<1>1. /\ pc[p][s] = "returned"
      /\ UNCHANGED <<plan, phase, state, failed, result, dataVars, panicked>>
  BY DEF Complete
<1>2. \A t \in Step : pc'[p][t] =
          IF t = s THEN "done"
          ELSE IF /\ pc[p][t] = "blocked" /\ t \in conf(p).steps
                  /\ ~err /\ conf(p).deps[t] \subseteq ended
          THEN "called" ELSE pc[p][t]
  BY DEF Complete, PlainType
<1>3. dagErr'[p] = err /\ (ctxDone[p] => ctxDone'[p])
  BY DEF Complete, PlainType
<1>4. GraphInv(p) /\ phase[p] = "running"
  BY <1>1, FrameRuns DEF PInv
<1>5. /\ \A t \in Step : conf(p).deps[t] \subseteq Step
      /\ conf(p).steps \subseteq Step
  BY ConfFacts DEF PlainType
<1>6. Moves(p)
  BY <1>1, <1>2, <1>3, <1>4 DEF Moves, dataVars
<1>7. ASSUME NEW t \in Step, pc'[p][t] # "blocked"
      PROVE  /\ t \in conf(p).steps
             /\ \A d \in conf(p).deps[t] : pc'[p][d] = "done" /\ ~failed'[p][d]
  <2>1. CASE pc[p][t] # "blocked"
    BY <1>1, <1>2, <1>4, <1>5, <2>1 DEF GraphInv
  <2>2. CASE pc[p][t] = "blocked"
    <3>1. t \in conf(p).steps /\ ~err /\ conf(p).deps[t] \subseteq ended
      BY <1>1, <1>2, <1>7, <2>2
    <3> QED
      BY <1>1, <1>2, <1>4, <1>5, <3>1 DEF GraphInv
  <2> QED
    BY <2>1, <2>2
<1>8. \A t \in Step : pc'[p][t] = "done" /\ failed'[p][t] => dagErr'[p]
  BY <1>1, <1>2, <1>3, <1>4 DEF GraphInv
<1>9. ASSUME ~dagErr'[p], NEW t \in conf(p).steps, pc'[p][t] = "blocked"
      PROVE  \E d \in conf(p).deps[t] : pc'[p][d] # "done"
  <2>1. t # s /\ pc[p][t] = "blocked" /\ ~(conf(p).deps[t] \subseteq ended)
    BY <1>2, <1>3, <1>5, <1>9
  <2> QED
    BY <1>2, <1>5, <2>1
<1>10. GraphInv(p)'
  BY <1>4, <1>6, <1>7, <1>8, <1>9, FrameConf DEF GraphInv, Moves
<1> QED
  BY <1>6, <1>10, MovesPInv

LEMMA SetupPInv ==
  ASSUME PlainType, StateType, NEW p \in Pipeline, PInv(p), Setup(p)
  PROVE  PInv(p)'
<1> DEFINE V == Visible(conf(p))
<1>1. /\ phase[p] = "setup" /\ plan' = plan
      /\ UNCHANGED <<ctxDone, dagErr, failed, result, dataVars, panicked>>
  BY DEF Setup
<1>2. /\ GraphInv(p) /\ LaunchInv(p) /\ StatusInv(p) /\ OutputInv(p)
      /\ conf(p)' = conf(p) /\ V' = V /\ Ignored(p)' = Ignored(p)
  BY <1>1, FrameConf DEF PInv
<1>3. \A t \in Step : pc[p][t] = "blocked"
  BY <1>1, <1>2 DEF GraphInv
<1>4. CASE /\ phase' = [phase EXCEPT ![p] = "running"]
           /\ pc' = [pc EXCEPT ![p] =
                [s \in Step |-> IF s \in conf(p).steps /\ conf(p).deps[s] = {}
                                THEN "called" ELSE "blocked"]]
           /\ UNCHANGED state
  <2>1. /\ phase'[p] = "running"
        /\ \A t \in Step : pc'[p][t] = IF t \in conf(p).steps /\ conf(p).deps[t] = {}
                                       THEN "called" ELSE "blocked"
    BY <1>4 DEF PlainType
  <2>2. Moves(p)
    BY <1>1, <1>3, <1>4, <2>1 DEF Moves, dataVars
  <2>3. /\ \A t \in Step : conf(p).deps[t] \subseteq Step
        /\ conf(p).steps \subseteq Step
    BY ConfFacts DEF PlainType
  <2>4. GraphInv(p)'
    BY <1>2, <2>1, <2>3 DEF GraphInv
  <2> QED
    BY <2>2, <2>4, MovesPInv
<1>5. CASE /\ phase' = [phase EXCEPT ![p] = "closing"]
           /\ state' = [state EXCEPT ![p] = FailAll(state[p])]
           /\ UNCHANGED pc
  <2>1. state[p] \in Stat(V) /\ V \subseteq Step
    BY ConfFacts DEF StateType, PlainType
  <2>2. phase'[p] = "closing" /\ pc'[p] = pc[p]
    BY <1>5 DEF PlainType
  <2>3. /\ state'[p].stage = IF state[p].stage = "running" THEN "error" ELSE state[p].stage
        /\ \A v \in V : state'[p].step[v] =
              IF state[p].step[v] = "pending" THEN "skipped" ELSE state[p].step[v]
    <3>1. state'[p] = FailAll(state[p])
      BY <1>1, <1>5, <2>1, FailAllFacts, NewRecord
    <3> QED
      BY <2>1, <3>1, FailAllFacts
  <2>4. \A t \in Step : t \notin launched[p] /\ ~Started(p, t)' /\ launched'[p] = launched[p]
    BY <1>1, <1>2, <1>3, <2>2 DEF LaunchInv, Started, Launched, Over, dataVars
  <2>5. GraphInv(p)'
    BY <1>2, <1>3, <2>2 DEF GraphInv
  <2>6. LaunchInv(p)'
    BY <1>1, <1>2, <2>2 DEF LaunchInv, dataVars
  <2>7. StatusInv(p)'
    BY <1>1, <1>2, <1>3, <2>1, <2>2, <2>3 DEF StatusInv, Ready
  <2>8. DepsInv(p)'
    BY <2>4 DEF DepsInv
  <2>9. SkipInv(p)'
    <3>1. NonePending(p)'
      BY <1>2, <2>3 DEF NonePending
    <3> QED
      BY <2>2, <2>4, <3>1 DEF SkipInv
  <2>10. OutputInv(p)'
    BY <1>1, <1>2, <2>2 DEF OutputInv, Traced, dataVars
  <2>11. EndInv(p)'
    <3>1. state'[p].stage # "success"
      BY <1>1, <1>2, <2>3 DEF StatusInv
    <3> QED
      BY <1>3, <2>2, <3>1 DEF EndInv
  <2> QED
    BY <2>5, <2>6, <2>7, <2>8, <2>9, <2>10, <2>11 DEF PInv
<1> QED
  BY <1>4, <1>5 DEF Setup

LEMMA CancelContextPInv ==
  ASSUME PlainType, NEW p \in Pipeline, PInv(p), CancelContext(p)
  PROVE  PInv(p)'
<1>1. /\ phase[p] = "running" /\ ctxDone'[p]
      /\ UNCHANGED <<plan, phase, dagErr, state, pc, failed, result, published, outputs, injected,
                     launched>>
  BY DEF CancelContext, PlainType, stepVars, dataVars
<1>2. conf(p)' = conf(p)
  BY <1>1, FrameConf
<1>3. GraphInv(p)'
  BY <1>1, <1>2 DEF PInv, GraphInv
<1>4. Moves(p)
  BY <1>1 DEF Moves
<1> QED
  BY <1>3, <1>4, MovesPInv

\* The graph has returned without an error: every step is done.
LEMMA AllDone ==
  ASSUME PlainType, NEW p \in Pipeline, GraphInv(p), phase[p] = "running", ~dagErr[p],
         Acyclic(conf(p)), \A s \in Step : pc[p][s] \in {"blocked", "done"}
  PROVE  \A s \in conf(p).steps : pc[p][s] = "done"
<1> DEFINE S == {s \in conf(p).steps : pc[p][s] = "blocked"}
<1>1. conf(p).steps \subseteq Step
  BY ConfFacts DEF PlainType
<1>2. S = {}
  <2> SUFFICES ASSUME S # {} PROVE FALSE
    OBVIOUS
  <2>1. PICK s \in S : conf(p).deps[s] \cap S = {}
    BY DEF Acyclic
  <2>2. PICK d \in conf(p).deps[s] : pc[p][d] # "done"
    BY <2>1 DEF GraphInv
  <2>3. d \in conf(p).steps
    BY <2>1, <2>2 DEF Acyclic
  <2> QED
    BY <1>1, <2>1, <2>2, <2>3
<1> QED
  BY <1>1, <1>2

LEMMA FinishExecPInv ==
  ASSUME PlainType, StateType, NEW p \in Pipeline, PInv(p), FinishExec(p)
  PROVE  PInv(p)'
<1> DEFINE V == Visible(conf(p))
           st == IF dagErr[p] /\ ~Failed(state[p]) THEN FailAll(state[p]) ELSE state[p]
           u == FinishAll(st)
<1>1. /\ phase[p] = "running" /\ phase'[p] = "closing"
      /\ \A s \in Step : pc[p][s] \in {"blocked", "done"}
      /\ UNCHANGED <<plan, ctxDone, dagErr, pc, failed, result, published, outputs, injected,
                     launched>>
  BY DEF FinishExec, PlainType, stepVars, dataVars
<1>2. /\ GraphInv(p) /\ LaunchInv(p) /\ StatusInv(p) /\ DepsInv(p) /\ SkipInv(p) /\ OutputInv(p)
      /\ conf(p)' = conf(p) /\ V' = V /\ Ignored(p)' = Ignored(p) /\ V \subseteq Step
      /\ V \subseteq conf(p).steps
  BY <1>1, FrameConf, ConfFacts DEF PInv, PlainType
<1>3. state[p] \in Stat(V)
  BY DEF StateType
<1>4. /\ st \in Stat(V)
      /\ st.stage = IF dagErr[p] /\ state[p].stage = "running" THEN "error" ELSE state[p].stage
      /\ \A v \in V : \/ st.step[v] = state[p].step[v]
                      \/ state[p].step[v] = "pending" /\ st.step[v] = "skipped"
  <2>1. /\ FailAll(state[p]) \in Stat(V)
        /\ FailAll(state[p]).stage =
              IF state[p].stage = "running" THEN "error" ELSE state[p].stage
        /\ \A v \in V : FailAll(state[p]).step[v] =
              IF state[p].step[v] = "pending" THEN "skipped" ELSE state[p].step[v]
    BY <1>3, FailAllFacts
  <2> QED
    BY <1>3, <2>1 DEF Failed
<1>5. state' = [state EXCEPT ![p] = u]
  BY DEF FinishExec
<1> HIDE DEF st
<1>6. /\ u \in Stat(V) /\ u.stage = IF st.stage = "running" THEN "success" ELSE st.stage
      /\ \A v \in V : u.step[v] = CASE st.step[v] = "pending" -> "skipped"
                                    [] st.step[v] = "running" -> "success"
                                    [] OTHER -> st.step[v]
  BY <1>4, FinishAllFacts
<1> HIDE DEF u
<1>7. state'[p] = u
  BY <1>1, <1>5, <1>6, NewRecord
<1>8. /\ state'[p].stage = CASE state[p].stage # "running" -> state[p].stage
                             [] state[p].stage = "running" /\ dagErr[p] -> "error"
                             [] OTHER -> "success"
      /\ \A v \in V : state'[p].step[v] = CASE state[p].step[v] = "pending" -> "skipped"
                                            [] state[p].step[v] = "running" -> "success"
                                            [] OTHER -> state[p].step[v]
  BY <1>4, <1>6, <1>7
<1>9. GraphInv(p)'
  BY <1>1, <1>2 DEF GraphInv
<1>10. LaunchInv(p)'
  BY <1>1, <1>2 DEF LaunchInv
<1>11. StatusInv(p)'
  <2>1. state'[p].stage # "running"
    BY <1>8
  <2> QED
    BY <1>1, <1>2, <1>8, <2>1 DEF StatusInv
<1>12. DepsInv(p)'
  BY <1>1, <1>2, <1>8 DEF DepsInv, Fine, Started
<1>13. SkipInv(p)'
  <2>1. NonePending(p)'
    BY <1>2, <1>8 DEF NonePending
  <2> QED
    BY <1>1, <1>2, <2>1 DEF SkipInv, Started
<1>14. OutputInv(p)'
  BY <1>1, <1>2 DEF OutputInv, Traced
<1>15. EndInv(p)'
  <2>1. ASSUME Acyclic(conf(p)), state'[p].stage = "success", NEW v \in V
        PROVE  /\ pc[p][v] = "done"
               /\ \/ state'[p].step[v] = "skipped"
                  \/ v \in launched[p] /\ state'[p].step[v] = "success"
                  \/ v \in launched[p] /\ state'[p].step[v] = "failure" /\ v \in Ignored(p)
    <3>1. state[p].stage = "running" /\ ~dagErr[p]
      BY <1>1, <1>2, <1>8, <2>1 DEF StatusInv
    <3>2. pc[p][v] = "done" /\ ~failed[p][v]
      BY <1>1, <1>2, <2>1, <3>1, AllDone DEF GraphInv
    <3>3. Settled(p, v) /\ ~Bad(state[p].step, v, Ignored(p))
      BY <1>2, <3>1, <3>2 DEF StatusInv, Over
    <3> QED
      BY <1>8, <3>2, <3>3 DEF Settled, Bad
  <2>2. ~dagErr[p] /\ Acyclic(conf(p)) => \A s \in conf(p).steps : pc[p][s] = "done"
    BY <1>1, <1>2, AllDone
  <2> QED
    BY <1>1, <1>2, <2>1, <2>2 DEF EndInv
<1> QED
  BY <1>9, <1>10, <1>11, <1>12, <1>13, <1>14, <1>15 DEF PInv

LEMMA CleanUpPInv ==
  ASSUME PlainType, NEW p \in Pipeline, PInv(p), CleanUp(p)
  PROVE  PInv(p)'
<1>1. /\ phase[p] = "closing" /\ phase'[p] = "done" /\ ctxDone'[p] /\ published'[p] = {}
      /\ UNCHANGED <<plan, dagErr, state, pc, failed, result, outputs, injected, launched>>
  BY DEF CleanUp, PlainType, stepVars
<1>2. /\ GraphInv(p) /\ LaunchInv(p) /\ StatusInv(p) /\ DepsInv(p) /\ SkipInv(p) /\ OutputInv(p)
      /\ EndInv(p)
      /\ conf(p)' = conf(p) /\ Visible(conf(p))' = Visible(conf(p)) /\ Ignored(p)' = Ignored(p)
  BY <1>1, FrameConf DEF PInv
<1>3. GraphInv(p)'
  BY <1>1, <1>2 DEF GraphInv
<1>4. LaunchInv(p)'
  BY <1>1, <1>2 DEF LaunchInv
<1>5. StatusInv(p)'
  BY <1>1, <1>2 DEF StatusInv, Settled
<1>6. DepsInv(p)' /\ SkipInv(p)'
  <2>1. \A s \in Step : Started(p, s)' <=> Started(p, s)
    BY <1>1 DEF Started
  <2>2. DepsInv(p)'
    BY <1>1, <1>2, <2>1 DEF DepsInv, Fine
  <2>3. SkipInv(p)'
    BY <1>1, <1>2, <2>1 DEF SkipInv, NonePending
  <2> QED
    BY <2>2, <2>3
<1>7. OutputInv(p)'
  BY <1>1, <1>2 DEF OutputInv, Traced
<1>8. EndInv(p)'
  BY <1>1, <1>2 DEF EndInv
<1> QED
  BY <1>3, <1>4, <1>5, <1>6, <1>7, <1>8 DEF PInv

LEMMA StepPInv ==
  ASSUME PlainType, StateType, \A p \in Pipeline : PInv(p), [Next]_vars
  PROVE  \A p \in Pipeline : PInv(p)'
<1>1. ASSUME NEW p \in Pipeline,
             \/ Setup(p) \/ CancelContext(p) \/ FinishExec(p) \/ CleanUp(p)
             \/ \E s \in Step : StepNext(p, s) \/ Publish(p, s)
      PROVE  \A q \in Pipeline : PInv(q)'
  <2>1. \A q \in Pipeline \ {p} : PInv(q)'
    BY <1>1, OthersKept, KeptInv
  <2>2. ASSUME NEW s \in Step, FindPanics(p, s)
        PROVE  PInv(p)'
    <3>1. Kept(p)
      BY <2>2 DEF FindPanics, Kept, pipeVars, stepVars, dataVars
    <3> QED
      BY <3>1, KeptInv
  <2>3. ASSUME NEW s \in Step, StepNext(p, s) \/ Publish(p, s)
        PROVE  PInv(p)'
    BY <2>2, <2>3, ExecPInv, CompletePInv, PublishPInv DEF StepNext, Exec
  <2>4. PInv(p)'
    BY <1>1, <2>3, SetupPInv, CancelContextPInv, FinishExecPInv, CleanUpPInv
  <2> QED
    BY <2>1, <2>4
<1>2. CASE UNCHANGED vars
  <2>1. \A q \in Pipeline : Kept(q)
    BY <1>2 DEF vars, Kept, pipeVars, stepVars, dataVars
  <2> QED
    BY <2>1, KeptInv
<1>3. CASE \E p \in Pipeline : Setup(p) \/ CancelContext(p) \/ FinishExec(p) \/ CleanUp(p)
  BY <1>1, <1>3
<1>4. ASSUME NEW p \in Pipeline, NEW s \in Step, StepNext(p, s) \/ Publish(p, s)
      PROVE  \A q \in Pipeline : PInv(q)'
  BY <1>1, <1>4
<1> QED
  BY <1>2, <1>3, <1>4 DEF Next

-----------------------------------------------------------------------------
(* What pipelines share *)

\* Only a step that the semaphore lets in takes a permit.
LEMMA PermitTaken ==
  ASSUME PlainType, NEW p \in Pipeline, NEW s \in Step, Exec(p, s)
  PROVE  \/ pc[p][s] \in Holding \/ pc'[p][s] \notin Holding
         \/ Threads = 0 \/ Cardinality(Held) < Threads
<1>1. CASE Acquire(p, s)
  <2>1. CASE CancelAndReturn(p, s)
    <3>1. pc'[p][s] = "returned"
      BY <2>1, At DEF CancelAndReturn, Returns, Locations
    <3> QED
      BY <3>1 DEF Holding
  <2> QED
    BY <1>1, <2>1 DEF Acquire
<1>2. CASE ~Acquire(p, s)
  BY <1>2 DEF Exec, Decide, StartStep, Inject, RunReturns, FinishStep, Collect, Holding
<1> QED
  BY <1>1, <1>2

LEMMA PermitsKept ==
  ASSUME PlainType, StateType, \A p \in Pipeline : PInv(p), PermitsInv, [Next]_vars
  PROVE  PermitsInv'
<1>1. ASSUME Held' \subseteq Held
      PROVE  PermitsInv'
  <2>1. IsFiniteSet(Held') /\ Cardinality(Held') <= Cardinality(Held)
    BY <1>1, FS_Subset DEF PermitsInv
  <2>2. Cardinality(Held) \in Nat /\ Cardinality(Held') \in Nat
    BY <2>1, FS_CardinalityType DEF PermitsInv
  <2>3. Threads # 0 => Cardinality(Held') <= Threads
    BY <2>1, <2>2, ThreadsAssumption DEF PermitsInv
  <2> QED
    BY <2>1, <2>3 DEF PermitsInv
<1>2. ASSUME NEW x, Held' \subseteq Held \cup {x}, Threads = 0 \/ Cardinality(Held) < Threads
      PROVE  PermitsInv'
  <2>1. IsFiniteSet(Held) /\ Cardinality(Held) \in Nat
    BY FS_CardinalityType DEF PermitsInv
  <2>2. /\ IsFiniteSet(Held \cup {x})
        /\ Cardinality(Held \cup {x}) \in {Cardinality(Held), Cardinality(Held) + 1}
    BY <2>1, FS_AddElement
  <2>3. IsFiniteSet(Held') /\ Cardinality(Held') <= Cardinality(Held \cup {x})
    BY <1>2, <2>2, FS_Subset
  <2>4. Cardinality(Held') \in Nat
    BY <2>3, FS_CardinalityType
  <2>5. Threads # 0 => Cardinality(Held') <= Threads
    BY <1>2, <2>1, <2>2, <2>3, <2>4, ThreadsAssumption
  <2> QED
    BY <2>3, <2>5 DEF PermitsInv
<1>3. ASSUME NEW p \in Pipeline, NEW s \in Step, StepNext(p, s) \/ Publish(p, s)
      PROVE  PermitsInv'
  <2>1. \A q \in Pipeline \ {p} : pc'[q] = pc[q]
    BY <1>3, OthersKept DEF Kept
  <2>2. CASE Exec(p, s)
    <3>1. \A t \in Step \ {s} : pc'[p][t] = pc[p][t]
      BY <2>2, ExecFrame DEF Frame
    <3>2. Held' \subseteq Held \cup {<<p, s>>}
      BY <2>1, <3>1 DEF Held
    <3>3. CASE pc[p][s] \in Holding \/ pc'[p][s] \notin Holding
      <4>1. Held' \subseteq Held
        BY <2>1, <3>1, <3>3 DEF Held
      <4> QED
        BY <1>1, <4>1
    <3> QED
      BY <1>2, <2>2, <3>2, <3>3, PermitTaken
  <2>3. CASE ~Exec(p, s)
    <3>1. CASE Complete(p, s)
      <4>1. \A t \in Step : pc'[p][t] \in {"done", "called", pc[p][t]}
        BY <3>1 DEF Complete, PlainType
      <4>2. Held' \subseteq Held
        BY <2>1, <4>1 DEF Held, Holding
      <4> QED
        BY <1>1, <4>2
    <3>2. CASE FindPanics(p, s) \/ Publish(p, s)
      <4>1. Held' \subseteq Held
        BY <3>2 DEF FindPanics, Publish, Held, stepVars
      <4> QED
        BY <1>1, <4>1
    <3> QED
      BY <1>3, <2>3, <3>1, <3>2 DEF StepNext, Exec
  <2> QED
    BY <2>2, <2>3
<1>4. ASSUME NEW p \in Pipeline, Setup(p) \/ CancelContext(p) \/ FinishExec(p) \/ CleanUp(p)
      PROVE  PermitsInv'
  <2>1. \A q \in Pipeline \ {p} : pc'[q] = pc[q]
    BY <1>4, OthersKept DEF Kept
  <2>2. \A t \in Step : pc'[p][t] \in {"blocked", "called", pc[p][t]}
    <3>1. pc \in [Pipeline -> [Step -> Locations]]
      BY DEF PlainType
    <3>2. CASE Setup(p)
      BY <3>1, <3>2 DEF Setup
    <3>3. CASE CancelContext(p) \/ FinishExec(p) \/ CleanUp(p)
      BY <3>3 DEF CancelContext, FinishExec, CleanUp, stepVars
    <3> QED
      BY <1>4, <3>2, <3>3
  <2>3. Held' \subseteq Held
    BY <2>1, <2>2 DEF Held, Holding
  <2> QED
    BY <1>1, <2>3
<1>5. CASE UNCHANGED vars
  BY <1>1, <1>5 DEF vars, stepVars, Held
<1> QED
  BY <1>3, <1>4, <1>5 DEF Next

-----------------------------------------------------------------------------
(* The invariant *)

LEMMA InitInductive == Init => IInv
<1> SUFFICES ASSUME Init PROVE IInv
  OBVIOUS
<1>1. PlainType
  <2>1. /\ plan \in Plans /\ panicked \in BOOLEAN
        /\ phase \in [Pipeline -> {"setup", "running", "closing", "done"}]
        /\ ctxDone \in [Pipeline -> BOOLEAN] /\ dagErr \in [Pipeline -> BOOLEAN]
        /\ published \in [Pipeline -> SUBSET Step] /\ launched \in [Pipeline -> SUBSET Step]
    BY DEF Init
  <2>2. pc \in [Pipeline -> [Step -> Locations]] /\ failed \in [Pipeline -> [Step -> BOOLEAN]]
    BY DEF Init, Locations
  <2>3. /\ result \in [Pipeline -> [Step -> Outcomes \cup {"none"}]]
        /\ outputs \in [Step -> Pipeline \cup NoOutput]
        /\ injected \in [Pipeline -> [Step -> Pipeline \cup {Nobody}]]
    BY DEF Init, NoOutput
  <2> QED
    BY <2>1, <2>2, <2>3 DEF PlainType
<1>2. \A p \in Pipeline : state[p] = Fresh(Visible(conf(p)))
  BY DEF Init
<1>3. StateType
  <2>1. state = [p \in Pipeline |-> Fresh(Visible(conf(p)))]
    BY DEF Init
  <2>2. state = [p \in Pipeline |-> state[p]]
    BY <2>1
  <2>3. \A p \in Pipeline : state[p] \in Stat(Visible(conf(p)))
    BY <1>2, FreshFacts
  <2> QED
    BY <2>2, <2>3 DEF StateType
<1>4. ASSUME NEW p \in Pipeline
      PROVE  PInv(p)
  <2> DEFINE V == Visible(conf(p))
  <2>1. /\ phase[p] \in {"setup", "done"} /\ (phase[p] = "done" => conf(p).steps = {})
        /\ ~ctxDone[p] /\ ~dagErr[p] /\ published[p] = {} /\ launched[p] = {}
        /\ \A s \in Step : /\ pc[p][s] = "blocked" /\ ~failed[p][s] /\ result[p][s] = "none"
                           /\ outputs[s] = "absent" /\ injected[p][s] = Nobody
    BY DEF Init
  <2>2. state[p].stage = "running" /\ \A v \in V : state[p].step[v] = "pending"
    BY <1>2, FreshFacts
  <2>3. V \subseteq conf(p).steps /\ V \subseteq Step
    BY <1>1, ConfFacts DEF PlainType
  <2>4. p # Nobody /\ p # "absent"
    BY NobodyAssumption
  <2>5. GraphInv(p)
    BY <2>1 DEF GraphInv
  <2>6. LaunchInv(p)
    BY <2>1 DEF LaunchInv, Launched, Over
  <2>7. StatusInv(p)
    BY <2>1, <2>2, <2>3 DEF StatusInv, Ready, Over, Bad
  <2>8. DepsInv(p)
    BY <2>1 DEF DepsInv, Started
  <2>9. SkipInv(p)
    BY <2>1, <2>2 DEF SkipInv, Started
  <2>10. OutputInv(p)
    BY <2>1, <2>4 DEF OutputInv
  <2>11. EndInv(p)
    BY <2>1, <2>2 DEF EndInv
  <2> QED
    BY <2>5, <2>6, <2>7, <2>8, <2>9, <2>10, <2>11 DEF PInv
<1>5. PermitsInv
  <2>1. Held = {}
    BY DEF Init, Held, Holding
  <2> QED
    BY <2>1, FS_EmptySet, ThreadsAssumption DEF PermitsInv
<1> QED
  BY <1>1, <1>3, <1>4, <1>5, TypeSplits DEF IInv

LEMMA NextInductive == IInv /\ [Next]_vars => IInv'
<1> SUFFICES ASSUME IInv, [Next]_vars PROVE IInv'
  OBVIOUS
<1>1. PlainType /\ StateType /\ (\A p \in Pipeline : PInv(p)) /\ PermitsInv
  BY TypeSplits DEF IInv
<1>2. PlainType' /\ StateType'
  BY <1>1, NextType DEF PInv
<1>3. TypeOK'
  BY <1>2, TypeSplits, PTL
<1>4. \A p \in Pipeline : PInv(p)'
  BY <1>1, StepPInv
<1>5. PermitsInv'
  BY <1>1, PermitsKept
<1> QED
  BY <1>2, <1>3, <1>4, <1>5 DEF IInv

\* What all the theorems below follow from: the types, the goroutines against the
\* graph and the record of each pipeline, and the permits of the semaphore.
THEOREM Inductive == Spec => []IInv
<1>1. IInv /\ [Next]_vars => IInv'
  BY NextInductive
<1> QED
  BY <1>1, InitInductive, PTL DEF Spec

-----------------------------------------------------------------------------
(* Theorems *)

\* The goroutines, the records and the outputs keep their types: the state of
\* a pipeline lists its visible steps and no other, whatever Setup, Cancel,
\* Fail and Finish do to it from several goroutines.
THEOREM TypeCorrect == Spec => []TypeOK
<1>1. IInv => TypeOK
  BY DEF IInv
<1> QED
  BY <1>1, Inductive, PTL

\* A step that runs on success is never started after one of its dependencies
\* failed, broke or was killed: for every graph, number of pipelines and limit,
\* and without any assumption on the specs.
THEOREM FailureStops == Spec => []FailureStopsDependents
<1>1. IInv => FailureStopsDependents
  <2> SUFFICES ASSUME IInv, NEW p \in Pipeline, NEW s \in launched[p],
                      NEW d \in conf(p).deps[s], conf(p).run[s] = "on-success",
                      d \in Visible(conf(p)) \ conf(p).detached
               PROVE  Fine(p, d)
    BY DEF FailureStopsDependents, Fine
  <2>1. s \in Step
    BY DEF IInv, TypeOK
  <2>2. DepsInv(p)
    BY DEF IInv, PInv
  <2> QED
    BY <2>1, <2>2 DEF DepsInv, Started
<1> QED
  BY <1>1, Inductive, PTL

\* The semaphore: no more steps hold a permit than DRONE_RUNNER_MAX_PROCS says,
\* over all pipelines of the daemon, however their execs return.
THEOREM PermitsBounded == Spec => [](Threads # 0 => Cardinality(Held) <= Threads)
<1>1. IInv => (Threads # 0 => Cardinality(Held) <= Threads)
  BY DEF IInv, PermitsInv
<1> QED
  BY <1>1, Inductive, PTL

\* A stage that is reported as a success has no step that broke, was killed or
\* was left out, if the graphs are those that dag.Run runs: of known steps and
\* without a cycle.
THEOREM Honest ==
  ASSUME \A pl \in Plans : \A p \in Pipeline : Acyclic(pl[p])
  PROVE  Spec => []SuccessIsHonest
<1>1. IInv => SuccessIsHonest
  <2> SUFFICES ASSUME IInv, NEW p \in Pipeline, phase[p] \in {"closing", "done"},
                      state[p].stage = "success"
               PROVE  \A s \in Visible(conf(p)) :
                         /\ pc[p][s] = "done"
                         /\ \/ state[p].step[s] = "skipped"
                            \/ s \in launched[p] /\ state[p].step[s] = "success"
                            \/ /\ s \in launched[p] /\ state[p].step[s] = "failure"
                               /\ s \in Ignored(p)
    BY DEF SuccessIsHonest
  <2>1. Acyclic(conf(p))
    BY DEF IInv, TypeOK, conf
  <2>2. EndInv(p)
    BY DEF IInv, PInv
  <2> QED
    BY <2>1, <2>2 DEF EndInv
<1> QED
  BY <1>1, Inductive, PTL

\* For the same graphs, a step configured to always run is run unless the
\* context is cancelled or an exec returns an error.
THEOREM AlwaysRun ==
  ASSUME \A pl \in Plans : \A p \in Pipeline : Acyclic(pl[p])
  PROVE  Spec => []AlwaysStepsRun
<1>1. IInv => AlwaysStepsRun
  <2> SUFFICES ASSUME IInv, NEW p \in Pipeline, phase[p] = "closing", ~ctxDone[p], ~dagErr[p],
                      \E s \in Step : pc[p][s] = "done",
                      NEW s \in conf(p).steps, conf(p).run[s] = "always"
               PROVE  s \in launched[p]
    BY DEF AlwaysStepsRun
  <2>1. Acyclic(conf(p)) /\ plan \in Plans
    BY DEF IInv, TypeOK, conf
  <2>2. EndInv(p) /\ GraphInv(p) /\ LaunchInv(p)
    BY DEF IInv, PInv
  <2>3. s \in Step /\ pc[p][s] = "done"
    BY <2>1, <2>2, ConfFacts DEF EndInv
  <2>4. ~failed[p][s]
    BY <2>2, <2>3 DEF GraphInv
  <2> QED
    BY <2>2, <2>3, <2>4 DEF LaunchInv, Over
<1> QED
  BY <1>1, Inductive, PTL

\* A step is started with an output of a failed producer of its pipeline in the
\* two known cases only, whatever the graphs and the policies.
THEOREM OnlyKnownFailures == Spec => []OnlyKnownFailuresPublish
<1>1. IInv => OnlyKnownFailuresPublish
  <2> SUFFICES ASSUME IInv, NEW p \in Pipeline, NEW s \in Step, injected[p][s] = p
               PROVE  \/ result[p][conf(p).source[s]] = "exit 0"
                      \/ /\ conf(p).transport = "file"
                         /\ result[p][conf(p).source[s]] = "oom 0"
                      \/ conf(p).transport = "unix" /\ ~Waits(conf(p), s)
    BY DEF OnlyKnownFailuresPublish
  <2>1. Traced(p, s)
    BY DEF IInv, PInv, OutputInv
  <2>2. conf(p).transport \in {"file", "unix"}
    BY ConfFacts DEF IInv, TypeOK
  <2> QED
    BY <2>1, <2>2 DEF Traced, ZeroExits
<1> QED
  BY <1>1, Inductive, PTL
=============================================================================
