---------------------------- MODULE PipelineState ----------------------------
(***************************************************************************)
(* External: pipeline.State of github.com/drone/runner-go v1.13.0, the     *)
(* status record the executor keeps for one stage, as the executor uses    *)
(* it.  Every method holds the state's mutex, so each is one operator on   *)
(* the record                                                              *)
(*     [stage |-> status, step |-> [visible steps -> status],              *)
(*      exit |-> [visible steps -> BOOLEAN]]                               *)
(* where exit[s] says that the exit code is positive.                      *)
(***************************************************************************)
EXTENDS Integers, Sequences

StepStatus  == {"pending", "running", "success", "failure", "error",
                "killed", "skipped"}
StageStatus == {"running", "success", "failure", "error", "killed"}

Fresh(visible) ==
    [stage |-> "running",
     step |-> [s \in visible |-> "pending"],
     exit |-> [s \in visible |-> FALSE]]

\* Definitions named Bug... are plausible mistakes in the definition that
\* follows them; no specification uses them.

BugFailed(st) == st.stage = "failure"   \* forgets errors and kills

Failed(st)      == st.stage \in {"failure", "error", "killed"}
Cancelled(st)   == st.stage = "killed"
Finished(st, s) == st.step[s] \notin {"pending", "running"}

BugUpdate(st, order, ignored) ==        \* a skipped step decides as well
    LET bad == {i \in DOMAIN order :
                   /\ order[i] \in DOMAIN st.step
                   /\ st.step[order[i]] \in {"killed", "error", "failure", "skipped"}}
    IN  IF bad = {} THEN st
        ELSE [st EXCEPT !.stage = st.step[order[CHOOSE i \in bad : TRUE]]]

\* The stage takes the status of its first killed, failed or broken step;
\* order lists the steps of the stage, ignored those whose failure is ignored.
Update(st, order, ignored) ==
    LET bad(i) == /\ order[i] \in DOMAIN st.step
                  /\ \/ st.step[order[i]] \in {"killed", "error"}
                     \/ st.step[order[i]] = "failure" /\ order[i] \notin ignored
        first  == {i \in DOMAIN order : bad(i) /\ \A j \in 1 .. i - 1 : ~bad(j)}
    IN  IF first = {} THEN st
        ELSE [st EXCEPT !.stage = st.step[order[CHOOSE i \in first : TRUE]]]

\* Every step in status from moves to status to.
Move(step, from, to) ==
    [s \in DOMAIN step |-> IF step[s] = from THEN to ELSE step[s]]

Start(st, s) ==
    IF st.step[s] = "pending" THEN [st EXCEPT !.step[s] = "running"] ELSE st

Skip(st, s) ==
    IF st.step[s] = "pending" THEN [st EXCEPT !.step[s] = "skipped"] ELSE st

SkipAll(st) == [st EXCEPT !.step = Move(@, "pending", "skipped")]

\* A step already killed or skipped keeps that status.
Finish(st, s, code) ==
    IF Finished(st, s) THEN st
    ELSE [st EXCEPT !.step[s] = IF code \in {0, 78} THEN "success" ELSE "failure",
                    !.exit[s] = code # 0]

Fail(st, s) == [st EXCEPT !.step[s] = "error", !.exit[s] = TRUE]

Cancel(st) ==
    [stage |-> "killed",
     step |-> Move(Move(st.step, "pending", "skipped"), "running", "killed"),
     exit |-> [s \in DOMAIN st.exit |-> st.exit[s] \/ st.step[s] = "running"]]

FailAll(st) ==
    [SkipAll(st) EXCEPT !.stage = IF @ = "running" THEN "error" ELSE @]

FinishAll(st) ==
    [st EXCEPT !.step = Move(Move(@, "pending", "skipped"), "running", "success"),
               !.stage = IF @ = "running" THEN "success" ELSE @]
=============================================================================
