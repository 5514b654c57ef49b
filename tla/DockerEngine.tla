----------------------------- MODULE DockerEngine -----------------------------
(***************************************************************************)
(* engine.Docker for one pipeline: Setup creates its volumes and network,  *)
(* Run takes one step's container from creation to exit, Destroy removes   *)
(* everything.  The executor calls Setup once, then Run for each step,     *)
(* concurrently, and Destroy when every Run of a step that is not detached *)
(* has returned; a detached step's Run may still be under way.             *)
(*                                                                         *)
(* One action is one call to the docker daemon.  A call may fail, and a    *)
(* failed call may have taken effect: the reply was lost, or the context   *)
(* was cancelled with the request under way.  A call takes effect before   *)
(* it returns or not at all: the daemon does not carry out a request after *)
(* the caller gave up on it and went on to the next one.                   *)
(***************************************************************************)
EXTENDS Integers, FiniteSets

CONSTANTS
    Step,       \* spec.Steps
    Detached,   \* steps that run in the background
    Internal,   \* spec.Internal
    Volume,     \* spec.Volumes with an EmptyDir
    Memory      \* those of medium "memory"

ASSUME StepsAssumption == Detached \subseteq Step /\ Internal \cap Step = {}
ASSUME MemoryAssumption == Memory \subseteq Volume

Container == Step \cup Internal

VARIABLES
    phase,      \* "dirs", "new", "network", "internal", "ready", "failed"
                \* (Setup), "stop", "remove", "volumes", "unlink", "gone" (Destroy)
    netErr,     \* Setup: the error of NetworkCreate, returned at the end
    todo,       \* what the loop of the current phase has left
    container,  \* container[c]: "absent", "created", "running", "exited"
    volumes,    \* volumes the daemon has
    network,    \* the daemon has the pipeline's network
    cancelled,  \* the context of the Runs
    deferTail,  \* DRONE_DEFER_TAIL_LOG
    run,        \* run[s]: where Run is
    ret,        \* ret[s]: what Run returned
    log,        \* log[s]: the copy of the container's log
    cleanupErr  \* a removal failed for good

setupVars == <<netErr, todo, volumes, network, cleanupErr>>
runVars   == <<run, ret, log>>
vars == <<phase, setupVars, container, cancelled, deferTail, runVars>>

Destroying == {"stop", "remove", "volumes", "unlink", "gone"}

Init ==
    /\ phase = "dirs"
    /\ netErr = FALSE
    /\ todo = Volume
    /\ container = [c \in Container |-> "absent"]
    /\ volumes = {}
    /\ network = FALSE
    /\ cancelled = FALSE
    /\ deferTail \in BOOLEAN
    /\ run = [s \in Step |-> "idle"]
    /\ ret = [s \in Step |-> "none"]
    /\ log = [s \in Step |-> "none"]
    /\ cleanupErr = FALSE

-----------------------------------------------------------------------------
(* Setup.  Definitions named Bug... are plausible mistakes in the definition *)
(* that follows them; no specification uses them.                          *)

\* The directories of the outputs on the host, if the spec asks for some; an
\* error ends Setup.
MakeOutputDirs ==
    /\ phase = "dirs"
    /\ phase' \in {"failed", IF Volume = {} THEN "network" ELSE "new"}
    /\ UNCHANGED <<setupVars, container, cancelled, deferTail, runVars>>

\* Every EmptyDir gets a volume, whatever its medium; an error ends Setup.
VolumeCreate ==
    /\ phase = "new"
    /\ \E v \in todo, done \in BOOLEAN, err \in BOOLEAN :
        /\ done \/ err
        /\ volumes' = IF done THEN volumes \cup {v} ELSE volumes
        /\ todo' = todo \ {v}
        /\ phase' = IF err THEN "failed"
                    ELSE IF todo = {v} THEN "network" ELSE "new"
    /\ UNCHANGED <<netErr, network, cleanupErr, container, cancelled, deferTail,
                   runVars>>

\* The error is looked at only after the internal steps ran.
NetworkCreate ==
    /\ phase = "network"
    /\ \E done \in BOOLEAN, err \in BOOLEAN :
        /\ done \/ err
        /\ network' = done
        /\ netErr' = err
    /\ todo' = Internal
    /\ phase' = "internal"
    /\ UNCHANGED <<volumes, cleanupErr, container, cancelled, deferTail, runVars>>

\* Create and start an internal step, and wait for it for at most a minute:
\* what the wait returns is not looked at, so the container may still run.
InternalStep ==
    /\ phase = "internal"
    /\ \E c \in todo :
        \/ /\ container' \in {[container EXCEPT ![c] = "running"],
                              [container EXCEPT ![c] = "exited"]}
           /\ todo' = todo \ {c}
           /\ UNCHANGED phase
        \/ /\ container' \in {container, [container EXCEPT ![c] = "created"],
                              [container EXCEPT ![c] = "running"]}
           /\ phase' = "failed"
           /\ UNCHANGED todo
    /\ UNCHANGED <<netErr, volumes, network, cleanupErr, cancelled, deferTail,
                   runVars>>

BugSetupEnd ==              \* the internal steps' errors hide the network's
    /\ phase = "internal" /\ todo = {}
    /\ phase' = "ready"
    /\ UNCHANGED <<setupVars, container, cancelled, deferTail, runVars>>

SetupEnd ==
    /\ phase = "internal" /\ todo = {}
    /\ phase' = IF netErr THEN "failed" ELSE "ready"
    /\ UNCHANGED <<setupVars, container, cancelled, deferTail, runVars>>

-----------------------------------------------------------------------------
(* Run *)

At(s, l) == run' = [run EXCEPT ![s] = l]
Returns(s, what) ==
    /\ At(s, "returned")
    /\ ret' = [ret EXCEPT ![s] = what]

RunCall(s) ==
    /\ phase = "ready" /\ run[s] = "idle"
    /\ At(s, "creating")
    /\ UNCHANGED <<phase, setupVars, container, cancelled, deferTail, ret, log>>

\* create: pulls the image if the policy says so or if it is missing, creates
\* the container, and ignores an error of connecting it to further networks.
Create(s) ==
    /\ run[s] = "creating"
    /\ \/ /\ ~cancelled
          /\ container' = [container EXCEPT ![s] = "created"]
          /\ At(s, "starting")
          /\ UNCHANGED ret
       \/ /\ container' \in {container, [container EXCEPT ![s] = "created"]}
          /\ Returns(s, "error")
    /\ UNCHANGED <<phase, setupVars, cancelled, deferTail, log>>

StartContainer(s) ==
    /\ run[s] = "starting"
    /\ \/ /\ ~cancelled /\ container[s] = "created"
          /\ container' = [container EXCEPT ![s] = "running"]
          /\ At(s, "tailing")
          /\ UNCHANGED ret
       \/ /\ container' \in {container,
                IF container[s] = "created"
                THEN [container EXCEPT ![s] = "running"] ELSE container}
          /\ Returns(s, "error")
    /\ UNCHANGED <<phase, setupVars, cancelled, deferTail, log>>

BugTail(s) ==               \* the deferred copy is started, not made
    /\ run[s] = "tailing"
    /\ At(s, "waiting")
    /\ log' = [log EXCEPT ![s] = "streaming"]
    /\ UNCHANGED <<phase, setupVars, container, cancelled, deferTail, ret>>

\* tail copies the log in the background; deferTail copies it first.
Tail(s) ==
    /\ run[s] = "tailing"
    /\ \/ /\ ~cancelled
          /\ At(s, IF deferTail THEN "draining" ELSE "waiting")
          /\ log' = [log EXCEPT ![s] = "streaming"]
          /\ UNCHANGED ret
       \/ Returns(s, "error") /\ UNCHANGED log
    /\ UNCHANGED <<phase, setupVars, container, cancelled, deferTail>>

\* The copy is complete when the container has stopped and all was read.  It
\* breaks off at any time, for a cancelled context, an error of the stream or of
\* a write: the error of StdCopy is dropped, and a Run that made the copy itself
\* goes on to wait for the container.
CopyEnds(s) ==
    /\ log[s] = "streaming"
    /\ \/ /\ container[s] \in {"exited", "absent"}
          /\ log' = [log EXCEPT ![s] = "complete"]
       \/ log' = [log EXCEPT ![s] = "broken"]
    /\ IF run[s] = "draining" THEN At(s, "waiting") ELSE UNCHANGED run
    /\ UNCHANGED <<phase, setupVars, container, cancelled, deferTail, ret>>

BugWaitRetry(s) ==          \* trusts the wait call, drops its error
    /\ run[s] = "waiting"
    /\ \E what \in {"exited", "error"} : Returns(s, what)
    /\ UNCHANGED <<phase, setupVars, container, cancelled, deferTail, log>>

BugWaitNoContext(s) ==      \* waits with context.Background()
    /\ run[s] = "waiting"
    /\ container[s] = "exited"
    /\ Returns(s, "exited")
    /\ UNCHANGED <<phase, setupVars, container, cancelled, deferTail, log>>

\* waitRetry: the wait call may end early with an error that is dropped; the
\* container is inspected, and only one that does not run ends the loop.
WaitRetry(s) ==
    /\ run[s] = "waiting"
    /\ \/ ~cancelled /\ container[s] = "exited" /\ Returns(s, "exited")
       \/ Returns(s, "error")       \* cancelled, or inspect failed
    /\ UNCHANGED <<phase, setupVars, container, cancelled, deferTail, log>>

-----------------------------------------------------------------------------
(* The environment *)

ContainerExits(c) ==
    /\ container[c] = "running"
    /\ container' = [container EXCEPT ![c] = "exited"]
    /\ UNCHANGED <<phase, setupVars, cancelled, deferTail, runVars>>

Cancel ==
    /\ phase = "ready" /\ ~cancelled
    /\ cancelled' = TRUE
    /\ UNCHANGED <<phase, setupVars, container, deferTail, runVars>>

-----------------------------------------------------------------------------
(* Destroy *)

\* Exec's deferred function: the context is cancelled before Destroy.
DestroyCall ==
    /\ phase \in {"ready", "failed"}
    /\ \A s \in Step \ Detached : run[s] \in {"idle", "returned"}
    /\ phase' = "stop"
    /\ todo' = Container
    /\ cancelled' = TRUE
    /\ UNCHANGED <<netErr, volumes, network, cleanupErr, container, deferTail,
                   runVars>>

\* The end of a loop of Destroy: the next one starts.
NextLoop(from, to, work) ==
    /\ phase = from /\ todo = {}
    /\ phase' = to
    /\ todo' = work

\* Stop, or kill when stopping fails; both may fail.
StopContainer(c) ==
    /\ phase = "stop" /\ c \in todo
    /\ todo' = todo \ {c}
    /\ container' \in {container,
          IF container[c] = "running"
          THEN [container EXCEPT ![c] = "exited"] ELSE container}
    /\ UNCHANGED <<phase, netErr, volumes, network, cleanupErr, cancelled,
                   deferTail, runVars>>

BugRemoveContainer(c) ==    \* only the containers whose Run got an exit code
    /\ phase = "remove" /\ c \in todo
    /\ todo' = todo \ {c}
    /\ container' = IF c \in Step /\ ret[c] = "exited"
                    THEN [container EXCEPT ![c] = "absent"] ELSE container
    /\ UNCHANGED <<phase, netErr, volumes, network, cleanupErr, cancelled,
                   deferTail, runVars>>

\* Forced removal, by the id the compiler chose: whether Run knows that the
\* container exists does not matter.
RemoveContainer(c) ==
    /\ phase = "remove" /\ c \in todo
    /\ todo' = todo \ {c}
    /\ \/ container' = [container EXCEPT ![c] = "absent"] /\ UNCHANGED cleanupErr
       \/ container[c] # "absent" /\ cleanupErr' = TRUE /\ UNCHANGED container
    /\ UNCHANGED <<phase, netErr, volumes, network, cancelled, deferTail, runVars>>

InUse == \E c \in Container : container[c] # "absent"

\* The daemon refuses to remove a volume a container uses.
RemoveVolume(v) ==
    /\ phase = "volumes" /\ v \in todo
    /\ todo' = todo \ {v}
    /\ \/ v \in Memory /\ UNCHANGED <<volumes, cleanupErr>>
       \/ v \notin Memory /\ ~InUse /\ volumes' = volumes \ {v} /\ UNCHANGED cleanupErr
       \/ v \notin Memory /\ InUse /\ UNCHANGED <<volumes, cleanupErr>>
       \/ /\ v \in volumes \ Memory /\ ~InUse
          /\ cleanupErr' = TRUE /\ UNCHANGED volumes
    /\ UNCHANGED <<phase, netErr, network, container, cancelled, deferTail, runVars>>

\* The daemon refuses to remove a network with a running container on it.
RemoveNetwork ==
    /\ phase = "unlink"
    /\ phase' = "gone"
    /\ \/ (\A c \in Container : container[c] # "running") /\ network' = FALSE
          /\ UNCHANGED cleanupErr
       \/ (\E c \in Container : container[c] = "running")
          /\ UNCHANGED <<network, cleanupErr>>
       \/ network /\ cleanupErr' = TRUE /\ UNCHANGED network
    /\ UNCHANGED <<netErr, todo, volumes, container, cancelled, deferTail, runVars>>

BugVolumeLoop ==            \* loops over the wrong list
    /\ \/ NextLoop("stop", "remove", Container)
       \/ NextLoop("remove", "volumes", Container)
       \/ NextLoop("volumes", "unlink", {})
    /\ UNCHANGED <<netErr, volumes, network, cleanupErr, container, cancelled,
                   deferTail, runVars>>

DestroyLoops ==
    /\ \/ NextLoop("stop", "remove", Container)
       \/ NextLoop("remove", "volumes", Volume)
       \/ NextLoop("volumes", "unlink", {})
    /\ UNCHANGED <<netErr, volumes, network, cleanupErr, container, cancelled,
                   deferTail, runVars>>

-----------------------------------------------------------------------------
RunNext(s) ==
    Create(s) \/ StartContainer(s) \/ Tail(s) \/ CopyEnds(s) \/ WaitRetry(s)

SetupNext == MakeOutputDirs \/ VolumeCreate \/ NetworkCreate \/ InternalStep \/ SetupEnd

DestroyNext ==
    \/ DestroyCall \/ DestroyLoops \/ RemoveNetwork
    \/ \E c \in Container : StopContainer(c) \/ RemoveContainer(c)
    \/ \E v \in Volume : RemoveVolume(v)

Next ==
    \/ SetupNext
    \/ \E s \in Step : RunCall(s) \/ RunNext(s)
    \/ \E c \in Container : ContainerExits(c)
    \/ Cancel
    \/ DestroyNext

Spec == Init /\ [][Next]_vars

\* A Run that nothing but time keeps waiting, or copying the log.
Patient(s) ==
    run[s] \in {"draining", "waiting"} /\ container[s] = "running" /\ ~cancelled

\* Goroutines run and calls to the daemon return; no container has to exit.
FairSpec ==
    /\ Spec
    /\ WF_vars(SetupNext) /\ WF_vars(DestroyNext)
    /\ \A s \in Step : WF_vars(~Patient(s) /\ RunNext(s))

-----------------------------------------------------------------------------
TypeOK ==
    /\ phase \in {"dirs", "new", "network", "internal", "ready", "failed"} \cup Destroying
    /\ netErr \in BOOLEAN
    /\ todo \subseteq IF phase \in {"dirs", "new", "volumes"} THEN Volume
                     ELSE IF phase = "failed" THEN Volume \cup Internal
                     ELSE Container
    /\ container \in [Container -> {"absent", "created", "running", "exited"}]
    /\ volumes \subseteq Volume
    /\ network \in BOOLEAN
    /\ cancelled \in BOOLEAN
    /\ deferTail \in BOOLEAN
    /\ run \in [Step -> {"idle", "creating", "starting", "tailing", "draining",
                        "waiting", "returned"}]
    /\ ret \in [Step -> {"none", "exited", "error"}]
    /\ log \in [Step -> {"none", "streaming", "complete", "broken"}]
    /\ cleanupErr \in BOOLEAN

\* A step's container exists, before the clean-up, only in an environment that
\* Setup built whole: all its volumes and its network, although the error of
\* the network is kept through the internal steps.
StepsHaveTheirEnvironment ==
    phase = "ready" =>
        \A s \in Step :
            container[s] # "absent" => volumes = Volume /\ network

\* Run reports an exit only of a container that has stopped by then: neither an
\* interrupted wait call nor a cancellation is taken for the end of the step.
ExitIsReal ==
    [][\A s \in Step :
          ret[s] = "none" /\ ret'[s] = "exited" => container[s] = "exited"]_vars

\* When every removal the daemon accepts succeeds, what Destroy leaves behind
\* is at most a container that the Run of a detached step created after its
\* removal was tried, what that container uses, and the volumes of medium
\* "memory": lost replies and failures in the middle of Setup or Run leave
\* nothing.
NothingLeftBehind ==
    phase = "gone" /\ ~cleanupErr =>
        /\ {c \in Container : container[c] # "absent"} \subseteq Detached
        /\ ~InUse => volumes \subseteq Memory /\ ~network

\* engine.go, Destroy: "tempfs volumes do not have a volume entry, and
\* therefore do not require removal", so not one is left behind.
NoVolumeLeftBehind ==
    phase = "gone" /\ ~cleanupErr /\ ~InUse => volumes = {}

\* engine.go, Run: the deferred tail "closes logging as the last step".  With
\* it, no copy is under way any more when Run returns and the executor closes
\* the log, whichever call failed and whenever the build was cancelled; and a
\* Run that reports an exit has copied the whole log, unless the copy broke off.
LoggingClosedLast ==
    \A s \in Step : deferTail /\ run[s] = "returned" =>
        /\ log[s] # "streaming"
        /\ ret[s] = "exited" => log[s] \in {"complete", "broken"}

\* No goroutine outlives its pipeline for ever: after Destroy was called every
\* Run returns, the detached ones too, whose containers Destroy takes away.
RunsEnd == phase = "stop" ~> \A s \in Step : run[s] \in {"idle", "returned"}
=============================================================================
