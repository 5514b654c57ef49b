------------------------------- MODULE Runner -------------------------------
(***************************************************************************)
(* The two commands that run pipelines: daemon (command/daemon/daemon.go)   *)
(* polls the server with a number of threads until a signal comes; process  *)
(* (command/daemon/process.go) runs one stage it is given and ends.  Both   *)
(* take a stage through match, Compile and Exec, which hand each other the  *)
(* resources of the stage: the pipeline in the output service, the listener *)
(* of the unix transport, the docker environment.                          *)
(*                                                                         *)
(* The poller and the life of a stage between these parts are runner-go's,  *)
(* modelled from how this code calls them.  Compile and Exec are one action *)
(* per part that touches the resources; Compiler, Execer and DockerEngine   *)
(* have the rest.  A cancelled or timed out stage differs in that calls to  *)
(* the server fail, which they may do at any time.                         *)
(***************************************************************************)
EXTENDS Integers, FiniteSets

CONSTANTS
    Stage,      \* stages of builds
    Thread,     \* polling threads, DRONE_RUNNER_CAPACITY of them
    Build,      \* Build[s]: [slug, event, trusted] of a stage
    Glob,       \* pairs <<pattern, name>> that filepath.Match accepts
    Configs     \* the settings to start with

\* repos, events, trusted: the limits.  bind, advertise: DRONE_OUTPUT_HTTP_...
\* is set.
ASSUME ConfigsAssumption ==
    \A c \in Configs :
        /\ c.command \in {"daemon", "process"}
        /\ {c.bind, c.advertise, c.trusted} \subseteq BOOLEAN
        /\ IsFiniteSet(c.repos) /\ IsFiniteSet(c.events)
ASSUME BuildAssumption == \A s \in Stage : Build[s].trusted \in BOOLEAN

VARIABLES
    config,     \* Config
    main,       \* where the command's main goroutine is
    signal,     \* a signal came: ctx is done
    outputs,    \* the http server of the outputs
    thread,     \* thread[t]: [at |-> ...], with the stage it runs
    server,     \* server[s]: what the drone server has of a stage
    missed,     \* missed[s]: the call to the server that failed, or "none"
    phase,      \* phase[s]: the stage's pipeline in the output service
    listening,  \* stages with a unix listener
    created,    \* stages whose environment was set up and not yet destroyed
    refused     \* <<s, outputs>>: a publication of s that nobody answered

resources == <<phase, listening, created>>
vars == <<config, main, signal, outputs, thread, server, missed, resources, refused>>

Polling == [at |-> "polling"]
Off     == [at |-> "off"]
Holds(t, s) == thread[t] \notin {Off, Polling} /\ thread[t].stage = s
Free(t) == thread[t] \in {Off, Polling}

Init ==
    /\ config \in Configs
    /\ main = IF config.command = "daemon" THEN "ping" ELSE "start"
    /\ signal = FALSE
    /\ outputs = "off"
    /\ thread = [t \in Thread |-> Off]
    /\ server = [s \in Stage |-> "pending"]
    /\ missed = [s \in Stage |-> "none"]
    /\ phase = [s \in Stage |-> "new"]
    /\ listening = {} /\ created = {} /\ refused = {}

\* Definitions named Bug... are plausible mistakes in the definition that
\* follows them; no specification uses them.

-----------------------------------------------------------------------------
(* The settings *)

MatchList(name, patterns) ==
    patterns = {} \/ \E p \in patterns : <<p, name>> \in Glob

\* Func.  The process command has no limits.
Match(s) ==
    config.command = "daemon" =>
        /\ config.trusted => Build[s].trusted
        /\ MatchList(Build[s].slug, config.repos)
        /\ MatchList(Build[s].event, config.events)

BugConfiguredOutputHTTPURL == config.advertise  \* bound or not

\* Whether steps can be told a URL.
ConfiguredOutputHTTPURL == config.bind /\ config.advertise

-----------------------------------------------------------------------------
(* The main goroutine *)

\* Until docker answers.  A ping that the signal cuts short ends the loop like
\* one that succeeds.
PingDocker ==
    /\ main = "ping"
    /\ main' \in {"start"} \cup IF signal THEN {"exited"} ELSE {}
    /\ UNCHANGED <<config, signal, outputs, thread, server, missed, resources, refused>>

\* The helper is installed or the command fails; the servers are started.
\* process goes straight on to its stage, which it takes for accepted.
Start ==
    /\ main = "start"
    /\ \/ main' = "exited" /\ UNCHANGED <<outputs, thread, server>>
       \/ /\ outputs' = IF config.bind THEN "starting" ELSE "off"
          /\ IF config.command = "daemon"
             THEN main' = "remote" /\ UNCHANGED <<thread, server>>
             ELSE /\ main' = "process"
                  /\ \E t \in Thread, s \in Stage :
                        /\ thread' = [thread EXCEPT ![t] = [at |-> "accepted", stage |-> s]]
                        /\ server' = [server EXCEPT ![s] = "accepted"]
    /\ UNCHANGED <<config, signal, missed, resources, refused>>

\* Until the server answers; then the poller starts its threads.
PingRemote ==
    /\ main = "remote"
    /\ IF signal THEN main' = "exited" /\ UNCHANGED thread
       ELSE main' = "wait" /\ thread' = [t \in Thread |-> Polling]
    /\ UNCHANGED <<config, signal, outputs, server, missed, resources, refused>>

BugWait ==                  \* the poller is not in the group
    /\ main = "wait"
    /\ signal /\ outputs \notin {"starting", "serving"}
    /\ main' = "exited"
    /\ UNCHANGED <<config, signal, outputs, thread, server, missed, resources, refused>>

\* g.Wait: the threads of the poller and the servers have ended.
Wait ==
    /\ main = "wait"
    /\ signal /\ outputs \notin {"starting", "serving"}
    /\ \A t \in Thread : thread[t] = Off
    /\ main' = "exited"
    /\ UNCHANGED <<config, signal, outputs, thread, server, missed, resources, refused>>

\* RunAccepted returned: process shuts its http server down and ends.
EndProcess ==
    /\ main = "process"
    /\ \A t \in Thread : Free(t)
    /\ main' = "exited"
    /\ outputs' = "off"
    /\ UNCHANGED <<config, signal, thread, server, missed, resources, refused>>

\* SIGTERM.  process does not catch it, see Kill.
Signal ==
    /\ config.command = "daemon" /\ ~signal /\ main # "exited"
    /\ signal' = TRUE
    /\ UNCHANGED <<config, main, outputs, thread, server, missed, resources, refused>>

\* SIGKILL, a fatal error, a second signal: what is outside the process stays.
Kill ==
    /\ main \notin {"exited", "killed"}
    /\ main' = "killed"
    /\ UNCHANGED <<config, signal, outputs, thread, server, missed, resources, refused>>

-----------------------------------------------------------------------------
(* The outputs' http server *)

\* An error of the bind stays in the errgroup until g.Wait; process drops it.
ServeOutputs ==
    /\ outputs = "starting"
    /\ outputs' \in {"serving", "failed"}
    /\ UNCHANGED <<config, main, signal, thread, server, missed, resources, refused>>

BugShutdownOutputs == FALSE /\ UNCHANGED vars   \* nobody waits for the signal

\* At once: pipelines that still run are not waited for.
ShutdownOutputs ==
    /\ signal /\ outputs \in {"starting", "serving"}
    /\ outputs' = "closed"
    /\ UNCHANGED <<config, main, signal, thread, server, missed, resources, refused>>

-----------------------------------------------------------------------------
(* A thread of the poller, and Runner.Run *)

Go(t, s, at) == thread' = [thread EXCEPT ![t] = [at |-> at, stage |-> s]]
Poll(t)      == thread' = [thread EXCEPT ![t] = IF config.command = "daemon"
                                                THEN Polling ELSE Off]

StopPolling(t) ==
    /\ signal /\ thread[t] = Polling
    /\ thread' = [thread EXCEPT ![t] = Off]
    /\ UNCHANGED <<config, main, signal, outputs, server, missed, resources, refused>>

\* The server may offer a stage to several threads and runners.
Request(t) ==
    /\ ~signal /\ thread[t] = Polling
    /\ \E s \in Stage : server[s] = "pending" /\ Go(t, s, "offered")
    /\ UNCHANGED <<config, main, signal, outputs, server, missed, resources, refused>>

BugAccept(t) ==             \* RunAccepted for Dispatch
    /\ thread[t].at = "offered"
    /\ Go(t, thread[t].stage, "accepted")
    /\ server' = [server EXCEPT ![thread[t].stage] = "accepted"]
    /\ UNCHANGED <<config, main, signal, outputs, missed, resources, refused>>

\* Dispatch is Run, which begins with an Accept under an optimistic lock; from
\* then on the stage runs on when ctx is done.  The call may fail before or
\* after it took effect.
Accept(t) ==
    LET s == thread[t].stage
    IN  /\ thread[t].at = "offered"
        /\ \/ /\ server[s] = "pending"
              /\ server' = [server EXCEPT ![s] = "accepted"]
              /\ \/ Go(t, s, "accepted") /\ UNCHANGED missed
                 \/ Poll(t) /\ missed' = [missed EXCEPT ![s] = "accept"]
           \/ Poll(t) /\ UNCHANGED <<server, missed>>
        /\ UNCHANGED <<config, main, signal, outputs, resources, refused>>

TakenElsewhere(s) ==
    /\ server[s] = "pending"
    /\ server' = [server EXCEPT ![s] = "other"]
    /\ UNCHANGED <<config, main, signal, outputs, thread, missed, resources, refused>>

\* RunAccepted gives up on a stage when a call to the server fails.
Miss(t, calls) ==
    /\ thread[t].at \in DOMAIN calls
    /\ missed' = [missed EXCEPT ![thread[t].stage] = calls[thread[t].at]]

GiveUp(t) ==
    /\ Miss(t, [accepted |-> "detail", compiled |-> "update", refusing |-> "report"])
    /\ Poll(t)
    /\ UNCHANGED <<config, main, signal, outputs, server, resources, refused>>

\* Detail, then match; what does not match, cannot be parsed or does not pass
\* the linter is reported as failed.
Detail(t) ==
    /\ thread[t].at = "accepted"
    /\ \/ Go(t, thread[t].stage, "refusing")
       \/ Match(thread[t].stage) /\ Go(t, thread[t].stage, "compiling")
    /\ UNCHANGED <<config, main, signal, outputs, server, missed, resources, refused>>

Refuse(t) ==
    /\ thread[t].at = "refusing"
    /\ server' = [server EXCEPT ![thread[t].stage] = "finished"]
    /\ Poll(t)
    /\ UNCHANGED <<config, main, signal, outputs, missed, resources, refused>>

BugTransports == {"file", "unix", "http", "auto"}   \* "auto" is not resolved

\* What Compile may choose; see Compiler for when it does.
Transports == {"file", "unix", "http"}

\* Compile opens the listener and registers the pipeline with the transport it
\* chose.
Compile(t) ==
    LET s == thread[t].stage
    IN  /\ thread[t].at = "compiling"
        /\ \E mode \in Transports :
            /\ mode = "http" => ConfiguredOutputHTTPURL
            /\ thread' = [thread EXCEPT ![t] =
                             [at |-> "compiled", stage |-> s, mode |-> mode]]
            /\ listening' = IF mode = "unix" THEN listening \cup {s} ELSE listening
            /\ phase' = IF mode = "file" THEN phase ELSE [phase EXCEPT ![s] = "open"]
        /\ UNCHANGED <<config, main, signal, outputs, server, missed, created, refused>>

Update(t) ==
    /\ thread[t].at = "compiled"
    /\ server' = [server EXCEPT ![thread[t].stage] = "running"]
    /\ thread' = [thread EXCEPT ![t].at = "updated"]
    /\ UNCHANGED <<config, main, signal, outputs, missed, resources, refused>>

-----------------------------------------------------------------------------
(* Exec *)

BugSetup(t) ==              \* a failed Setup is returned, not reported
    /\ thread[t].at = "updated"
    /\ created' = created \cup {thread[t].stage}
    /\ \E at \in {"executing", "cleaning"} : thread' = [thread EXCEPT ![t].at = at]
    /\ UNCHANGED <<config, main, signal, outputs, server, missed, phase, listening, refused>>

\* A Setup that fails may have created a part of the environment.
Setup(t) ==
    /\ thread[t].at = "updated"
    /\ created' = created \cup {thread[t].stage}
    /\ \E at \in {"executing", "reporting"} : thread' = [thread EXCEPT ![t].at = at]
    /\ UNCHANGED <<config, main, signal, outputs, server, missed, phase, listening, refused>>

\* A step of a pipeline that was told the URL publishes.
Publish(t) ==
    /\ thread[t].at = "executing" /\ thread[t].mode = "http"
    /\ outputs # "serving"
    /\ refused' = refused \cup {<<thread[t].stage, outputs>>}
    /\ UNCHANGED <<config, main, signal, outputs, thread, server, missed, resources>>

\* Execer: the graph ends, the stage being cancelled or not.
StepsEnd(t) ==
    /\ thread[t].at = "executing"
    /\ thread' = [thread EXCEPT ![t].at = "reporting"]
    /\ UNCHANGED <<config, main, signal, outputs, server, missed, resources, refused>>

\* ReportStage: the stage is over for the server before it is cleaned up.
ReportStage(t) ==
    /\ thread[t].at = "reporting"
    /\ thread' = [thread EXCEPT ![t].at = "cleaning"]
    /\ \/ server' = [server EXCEPT ![thread[t].stage] = "finished"] /\ UNCHANGED missed
       \/ Miss(t, [reporting |-> "report"]) /\ UNCHANGED server
    /\ UNCHANGED <<config, main, signal, outputs, resources, refused>>

BugCleanUp(t) ==            \* leaves the pipeline to the TTL
    /\ thread[t].at = "cleaning"
    /\ listening' = listening \ {thread[t].stage}
    /\ created' = created \ {thread[t].stage}
    /\ Poll(t)
    /\ UNCHANGED <<config, main, signal, outputs, server, missed, phase, refused>>

\* The deferred function of Exec.
CleanUp(t) ==
    LET s == thread[t].stage
    IN  /\ thread[t].at = "cleaning"
        /\ listening' = listening \ {s}
        /\ phase' = [phase EXCEPT ![s] = IF @ = "open" THEN "closed" ELSE @]
        /\ created' = created \ {s}
        /\ Poll(t)
        /\ UNCHANGED <<config, main, signal, outputs, server, missed, refused>>

-----------------------------------------------------------------------------
MainNext == PingDocker \/ Start \/ PingRemote \/ Wait \/ EndProcess

OutputsNext == ServeOutputs \/ ShutdownOutputs

\* A pipeline's own steps: every call ends, with an error if need be.
RunNext(t) ==
    \/ Accept(t) \/ Detail(t) \/ GiveUp(t) \/ Refuse(t) \/ Compile(t) \/ Update(t)
    \/ Setup(t) \/ StepsEnd(t) \/ ReportStage(t) \/ CleanUp(t)

Alive == main \notin {"exited", "killed"}

Next ==
    /\ Alive
    /\ \/ MainNext \/ OutputsNext \/ Signal \/ Kill
       \/ \E t \in Thread : StopPolling(t) \/ Request(t) \/ RunNext(t) \/ Publish(t)
       \/ \E s \in Stage : TakenElsewhere(s)

\* Docker and the server need never answer a ping, and no signal need come: but
\* a ping that a signal interrupts returns.  Steps end: their stage has a
\* timeout (see Execer for what that takes).
Fairness ==
    /\ WF_vars(Alive /\ signal /\ (PingDocker \/ PingRemote))
    /\ WF_vars(Alive /\ (Start \/ Wait \/ EndProcess))
    /\ WF_vars(Alive /\ OutputsNext)
    /\ \A t \in Thread : WF_vars(Alive /\ StopPolling(t)) /\ WF_vars(Alive /\ RunNext(t))

Spec == Init /\ [][Next]_vars /\ Fairness

-----------------------------------------------------------------------------
TypeOK ==
    /\ config \in Configs
    /\ main \in {"ping", "start", "remote", "wait", "process", "exited", "killed"}
    /\ signal \in BOOLEAN
    /\ outputs \in {"off", "starting", "serving", "failed", "closed"}
    /\ \A t \in Thread : ~Free(t) =>
          /\ thread[t].stage \in Stage
          /\ thread[t].at \in {"offered", "accepted", "refusing", "compiling",
                               "compiled", "updated", "executing", "reporting",
                               "cleaning"}
          /\ thread[t].at \in {"compiled", "updated", "executing", "reporting",
                               "cleaning"} => thread[t].mode \in {"file", "unix", "http"}
    /\ server \in [Stage -> {"pending", "other", "accepted", "running", "finished"}]
    /\ missed \in [Stage -> {"none", "accept", "detail", "update", "report"}]
    /\ phase \in [Stage -> {"new", "open", "closed"}]
    /\ listening \cup created \subseteq Stage

\* What Compile opened for a stage, its pipeline in the output service and its
\* listener, is closed again when the stage's thread goes on to the next one;
\* only when the server cannot be told that the stage runs is it left open.
NothingOutlivesItsStage ==
    \A s \in Stage :
        s \in listening \cup created \/ phase[s] = "open" =>
            \/ \E t \in Thread : Holds(t, s)
            \/ missed[s] = "update" /\ s \notin created

\* The daemon ends gracefully: no thread is in the middle of a stage and no
\* environment is left in docker when it exits of itself, whenever the signal
\* came.
ExitsDrained ==
    main = "exited" => created = {} /\ \A t \in Thread : Free(t)

\* A step that was told the URL finds the outputs' server there, except when
\* the server could not bind or is not up yet, which nobody notices, and, in the
\* daemon, after a signal, although the step's pipeline is allowed to finish.
RefusedOnlyAtTheEdges ==
    \A r \in refused : r[2] \in {"starting", "failed"} \/ (r[2] = "closed" /\ signal)

\* After a signal the daemon ends, whatever it was doing.
DaemonStops == signal ~> ~Alive

\* A stage that a thread took on ends for the server too: it is finished, or
\* one of the calls that say so has failed, or the process was killed.
StagesSettle ==
    \A s \in Stage :
        (\E t \in Thread : Holds(t, s) /\ thread[t].at # "offered")
            ~> (server[s] = "finished" \/ missed[s] # "none" \/ main = "killed")

\* The output service is used as its specification takes for granted: every
\* pipeline is opened at most once, and closed at most once and only then.
Store == INSTANCE OutputStore WITH
            Key <- {}, Value <- {}, Below <- {}, Pipeline <- Stage, Step <- {},
            Publisher <- {}, Batch <- {},
            store <- [t \in {} |-> {}], req <- [w \in {} |-> {}]

UsesTheStore == Store!Spec
=============================================================================
