-------------------------- MODULE DockerEngineProofs --------------------------
(***************************************************************************)
(* Theorems about DockerEngine for every set of steps, internal steps and   *)
(* volumes, whichever of them are detached or of medium "memory".           *)
(***************************************************************************)
EXTENDS DockerEngine, TLAPS

-----------------------------------------------------------------------------
(* What each part of the engine leaves so at every call *)

\* Setup: what the loops have behind them is there.  The loop over the internal
\* steps has only those to do, which TypeOK alone does not say.
SetupInv ==
    /\ phase \in {"dirs", "new"} => Volume \ todo \subseteq volumes
    /\ phase \in {"network", "internal", "ready"} => volumes = Volume
    /\ phase = "internal" => todo \subseteq Internal /\ (network \/ netErr)
    /\ phase = "ready" => network

\* Run: it has returned something only when it has returned, and with the
\* deferred tail it waits for the exit only after the copy has ended.
RunInv ==
    /\ \A s \in Step :
          /\ ret[s] # "none" => run[s] = "returned"
          /\ log[s] # "none" => run[s] \in {"draining", "waiting", "returned"}
          /\ deferTail /\ run[s] = "waiting" => log[s] \in {"complete", "broken"}
    /\ LoggingClosedLast

Gone(c) == container[c] = "absent"

\* Destroy: only detached steps are still run, only their containers may still
\* appear, and a container that is there after the loop over the containers
\* stays, and with it what it uses.
DestroyInv ==
    /\ phase \in Destroying =>
          \A s \in Step \ Detached : run[s] \in {"idle", "returned"}
    /\ phase = "remove" /\ ~cleanupErr =>
          \A c \in Container \ (Detached \cup todo) : Gone(c)
    /\ phase \in {"volumes", "unlink", "gone"} /\ ~cleanupErr =>
          \A c \in Container \ Detached : Gone(c)
    /\ phase = "volumes" /\ ~cleanupErr /\ ~InUse => volumes \subseteq Memory \cup todo
    /\ phase \in {"unlink", "gone"} /\ ~cleanupErr /\ ~InUse => volumes \subseteq Memory
    /\ phase = "gone" /\ ~cleanupErr /\ ~InUse => ~network

IInv == TypeOK /\ SetupInv /\ RunInv /\ DestroyInv

-----------------------------------------------------------------------------
(* Types *)

LEMMA InitType == Init => TypeOK
<1> SUFFICES ASSUME Init PROVE TypeOK
  OBVIOUS
<1>1. todo \subseteq IF phase \in {"dirs", "new", "volumes"} THEN Volume
                     ELSE IF phase = "failed" THEN Volume \cup Internal
                     ELSE Container
  BY DEF Init
<1> QED
  BY <1>1 DEF Init, TypeOK

LEMMA SetupType ==
  ASSUME TypeOK, SetupInv, SetupNext
  PROVE  TypeOK'
<1>1. CASE VolumeCreate
  BY <1>1 DEF TypeOK, VolumeCreate, Destroying, runVars
<1>2. CASE NetworkCreate
  BY <1>2 DEF TypeOK, NetworkCreate, Container, Destroying, runVars
<1>3. CASE InternalStep
  BY <1>3 DEF TypeOK, SetupInv, InternalStep, Container, Destroying, runVars
<1>4. CASE SetupEnd
  BY <1>4 DEF TypeOK, SetupEnd, Destroying, setupVars, runVars
<1>5. CASE MakeOutputDirs
  BY <1>5 DEF TypeOK, MakeOutputDirs, Container, Destroying, setupVars, runVars
<1> QED
  BY <1>1, <1>2, <1>3, <1>4, <1>5 DEF SetupNext

LEMMA RunType ==
  ASSUME TypeOK, NEW s \in Step, RunCall(s) \/ RunNext(s)
  PROVE  TypeOK'
<1>1. CASE RunCall(s)
  BY <1>1 DEF TypeOK, RunCall, At, setupVars
<1>2. CASE Create(s)
  BY <1>2 DEF TypeOK, Create, At, Returns, setupVars, Container
<1>3. CASE StartContainer(s)
  BY <1>3 DEF TypeOK, StartContainer, At, Returns, setupVars, Container
<1>4. CASE Tail(s)
  BY <1>4 DEF TypeOK, Tail, At, Returns, setupVars
<1>5. CASE CopyEnds(s)
  BY <1>5 DEF TypeOK, CopyEnds, At, setupVars
<1>6. CASE WaitRetry(s)
  BY <1>6 DEF TypeOK, WaitRetry, At, Returns, setupVars
<1> QED
  BY <1>1, <1>2, <1>3, <1>4, <1>5, <1>6 DEF RunNext

LEMMA DestroyType ==
  ASSUME TypeOK, DestroyNext
  PROVE  TypeOK'
<1>1. CASE DestroyCall
  BY <1>1 DEF TypeOK, DestroyCall, Destroying, runVars
<1>2. CASE DestroyLoops
  BY <1>2 DEF TypeOK, DestroyLoops, NextLoop, Destroying, runVars
<1>3. CASE RemoveNetwork
  BY <1>3 DEF TypeOK, RemoveNetwork, Destroying, runVars
<1>4. ASSUME NEW c \in Container, StopContainer(c)
      PROVE  TypeOK'
  BY <1>4 DEF TypeOK, StopContainer, Destroying, runVars
<1>5. ASSUME NEW c \in Container, RemoveContainer(c)
      PROVE  TypeOK'
  BY <1>5 DEF TypeOK, RemoveContainer, Destroying, runVars
<1>6. ASSUME NEW v \in Volume, RemoveVolume(v)
      PROVE  TypeOK'
  BY <1>6 DEF TypeOK, RemoveVolume, Destroying, runVars
<1> QED
  BY <1>1, <1>2, <1>3, <1>4, <1>5, <1>6 DEF DestroyNext

LEMMA NextType ==
  ASSUME TypeOK, SetupInv, [Next]_vars
  PROVE  TypeOK'
<1>1. ASSUME NEW c \in Container, ContainerExits(c)
      PROVE  TypeOK'
  BY <1>1 DEF TypeOK, ContainerExits, setupVars, runVars
<1>2. CASE Cancel
  BY <1>2 DEF TypeOK, Cancel, setupVars, runVars
<1>3. CASE UNCHANGED vars
  BY <1>3 DEF TypeOK, InUse, vars, setupVars, runVars
<1> QED
  BY <1>1, <1>2, <1>3, SetupType, RunType, DestroyType DEF Next

-----------------------------------------------------------------------------
(* Setup *)

LEMMA NextSetup ==
  ASSUME TypeOK, SetupInv, [Next]_vars
  PROVE  SetupInv'
<1>1. CASE VolumeCreate
  BY <1>1 DEF TypeOK, SetupInv, VolumeCreate
<1>2. CASE NetworkCreate
  BY <1>2 DEF TypeOK, SetupInv, NetworkCreate
<1>3. CASE InternalStep
  BY <1>3 DEF TypeOK, SetupInv, InternalStep
<1>4. CASE SetupEnd
  BY <1>4 DEF SetupInv, SetupEnd, setupVars
<1>9. CASE MakeOutputDirs
  BY <1>9 DEF TypeOK, SetupInv, MakeOutputDirs, setupVars
<1>5. ASSUME UNCHANGED <<phase, setupVars>> PROVE SetupInv'
  BY <1>5 DEF SetupInv, setupVars
<1>6. ASSUME phase \in Destroying \cup {"ready", "failed"}, phase' \in Destroying
      PROVE  SetupInv'
  BY <1>6 DEF SetupInv, Destroying
<1>7. CASE DestroyNext
  BY <1>6, <1>7 DEF DestroyNext, DestroyCall, DestroyLoops, NextLoop, RemoveNetwork,
                    StopContainer, RemoveContainer, RemoveVolume, Destroying
<1> QED
  BY <1>1, <1>2, <1>3, <1>4, <1>5, <1>7, <1>9
     DEF Next, SetupNext, RunCall, RunNext, Create, StartContainer, Tail, CopyEnds,
         WaitRetry, ContainerExits, Cancel, vars

-----------------------------------------------------------------------------
(* Run *)

LEMMA NextRun ==
  ASSUME TypeOK, RunInv, [Next]_vars
  PROVE  RunInv'
<1>1. ASSUME NEW s \in Step, Create(s) PROVE RunInv'
  BY <1>1 DEF TypeOK, RunInv, LoggingClosedLast, Create, At, Returns
<1>2. ASSUME NEW s \in Step, StartContainer(s) PROVE RunInv'
  BY <1>2 DEF TypeOK, RunInv, LoggingClosedLast, StartContainer, At, Returns
<1>3. ASSUME NEW s \in Step, Tail(s) PROVE RunInv'
  BY <1>3 DEF TypeOK, RunInv, LoggingClosedLast, Tail, At, Returns
<1>4. ASSUME NEW s \in Step, CopyEnds(s) PROVE RunInv'
  BY <1>4 DEF TypeOK, RunInv, LoggingClosedLast, CopyEnds, At
<1>5. ASSUME NEW s \in Step, WaitRetry(s) PROVE RunInv'
  BY <1>5 DEF TypeOK, RunInv, LoggingClosedLast, WaitRetry, At, Returns
<1>6. ASSUME NEW s \in Step, RunCall(s) PROVE RunInv'
  BY <1>6 DEF TypeOK, RunInv, LoggingClosedLast, RunCall, At
<1>7. ASSUME UNCHANGED <<runVars, deferTail>>, cancelled => cancelled'
      PROVE  RunInv'
  BY <1>7 DEF RunInv, LoggingClosedLast, runVars
<1>8. CASE SetupNext \/ DestroyNext \/ Cancel \/ UNCHANGED vars
  BY <1>7, <1>8
     DEF SetupNext, MakeOutputDirs, VolumeCreate, NetworkCreate, InternalStep, SetupEnd,
         DestroyNext, DestroyCall, DestroyLoops, RemoveNetwork, StopContainer,
         RemoveContainer, RemoveVolume, Cancel, vars
<1>9. ASSUME NEW c \in Container, ContainerExits(c) PROVE RunInv'
  BY <1>7, <1>9 DEF ContainerExits
<1> QED
  BY <1>1, <1>2, <1>3, <1>4, <1>5, <1>6, <1>8, <1>9 DEF Next, RunNext
-----------------------------------------------------------------------------
(* Destroy *)

\* A step that changes neither where Destroy is nor what it looks at, and lets
\* no container of the pipeline's own appear, keeps its invariant.
LEMMA DestroyKept ==
  ASSUME TypeOK, DestroyInv,
         UNCHANGED <<phase, todo, volumes, network, cleanupErr>>,
         \A s \in Step \ Detached :
            run[s] \in {"idle", "returned"} => run'[s] \in {"idle", "returned"}
                                               \/ phase \notin Destroying,
         phase \in Destroying => \A c \in Container \ Detached : Gone(c) => Gone(c)',
         \A c \in Container : ~Gone(c) => ~Gone(c)'
  PROVE  DestroyInv'
<1>1. \A c \in Container : Gone(c) <=> container[c] = "absent"
  BY DEF Gone
<1>2. InUse => InUse'
  BY DEF Gone, InUse
<1> QED
  BY <1>2 DEF DestroyInv, Destroying

\* What a call of Run does to the containers and to the other Runs.
LEMMA RunEffect ==
  ASSUME TypeOK, NEW s \in Step, RunCall(s) \/ RunNext(s)
  PROVE  /\ UNCHANGED <<phase, todo, volumes, network, cleanupErr>>
         /\ \A t \in Step \ {s} : run'[t] = run[t]
         /\ \A c \in Container \ {s} : container'[c] = container[c]
         /\ ~Gone(s) => ~Gone(s)'
         /\ run[s] \in {"idle", "returned"} =>
               phase = "ready" \/ (run'[s] = run[s] /\ container'[s] = container[s])
<1>1. CASE RunCall(s)
  BY <1>1 DEF TypeOK, RunCall, At, Gone, setupVars
<1>2. CASE Create(s)
  BY <1>2 DEF TypeOK, Create, At, Returns, Gone, setupVars, Container
<1>3. CASE StartContainer(s)
  BY <1>3 DEF TypeOK, StartContainer, At, Returns, Gone, setupVars, Container
<1>4. CASE Tail(s)
  BY <1>4 DEF TypeOK, Tail, At, Returns, Gone, setupVars
<1>5. CASE CopyEnds(s)
  BY <1>5 DEF TypeOK, CopyEnds, At, Gone, setupVars
<1>6. CASE WaitRetry(s)
  BY <1>6 DEF TypeOK, WaitRetry, At, Returns, Gone, setupVars
<1> QED
  BY <1>1, <1>2, <1>3, <1>4, <1>5, <1>6 DEF RunNext

LEMMA RunDestroy ==
  ASSUME TypeOK, DestroyInv, NEW s \in Step, RunCall(s) \/ RunNext(s)
  PROVE  DestroyInv'
<1>1. s \in Container /\ Detached \subseteq Step
  BY StepsAssumption DEF Container
<1>2. CASE phase \notin Destroying
  BY <1>2, RunEffect DEF DestroyInv, Destroying
<1>3. CASE phase \in Destroying
  <2>1. s \notin Detached => run'[s] = run[s] /\ container'[s] = container[s]
                            /\ run[s] \in {"idle", "returned"}
    BY <1>3, RunEffect DEF DestroyInv, Destroying
  <2>2. \A t \in Step \ Detached : run'[t] \in {"idle", "returned"}
    BY <1>3, <2>1, RunEffect DEF DestroyInv
  <2>3. \A c \in Container \ Detached : Gone(c) => Gone(c)'
    BY <1>1, <2>1, RunEffect DEF Gone, Container
  <2>4. \A c \in Container : ~Gone(c) => ~Gone(c)'
    BY RunEffect DEF Gone
  <2> QED
    BY <2>2, <2>3, <2>4, RunEffect, DestroyKept
<1> QED
  BY <1>2, <1>3

LEMMA NextDestroy ==
  ASSUME TypeOK, DestroyInv, [Next]_vars
  PROVE  DestroyInv'
<1>1. CASE SetupNext
  <2>1. phase \notin Destroying /\ phase' \notin Destroying
    BY <1>1 DEF SetupNext, MakeOutputDirs, VolumeCreate, NetworkCreate, InternalStep, SetupEnd, Destroying
  <2> QED
    BY <2>1 DEF DestroyInv, Destroying
<1>2. ASSUME NEW s \in Step, RunCall(s) \/ RunNext(s)
      PROVE  DestroyInv'
  BY <1>2, RunDestroy
<1>3. ASSUME NEW c \in Container, ContainerExits(c)
      PROVE  DestroyInv'
  BY <1>3, DestroyKept DEF TypeOK, ContainerExits, Gone, setupVars, runVars
<1>4. CASE Cancel \/ UNCHANGED vars
  BY <1>4, DestroyKept DEF Cancel, Gone, setupVars, runVars, vars
<1>5. CASE DestroyCall
  BY <1>5 DEF TypeOK, DestroyInv, DestroyCall, Destroying, runVars
<1>6. CASE DestroyLoops
  BY <1>6, MemoryAssumption
     DEF TypeOK, DestroyInv, DestroyLoops, NextLoop, Destroying, Gone, InUse, runVars
<1>7. CASE RemoveNetwork
  BY <1>7 DEF TypeOK, DestroyInv, RemoveNetwork, Destroying, Gone, InUse, runVars
<1>8. ASSUME NEW c \in Container, StopContainer(c)
      PROVE  DestroyInv'
  BY <1>8 DEF TypeOK, DestroyInv, StopContainer, Destroying, Gone, InUse, runVars
<1>9. ASSUME NEW c \in Container, RemoveContainer(c)
      PROVE  DestroyInv'
  BY <1>9 DEF TypeOK, DestroyInv, RemoveContainer, Destroying, Gone, InUse, runVars
<1>10. ASSUME NEW v \in Volume, RemoveVolume(v)
       PROVE  DestroyInv'
  BY <1>10 DEF TypeOK, DestroyInv, RemoveVolume, Destroying, Gone, InUse, runVars
<1> QED
  BY <1>1, <1>2, <1>3, <1>4, <1>5, <1>6, <1>7, <1>8, <1>9, <1>10 DEF Next, DestroyNext

-----------------------------------------------------------------------------
(* The theorems *)

LEMMA InitInductive == Init => IInv
<1> SUFFICES ASSUME Init PROVE IInv
  OBVIOUS
<1>1. TypeOK
  BY InitType
<1>2. SetupInv
  BY DEF Init, SetupInv
<1>3. RunInv
  BY DEF Init, RunInv, LoggingClosedLast
<1>4. DestroyInv
  BY DEF Init, DestroyInv, Destroying
<1> QED
  BY <1>1, <1>2, <1>3, <1>4 DEF IInv

\* The four invariants hold of every reachable state: types, what Setup has
\* behind it, what Run promises, and what Destroy leaves.
THEOREM Inductive == Spec => []IInv
<1>1. IInv /\ [Next]_vars => IInv'
  BY NextType, NextSetup, NextRun, NextDestroy DEF IInv
<1> QED
  BY <1>1, InitInductive, PTL DEF Spec

\* Every variable of the engine keeps its type, whatever calls fail.
THEOREM TypeCorrect == Spec => []TypeOK
<1>1. IInv => TypeOK
  BY DEF IInv
<1> QED
  BY <1>1, Inductive, PTL

\* Whatever calls of Setup fail, a step's container exists before the clean-up
\* only when all volumes and the network were created.
THEOREM EnvironmentIsWhole == Spec => []StepsHaveTheirEnvironment
<1>1. IInv => StepsHaveTheirEnvironment
  BY DEF IInv, SetupInv, StepsHaveTheirEnvironment
<1> QED
  BY <1>1, Inductive, PTL

\* With the deferred tail no copy is under way when Run returns, and an exit is
\* reported after a copy that ended, by itself or broken off.
THEOREM LoggingLast == Spec => []LoggingClosedLast
<1>1. IInv => LoggingClosedLast
  BY DEF IInv, RunInv
<1> QED
  BY <1>1, Inductive, PTL

\* What Destroy leaves behind when no removal failed for good: containers of
\* detached steps, what these use, and volumes of medium "memory".
THEOREM DestroyIsComplete == Spec => []NothingLeftBehind
<1>1. IInv => NothingLeftBehind
  BY DEF IInv, DestroyInv, NothingLeftBehind, Gone, Container
<1> QED
  BY <1>1, Inductive, PTL

\* Run reports an exit only of a container that has stopped.
THEOREM ExitIsRealHolds == Spec => ExitIsReal
<1>1. IInv /\ [Next]_vars =>
        [\A s \in Step :
            ret[s] = "none" /\ ret'[s] = "exited" => container[s] = "exited"]_vars
  <2> SUFFICES ASSUME IInv, Next, NEW s \in Step, ret[s] = "none", ret'[s] = "exited"
               PROVE  container[s] = "exited"
    OBVIOUS
  <2>1. TypeOK /\ ret' # ret
    BY DEF IInv
  <2>2. PICK t \in Step : Create(t) \/ StartContainer(t) \/ Tail(t) \/ WaitRetry(t)
    BY <2>1 DEF Next, RunNext, SetupNext, MakeOutputDirs, VolumeCreate, NetworkCreate, InternalStep,
                SetupEnd, RunCall, CopyEnds, ContainerExits, Cancel, DestroyNext,
                DestroyCall, DestroyLoops, RemoveNetwork, StopContainer,
                RemoveContainer, RemoveVolume, runVars
  <2> QED
    BY <2>1, <2>2 DEF TypeOK, Create, StartContainer, Tail, WaitRetry, Returns, At
<1> QED
  BY <1>1, Inductive, PTL DEF Spec, ExitIsReal

=============================================================================
