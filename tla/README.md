# drone-runner-docker in TLA+

This directory holds TLA+ modules that model the docker pipeline runner, the
TLC configurations that check them on small instances, and machine-checked
proofs about the output service, the executor, the docker engine, the compiler,
drone-output and the runner, for every size of them. `PROJECT.json` maps every definition to the
source lines it stands for and lists the runs, the mutants (a plausible bug for
every property), the findings and the hazards.

    tlasany Compiler.tla                                  # parse
    tlc -workers 2 -config Execer_core.cfg MCExecer.tla   # model-check
    tlapm ExecerProofs.tla                                # check the proofs

Source paths below are relative to the repository's root.

## The system

A drone server hands a *stage* (one pipeline of one build) to the runner. The
runner's poller (in the library runner-go) fetches the manifest, parses and
lints it, compiles it to a *spec*, and executes the spec: set up a docker
network and volumes, run each step's container in the order of a dependency
graph, tear everything down. What this fork adds to drone's runner is *step
outputs*: a step runs the command `drone-output`, which is mounted in its
container, to publish key/value pairs, and a later step gets them in its
environment by `from_output`.

    manifest -> parser -> linter -> compiler -> spec -> executor -> docker engine
                                       |  registers tokens   |  resolves, deletes
                                       v                     v
      drone-output (in the container) -> unix/http -> output service
      drone-output (in the container) -> files     -> CopyOutputs by the executor

| Component | State | Operations | Interacts with |
|---|---|---|---|
| output service `internal/outputservice` | pipelines with their deadline and outputs, tokens with theirs; two levels of locks | RegisterPipeline, DeletePipeline, Apply, Resolve, the janitor's prune | Compile registers, Exec deletes, transports apply, the executor resolves |
| output transports `internal/outputtransport` | a listener per pipeline (unix) or one server (http) | one request and one reply per connection | drone-output, output service |
| executor `internal/outputexec` | per pipeline: goroutines of the graph, the context; shared: the semaphore, the map of collected outputs, the pipeline state under its lock | Exec, exec, injectOutputs, collectOutputs | engine, reporter and state of runner-go, output service |
| docker engine `engine` | what exists in the docker daemon | Setup, Run, CopyOutputs, Destroy | docker daemon |
| manifest parser `engine/resource` | - | lint, dependsOn | compiler (same manifest) |
| linter `engine/linter` | - | checkSteps, checkDeps, checkVolumes, trust | - |
| compiler `engine/compiler` | - | Compile: transport, tokens, steps, graph, run policies, volumes and mounts; images, secrets, limits | output service, listener |
| drone-output `command/output.go`, `internal/stepoutput` | files of the output directory, a connection | set, put, unset; lookup of a key or a list element | transports, CopyOutputs |
| daemon and process `command/daemon` | servers, polling threads, the stage of each | start, pings, poll, shutdown; one stage | everything |
| build filter `internal/match` | - | a predicate on a build | daemon |
| exec and compile commands | - | command line front ends, choice of steps | everything |
| log stream, image names, encoders | - | byte-level conversions | engine |

What is hard in it:

* **Concurrency**: a goroutine per step and pipeline with one shared semaphore,
  one state per pipeline whose lock is released between the decision to run a
  step and its start, detached steps that outlive the graph; Apply and Resolve
  that give up one lock before they take the next; several drone-output
  processes in one directory.
* **Failure**: calls to docker that fail, or take effect and lose their reply;
  reports to the server that fail half-way through a step; a command killed
  between two system calls; a compiler that stops in the middle of its loops.
* **Handing over**: Compile opens what Exec closes, and between the two the
  runner calls the server, which may fail; several threads and runners take the
  same stage; a signal closes the outputs' server under pipelines that still run.
* **Order and time**: cancellation at any moment, wait calls that the daemon
  interrupts, outputs visible before their producer's end is known, deadlines
  crossed between two readings of the clock.

What makes each component correct: answers of the output service come from the
right pipeline and step, publications are atomic, nothing lives on after its
pipeline, nothing in use expires; the executor's success is honest, run and
error policies are kept, every Exec returns; the engine leaves nothing behind
and reports only real exits; a compiled graph can be run and keeps consumers
after producers, its containers get the volumes they were promised and no other
pipeline's; the last drone-output command decides; a stage the runner took is
settled and leaves nothing, and the daemon drains and stops.

## Modules

| Module | Models | Composition |
|---|---|---|
| `OutputMap` | keys, ops and what a sequence of ops makes of a map of outputs | used by the next three |
| `OutputMapProofs` | lemmas on what a batch of ops makes of a map | extends `OutputMap`, `LeastNumber` |
| `OutputStore` | abstract specification of the output service | - |
| `OutputService` | the service, one section under a lock per action | refines `OutputStore` |
| `OutputServiceProofs` | theorems about it | extends `OutputService`, `OutputMapProofs` |
| `PipelineState` | runner-go's `pipeline.State`, an external library, as the executor uses it | used by `Execer` |
| `Execer` | the executor | extends `PipelineState` |
| `ExecerProofs` | theorems about it | extends `Execer`, `LeastNumber` |
| `DockerEngine` | Setup, Run and Destroy of one pipeline | - |
| `DockerEngineProofs` | theorems about it | extends `DockerEngine` |
| `Volumes` | volumes and mounts: what Compile adds, how the engine converts them for docker | used by `Compiler` |
| `Compiler` | parser, linter, and the compiler's graph, run policies, output transport and mounts | extends `Volumes` |
| `CompilerProofs` | theorems about it | extends `Compiler`, `LeastNumber` |
| `StepOutput` | drone-output in the container of one step, and what a reference to a list element finds | extends `OutputMap` |
| `StepOutputProofs` | theorems about it | extends `StepOutput`, `OutputMapProofs` |
| `Runner` | the daemon and process commands: the life of a stage from the server's offer to its clean-up | implements the opening and closing of `OutputStore` |
| `RunnerProofs` | theorems about it | extends `Runner` |
| `LeastNumber` | the least number principle, for the inductions of the proofs | - |
| `MC...` | the small instances for TLC | - |

### OutputStore and OutputService

`OutputStore` promises: a pipeline is opened and closed once; a publication is
accepted only in between, and lands whole, at one instant, in the outputs of the
step that sent it. `OutputService` is the code: `pipelines` and `tokens` are the
service's maps, reduced to the time an entry has left (0: expired), `byStep` the
pipelines' outputs, `req` and `res` the calls of Apply and Resolve under way.
Apply is three steps, as in the code: `Authorise` under the service's lock (with
a reading of the clock for each expiry test and one for the new deadline, so
that a deadline may pass in between), `LockPipeline`, which goes on with the
pipeline's object even if the pipeline is deleted meanwhile, and a `WriteOp` per
op. Resolve looks its map up under the locks (`Lookup`, `FetchMap`) and reads it
after releasing them (`ReadMap`); a read that races a write may end the process
(`MapFault`: Go's runtime throws on a concurrent map read and write). `Tick`
lets time pass, `Prune` is the janitor. The refinement maps `store` to what
users see: a map that is being written counts as what it was before.

### Execer

`pc[p][s]` is where the goroutine of a step is; the actions between two points
are the sections of `exec`: wait for the semaphore (`Acquire`, `CancelAndReturn`),
decide under the state's lock (`Decide`), mark as started and report
(`StartStep`), resolve the inputs (`Inject`), run (`RunReturns`), record how it
ended (`FinishStep`), collect the outputs (`Collect`). `Complete` is the
goroutine in Exec's graph after exec returned, `FindPanics` its panic on a step
that is not in the stage. `Setup`, `FinishExec` and `CleanUp` are Exec before
and after the graph. Reports to the server fail nondeterministically where the
plan says so. Docker is reduced to how `engine.Run` returns (`Outcomes`): with an
error, or with an exit code and whether docker killed the container for its
memory. The two are looked at apart, as in the code: such a container is
recorded as failed whatever its code, and its outputs are collected by its code
alone. A spec (`plan`) is an input.

### DockerEngine

One action is one call to the daemon, but for `MakeOutputDirs`, the directories
that Setup makes on the host. A call may fail, and a failed call may have taken
effect. `CopyEnds` is the end of the copy of a log: when the container has
stopped and all was read, or at any time with an error of the stream or of a
write, which both tails drop. The daemon refuses what docker refuses: to remove a volume
that a container uses, or a network with running containers. Pulling an image is
part of `Create`. `waitRetry` is one action per round; an interrupted wait is
followed by an inspection. Run is called by the executor, Destroy when every Run
of a step that is not detached has returned.

### Compiler and Volumes

`Parse`, `Lint` and `Compile` are what `command/daemon` and `command/compile`
do in this order. A manifest is what decides on order, outputs and mounts:
names, `depends_on`, the producer a `from_output` names (one per step),
`detach`, `when`, volumes. `Compile` stops at the first step that cannot be
converted and returns what it has, as the code does. Its output is the list of
steps with their final dependencies and run policies, the containers' mounts,
and the ends of the output transport: what the containers are told, whose tokens
are registered, what is listened on, what the executor goes by. `RunPolicy`
includes what `drone exec` does to the policies afterwards for its options
`--include` and `--exclude` (`LeftOut`).

`Volumes` builds the spec's list of volumes (workspace, helper, tmate, outputs,
global ones) in the order in which they are looked up, and each container's
mounts. `HostConfig` is the conversion of `engine/convert.go` into the two lists
docker knows, with the predicates that decide which volume goes into which: a
function whose entry `<<list, k>>` is what the k-th mount of the step becomes in
that list. Docker does not go by the order in a list, and a mount that were in
both lists, or in none, would show. `Kept` is a loop with a `continue`. A path is
the sequence of its components, so that one directory can lie in another, in the
container and on the host (`host`): two volumes have files in common if one's
place on the host lies in the other's (`Overlap`). `CreateWorkspace` and
`Workspace` are what Compile makes of the manifest's base and path, `OutputDir` is
the directory a step is told to write its outputs to: its own mount if the
directories are shared with the runner, else one in the workspace. A volume's name
is a tuple, of one component if a manifest gives it, so that what Compile draws
as an id is no name of a manifest.

### StepOutput

In the file transport a command is a process that makes one system call at a
time: `OpenTemp`, `WriteTemp`, `Rename` for each key it sets, `ReadNames` and
`RemoveName` for each key it unsets. `dir` maps names to inodes, so that two
processes that share a temporary file share its content. Over a socket it is one
request, which `Deliver`s, is refused, or is abandoned and arrives later; its
ops come in any order, since `PatchToOps` walks a map. Two variables record what a
user of the commands knows: `seen[c]`, the commands that were over when `c` started,
and `late[c]`, those given up by then whose request was still on its way. `CopyOutputs` is what the
runner gets after the container's exit, `ResolveValue` what a reference to
`<list>.-n` then finds: the code counts the elements that are there, in the
order of their indices.

### Runner

`main` is the main goroutine of the daemon (`PingDocker`, `Start`, `PingRemote`,
`Wait`) or of the process command (`Start`, `EndProcess`), `outputs` the http
server of the outputs in its errgroup, `thread[t]` a polling thread with the
stage it runs, `server[s]` what the drone server has of a stage. The poller and
the runner are runner-go's and modelled from how this code configures and calls
them: `Request` and `Accept` (an optimistic lock at the server, so that one of
several runners gets the stage), `Detail` with the limits of `internal/match`,
`Refuse` for a stage that does not match, parse or lint, `Compile`, `Update`,
and Exec in the parts that touch the stage's resources: `Setup`, `Publish`,
`StepsEnd`, `ReportStage`, `CleanUp`. A call to the server may fail anywhere
(`GiveUp`, `missed`), `Signal` and `Kill` may come anywhere. `phase`,
`listening` and `created` are the stage's pipeline in the output service, its
unix listener and its docker environment.

`phase` is the variable of `OutputStore`: `UsesTheStore` says that, with an empty
store, every step of the runner is a step of that specification. So what
`OutputService` assumes of its callers (a pipeline is registered once and deleted
after) is what `Runner` is shown to do, and the two compose.

## Runs

Passing runs:

| Run | Shows | Bounds |
|---|---|---|
| `service_core` | `IInv`, the invariant the proofs use, with `TypeOK` in it; `AnswersAreOwn`: Resolve answers from the right step; `LiveTokenHasPipeline`, `ClosedStaysClosed`, `OnlyClosedOrExpired`, `LeakedStateExpires`: deadlines and deletion; `ImplementsOutputStore`: the service refines the atomic store | 1 pipeline, 2 steps, 2 publishers, 1 consumer, TTL 1, batches of two ops |
| `exec_core` | `SuccessIsHonest`, `FailureStopsDependents`, `AlwaysStepsRun`, `OnlyKnownFailuresPublish`, `ExecReturns` | 2 pipelines, 3 steps, 2 permits; a diamond and a chain with every error policy, a neighbour pipeline, failing reports |
| `docker_core` | `StepsHaveTheirEnvironment`, `NothingLeftBehind`, `LoggingClosedLast`, `ExitIsReal`, `RunsEnd` | a step, a detached step, an internal step, a volume of each medium |
| `compiler_specs` | `GraphRunsInOrder`, `EverythingFollowsTheClone`, `ConsumersFollowProducers`, `EndsMeet`, `OwnDirectoryOnly`, `RunsWhenAsked`, `MountsReachDocker`, `MountPointsDistinct` | six families: dependency relations on 3 steps and the clone; services, duplicates and malformed references; all 960 settings of the outputs; volumes of every kind under names that collide, in both trust levels; every `when.status` with the choices of `drone exec`; workspaces of the manifest, at paths of Compile's too |
| `output_commands` | `LastCallWins`, `OutputsAreWhole`, `NegativeIndexFollowsTheList` | 3 commands; a list, its elements 2 and 10, another key, the names of the temporary files, an invalid key; calls are symmetric |
| `runner_core` | `NothingOutlivesItsStage`, `ExitsDrained`, `RefusedOnlyAtTheEdges`, `DaemonStops`, `StagesSettle`, `UsesTheStore` | 2 threads, 2 stages of which one is outside some limits, 4 configurations: the daemon with an http server of the outputs, with one nobody can be told of, without one, and the process command |

Every other passing run checks its module's `TypeOK` too.

Runs whose property the code violates, each a statement of a doc or a comment:

| Run | Statement | What the code does |
|---|---|---|
| `service_race` | the store is concurrent-safe (`docs/output-transport-architecture.md:58`) | Resolve walks a step's map after releasing the lock (`service.go:146-152`) |
| `exec_isolation` | outputs: "same pipeline execution and same stage only" (`README.md:43`) | in the file transport `Execer.outputs` is keyed by the step's name for all pipelines (`execer.go:290`) |
| `exec_failed` | a failed producer's outputs are not published (`docs/step-outputs.md:444-446`) | over a socket they are in the service before the producer ends (`execer.go:279`); `exec_core` shows the other case, in the file transport (`execer.go:229`) |
| `exec_never` | a step with unmet conditions is skipped (`compiler.go:567-568`) | if it is fail-fast, `state.Find` panics (`execer.go:95`) |
| `docker_memory` | volumes in memory need no removal (`engine.go:286-287`) | Setup creates a docker volume for them, Destroy leaves it |
| `compiler_malformed` | a malformed `from_output` fails at compile or lint time (`docs/step-outputs.md:508-510`) | in a service it makes Compile return a truncated spec as if it were whole |

Why the bounds are enough. The service's sections mention one pipeline and one
step at a time, and a section of one pipeline reads no entry of another; two
steps, two publishers and a consumer are enough for one to disturb another, and
the proofs cover every number of pipelines too. A TTL of 1 makes every reading
of the clock able to cross a deadline; the model has `Left = 0 .. TTL`, and the
proofs hold for every TTL. A vertex of the executor's graph knows its
dependencies and the shared state: a diamond has two steps in parallel and one
that waits for both, the neighbour takes the last permit; two permits are fewer
than the steps that are ready. The engine's actions touch one container and the
environment: one container of each kind. The compiler's rewrites look at a step
and its predecessor or at the clone; its mounts are those of one step and of its
neighbour, and a lookup concerns two volumes of one name. The families are
separate because what they vary is: no rewrite of the graph reads a volume, and
no volume depends on a dependency. Three commands: one that decides, and two
before it or beside it; two elements whose indices sort differently as names.
The runner's stages share only the poller and the http server, and a thread runs
one at a time: two of each let the server offer one stage twice, one stage fail
while the other runs, and a thread go on to the next. Every bound is a CONSTANT
given in the cfg; no counter is cut off.

CHECK_DEADLOCK is off in all runs: each of them models something that ends (a
pipeline, a compilation, the commands of a step, the runner's process), or, in the service, calls that
are made once.

### Fairness

* `OutputService!FairSpec`: `Tick` (time passes) and `Prune` (a ticker in the
  janitor's goroutine, `service.go:155-166`). No caller has to come back:
  `LeakedStateExpires` is about those that do not.
* `Execer!FairSpec`: goroutines run, and a container ends or the pipeline's
  timeout cancels the context. Each step's goroutine, `Setup`, `FinishExec` and
  `CleanUp` are weakly fair; cancellation and successful reports are not.
* `DockerEngine!FairSpec`: calls to the daemon return; a container need not
  exit. A Run that waits for a running container under a live context
  (`Patient`) need not move.
* `Runner!Spec`: the main goroutine, the http server's and the threads run, and
  the calls they make return; a pipeline's steps end, by its timeout if need be,
  which is what `ExecReturns` is about. A ping need never be answered
  (the loops at `daemon.go:100` and `:268` try again for ever), but one that the signal's
  context interrupts returns. No signal need come, no stage need be offered.
* `Compiler` and `StepOutput` state no liveness.

### Assumptions of the models

* Pipeline IDs are `<repo>/<build>/<stage>`, and a stage is executed once: a
  pipeline is registered once.
* A context error out of `engine.Run` with a live context does not occur.
* Detached steps are not consumed from (the parser rejects it), so `Execer` does
  not let them publish.
* Exit code 78 and the skips that follow are one action.
* A consumer has one `from_output`; a step with several is the conjunction.
* `Execer`: `Order`, in which the loops over the stage's steps go, lists each of
  finitely many steps once; the marks of an output that is missing (`Nobody`,
  "absent", "empty") are no pipelines.
* Run policies are an input of `Execer`, any combination; `Compiler` derives them
  from `when`.
* A key `<list>.-n` was not set as such, and the indices of a list are written
  without leading zeros.
* Paths: a step's name is a single component; the base of a workspace is neither `/`
  nor a windows path; a step does not set DRONE_OUTPUT_DIR itself; the checkout that
  is mounted from the host and the helper's executable there lie away from the
  outputs (`Elsewhere`).
* A create that the docker daemon applies only after Destroy tried to remove the
  container is left out: a call that failed has taken effect when it returns, or
  never.
* `StepOutput`: a key comes before those it is a prefix of; two names with
  ".tmp" appended are equal only if the names are; a name that ends in ".tmp" is
  no element of a list. These are facts about strings, which the model's opaque
  keys do not have by themselves.
* The server's optimistic lock works: a stage is accepted once.

The properties name the cases in which the code does not do what one would
expect; each is in the list of hazards:

* `OnlyKnownFailuresPublish` has the two cases in which a failed producer's outputs
  are consumed: in the file transport, a container that ran out of memory and
  exited with 0; over the socket, a consumer that does not wait for the producer's
  success. That pipelines read each other's outputs in the file transport is the
  run `exec_isolation`; nothing in the code prevents it, so no passing run claims
  that they do not.
* `LoggingClosedLast` is about DRONE_DEFER_TAIL_LOG, and a copy that broke off: its
  error is dropped, so an exit is reported with a part of the log.
* `EndsMeet` leaves out transports that are none of the known strings: they are
  not refused. That nothing but the step's directory is mounted at its path
  excepts what the manifest or a global volume mounts there, and a workspace of the
  manifest at that path: neither the linter nor Compile looks.
* `OwnDirectoryOnly` has two halves. If the outputs are shared with the runner, at
  the default root, a step has host files of another step's directory only by a
  volume that the manifest or DRONE_RUNNER_VOLUMES asks for. With another root the
  whole root is mounted in every step (`compiler.go:761`). If they are not shared,
  which is the default, the directories lie in the workspace and every step
  reaches them all (`compiler.go:271`, `:314`, `docs/step-outputs.md:154`): there
  the property says just that.
* `MountPointsDistinct` is about what is asked for at different paths, none of
  them Compile's: the linter keeps mounts out of `/run/drone` only. It excepts a
  workspace of the manifest at a path of Compile's, `/drone/bin` for one, with which
  no step can start, and the internal step that copies the helper in a debug build,
  which gets two mounts at one path.
* `RunsWhenAsked` excepts a `when.status` that matches neither success nor
  failure, such as `[killed]`: the step runs on success.
* `MountsReachDocker` is about names declared once and not used by an internal
  volume (the linter does not refuse the others), and about read-only mounts of
  anything but directories.
* `LastCallWins` has three cases in which the last command that affects a key, and
  reported success, does not decide on it. Another command that is not over when it
  starts sets an output whose name is this one's, or this one's is that one's, with
  ".tmp" appended once or more: the temporary file of one is the output of the
  other, so an unrelated key is not preserved (`docs/step-outputs.md:296`, `:311`).
  A command given up before has its request still on the way: it arrives late, and
  what it asked for is then the value. And over the socket a document that unsets a
  key and sets one under it may lose the latter. Without any of the three TLC
  finds the property violated.
* `NegativeIndexFollowsTheList` is about lists that are not shorter than what was
  published before: `-1` is otherwise an element of the longer one; and no request
  of a command given up before is late.
* `NothingOutlivesItsStage` excepts a stage whose Update fails, between Compile
  and Exec: listener and pipeline stay, the latter until its TTL.
* `OnlyClosedOrExpired` lets the janitor drop a pipeline that is in use but quiet for
  longer than its TTL.
* `RefusedOnlyAtTheEdges` names the cases in which a step publishes to nobody:
  the http server is not up yet, failed to bind, or was closed by the signal
  while the pipeline drains.

## Proofs

Every theorem is about all values of the constants that meet the named
assumptions of its module (TLC evaluates these on every run of the module). Each
proof module has an inductive invariant `IInv`, checked by TLC on the runs'
instances before it was proved, and a theorem `Inductive == Spec => []IInv`
(in `StepOutputProofs` a lemma);
`NextInductive` goes through the actions one by one, and the other theorems
follow from `IInv`. Theorems about an action property use `IInv` in the state
before the step.

| Module | Theorem | Statement |
|---|---|---|
| `OutputServiceProofs` | `TypeCorrect` | `Spec => []TypeOK` |
| | `LiveTokens` | `Spec => []LiveTokenHasPipeline` |
| | `Closed` | `Spec => []ClosedStaysClosed` |
| | `OnlyClosedOrExpiredHolds` | `Spec => OnlyClosedOrExpired` |
| | `OwnAnswers` | `Spec => []AnswersAreOwn` |
| | `ImplementsStore` | `Spec => ImplementsOutputStore` |
| `ExecerProofs` | `TypeCorrect` | `Spec => []TypeOK` |
| | `FailureStops` | `Spec => []FailureStopsDependents` |
| | `PermitsBounded` | `Spec => [](Threads # 0 => Cardinality(Held) <= Threads)` |
| | `Honest` | `Spec => []SuccessIsHonest`, if all specs are `Acyclic` |
| | `AlwaysRun` | `Spec => []AlwaysStepsRun`, if all specs are `Acyclic` |
| | `OnlyKnownFailures` | `Spec => []OnlyKnownFailuresPublish` |
| `DockerEngineProofs` | `TypeCorrect` | `Spec => []TypeOK` |
| | `EnvironmentIsWhole` | `Spec => []StepsHaveTheirEnvironment` |
| | `LoggingLast` | `Spec => []LoggingClosedLast` |
| | `DestroyIsComplete` | `Spec => []NothingLeftBehind` |
| | `ExitIsRealHolds` | `Spec => ExitIsReal` |
| `CompilerProofs` | `TypeCorrect` | `Spec => []TypeOK` |
| | `RunsInOrder` | `Spec => []GraphRunsInOrder` |
| | `CloneFirst` | `Spec => []EverythingFollowsTheClone` |
| | `ProducersFirst` | `Spec => []ConsumersFollowProducers` |
| | `AskedToRun` | `Spec => []RunsWhenAsked` |
| | `Agreed` | `Spec => []TransportsMeet` |
| | `OutputsMeet` | `Spec => []EndsMeet` |
| | `OthersDirectories` | `Spec => []OwnDirectoryOnly` |
| | `MountsArrive` | `Spec => []MountsReachDocker` |
| | `OneMountPerPath` | `Spec => []MountPointsDistinct` |
| `StepOutputProofs` | `TypeCorrect` | `Spec => []TypeOK` |
| | `Whole` | `Spec => []OutputsAreWhole` |
| | `LastWins` | `Spec => []LastCallWins` |
| | `NegativeIndex` | `Spec => []NegativeIndexFollowsTheList` |
| `RunnerProofs` | `TypeCorrect` | `Spec => []TypeOK` |
| | `NothingOutlives` | `Spec => []NothingOutlivesItsStage` |
| | `Drained` | `Spec => []ExitsDrained` |
| | `RefusedAtTheEdges` | `Spec => []RefusedOnlyAtTheEdges` |
| | `UsesTheStoreHolds` | `Spec => UsesTheStore` |

### The output service

`LiveTokenHasPipeline` is not inductive by itself. `Authorise` refreshes the
entry it found by a token, and to know that the pipeline's entry belongs to an
open pipeline, `IInv` adds that the tables mention open pipelines only
(`OpenOnly`); `TypeOK` needs in turn that a Resolve under way reads a map that
exists (`ReadersHaveMap`), which no action takes away, since `DeletePipeline`
only unlinks the pipeline's object. The hard case is `Authorise`: the clock may
advance between its readings by any amount, and the token's and the pipeline's
deadlines elapse together (`ElapseTwice`, `ElapseTogether`), so the order
`tokens[t] <= pipelines[t[1]]` survives each reading and the two refreshes.
`ClosedStaysClosed` follows from `OpenOnly`, `OnlyClosedOrExpired` from `IInv`
by one lemma per step, and `AnswersAreOwn` from a second invariant,
`Provenance`: every value in `byStep`, and in a map under way, comes from a set
op of a request accepted for that token.

The refinement, `ImplementsStore`, rests on a third invariant, `WritesInv`: in a
pipeline at most one publisher writes at a time, and what is left of its batch
makes of the map what the whole batch makes of the map it found (`base`). So
the ops before the last one change nothing of what the store's users see
(`visible` keeps `base` until then), and the last one makes the map what
`ApplyAll` makes of `base` (`WriteStep`). `ApplyAll` is a recursive function; what
it does at the first op of a batch (`OutputMapProofs!ApplyAllTail`) is an
induction over the batch, done by the least counterexample. `LockPipeline` is not
seen either, and the other steps map to the abstract action that corresponds to
them or to a stutter (`StoreStep`).

### The executor

`IInv` is `TypeOK`, that the records are the records of the visible steps
(`StateType`), a conjunction `PInv(p)` for each pipeline, and `PermitsInv`, of the
semaphore that all pipelines share. `PInv(p)` relates four things the code keeps
apart: the graph's goroutines (`GraphInv`), which steps reached docker
(`LaunchInv`), the record that runner-go keeps under its lock (`StatusInv`,
`SkipInv`, `EndInv`) and the outputs (`OutputInv`).

`FailureStopsDependents` is not inductive: the decision is made under the
record's lock, and the step is started after the lock is released, so another
goroutine may change the record in between. What survives is `DepsInv`: once
decided, each dependency is `Fine`, and stays so, because a dependency is done
before its dependent is called (`GraphInv`) and only a skip (`SkipInv`) changes
the record of a step that is done. The hard action is `Decide`. It reads the
stage's status, so `StatusInv` says what this stands for: as long as the stage
is "running", no visible step has a bad status. The stage's status is computed
by a loop over the steps in `state.go`; that the loop ends with the status of
the steps (`ExecerProofs!UpdateFacts`) is an induction over the loop,
done by the least counterexample (`LeastNumber`).

`SuccessIsHonest` and `AlwaysStepsRun` speak of the end of Exec, where the code
concludes from a graph without an error that all steps are done. This holds for
graphs that `dag.Run` accepts: edges to known steps, and no cycle (`Acyclic`;
`GraphInv` and `FinishExecPInv`: a set of blocked steps has one whose dependencies
are done). `MCExecer!PlansMeetHypotheses` has TLC evaluate that the specs of
`exec_core` are.

`OnlyKnownFailuresPublish` has no hypothesis. In the file transport whoever is
in the map of outputs exited with 0, since `Collects` is the only way into it. Over
the socket a consumer that `Waits` was decided on after its producer was done, and
then the producer's failure would have stopped it; exit code 78 skips all that
pends (`SkipInv`, last part). `OutputInv` keeps both for a step that was started
(`Traced`).

`PermitsBounded` is about `Held`, the steps between `Acquire` and the return of
their exec: every return, on any path, gives the permit back, and a goroutine
that a cancelled context turned away never had one. It is stated for any number
of pipelines, since the semaphore is the only thing they share with the map of
outputs.

### The docker engine

`IInv` is `TypeOK` with one invariant for each of the three calls. For
`NothingLeftBehind`, `DestroyInv` says at each phase of Destroy what the loops
behind it have removed: a container that still exists then is that of a detached
step, whose Run may still create it, and what a container uses is not removed.
For `StepsHaveTheirEnvironment`, `SetupInv` follows Setup's loops, with the one
error it keeps until its end (`netErr`). For `LoggingClosedLast`, `RunInv` says
where Run waits for the copy.

### The compiler

The three steps are taken once, so `IInv` is what each hands to the next: the
parser's and the linter's checks have seen the manifest that Compile is given,
and the spec is what Compile makes of that manifest under one of the outcomes of
the listener (`CompileInv`). The work is in what follows from it, for manifests
of any size:

* `Ancestors` adds the dependencies of what it has as many times as there are
  names. That this is enough, and what it returns is the least set that holds
  the dependencies of a step and of the set's own members (`AncestorsFacts`), is
  by counting: a chain of sets of names that grows at each step outgrows the
  names (`FarSettles`). From there, more dependencies give more ancestors, and
  ancestors of ancestors are ancestors.
* `BuiltFacts` says where the items of the manifest are in the spec, with or
  without a clone step before them and wherever `createStep` stopped.
* The linter's check of an item against the names it knows so far makes of the
  items a list in order (`InOrder`, `BuiltInOrder`), and each of the three ways
  to rewrite the graph keeps it in order (`GraphInOrder`). This is
  `GraphRunsInOrder`.
* In such a list, if all but the first wait for something and the first is the
  clone, all wait for the clone (`AllWaitForClone`, on the first that does not).
* `ConsumersFollowProducers` compares the graph of the manifest's steps with
  that of the spec. A manifest without dependencies has no consumer of another
  step; otherwise each step still waits for all it waited for
  (`StepsKeepTheirDeps`): `removeCloneDeps` takes a dependency on the clone away
  only if there is no such step, and then the linter has refused it.

`TransportsMeet` is the first half of `EndsMeet`, a case analysis over the
settings. The second half and the other properties of the mounts are about what
comes of the lists that Compile joins, for any number of volumes, mounts and
global volumes and any paths; they have no hypothesis beyond the cases the
properties name:

* `VolumeFacts`: a lookup by name finds each of Compile's own volumes whatever
  the manifest declares, since they come first and their names tell them apart
  (`OwnApart`), and a volume of the manifest unless it is declared twice or has
  the name of an internal one.
* `HostConfigFacts`: each mount of a known volume has an entry, and in one list
  only (`OneEntry`); so a volume has as many entries at a path as the step has
  such mounts (`Counted`, by a bijection). This is what `MountsArrive` counts,
  with `SitesOfOwn` and `SitesOfGlobal`: the names keep the step's own mounts,
  Compile's and the global ones apart.
* `StepMountsRange` and `StepMountsApart`: what is among a step's mounts, and that
  no two are at one path if what is asked for keeps apart. The five paths of
  Compile differ, in every setting and for every name of a step (`PathsApart`).
* For `OwnDirectoryOnly`, `OwnKeptOut`: no volume of Compile's own has a place on the
  host in common with another step's directory. Between the outputs' volumes of two
  steps this is `HostsApart`, by `InOrderUnique`: no two steps have one name. What is
  left are the volumes that somebody asked for. If the directories are not shared,
  `WorkspaceReaches` finds the workspace among each step's mounts and every step's
  directory under it.

### drone-output

The properties speak of the moment at which the runner has the outputs; the
invariant says what holds of the files before. Its parts:

* `Base`: `TypeOK` and `CallInv`, where each command is. A loop over a patch goes
  in the order of the keys, so no key that is behind it lies under one that is
  still ahead: what was set is not unset again. In the socket transport, the ops
  on the way are those of the patch in some order.
* `FileInv`: an inode has at most one name (`InodeInv`). `OpenInv` says which
  names the inode of an open temporary file can have, since a command that runs
  beside may have renamed it; `WrittenInv`, that the temporary file of a key with
  which nobody interferes has the content its command wrote. `DirInv` is
  `OutputsAreWhole` before the end: what is under a name was published whole
  (`Published`), or is a temporary file that some command has not renamed yet
  (`Pending`), or two commands meet in it (`Tangled`).
* `StoreInv`: the same of the service's map, by the lemmas on batches in
  `OutputMapProofs`.
* `LastInv`: a command with whose key nobody interferes has made of it what it
  was asked to, as soon as the loop is past it (`Made`) or the request is answered
  (`Sent`), and it stays so until somebody else starts who touches it, or a request
  that is late arrives (`Landed`).
* `LateInv`: who is late has been given up, and his request has arrived or not.

The hard actions are `WriteTemp`, which writes to an inode whatever its name is
by now, and `Rename`, which moves whatever is under the temporary name.
`NegativeIndexFollowsTheList` follows from `LastCallWins` and `OutputsAreWhole`,
which say what elements of the list there are, and a lemma that counts them
(`Positions`).

No output's name is excluded. Let `e` and `d` set `a.tmp.tmp`, `f` set `a.tmp` and `g`
set `a`. `e` has opened its temporary file; `d` renames that very file to
`a.tmp.tmp`, from where `f`, which uses this name for its own temporary file,
renames it to `a.tmp` and ends. Then `g` starts and, using the name `a.tmp`, renames
it to `a`. What `e` writes now lands in `a`, although nobody runs beside `g` who has
anything to do with `a` or `a.tmp`. So it is not enough to look at the names of
temporary files: `Clobbers` closes them under further ".tmp" (`Temps`), and the proof
needs that to follow an inode from name to name (`OpenInv`).

Over the socket `CallInv` says of a request on its way what its ops are (`Asks`), so
that, when it arrives late, the keys it touches are what it asked for, and all
others are what they were.

### The runner

`IInv` adds to `TypeOK` the shape of each thread (`ThreadType`: which fields a
thread has at which point), that nothing is taken on before the threads start
(`StartInv`), that the server's optimistic lock gives a stage one thread, once,
and that a stage is untouched until that thread compiles it (`ClaimInv`), that
what Compile opened has a thread which will close it, or its Update failed
(`OwnerInv`), and that only a signal closes the outputs' server, which was
started before any step is told its URL (`OutputsInv`). `NothingOutlivesItsStage`
follows from `OwnerInv`, `UsesTheStore` from `ClaimInv` and `OwnerInv`: initial
states map to initial states, and every step of the runner to a step of
`OutputStore` or to a stutter (`StoreStep`).

### Only model-checked

`LeakedStateExpires`, `ExecReturns`, `RunsEnd`, `DaemonStops` and `StagesSettle`:
liveness is out of the prover's reach. Every other property of the passing runs is
a theorem.

## Not modelled

* Formats of `drone-output set` and `put`, and the forms of a reference:
  conversions of scalars. `ValidateKey` accepts negative indices in every place
  (in the list of hazards); the keys of the models are opaque.
* Environment, images, secrets, privileges, limits, devices, and scripts in
  the compiler: each looks at one step by itself and copies or
  joins fields. A missing image in the linter.
* The rest of the conversion to docker's container configuration, and the
  archive format of CopyOutputs.
* Reading the daemon's environment into its configuration, the dashboard, and
  the command line front ends. `drone exec` runs the steps with runner-go's own
  executor (`command/exec.go:232`), which is not in this repository and knows no
  `from_output`.
* Framing and status codes of the transports; log streams, image names: byte
  level.

## Plan

Done, in this order: output service with its abstract store and proofs; executor;
docker engine; compiler; drone-output; then runner and daemon on top of the
store's specification; run policies; volumes and mounts; negative indices.

Proofs of the output service, the docker engine, the runner, the executor,
drone-output and the compiler, in this order, and of the refinement of the output
store.

Then the mounts of the compiler: with them every safety and action property that
a run checks is proved. What is left is liveness, and the parts listed above as
not modelled.
