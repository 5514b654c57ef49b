------------------------------ MODULE Compiler ------------------------------
(***************************************************************************)
(* From a manifest to a spec: the checks of the parser (engine/resource),  *)
(* those of the linter (engine/linter), and the part of Compile             *)
(* (engine/compiler) that decides in which order and when the steps run,    *)
(* how their outputs travel and what their containers mount; after that the  *)
(* choice of steps by drone exec.  Images, commands, secrets and limits are  *)
(* left out.                                                                *)
(*                                                                         *)
(* A step of a manifest is a record; its field source is the step that its   *)
(* from_output names, None, or Malformed.                                   *)
(***************************************************************************)
EXTENDS Volumes, FiniteSets

CONSTANTS
    Name,       \* names of steps and services
    Clone,      \* "clone"
    None,       \* no from_output
    Malformed,  \* a from_output that ParseRef refuses
    Inputs      \* pairs <<manifest, opts>> to compile

ASSUME NameAssumption == Clone \in Name /\ {None, Malformed} \cap Name = {}

Path == Seq(STRING \cup Name)

\* include, exclude: when.status; when: the other conditions are met;
\* privileged: a setting that only a trusted repository may use.
Item == [name : Name, deps : SUBSET Name, source : Name \cup {None, Malformed},
         detach : BOOLEAN, include : SUBSET {"success", "failure", "killed"},
         exclude : SUBSET {"success", "failure", "killed"}, when : BOOLEAN,
         privileged : BOOLEAN, mounts : Seq([name : GivenName, path : Path])]

\* helper: where drone-output is mounted from; service: there is an output
\* service; shared: the socket root is a directory that a global volume maps
\* to the host; url: the http transport is configured; root: the socket root
\* is /drone/outputs; mount: the workspace is a directory of the host; debug:
\* tmate runs; globals: further global volumes; include, exclude: the steps
\* named to drone exec.
Opts == [mode : {"file", "auto", "unix", "http", "other"},
         helper : {"none", "image", "path"}, service : BOOLEAN, shared : BOOLEAN,
         url : BOOLEAN, root : {"default", "other"}, mount : BOOLEAN,
         debug : BOOLEAN,
         globals : Seq([kind : HostKind, path : Path, ro : BOOLEAN, host : Path]),
         include : SUBSET Name, exclude : SUBSET Name]

\* workspace: no base is the empty path, and rooted says that path begins with a
\* slash.  A volume of kind "none" is neither temp nor host; none can be read-only.
Manifest(m) ==
    /\ m.clone \in BOOLEAN /\ m.trusted \in BOOLEAN
    /\ m.workspace \in [base : Path, path : Path, rooted : BOOLEAN]
    /\ m.services \in Seq(Item) /\ m.steps \in Seq(Item)
    /\ m.volumes \in Seq([name : GivenName, kind : VolumeKind \cup {"none"}, ro : {FALSE},
                           host : Path])

ASSUME InputsAssumption == \A in \in Inputs : Manifest(in[1]) /\ in[2] \in Opts

VARIABLES
    manifest,   \* the pipeline resource
    opts,       \* how the Compiler is set up
    at,         \* "read", "parsed", "linted", "compiled" or "rejected"
    spec        \* what Compile returned

vars == <<manifest, opts, at, spec>>

NamesOf(items) == {items[i].name : i \in DOMAIN items}
IsConsumer(item) == item.source # None
ParseRef(item) == item.source # Malformed       \* it names a step and a key

\* What s depends on, directly or not, in deps: [names -> SUBSET names].
Ancestors(deps, s) ==
    LET far[n \in 0 .. Cardinality(DOMAIN deps)] ==
            IF n = 0 THEN deps[s]
            ELSE far[n - 1] \cup
                 UNION {deps[x] : x \in far[n - 1] \cap DOMAIN deps}
    IN  far[Cardinality(DOMAIN deps)]

\* The item of that name in a list with unique names.
Named(items, n) == items[CHOOSE i \in DOMAIN items : items[i].name = n]
DepsOf(items) == [n \in NamesOf(items) |-> Named(items, n).deps]

Unique(names) == \A i, j \in DOMAIN names : names[i] = names[j] => i = j

Init ==
    /\ \E in \in Inputs : manifest = in[1] /\ opts = in[2]
    /\ at = "read"
    /\ spec = <<>>

-----------------------------------------------------------------------------
(* The parser.  Definitions named Bug... are plausible mistakes in the      *)
(* definition that follows them; no specification uses them.                *)

BugDependsOn(items, consumer, producer) ==  \* any earlier step will do
    \E i, j \in DOMAIN items :
        i < j /\ items[i].name = producer /\ items[j].name = consumer

\* A step depends on itself, as far as from_output is concerned.
DependsOn(items, consumer, producer) ==
    consumer = producer \/ producer \in Ancestors(DepsOf(items), consumer)

\* lint looks at the steps only, not at the services.
LintAccepts(m) ==
    /\ Unique([i \in DOMAIN m.steps |-> m.steps[i].name])
    /\ \A i \in DOMAIN m.steps :
          LET consumer == m.steps[i]
          IN  IsConsumer(consumer) =>
                /\ ParseRef(consumer)
                /\ consumer.source \in NamesOf(m.steps)
                /\ ~Named(m.steps, consumer.source).detach
                /\ DependsOn(m.steps, consumer.name, consumer.source)

Parse ==
    /\ at = "read"
    /\ at' = IF LintAccepts(manifest) THEN "parsed" ELSE "rejected"
    /\ UNCHANGED <<manifest, opts, spec>>

-----------------------------------------------------------------------------
(* The linter *)

\* Services first, then steps: the order of the spec.
All(m) == m.services \o m.steps

\* The names checkSteps knows when it has come to the i-th item.
Known(m, i) ==
    {All(m)[j].name : j \in 1 .. i} \cup IF m.clone THEN {Clone} ELSE {}

BugCheckDeps(item, known) ==    \* an item may wait for itself
    item.deps \subseteq known

CheckDeps(item, known) ==
    /\ item.deps \subseteq known
    /\ item.name \notin item.deps

CheckStep(item, trusted) ==
    /\ trusted \/ ~item.privileged
    /\ \A i \in DOMAIN item.mounts :
          /\ item.mounts[i].name \notin Reserved
          /\ ~Under(item.mounts[i].path, <<"run", "drone">>)

CheckStepsAccepts(m) ==
    \A i \in DOMAIN All(m) :
        LET item == All(m)[i]
        IN  /\ item.name \notin Known(m, i - 1)
            /\ CheckStep(item, m.trusted)
            /\ CheckDeps(item, Known(m, i))

CheckVolumesAccepts(m) ==
    \A i \in DOMAIN m.volumes :
        LET v == m.volumes[i]
        IN  /\ m.trusted \/ v.kind \in {"disk", "none"}
            /\ v.name \notin Reserved /\ v.name # <<"">>

Lint ==
    /\ at = "parsed"
    /\ at' = IF CheckStepsAccepts(manifest) /\ CheckVolumesAccepts(manifest)
             THEN "linted" ELSE "rejected"
    /\ UNCHANGED <<manifest, opts, spec>>

-----------------------------------------------------------------------------
(* Compile: the transport of the outputs *)

BugWanted(o) == o.mode      \* "auto" is not resolved

\* The mode before the helper and the listener are looked at.
Wanted(o) ==
    IF o.mode # "auto" THEN o.mode
    ELSE IF o.service /\ o.shared THEN "unix"
    ELSE IF o.service /\ o.url THEN "http" ELSE "file"

Enabled(o)   == o.helper # "none"      \* helperEnabled
TriesUnix(o) == Enabled(o) /\ Wanted(o) = "unix" /\ o.service /\ o.shared

\* outputMode in the end: what the steps are told.  listens says whether
\* ListenUnix would succeed.
OutputMode(o, listens) ==
    CASE ~Enabled(o)              -> "file"
      [] Wanted(o) = "unix"       -> IF TriesUnix(o) /\ listens THEN "unix" ELSE "file"
      [] Wanted(o) = "http"       -> IF o.service /\ o.url THEN "http" ELSE "file"
      [] OTHER                    -> Wanted(o)

BugOutputTransport(o, listens) ==   \* the fallback is not written back
    IF Enabled(o) THEN Wanted(o) ELSE "file"

\* spec.OutputTransport: what the executor goes by.
OutputTransport(o, listens) == OutputMode(o, listens)

\* RegisterPipeline gets a token for every name of the manifest.
Tokens(m, o, mode) ==
    IF Enabled(o) /\ o.service /\ mode # "file"
    THEN NamesOf(All(m)) \cup IF m.clone THEN {Clone} ELSE {}
    ELSE {}

\* The variables of a container: a directory, or a transport.
Told(o, mode) ==
    IF ~Enabled(o) THEN "nothing" ELSE IF mode = "file" THEN "directory" ELSE mode

-----------------------------------------------------------------------------
(* Compile: the steps and their graph *)

CloneStep == [name |-> Clone, deps |-> {}, source |-> None, detach |-> FALSE,
              include |-> {"success", "failure"}, exclude |-> {}, when |-> TRUE,
              privileged |-> FALSE, mounts |-> <<>>]

Services(m) ==
    [i \in DOMAIN m.services |-> [m.services[i] EXCEPT !.detach = TRUE]]

\* convertOutputEnv and convertOutputSettings.
Converts(item) == IsConsumer(item) => ParseRef(item)

\* createStep refuses what it cannot convert, and Compile returns the spec it
\* has so far.
Stops(m) == {i \in DOMAIN All(m) : ~Converts(All(m)[i])}

Built(m) ==
    LET items == Services(m) \o m.steps
        end   == CHOOSE n \in 0 .. Len(items) :
                    /\ \A i \in Stops(m) : n < i
                    /\ n = Len(items) \/ n + 1 \in Stops(m)
    IN  (IF m.clone THEN <<CloneStep>> ELSE <<>>) \o SubSeq(items, 1, end)

IsGraph(steps) == \E i \in DOMAIN steps : steps[i].deps # {}

ConfigureSerial(steps) ==
    [i \in DOMAIN steps |->
        IF i = 1 THEN steps[i] ELSE [steps[i] EXCEPT !.deps = {steps[i - 1].name}]]

BugCloneDeps(steps) ==      \* a detached step has nothing to wait for
    [i \in DOMAIN steps |->
        IF steps[i].name = Clone \/ steps[i].deps # {} \/ steps[i].detach
        THEN steps[i] ELSE [steps[i] EXCEPT !.deps = {Clone}]]

ConfigureCloneDeps(steps) ==
    [i \in DOMAIN steps |->
        IF steps[i].name = Clone \/ steps[i].deps # {}
        THEN steps[i] ELSE [steps[i] EXCEPT !.deps = {Clone}]]

RemoveCloneDeps(steps) ==
    IF Clone \in NamesOf(steps) THEN steps
    ELSE [i \in DOMAIN steps |->
            IF steps[i].deps = {Clone} THEN [steps[i] EXCEPT !.deps = {}]
            ELSE steps[i]]

Graph(m, steps) ==
    IF ~IsGraph(steps) THEN ConfigureSerial(steps)
    ELSE IF m.clone THEN ConfigureCloneDeps(steps) ELSE RemoveCloneDeps(steps)

-----------------------------------------------------------------------------
(* Compile: when the steps run *)

\* Match of a condition: what is excluded is out; what is not included is too,
\* unless nothing is.
StatusMatch(item, status) ==
    /\ status \notin item.exclude
    /\ item.include = {} \/ status \in item.include

Conditional(item)  == item.include # {} \/ item.exclude # {}
IsRunOnFailure(item) == Conditional(item) /\ StatusMatch(item, "failure")

BugIsRunAlways(item) == IsRunOnFailure(item)    \* on failure: also otherwise

IsRunAlways(item) ==
    /\ Conditional(item)
    /\ StatusMatch(item, "failure") /\ StatusMatch(item, "success")

\* Unmet conditions, or a clone whose workspace is the host's.
Unmet(o, clone, item) == ~item.when \/ (clone /\ o.mount)

\* What drone exec is not to run.  A clone step is not asked about.
LeftOut(o, item) ==
    /\ item.name # Clone
    /\ (o.include # {} /\ item.name \notin o.include) \/ item.name \in o.exclude

RunPolicy(o, clone, item) ==
    IF Unmet(o, clone, item) \/ LeftOut(o, item) THEN "never"
    ELSE IF IsRunAlways(item) THEN "always"
    ELSE IF IsRunOnFailure(item) THEN "on-failure" ELSE "on-success"

-----------------------------------------------------------------------------
(* Compile: the volumes, and the mounts of each step *)

\* In the order of the spec, in which they are looked up; at the end those of
\* the manifest that are of a known kind.
SpecVolumes(m, o, mode, steps) ==
    <<WorkspaceVolume(o)>> \o HelperVolumes(o)
    \o (IF o.debug THEN <<Volume(<<"_addons">>, "disk")>> ELSE <<>>)
    \o OutputVolumes(o, mode, [i \in DOMAIN steps |-> steps[i].name])
    \o GlobalVolumes(o)
    \o Kept(m.volumes, {i \in DOMAIN m.volumes : m.volumes[i].kind # "none"})

StepMounts(ws, o, mode, item) ==
    item.mounts \o <<WorkspaceMount(ws, o)>> \o HelperMounts(o) \o TmateMounts(o)
    \o OutputMounts(o, mode, item.name) \o GlobalMounts(o)

\* The containers of the steps, then those of the internal steps.
Containers(m, o, mode, steps) ==
    LET volumes == SpecVolumes(m, o, mode, steps)
    IN  [i \in DOMAIN steps |->
            HostConfig(volumes, StepMounts(m.workspace, o, mode, steps[i]))]
        \o [i \in DOMAIN InternalMounts(o) |-> HostConfig(volumes, InternalMounts(o)[i])]

Compile ==
    /\ at = "linted"
    /\ at' = "compiled"
    /\ \E listens \in BOOLEAN :
        LET mode  == OutputMode(opts, listens)
            whole == Stops(manifest) = {}
            built == Built(manifest)
        IN  spec' =
              [steps      |-> IF whole THEN Graph(manifest, built) ELSE built,
               policies   |-> [i \in DOMAIN built |->
                                  RunPolicy(opts, manifest.clone /\ i = 1, built[i])],
               containers |-> IF whole THEN Containers(manifest, opts, mode, built)
                              ELSE <<>>,
               complete   |-> whole,
               transport  |-> OutputTransport(opts, listens),
               listening  |-> TriesUnix(opts) /\ listens,
               tokens     |-> Tokens(manifest, opts, mode),
               told       |-> Told(opts, mode),
               dirs       |-> [i \in DOMAIN built |->
                                  OutputDir(manifest.workspace, opts, mode, built[i].name)]]
    /\ UNCHANGED <<manifest, opts>>

Next == Parse \/ Lint \/ Compile

Spec == Init /\ [][Next]_vars

-----------------------------------------------------------------------------
TypeOK ==
    /\ Manifest(manifest) /\ opts \in Opts
    /\ at \in {"read", "parsed", "linted", "compiled", "rejected"}
    /\ at = "compiled" =>
          /\ spec.steps \in Seq(Item)
          /\ spec.transport \in {"file", "unix", "http", "other"}
          /\ spec.tokens \subseteq Name
          /\ spec.policies \in [DOMAIN spec.steps ->
                                  {"never", "always", "on-failure", "on-success"}]

Compiled == at = "compiled"

\* The graph the executor builds is one it can run: names are unique and every
\* dependency is a step of the spec that comes before, whatever the linter let
\* through, however the clone was rewritten into or out of the dependencies,
\* and also when Compile stopped half-way.
GraphRunsInOrder ==
    Compiled =>
        \A i \in DOMAIN spec.steps :
            LET before == {spec.steps[j].name : j \in 1 .. i - 1}
            IN  /\ spec.steps[i].name \notin before
                /\ spec.steps[i].deps \subseteq before

\* No step or service starts before the clone is done.
EverythingFollowsTheClone ==
    Compiled /\ spec.complete /\ manifest.clone =>
        \A n \in NamesOf(spec.steps) \ {Clone} :
            Clone \in Ancestors(DepsOf(spec.steps), n)

\* A step that consumes an output of another step is started only after that
\* step has ended: the dependency the parser found in the manifest is still
\* there in the graph that is run.
ConsumersFollowProducers ==
    Compiled /\ spec.complete =>
        \A i \in DOMAIN manifest.steps :
            LET consumer == manifest.steps[i]
                producer == consumer.source
            IN  IsConsumer(consumer) /\ producer # consumer.name =>
                  /\ producer \in Ancestors(DepsOf(spec.steps), consumer.name)
                  /\ ~Named(spec.steps, producer).detach

\* What the container of the i-th step has mounted at a path.
MountedAt(i, path) ==
    {spec.containers[i][j].volume : j \in {k \in DOMAIN spec.containers[i] :
                                              spec.containers[i][k].path = path}}

\* What the manifest and the daemon's configuration ask for.
Asked(i) == IF i \in DOMAIN spec.steps
            THEN spec.steps[i].mounts \o GlobalMounts(opts) ELSE <<>>

\* The containers publish where the executor looks: a container is told the
\* transport by which its outputs are read, has a token the service knows, and
\* the other end is there and can be reached: the directory of the socket, or
\* the step's own directory if it is shared with the runner, is mounted where the
\* step is told it is, and nothing else at its path unless somebody asks for it or
\* the manifest has its workspace there.
EndsMeet ==
    Compiled /\ Enabled(opts) /\ opts.mode # "other" =>
        /\ IF spec.transport = "file" THEN spec.told = "directory" /\ spec.tokens = {}
           ELSE /\ spec.told = spec.transport
                /\ opts.service
                /\ NamesOf(spec.steps) \subseteq spec.tokens
                /\ spec.transport = "unix" => spec.listening
                /\ spec.transport = "http" => opts.url
        /\ spec.complete /\ HasOutputVolumes(opts, spec.transport) =>
              \A i \in DOMAIN spec.steps :
                  LET path == spec.dirs[i]
                      own  == OutputVolume(spec.transport, spec.steps[i].name)
                  IN  /\ own \in MountedAt(i, path)
                      /\ /\ \A n \in DOMAIN Asked(i) : Asked(i)[n].path # path
                         /\ Workspace(manifest.workspace, opts).base # path
                         => MountedAt(i, path) = {own}

\* Whoever has the one has files of the other.
Overlap(v, w) ==
    /\ IsBindMount(v) /\ IsBindMount(w)
    /\ Under(v.host, w.host) \/ Under(w.host, v.host)

\* A volume that the manifest or the daemon's configuration asks for.
Foreign(v) ==
    \/ \E n \in DOMAIN manifest.volumes : v = manifest.volumes[n]
    \/ \E g \in DOMAIN opts.globals : v.host = opts.globals[g].host

\* Who can reach the directory of a step in the file transport.  If the
\* directories are shared with the runner no other step of the pipeline has files
\* of it, wherever on the host, but by a volume that the manifest or the daemon's
\* configuration asks for; if the shared root is elsewhere than /drone/outputs,
\* the root itself is mounted in every step and this does not hold.  If they are
\* not shared, which is the default, it does not hold either: they lie in the
\* workspace, and every step has it mounted.
OwnDirectoryOnly ==
    Compiled /\ spec.complete /\ spec.transport = "file" /\ Enabled(opts) =>
        \A i, j \in DOMAIN spec.steps :
            IF opts.shared
            THEN i # j /\ opts.root = "default" =>
                    \A k \in DOMAIN spec.containers[i] :
                        Overlap(spec.containers[i][k].volume,
                                OutputVolume("file", spec.steps[j].name))
                        => Foreign(spec.containers[i][k].volume)
            ELSE \E k \in DOMAIN spec.containers[i] :
                    /\ spec.containers[i][k].volume = WorkspaceVolume(opts)
                    /\ Under(spec.dirs[j], spec.containers[i][k].path)

\* A step starts in exactly those states of the stage that its when.status
\* asks for, unless it never runs.  A status that is neither success nor failure
\* can leave a step that asks for none of the two: it runs on success.
RunsWhenAsked ==
    Compiled =>
        \A i \in DOMAIN spec.steps, failed \in BOOLEAN :
            LET item   == spec.steps[i]
                policy == spec.policies[i]
                asked  == StatusMatch(item, IF failed THEN "failure" ELSE "success")
                runs   == policy = "always"
                          \/ policy = IF failed THEN "on-failure" ELSE "on-success"
            IN  /\ policy # "never"
                /\ Conditional(item) =>
                      StatusMatch(item, "failure") \/ StatusMatch(item, "success")
                => (runs <=> IF Conditional(item) THEN asked ELSE ~failed)

\* How often the container of the i-th step has a volume at a path.
Times(i, path, volumes) ==
    Cardinality({k \in DOMAIN spec.containers[i] :
                    /\ spec.containers[i][k].path = path
                    /\ spec.containers[i][k].volume \in volumes})

\* Each mount of a step whose volume the manifest declares reaches docker once,
\* in one of its two lists, as what was declared: a volume of the manifest is
\* neither lost between the lists nor shadowed by one of Compile's own, unless
\* it is declared twice or named like one of the internal volumes.  So does
\* each global volume, and what is to be read-only stays so if it is a file or a
\* device: the list for directories has no place for it.
MountsReachDocker ==
    Compiled /\ spec.complete =>
        \A i \in DOMAIN spec.steps :
            /\ \A n \in DOMAIN spec.steps[i].mounts :
                  LET mounts == spec.steps[i].mounts
                      m      == mounts[n]
                      decl   == {v \in DOMAIN manifest.volumes :
                                    manifest.volumes[v].name = m.name
                                    /\ manifest.volumes[v].kind # "none"}
                  IN  Cardinality(decl) = 1 /\ m.name \notin Internal =>
                        Times(i, m.path, {manifest.volumes[v] : v \in decl})
                            = Cardinality({k \in DOMAIN mounts : mounts[k] = m})
            /\ \A g \in DOMAIN Globals(opts) :
                  Times(i, Globals(opts)[g].path, {GlobalVolumes(opts)[g]}) = 1
            /\ \A k \in DOMAIN spec.containers[i] :
                  LET mounted == spec.containers[i][k]
                  IN  mounted.volume.kind \in {"file", "device"} =>
                          mounted.ro = mounted.volume.ro

\* Docker refuses a container with two mounts at one path.  Compile's own never
\* collide, with each other or with those asked for that keep away from each
\* other and from Compile's paths, but for two cases.  The manifest may have its
\* workspace at a path of Compile's, such as /drone/bin: no step can start.  And
\* the internal step that copies the helper is given the tmate volume where it has
\* the helper's: with both no pipeline can start.
MountPointsDistinct ==
    Compiled /\ spec.complete =>
        \A i \in DOMAIN spec.containers :
            LET base  == Workspace(manifest.workspace, opts).base
                fixed == {Bin, Helper, Addons} \cup
                         IF i \in DOMAIN spec.steps
                         THEN {OutputPath(opts, spec.transport, spec.steps[i].name)} ELSE {}
            IN  /\ Unique([n \in DOMAIN Asked(i) |-> Asked(i)[n].path])
                /\ \A n \in DOMAIN Asked(i) : Asked(i)[n].path \notin fixed \cup {base}
                /\ i \in DOMAIN spec.steps => base \notin fixed
                /\ ~(i \notin DOMAIN spec.steps /\ opts.helper = "image" /\ opts.debug)
                => \A j, k \in DOMAIN spec.containers[i] :
                      spec.containers[i][j].path = spec.containers[i][k].path => j = k

\* docs/step-outputs.md lists a malformed from_output among the failures at
\* compile or lint time.
MalformedRefsRejected ==
    Compiled => \A i \in DOMAIN All(manifest) : All(manifest)[i].source # Malformed
=============================================================================
