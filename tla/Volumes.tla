------------------------------ MODULE Volumes ------------------------------
(***************************************************************************)
(* The volumes of a spec and the mounts of its containers, as Compile       *)
(* builds them and as engine/convert.go turns them into the two lists       *)
(* docker knows, Binds and Mounts.                                         *)
(*                                                                         *)
(* A volume is [name, kind, ro, host], a mount [name, path].  A path is the  *)
(* sequence of its components, and the name of a step is one of them.  A      *)
(* volume's name is a tuple: of one string in a manifest and for the internal *)
(* volumes, of two where Compile draws an id.  The kind says what the volume  *)
(* is: an EmptyDir on disk or in memory, or a HostPath and what the runner    *)
(* finds there; host is where that is on the host.                           *)
(***************************************************************************)
EXTENDS Sequences, Integers

CONSTANT Restricted     \* the paths that container.IsRestrictedVolume refuses

HostKind   == {"dir", "file", "absent", "device", "pipe"}
VolumeKind == HostKind \cup {"disk", "memory"}
GivenName  == [{1} -> STRING]

Elsewhere == <<"elsewhere">>            \* on the host, away from the outputs

Volume(name, kind) ==
    [name |-> name, kind |-> kind, ro |-> FALSE, host |-> Elsewhere]

Mount(name, path)  == [name |-> name, path |-> path]

Src     == <<"drone", "src">>           \* the workspace by default
Bin     == <<"drone", "bin">>
Helper  == <<"drone", "bin", "drone-output">>
Addons  == <<"usr", "drone", "bin">>
Reserved == {<<"workspace">>, <<"_workspace">>, <<"_docker_socket">>}
Internal == {<<"_output_helper">>, <<"_addons">>}

\* dir is path or a directory that path lies in.
Under(path, dir) == Len(dir) <= Len(path) /\ SubSeq(path, 1, Len(dir)) = dir

\* A loop over s that goes on to the next round where the place is not in keep.
Kept(s, keep) ==
    LET upTo[n \in 0 .. Len(s)] ==
            IF n = 0 THEN <<>>
            ELSE IF n \in keep THEN Append(upTo[n - 1], s[n]) ELSE upTo[n - 1]
    IN  upTo[Len(s)]

-----------------------------------------------------------------------------
(* What kind of volume it is *)

IsBindMount(v)     == v.kind \in HostKind
IsFileBindMount(v) == v.kind = "file"       \* os.Stat: a regular file
IsTempfs(v)        == v.kind = "memory"
IsDataVolume(v)    == v.kind = "disk"
IsDevice(v)        == v.kind = "device"
IsNamedPipe(v)     == v.kind = "pipe"

\* lookupVolume: the first of that name.
Declared(volumes, name) == \E i \in DOMAIN volumes : volumes[i].name = name

LookupVolume(volumes, name) ==
    volumes[CHOOSE i \in DOMAIN volumes :
                /\ volumes[i].name = name
                /\ \A j \in 1 .. i - 1 : volumes[j].name # name]

-----------------------------------------------------------------------------
(* The configuration of a container.  Definitions named Bug... are          *)
(* plausible mistakes in the definition that follows them.                  *)

\* toVolumeSlice and toVolumeMounts: a volume goes into Binds, into Mounts.
InBinds(v) ==
    /\ ~IsDevice(v)
    /\ IsDataVolume(v) \/ (IsBindMount(v) /\ ~IsFileBindMount(v))

BugInMounts(v) == ~(IsBindMount(v) /\ ~IsFileBindMount(v)) /\ ~IsDataVolume(v)

InMounts(v) ==
    /\ ~(IsBindMount(v) /\ ~IsDevice(v) /\ ~IsFileBindMount(v))
    /\ ~IsDataVolume(v)

\* toMount and the strings of toVolumeSlice: what docker is told to mount.
ToVolumeType(v) ==
    IF IsDataVolume(v) THEN "volume" ELSE IF IsTempfs(v) THEN "tmpfs"
    ELSE IF IsNamedPipe(v) THEN "npipe" ELSE "bind"

ToMount(v, path) ==
    [type |-> ToVolumeType(v), path |-> path, volume |-> v,
     ro |-> (IsBindMount(v) \/ IsNamedPipe(v)) /\ v.ro]

ToBind(v, path) ==
    [type |-> IF IsDataVolume(v) THEN "volume" ELSE "bind", path |-> path,
     volume |-> v, ro |-> FALSE]

\* The HostConfig's Binds and Mounts: the entry <<list, k>> is what the k-th
\* mount of the step becomes in that list.  A mount of an unknown volume is
\* dropped.
HostConfig(volumes, mounts) ==
    LET Of(k) == LookupVolume(volumes, mounts[k].name)
        known == {k \in DOMAIN mounts : Declared(volumes, mounts[k].name)}
    IN  [e \in ({"Binds"} \X {k \in known : InBinds(Of(k))})
               \cup ({"Mounts"} \X {k \in known : InMounts(Of(k))}) |->
            IF e[1] = "Binds" THEN ToBind(Of(e[2]), mounts[e[2]].path)
            ELSE ToMount(Of(e[2]), mounts[e[2]].path)]

-----------------------------------------------------------------------------
(* The volumes and mounts that Compile adds.  o is how the compiler is set   *)
(* up, ws the workspace of the manifest: see Compiler.  The checkout on the   *)
(* host and the helper's executable lie away from the outputs.               *)

\* What base and path stand for: base is mounted, in full the steps work.
CreateWorkspace(ws) ==
    LET base == IF ws.base # <<>> THEN ws.base
                ELSE IF ws.rooted THEN ws.path ELSE Src
    IN  [base |-> base,
         full |-> IF ws.base = <<>> /\ ws.rooted THEN base ELSE base \o ws.path]

Workspace(ws, o) ==
    LET asked == CreateWorkspace(ws)
        given == IF asked.full \in Restricted THEN [base |-> Src, full |-> Src] ELSE asked
    IN  IF o.mount THEN [given EXCEPT !.base = given.full] ELSE given

WorkspaceVolume(o)    == Volume(<<"_workspace">>, IF o.mount THEN "dir" ELSE "disk")
WorkspaceMount(ws, o) == Mount(<<"_workspace">>, Workspace(ws, o).base)

HelperVolumes(o) ==
    CASE o.helper = "image" -> <<Volume(<<"_output_helper">>, "disk")>>
      [] o.helper = "path"  -> <<Volume(<<"helper", "id">>, "file")>>
      [] OTHER              -> <<>>

BugHelperMounts(o) ==       \* where the internal step has it
    IF o.helper = "image" THEN <<Mount(<<"_output_helper">>, Addons)>> ELSE <<>>

HelperMounts(o) ==
    CASE o.helper = "image" -> <<Mount(<<"_output_helper">>, Bin)>>
      [] o.helper = "path"  -> <<Mount(<<"helper", "id">>, Helper)>>
      [] OTHER              -> <<>>

\* The internal step that copies the helper, and the one that copies tmate.
\* The tmate volume is mounted in every step there is by then.
TmateMounts(o) == IF o.debug THEN <<Mount(<<"_addons">>, Addons)>> ELSE <<>>

InternalMounts(o) ==
    (IF o.helper = "image"
     THEN <<<<Mount(<<"_output_helper">>, Addons)>> \o TmateMounts(o)>> ELSE <<>>)
    \o IF o.debug THEN <<TmateMounts(o)>> ELSE <<>>

\* sharedOutputTarget and sharedOutputRoot, the directory of this pipeline.
OutputTarget(o) == IF o.root = "default" THEN <<"drone", "outputs">> ELSE <<"srv", "out">>
OutputRoot(o)   == OutputTarget(o) \o <<"uuid">>

\* The directory a step is given: its own, or the one with the socket.
OutputPath(o, mode, step) ==
    IF mode = "file" THEN Append(OutputRoot(o), step) ELSE OutputRoot(o)

HasOutputVolumes(o, mode) ==
    o.helper # "none" /\ o.shared /\ mode \in {"file", "unix"}

\* resolveOutputDir, or where the socket is: what the step is told.  If the
\* directories are not shared with the runner they are in the workspace.
OutputDir(ws, o, mode, step) ==
    CASE HasOutputVolumes(o, mode) -> OutputPath(o, mode, step)
      [] o.helper # "none" /\ mode = "file" /\ ~o.shared ->
            Workspace(ws, o).full \o <<".drone-outputs", step>>
      [] OTHER -> <<>>

HostBase == <<"host", "outputs">>       \* outputHostBase

BugOutputHost(mode, step) == HostBase \o <<"uuid">>    \* the pipeline's for all

\* The same directory on the host.
OutputHost(mode, step) ==
    HostBase \o IF mode = "file" THEN <<"uuid", step>> ELSE <<"uuid">>

OutputVolume(mode, step) ==
    [Volume(<<"outputs", step>>, "dir") EXCEPT !.host = OutputHost(mode, step)]

\* One volume of its own per step, also for the socket they share.
OutputVolumes(o, mode, names) ==
    IF HasOutputVolumes(o, mode)
    THEN [i \in DOMAIN names |-> OutputVolume(mode, names[i])] ELSE <<>>

OutputMounts(o, mode, step) ==
    IF HasOutputVolumes(o, mode)
    THEN <<Mount(<<"outputs", step>>, OutputPath(o, mode, step))>> ELSE <<>>

\* DRONE_RUNNER_VOLUMES, where the shared output directory comes from too: it
\* is left out here if it is /drone/outputs.
Globals(o) ==
    LET all == o.globals \o
               IF o.shared THEN <<[kind |-> "dir", path |-> OutputTarget(o), ro |-> FALSE,
                                   host |-> HostBase]>>
               ELSE <<>>
    IN  Kept(all, {i \in DOMAIN all : all[i].path # <<"drone", "outputs">>})

GlobalVolumes(o) ==
    [i \in DOMAIN Globals(o) |->
        [Volume(<<"global", i>>, Globals(o)[i].kind)
            EXCEPT !.ro = Globals(o)[i].ro, !.host = Globals(o)[i].host]]

GlobalMounts(o) ==
    [i \in DOMAIN Globals(o) |-> Mount(<<"global", i>>, Globals(o)[i].path)]
=============================================================================
