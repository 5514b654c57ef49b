----------------------------- MODULE MCCompiler -----------------------------
(***************************************************************************)
(* Small instances of Compiler for TLC: six families of manifests, each    *)
(* with the settings of the compiler that matter for it.                   *)
(***************************************************************************)
EXTENDS Compiler

CONSTANTS clone, a, b, c, db

MCName == {clone, a, b, c, db}

Make(n, deps, source, detach) ==
    [name |-> n, deps |-> deps, source |-> source, detach |-> detach,
     include |-> {}, exclude |-> {}, when |-> TRUE, privileged |-> FALSE,
     mounts |-> <<>>]

Pipe(cl, services, steps) ==
    [clone |-> cl, services |-> services, steps |-> steps,
     trusted |-> TRUE, volumes |-> <<>>,
     workspace |-> [base |-> <<>>, path |-> <<>>, rooted |-> FALSE]]

Global(kind, path, ro) == [kind |-> kind, path |-> path, ro |-> ro, host |-> Elsewhere]

\* drone exec: no helper, no output service.
Local == [mode |-> "file", helper |-> "none", service |-> FALSE,
          shared |-> FALSE, url |-> FALSE, root |-> "default", mount |-> FALSE,
          debug |-> FALSE, globals |-> <<>>, include |-> {}, exclude |-> {}]

\* Every dependency relation on three steps and the clone; c may consume an
\* output of a, which may be detached.
MCGraphs ==
    {Pipe(cl, <<>>, <<Make(a, da, None, det), Make(b, db1, None, FALSE),
                      Make(c, dc, source, FALSE)>>) :
        cl \in BOOLEAN, det \in BOOLEAN, source \in {None, a},
        da \in SUBSET {clone, b}, db1 \in SUBSET {clone, a, b, c},
        dc \in SUBSET {clone, a, b}}

\* A service, names that occur twice, a user's own clone step, references that
\* are malformed or to a service, and a step that consumes its own output.
MCServices ==
    {Pipe(cl, <<Make(s, ds, ss, FALSE)>>,
          <<Make(n, dn, None, det), Make(b, db1, sb, FALSE)>>) :
        cl \in BOOLEAN, s \in {db, b}, ds \in {{}, {clone}, {b}},
        ss \in {None, Malformed, b}, n \in {a, clone},
        dn \in {{}, {db}, {clone}}, det \in BOOLEAN,
        db1 \in {{}, {a}, {clone}, {db, a}},
        sb \in {None, Malformed, a, b, db}}

\* How outputs travel: every setting of the compiler.
MCTransports ==
    {Pipe(TRUE, <<Make(db, {}, None, FALSE)>>, <<Make(a, {}, source, FALSE)>>) :
        source \in {None, a}}
    \cup {Pipe(TRUE, <<Make(db, {}, Malformed, FALSE)>>, <<>>)}

MCSettings ==
    {[mode |-> m, helper |-> h, service |-> s, shared |-> d, url |-> u,
      root |-> r, mount |-> w, debug |-> t, globals |-> <<>>,
      include |-> {}, exclude |-> {}] :
        m \in {"file", "auto", "unix", "http", "other"},
        h \in {"none", "image", "path"}, s \in BOOLEAN, d \in BOOLEAN,
        u \in BOOLEAN, r \in {"default", "other"}, w \in BOOLEAN, t \in BOOLEAN}

\* A volume of every kind, next to another one that may have its name or one of
\* an internal volume; a step that mounts one of them, both, or one that is not
\* declared, and at a path that is refused.
MCVolumes ==
    LET Kinds   == VolumeKind \cup {"none"}
        Cache   == <<"cache">>
        Others  == {Cache, <<"data">>, <<"_addons">>, <<"_output_helper">>, <<"_workspace">>}
        Lists   == {<<>>} \cup {<<Volume(Cache, k)>> : k \in Kinds}
                   \cup {<<Volume(Cache, k), Volume(n, l)>> :
                            k \in {"disk", "dir", "none"}, n \in Others,
                            l \in {"disk", "file", "memory"}}
        Mounts  == {<<Mount(n, Cache)>> : n \in Others}
                   \cup {<<Mount(Cache, Cache), Mount(<<"data">>, <<"data">>)>>,
                         <<Mount(Cache, <<"run", "drone">>)>>}
    IN  {[Pipe(FALSE, <<>>, <<[Make(a, {}, None, FALSE) EXCEPT
                                 !.mounts = ms, !.privileged = p],
                              Make(b, {}, None, FALSE)>>)
            EXCEPT !.volumes = vs, !.trusted = t] :
            vs \in Lists, ms \in Mounts, p \in BOOLEAN, t \in BOOLEAN}

MCVolumeSettings ==
    {[Local EXCEPT !.helper = h, !.debug = t, !.shared = d, !.root = r, !.globals = g] :
        h \in {"image", "path"}, t \in BOOLEAN, d \in BOOLEAN,
        r \in {"default", "other"},
        g \in {<<>>, <<Global("dir", <<"etc">>, TRUE), Global("file", <<"opt">>, TRUE),
                       Global("dir", <<"drone", "outputs">>, FALSE)>>}}

\* A workspace by default, at paths of Compile's, around them, at one that is
\* refused; a volume of the manifest and a global one that hold the outputs of all.
MCWorkspaces ==
    LET All0   == [Volume(<<"all">>, "dir") EXCEPT !.host = HostBase]
        Bases  == {<<>>, <<"drone">>, Bin, Addons, <<"etc">>,
                   <<"drone", "outputs", "uuid", a>>}
        Paths  == {<<>>, <<"src">>, Bin, <<"etc">>}
    IN  {[Pipe(FALSE, <<>>, <<[Make(a, {}, None, FALSE) EXCEPT !.mounts = ms],
                              Make(b, {}, None, FALSE)>>)
            EXCEPT !.volumes = <<All0>>,
                   !.workspace = [base |-> ba, path |-> pa, rooted |-> r]] :
            ba \in Bases, pa \in Paths, r \in BOOLEAN,
            ms \in {<<>>, <<Mount(<<"all">>, <<"all">>)>>}}

MCWorkspaceSettings ==
    {[Local EXCEPT !.helper = h, !.debug = t, !.shared = d, !.mount = w, !.mode = m,
                   !.service = TRUE, !.globals = g] :
        h \in {"none", "image", "path"}, t \in BOOLEAN, d \in BOOLEAN, w \in BOOLEAN,
        m \in {"file", "unix"},
        g \in {<<>>, <<[Global("dir", <<"any">>, FALSE) EXCEPT !.host = <<"host">>]>>}}

MCRestricted == {<<>>, <<"etc">>}

\* Every when.status, and the choices of drone exec.
MCPolicies ==
    LET Statuses == SUBSET {"success", "failure", "killed"}
    IN  {Pipe(TRUE, <<>>, <<[Make(a, {}, None, FALSE) EXCEPT
                               !.include = i, !.exclude = e, !.when = w],
                            Make(b, {}, None, FALSE)>>) :
            i \in Statuses, e \in Statuses, w \in BOOLEAN}

MCChoices ==
    {[Local EXCEPT !.mount = w, !.include = i, !.exclude = e] :
        w \in BOOLEAN, i \in {{}, {a}, {b}}, e \in {{}, {a}, {clone}}}

MCInputs ==
    ((MCGraphs \cup MCServices) \X {Local}) \cup (MCTransports \X MCSettings)
    \cup (MCVolumes \X MCVolumeSettings) \cup (MCPolicies \X MCChoices)
    \cup (MCWorkspaces \X MCWorkspaceSettings)
=============================================================================
