------------------------------ MODULE MCRunner ------------------------------
(***************************************************************************)
(* Small instances of Runner for TLC: two threads, two stages, one of them  *)
(* outside the limits of one of the configurations.                        *)
(***************************************************************************)
EXTENDS Runner, TLC

CONSTANTS s1, s2

MCStage == {s1, s2}
MCBuild == s1 :> [slug |-> "octocat/hello", event |-> "push", trusted |-> TRUE]
        @@ s2 :> [slug |-> "octocat/fork", event |-> "pull_request", trusted |-> FALSE]
MCGlob  == {<<"octocat/*", "octocat/hello">>, <<"octocat/*", "octocat/fork">>,
            <<"push", "push">>}

Config(command, bind, advertise, repos, events, trusted) ==
    [command |-> command, bind |-> bind, advertise |-> advertise,
     repos |-> repos, events |-> events, trusted |-> trusted]

MCConfigs ==
    {Config("daemon", TRUE, TRUE, {}, {}, FALSE),
     Config("daemon", FALSE, TRUE, {"octocat/*"}, {"push"}, FALSE),
     Config("daemon", TRUE, FALSE, {}, {}, TRUE),
     Config("process", TRUE, TRUE, {"nobody/*"}, {}, TRUE)}
=============================================================================
