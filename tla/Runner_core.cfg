SPECIFICATION Spec
CONSTANTS
    s1 = s1
    s2 = s2
    Stage <- MCStage
    Build <- MCBuild
    Glob <- MCGlob
    Configs <- MCConfigs
    Thread = {t1, t2}
CHECK_DEADLOCK FALSE
INVARIANTS TypeOK NothingOutlivesItsStage ExitsDrained RefusedOnlyAtTheEdges
PROPERTIES DaemonStops StagesSettle UsesTheStore
