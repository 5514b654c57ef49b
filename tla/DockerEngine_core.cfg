SPECIFICATION FairSpec
CONSTANTS
    build = build
    service = service
    tmate = tmate
    workspace = workspace
    cache = cache
    Step = {build, service}
    Detached = {service}
    Internal = {tmate}
    Volume = {workspace, cache}
    Memory = {cache}
CHECK_DEADLOCK FALSE
INVARIANTS TypeOK StepsHaveTheirEnvironment NothingLeftBehind LoggingClosedLast
PROPERTIES ExitIsReal RunsEnd
