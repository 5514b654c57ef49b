SPECIFICATION Spec
CONSTANTS
    build = build
    service = service
    tmate = tmate
    workspace = workspace
    cache = cache
    Step = {build, service}
    Detached = {service}
    Internal = {}
    Volume = {workspace, cache}
    Memory = {cache}
CHECK_DEADLOCK FALSE
INVARIANTS NoVolumeLeftBehind
