---------------------------- MODULE OutputService ----------------------------
(***************************************************************************)
(* internal/outputservice: the in-memory store behind the unix and http    *)
(* output transports.  A Service keeps two TTL maps under one RWMutex (mu): *)
(* pipelines, whose entries hold a PipelineOutputs object with a mutex of   *)
(* its own, and tokens, which say which step of which pipeline a bearer is. *)
(*                                                                         *)
(* A section of code that holds mu throughout is one action: nothing else   *)
(* that needs mu can run inside it.  What the code does after releasing mu, *)
(* or without any lock, is an action of its own.                           *)
(*                                                                         *)
(* Deadlines are kept as the time that is left: -1 is expired, Tick moves  *)
(* every deadline one unit closer, so the clock itself needs no bound.     *)
(* Pipeline ids are never registered twice: the server hands a stage to    *)
(* one runner once.                                                        *)
(***************************************************************************)
EXTENDS OutputMap

CONSTANTS
    Pipeline,   \* pipeline ids, <repo>/<build>/<stage>
    Step,       \* step names
    Publisher,  \* drone-output invocations: connections the transports serve
    Consumer,   \* Resolve calls, made by the executor for a starting step
    Batch,      \* the op sequences a drone-output invocation may send
    TTL,        \* DRONE_OUTPUT_TTL, in clock units
    NoValue     \* what Resolve answers when there is no such output

ASSUME BatchAssumption == Batch \subseteq Seq(Op) \ {<<>>}
ASSUME TTLAssumption == TTL \in Nat \ {0}
ASSUME NoValueAssumption == NoValue \notin Value

Token == Pipeline \X Step   \* random() per step: one token is one StepIdentity

Idle == [at |-> "idle"]
Left == -1 .. TTL

VARIABLES
    phase,      \* phase[p]: "new", "open" (registered) or "closed" (deleted)
    pipelines,  \* deadlines of Service.pipelines
    tokens,     \* deadlines of Service.tokens
    byStep,     \* PipelineOutputs.byStep of every object, by token
    req,        \* req[w]: the Apply call of publisher w
    res,        \* res[c]: the Resolve call of consumer c
    alive       \* FALSE after a fatal "concurrent map read and map write"

vars == <<phase, pipelines, tokens, byStep, req, res, alive>>

\* Definitions named Bug... are plausible mistakes in the definition that
\* follows them; no specification uses them.  The properties must tell them
\* from the code.

Expired(left) == left < 0
BugElapse(f, d) == [x \in DOMAIN f |-> f[x] - d]   \* deadlines never settle
Elapse(f, d)  == [x \in DOMAIN f |-> IF f[x] - d < -1 THEN -1 ELSE f[x] - d]
Without(f, S) == [x \in DOMAIN f \ S |-> f[x]]
TokensOf(p)   == {t \in Token : t[1] = p}

Writing(t) == {w \in Publisher : req[w].at = "writing" /\ req[w].token = t}

Init ==
    /\ phase = [p \in Pipeline |-> "new"]
    /\ pipelines = [p \in {} |-> TTL]
    /\ tokens = [t \in {} |-> TTL]
    /\ byStep = [t \in {} |-> EmptyMap]
    /\ req = [w \in Publisher |-> Idle]
    /\ res = [c \in Consumer |-> Idle]
    /\ alive = TRUE

-----------------------------------------------------------------------------
\* Compile registers a pipeline with a token for each of its steps.
RegisterPipeline(p) ==
    /\ phase[p] = "new"
    /\ phase' = [phase EXCEPT ![p] = "open"]
    /\ pipelines' = [q \in DOMAIN pipelines \cup {p} |->
                        IF q = p THEN TTL ELSE pipelines[q]]
    /\ tokens' = [t \in DOMAIN tokens \cup TokensOf(p) |->
                        IF t[1] = p THEN TTL ELSE tokens[t]]
    /\ UNCHANGED <<byStep, req, res, alive>>

BugDeletePipeline(p) ==     \* forgets the tokens
    /\ phase[p] = "open"
    /\ phase' = [phase EXCEPT ![p] = "closed"]
    /\ pipelines' = Without(pipelines, {p})
    /\ UNCHANGED <<tokens, byStep, req, res, alive>>

\* Exec's deferred clean-up, after the last step returned: no Resolve for the
\* pipeline is in progress, but an Apply may be.
DeletePipeline(p) ==
    /\ phase[p] = "open"
    /\ \A c \in Consumer :
          res[c].at \in {"found", "reading"} => res[c].pipeline # p
    /\ phase' = [phase EXCEPT ![p] = "closed"]
    /\ pipelines' = Without(pipelines, {p})
    /\ tokens' = Without(tokens, TokensOf(p))
    /\ UNCHANGED <<byStep, req, res, alive>>

Tick ==
    /\ \E x \in DOMAIN pipelines : ~Expired(pipelines[x])
       \/ \E t \in DOMAIN tokens : ~Expired(tokens[t])
    /\ pipelines' = Elapse(pipelines, 1)
    /\ tokens' = Elapse(tokens, 1)
    /\ UNCHANGED <<phase, byStep, req, res, alive>>

BugPruneEarly ==            \* drops what expires now
    /\ pipelines' = Without(pipelines, {p \in DOMAIN pipelines : pipelines[p] <= 0})
    /\ tokens' = Without(tokens, {t \in DOMAIN tokens : tokens[t] <= 0})
    /\ UNCHANGED <<phase, byStep, req, res, alive>>

BugPruneTokens ==           \* leaves the pipelines to DeletePipeline
    /\ tokens' = Without(tokens, {t \in DOMAIN tokens : Expired(tokens[t])})
    /\ UNCHANGED <<phase, pipelines, byStep, req, res, alive>>

\* The janitor: one clock reading for both maps.
Prune ==
    LET oldPipelines == {p \in DOMAIN pipelines : Expired(pipelines[p])}
        oldTokens    == {t \in DOMAIN tokens : Expired(tokens[t])}
    IN  /\ oldPipelines # {} \/ oldTokens # {}
        /\ pipelines' = Without(pipelines, oldPipelines)
        /\ tokens' = Without(tokens, oldTokens)
        /\ UNCHANGED <<phase, byStep, req, res, alive>>

-----------------------------------------------------------------------------
\* A transport decoded and validated a request; its token need not be known.
Receive(w) ==
    /\ req[w].at = "idle"
    /\ \E t \in Token, ops \in Batch :
          req' = [req EXCEPT ![w] = [at |-> "sent", token |-> t, ops |-> ops]]
    /\ UNCHANGED <<phase, pipelines, tokens, byStep, res, alive>>

BugRefreshPipeline(f, p) == f   \* only the token's deadline moves

RefreshPipeline(f, p) == [f EXCEPT ![p] = TTL]

\* The section of Apply under mu reads the clock up to three times: once for
\* each expiry test and once for the new deadline.  late1 and late2 are the
\* time that passes between one reading and the next.
Authorise(w) ==
    /\ req[w].at = "sent"
    /\ \E late1, late2 \in 0 .. 1 :
        LET t == req[w].token
            p == t[1]
            known == t \in DOMAIN tokens /\ ~Expired(tokens[t])
            kept  == Elapse(pipelines, late1)
            there == p \in DOMAIN pipelines /\ ~Expired(kept[p])
        IN  \/ /\ ~known
               /\ tokens' = Without(tokens, {t})
               /\ req' = [req EXCEPT ![w].at = "refused"]
               /\ UNCHANGED pipelines
            \/ /\ known /\ ~there
               /\ tokens' = Elapse(tokens, late1)
               /\ pipelines' = Without(kept, {p})
               /\ req' = [req EXCEPT ![w].at = "refused"]
            \/ /\ known /\ there
               /\ tokens' = [Elapse(tokens, late1 + late2) EXCEPT ![t] = TTL]
               /\ pipelines' = RefreshPipeline(Elapse(kept, late2), p)
               /\ req' = [req EXCEPT ![w].at = "accepted"]
    /\ UNCHANGED <<phase, byStep, res, alive>>

BugLockPipeline(w) ==       \* a read lock where the write lock is needed
    LET t    == req[w].token
        base == IF t \in DOMAIN byStep THEN byStep[t] ELSE EmptyMap
    IN  /\ req[w].at = "accepted"
        /\ byStep' = [u \in DOMAIN byStep \cup {t} |->
                        IF u = t THEN base ELSE byStep[u]]
        /\ req' = [req EXCEPT ![w] =
                      [at |-> "writing", token |-> t, ops |-> @.ops,
                       left |-> @.ops, base |-> base]]
        /\ UNCHANGED <<phase, pipelines, tokens, res, alive>>

\* pipeline.mu.Lock: one writer at a time on the object; the step's map is
\* made on first use.  base is the content found there.
LockPipeline(w) ==
    LET t    == req[w].token
        base == IF t \in DOMAIN byStep THEN byStep[t] ELSE EmptyMap
    IN  /\ req[w].at = "accepted"
        /\ \A u \in TokensOf(t[1]) : Writing(u) = {}
        /\ byStep' = [u \in DOMAIN byStep \cup {t} |->
                        IF u = t THEN base ELSE byStep[u]]
        /\ req' = [req EXCEPT ![w] =
                      [at |-> "writing", token |-> t, ops |-> @.ops,
                       left |-> @.ops, base |-> base]]
        /\ UNCHANGED <<phase, pipelines, tokens, res, alive>>

\* One op of the batch, and with the last one the unlock and the reply.
WriteOp(w) ==
    LET r == req[w]
    IN  /\ r.at = "writing"
        /\ byStep' = [byStep EXCEPT ![r.token] = ApplyOp(@, Head(r.left))]
        /\ req' = [req EXCEPT ![w] =
                      IF Len(r.left) = 1
                      THEN [at |-> "done", token |-> r.token, ops |-> r.ops]
                      ELSE [r EXCEPT !.left = Tail(@)]]
        /\ UNCHANGED <<phase, pipelines, tokens, res, alive>>

-----------------------------------------------------------------------------
\* Resolve under mu.RLock: find the pipeline's object.
Lookup(c) ==
    /\ res[c].at = "idle"
    /\ \E t \in Token, k \in Key :
        /\ phase[t[1]] = "open"
        /\ res' = [res EXCEPT ![c] =
             IF t[1] \in DOMAIN pipelines /\ ~Expired(pipelines[t[1]])
             THEN [at |-> "found", pipeline |-> t[1], step |-> t[2], key |-> k]
             ELSE [at |-> "answered", pipeline |-> t[1], step |-> t[2],
                   key |-> k, value |-> NoValue]]
    /\ UNCHANGED <<phase, pipelines, tokens, byStep, req, alive>>

\* Resolve under pipeline.mu.RLock: fetch the step's map, nil if none exists.
FetchMap(c) ==
    LET r == res[c]
        t == <<r.pipeline, r.step>>
    IN  /\ r.at = "found"
        /\ \A u \in TokensOf(r.pipeline) : Writing(u) = {}
        /\ res' = [res EXCEPT ![c] =
             IF t \in DOMAIN byStep
             THEN [r EXCEPT !.at = "reading"]
             ELSE [at |-> "answered", pipeline |-> r.pipeline,
                   step |-> r.step, key |-> r.key, value |-> NoValue]]
        /\ UNCHANGED <<phase, pipelines, tokens, byStep, req, alive>>

BugReadMap(c) ==            \* any step's output of that name will do
    LET r == res[c]
    IN  /\ r.at = "reading"
        /\ \E u \in DOMAIN byStep :
            /\ r.key \in DOMAIN byStep[u]
            /\ res' = [res EXCEPT ![c] =
                 [at |-> "answered", pipeline |-> r.pipeline, step |-> r.step,
                  key |-> r.key, value |-> byStep[u][r.key]]]
        /\ UNCHANGED <<phase, pipelines, tokens, byStep, req, alive>>

\* The step's map is read with no lock held.
ReadMap(c) ==
    LET r == res[c]
        m == byStep[<<r.pipeline, r.step>>]
    IN  /\ r.at = "reading"
        /\ res' = [res EXCEPT ![c] =
             [at |-> "answered", pipeline |-> r.pipeline, step |-> r.step,
              key |-> r.key,
              value |-> IF r.key \in DOMAIN m THEN m[r.key] ELSE NoValue]]
        /\ UNCHANGED <<phase, pipelines, tokens, byStep, req, alive>>

Races(c, w) ==
    /\ res[c].at = "reading"
    /\ w \in Writing(<<res[c].pipeline, res[c].step>>)

\* Go's runtime may detect the overlapping map read and write: it ends the
\* whole process.
MapFault ==
    /\ \E c \in Consumer, w \in Publisher : Races(c, w)
    /\ alive' = FALSE
    /\ UNCHANGED <<phase, pipelines, tokens, byStep, req, res>>

-----------------------------------------------------------------------------
Next ==
    /\ alive
    /\ \/ \E p \in Pipeline : RegisterPipeline(p) \/ DeletePipeline(p)
       \/ Tick
       \/ Prune
       \/ \E w \in Publisher :
             Receive(w) \/ Authorise(w) \/ LockPipeline(w) \/ WriteOp(w)
       \/ \E c \in Consumer : Lookup(c) \/ FetchMap(c) \/ ReadMap(c)
       \/ MapFault

Spec == Init /\ [][Next]_vars

\* Time passes and the janitor's ticker fires; nobody has to send, resolve or
\* clean up.
FairSpec == Spec /\ WF_vars(alive /\ Tick) /\ WF_vars(alive /\ Prune)

-----------------------------------------------------------------------------
\* The values the code's variables may take.
ReqType ==
    {Idle}
    \cup [at : {"sent", "accepted", "refused", "done"}, token : Token, ops : Batch]
    \cup [at : {"writing"}, token : Token, ops : Batch,
          left : Seq(Op) \ {<<>>}, base : Map]

ResType ==
    {Idle}
    \cup [at : {"found", "reading"}, pipeline : Pipeline, step : Step, key : Key]
    \cup [at : {"answered"}, pipeline : Pipeline, step : Step, key : Key,
          value : Value \cup {NoValue}]

TypeOK ==
    /\ phase \in [Pipeline -> {"new", "open", "closed"}]
    /\ pipelines \in UNION {[D -> Left] : D \in SUBSET Pipeline}
    /\ tokens \in UNION {[D -> Left] : D \in SUBSET Token}
    /\ byStep \in UNION {[D -> Map] : D \in SUBSET Token}
    /\ req \in [Publisher -> ReqType]
    /\ res \in [Consumer -> ResType]
    /\ alive \in BOOLEAN

\* A token that has not expired leads to a pipeline entry that has not expired
\* either: the two deadlines are refreshed together in Apply, the janitor and
\* DeletePipeline drop the entry only with its tokens, so a step is refused
\* with "unknown output pipeline" only when the clock crosses the deadline
\* between Apply's two readings of it.
LiveTokenHasPipeline ==
    \A t \in DOMAIN tokens :
        ~Expired(tokens[t]) =>
            /\ t[1] \in DOMAIN pipelines
            /\ tokens[t] <= pipelines[t[1]]

\* After DeletePipeline nothing of the pipeline is left or comes back, although
\* an Apply that was accepted before may still be writing to its object.
ClosedStaysClosed ==
    \A p \in Pipeline :
        phase[p] = "closed" =>
            p \notin DOMAIN pipelines /\ DOMAIN tokens \cap TokensOf(p) = {}

\* The tables mention open pipelines only, and a Resolve that reads a step's
\* map unlocked reads one that exists: with LiveTokenHasPipeline, what every
\* section of service.go takes for granted and leaves so.
IInv ==
    /\ TypeOK
    /\ \A p \in DOMAIN pipelines : phase[p] = "open"
    /\ \A t \in DOMAIN tokens : phase[t[1]] = "open"
    /\ \A c \in Consumer :
          res[c].at = "reading" =>
              <<res[c].pipeline, res[c].step>> \in DOMAIN byStep
    /\ LiveTokenHasPipeline

\* An open pipeline's entry and tokens go away only after a full TTL in which
\* they were not refreshed: Prune and Apply's lazy deletes drop nothing earlier.
OnlyClosedOrExpired ==
    [][ /\ \A p \in DOMAIN pipelines \ DOMAIN pipelines' :
              phase'[p] = "closed" \/ pipelines[p] < 1
        /\ \A t \in DOMAIN tokens \ DOMAIN tokens' :
              phase'[t[1]] = "closed" \/ Expired(tokens[t]) ]_vars

\* A Resolve of (pipeline, step, key) answers with a value that a publication
\* accepted for that pipeline and that step sets for that key, whatever other
\* pipelines and steps publish meanwhile.
AnswersAreOwn ==
    \A c \in Consumer :
        res[c].at = "answered" /\ res[c].value # NoValue =>
            \E w \in Publisher :
                /\ req[w].at \in {"writing", "done"}
                /\ req[w].token = <<res[c].pipeline, res[c].step>>
                /\ [op |-> "set", key |-> res[c].key, value |-> res[c].value]
                      \in {req[w].ops[i] : i \in DOMAIN req[w].ops}

\* docs/output-transport-architecture.md calls the store concurrent-safe: no
\* Resolve reads a step's map while an Apply writes it.
NoConcurrentMapAccess ==
    \A c \in Consumer, w \in Publisher : ~Races(c, w)

\* What a pipeline leaves behind when it is never deleted (the runner fails
\* between Compile and Exec) is dropped by the janitor.
LeakedStateExpires ==
    <>[](alive => DOMAIN pipelines = {} /\ DOMAIN tokens = {})

\* The store as its users see it: a publication under way is not in it yet.
visible ==
    [t \in Token |->
        IF Writing(t) # {}
        THEN req[CHOOSE w \in Writing(t) : TRUE].base
        ELSE IF t \in DOMAIN byStep THEN byStep[t] ELSE EmptyMap]

publications ==
    [w \in Publisher |->
        IF req[w].at = "writing"
        THEN [at |-> "accepted", token |-> req[w].token, ops |-> req[w].ops]
        ELSE req[w]]

Abstract == INSTANCE OutputStore WITH store <- visible, req <- publications

\* The service implements one store per pipeline in which every accepted
\* publication lands whole, at one instant and in its own step's outputs, and
\* nothing is accepted before the pipeline is opened or after it is closed.
ImplementsOutputStore == Abstract!Spec
=============================================================================
