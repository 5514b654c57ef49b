------------------------- MODULE OutputServiceProofs -------------------------
(***************************************************************************)
(* Theorems about OutputService for every set of pipelines, steps,         *)
(* publishers, consumers, keys and values, every batch and every TTL.      *)
(***************************************************************************)
EXTENDS OutputService, OutputMapProofs, SequenceTheorems, TLAPS

-----------------------------------------------------------------------------
(* The maps of outputs *)

LEMMA EmptyMapType == EmptyMap \in Map
  BY DEF EmptyMap, Map

\* What an op makes of a map of outputs is a map of outputs.
LEMMA ApplyOpType ==
  ASSUME NEW m \in Map, NEW o \in Op
  PROVE  ApplyOp(m, o) \in Map
<1>1. PICK D \in SUBSET Key : m \in [D -> Value]
  BY DEF Map
<1>2. CASE o \in SetOps
  <2>1. o.op = "set" /\ o.key \in Key /\ o.value \in Value
    BY <1>2 DEF SetOps
  <2>2. ApplySet(m, o.key, o.value) \in [D \cup {o.key} -> Value]
    BY <1>1, <2>1 DEF ApplySet
  <2>3. D \cup {o.key} \in SUBSET Key
    BY <2>1
  <2> QED
    BY <2>1, <2>2, <2>3 DEF ApplyOp, Map
<1>3. CASE o \in UnsetOps
  <2>1. o.op # "set" /\ o.key \in Key
    BY <1>3 DEF UnsetOps
  <2>2. ApplyUnset(m, o.key) \in [D \ Covered(o.key) -> Value]
    BY <1>1, <2>1 DEF ApplyUnset
  <2>3. D \ Covered(o.key) \in SUBSET Key
    OBVIOUS
  <2> QED
    BY <2>1, <2>2, <2>3 DEF ApplyOp, Map
<1> QED
  BY <1>2, <1>3 DEF Op

\* A batch is a non-empty sequence of ops; so is what is left of it until its
\* last op.
LEMMA BatchOps ==
  ASSUME NEW ops \in Batch
  PROVE  ops \in Seq(Op) \ {<<>>}
  BY BatchAssumption

LEMMA HeadTail ==
  ASSUME NEW left \in Seq(Op) \ {<<>>}
  PROVE  /\ Head(left) \in Op
         /\ Len(left) # 1 => Tail(left) \in Seq(Op) \ {<<>>}
<1>1. left \in Seq(Op) /\ left # <<>>
  OBVIOUS
<1>2. Head(left) \in Op
  BY <1>1
<1>3. Tail(left) \in Seq(Op) /\ Len(Tail(left)) = Len(left) - 1
  BY <1>1
<1>4. Len(left) \in Nat /\ Len(left) # 0
  BY <1>1
<1>5. ASSUME Len(left) # 1 PROVE Tail(left) # <<>>
  <2>1. Len(Tail(left)) # 0
    BY <1>3, <1>4, <1>5
  <2>2. Len(<<>>) = 0
    BY EmptySeq
  <2> QED
    BY <2>1, <2>2, Zenon
<1> QED
  BY <1>2, <1>3, <1>5

-----------------------------------------------------------------------------
(* The maps of deadlines *)

Deadlines(S) == UNION {[D -> Left] : D \in SUBSET S}

\* Time only brings a deadline closer, never revives an expired one, and keeps
\* the order of two deadlines.
LEMMA ElapseFacts ==
  ASSUME NEW S, NEW f \in Deadlines(S), NEW d \in Nat
  PROVE  /\ Elapse(f, d) \in Deadlines(S)
         /\ DOMAIN Elapse(f, d) = DOMAIN f
         /\ \A x \in DOMAIN f :
               Elapse(f, d)[x] = IF f[x] - d < -1 THEN -1 ELSE f[x] - d
<1>1. PICK D \in SUBSET S : f \in [D -> Left]
  BY DEF Deadlines
<1>2. \A x \in D : f[x] \in -1 .. TTL
  BY <1>1 DEF Left
<1>3. \A x \in D : (IF f[x] - d < -1 THEN -1 ELSE f[x] - d) \in Left
  BY <1>2, TTLAssumption DEF Left
<1>4. Elapse(f, d) \in [D -> Left]
  BY <1>1, <1>3 DEF Elapse
<1> QED
  BY <1>1, <1>4 DEF Elapse, Deadlines

LEMMA WithoutType ==
  ASSUME NEW S, NEW f \in Deadlines(S), NEW T
  PROVE  Without(f, T) \in Deadlines(S)
<1>1. PICK D \in SUBSET S : f \in [D -> Left]
  BY DEF Deadlines
<1>2. Without(f, T) \in [D \ T -> Left]
  BY <1>1 DEF Without
<1> QED
  BY <1>2 DEF Deadlines

LEMMA UpdateType ==
  ASSUME NEW S, NEW f \in Deadlines(S), NEW x
  PROVE  [f EXCEPT ![x] = TTL] \in Deadlines(S)
<1>1. PICK D \in SUBSET S : f \in [D -> Left]
  BY DEF Deadlines
<1>2. TTL \in Left
  BY TTLAssumption DEF Left
<1> QED
  BY <1>1, <1>2 DEF Deadlines

-----------------------------------------------------------------------------
(* The calls in progress *)

Held    == [at : {"sent", "accepted", "refused", "done"}, token : Token, ops : Batch]
Storing == [at : {"writing"}, token : Token, ops : Batch,
            left : Seq(Op) \ {<<>>}, base : Map]
Asking  == [at : {"found", "reading"}, pipeline : Pipeline, step : Step, key : Key]

\* Where a call has got to says which fields it has.
LEMMA CallForms ==
  ASSUME TypeOK
  PROVE  /\ \A w \in Publisher :
               /\ req[w].at \in {"sent", "accepted"} => req[w] \in Held
               /\ req[w].at = "writing" => req[w] \in Storing
         /\ \A c \in Consumer :
               res[c].at \in {"found", "reading"} => res[c] \in Asking
<1>1. ASSUME NEW w \in Publisher
      PROVE  /\ req[w].at \in {"sent", "accepted"} => req[w] \in Held
             /\ req[w].at = "writing" => req[w] \in Storing
  <2>1. req[w] \in {Idle} \cup Held \cup Storing
    BY <1>1 DEF TypeOK, ReqType, Held, Storing
  <2>2. Idle.at = "idle" /\ \A r \in Storing : r.at = "writing"
    BY DEF Idle, Storing
  <2>3. \A r \in Held : r.at # "writing"
    BY DEF Held
  <2> QED
    BY <2>1, <2>2, <2>3
<1>2. ASSUME NEW c \in Consumer, res[c].at \in {"found", "reading"}
      PROVE  res[c] \in Asking
  BY <1>2 DEF TypeOK, ResType, Idle, Asking
<1> QED
  BY <1>1, <1>2

-----------------------------------------------------------------------------
(* Type correctness *)

LEMMA InitType == Init => TypeOK
<1> SUFFICES ASSUME Init PROVE TypeOK
  OBVIOUS
<1>1. pipelines \in [{} -> Left] /\ tokens \in [{} -> Left] /\ byStep \in [{} -> Map]
  BY DEF Init
<1>2. req \in [Publisher -> ReqType] /\ res \in [Consumer -> ResType]
  BY DEF Init, ReqType, ResType
<1> QED
  BY <1>1, <1>2 DEF Init, TypeOK

\* The type invariant in terms of Deadlines.
LEMMA TypeParts ==
  TypeOK <=> /\ phase \in [Pipeline -> {"new", "open", "closed"}]
             /\ pipelines \in Deadlines(Pipeline)
             /\ tokens \in Deadlines(Token)
             /\ byStep \in UNION {[D -> Map] : D \in SUBSET Token}
             /\ req \in [Publisher -> ReqType]
             /\ res \in [Consumer -> ResType]
             /\ alive \in BOOLEAN
  BY DEF TypeOK, Deadlines

LEMMA RegisterType ==
  ASSUME TypeOK, NEW p \in Pipeline, RegisterPipeline(p)
  PROVE  TypeOK'
<1>1. PICK D \in SUBSET Pipeline : pipelines \in [D -> Left]
  BY DEF TypeOK
<1>2. PICK E \in SUBSET Token : tokens \in [E -> Left]
  BY DEF TypeOK
<1>3. TTL \in Left
  BY TTLAssumption DEF Left
<1>4. pipelines' \in [D \cup {p} -> Left]
  BY <1>1, <1>3 DEF RegisterPipeline
<1>5. tokens' \in [E \cup TokensOf(p) -> Left]
  BY <1>2, <1>3 DEF RegisterPipeline, TokensOf
<1>6. D \cup {p} \in SUBSET Pipeline /\ E \cup TokensOf(p) \in SUBSET Token
  BY DEF TokensOf
<1>7. phase' \in [Pipeline -> {"new", "open", "closed"}]
  BY DEF RegisterPipeline, TypeOK
<1>8. pipelines' \in Deadlines(Pipeline) /\ tokens' \in Deadlines(Token)
  BY <1>4, <1>5, <1>6 DEF Deadlines
<1>9. UNCHANGED <<byStep, req, res, alive>>
  BY DEF RegisterPipeline
<1> QED
  BY <1>7, <1>8, <1>9 DEF TypeOK, Deadlines

\* Apply under mu: the clock runs on, then an entry goes or is refreshed.
LEMMA AuthoriseType ==
  ASSUME TypeOK, NEW w \in Publisher, Authorise(w)
  PROVE  TypeOK'
<1>1. req[w] \in Held
  BY CallForms DEF Authorise
<1>2. pipelines \in Deadlines(Pipeline) /\ tokens \in Deadlines(Token)
  BY TypeParts
<1>3. PICK late1, late2 \in 0 .. 1 :
        /\ \/ pipelines' = pipelines
           \/ pipelines' = Without(Elapse(pipelines, late1), {req[w].token[1]})
           \/ pipelines' = RefreshPipeline(Elapse(Elapse(pipelines, late1), late2),
                                           req[w].token[1])
        /\ \/ tokens' = Without(tokens, {req[w].token})
           \/ tokens' = Elapse(tokens, late1)
           \/ tokens' = [Elapse(tokens, late1 + late2) EXCEPT ![req[w].token] = TTL]
        /\ \/ req' = [req EXCEPT ![w].at = "refused"]
           \/ req' = [req EXCEPT ![w].at = "accepted"]
  BY Zenon DEF Authorise
<1>4. late1 \in Nat /\ late2 \in Nat /\ late1 + late2 \in Nat
  OBVIOUS
<1>5. /\ Elapse(pipelines, late1) \in Deadlines(Pipeline)
      /\ Elapse(Elapse(pipelines, late1), late2) \in Deadlines(Pipeline)
      /\ Elapse(tokens, late1) \in Deadlines(Token)
      /\ Elapse(tokens, late1 + late2) \in Deadlines(Token)
  BY <1>2, <1>4, ElapseFacts
<1>6. pipelines' \in Deadlines(Pipeline)
  <2> DEFINE p == req[w].token[1]
  <2>1. Without(Elapse(pipelines, late1), {p}) \in Deadlines(Pipeline)
    BY <1>5, WithoutType
  <2>2. RefreshPipeline(Elapse(Elapse(pipelines, late1), late2), p)
           \in Deadlines(Pipeline)
    BY <1>5, UpdateType DEF RefreshPipeline
  <2> QED
    BY <1>2, <1>3, <2>1, <2>2
<1>7. tokens' \in Deadlines(Token)
  <2>1. Without(tokens, {req[w].token}) \in Deadlines(Token)
    BY <1>2, WithoutType
  <2>2. [Elapse(tokens, late1 + late2) EXCEPT ![req[w].token] = TTL]
           \in Deadlines(Token)
    BY <1>5, UpdateType
  <2> QED
    BY <1>2, <1>3, <1>5, <2>1, <2>2
<1>8. req' \in [Publisher -> ReqType]
  BY <1>1, <1>3 DEF TypeOK, ReqType, Held
<1>9. UNCHANGED <<phase, byStep, res, alive>>
  BY DEF Authorise
<1> QED
  BY <1>6, <1>7, <1>8, <1>9 DEF TypeOK, Deadlines

LEMMA DropType ==
  ASSUME TypeOK, (\E p \in Pipeline : DeletePipeline(p)) \/ Tick \/ Prune
  PROVE  TypeOK'
<1>1. pipelines \in Deadlines(Pipeline) /\ tokens \in Deadlines(Token)
  BY TypeParts
<1>2. CASE \E p \in Pipeline : DeletePipeline(p)
  <2>1. PICK p \in Pipeline : DeletePipeline(p)
    BY <1>2
  <2>2. pipelines' \in Deadlines(Pipeline) /\ tokens' \in Deadlines(Token)
    BY <1>1, <2>1, WithoutType DEF DeletePipeline
  <2>3. phase' \in [Pipeline -> {"new", "open", "closed"}]
    BY <2>1 DEF DeletePipeline, TypeOK
  <2>4. UNCHANGED <<byStep, req, res, alive>>
    BY <2>1 DEF DeletePipeline
  <2> QED
    BY <2>2, <2>3, <2>4 DEF TypeOK, Deadlines
<1>3. CASE Tick
  <2>1. pipelines' \in Deadlines(Pipeline) /\ tokens' \in Deadlines(Token)
    BY <1>1, <1>3, ElapseFacts DEF Tick
  <2>2. UNCHANGED <<phase, byStep, req, res, alive>>
    BY <1>3 DEF Tick
  <2> QED
    BY <2>1, <2>2 DEF TypeOK, Deadlines
<1>4. CASE Prune
  <2>1. pipelines' \in Deadlines(Pipeline) /\ tokens' \in Deadlines(Token)
    BY <1>1, <1>4, WithoutType DEF Prune
  <2>2. UNCHANGED <<phase, byStep, req, res, alive>>
    BY <1>4 DEF Prune
  <2> QED
    BY <2>1, <2>2 DEF TypeOK, Deadlines
<1> QED
  BY <1>2, <1>3, <1>4

LEMMA LockType ==
  ASSUME TypeOK, NEW w \in Publisher, LockPipeline(w)
  PROVE  TypeOK'
<1> DEFINE t    == req[w].token
           base == IF t \in DOMAIN byStep THEN byStep[t] ELSE EmptyMap
<1>1. req[w] \in Held
  BY CallForms DEF LockPipeline
<1>2. t \in Token /\ req[w].ops \in Batch /\ req[w].ops \in Seq(Op) \ {<<>>}
  BY <1>1, BatchOps DEF Held
<1>3. PICK D \in SUBSET Token : byStep \in [D -> Map]
  BY DEF TypeOK
<1>4. base \in Map
  BY <1>3, EmptyMapType
<1>5. byStep' \in [D \cup {t} -> Map]
  BY <1>3, <1>4 DEF LockPipeline
<1>6. D \cup {t} \in SUBSET Token
  BY <1>2
<1>7. req' = [req EXCEPT ![w] = [at |-> "writing", token |-> t, ops |-> @.ops,
                                 left |-> @.ops, base |-> base]]
  BY DEF LockPipeline
<1>8. [at |-> "writing", token |-> t, ops |-> req[w].ops,
       left |-> req[w].ops, base |-> base] \in ReqType
  <2> HIDE DEF t, base
  <2> QED
    BY <1>2, <1>4 DEF ReqType
<1>9. req' \in [Publisher -> ReqType]
  BY <1>7, <1>8 DEF TypeOK
<1>10. UNCHANGED <<phase, pipelines, tokens, res, alive>>
  BY DEF LockPipeline
<1>11. byStep' \in UNION {[E -> Map] : E \in SUBSET Token}
  BY <1>5, <1>6
<1> QED
  BY <1>9, <1>10, <1>11 DEF TypeOK

LEMMA WriteType ==
  ASSUME TypeOK, NEW w \in Publisher, WriteOp(w)
  PROVE  TypeOK'
<1> DEFINE r == req[w]
<1>1. r \in Storing
  BY CallForms DEF WriteOp
<1>2. r.token \in Token /\ r.ops \in Batch /\ r.left \in Seq(Op) \ {<<>>}
  BY <1>1 DEF Storing
<1>3. /\ Head(r.left) \in Op
      /\ Len(r.left) # 1 => Tail(r.left) \in Seq(Op) \ {<<>>}
  BY <1>2, HeadTail
<1>4. PICK D \in SUBSET Token : byStep \in [D -> Map]
  BY DEF TypeOK
<1>5. r.token \in D => ApplyOp(byStep[r.token], Head(r.left)) \in Map
  BY <1>3, <1>4, ApplyOpType
<1>6. byStep' \in [D -> Map]
  BY <1>4, <1>5 DEF WriteOp
<1>7. CASE Len(r.left) = 1
  <2>1. req' = [req EXCEPT ![w] = [at |-> "done", token |-> r.token, ops |-> r.ops]]
    BY <1>7 DEF WriteOp
  <2>2. [at |-> "done", token |-> r.token, ops |-> r.ops] \in ReqType
    BY <1>2 DEF ReqType
  <2> QED
    BY <2>1, <2>2, <1>6 DEF TypeOK, WriteOp
<1>8. CASE Len(r.left) # 1
  <2>1. req' = [req EXCEPT ![w] = [r EXCEPT !.left = Tail(@)]]
    BY <1>8 DEF WriteOp
  <2>2. [r EXCEPT !.left = Tail(@)] \in Storing
    BY <1>1, <1>3, <1>8 DEF Storing
  <2>3. Storing \subseteq ReqType
    BY DEF Storing, ReqType
  <2>4. req' \in [Publisher -> ReqType]
    BY <2>1, <2>2, <2>3 DEF TypeOK
  <2> QED
    BY <2>4, <1>6 DEF TypeOK, WriteOp
<1> QED
  BY <1>7, <1>8

\* The map that is read unlocked has to exist: IInv and not TypeOK alone.
LEMMA ResolveType ==
  ASSUME IInv, NEW c \in Consumer, Lookup(c) \/ FetchMap(c) \/ ReadMap(c)
  PROVE  TypeOK'
<1>0. TypeOK
  BY DEF IInv
<1> DEFINE r == res[c]
<1>1. UNCHANGED <<phase, pipelines, tokens, byStep, req, alive>>
  BY DEF Lookup, FetchMap, ReadMap
<1>2. CASE Lookup(c)
  <2>1. PICK t \in Token, k \in Key :
          res' = [res EXCEPT ![c] =
             IF t[1] \in DOMAIN pipelines /\ ~Expired(pipelines[t[1]])
             THEN [at |-> "found", pipeline |-> t[1], step |-> t[2], key |-> k]
             ELSE [at |-> "answered", pipeline |-> t[1], step |-> t[2],
                   key |-> k, value |-> NoValue]]
    BY <1>2 DEF Lookup
  <2>2. t[1] \in Pipeline /\ t[2] \in Step
    BY DEF Token
  <2> QED
    BY <1>0, <1>1, <2>1, <2>2 DEF TypeOK, ResType
<1>3. CASE FetchMap(c)
  <2>1. r \in Asking
    BY <1>0, <1>3, CallForms DEF FetchMap
  <2>2. [r EXCEPT !.at = "reading"] \in Asking
    BY <2>1 DEF Asking
  <2>3. [at |-> "answered", pipeline |-> r.pipeline, step |-> r.step,
         key |-> r.key, value |-> NoValue] \in ResType
    BY <2>1 DEF ResType, Asking
  <2>4. Asking \subseteq ResType
    BY DEF Asking, ResType
  <2>5. res' \in [Consumer -> ResType]
    BY <1>0, <1>3, <2>2, <2>3, <2>4 DEF FetchMap, TypeOK
  <2> QED
    BY <1>0, <1>1, <2>5 DEF TypeOK
<1>4. CASE ReadMap(c)
  <2> DEFINE t == <<r.pipeline, r.step>>
             m == byStep[t]
             v == IF r.key \in DOMAIN m THEN m[r.key] ELSE NoValue
  <2>1. r \in Asking
    BY <1>0, <1>4, CallForms DEF ReadMap
  <2>2. t \in DOMAIN byStep
    BY <1>4 DEF IInv, ReadMap
  <2>3. m \in Map
    BY <1>0, <2>2 DEF TypeOK
  <2>4. v \in Value \cup {NoValue}
    BY <2>3 DEF Map
  <2>5. res' = [res EXCEPT ![c] =
          [at |-> "answered", pipeline |-> r.pipeline, step |-> r.step,
           key |-> r.key, value |-> v]]
    BY <1>4 DEF ReadMap
  <2>6. [at |-> "answered", pipeline |-> r.pipeline, step |-> r.step,
         key |-> r.key, value |-> v] \in ResType
    <3> HIDE DEF v
    <3> QED
      BY <2>1, <2>4 DEF Asking, ResType
  <2> QED
    BY <1>0, <1>1, <2>5, <2>6 DEF TypeOK
<1> QED
  BY <1>2, <1>3, <1>4

LEMMA NextType ==
  ASSUME IInv, [Next]_vars
  PROVE  TypeOK'
<1>0. TypeOK
  BY DEF IInv
<1>1. CASE \E p \in Pipeline : RegisterPipeline(p) \/ DeletePipeline(p)
  BY <1>0, <1>1, RegisterType, DropType
<1>2. CASE Tick \/ Prune
  BY <1>0, <1>2, DropType
<1>3. ASSUME NEW w \in Publisher, Receive(w)
      PROVE  TypeOK'
  <2>1. PICK t \in Token, ops \in Batch :
          req' = [req EXCEPT ![w] = [at |-> "sent", token |-> t, ops |-> ops]]
    BY <1>3 DEF Receive
  <2>2. [at |-> "sent", token |-> t, ops |-> ops] \in ReqType
    BY DEF ReqType
  <2>3. req' \in [Publisher -> ReqType]
    BY <1>0, <2>1, <2>2 DEF TypeOK
  <2> QED
    BY <1>0, <1>3, <2>3 DEF Receive, TypeOK
<1>4. CASE \E w \in Publisher : Authorise(w) \/ LockPipeline(w) \/ WriteOp(w)
  BY <1>0, <1>4, AuthoriseType, LockType, WriteType
<1>5. CASE \E c \in Consumer : Lookup(c) \/ FetchMap(c) \/ ReadMap(c)
  BY <1>5, ResolveType
<1>6. CASE MapFault
  BY <1>0, <1>6 DEF MapFault, TypeOK
<1>7. CASE UNCHANGED vars
  BY <1>0, <1>7 DEF vars, TypeOK
<1> QED
  BY <1>1, <1>2, <1>3, <1>4, <1>5, <1>6, <1>7 DEF Next

-----------------------------------------------------------------------------
(* The tables mention open pipelines only *)

OpenOnly ==
  /\ \A p \in DOMAIN pipelines : phase[p] = "open"
  /\ \A t \in DOMAIN tokens : phase[t[1]] = "open"

\* What is in the tables was there before, or is being registered.
LEMMA TablesGrow ==
  ASSUME IInv, Next
  PROVE  \/ \E p \in Pipeline : RegisterPipeline(p)
         \/ /\ DOMAIN pipelines' \subseteq DOMAIN pipelines
            /\ DOMAIN tokens' \subseteq DOMAIN tokens
<1>1. CASE \E p \in Pipeline : DeletePipeline(p)
  BY <1>1 DEF DeletePipeline, Without
<1>2. CASE Tick
  BY <1>2 DEF Tick, Elapse
<1>3. CASE Prune
  BY <1>3 DEF Prune, Without
<1>4. CASE \E w \in Publisher : Authorise(w)
  BY <1>4 DEF Authorise, Without, Elapse, RefreshPipeline
<1>5. CASE \E w \in Publisher : Receive(w) \/ LockPipeline(w) \/ WriteOp(w)
  BY <1>5 DEF Receive, LockPipeline, WriteOp
<1>6. CASE \E c \in Consumer : Lookup(c) \/ FetchMap(c) \/ ReadMap(c)
  BY <1>6 DEF Lookup, FetchMap, ReadMap
<1>7. CASE MapFault
  BY <1>7 DEF MapFault
<1> QED
  BY <1>1, <1>2, <1>3, <1>4, <1>5, <1>6, <1>7 DEF Next

LEMMA NextOpen ==
  ASSUME IInv, [Next]_vars
  PROVE  OpenOnly'
<1>1. OpenOnly
  BY DEF IInv, OpenOnly
<1>2. DOMAIN pipelines \subseteq Pipeline /\ DOMAIN tokens \subseteq Token
  BY DEF IInv, TypeOK
<1>3. phase \in [Pipeline -> {"new", "open", "closed"}]
  BY DEF IInv, TypeOK
<1>4. CASE UNCHANGED vars
  BY <1>1, <1>4 DEF vars, OpenOnly
<1>5. ASSUME NEW p \in Pipeline, RegisterPipeline(p)
      PROVE  OpenOnly'
  <2>1. phase' = [phase EXCEPT ![p] = "open"]
    BY <1>5 DEF RegisterPipeline
  <2>2. DOMAIN pipelines' = DOMAIN pipelines \cup {p}
    BY <1>5 DEF RegisterPipeline
  <2>3. DOMAIN tokens' = DOMAIN tokens \cup TokensOf(p)
    BY <1>5 DEF RegisterPipeline
  <2>4. \A t \in TokensOf(p) : t[1] = p
    BY DEF TokensOf
  <2>5. \A t \in Token : t[1] \in Pipeline
    BY DEF Token
  <2> QED
    BY <1>1, <1>2, <1>3, <2>1, <2>2, <2>3, <2>4, <2>5 DEF OpenOnly
<1>6. ASSUME NEW p \in Pipeline, DeletePipeline(p)
      PROVE  OpenOnly'
  <2>1. phase' = [phase EXCEPT ![p] = "closed"]
    BY <1>6 DEF DeletePipeline
  <2>2. DOMAIN pipelines' = DOMAIN pipelines \ {p}
    BY <1>6 DEF DeletePipeline, Without
  <2>3. DOMAIN tokens' = DOMAIN tokens \ TokensOf(p)
    BY <1>6 DEF DeletePipeline, Without
  <2>4. \A t \in Token \ TokensOf(p) : t[1] \in Pipeline /\ t[1] # p
    BY DEF TokensOf, Token
  <2> QED
    BY <1>1, <1>2, <1>3, <2>1, <2>2, <2>3, <2>4 DEF OpenOnly
<1>7. CASE /\ Next
           /\ ~\E p \in Pipeline : RegisterPipeline(p) \/ DeletePipeline(p)
  <2>1. phase' = phase
    BY <1>7 DEF Next, Tick, Prune, Receive, Authorise, LockPipeline, WriteOp,
                Lookup, FetchMap, ReadMap, MapFault
  <2>2. /\ DOMAIN pipelines' \subseteq DOMAIN pipelines
        /\ DOMAIN tokens' \subseteq DOMAIN tokens
    BY <1>7, TablesGrow
  <2> QED
    BY <1>1, <2>1, <2>2 DEF OpenOnly
<1> QED
  BY <1>4, <1>5, <1>6, <1>7

-----------------------------------------------------------------------------
(* A map that is being read exists *)

ReadersHaveMap ==
  \A c \in Consumer :
      res[c].at = "reading" => <<res[c].pipeline, res[c].step>> \in DOMAIN byStep

LEMMA NextReaders ==
  ASSUME IInv, [Next]_vars
  PROVE  ReadersHaveMap'
<1>1. ReadersHaveMap /\ res \in [Consumer -> ResType]
  BY DEF IInv, TypeOK, ReadersHaveMap
<1>2. CASE UNCHANGED <<res, byStep>>
  BY <1>1, <1>2 DEF ReadersHaveMap
<1>3. ASSUME NEW w \in Publisher, LockPipeline(w) \/ WriteOp(w)
      PROVE  ReadersHaveMap'
  <2>1. DOMAIN byStep \subseteq DOMAIN byStep' /\ res' = res
    BY <1>3 DEF LockPipeline, WriteOp
  <2> QED
    BY <1>1, <2>1 DEF ReadersHaveMap
<1>4. ASSUME NEW c \in Consumer, Lookup(c) \/ FetchMap(c) \/ ReadMap(c)
      PROVE  ReadersHaveMap'
  <2>1. byStep' = byStep
    BY <1>4 DEF Lookup, FetchMap, ReadMap
  <2>2. \A d \in Consumer \ {c} : res'[d] = res[d]
    BY <1>1, <1>4 DEF Lookup, FetchMap, ReadMap
  <2>3. res'[c].at = "reading" =>
          <<res'[c].pipeline, res'[c].step>> \in DOMAIN byStep
    <3>1. CASE Lookup(c)
      BY <1>1, <3>1 DEF Lookup
    <3>2. CASE FetchMap(c)
      <4>1. res[c] \in Asking
        BY <3>2, CallForms DEF FetchMap, IInv
      <4>2. [res[c] EXCEPT !.at = "reading"].pipeline = res[c].pipeline
        BY <4>1 DEF Asking
      <4>3. [res[c] EXCEPT !.at = "reading"].step = res[c].step
        BY <4>1 DEF Asking
      <4> QED
        BY <1>1, <3>2, <4>2, <4>3 DEF FetchMap
    <3>3. CASE ReadMap(c)
      BY <1>1, <3>3 DEF ReadMap
    <3> QED
      BY <1>4, <3>1, <3>2, <3>3
  <2> QED
    BY <1>1, <2>1, <2>2, <2>3 DEF ReadersHaveMap
<1> QED
  BY <1>2, <1>3, <1>4
     DEF Next, vars, RegisterPipeline, DeletePipeline, Tick, Prune, Receive,
         Authorise, MapFault

-----------------------------------------------------------------------------
(* A live token leads to a live pipeline *)

\* Two falls in a row are one fall.
LEMMA ElapseTwice ==
  ASSUME NEW S, NEW f \in Deadlines(S), NEW d \in Nat, NEW e \in Nat,
         NEW x \in DOMAIN f
  PROVE  Elapse(Elapse(f, d), e)[x] = Elapse(f, d + e)[x]
<1>1. f[x] \in -1 .. TTL
  BY DEF Deadlines, Left
<1>2. Elapse(f, d) \in Deadlines(S) /\ DOMAIN Elapse(f, d) = DOMAIN f
  BY ElapseFacts
<1>3. Elapse(f, d)[x] = IF f[x] - d < -1 THEN -1 ELSE f[x] - d
  BY ElapseFacts
<1>4. Elapse(Elapse(f, d), e)[x] =
        IF Elapse(f, d)[x] - e < -1 THEN -1 ELSE Elapse(f, d)[x] - e
  BY <1>2, ElapseFacts
<1>5. Elapse(f, d + e)[x] = IF f[x] - (d + e) < -1 THEN -1 ELSE f[x] - (d + e)
  BY ElapseFacts
<1> QED
  BY <1>1, <1>3, <1>4, <1>5, TTLAssumption

\* Deadlines that fall together keep their order, and a token that is still
\* live after the fall had a live pipeline all the time.
LEMMA ElapseTogether ==
  ASSUME IInv, NEW d \in Nat,
         NEW t \in DOMAIN tokens, ~Expired(Elapse(tokens, d)[t])
  PROVE  /\ ~Expired(tokens[t])
         /\ t[1] \in DOMAIN pipelines
         /\ ~Expired(Elapse(pipelines, d)[t[1]])
         /\ Elapse(tokens, d)[t] <= Elapse(pipelines, d)[t[1]]
<1>1. pipelines \in Deadlines(Pipeline) /\ tokens \in Deadlines(Token)
  BY TypeParts DEF IInv
<1>2. /\ \A x \in DOMAIN tokens : tokens[x] \in -1 .. TTL
      /\ \A x \in DOMAIN pipelines : pipelines[x] \in -1 .. TTL
  BY <1>1 DEF Deadlines, Left
<1>3. TTL \in Nat
  BY TTLAssumption
<1>4. Elapse(tokens, d)[t] = IF tokens[t] - d < -1 THEN -1 ELSE tokens[t] - d
  BY <1>1, ElapseFacts
<1>5. ~Expired(tokens[t])
  BY <1>2, <1>3, <1>4 DEF Expired
<1>6. t[1] \in DOMAIN pipelines /\ tokens[t] <= pipelines[t[1]]
  BY <1>5 DEF IInv, LiveTokenHasPipeline
<1>7. Elapse(pipelines, d)[t[1]] =
        IF pipelines[t[1]] - d < -1 THEN -1 ELSE pipelines[t[1]] - d
  BY <1>1, <1>6, ElapseFacts
<1> QED
  BY <1>2, <1>3, <1>4, <1>5, <1>6, <1>7 DEF Expired

\* Apply refreshes a token and its pipeline together, and drops the pipeline
\* only when the clock has overtaken the token too.
LEMMA AuthoriseLive ==
  ASSUME IInv, NEW w \in Publisher, Authorise(w)
  PROVE  LiveTokenHasPipeline'
<1> DEFINE t == req[w].token
           p == t[1]
<1>1. pipelines \in Deadlines(Pipeline) /\ tokens \in Deadlines(Token)
  BY TypeParts DEF IInv
<1>2. \A x \in DOMAIN tokens : tokens[x] \in -1 .. TTL
  BY <1>1 DEF Deadlines, Left
<1>3. SUFFICES ASSUME NEW u \in DOMAIN tokens', ~Expired(tokens'[u])
               PROVE  /\ u[1] \in DOMAIN pipelines'
                      /\ tokens'[u] <= pipelines'[u[1]]
  BY DEF LiveTokenHasPipeline, Expired
<1>4. PICK late1, late2 \in 0 .. 1 :
        LET kept  == Elapse(pipelines, late1)
            there == p \in DOMAIN pipelines /\ ~Expired(kept[p])
        IN  \/ tokens' = Without(tokens, {t}) /\ pipelines' = pipelines
            \/ /\ ~there
               /\ tokens' = Elapse(tokens, late1)
               /\ pipelines' = Without(kept, {p})
            \/ /\ there
               /\ t \in DOMAIN tokens
               /\ tokens' = [Elapse(tokens, late1 + late2) EXCEPT ![t] = TTL]
               /\ pipelines' = [Elapse(kept, late2) EXCEPT ![p] = TTL]
  BY Zenon DEF Authorise, RefreshPipeline
<1>5. late1 \in Nat /\ late2 \in Nat /\ late1 + late2 \in Nat
  OBVIOUS
<1> DEFINE kept  == Elapse(pipelines, late1)
           there == p \in DOMAIN pipelines /\ ~Expired(kept[p])
<1>6. kept \in Deadlines(Pipeline) /\ DOMAIN kept = DOMAIN pipelines
  BY <1>1, <1>5, ElapseFacts
<1>7. CASE tokens' = Without(tokens, {t}) /\ pipelines' = pipelines
  <2>1. u \in DOMAIN tokens /\ tokens'[u] = tokens[u]
    BY <1>7 DEF Without
  <2> QED
    BY <1>3, <1>7, <2>1 DEF IInv, LiveTokenHasPipeline
<1>8. CASE /\ ~there
           /\ tokens' = Elapse(tokens, late1)
           /\ pipelines' = Without(kept, {p})
  <2>1. u \in DOMAIN tokens
    BY <1>8 DEF Elapse
  <2>2. /\ u[1] \in DOMAIN pipelines
        /\ ~Expired(kept[u[1]])
        /\ tokens'[u] <= kept[u[1]]
    BY <1>3, <1>5, <1>8, <2>1, ElapseTogether
  <2>3. u[1] # p
    BY <1>8, <2>2
  <2> QED
    BY <1>6, <1>8, <2>2, <2>3 DEF Without
<1>9. CASE /\ there
           /\ t \in DOMAIN tokens
           /\ tokens' = [Elapse(tokens, late1 + late2) EXCEPT ![t] = TTL]
           /\ pipelines' = [Elapse(kept, late2) EXCEPT ![p] = TTL]
  <2>1. DOMAIN pipelines' = DOMAIN pipelines
    BY <1>9 DEF Elapse
  <2>2. u \in DOMAIN tokens
    BY <1>9 DEF Elapse
  <2>3. pipelines'[p] = TTL
    BY <1>9, <2>1
  <2>4. CASE u = t
    BY <1>9, <2>1, <2>2, <2>3, <2>4, TTLAssumption
  <2>5. CASE u # t
    <3>1. tokens'[u] = Elapse(tokens, late1 + late2)[u]
      BY <1>9, <2>2, <2>5 DEF Elapse
    <3>2. /\ u[1] \in DOMAIN pipelines
          /\ tokens'[u] <= Elapse(pipelines, late1 + late2)[u[1]]
      BY <1>3, <1>5, <2>2, <3>1, ElapseTogether
    <3>3. CASE u[1] = p
      <4>1. tokens'[u] = IF tokens[u] - (late1 + late2) < -1
                         THEN -1 ELSE tokens[u] - (late1 + late2)
        BY <1>1, <1>5, <2>2, <3>1, ElapseFacts
      <4>2. tokens'[u] <= TTL
        BY <1>2, <1>5, <2>2, <4>1, TTLAssumption
      <4> QED
        BY <2>1, <2>3, <3>2, <3>3, <4>2
    <3>4. CASE u[1] # p
      <4>1. pipelines'[u[1]] = Elapse(kept, late2)[u[1]]
        BY <1>9, <3>2, <3>4 DEF Elapse
      <4>2. Elapse(kept, late2)[u[1]] = Elapse(pipelines, late1 + late2)[u[1]]
        BY <1>1, <1>5, <3>2, ElapseTwice
      <4> QED
        BY <2>1, <3>2, <4>1, <4>2
    <3> QED
      BY <3>3, <3>4
  <2> QED
    BY <2>4, <2>5
<1> QED
  BY <1>4, <1>7, <1>8, <1>9

LEMMA NextLive ==
  ASSUME IInv, [Next]_vars
  PROVE  LiveTokenHasPipeline'
<1>1. LiveTokenHasPipeline
  BY DEF IInv
<1>2. pipelines \in Deadlines(Pipeline) /\ tokens \in Deadlines(Token)
  BY TypeParts DEF IInv
<1>3. /\ \A x \in DOMAIN tokens : tokens[x] \in -1 .. TTL
      /\ \A x \in DOMAIN pipelines : pipelines[x] \in -1 .. TTL
      /\ DOMAIN tokens \subseteq Token
  BY <1>2 DEF Deadlines, Left
<1>4. TTL \in Nat
  BY TTLAssumption
<1>5. CASE UNCHANGED <<pipelines, tokens>>
  BY <1>1, <1>5 DEF LiveTokenHasPipeline
<1>6. ASSUME NEW p \in Pipeline, RegisterPipeline(p)
      PROVE  LiveTokenHasPipeline'
  <2> SUFFICES ASSUME NEW t \in DOMAIN tokens', ~Expired(tokens'[t])
               PROVE  /\ t[1] \in DOMAIN pipelines'
                      /\ tokens'[t] <= pipelines'[t[1]]
    BY DEF LiveTokenHasPipeline, Expired
  <2>1. CASE t[1] = p
    BY <1>4, <1>6, <2>1 DEF RegisterPipeline
  <2>2. CASE t[1] # p
    <3>1. t \in DOMAIN tokens /\ tokens'[t] = tokens[t]
      BY <1>6, <2>2 DEF RegisterPipeline, TokensOf
    <3>2. t[1] \in DOMAIN pipelines /\ tokens[t] <= pipelines[t[1]]
      BY <1>1, <3>1 DEF LiveTokenHasPipeline
    <3> QED
      BY <1>6, <2>2, <3>1, <3>2 DEF RegisterPipeline
  <2> QED
    BY <2>1, <2>2
<1>7. ASSUME NEW p \in Pipeline, DeletePipeline(p)
      PROVE  LiveTokenHasPipeline'
  <2> SUFFICES ASSUME NEW t \in DOMAIN tokens', ~Expired(tokens'[t])
               PROVE  /\ t[1] \in DOMAIN pipelines'
                      /\ tokens'[t] <= pipelines'[t[1]]
    BY DEF LiveTokenHasPipeline, Expired
  <2>1. t \in DOMAIN tokens /\ t \notin TokensOf(p) /\ tokens'[t] = tokens[t]
    BY <1>7 DEF DeletePipeline, Without
  <2>2. t[1] # p
    BY <1>3, <2>1 DEF TokensOf
  <2>3. t[1] \in DOMAIN pipelines /\ tokens[t] <= pipelines[t[1]]
    BY <1>1, <2>1 DEF LiveTokenHasPipeline
  <2> QED
    BY <1>7, <2>1, <2>2, <2>3 DEF DeletePipeline, Without
<1>8. CASE Tick
  <2> SUFFICES ASSUME NEW t \in DOMAIN tokens', ~Expired(tokens'[t])
               PROVE  /\ t[1] \in DOMAIN pipelines'
                      /\ tokens'[t] <= pipelines'[t[1]]
    BY DEF LiveTokenHasPipeline, Expired
  <2>1. t \in DOMAIN tokens
    BY <1>8 DEF Tick, Elapse
  <2>2. t[1] \in DOMAIN pipelines
        /\ Elapse(tokens, 1)[t] <= Elapse(pipelines, 1)[t[1]]
    BY <1>8, <2>1, ElapseTogether DEF Tick
  <2> QED
    BY <1>8, <2>2 DEF Tick, Elapse
<1>9. CASE Prune
  <2> SUFFICES ASSUME NEW t \in DOMAIN tokens', ~Expired(tokens'[t])
               PROVE  /\ t[1] \in DOMAIN pipelines'
                      /\ tokens'[t] <= pipelines'[t[1]]
    BY DEF LiveTokenHasPipeline, Expired
  <2>1. t \in DOMAIN tokens /\ tokens'[t] = tokens[t]
    BY <1>9 DEF Prune, Without
  <2>2. t[1] \in DOMAIN pipelines /\ tokens[t] <= pipelines[t[1]]
    BY <1>1, <2>1 DEF LiveTokenHasPipeline
  <2>3. ~Expired(pipelines[t[1]])
    BY <1>3, <1>4, <2>1, <2>2 DEF Expired
  <2> QED
    BY <1>9, <2>1, <2>2, <2>3 DEF Prune, Without
<1>10. ASSUME NEW w \in Publisher, Authorise(w)
       PROVE  LiveTokenHasPipeline'
  BY <1>10, AuthoriseLive
<1> QED
  BY <1>5, <1>6, <1>7, <1>8, <1>9, <1>10
     DEF Next, vars, Receive, LockPipeline, WriteOp, Lookup, FetchMap, ReadMap,
         MapFault

-----------------------------------------------------------------------------
(* The theorems *)

LEMMA InitInductive == Init => IInv
<1> SUFFICES ASSUME Init PROVE IInv
  OBVIOUS
<1>1. TypeOK
  BY InitType
<1>2. DOMAIN pipelines = {} /\ DOMAIN tokens = {}
  BY DEF Init
<1>3. \A c \in Consumer : res[c].at # "reading"
  BY DEF Init, Idle
<1> QED
  BY <1>1, <1>2, <1>3 DEF IInv, LiveTokenHasPipeline

LEMMA NextInductive ==
  ASSUME IInv, [Next]_vars
  PROVE  IInv'
<1>1. TypeOK' /\ LiveTokenHasPipeline'
  BY NextType, NextLive
<1>2. OpenOnly' /\ ReadersHaveMap'
  BY NextOpen, NextReaders
<1> QED
  BY <1>1, <1>2 DEF IInv, OpenOnly, ReadersHaveMap

\* What every locked section of service.go takes for granted and leaves so.
THEOREM Inductive == Spec => []IInv
<1>1. Init => IInv
  BY InitInductive
<1>2. IInv /\ [Next]_vars => IInv'
  BY NextInductive
<1> QED
  BY <1>1, <1>2, PTL DEF Spec

\* Every table, call and map keeps its type; in particular no Resolve reads a
\* step's map that does not exist.
THEOREM TypeCorrect == Spec => []TypeOK
<1>1. IInv => TypeOK
  BY DEF IInv
<1> QED
  BY <1>1, Inductive, PTL

\* A token that has not expired leads to a pipeline that has not either.
THEOREM LiveTokens == Spec => []LiveTokenHasPipeline
<1>1. IInv => LiveTokenHasPipeline
  BY DEF IInv
<1> QED
  BY <1>1, Inductive, PTL

\* Nothing of a deleted pipeline is left or comes back.
THEOREM Closed == Spec => []ClosedStaysClosed
<1>1. IInv => ClosedStaysClosed
  <2> SUFFICES ASSUME IInv, NEW p \in Pipeline, phase[p] = "closed"
               PROVE  p \notin DOMAIN pipelines /\ DOMAIN tokens \cap TokensOf(p) = {}
    BY DEF ClosedStaysClosed
  <2>1. \A t \in TokensOf(p) : t[1] = p
    BY DEF TokensOf
  <2> QED
    BY <2>1 DEF IInv
<1> QED
  BY <1>1, Inductive, PTL

\* What an open pipeline has in the tables goes away only when its time is up.
LEMMA NextDrops ==
  ASSUME IInv, [Next]_vars
  PROVE  /\ \A p \in DOMAIN pipelines \ DOMAIN pipelines' :
               phase'[p] = "closed" \/ pipelines[p] < 1
         /\ \A t \in DOMAIN tokens \ DOMAIN tokens' :
               phase'[t[1]] = "closed" \/ Expired(tokens[t])
<1> DEFINE Drops == /\ \A p \in DOMAIN pipelines \ DOMAIN pipelines' :
                          phase'[p] = "closed" \/ pipelines[p] < 1
                   /\ \A t \in DOMAIN tokens \ DOMAIN tokens' :
                          phase'[t[1]] = "closed" \/ Expired(tokens[t])
<1>1. pipelines \in Deadlines(Pipeline) /\ tokens \in Deadlines(Token)
  BY TypeParts DEF IInv
<1>2. \A x \in DOMAIN pipelines : pipelines[x] \in -1 .. TTL
  BY <1>1 DEF Deadlines, Left
<1>3. CASE /\ DOMAIN pipelines \subseteq DOMAIN pipelines'
           /\ DOMAIN tokens \subseteq DOMAIN tokens'
  BY <1>3
<1>4. ASSUME NEW p \in Pipeline, DeletePipeline(p) PROVE Drops
  <2>1. phase'[p] = "closed"
    BY <1>4 DEF DeletePipeline, IInv, TypeOK
  <2>2. DOMAIN pipelines' = DOMAIN pipelines \ {p}
    BY <1>4 DEF DeletePipeline, Without
  <2>3. DOMAIN tokens' = DOMAIN tokens \ TokensOf(p)
    BY <1>4 DEF DeletePipeline, Without
  <2>4. \A t \in TokensOf(p) : t[1] = p
    BY DEF TokensOf
  <2> QED
    BY <2>1, <2>2, <2>3, <2>4
<1>5. CASE Prune
  <2>1. \A p \in DOMAIN pipelines \ DOMAIN pipelines' : Expired(pipelines[p])
    BY <1>5 DEF Prune, Without
  <2>2. \A t \in DOMAIN tokens \ DOMAIN tokens' : Expired(tokens[t])
    BY <1>5 DEF Prune, Without
  <2> QED
    BY <1>2, <2>1, <2>2, TTLAssumption DEF Expired
<1>6. ASSUME NEW w \in Publisher, Authorise(w) PROVE Drops
  <2> DEFINE t == req[w].token
             p == t[1]
  <2>1. PICK late1, late2 \in 0 .. 1 :
          LET known == t \in DOMAIN tokens /\ ~Expired(tokens[t])
              kept  == Elapse(pipelines, late1)
              there == p \in DOMAIN pipelines /\ ~Expired(kept[p])
          IN  \/ /\ ~known
                 /\ tokens' = Without(tokens, {t})
                 /\ pipelines' = pipelines
              \/ /\ ~there
                 /\ tokens' = Elapse(tokens, late1)
                 /\ pipelines' = Without(kept, {p})
              \/ /\ tokens' = [Elapse(tokens, late1 + late2) EXCEPT ![t] = TTL]
                 /\ pipelines' = [Elapse(kept, late2) EXCEPT ![p] = TTL]
    BY <1>6, Zenon DEF Authorise, RefreshPipeline
  <2>2. \A x \in DOMAIN pipelines \ DOMAIN pipelines' :
           x = p /\ Expired(Elapse(pipelines, late1)[x])
    BY <2>1 DEF Without, Elapse
  <2>3. \A x \in DOMAIN tokens \ DOMAIN tokens' : x = t /\ Expired(tokens[x])
    BY <2>1 DEF Without, Elapse
  <2>4. \A x \in DOMAIN pipelines :
           Elapse(pipelines, late1)[x] =
             IF pipelines[x] - late1 < -1 THEN -1 ELSE pipelines[x] - late1
    BY <1>1, ElapseFacts
  <2>5. \A x \in DOMAIN pipelines \ DOMAIN pipelines' : pipelines[x] < 1
    BY <1>2, <2>2, <2>4, TTLAssumption DEF Expired
  <2> QED
    BY <2>3, <2>5
<1>7. ASSUME NEW p \in Pipeline, RegisterPipeline(p) PROVE Drops
  BY <1>7 DEF RegisterPipeline
<1>8. CASE Tick
  BY <1>8 DEF Tick, Elapse
<1> QED
  BY <1>3, <1>4, <1>5, <1>6, <1>7, <1>8
     DEF Next, vars, Receive, LockPipeline, WriteOp, Lookup, FetchMap, ReadMap,
         MapFault

\* The janitor and Apply's lazy deletes drop nothing that a full TTL has not
\* passed over.
THEOREM OnlyClosedOrExpiredHolds == Spec => OnlyClosedOrExpired
<1>1. IInv /\ [Next]_vars =>
        [ /\ \A p \in DOMAIN pipelines \ DOMAIN pipelines' :
                phase'[p] = "closed" \/ pipelines[p] < 1
          /\ \A t \in DOMAIN tokens \ DOMAIN tokens' :
                phase'[t[1]] = "closed" \/ Expired(tokens[t]) ]_vars
  BY NextDrops
<1> QED
  BY <1>1, Inductive, PTL DEF Spec, OnlyClosedOrExpired

-----------------------------------------------------------------------------
(* Where a value comes from *)

OpsOf(call)  == {call.ops[i] : i \in DOMAIN call.ops}
Pending(call) == {call.left[i] : i \in DOMAIN call.left}

\* Among the calls, an accepted publication of t sets k to v.
Published(calls, t, k, v) ==
  \E w \in Publisher :
      /\ calls[w].at \in {"writing", "done"}
      /\ calls[w].token = t
      /\ [op |-> "set", key |-> k, value |-> v] \in OpsOf(calls[w])

\* What a writer has still to apply is part of what it sent.
PendingIsSent ==
  \A w \in Publisher :
      req[w].at = "writing" => Pending(req[w]) \subseteq OpsOf(req[w])

\* A value in the store was published there.
StoredIsPublished ==
  \A t \in DOMAIN byStep : \A k \in DOMAIN byStep[t] :
      Published(req, t, k, byStep[t][k])

Provenance == PendingIsSent /\ StoredIsPublished /\ AnswersAreOwn

LEMMA AnswersArePublished ==
  AnswersAreOwn <=>
      \A c \in Consumer :
          res[c].at = "answered" /\ res[c].value # NoValue =>
              Published(req, <<res[c].pipeline, res[c].step>>, res[c].key, res[c].value)
  BY DEF AnswersAreOwn, Published, OpsOf

\* A publication is never taken back.
LEMMA PublishedStays ==
  ASSUME IInv, [Next]_vars, NEW t, NEW k, NEW v, Published(req, t, k, v)
  PROVE  Published(req', t, k, v)
<1>1. PICK w \in Publisher :
        /\ req[w].at \in {"writing", "done"}
        /\ req[w].token = t
        /\ [op |-> "set", key |-> k, value |-> v] \in OpsOf(req[w])
  BY DEF Published
<1>2. TypeOK
  BY DEF IInv
<1>3. SUFFICES /\ req'[w].at \in {"writing", "done"}
               /\ req'[w].token = req[w].token
               /\ req'[w].ops = req[w].ops
  BY <1>1, <1>3 DEF Published, OpsOf
<1>4. w \in Publisher /\ req[w].at \in {"writing", "done"}
  BY <1>1
<1>5. CASE req'[w] = req[w]
  BY <1>4, <1>5
<1>6. ASSUME NEW x \in Publisher, Receive(x) \/ Authorise(x) \/ LockPipeline(x)
      PROVE  req'[w] = req[w]
  <2>1. x # w
    BY <1>4, <1>6 DEF Receive, Authorise, LockPipeline
  <2> QED
    BY <1>2, <1>4, <1>6, <2>1 DEF TypeOK, Receive, Authorise, LockPipeline
<1>7. ASSUME NEW x \in Publisher, WriteOp(x)
      PROVE  /\ req'[w].at \in {"writing", "done"}
             /\ req'[w].token = req[w].token
             /\ req'[w].ops = req[w].ops
  <2>1. CASE x # w
    BY <1>2, <1>4, <1>7, <2>1 DEF TypeOK, WriteOp
  <2>2. CASE x = w
    <3>1. req[w] \in Storing
      BY <1>2, <1>7, <2>2, CallForms DEF WriteOp
    <3> QED
      BY <1>2, <1>4, <1>7, <2>2, <3>1 DEF TypeOK, WriteOp, Storing
  <2> QED
    BY <2>1, <2>2
<1> QED
  BY <1>5, <1>6, <1>7
     DEF Next, vars, RegisterPipeline, DeletePipeline, Tick, Prune, Lookup,
         FetchMap, ReadMap, MapFault

LEMMA NextPending ==
  ASSUME IInv, PendingIsSent, [Next]_vars, NEW w \in Publisher, req'[w].at = "writing"
  PROVE  Pending(req'[w]) \subseteq OpsOf(req'[w])
<1>1. TypeOK
  BY DEF IInv
<1>2. CASE req'[w] = req[w]
  BY <1>2 DEF PendingIsSent
<1>3. CASE LockPipeline(w)
  <2>1. req'[w].left = req[w].ops /\ req'[w].ops = req[w].ops
    BY <1>1, <1>3 DEF LockPipeline, TypeOK
  <2> QED
    BY <2>1 DEF OpsOf, Pending
<1>4. CASE WriteOp(w)
  <2>1. req[w] \in Storing
    BY <1>1, <1>4, CallForms DEF WriteOp
  <2>2. Len(req[w].left) # 1 /\ req'[w] = [req[w] EXCEPT !.left = Tail(req[w].left)]
    BY <1>1, <1>4 DEF WriteOp, TypeOK
  <2>3. req'[w].left = Tail(req[w].left) /\ req'[w].ops = req[w].ops
    BY <2>1, <2>2 DEF Storing
  <2>4. req[w].left \in Seq(Op) /\ req[w].left # <<>>
    BY <2>1 DEF Storing
  <2>5. \A i \in DOMAIN Tail(req[w].left) :
          i + 1 \in DOMAIN req[w].left /\ Tail(req[w].left)[i] = req[w].left[i + 1]
    BY <2>4
  <2>6. Pending(req[w]) \subseteq OpsOf(req[w])
    BY <1>4 DEF PendingIsSent, WriteOp
  <2> QED
    BY <2>3, <2>5, <2>6 DEF OpsOf, Pending
<1>5. ASSUME NEW x \in Publisher, Receive(x) \/ Authorise(x)
      PROVE  req'[w] = req[w]
  <2>1. req'[x].at \in {"sent", "accepted", "refused"}
    <3>1. CASE Receive(x)
      BY <1>1, <3>1 DEF Receive, TypeOK
    <3>2. CASE Authorise(x)
      <4>1. req[x] \in Held
        BY <1>1, <3>2, CallForms DEF Authorise
      <4>2. \/ req' = [req EXCEPT ![x].at = "refused"]
            \/ req' = [req EXCEPT ![x].at = "accepted"]
        BY <3>2, Zenon DEF Authorise
      <4> QED
        BY <1>1, <4>1, <4>2 DEF Held, TypeOK
    <3> QED
      BY <1>5, <3>1, <3>2
  <2>2. x # w
    BY <2>1
  <2> QED
    BY <1>1, <1>5, <2>2 DEF Receive, Authorise, TypeOK
<1>6. ASSUME NEW x \in Publisher, x # w, LockPipeline(x) \/ WriteOp(x)
      PROVE  req'[w] = req[w]
  BY <1>1, <1>6 DEF LockPipeline, WriteOp, TypeOK
<1> QED
  BY <1>2, <1>3, <1>4, <1>5, <1>6
     DEF Next, vars, RegisterPipeline, DeletePipeline, Tick, Prune, Lookup,
         FetchMap, ReadMap, MapFault

LEMMA NextStored ==
  ASSUME IInv, Provenance, [Next]_vars,
         NEW t \in DOMAIN byStep', NEW k \in DOMAIN byStep'[t]
  PROVE  Published(req', t, k, byStep'[t][k])
<1>1. TypeOK
  BY DEF IInv
<1>2. ASSUME t \in DOMAIN byStep, k \in DOMAIN byStep[t],
             byStep'[t][k] = byStep[t][k]
      PROVE  Published(req', t, k, byStep'[t][k])
  <2>1. Published(req, t, k, byStep[t][k])
    BY <1>2 DEF Provenance, StoredIsPublished
  <2>2. Published(req', t, k, byStep[t][k])
    BY <2>1, PublishedStays
  <2> QED
    BY <1>2, <2>2
<1>3. CASE byStep' = byStep
  BY <1>2, <1>3
<1>4. ASSUME NEW w \in Publisher, LockPipeline(w)
      PROVE  Published(req', t, k, byStep'[t][k])
  <2>1. CASE t \in DOMAIN byStep
    <3>1. byStep'[t] = byStep[t]
      BY <1>4, <2>1 DEF LockPipeline
    <3> QED
      BY <1>2, <2>1, <3>1
  <2>2. CASE t \notin DOMAIN byStep
    <3>1. byStep'[t] = EmptyMap
      BY <1>4, <2>2 DEF LockPipeline
    <3> QED
      BY <3>1 DEF EmptyMap
  <2> QED
    BY <2>1, <2>2
<1>5. ASSUME NEW w \in Publisher, WriteOp(w)
      PROVE  Published(req', t, k, byStep'[t][k])
  <2> DEFINE o == Head(req[w].left)
             m == byStep[t]
  <2>1. t \in DOMAIN byStep
    BY <1>5 DEF WriteOp
  <2>2. CASE t # req[w].token
    <3>1. byStep'[t] = byStep[t]
      BY <1>5, <2>1, <2>2 DEF WriteOp
    <3> QED
      BY <1>2, <2>1, <3>1
  <2>3. CASE t = req[w].token
    <3>1. req[w] \in Storing
      BY <1>1, <1>5, CallForms DEF WriteOp
    <3>2. byStep'[t] = ApplyOp(m, o)
      BY <1>5, <2>1, <2>3 DEF WriteOp
    <3>3. o \in Op
      BY <3>1, HeadTail DEF Storing
    <3>4. o \in OpsOf(req[w])
      <4>1. req[w].left \in Seq(Op) /\ req[w].left # <<>>
        BY <3>1 DEF Storing
      <4>2. 1 \in DOMAIN req[w].left /\ o = req[w].left[1]
        BY <4>1
      <4>3. Pending(req[w]) \subseteq OpsOf(req[w])
        BY <1>5 DEF Provenance, PendingIsSent, WriteOp
      <4> QED
        BY <4>2, <4>3 DEF Pending
    <3>5. CASE o \in SetOps /\ k = o.key
      <4>1. o = [op |-> "set", key |-> k, value |-> o.value]
        BY <3>5 DEF SetOps
      <4>2. o.op = "set"
        BY <3>5 DEF SetOps
      <4>3. byStep'[t][k] = o.value
        BY <3>2, <3>5, <4>2 DEF ApplyOp, ApplySet
      <4>4. req'[w].at \in {"writing", "done"} /\ req'[w].token = req[w].token
            /\ req'[w].ops = req[w].ops
        BY <1>1, <1>5, <3>1 DEF TypeOK, WriteOp, Storing
      <4>5. [op |-> "set", key |-> k, value |-> o.value] \in OpsOf(req[w])
        BY <3>4, <4>1
      <4>6. Published(req', t, k, o.value)
        BY <2>3, <4>4, <4>5 DEF Published, OpsOf
      <4> QED
        BY <4>3, <4>6
    <3>6. CASE o \in SetOps /\ k # o.key
      <4>1. o.op = "set"
        BY <3>6 DEF SetOps
      <4>2. k \in DOMAIN m /\ byStep'[t][k] = m[k]
        BY <3>2, <3>6, <4>1 DEF ApplyOp, ApplySet
      <4> QED
        BY <1>2, <2>1, <4>2
    <3>7. CASE o \in UnsetOps
      <4>1. o.op # "set"
        BY <3>7 DEF UnsetOps
      <4>2. k \in DOMAIN m /\ byStep'[t][k] = m[k]
        BY <3>2, <4>1 DEF ApplyOp, ApplyUnset
      <4> QED
        BY <1>2, <2>1, <4>2
    <3> QED
      BY <3>3, <3>5, <3>6, <3>7 DEF Op
  <2> QED
    BY <2>2, <2>3
<1> QED
  BY <1>3, <1>4, <1>5
     DEF Next, vars, RegisterPipeline, DeletePipeline, Tick, Prune, Receive,
         Authorise, Lookup, FetchMap, ReadMap, MapFault

LEMMA NextAnswers ==
  ASSUME IInv, Provenance, [Next]_vars
  PROVE  AnswersAreOwn'
<1>1. TypeOK
  BY DEF IInv
<1>2. SUFFICES ASSUME NEW c \in Consumer,
                      res'[c].at = "answered", res'[c].value # NoValue
               PROVE  Published(req', <<res'[c].pipeline, res'[c].step>>,
                                res'[c].key, res'[c].value)
  BY DEF AnswersAreOwn, Published, OpsOf
<1>3. CASE res'[c] = res[c]
  <2>1. Published(req, <<res[c].pipeline, res[c].step>>, res[c].key, res[c].value)
    BY <1>2, <1>3, AnswersArePublished DEF Provenance
  <2>2. Published(req', <<res[c].pipeline, res[c].step>>, res[c].key, res[c].value)
    BY <2>1, PublishedStays
  <2> QED
    BY <1>3, <2>2
<1>4. CASE Lookup(c) \/ FetchMap(c)
  <2>1. CASE Lookup(c)
    BY <1>1, <1>2, <2>1 DEF Lookup, TypeOK
  <2>2. CASE FetchMap(c)
    <3>1. res[c] \in Asking
      BY <1>1, <2>2, CallForms DEF FetchMap
    <3>2. [res[c] EXCEPT !.at = "reading"].at = "reading"
      BY <3>1 DEF Asking
    <3> QED
      BY <1>1, <1>2, <2>2, <3>2 DEF FetchMap, TypeOK
  <2> QED
    BY <1>4, <2>1, <2>2
<1>5. CASE ReadMap(c)
  <2> DEFINE r == res[c]
             t == <<r.pipeline, r.step>>
             m == byStep[t]
  <2>1. res'[c] = [at |-> "answered", pipeline |-> r.pipeline, step |-> r.step,
                   key |-> r.key,
                   value |-> IF r.key \in DOMAIN m THEN m[r.key] ELSE NoValue]
    BY <1>1, <1>5 DEF ReadMap, TypeOK
  <2>2. t \in DOMAIN byStep
    BY <1>5 DEF IInv, ReadMap
  <2>3. r.key \in DOMAIN m /\ res'[c].value = m[r.key]
    BY <1>2, <2>1
  <2>4. Published(req, t, r.key, m[r.key])
    BY <2>2, <2>3 DEF Provenance, StoredIsPublished
  <2>5. Published(req', t, r.key, m[r.key])
    BY <2>4, PublishedStays
  <2> QED
    BY <2>1, <2>3, <2>5
<1>6. ASSUME NEW d \in Consumer, d # c, Lookup(d) \/ FetchMap(d) \/ ReadMap(d)
      PROVE  res'[c] = res[c]
  BY <1>1, <1>6 DEF Lookup, FetchMap, ReadMap, TypeOK
<1> QED
  BY <1>3, <1>4, <1>5, <1>6
     DEF Next, vars, RegisterPipeline, DeletePipeline, Tick, Prune, Receive,
         Authorise, LockPipeline, WriteOp, MapFault

\* Whatever other pipelines, steps and publishers do meanwhile, a Resolve
\* answers with a value that was published for that pipeline, step and key.
THEOREM OwnAnswers == Spec => []AnswersAreOwn
<1>1. Init => Provenance
  BY DEF Init, Idle, Provenance, PendingIsSent, StoredIsPublished, AnswersAreOwn
<1>2. IInv /\ Provenance /\ [Next]_vars => Provenance'
  <2> SUFFICES ASSUME IInv, Provenance, [Next]_vars PROVE Provenance'
    OBVIOUS
  <2>1. PendingIsSent'
    BY NextPending DEF Provenance, PendingIsSent
  <2>2. StoredIsPublished'
    BY NextStored DEF StoredIsPublished
  <2>3. AnswersAreOwn'
    BY NextAnswers
  <2> QED
    BY <2>1, <2>2, <2>3 DEF Provenance
<1>3. Provenance => AnswersAreOwn
  BY DEF Provenance
<1> QED
  BY <1>1, <1>2, <1>3, Inductive, PTL DEF Spec

-----------------------------------------------------------------------------
(* The refinement: the service implements OutputStore *)

\* The calls r, the maps b: what a user of token t sees.
WritersOf(r, t) == {w \in Publisher : r[w].at = "writing" /\ r[w].token = t}
Stored(b, t) == IF t \in DOMAIN b THEN b[t] ELSE EmptyMap
Seen(r, b, t) ==
    IF WritersOf(r, t) # {} THEN r[CHOOSE w \in WritersOf(r, t) : TRUE].base
    ELSE Stored(b, t)

\* A batch is written by one publisher at a time in a pipeline, and what is left
\* of it makes of the map what the whole batch makes of the map found first.
UnderWay(r, b, w) ==
    r[w].at = "writing" =>
        /\ r[w].token \in DOMAIN b
        /\ ApplyAll(b[r[w].token], r[w].left) = ApplyAll(r[w].base, r[w].ops)
        /\ \A v \in Publisher \ {w} : r[v].at = "writing" => r[v].token[1] # r[w].token[1]

WritesInv == \A w \in Publisher : UnderWay(req, byStep, w)

LEMMA SeenFacts ==
  ASSUME NEW r, NEW b, NEW t, \A w \in Publisher : UnderWay(r, b, w)
  PROVE  /\ \A w \in WritersOf(r, t) : Seen(r, b, t) = r[w].base
         /\ WritersOf(r, t) = {} => Seen(r, b, t) = Stored(b, t)
<1>1. ASSUME NEW v \in WritersOf(r, t), NEW w \in WritersOf(r, t)
      PROVE  v = w
  BY <1>1 DEF WritersOf, UnderWay
<1>2. ASSUME NEW w \in WritersOf(r, t)
      PROVE  Seen(r, b, t) = r[w].base
  BY <1>1, <1>2 DEF Seen
<1> QED
  BY <1>2 DEF Seen

LEMMA SeenStays ==
  ASSUME NEW r, NEW b, NEW q, NEW c, NEW t,
         \A w \in Publisher : UnderWay(r, b, w), \A w \in Publisher : UnderWay(q, c, w),
         WritersOf(q, t) = WritersOf(r, t),
         \A w \in WritersOf(r, t) : q[w].base = r[w].base,
         WritersOf(r, t) = {} => Stored(c, t) = Stored(b, t)
  PROVE  Seen(q, c, t) = Seen(r, b, t)
<1>1. CASE WritersOf(r, t) = {}
  BY <1>1, SeenFacts
<1>2. CASE WritersOf(r, t) # {}
  <2>1. PICK w : w \in WritersOf(r, t)
    BY <1>2
  <2>2. Seen(r, b, t) = r[w].base /\ Seen(q, c, t) = q[w].base
    BY <2>1, SeenFacts
  <2> QED
    BY <2>1, <2>2
<1> QED
  BY <1>1, <1>2

LEMMA LockFacts ==
  ASSUME TypeOK, NEW w \in Publisher, LockPipeline(w)
  PROVE  /\ req[w] \in Held /\ req[w].at = "accepted" /\ req[w].token \in Token
         /\ req' = [req EXCEPT ![w] = req'[w]]
         /\ req'[w] = [at |-> "writing", token |-> req[w].token, ops |-> req[w].ops,
                       left |-> req[w].ops, base |-> Stored(byStep, req[w].token)]
         /\ DOMAIN byStep' = DOMAIN byStep \cup {req[w].token}
         /\ \A u \in Token : Stored(byStep', u) = Stored(byStep, u)
         /\ \A u \in DOMAIN byStep' : byStep'[u] = Stored(byStep, u)
         /\ \A x \in Publisher : req[x].at = "writing" => req[x].token[1] # req[w].token[1]
<1> DEFINE t == req[w].token
<1>1. req[w] \in Held /\ req[w].at = "accepted" /\ t \in Token
  BY CallForms DEF LockPipeline, Held
<1>2. req' = [req EXCEPT ![w] = [at |-> "writing", token |-> t, ops |-> req[w].ops,
                                 left |-> req[w].ops, base |-> Stored(byStep, t)]]
  BY DEF LockPipeline, Stored, TypeOK
<1>3. req'[w] = [at |-> "writing", token |-> t, ops |-> req[w].ops,
                 left |-> req[w].ops, base |-> Stored(byStep, t)]
  BY <1>2 DEF TypeOK
<1>4. byStep' = [u \in DOMAIN byStep \cup {t} |-> IF u = t THEN Stored(byStep, t) ELSE byStep[u]]
  BY DEF LockPipeline, Stored
<1>5. ASSUME NEW x \in Publisher, req[x].at = "writing", req[x].token[1] = t[1]
      PROVE  FALSE
  <2>1. req[x].token \in Token
    BY <1>5, CallForms DEF Storing
  <2>2. req[x].token \in TokensOf(t[1]) /\ x \in Writing(req[x].token)
    BY <1>5, <2>1 DEF TokensOf, Writing
  <2> QED
    BY <2>2 DEF LockPipeline
<1>6. \A u : Stored(byStep', u) = Stored(byStep, u)
  BY <1>4 DEF Stored
<1>7. \A u \in DOMAIN byStep' : byStep'[u] = Stored(byStep, u)
  BY <1>6 DEF Stored
<1> QED
  BY <1>1, <1>2, <1>3, <1>4, <1>5, <1>6, <1>7

LEMMA WriteFacts ==
  ASSUME TypeOK, WritesInv, NEW w \in Publisher, WriteOp(w)
  PROVE  /\ req[w] \in Storing /\ req[w].at = "writing" /\ req[w].token \in Token
         /\ req' = [req EXCEPT ![w] = req'[w]]
         /\ DOMAIN byStep' = DOMAIN byStep /\ req[w].token \in DOMAIN byStep
         /\ \A u \in DOMAIN byStep \ {req[w].token} : byStep'[u] = byStep[u]
         /\ \/ /\ req'[w] = [at |-> "done", token |-> req[w].token, ops |-> req[w].ops]
               /\ byStep'[req[w].token] = ApplyAll(req[w].base, req[w].ops)
            \/ /\ req'[w] = [req[w] EXCEPT !.left = Tail(@)]
               /\ ApplyAll(byStep'[req[w].token], Tail(req[w].left))
                     = ApplyAll(req[w].base, req[w].ops)
<1> DEFINE t == req[w].token
           left == req[w].left
<1>1. req[w] \in Storing /\ req[w].at = "writing" /\ t \in Token
      /\ left \in Seq(Op) /\ left # <<>>
  BY CallForms DEF WriteOp, Storing
<1>2. t \in DOMAIN byStep /\ ApplyAll(byStep[t], left) = ApplyAll(req[w].base, req[w].ops)
  BY <1>1 DEF WritesInv, UnderWay
<1>3. byStep' = [byStep EXCEPT ![t] = ApplyOp(byStep[t], Head(left))]
  BY <1>2 DEF WriteOp
<1>4. byStep'[t] = ApplyOp(byStep[t], Head(left))
  BY <1>2, <1>3 DEF TypeOK
<1>5. /\ Len(left) = 1 => ApplyAll(byStep[t], left) = byStep'[t]
      /\ ApplyAll(byStep[t], left) = ApplyAll(byStep'[t], Tail(left))
  BY <1>1, <1>4, ApplyAllTail
<1>6. req' = [req EXCEPT ![w] = req'[w]]
  BY DEF WriteOp, TypeOK
<1>7. \/ /\ Len(left) = 1
         /\ req'[w] = [at |-> "done", token |-> t, ops |-> req[w].ops]
      \/ req'[w] = [req[w] EXCEPT !.left = Tail(@)]
  BY DEF WriteOp, TypeOK
<1>8. DOMAIN byStep' = DOMAIN byStep /\ \A u \in DOMAIN byStep \ {t} : byStep'[u] = byStep[u]
  BY <1>3 DEF TypeOK
<1> QED
  BY <1>1, <1>2, <1>5, <1>6, <1>7, <1>8

LEMMA NextWrites ==
  ASSUME TypeOK, WritesInv, [Next]_vars
  PROVE  WritesInv'
<1> SUFFICES ASSUME NEW x \in Publisher PROVE UnderWay(req', byStep', x)
  BY DEF WritesInv
<1>1. UnderWay(req, byStep, x)
  BY DEF WritesInv
<1>2. CASE UNCHANGED <<req, byStep>>
  BY <1>1, <1>2 DEF UnderWay
<1>3. ASSUME NEW w \in Publisher, Receive(w) \/ Authorise(w)
      PROVE  UnderWay(req', byStep', x)
  <2>1. byStep' = byStep /\ \A v \in Publisher \ {w} : req'[v] = req[v]
    BY <1>3 DEF Receive, Authorise, TypeOK
  <2>2. req'[w].at # "writing"
    BY <1>3, CallForms DEF Receive, Authorise, TypeOK, Held
  <2> QED
    BY <1>1, <2>1, <2>2 DEF UnderWay
<1>4. ASSUME NEW w \in Publisher, LockPipeline(w)
      PROVE  UnderWay(req', byStep', x)
  <2> PICK r, p, b, c : r = req /\ p = req' /\ b = byStep /\ c = byStep'
    OBVIOUS
  <2>1. /\ \A v \in Publisher \ {w} : p[v] = r[v]
        /\ p[w].token = r[w].token /\ p[w].left = p[w].ops /\ p[w].base = Stored(b, r[w].token)
        /\ DOMAIN c = DOMAIN b \cup {r[w].token}
        /\ \A u \in DOMAIN c : c[u] = Stored(b, u)
        /\ \A v \in Publisher : r[v].at = "writing" => r[v].token[1] # r[w].token[1]
    <3>1. p = [r EXCEPT ![w] = p[w]]
      BY <1>4, LockFacts
    <3>2. p[w] = [at |-> "writing", token |-> r[w].token, ops |-> r[w].ops,
                  left |-> r[w].ops, base |-> Stored(b, r[w].token)]
      BY <1>4, LockFacts
    <3>3. p[w].token = r[w].token /\ p[w].left = p[w].ops /\ p[w].base = Stored(b, r[w].token)
      BY ONLY <3>2
    <3>4. \A v \in Publisher \ {w} : p[v] = r[v]
      BY <3>1 DEF TypeOK
    <3>5. /\ DOMAIN c = DOMAIN b \cup {r[w].token}
          /\ \A v \in Publisher : r[v].at = "writing" => r[v].token[1] # r[w].token[1]
      BY <1>4, LockFacts
    <3>6. \A u \in DOMAIN c : c[u] = Stored(b, u)
      BY <1>4, LockFacts
    <3> QED
      BY <3>3, <3>4, <3>5, <3>6
  <2>2. CASE x = w
    BY <2>1, <2>2 DEF UnderWay
  <2>3. CASE x # w
    BY <1>1, <2>1, <2>3 DEF UnderWay, Stored
  <2> QED
    BY <2>2, <2>3
<1>5. ASSUME NEW w \in Publisher, WriteOp(w)
      PROVE  UnderWay(req', byStep', x)
  <2> PICK r, p, b, c : r = req /\ p = req' /\ b = byStep /\ c = byStep'
    OBVIOUS
  <2>1. /\ \A v \in Publisher \ {w} : p[v] = r[v]
        /\ DOMAIN c = DOMAIN b
        /\ \A u \in DOMAIN b \ {r[w].token} : c[u] = b[u]
        /\ r[w].at = "writing" /\ p[w].token = r[w].token
        /\ p[w].at = "writing" => /\ p[w].base = r[w].base /\ p[w].ops = r[w].ops
                                  /\ ApplyAll(c[r[w].token], p[w].left) = ApplyAll(r[w].base, r[w].ops)
    <3>1. /\ r[w] \in Storing /\ r[w].at = "writing"
          /\ p = [r EXCEPT ![w] = p[w]]
          /\ DOMAIN c = DOMAIN b
          /\ \A u \in DOMAIN b \ {r[w].token} : c[u] = b[u]
      BY <1>5, WriteFacts
    <3>2. \/ p[w] = [at |-> "done", token |-> r[w].token, ops |-> r[w].ops]
          \/ /\ p[w] = [r[w] EXCEPT !.left = Tail(@)]
             /\ ApplyAll(c[r[w].token], Tail(r[w].left)) = ApplyAll(r[w].base, r[w].ops)
      BY <1>5, WriteFacts
    <3>3. \A v \in Publisher \ {w} : p[v] = r[v]
      BY <3>1 DEF TypeOK
    <3>4. CASE p[w] = [at |-> "done", token |-> r[w].token, ops |-> r[w].ops]
      <4>1. p[w].at = "done" /\ p[w].token = r[w].token
        BY ONLY <3>4
      <4> QED
        BY <3>1, <3>3, <4>1
    <3>5. CASE /\ p[w] = [r[w] EXCEPT !.left = Tail(@)]
               /\ ApplyAll(c[r[w].token], Tail(r[w].left)) = ApplyAll(r[w].base, r[w].ops)
      <4>1. /\ p[w].token = r[w].token /\ p[w].base = r[w].base /\ p[w].ops = r[w].ops
            /\ p[w].left = Tail(r[w].left)
        BY ONLY <3>1, <3>5 DEF Storing
      <4> QED
        BY <3>1, <3>3, <3>5, <4>1
    <3> QED
      BY <3>2, <3>4, <3>5
  <2>2. UnderWay(r, b, w)
    BY DEF WritesInv
  <2>3. CASE x = w
    BY <2>1, <2>2, <2>3 DEF UnderWay
  <2>4. CASE x # w
    BY <1>1, <2>1, <2>2, <2>4 DEF UnderWay
  <2> QED
    BY <2>3, <2>4
<1> QED
  BY <1>2, <1>3, <1>4, <1>5
     DEF Next, vars, RegisterPipeline, DeletePipeline, Tick, Prune, Lookup, FetchMap,
         ReadMap, MapFault

\* What the users see, before and after a step.
LEMMA VisibleIs ==
  /\ visible = [t \in Token |-> Seen(req, byStep, t)]
  /\ visible' = [t \in Token |-> Seen(req', byStep', t)]
BY DEF visible, Writing, Seen, WritersOf, Stored

Publication(r) ==
    IF r.at = "writing" THEN [at |-> "accepted", token |-> r.token, ops |-> r.ops] ELSE r

LEMMA PublicationsAre ==
  /\ publications = [w \in Publisher |-> Publication(req[w])]
  /\ publications' = [w \in Publisher |-> Publication(req'[w])]
BY DEF publications, Publication

LEMMA PublicationsMove ==
  ASSUME TypeOK, NEW w \in Publisher, req' = [req EXCEPT ![w] = req'[w]]
  PROVE  publications' = [publications EXCEPT ![w] = Publication(req'[w])]
<1>1. \A v \in Publisher \ {w} : req'[v] = req[v]
  BY DEF TypeOK
<1> QED
  BY <1>1, PublicationsAre

\* The operations of OutputStore are those of OutputMap.
LEMMA SameOperations ==
  /\ Abstract!EmptyMap = EmptyMap /\ Abstract!Token = Token /\ Abstract!Idle = Idle
  /\ \A m, ops : Abstract!ApplyAll(m, ops) = ApplyAll(m, ops)
BY DEF Abstract!EmptyMap, EmptyMap, Abstract!Token, Token, Abstract!Idle, Idle,
       Abstract!ApplyAll, ApplyAll, Abstract!ApplyOp, ApplyOp, Abstract!ApplySet, ApplySet,
       Abstract!ApplyUnset, ApplyUnset, Abstract!Covered, Covered

LEMMA StoreInit == Init => Abstract!Init
<1> SUFFICES ASSUME Init PROVE Abstract!Init
  OBVIOUS
<1>1. visible = [t \in Token |-> EmptyMap]
  <2>1. \A t \in Token : Seen(req, byStep, t) = EmptyMap
    BY DEF Init, Idle, Seen, WritersOf, Stored
  <2> QED
    BY <2>1, VisibleIs
<1>2. publications = [w \in Publisher |-> Idle]
  BY PublicationsAre DEF Init, Idle, Publication
<1> QED
  BY <1>1, <1>2, SameOperations DEF Init, Abstract!Init

\* Nobody sees anything of a step that leaves the maps and their writers alone.
LEMMA VisibleStays ==
  ASSUME TypeOK, WritesInv, WritesInv', byStep' = byStep,
         \A w \in Publisher : req[w].at = "writing" \/ req'[w].at = "writing" => req'[w] = req[w]
  PROVE  visible' = visible
<1> PICK r, p, b : r = req /\ p = req' /\ b = byStep
  OBVIOUS
<1>1. ASSUME NEW t \in Token PROVE Seen(p, b, t) = Seen(r, b, t)
  <2>1. WritersOf(p, t) = WritersOf(r, t) /\ \A w \in WritersOf(r, t) : p[w] = r[w]
    BY DEF WritersOf
  <2>2. (\A w \in Publisher : UnderWay(r, b, w)) /\ \A w \in Publisher : UnderWay(p, b, w)
    BY DEF WritesInv
  <2> QED
    BY <2>1, <2>2, SeenStays
<1> QED
  BY <1>1, VisibleIs

\* The steps of one publisher, before and after the writing.
LEMMA RequestStep ==
  ASSUME IInv, WritesInv, WritesInv', NEW w \in Publisher, Receive(w) \/ Authorise(w)
  PROVE  Abstract!Send(w) \/ Abstract!Accept(w) \/ Abstract!Refuse(w)
<1>0. TypeOK
  BY DEF IInv
<1>1. /\ byStep' = byStep /\ phase' = phase
      /\ \A v \in Publisher \ {w} : req'[v] = req[v]
      /\ req' = [req EXCEPT ![w] = req'[w]]
  BY <1>0 DEF Receive, Authorise, TypeOK
<1>2. req[w].at \in {"idle", "sent"} /\ req'[w].at # "writing"
  BY <1>0, CallForms DEF Receive, Authorise, TypeOK, Held
<1>3. visible' = visible
  BY <1>0, <1>1, <1>2, VisibleStays
<1>4. publications' = [publications EXCEPT ![w] = req'[w]] /\ publications[w] = req[w]
  <2>1. Publication(req'[w]) = req'[w] /\ Publication(req[w]) = req[w]
    BY <1>2 DEF Publication
  <2> QED
    BY <1>0, <1>1, <2>1, PublicationsMove, PublicationsAre
<1>5. CASE Receive(w)
  <2>1. PICK t \in Token, ops \in Batch : req'[w] = [at |-> "sent", token |-> t, ops |-> ops]
    BY <1>0, <1>5 DEF Receive, TypeOK
  <2>2. req[w].at = "idle"
    BY <1>5 DEF Receive
  <2> QED
    BY <1>1, <1>3, <1>4, <2>1, <2>2, SameOperations DEF Abstract!Send
<1>6. CASE Authorise(w)
  <2>1. req[w].at = "sent" /\ req[w] \in Held
    BY <1>0, <1>6, CallForms DEF Authorise
  <2>2. \/ req' = [req EXCEPT ![w].at = "refused"]
        \/ req' = [req EXCEPT ![w].at = "accepted"] /\ req[w].token[1] \in DOMAIN pipelines
    BY <1>6, Zenon DEF Authorise
  <2>3. CASE req' = [req EXCEPT ![w].at = "refused"]
    <3>1. publications' = [publications EXCEPT ![w].at = "refused"]
      BY <1>0, <1>4, <2>3 DEF TypeOK, publications
    <3> QED
      BY <1>1, <1>3, <1>4, <2>1, <3>1 DEF Abstract!Refuse
  <2>4. CASE req' = [req EXCEPT ![w].at = "accepted"] /\ req[w].token[1] \in DOMAIN pipelines
    <3>1. publications' = [publications EXCEPT ![w].at = "accepted"]
      BY <1>0, <1>4, <2>4 DEF TypeOK, publications
    <3>2. phase[req[w].token[1]] = "open"
      BY <2>4 DEF IInv
    <3> QED
      BY <1>1, <1>3, <1>4, <2>1, <3>1, <3>2 DEF Abstract!Accept
  <2> QED
    BY <2>2, <2>3, <2>4
<1> QED
  BY <1>5, <1>6

\* Taking the pipeline's lock is not seen.
LEMMA LockStep ==
  ASSUME TypeOK, WritesInv, WritesInv', NEW w \in Publisher, LockPipeline(w)
  PROVE  UNCHANGED <<phase, visible, publications>>
<1> PICK r, p, b, c : r = req /\ p = req' /\ b = byStep /\ c = byStep'
  OBVIOUS
<1>1. /\ r[w] \in Held /\ r[w].at = "accepted" /\ r[w].token \in Token
      /\ p = [r EXCEPT ![w] = p[w]]
      /\ \A u \in Token : Stored(c, u) = Stored(b, u)
      /\ \A x \in Publisher : r[x].at = "writing" => r[x].token[1] # r[w].token[1]
  BY LockFacts
<1>2. p[w] = [at |-> "writing", token |-> r[w].token, ops |-> r[w].ops,
              left |-> r[w].ops, base |-> Stored(b, r[w].token)]
  BY LockFacts
<1>3. /\ p[w].at = "writing" /\ p[w].token = r[w].token /\ p[w].ops = r[w].ops
      /\ p[w].base = Stored(b, r[w].token)
  BY ONLY <1>2
<1>4. \A v \in Publisher \ {w} : p[v] = r[v]
  BY <1>1 DEF TypeOK
<1>5. (\A v \in Publisher : UnderWay(r, b, v)) /\ \A v \in Publisher : UnderWay(p, c, v)
  BY DEF WritesInv
<1>6. ASSUME NEW t \in Token PROVE Seen(p, c, t) = Seen(r, b, t)
  <2>1. CASE t = r[w].token
    <3>1. WritersOf(r, t) = {} /\ w \in WritersOf(p, t)
      BY <1>1, <1>3, <2>1 DEF WritersOf
    <3> QED
      BY <1>3, <1>5, <2>1, <3>1, SeenFacts
  <2>2. CASE t # r[w].token
    <3>1. WritersOf(p, t) = WritersOf(r, t) /\ \A v \in WritersOf(r, t) : p[v] = r[v]
      BY <1>1, <1>3, <1>4, <2>2 DEF WritersOf
    <3> QED
      BY <1>1, <1>5, <3>1, SeenStays
  <2> QED
    BY <2>1, <2>2
<1>7. Publication(p[w]) = Publication(r[w])
  <2>1. r[w] = [at |-> "accepted", token |-> r[w].token, ops |-> r[w].ops]
    BY ONLY <1>1 DEF Held
  <2> QED
    BY <1>1, <1>3, <2>1 DEF Publication
<1>8. phase' = phase
  BY DEF LockPipeline
<1> QED
  BY <1>4, <1>6, <1>7, <1>8, VisibleIs, PublicationsAre

\* Nor is an op of a batch, but for the last one: with it the whole batch is.
LEMMA WriteStep ==
  ASSUME TypeOK, WritesInv, WritesInv', NEW w \in Publisher, WriteOp(w)
  PROVE  UNCHANGED <<phase, visible, publications>> \/ Abstract!Publish(w)
<1> PICK r, p, b, c : r = req /\ p = req' /\ b = byStep /\ c = byStep'
  OBVIOUS
<1> PICK t : t = r[w].token
  OBVIOUS
<1>1. /\ r[w] \in Storing /\ r[w].at = "writing" /\ t \in Token
      /\ p = [r EXCEPT ![w] = p[w]]
      /\ DOMAIN c = DOMAIN b /\ t \in DOMAIN b
      /\ \A u \in DOMAIN b \ {t} : c[u] = b[u]
  BY WriteFacts
<1>2. \/ /\ p[w] = [at |-> "done", token |-> t, ops |-> r[w].ops]
         /\ c[t] = ApplyAll(r[w].base, r[w].ops)
      \/ p[w] = [r[w] EXCEPT !.left = Tail(@)]
  BY WriteFacts
<1>3. \A v \in Publisher \ {w} : p[v] = r[v]
  BY <1>1 DEF TypeOK
<1>4. (\A v \in Publisher : UnderWay(r, b, v)) /\ \A v \in Publisher : UnderWay(p, c, v)
  BY DEF WritesInv
<1>5. w \in WritersOf(r, t) /\ Seen(r, b, t) = r[w].base
  BY <1>1, <1>4, SeenFacts DEF WritersOf
<1>6. ASSUME NEW u \in Token, u # t, p[w].token = t
      PROVE  Seen(p, c, u) = Seen(r, b, u)
  <2>1. WritersOf(p, u) = WritersOf(r, u) /\ \A v \in WritersOf(r, u) : p[v] = r[v]
    BY <1>1, <1>3, <1>6 DEF WritersOf
  <2>2. Stored(c, u) = Stored(b, u)
    BY <1>1, <1>6 DEF Stored
  <2> QED
    BY <1>4, <2>1, <2>2, SeenStays
<1>7. phase' = phase
  BY DEF WriteOp
<1>8. CASE p[w] = [r[w] EXCEPT !.left = Tail(@)]
  <2>1. /\ p[w].at = "writing" /\ p[w].token = t /\ p[w].base = r[w].base
        /\ p[w].ops = r[w].ops
    <3>1. t = r[w].token /\ r[w] \in Storing /\ r[w].at = "writing"
      BY <1>1
    <3> QED
      BY ONLY <1>8, <3>1 DEF Storing
  <2>2. w \in WritersOf(p, t) /\ Seen(p, c, t) = Seen(r, b, t)
    BY <1>4, <1>5, <2>1, SeenFacts DEF WritersOf
  <2>3. \A u \in Token : Seen(p, c, u) = Seen(r, b, u)
    BY <1>6, <2>1, <2>2
  <2>4. Publication(p[w]) = Publication(r[w])
    BY <1>1, <2>1 DEF Publication
  <2> QED
    BY <1>3, <1>7, <2>3, <2>4, VisibleIs, PublicationsAre
<1>9. CASE /\ p[w] = [at |-> "done", token |-> t, ops |-> r[w].ops]
           /\ c[t] = ApplyAll(r[w].base, r[w].ops)
  <2>1. p[w].at = "done" /\ p[w].token = t
    BY ONLY <1>9
  <2>2. WritersOf(p, t) = {}
    <3>1. ASSUME NEW v \in WritersOf(p, t) PROVE FALSE
      <4>1. v \in Publisher \ {w} /\ r[v].at = "writing" /\ r[v].token = t
        BY <1>3, <2>1, <3>1 DEF WritersOf
      <4>2. UnderWay(r, b, w)
        BY <1>4
      <4> QED
        BY <1>1, <4>1, <4>2 DEF UnderWay
    <3> QED
      BY <3>1
  <2>3. Seen(p, c, t) = ApplyAll(Seen(r, b, t), r[w].ops)
    BY <1>1, <1>4, <1>5, <1>9, <2>2, SeenFacts DEF Stored
  <2>4. visible' = [visible EXCEPT ![t] = ApplyAll(@, r[w].ops)]
    BY <1>1, <1>6, <2>1, <2>3, VisibleIs
  <2>5. publications[w] = [at |-> "accepted", token |-> t, ops |-> r[w].ops]
    BY <1>1, PublicationsAre DEF Publication
  <2>6. Publication(p[w]) = [publications[w] EXCEPT !.at = "done"]
    BY <1>9, <2>5 DEF Publication
  <2>7. publications' = [publications EXCEPT ![w].at = "done"]
    BY <1>1, <2>6, PublicationsMove
  <2>8. /\ publications[w].at = "accepted" /\ publications[w].token = t
        /\ publications[w].ops = r[w].ops
    BY ONLY <2>5
  <2>9. visible' = [visible EXCEPT ![publications[w].token]
                        = Abstract!ApplyAll(@, publications[w].ops)]
    BY <2>4, <2>8, SameOperations
  <2> QED
    BY <1>7, <2>7, <2>8, <2>9 DEF Abstract!Publish
<1> QED
  BY <1>2, <1>8, <1>9

LEMMA StoreStep ==
  ASSUME IInv, WritesInv, WritesInv', [Next]_vars
  PROVE  [Abstract!Next]_(Abstract!vars)
<1>0. TypeOK
  BY DEF IInv
<1>1. ASSUME UNCHANGED <<req, byStep>>
      PROVE  UNCHANGED <<visible, publications>>
  BY <1>1, VisibleIs, PublicationsAre
<1>2. ASSUME NEW p \in Pipeline, RegisterPipeline(p) PROVE Abstract!Open(p)
  BY <1>1, <1>2 DEF RegisterPipeline, Abstract!Open
<1>3. ASSUME NEW p \in Pipeline, DeletePipeline(p) PROVE Abstract!Close(p)
  BY <1>1, <1>3 DEF DeletePipeline, Abstract!Close
<1>4. ASSUME NEW w \in Publisher, Receive(w) \/ Authorise(w) PROVE Abstract!Next
  BY <1>4, RequestStep DEF Abstract!Next
<1>5. ASSUME NEW w \in Publisher, LockPipeline(w) PROVE UNCHANGED Abstract!vars
  BY <1>0, <1>5, LockStep DEF Abstract!vars
<1>6. ASSUME NEW w \in Publisher, WriteOp(w) PROVE [Abstract!Next]_(Abstract!vars)
  BY <1>0, <1>6, WriteStep DEF Abstract!vars, Abstract!Next
<1>7. CASE UNCHANGED <<phase, req, byStep>>
  BY <1>1, <1>7 DEF Abstract!vars
<1>8. \/ \E p \in Pipeline : RegisterPipeline(p) \/ DeletePipeline(p)
      \/ \E w \in Publisher : Receive(w) \/ Authorise(w) \/ LockPipeline(w) \/ WriteOp(w)
      \/ UNCHANGED <<phase, req, byStep>>
  BY DEF Next, vars, Tick, Prune, Lookup, FetchMap, ReadMap, MapFault
<1> QED
  BY <1>2, <1>3, <1>4, <1>5, <1>6, <1>7, <1>8 DEF Abstract!Next

\* Every accepted publication lands whole, at one instant and in its own step's
\* outputs, although Apply writes it op by op under a lock that Resolve does not
\* hold while it reads; nothing is accepted outside a pipeline's life.
THEOREM ImplementsStore == Spec => ImplementsOutputStore
<1>1. Init => WritesInv
  BY DEF Init, Idle, WritesInv, UnderWay
<1>2. IInv /\ WritesInv /\ [Next]_vars => WritesInv'
  BY NextWrites DEF IInv
<1>3. IInv /\ WritesInv /\ WritesInv' /\ [Next]_vars => [Abstract!Next]_(Abstract!vars)
  BY StoreStep
<1> QED
  BY <1>1, <1>2, <1>3, StoreInit, Inductive, PTL
     DEF Spec, ImplementsOutputStore, Abstract!Spec
=============================================================================
