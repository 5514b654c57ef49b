----------------------------- MODULE CompilerProofs -----------------------------
(***************************************************************************)
(* Theorems about Compiler for every manifest and every setting.           *)
(***************************************************************************)
EXTENDS Compiler, LeastNumber, FiniteSetTheorems, SequenceTheorems, TLAPS

-----------------------------------------------------------------------------
(* Ancestors: the least set that holds the dependencies of a step and of     *)
(* its members                                                              *)

Behind(deps, S) == UNION {deps[x] : x \in S \cap DOMAIN deps}

Closed(deps, S) == Behind(deps, S) \subseteq S

\* The sets through which Ancestors goes.
Far(deps, s, far) ==
    /\ DOMAIN far = 0 .. Cardinality(DOMAIN deps)
    /\ far[0] = deps[s]
    /\ \A i \in 1 .. Cardinality(DOMAIN deps) :
          far[i] = far[i - 1] \cup Behind(deps, far[i - 1])

LEMMA AncestorSteps ==
  ASSUME NEW deps, NEW s, Cardinality(DOMAIN deps) \in Nat
  PROVE  \E far : Far(deps, s, far) /\ Ancestors(deps, s) = far[Cardinality(DOMAIN deps)]
<1> PICK n \in Nat : n = Cardinality(DOMAIN deps)
  OBVIOUS
<1> DEFINE More(S) == S \cup Behind(deps, S)
           Good(l) == \E f : /\ DOMAIN f = 0 .. l
                             /\ f[0] = deps[s]
                             /\ \A i \in 1 .. l : f[i] = More(f[i - 1])
           T == {l \in Nat : ~Good(l)}
           Body(f) == [i \in 0 .. n |-> IF i = 0 THEN deps[s] ELSE More(f[i - 1])]
<1> HIDE DEF More
<1>1. T = {}
  <2>1. SUFFICES ASSUME T # {} PROVE FALSE
    OBVIOUS
  <2>2. PICK l \in T : \A k \in T : ~(k < l)
    BY <2>1, Least
  <2>3. l # 0
    <3>1. Good(0)
      <4> DEFINE f == [i \in 0 .. 0 |-> deps[s]]
      <4>1. DOMAIN f = 0 .. 0 /\ f[0] = deps[s] /\ \A i \in 1 .. 0 : f[i] = More(f[i - 1])
        OBVIOUS
      <4> QED
        BY <4>1
    <3> QED
      BY <3>1, <2>2
  <2>4. l \in Nat /\ l - 1 \in Nat /\ l - 1 < l
    BY <2>2, <2>3
  <2>5. Good(l - 1)
    BY <2>2, <2>4
  <2>6. PICK f : /\ DOMAIN f = 0 .. l - 1
                 /\ f[0] = deps[s]
                 /\ \A i \in 1 .. l - 1 : f[i] = More(f[i - 1])
    BY <2>5
  <2> DEFINE g == [i \in 0 .. l |-> IF i = l THEN More(f[l - 1]) ELSE f[i]]
  <2>7. DOMAIN g = 0 .. l /\ g[0] = deps[s]
    BY <2>3, <2>4, <2>6
  <2>8. \A i \in 1 .. l : g[i] = More(g[i - 1])
    <3> SUFFICES ASSUME NEW i \in 1 .. l PROVE g[i] = More(g[i - 1])
      OBVIOUS
    <3>1. i - 1 \in 0 .. l /\ i - 1 # l /\ g[i - 1] = f[i - 1]
      BY <2>4
    <3>2. CASE i = l
      BY <3>1, <3>2, <2>4
    <3>3. CASE i # l
      <4>1. i \in 1 .. l - 1 /\ g[i] = f[i]
        BY <3>3, <2>4
      <4> QED
        BY <4>1, <3>1, <2>6
    <3> QED
      BY <3>2, <3>3
  <2> HIDE DEF g
  <2>9. Good(l)
    BY <2>7, <2>8
  <2> QED
    BY <2>2, <2>9
<1>2. PICK f : /\ DOMAIN f = 0 .. n
               /\ f[0] = deps[s]
               /\ \A i \in 1 .. n : f[i] = More(f[i - 1])
  BY <1>1
<1> DEFINE h == [i \in 0 .. n |-> f[i]]
<1>3. \A i \in 0 .. n : i # 0 => i \in 1 .. n /\ i - 1 \in 0 .. n
  OBVIOUS
<1>4. h = Body(h)
  BY <1>2, <1>3, Zenon
<1> HIDE DEF h
<1>5. \E x : x = Body(x)
  BY <1>4
<1> DEFINE S == CHOOSE x : x = Body(x)
<1>6. S = Body(S)
  BY <1>5
<1>7. Ancestors(deps, s) = S[n]
  BY DEF Ancestors, More, Behind
<1> HIDE DEF S
<1>8. Far(deps, s, S)
  <2>1. DOMAIN S = 0 .. n
    BY <1>6
  <2>2. \A i \in 0 .. n : S[i] = IF i = 0 THEN deps[s] ELSE More(S[i - 1])
    BY <1>6
  <2>3. 0 \in 0 .. n /\ \A i \in 1 .. n : i \in 0 .. n /\ i # 0
    OBVIOUS
  <2> QED
    BY <2>1, <2>2, <2>3 DEF Far, More
<1> QED
  BY <1>7, <1>8

\* A chain of as many sets as deps has names, and one, does not grow all the way.
LEMMA FarSettles ==
  ASSUME NEW deps, IsFiniteSet(DOMAIN deps), NEW s, NEW far, Far(deps, s, far),
         NEW n \in Nat, n = Cardinality(DOMAIN deps), n # 0,
         far[0] \cap DOMAIN deps # {}
  PROVE  \E j \in 1 .. n : far[j] \cap DOMAIN deps = far[j - 1] \cap DOMAIN deps
<1> DEFINE g(i) == far[i] \cap DOMAIN deps
<1>1. SUFFICES ASSUME \A j \in 1 .. n : g(j) # g(j - 1) PROVE FALSE
  OBVIOUS
<1>2. \A i : IsFiniteSet(g(i)) /\ Cardinality(g(i)) \in Nat /\ Cardinality(g(i)) <= n
  <2> SUFFICES ASSUME NEW i
               PROVE  IsFiniteSet(g(i)) /\ Cardinality(g(i)) \in Nat /\ Cardinality(g(i)) <= n
    OBVIOUS
  <2>1. g(i) \in SUBSET DOMAIN deps
    OBVIOUS
  <2> QED
    BY <2>1, FS_Subset, FS_CardinalityType
<1>3. ASSUME NEW j \in 1 .. n
      PROVE  Cardinality(g(j)) > Cardinality(g(j - 1))
  <2>1. far[j] = far[j - 1] \cup Behind(deps, far[j - 1])
    BY DEF Far
  <2>2. g(j - 1) \in SUBSET g(j)
    BY <2>1
  <2>3. g(j) # g(j - 1)
    BY <1>1
  <2> HIDE DEF g
  <2>4. Cardinality(g(j - 1)) <= Cardinality(g(j)) /\ Cardinality(g(j - 1)) # Cardinality(g(j))
    BY <1>2, <2>2, <2>3, FS_Subset
  <2> QED
    BY <1>2, <2>4
<1> DEFINE T == {i \in 0 .. n : ~(Cardinality(g(i)) > i)}
<1>4. T = {}
  <2>1. SUFFICES ASSUME T # {} PROVE FALSE
    OBVIOUS
  <2>2. T \in SUBSET Nat
    OBVIOUS
  <2>3. PICK i \in T : \A j \in T : ~(j < i)
    BY <2>1, <2>2, Least
  <2>4. i # 0
    <3>1. Cardinality(g(0)) # 0
      BY <1>2, FS_EmptySet
    <3> QED
      BY <1>2, <2>3, <3>1
  <2>5. i \in 1 .. n /\ i - 1 \in 0 .. n /\ i - 1 < i
    BY <2>3, <2>4
  <2> HIDE DEF g
  <2>6. Cardinality(g(i - 1)) > i - 1
    BY <2>3, <2>5
  <2> QED
    BY <1>2, <1>3, <2>3, <2>5, <2>6
<1>5. Cardinality(g(n)) > n
  BY <1>4
<1> QED
  BY <1>2, <1>5

\* Once the names in the sets are the same, the sets are.
LEMMA FarClosed ==
  ASSUME NEW deps, IsFiniteSet(DOMAIN deps), NEW s, NEW far, Far(deps, s, far)
  PROVE  Closed(deps, far[Cardinality(DOMAIN deps)])
<1> PICK n \in Nat : n = Cardinality(DOMAIN deps)
  BY FS_CardinalityType
<1>1. \A i \in 1 .. n : far[i] = far[i - 1] \cup Behind(deps, far[i - 1])
  BY DEF Far
<1>2. CASE n = 0
  <2>1. DOMAIN deps = {}
    BY <1>2, FS_EmptySet
  <2> QED
    BY <2>1 DEF Closed, Behind
<1>3. ASSUME NEW j \in 1 .. n, far[j] \cap DOMAIN deps = far[j - 1] \cap DOMAIN deps
      PROVE  Closed(deps, far[n])
  <2>1. Behind(deps, far[j]) = Behind(deps, far[j - 1])
    BY <1>3 DEF Behind
  <2>2. Behind(deps, far[j]) \subseteq far[j]
    BY <1>1, <2>1
  <2> DEFINE T == {i \in j .. n : far[i] # far[j]}
  <2>3. T = {}
    <3>1. SUFFICES ASSUME T # {} PROVE FALSE
      OBVIOUS
    <3>2. T \in SUBSET Nat
      OBVIOUS
    <3>3. PICK i \in T : \A k \in T : ~(k < i)
      BY <3>1, <3>2, Least
    <3>4. i \in 1 .. n /\ i - 1 \in j .. n /\ i - 1 < i
      BY <3>3
    <3>5. far[i - 1] = far[j]
      BY <3>3, <3>4
    <3>6. far[i] = far[i - 1] \cup Behind(deps, far[i - 1])
      BY <1>1, <3>4
    <3> QED
      BY <2>2, <3>3, <3>5, <3>6
  <2>4. far[n] = far[j]
    BY <2>3
  <2> QED
    BY <2>2, <2>4 DEF Closed
<1>4. CASE n # 0 /\ far[0] \cap DOMAIN deps # {}
  BY <1>3, <1>4, FarSettles
<1>5. CASE n # 0 /\ far[0] \cap DOMAIN deps = {}
  <2>1. far[1] = far[0] \cup Behind(deps, far[0])
    <3>1. 1 \in 1 .. n /\ 1 - 1 = 0
      BY <1>5
    <3> QED
      BY <1>1, <3>1
  <2>2. Behind(deps, far[0]) = {}
    BY <1>5 DEF Behind
  <2>3. 1 \in 1 .. n /\ far[1] \cap DOMAIN deps = far[1 - 1] \cap DOMAIN deps
    BY <1>5, <2>1, <2>2
  <2> QED
    BY <1>3, <2>3
<1> QED
  BY <1>2, <1>4, <1>5

LEMMA AncestorsFacts ==
  ASSUME NEW deps, IsFiniteSet(DOMAIN deps), NEW s
  PROVE  /\ deps[s] \subseteq Ancestors(deps, s)
         /\ Closed(deps, Ancestors(deps, s))
         /\ \A A : deps[s] \subseteq A /\ Closed(deps, A) => Ancestors(deps, s) \subseteq A
<1> PICK n \in Nat : n = Cardinality(DOMAIN deps)
  BY FS_CardinalityType
<1>1. PICK far : Far(deps, s, far) /\ Ancestors(deps, s) = far[n]
  BY AncestorSteps
<1>2. /\ far[0] = deps[s]
      /\ \A i \in 1 .. n : far[i] = far[i - 1] \cup Behind(deps, far[i - 1])
  BY <1>1 DEF Far
<1>3. ASSUME NEW A, deps[s] \subseteq A, Closed(deps, A)
      PROVE  far[n] \subseteq A
  <2> DEFINE T == {i \in 0 .. n : ~(far[i] \subseteq A)}
  <2>1. T = {}
    <3>1. SUFFICES ASSUME T # {} PROVE FALSE
      OBVIOUS
    <3>2. T \in SUBSET Nat
      OBVIOUS
    <3>3. PICK i \in T : \A k \in T : ~(k < i)
      BY <3>1, <3>2, Least
    <3>4. i # 0
      BY <1>2, <1>3, <3>3
    <3>5. i \in 1 .. n /\ i - 1 \in 0 .. n /\ i - 1 < i
      BY <3>3, <3>4
    <3>6. far[i - 1] \subseteq A
      BY <3>3, <3>5
    <3>7. Behind(deps, far[i - 1]) \subseteq A
      BY <1>3, <3>6 DEF Closed, Behind
    <3>8. far[i] = far[i - 1] \cup Behind(deps, far[i - 1])
      BY <1>2, <3>5
    <3> QED
      BY <3>3, <3>6, <3>7, <3>8
  <2> QED
    BY <2>1
<1>4. deps[s] \subseteq far[n]
  <2> DEFINE T == {i \in 0 .. n : ~(deps[s] \subseteq far[i])}
  <2>1. T = {}
    <3>1. SUFFICES ASSUME T # {} PROVE FALSE
      OBVIOUS
    <3>2. T \in SUBSET Nat
      OBVIOUS
    <3>3. PICK i \in T : \A k \in T : ~(k < i)
      BY <3>1, <3>2, Least
    <3>4. i # 0
      BY <1>2, <3>3
    <3>5. i \in 1 .. n /\ i - 1 \in 0 .. n /\ i - 1 < i
      BY <3>3, <3>4
    <3>6. far[i] = far[i - 1] \cup Behind(deps, far[i - 1])
      BY <1>2, <3>5
    <3> QED
      BY <3>3, <3>5, <3>6
  <2> QED
    BY <2>1
<1>5. Closed(deps, far[n])
  BY <1>1, FarClosed
<1> QED
  BY <1>1, <1>3, <1>4, <1>5

\* More dependencies, more ancestors.
LEMMA MoreAncestors ==
  ASSUME NEW deps, NEW more, IsFiniteSet(DOMAIN deps), IsFiniteSet(DOMAIN more),
         DOMAIN deps \subseteq DOMAIN more,
         \A x \in DOMAIN deps : deps[x] \subseteq more[x],
         NEW s \in DOMAIN deps
  PROVE  Ancestors(deps, s) \subseteq Ancestors(more, s)
<1>1. more[s] \subseteq Ancestors(more, s) /\ Closed(more, Ancestors(more, s))
  BY AncestorsFacts
<1>2. Closed(deps, Ancestors(more, s)) /\ deps[s] \subseteq Ancestors(more, s)
  BY <1>1 DEF Closed, Behind
<1> QED
  BY <1>2, AncestorsFacts

\* The ancestors of a dependency are ancestors.
LEMMA AncestorsOfAncestors ==
  ASSUME NEW deps, IsFiniteSet(DOMAIN deps), NEW s, NEW x \in Ancestors(deps, s) \cap DOMAIN deps
  PROVE  Ancestors(deps, x) \subseteq Ancestors(deps, s)
<1>1. Closed(deps, Ancestors(deps, s))
  BY AncestorsFacts
<1>2. deps[x] \subseteq Ancestors(deps, s)
  BY <1>1 DEF Closed, Behind
<1> QED
  BY <1>1, <1>2, AncestorsFacts

\* The names of a list are finitely many.
LEMMA NamesFinite ==
  ASSUME NEW S, NEW items \in Seq(S)
  PROVE  IsFiniteSet(NamesOf(items)) /\ DOMAIN DepsOf(items) = NamesOf(items)
<1> DEFINE f == [i \in 1 .. Len(items) |-> items[i].name]
<1>1. IsFiniteSet(1 .. Len(items))
  BY FS_Interval
<1>2. f \in Surjection(1 .. Len(items), NamesOf(items))
  BY DEF NamesOf, Surjection
<1> QED
  BY <1>1, <1>2, FS_Surjection DEF DepsOf

-----------------------------------------------------------------------------
(* The inductive invariant *)

CompileInv ==
    at = "compiled" =>
        /\ spec.complete = (Stops(manifest) = {})
        /\ spec.steps = IF spec.complete THEN Graph(manifest, Built(manifest))
                        ELSE Built(manifest)
        /\ spec.policies = [i \in DOMAIN Built(manifest) |->
                               RunPolicy(opts, manifest.clone /\ i = 1, Built(manifest)[i])]
        /\ \E listens \in BOOLEAN :
              LET mode == OutputMode(opts, listens)
              IN  /\ spec.transport = OutputTransport(opts, listens)
                  /\ spec.listening = (TriesUnix(opts) /\ listens)
                  /\ spec.tokens = Tokens(manifest, opts, mode)
                  /\ spec.told = Told(opts, mode)
                  /\ spec.dirs = [i \in DOMAIN Built(manifest) |->
                                    OutputDir(manifest.workspace, opts, mode,
                                              Built(manifest)[i].name)]
                  /\ spec.containers =
                        IF spec.complete
                        THEN Containers(manifest, opts, mode, Built(manifest)) ELSE <<>>

IInv ==
    /\ Manifest(manifest) /\ opts \in Opts
    /\ at \in {"read", "parsed", "linted", "compiled", "rejected"}
    /\ at \in {"parsed", "linted", "compiled"} => LintAccepts(manifest)
    /\ at \in {"linted", "compiled"} => CheckStepsAccepts(manifest)
    /\ CompileInv

\* What Compile was given is what the checks have seen.
THEOREM Inductive == Spec => []IInv
<1>1. Init => IInv
  BY InputsAssumption DEF Init, IInv, CompileInv
<1>2. IInv /\ [Next]_vars => IInv'
  <2> SUFFICES ASSUME IInv, [Next]_vars PROVE IInv'
    OBVIOUS
  <2>1. CASE Parse
    BY <2>1, Zenon DEF Parse, IInv, CompileInv
  <2>2. CASE Lint
    BY <2>2, Zenon DEF Lint, IInv, CompileInv
  <2>3. CASE Compile
    <3>1. /\ at = "linted" /\ at' = "compiled" /\ manifest' = manifest /\ opts' = opts
      BY <2>3 DEF Compile
    <3> PICK out : out = spec'
      OBVIOUS
    <3>2. PICK listens \in BOOLEAN :
            out =
                 [steps      |-> IF Stops(manifest) = {} THEN Graph(manifest, Built(manifest))
                                 ELSE Built(manifest),
                  policies   |-> [i \in DOMAIN Built(manifest) |->
                                     RunPolicy(opts, manifest.clone /\ i = 1, Built(manifest)[i])],
                  containers |-> IF Stops(manifest) = {}
                                 THEN Containers(manifest, opts, OutputMode(opts, listens),
                                                 Built(manifest))
                                 ELSE <<>>,
                  complete   |-> Stops(manifest) = {},
                  transport  |-> OutputTransport(opts, listens),
                  listening  |-> TriesUnix(opts) /\ listens,
                  tokens     |-> Tokens(manifest, opts, OutputMode(opts, listens)),
                  told       |-> Told(opts, OutputMode(opts, listens)),
                  dirs       |-> [i \in DOMAIN Built(manifest) |->
                                     OutputDir(manifest.workspace, opts,
                                               OutputMode(opts, listens),
                                               Built(manifest)[i].name)]]
      BY <2>3, Zenon DEF Compile
    <3>3. /\ out.steps = IF Stops(manifest) = {} THEN Graph(manifest, Built(manifest))
                         ELSE Built(manifest)
          /\ out.policies = [i \in DOMAIN Built(manifest) |->
                                RunPolicy(opts, manifest.clone /\ i = 1, Built(manifest)[i])]
          /\ out.containers = IF Stops(manifest) = {}
                              THEN Containers(manifest, opts, OutputMode(opts, listens),
                                              Built(manifest))
                              ELSE <<>>
          /\ out.transport = OutputTransport(opts, listens)
          /\ out.tokens = Tokens(manifest, opts, OutputMode(opts, listens))
          /\ out.told = Told(opts, OutputMode(opts, listens))
          /\ out.dirs = [i \in DOMAIN Built(manifest) |->
                            OutputDir(manifest.workspace, opts, OutputMode(opts, listens),
                                      Built(manifest)[i].name)]
      BY ONLY <3>2
    <3>4. /\ out.complete = (Stops(manifest) = {})
          /\ out.listening = (TriesUnix(opts) /\ listens)
      BY ONLY <3>2, Zenon
    <3>5. CompileInv'
      <4> HIDE DEF IInv
      <4> QED
        BY <3>1, <3>2, <3>3, <3>4 DEF CompileInv
    <3> QED
      BY <3>1, <3>5 DEF IInv
  <2>4. CASE UNCHANGED vars
    BY <2>4 DEF vars, IInv, CompileInv
  <2> QED
    BY <2>1, <2>2, <2>3, <2>4 DEF Next
<1> QED
  BY <1>1, <1>2, PTL DEF Spec

-----------------------------------------------------------------------------
(* Steps and their graph *)

\* a and b may differ in their dependencies.
Like(a, b) ==
    /\ a.name = b.name /\ a.source = b.source /\ a.detach = b.detach
    /\ a.include = b.include /\ a.exclude = b.exclude /\ a.when = b.when
    /\ a.mounts = b.mounts

\* item with the dependencies d.
WithDeps(item, d) == [item EXCEPT !.deps = d]

LEMMA WithDepsFacts ==
  ASSUME NEW item \in Item, NEW d \in SUBSET Name
  PROVE  WithDeps(item, d) \in Item /\ Like(WithDeps(item, d), item) /\ WithDeps(item, d).deps = d
BY DEF Item, Like, WithDeps

LEMMA ItemFields ==
  ASSUME NEW item \in Item
  PROVE  /\ item.name \in Name /\ item.deps \in SUBSET Name
         /\ Like(item, item) /\ WithDeps(item, item.deps) = item
BY DEF Item, Like, WithDeps

\* The rewrites of the graph, for the dependencies d that they give a step.
LEMMA Rewritten ==
  ASSUME NEW steps \in Seq(Item), NEW d \in [1 .. Len(steps) -> SUBSET Name], NEW g,
         g = [i \in DOMAIN steps |-> WithDeps(steps[i], d[i])]
  PROVE  /\ g \in Seq(Item) /\ Len(g) = Len(steps) /\ DOMAIN g = 1 .. Len(steps)
         /\ \A i \in 1 .. Len(steps) : Like(g[i], steps[i]) /\ g[i].deps = d[i]
<1>1. DOMAIN g = 1 .. Len(steps) /\ Len(steps) \in Nat
  OBVIOUS
<1>2. ASSUME NEW i \in 1 .. Len(steps)
      PROVE  g[i] \in Item /\ Like(g[i], steps[i]) /\ g[i].deps = d[i]
  <2>1. steps[i] \in Item /\ d[i] \in SUBSET Name
    OBVIOUS
  <2>2. g[i] = WithDeps(steps[i], d[i])
    OBVIOUS
  <2> QED
    BY <2>1, <2>2, WithDepsFacts
<1>3. g \in [1 .. Len(steps) -> Item]
  BY <1>1, <1>2
<1> QED
  BY <1>1, <1>2, <1>3

LEMMA SerialFacts ==
  ASSUME NEW steps \in Seq(Item), NEW g, g = ConfigureSerial(steps)
  PROVE  /\ g \in Seq(Item) /\ Len(g) = Len(steps) /\ DOMAIN g = 1 .. Len(steps)
         /\ \A i \in 1 .. Len(steps) :
               /\ Like(g[i], steps[i])
               /\ g[i].deps = IF i = 1
                              THEN steps[i].deps ELSE {steps[i - 1].name}
<1> DEFINE e(i) == IF i = 1 THEN steps[i].deps ELSE {steps[i - 1].name}
           d == [i \in 1 .. Len(steps) |-> e(i)]
<1>1. d \in [1 .. Len(steps) -> SUBSET Name]
  <2>1. ASSUME NEW i \in 1 .. Len(steps) PROVE d[i] \in SUBSET Name
    <3>1. steps[i] \in Item /\ (i # 1 => steps[i - 1] \in Item)
      OBVIOUS
    <3> QED
      BY <3>1, ItemFields
  <2> QED
    BY <2>1
<1>2. g = [i \in DOMAIN steps |-> WithDeps(steps[i], d[i])]
  <2>1. DOMAIN g = DOMAIN steps /\ DOMAIN steps = 1 .. Len(steps)
    BY DEF ConfigureSerial
  <2>2. ASSUME NEW i \in 1 .. Len(steps) PROVE g[i] = WithDeps(steps[i], d[i])
    <3>1. g[i] = IF i = 1 THEN steps[i] ELSE WithDeps(steps[i], {steps[i - 1].name})
      BY <2>1 DEF ConfigureSerial, WithDeps
    <3>2. steps[i] \in Item
      OBVIOUS
    <3>3. WithDeps(steps[i], steps[i].deps) = steps[i]
      BY <3>2, ItemFields
    <3>4. d[i] = e(i)
      OBVIOUS
    <3> HIDE DEF d
    <3> QED
      BY <3>1, <3>3, <3>4
  <2>3. g = [i \in DOMAIN g |-> g[i]]
    BY DEF ConfigureSerial
  <2> HIDE DEF d
  <2> QED
    BY <2>1, <2>2, <2>3
<1>3. \A i \in 1 .. Len(steps) : d[i] = e(i)
  OBVIOUS
<1> HIDE DEF d
<1>4. /\ g \in Seq(Item) /\ Len(g) = Len(steps) /\ DOMAIN g = 1 .. Len(steps)
      /\ \A i \in 1 .. Len(steps) : Like(g[i], steps[i]) /\ g[i].deps = d[i]
  BY <1>1, <1>2, Rewritten
<1> QED
  BY <1>3, <1>4

LEMMA CloneDepsFacts ==
  ASSUME NEW steps \in Seq(Item), NEW g, g = ConfigureCloneDeps(steps)
  PROVE  /\ g \in Seq(Item) /\ Len(g) = Len(steps) /\ DOMAIN g = 1 .. Len(steps)
         /\ \A i \in 1 .. Len(steps) :
               /\ Like(g[i], steps[i])
               /\ g[i].deps = IF steps[i].name = Clone \/ steps[i].deps # {}
                              THEN steps[i].deps ELSE {Clone}
<1> DEFINE e(i) == IF steps[i].name = Clone \/ steps[i].deps # {} THEN steps[i].deps ELSE {Clone}
           d == [i \in 1 .. Len(steps) |-> e(i)]
<1>1. d \in [1 .. Len(steps) -> SUBSET Name]
  BY ItemFields, NameAssumption
<1>2. g = [i \in DOMAIN steps |-> WithDeps(steps[i], d[i])]
  <2>1. DOMAIN g = DOMAIN steps /\ DOMAIN steps = 1 .. Len(steps)
    BY DEF ConfigureCloneDeps
  <2>2. ASSUME NEW i \in 1 .. Len(steps) PROVE g[i] = WithDeps(steps[i], d[i])
    <3>1. g[i] = IF steps[i].name = Clone \/ steps[i].deps # {} THEN steps[i] ELSE WithDeps(steps[i], {Clone})
      BY <2>1 DEF ConfigureCloneDeps, WithDeps
    <3>2. steps[i] \in Item
      OBVIOUS
    <3>3. WithDeps(steps[i], steps[i].deps) = steps[i]
      BY <3>2, ItemFields
    <3>4. d[i] = e(i)
      OBVIOUS
    <3> HIDE DEF d
    <3> QED
      BY <3>1, <3>3, <3>4
  <2>3. g = [i \in DOMAIN g |-> g[i]]
    BY DEF ConfigureCloneDeps
  <2> HIDE DEF d
  <2> QED
    BY <2>1, <2>2, <2>3
<1>3. \A i \in 1 .. Len(steps) : d[i] = e(i)
  OBVIOUS
<1> HIDE DEF d
<1>4. /\ g \in Seq(Item) /\ Len(g) = Len(steps) /\ DOMAIN g = 1 .. Len(steps)
      /\ \A i \in 1 .. Len(steps) : Like(g[i], steps[i]) /\ g[i].deps = d[i]
  BY <1>1, <1>2, Rewritten
<1> QED
  BY <1>3, <1>4

LEMMA RemoveFacts ==
  ASSUME NEW steps \in Seq(Item), NEW g, g = RemoveCloneDeps(steps)
  PROVE  /\ g \in Seq(Item) /\ Len(g) = Len(steps) /\ DOMAIN g = 1 .. Len(steps)
         /\ \A i \in 1 .. Len(steps) :
               /\ Like(g[i], steps[i])
               /\ g[i].deps = IF Clone \in NamesOf(steps) \/ steps[i].deps # {Clone}
                              THEN steps[i].deps ELSE {}
<1> DEFINE e(i) == IF Clone \in NamesOf(steps) \/ steps[i].deps # {Clone} THEN steps[i].deps ELSE {}
           d == [i \in 1 .. Len(steps) |-> e(i)]
<1>1. d \in [1 .. Len(steps) -> SUBSET Name]
  BY ItemFields
<1>2. g = [i \in DOMAIN steps |-> WithDeps(steps[i], d[i])]
  <2>1. DOMAIN g = DOMAIN steps /\ DOMAIN steps = 1 .. Len(steps)
    BY DEF RemoveCloneDeps
  <2>2. ASSUME NEW i \in 1 .. Len(steps) PROVE g[i] = WithDeps(steps[i], d[i])
    <3>1. g[i] = IF Clone \in NamesOf(steps) \/ steps[i].deps # {Clone} THEN steps[i] ELSE WithDeps(steps[i], {})
      BY <2>1 DEF RemoveCloneDeps, WithDeps
    <3>2. steps[i] \in Item
      OBVIOUS
    <3>3. WithDeps(steps[i], steps[i].deps) = steps[i]
      BY <3>2, ItemFields
    <3>4. d[i] = e(i)
      OBVIOUS
    <3> HIDE DEF d
    <3> QED
      BY <3>1, <3>3, <3>4
  <2>3. g = [i \in DOMAIN g |-> g[i]]
    <3>1. steps \in [1 .. Len(steps) -> Item]
      BY LenProperties
    <3> QED
      BY <3>1 DEF RemoveCloneDeps
  <2> HIDE DEF d
  <2> QED
    BY <2>1, <2>2, <2>3
<1>3. \A i \in 1 .. Len(steps) : d[i] = e(i)
  OBVIOUS
<1> HIDE DEF d
<1>4. /\ g \in Seq(Item) /\ Len(g) = Len(steps) /\ DOMAIN g = 1 .. Len(steps)
      /\ \A i \in 1 .. Len(steps) : Like(g[i], steps[i]) /\ g[i].deps = d[i]
  BY <1>1, <1>2, Rewritten
<1> QED
  BY <1>3, <1>4

\* The names of the containers' order: after the clone come services and steps,
\* up to the first that cannot be converted.
Off(m) == IF m.clone THEN 1 ELSE 0

LEMMA ConcatFacts ==
  ASSUME NEW S, NEW s \in Seq(S), NEW t \in Seq(S), NEW u, u = s \o t
  PROVE  /\ u \in Seq(S) /\ Len(u) = Len(s) + Len(t) /\ DOMAIN u = 1 .. Len(s) + Len(t)
         /\ Len(s) \in Nat /\ Len(t) \in Nat
         /\ \A i \in 1 .. Len(s) : u[i] = s[i]
         /\ \A i \in 1 .. Len(t) : u[Len(s) + i] = t[i]
<1>1. Len(s) \in Nat /\ Len(t) \in Nat
  BY LenProperties
<1>2. /\ u \in Seq(S) /\ Len(u) = Len(s) + Len(t)
      /\ \A i \in 1 .. Len(s) + Len(t) : u[i] = IF i <= Len(s) THEN s[i] ELSE t[i - Len(s)]
  BY ConcatProperties
<1>3. DOMAIN u = 1 .. Len(u)
  BY <1>2, LenProperties
<1> PICK m, n : m = Len(s) /\ n = Len(t)
  OBVIOUS
<1>4. m \in Nat /\ n \in Nat /\ \A i \in 1 .. m + n : u[i] = IF i <= m THEN s[i] ELSE t[i - m]
  BY <1>1, <1>2
<1>5. \A i \in 1 .. m : u[i] = s[i]
  BY ONLY <1>4
<1>6. ASSUME NEW i \in 1 .. n PROVE u[m + i] = t[i]
  <2>1. m + i \in 1 .. m + n /\ ~(m + i <= m) /\ (m + i) - m = i
    BY ONLY <1>4
  <2> QED
    BY <1>4, <2>1
<1> QED
  BY <1>1, <1>2, <1>3, <1>5, <1>6

LEMMA AllFacts ==
  ASSUME NEW m, Manifest(m)
  PROVE  /\ All(m) \in Seq(Item) /\ Len(All(m)) = Len(m.services) + Len(m.steps)
         /\ Len(m.services) \in Nat /\ Len(m.steps) \in Nat
         /\ \A i \in 1 .. Len(m.services) : All(m)[i] = m.services[i]
         /\ \A i \in 1 .. Len(m.steps) : All(m)[Len(m.services) + i] = m.steps[i]
<1>1. m.services \in Seq(Item) /\ m.steps \in Seq(Item)
  BY DEF Manifest
<1> PICK s, t : s = m.services /\ t = m.steps
  OBVIOUS
<1> PICK a : a = All(m)
  OBVIOUS
<1>2. a = s \o t /\ s \in Seq(Item) /\ t \in Seq(Item)
  BY <1>1 DEF All
<1>3. /\ a \in Seq(Item) /\ Len(a) = Len(s) + Len(t)
      /\ Len(s) \in Nat /\ Len(t) \in Nat
      /\ \A i \in 1 .. Len(s) : a[i] = s[i]
      /\ \A i \in 1 .. Len(t) : a[Len(s) + i] = t[i]
  BY ONLY <1>2, ConcatFacts
<1> QED
  BY <1>3

Detached(item) == [item EXCEPT !.detach = TRUE]

LEMMA DetachedFacts ==
  ASSUME NEW item \in Item
  PROVE  /\ Detached(item) \in Item
         /\ Detached(item).name = item.name /\ Detached(item).deps = item.deps
         /\ Detached(item).mounts = item.mounts
BY DEF Item, Detached

\* What createStep is called with.
Items(m) == Services(m) \o m.steps

LEMMA ItemsFacts ==
  ASSUME NEW m, Manifest(m), NEW items, items = Items(m)
  PROVE  /\ items \in Seq(Item) /\ Len(items) = Len(All(m))
         /\ \A i \in 1 .. Len(items) :
               /\ items[i].name = All(m)[i].name /\ items[i].deps = All(m)[i].deps /\ items[i].mounts = All(m)[i].mounts
               /\ i > Len(m.services) => items[i] = All(m)[i]
<1> PICK s, t : s = m.services /\ t = m.steps
  OBVIOUS
<1>1. s \in Seq(Item) /\ t \in Seq(Item)
  BY DEF Manifest
<1> PICK d : d = Services(m)
  OBVIOUS
<1>2. d \in Seq(Item) /\ Len(d) = Len(s) /\ \A i \in 1 .. Len(s) : d[i] = Detached(s[i])
  <2>1. d = [i \in 1 .. Len(s) |-> Detached(s[i])]
    BY <1>1 DEF Services, Detached
  <2>2. \A i \in 1 .. Len(s) : Detached(s[i]) \in Item
    BY <1>1, DetachedFacts
  <2> QED
    BY <1>1, <2>1, <2>2
<1>3. \A i \in 1 .. Len(s) : d[i].name = s[i].name /\ d[i].deps = s[i].deps /\ d[i].mounts = s[i].mounts
  BY <1>1, <1>2, DetachedFacts
<1> PICK a : a = All(m)
  OBVIOUS
<1>4. a = s \o t /\ items = d \o t
  BY DEF All, Items
<1>5. /\ a \in Seq(Item) /\ Len(a) = Len(s) + Len(t)
      /\ Len(s) \in Nat /\ Len(t) \in Nat
      /\ \A i \in 1 .. Len(s) : a[i] = s[i]
      /\ \A i \in 1 .. Len(t) : a[Len(s) + i] = t[i]
  BY ONLY <1>1, <1>4, ConcatFacts
<1>6. /\ items \in Seq(Item) /\ Len(items) = Len(s) + Len(t)
      /\ \A i \in 1 .. Len(s) : items[i] = d[i]
      /\ \A i \in 1 .. Len(t) : items[Len(s) + i] = t[i]
  <2>1. d \in Seq(Item) /\ t \in Seq(Item) /\ items = d \o t
    BY <1>1, <1>2, <1>4
  <2>2. /\ items \in Seq(Item) /\ Len(items) = Len(d) + Len(t)
        /\ \A i \in 1 .. Len(d) : items[i] = d[i]
        /\ \A i \in 1 .. Len(t) : items[Len(d) + i] = t[i]
    BY ONLY <2>1, ConcatFacts
  <2>3. Len(d) = Len(s)
    BY <1>2
  <2> QED
    BY ONLY <2>2, <2>3, Zenon
<1> PICK k, n : k = Len(s) /\ n = Len(t)
  OBVIOUS
<1>7. /\ k \in Nat /\ n \in Nat
      /\ \A i \in 1 .. k : items[i] = d[i] /\ a[i] = s[i]
      /\ \A i \in 1 .. n : items[k + i] = t[i] /\ a[k + i] = t[i]
      /\ \A i \in 1 .. k : d[i].name = s[i].name /\ d[i].deps = s[i].deps /\ d[i].mounts = s[i].mounts
  BY <1>3, <1>5, <1>6
<1>8. ASSUME NEW i \in 1 .. k + n
      PROVE  /\ items[i].name = a[i].name /\ items[i].deps = a[i].deps /\ items[i].mounts = a[i].mounts
             /\ i > k => items[i] = a[i]
  <2>1. CASE i \in 1 .. k
    BY ONLY <1>7, <2>1
  <2>2. CASE i \notin 1 .. k
    <3>1. i - k \in 1 .. n /\ k + (i - k) = i
      BY ONLY <2>2, <1>7, <1>8
    <3>2. items[k + (i - k)] = a[k + (i - k)]
      BY <3>1, <1>7
    <3> QED
      BY <3>1, <3>2
  <2> QED
    BY <2>1, <2>2
<1>9. Len(items) = k + n /\ Len(a) = k + n
  BY <1>5, <1>6
<1>10. items \in Seq(Item) /\ a = All(m) /\ k = Len(m.services)
  BY <1>6
<1> QED
  BY <1>8, <1>9, <1>10, Zenon

\* Where Compile stops.
LEMMA EndExists ==
  ASSUME NEW m, NEW n \in Nat, Stops(m) \subseteq 1 .. n
  PROVE  \E e \in 0 .. n : (\A i \in Stops(m) : e < i) /\ (e = n \/ e + 1 \in Stops(m))
<1>1. CASE Stops(m) = {}
  BY <1>1
<1>2. CASE Stops(m) # {}
  <2>1. Stops(m) \in SUBSET Nat
    OBVIOUS
  <2>2. PICK i \in Stops(m) : \A j \in Stops(m) : ~(j < i)
    BY <1>2, <2>1, Least
  <2>3. i - 1 \in 0 .. n /\ (i - 1) + 1 = i /\ \A j \in Stops(m) : i - 1 < j
    BY <2>2
  <2> QED
    BY <2>2, <2>3
<1> QED
  BY <1>1, <1>2

LEMMA CloneStepType ==
    /\ CloneStep \in Item /\ CloneStep.name = Clone /\ CloneStep.deps = {}
    /\ CloneStep.mounts = <<>>
<1>1. Clone \in Name /\ {} \in SUBSET Name /\ <<>> \in Seq([name : GivenName, path : Path])
  BY NameAssumption
<1>2. {"success", "failure"} \in SUBSET {"success", "failure", "killed"}
      /\ {} \in SUBSET {"success", "failure", "killed"}
  OBVIOUS
<1> QED
  BY <1>1, <1>2 DEF CloneStep, Item

LEMMA BuiltFacts ==
  ASSUME NEW m, Manifest(m)
  PROVE  \E e \in 0 .. Len(All(m)) :
            /\ Stops(m) = {} => e = Len(All(m))
            /\ Built(m) \in Seq(Item) /\ Len(Built(m)) = Off(m) + e
            /\ m.clone => Built(m)[1] = CloneStep
            /\ \A i \in 1 .. e :
                  /\ Built(m)[Off(m) + i].name = All(m)[i].name
                  /\ Built(m)[Off(m) + i].deps = All(m)[i].deps
                  /\ Built(m)[Off(m) + i].mounts = All(m)[i].mounts
                  /\ i > Len(m.services) => Built(m)[Off(m) + i] = All(m)[i]
<1> PICK items : items = Items(m)
  OBVIOUS
<1>0. /\ items \in Seq(Item) /\ Len(items) = Len(All(m))
      /\ \A i \in 1 .. Len(items) :
            /\ items[i].name = All(m)[i].name /\ items[i].deps = All(m)[i].deps /\ items[i].mounts = All(m)[i].mounts
            /\ i > Len(m.services) => items[i] = All(m)[i]
  <2>1. Manifest(m) /\ items = Items(m)
    OBVIOUS
  <2>2. ASSUME NEW i \in 1 .. Len(items)
        PROVE  /\ items[i].name = All(m)[i].name /\ items[i].deps = All(m)[i].deps /\ items[i].mounts = All(m)[i].mounts
               /\ i > Len(m.services) => items[i] = All(m)[i]
    BY ONLY <2>1, <2>2, ItemsFacts
  <2>3. items \in Seq(Item) /\ Len(items) = Len(All(m))
    BY ONLY <2>1, ItemsFacts
  <2> QED
    BY <2>2, <2>3, Zenon
<1>1. Len(items) \in Nat /\ \A i \in 1 .. Len(items) : items[i] \in Item
  BY <1>0
<1>2. Stops(m) \subseteq 1 .. Len(items)
  <2>1. All(m) \in Seq(Item)
    BY AllFacts
  <2>2. DOMAIN All(m) = 1 .. Len(All(m))
    BY <2>1
  <2> QED
    BY <1>0, <2>2 DEF Stops
<1> DEFINE End(n) == /\ \A i \in Stops(m) : n < i
                     /\ n = Len(items) \/ n + 1 \in Stops(m)
           e == CHOOSE n \in 0 .. Len(items) : End(n)
<1>3. e \in 0 .. Len(items) /\ End(e)
  <2>1. \E n \in 0 .. Len(items) : End(n)
    BY <1>1, <1>2, EndExists
  <2> QED
    BY <2>1
<1>4. Built(m) = (IF m.clone THEN <<CloneStep>> ELSE <<>>) \o SubSeq(items, 1, e)
  BY DEF Built, Items
<1> HIDE DEF e
<1> PICK head : head = IF m.clone THEN <<CloneStep>> ELSE <<>>
  OBVIOUS
<1> PICK rest : rest = SubSeq(items, 1, e)
  OBVIOUS
<1>5. rest \in Seq(Item) /\ Len(rest) = e /\ \A i \in 1 .. e : rest[i] = items[i]
  <2> PICK k \in Nat : k = e
    BY <1>1, <1>3
  <2>1. k <= Len(items) /\ \A i \in 1 .. k : items[i] \in Item
    BY <1>1, <1>3
  <2>2. /\ SubSeq(items, 1, k) \in Seq(Item)
        /\ Len(SubSeq(items, 1, k)) = IF 1 <= k THEN k - 1 + 1 ELSE 0
        /\ \A i \in 1 .. k - 1 + 1 : SubSeq(items, 1, k)[i] = items[1 + i - 1]
    BY ONLY <2>1, SubSeqProperties
  <2>3. rest = SubSeq(items, 1, k) /\ k = e
    OBVIOUS
  <2>4. /\ rest \in Seq(Item) /\ Len(rest) = IF 1 <= k THEN k - 1 + 1 ELSE 0
        /\ \A i \in 1 .. k - 1 + 1 : rest[i] = items[1 + i - 1]
    BY ONLY <2>2, <2>3, Zenon
  <2>5. k - 1 + 1 = k /\ \A i \in 1 .. k : 1 + i - 1 = i
    BY ONLY k \in Nat
  <2>6. Len(rest) = k
    BY ONLY <2>4, k \in Nat
  <2>7. \A i \in 1 .. k : rest[i] = items[i]
    BY ONLY <2>4, <2>5, Zenon
  <2> QED
    BY <2>3, <2>4, <2>6, <2>7
<1>6. head \in Seq(Item) /\ Len(head) = Off(m) /\ (m.clone => head[1] = CloneStep)
  BY CloneStepType DEF Off
<1> PICK b : b = Built(m)
  OBVIOUS
<1>7. /\ b \in Seq(Item) /\ Len(b) = Len(head) + Len(rest)
      /\ \A i \in 1 .. Len(head) : b[i] = head[i]
      /\ \A i \in 1 .. Len(rest) : b[Len(head) + i] = rest[i]
  <2>1. b = head \o rest /\ head \in Seq(Item) /\ rest \in Seq(Item)
    BY <1>4, <1>5, <1>6
  <2> QED
    BY ONLY <2>1, ConcatFacts
<1>8. m.clone => 1 \in 1 .. Len(head)
  BY <1>6 DEF Off
<1>9. \A i \in 1 .. e : b[Off(m) + i] = items[i]
  BY <1>5, <1>6, <1>7
<1>10. m.clone => b[1] = CloneStep
  BY <1>6, <1>7, <1>8
<1>11. e \in 0 .. Len(All(m)) /\ (Stops(m) = {} => e = Len(All(m)))
  BY <1>0, <1>3
<1>12. \A i \in 1 .. e : i \in 1 .. Len(items)
  BY <1>1, <1>3
<1>13. \A i \in 1 .. e :
          /\ b[Off(m) + i].name = All(m)[i].name
          /\ b[Off(m) + i].deps = All(m)[i].deps
          /\ b[Off(m) + i].mounts = All(m)[i].mounts
          /\ i > Len(m.services) => b[Off(m) + i] = All(m)[i]
  BY <1>0, <1>9, <1>12
<1>14. b \in Seq(Item) /\ Len(b) = Off(m) + e
  BY <1>5, <1>6, <1>7
<1> QED
  BY <1>10, <1>11, <1>13, <1>14

-----------------------------------------------------------------------------
(* Names and dependencies of what Compile returns *)

\* The names of the items before the i-th.
Before(items, i) == {items[j].name : j \in 1 .. i - 1}

\* Names are unique, and what an item depends on comes before it.
InOrder(items) ==
    \A i \in DOMAIN items :
        items[i].name \notin Before(items, i) /\ items[i].deps \subseteq Before(items, i)

\* The dependencies that Graph gives the i-th step.
NewDeps(m, steps, i) ==
    IF ~IsGraph(steps) THEN IF i = 1 THEN steps[i].deps ELSE {steps[i - 1].name}
    ELSE IF m.clone
    THEN IF steps[i].name = Clone \/ steps[i].deps # {} THEN steps[i].deps ELSE {Clone}
    ELSE IF Clone \in NamesOf(steps) \/ steps[i].deps # {Clone} THEN steps[i].deps ELSE {}

LEMMA GraphFacts ==
  ASSUME NEW m, NEW steps \in Seq(Item), NEW g, g = Graph(m, steps)
  PROVE  /\ g \in Seq(Item) /\ Len(g) = Len(steps) /\ DOMAIN g = 1 .. Len(steps)
         /\ \A i \in 1 .. Len(steps) : Like(g[i], steps[i]) /\ g[i].deps = NewDeps(m, steps, i)
<1>1. CASE ~IsGraph(steps)
  <2>1. g = ConfigureSerial(steps)
    BY <1>1 DEF Graph
  <2>2. /\ g \in Seq(Item) /\ Len(g) = Len(steps) /\ DOMAIN g = 1 .. Len(steps)
        /\ \A i \in 1 .. Len(steps) :
              /\ Like(g[i], steps[i])
              /\ g[i].deps = IF i = 1 THEN steps[i].deps ELSE {steps[i - 1].name}
    BY <2>1, SerialFacts, Zenon
  <2> QED
    BY <1>1, <2>2, Zenon DEF NewDeps
<1>2. CASE IsGraph(steps) /\ m.clone
  <2>1. g = ConfigureCloneDeps(steps)
    BY <1>2 DEF Graph
  <2> QED
    BY <1>2, <2>1, CloneDepsFacts DEF NewDeps
<1>3. CASE IsGraph(steps) /\ ~m.clone
  <2>1. g = RemoveCloneDeps(steps)
    BY <1>3 DEF Graph
  <2> QED
    BY <1>3, <2>1, RemoveFacts DEF NewDeps
<1> QED
  BY <1>1, <1>2, <1>3

\* The checks of the linter make the steps that Compile builds a list in order.
LEMMA BuiltInOrder ==
  ASSUME NEW m, Manifest(m), CheckStepsAccepts(m)
  PROVE  InOrder(Built(m))
<1> PICK a : a = All(m)
  OBVIOUS
<1> PICK b : b = Built(m)
  OBVIOUS
<1> PICK off : off = Off(m)
  OBVIOUS
<1>1. PICK e \in 0 .. Len(a) :
            /\ b \in Seq(Item) /\ Len(b) = off + e
            /\ m.clone => b[1] = CloneStep
            /\ \A i \in 1 .. e : b[off + i].name = a[i].name /\ b[off + i].deps = a[i].deps
  BY BuiltFacts
<1>2. Len(a) \in Nat /\ DOMAIN a = 1 .. Len(a)
  <2>1. a \in Seq(Item)
    BY AllFacts
  <2> QED
    BY <2>1
<1>3. e \in Nat /\ off \in {0, 1} /\ (m.clone <=> off = 1) /\ m.clone \in BOOLEAN
  BY <1>1, <1>2 DEF Off, Manifest
<1> DEFINE K(i) == {a[j].name : j \in 1 .. i} \cup IF m.clone THEN {Clone} ELSE {}
<1>4. \A i \in 1 .. e : a[i].name \notin K(i - 1) /\ a[i].deps \subseteq K(i) /\ a[i].name \notin a[i].deps
  <2>1. \A i \in 1 .. e : i \in DOMAIN a
    BY <1>1, <1>2
  <2> QED
    BY <2>1 DEF CheckStepsAccepts, CheckDeps, Known
<1>5. ASSUME NEW i \in 1 .. e
      PROVE  K(i - 1) = Before(b, off + i)
  <2>1. CASE m.clone
    <3>1. Before(b, 1 + i) = {b[j].name : j \in 1 .. i}
      BY DEF Before
    <3>2. b[1].name = Clone /\ \A j \in 1 .. i - 1 : b[1 + j].name = a[j].name
      BY <1>1, <1>3, <2>1, CloneStepType
    <3>3. ASSUME NEW x \in K(i - 1) PROVE x \in Before(b, 1 + i)
      <4>1. CASE x = Clone
        BY <3>1, <3>2, <4>1
      <4>2. CASE x # Clone
        <5>1. PICK j \in 1 .. i - 1 : x = a[j].name
          BY <3>3, <4>2
        <5>2. 1 + j \in 1 .. i /\ b[1 + j].name = x
          BY <3>2, <5>1
        <5> QED
          BY <3>1, <5>2
      <4> QED
        BY <4>1, <4>2
    <3>4. ASSUME NEW x \in Before(b, 1 + i) PROVE x \in K(i - 1)
      <4>1. PICK j \in 1 .. i : x = b[j].name
        BY <3>1, <3>4
      <4>2. CASE j = 1
        BY <2>1, <3>2, <4>1, <4>2
      <4>3. CASE j # 1
        <5>1. j - 1 \in 1 .. i - 1 /\ 1 + (j - 1) = j
          BY <4>3
        <5> QED
          BY <3>2, <4>1, <5>1
      <4> QED
        BY <4>2, <4>3
    <3> HIDE DEF K
    <3>5. off = 1
      BY <1>3, <2>1
    <3> QED
      BY <3>3, <3>4, <3>5
  <2>2. CASE ~m.clone
    <3>1. off = 0 /\ off + i = i
      BY <1>3, <2>2
    <3>2. \A j \in 1 .. i - 1 : j \in 1 .. e /\ off + j = j
      BY <1>3, <3>1
    <3>3. \A j \in 1 .. i - 1 : b[j].name = a[j].name
      BY <1>1, <3>2
    <3> QED
      BY <2>2, <3>1, <3>3 DEF Before
  <2> QED
    BY <2>1, <2>2
<1>6. ASSUME NEW i \in 1 .. e
      PROVE  b[off + i].name \notin Before(b, off + i) /\ b[off + i].deps \subseteq Before(b, off + i)
  <2>1. K(i) = K(i - 1) \cup {a[i].name}
    <3>1. 1 .. i = (1 .. i - 1) \cup {i}
      BY <1>3
    <3> QED
      BY <3>1
  <2> HIDE DEF K
  <2> QED
    BY <1>1, <1>4, <1>5, <2>1
<1>7. ASSUME NEW p \in 1 .. off + e, p \notin {off + i : i \in 1 .. e}
      PROVE  p = 1 /\ m.clone
  <2>1. CASE off = 1
    <3>1. p = 1 \/ (p - 1 \in 1 .. e /\ p = off + (p - 1))
      BY <1>3, <2>1
    <3> QED
      BY <1>3, <1>7, <2>1, <3>1
  <2>2. CASE off = 0
    <3>1. p \in 1 .. e /\ p = off + p
      BY <1>3, <2>2
    <3> QED
      BY <1>7, <3>1
  <2> QED
    BY <1>3, <2>1, <2>2
<1>8. ASSUME m.clone
      PROVE  b[1].name \notin Before(b, 1) /\ b[1].deps \subseteq Before(b, 1)
  BY <1>1, <1>8, CloneStepType DEF Before
<1>9. DOMAIN b = 1 .. off + e
  BY <1>1
<1> QED
  BY <1>6, <1>7, <1>8, <1>9 DEF InOrder

\* So is the graph that is made of them.
LEMMA GraphInOrder ==
  ASSUME NEW m, Manifest(m), CheckStepsAccepts(m), NEW g, g = Graph(m, Built(m))
  PROVE  InOrder(g)
<1> PICK b : b = Built(m)
  OBVIOUS
<1>1. b \in Seq(Item) /\ DOMAIN b = 1 .. Len(b) /\ (m.clone => b[1] = CloneStep) /\ Len(b) \in Nat
  BY BuiltFacts
<1>2. InOrder(b)
  BY BuiltInOrder
<1>3. /\ DOMAIN g = 1 .. Len(b)
      /\ \A i \in 1 .. Len(b) : Like(g[i], b[i]) /\ g[i].deps = NewDeps(m, b, i)
  BY <1>1, GraphFacts
<1>4. ASSUME NEW i \in 1 .. Len(b)
      PROVE  g[i].name \notin Before(g, i) /\ g[i].deps \subseteq Before(g, i)
  <2>1. Before(g, i) = Before(b, i) /\ g[i].name = b[i].name
    <3>1. \A j \in 1 .. i - 1 : j \in 1 .. Len(b)
      BY <1>1
    <3>2. \A j \in 1 .. Len(b) : g[j].name = b[j].name
      BY <1>3 DEF Like
    <3> QED
      BY <3>1, <3>2 DEF Before
  <2>2. b[i].name \notin Before(b, i) /\ b[i].deps \subseteq Before(b, i)
    BY <1>1, <1>2 DEF InOrder
  <2>3. g[i].deps \subseteq Before(b, i)
    <3>1. CASE ~IsGraph(b)
      <4>1. CASE i = 1
        BY <1>3, <2>2, <3>1, <4>1, Zenon DEF NewDeps
      <4>2. CASE i # 1
        <5>1. i - 1 \in 1 .. i - 1
          BY <4>2
        <5>2. b[i - 1].name \in Before(b, i)
          BY <5>1 DEF Before
        <5>3. g[i].deps = {b[i - 1].name}
          BY <1>3, <3>1, <4>2, Zenon DEF NewDeps
        <5> QED
          BY <5>2, <5>3, Zenon
      <4> QED
        BY <4>1, <4>2
    <3>2. CASE IsGraph(b) /\ m.clone
      <4>1. CASE b[i].name = Clone \/ b[i].deps # {}
        BY <1>3, <2>2, <3>2, <4>1, Zenon DEF NewDeps
      <4>2. CASE b[i].name # Clone /\ b[i].deps = {}
        <5>1. b[1].name = Clone
          BY <1>1, <3>2, CloneStepType
        <5>2. 1 \in 1 .. i - 1
          BY <4>2, <5>1
        <5>3. Clone \in Before(b, i)
          BY <5>1, <5>2 DEF Before
        <5> QED
          BY <1>3, <3>2, <4>2, <5>3, Zenon DEF NewDeps
      <4> QED
        BY <4>1, <4>2
    <3>3. CASE IsGraph(b) /\ ~m.clone
      <4>1. g[i].deps = b[i].deps \/ g[i].deps = {}
        BY <1>3, <3>3, Zenon DEF NewDeps
      <4> QED
        BY <2>2, <4>1
    <3> QED
      BY <3>1, <3>2, <3>3
  <2> QED
    BY <2>1, <2>2, <2>3
<1> QED
  BY <1>3, <1>4 DEF InOrder

\* What the invariant says of the steps that Compile returned.
LEMMA CompiledFacts ==
  ASSUME IInv, at = "compiled"
  PROVE  /\ spec.steps \in Seq(Item) /\ DOMAIN spec.steps = 1 .. Len(spec.steps)
         /\ DOMAIN spec.steps = DOMAIN Built(manifest)
         /\ \A i \in DOMAIN spec.steps : Like(spec.steps[i], Built(manifest)[i])
         /\ InOrder(spec.steps)
<1> PICK b : b = Built(manifest)
  OBVIOUS
<1> PICK g : g = spec.steps
  OBVIOUS
<1>1. Manifest(manifest) /\ CheckStepsAccepts(manifest)
  BY DEF IInv
<1>2. b \in Seq(Item) /\ DOMAIN b = 1 .. Len(b)
  BY <1>1, BuiltFacts
<1>3. g = Graph(manifest, b) \/ g = b
  BY DEF IInv, CompileInv
<1>4. CASE g = Graph(manifest, b)
  <2>1. InOrder(g)
    BY <1>1, <1>4, GraphInOrder
  <2>2. /\ g \in Seq(Item) /\ Len(g) = Len(b) /\ DOMAIN g = 1 .. Len(b)
        /\ \A i \in 1 .. Len(b) : Like(g[i], b[i]) /\ g[i].deps = NewDeps(manifest, b, i)
    BY <1>2, <1>4, GraphFacts
  <2> QED
    BY <1>2, <2>1, <2>2, Zenon
<1>5. CASE g = b
  <2>1. InOrder(g)
    BY <1>1, <1>5, BuiltInOrder
  <2>2. \A i \in 1 .. Len(b) : Like(b[i], b[i])
    BY <1>2, ItemFields
  <2> QED
    BY <1>2, <1>5, <2>1, <2>2, Zenon
<1> QED
  BY <1>3, <1>4, <1>5

\* Compile returns a spec of steps that are as the manifest has them but for
\* their dependencies, with one of the four policies for each, one of the four
\* transports, and tokens for names of the manifest.
THEOREM TypeCorrect == Spec => []TypeOK
<1>1. IInv => TypeOK
  <2> SUFFICES ASSUME IInv PROVE TypeOK
    OBVIOUS
  <2>1. ASSUME at = "compiled"
        PROVE  /\ spec.steps \in Seq(Item)
               /\ spec.transport \in {"file", "unix", "http", "other"}
               /\ spec.tokens \subseteq Name
               /\ spec.policies \in [DOMAIN spec.steps ->
                                       {"never", "always", "on-failure", "on-success"}]
    <3>1. spec.steps \in Seq(Item) /\ DOMAIN spec.steps = DOMAIN Built(manifest)
      BY <2>1, CompiledFacts
    <3>2. PICK listens \in BOOLEAN :
             /\ spec.transport = OutputTransport(opts, listens)
             /\ spec.tokens = Tokens(manifest, opts, OutputMode(opts, listens))
      BY <2>1 DEF IInv, CompileInv
    <3>3. opts.mode \in {"file", "auto", "unix", "http", "other"}
      BY DEF IInv, Opts
    <3>4. spec.transport \in {"file", "unix", "http", "other"}
      BY <3>2, <3>3 DEF OutputTransport, OutputMode, Wanted
    <3>5. spec.tokens \subseteq Name
      <4>1. All(manifest) \in Seq(Item)
        BY AllFacts DEF IInv
      <4>2. NamesOf(All(manifest)) \subseteq Name
        BY <4>1, ItemFields DEF NamesOf
      <4> QED
        BY <3>2, <4>2, NameAssumption DEF Tokens
    <3>6. spec.policies = [i \in DOMAIN Built(manifest) |->
                             RunPolicy(opts, manifest.clone /\ i = 1, Built(manifest)[i])]
      BY <2>1 DEF IInv, CompileInv
    <3>7. \A c, item : RunPolicy(opts, c, item)
                         \in {"never", "always", "on-failure", "on-success"}
      BY DEF RunPolicy
    <3>8. spec.policies \in [DOMAIN spec.steps ->
                               {"never", "always", "on-failure", "on-success"}]
      BY <3>1, <3>6, <3>7
    <3> QED
      BY <3>1, <3>4, <3>5, <3>8
  <2> QED
    BY <2>1 DEF TypeOK, IInv
<1> QED
  BY <1>1, Inductive, PTL

\* Whatever the linter lets through, the executor gets a graph it can run: names
\* are unique and a step depends on steps before it, whether Compile gave them a
\* clone, took it away, put them one after the other or stopped half-way.
THEOREM RunsInOrder == Spec => []GraphRunsInOrder
<1>1. IInv => GraphRunsInOrder
  <2> SUFFICES ASSUME IInv, at = "compiled"
               PROVE  \A i \in DOMAIN spec.steps :
                         /\ spec.steps[i].name \notin Before(spec.steps, i)
                         /\ spec.steps[i].deps \subseteq Before(spec.steps, i)
    BY DEF GraphRunsInOrder, Compiled, Before
  <2> QED
    BY CompiledFacts DEF InOrder
<1> QED
  BY <1>1, Inductive, PTL

\* The choice between the four policies is the truth table of when.status.
THEOREM AskedToRun == Spec => []RunsWhenAsked
<1>1. IInv => RunsWhenAsked
  <2> SUFFICES ASSUME IInv, at = "compiled",
                      NEW i \in DOMAIN spec.steps, NEW failed \in BOOLEAN,
                      NEW item, item = spec.steps[i], NEW policy, policy = spec.policies[i],
                      policy # "never",
                      Conditional(item) =>
                         StatusMatch(item, "failure") \/ StatusMatch(item, "success")
               PROVE  policy = "always" \/ policy = (IF failed THEN "on-failure" ELSE "on-success")
                        <=> IF Conditional(item)
                            THEN StatusMatch(item, IF failed THEN "failure" ELSE "success")
                            ELSE ~failed
    BY DEF RunsWhenAsked, Compiled
  <2> PICK built : built = Built(manifest)[i]
    OBVIOUS
  <2>1. i \in DOMAIN Built(manifest) /\ Like(item, built)
    BY CompiledFacts
  <2>2. spec.policies = [k \in DOMAIN Built(manifest) |->
                           RunPolicy(opts, manifest.clone /\ k = 1, Built(manifest)[k])]
    BY DEF IInv, CompileInv
  <2>3. policy = RunPolicy(opts, manifest.clone /\ i = 1, built)
    BY <2>1, <2>2
  <2>4. policy = IF IsRunAlways(built) THEN "always"
                 ELSE IF IsRunOnFailure(built) THEN "on-failure" ELSE "on-success"
    BY <2>3 DEF RunPolicy
  <2>5. /\ Conditional(built) <=> Conditional(item)
        /\ \A status : StatusMatch(built, status) <=> StatusMatch(item, status)
    BY <2>1 DEF Like, Conditional, StatusMatch
  <2> DEFINE C == Conditional(item)
             F == StatusMatch(item, "failure")
             S == StatusMatch(item, "success")
  <2>6. policy = IF C /\ F /\ S THEN "always" ELSE IF C /\ F THEN "on-failure" ELSE "on-success"
    BY <2>4, <2>5 DEF IsRunAlways, IsRunOnFailure
  <2>7. C => F \/ S
    OBVIOUS
  <2>8. CASE failed
    <3>1. StatusMatch(item, IF failed THEN "failure" ELSE "success") <=> F
      BY <2>8
    <3> HIDE DEF C, F, S
    <3>2. policy = "always" \/ policy = "on-failure" <=> IF C THEN F ELSE FALSE
      BY ONLY <2>6
    <3> QED
      BY <2>8, <3>1, <3>2 DEF C
  <2>9. CASE ~failed
    <3>1. StatusMatch(item, IF failed THEN "failure" ELSE "success") <=> S
      BY <2>9
    <3> HIDE DEF C, F, S
    <3>2. policy = "always" \/ policy = "on-success" <=> IF C THEN S ELSE TRUE
      BY ONLY <2>6, <2>7
    <3> QED
      BY <2>9, <3>1, <3>2 DEF C
  <2> QED
    BY <2>8, <2>9
<1> QED
  BY <1>1, Inductive, PTL

\* In a list without double names, a name finds its item.
LEMMA NamedFacts ==
  ASSUME NEW items \in Seq(Item),
         \A i, j \in DOMAIN items : items[i].name = items[j].name => i = j,
         NEW k \in DOMAIN items
  PROVE  /\ Named(items, items[k].name) = items[k]
         /\ items[k].name \in NamesOf(items)
         /\ DepsOf(items)[items[k].name] = items[k].deps
<1> DEFINE found == CHOOSE i \in DOMAIN items : items[i].name = items[k].name
<1>1. found \in DOMAIN items /\ items[found].name = items[k].name
  OBVIOUS
<1>2. found = k
  BY <1>1
<1>3. Named(items, items[k].name) = items[k]
  BY <1>2 DEF Named
<1>4. items[k].name \in NamesOf(items)
  BY DEF NamesOf
<1> QED
  BY <1>3, <1>4 DEF DepsOf

LEMMA InOrderUnique ==
  ASSUME NEW items \in Seq(Item), InOrder(items),
         NEW i \in DOMAIN items, NEW j \in DOMAIN items, items[i].name = items[j].name
  PROVE  i = j
<1>1. i \in Nat /\ j \in Nat /\ i > 0 /\ j > 0
  OBVIOUS
<1>2. ASSUME NEW k \in DOMAIN items, NEW l \in DOMAIN items, k < l
      PROVE  items[k].name # items[l].name
  <2>1. k \in 1 .. l - 1
    BY <1>2
  <2>2. items[k].name \in Before(items, l)
    BY <2>1 DEF Before
  <2> QED
    BY <2>2 DEF InOrder
<1> QED
  BY <1>1, <1>2

\* If the first of the items in order is the clone, and every other one waits
\* for something, then every other one waits for the clone.
LEMMA AllWaitForClone ==
  ASSUME NEW items \in Seq(Item), InOrder(items),
         1 \in DOMAIN items, items[1].name = Clone,
         \A i \in DOMAIN items : i # 1 => items[i].deps # {},
         NEW k \in DOMAIN items, k # 1
  PROVE  Clone \in Ancestors(DepsOf(items), items[k].name)
<1> DEFINE deps == DepsOf(items)
           T == {i \in DOMAIN items : i # 1 /\ Clone \notin Ancestors(deps, items[i].name)}
<1>1. SUFFICES ASSUME T # {} PROVE FALSE
  OBVIOUS
<1>2. T \in SUBSET Nat
  OBVIOUS
<1>3. PICK i \in T : \A j \in T : ~(j < i)
  BY <1>1, <1>2, Least
<1>4. i \in DOMAIN items /\ i # 1 /\ Clone \notin Ancestors(deps, items[i].name)
  BY <1>3
<1>5. PICK x : x \in items[i].deps /\ x \in Before(items, i)
  BY <1>4 DEF InOrder
<1>6. PICK j \in 1 .. i - 1 : x = items[j].name
  BY <1>5 DEF Before
<1>7. j \in DOMAIN items /\ j < i /\ j \notin T
  BY <1>2, <1>3, <1>4, <1>6
<1>8. /\ \A p, q \in DOMAIN items : items[p].name = items[q].name => p = q
      /\ IsFiniteSet(DOMAIN deps) /\ DOMAIN deps = NamesOf(items)
  BY InOrderUnique, NamesFinite
<1>9. deps[items[i].name] = items[i].deps /\ x \in DOMAIN deps
  BY <1>4, <1>6, <1>7, <1>8, NamedFacts
<1> HIDE DEF deps
<1>10. x \in Ancestors(deps, items[i].name)
  BY <1>5, <1>8, <1>9, AncestorsFacts
<1>11. Ancestors(deps, x) \subseteq Ancestors(deps, items[i].name)
  BY <1>8, <1>9, <1>10, AncestorsOfAncestors
<1>12. j # 1
  BY <1>4, <1>6, <1>10
<1>13. Clone \in Ancestors(deps, x)
  BY <1>6, <1>7, <1>12
<1> QED
  BY <1>4, <1>11, <1>13

\* No step and no service of a complete spec starts before the clone is done: not
\* only where Compile adds the dependency, but also where the step waits for
\* other steps alone.
THEOREM CloneFirst == Spec => []EverythingFollowsTheClone
<1>1. IInv => EverythingFollowsTheClone
  <2> SUFFICES ASSUME IInv, at = "compiled", spec.complete, manifest.clone,
                      NEW n \in NamesOf(spec.steps) \ {Clone}
               PROVE  Clone \in Ancestors(DepsOf(spec.steps), n)
    BY DEF EverythingFollowsTheClone, Compiled
  <2> PICK g : g = spec.steps
    OBVIOUS
  <2> PICK b : b = Built(manifest)
    OBVIOUS
  <2>1. g \in Seq(Item) /\ InOrder(g) /\ DOMAIN g = 1 .. Len(g)
    BY CompiledFacts
  <2>2. b \in Seq(Item) /\ DOMAIN b = 1 .. Len(b) /\ b[1] = CloneStep /\ Len(b) \in Nat
    BY BuiltFacts DEF IInv
  <2>3. g = Graph(manifest, b)
    BY DEF IInv, CompileInv
  <2>4. /\ Len(g) = Len(b) /\ DOMAIN g = 1 .. Len(b)
        /\ \A i \in 1 .. Len(b) : Like(g[i], b[i]) /\ g[i].deps = NewDeps(manifest, b, i)
    BY <2>2, <2>3, GraphFacts
  <2>5. PICK k \in 1 .. Len(b) : n = g[k].name
    BY <2>4 DEF NamesOf
  <2>6. 1 \in 1 .. Len(b) /\ g[1].name = Clone
    <3>1. 1 \in 1 .. Len(b)
      BY <2>2, <2>5
    <3>2. g[1].name = b[1].name
      BY <2>4, <3>1 DEF Like
    <3> QED
      BY <2>2, <3>1, <3>2, CloneStepType
  <2>7. k # 1
    BY <2>5, <2>6
  <2>8. ASSUME NEW i \in 1 .. Len(b), i # 1
        PROVE  g[i].deps # {}
    <3>1. g[i].name # Clone
      <4>1. i \in DOMAIN g /\ 1 \in DOMAIN g
        BY <2>4, <2>6
      <4> QED
        BY <2>1, <2>6, <2>8, <4>1, InOrderUnique
    <3>2. b[i].name # Clone
      BY <2>4, <3>1 DEF Like
    <3> QED
      BY <2>4, <2>8, <3>2, Zenon DEF NewDeps
  <2>9. Clone \in Ancestors(DepsOf(g), g[k].name)
    BY <2>1, <2>4, <2>6, <2>7, <2>8, AllWaitForClone
  <2> QED
    BY <2>5, <2>9
<1> QED
  BY <1>1, Inductive, PTL

\* Where nothing has dependencies, nothing has ancestors.
LEMMA NoAncestors ==
  ASSUME NEW deps, IsFiniteSet(DOMAIN deps), NEW s \in DOMAIN deps,
         \A x \in DOMAIN deps : deps[x] = {}
  PROVE  Ancestors(deps, s) = {}
<1>1. deps[s] \subseteq {} /\ Closed(deps, {})
  BY DEF Closed, Behind
<1> QED
  BY <1>1, AncestorsFacts

\* The k-th step of the manifest in a complete spec: what it has become, and that
\* it still waits for all it waited for, unless nothing in the spec waited.
LEMMA StepsKeepTheirDeps ==
  ASSUME NEW m, Manifest(m), CheckStepsAccepts(m), Stops(m) = {},
         NEW b, b = Built(m), NEW g, g = Graph(m, b), NEW k \in DOMAIN m.steps
  PROVE  \E p \in DOMAIN g :
            /\ Like(g[p], m.steps[k]) /\ p \in DOMAIN b
            /\ b[p].deps = m.steps[k].deps
            /\ IsGraph(b) => m.steps[k].deps \subseteq g[p].deps
<1> PICK a : a = All(m)
  OBVIOUS
<1> PICK s, t : s = m.services /\ t = m.steps
  OBVIOUS
<1> PICK off : off = Off(m)
  OBVIOUS
<1>1. /\ Len(a) = Len(s) + Len(t) /\ Len(s) \in Nat /\ Len(t) \in Nat
      /\ \A i \in 1 .. Len(t) : a[Len(s) + i] = t[i]
  BY AllFacts
<1>2. off \in {0, 1}
  BY DEF Off
<1>3. k \in 1 .. Len(t) /\ DOMAIN t = 1 .. Len(t)
  <2>1. t \in Seq(Item) /\ k \in DOMAIN t
    BY DEF Manifest
  <2> QED
    BY <2>1
<1>4. /\ b \in Seq(Item) /\ Len(b) = off + Len(a)
      /\ \A i \in 1 .. Len(a) :
            /\ b[off + i].name = a[i].name /\ b[off + i].deps = a[i].deps
            /\ i > Len(s) => b[off + i] = a[i]
  BY BuiltFacts
<1> PICK i : i = Len(s) + k
  OBVIOUS
<1> PICK p : p = off + i
  OBVIOUS
<1> PICK len : len = Len(a)
  OBVIOUS
<1>5. i \in 1 .. len /\ i > Len(s) /\ len \in Nat
  <2> PICK x, y : x = Len(s) /\ y = Len(t)
    OBVIOUS
  <2>1. x \in Nat /\ y \in Nat /\ len = x + y /\ i = x + k /\ k \in 1 .. y
    BY <1>1, <1>3, Zenon
  <2>2. i \in 1 .. len /\ i > x /\ len \in Nat
    BY ONLY <2>1
  <2> QED
    BY <2>2, Zenon
<1>6. b[p] = t[k]
  <2>1. a[i] = t[k]
    BY <1>1, <1>3, Zenon
  <2>2. b[off + i] = a[i]
    BY <1>4, <1>5, Zenon
  <2> QED
    BY <2>1, <2>2, Zenon
<1>7. p \in 1 .. Len(b)
  <2>1. Len(b) = off + len
    BY <1>4
  <2>2. off + i \in 1 .. off + len
    BY ONLY <1>2, <1>5
  <2> QED
    BY <2>1, <2>2, Zenon
<1>8. /\ DOMAIN g = 1 .. Len(b) /\ DOMAIN b = 1 .. Len(b)
      /\ \A j \in 1 .. Len(b) : Like(g[j], b[j]) /\ g[j].deps = NewDeps(m, b, j)
  BY <1>4, GraphFacts
<1>9. ASSUME IsGraph(b)
      PROVE  b[p].deps \subseteq g[p].deps
  <2>1. g[p].deps = NewDeps(m, b, p)
    BY <1>7, <1>8
  <2>2. CASE m.clone
    <3>1. g[p].deps = b[p].deps \/ b[p].deps = {}
      BY <1>9, <2>1, <2>2, Zenon DEF NewDeps
    <3> QED
      BY <3>1
  <2>3. CASE ~m.clone
    <3>1. InOrder(b)
      BY BuiltInOrder
    <3>2. b[p].deps \subseteq Before(b, p)
      BY <1>7, <1>8, <3>1 DEF InOrder
    <3>3. Before(b, p) \subseteq NamesOf(b)
      BY <1>7, <1>8 DEF Before, NamesOf
    <3>4. Clone \in NamesOf(b) \/ b[p].deps # {Clone}
      BY <3>2, <3>3
    <3>5. g[p].deps = b[p].deps
      BY <1>9, <2>1, <2>3, <3>4, Zenon DEF NewDeps
    <3> QED
      BY <3>5
  <2> QED
    BY <2>2, <2>3
<1>10. /\ p \in DOMAIN g /\ p \in DOMAIN b
       /\ Like(g[p], t[k]) /\ b[p].deps = t[k].deps
       /\ IsGraph(b) => t[k].deps \subseteq g[p].deps
  BY <1>6, <1>7, <1>8, <1>9
<1> QED
  BY <1>10

\* What the parser promised to a step that consumes an output, that the producer
\* comes before it and is waited for, is kept by the graph that the executor runs.
THEOREM ProducersFirst == Spec => []ConsumersFollowProducers
<1>1. IInv => ConsumersFollowProducers
  <2> SUFFICES ASSUME IInv, at = "compiled", spec.complete,
                      NEW i \in DOMAIN manifest.steps,
                      IsConsumer(manifest.steps[i]),
                      manifest.steps[i].source # manifest.steps[i].name
               PROVE  /\ manifest.steps[i].source
                           \in Ancestors(DepsOf(spec.steps), manifest.steps[i].name)
                      /\ ~Named(spec.steps, manifest.steps[i].source).detach
    BY DEF ConsumersFollowProducers, Compiled
  <2> PICK m : m = manifest
    OBVIOUS
  <2> PICK t : t = m.steps
    OBVIOUS
  <2> PICK producer : producer = t[i].source
    OBVIOUS
  <2> PICK g : g = spec.steps
    OBVIOUS
  <2> PICK b : b = Built(m)
    OBVIOUS
  <2>1. Manifest(m) /\ CheckStepsAccepts(m) /\ Stops(m) = {} /\ LintAccepts(m)
    BY DEF IInv, CompileInv
  <2>2. t \in Seq(Item) /\ i \in DOMAIN t
    BY <2>1 DEF Manifest
  <2>3. /\ \A j, k \in DOMAIN t : t[j].name = t[k].name => j = k
        /\ producer \in NamesOf(t)
        /\ ~Named(t, producer).detach
        /\ producer \in Ancestors(DepsOf(t), t[i].name)
    <3>1. Unique([k \in DOMAIN t |-> t[k].name])
      BY <2>1 DEF LintAccepts
    <3>2. \A k \in DOMAIN t :
             IsConsumer(t[k]) =>
                /\ t[k].source \in NamesOf(t)
                /\ ~Named(t, t[k].source).detach
                /\ DependsOn(t, t[k].name, t[k].source)
      BY <2>1, Zenon DEF LintAccepts
    <3>3. \A j, k \in DOMAIN t : t[j].name = t[k].name => j = k
      BY <3>1 DEF Unique
    <3>4. IsConsumer(t[i]) /\ t[i].source # t[i].name
      OBVIOUS
    <3> QED
      BY <2>2, <3>2, <3>3, <3>4, Zenon DEF DependsOn
  <2>4. PICK j \in DOMAIN t : producer = t[j].name
    BY <2>3 DEF NamesOf
  <2>5. ~t[j].detach
    BY <2>2, <2>3, <2>4, NamedFacts
  <2>6. g = Graph(m, b)
    BY DEF IInv, CompileInv
  <2>7. g \in Seq(Item) /\ InOrder(g)
    BY CompiledFacts
  <2>8. \A k \in DOMAIN t : \E p \in DOMAIN g :
           /\ Like(g[p], t[k]) /\ p \in DOMAIN b
           /\ b[p].deps = t[k].deps
           /\ IsGraph(b) => t[k].deps \subseteq g[p].deps
    BY <2>1, <2>6, StepsKeepTheirDeps
  <2>9. \A p, q \in DOMAIN g : g[p].name = g[q].name => p = q
    BY <2>7, InOrderUnique
  <2>10. ~Named(g, producer).detach
    <3>1. PICK p \in DOMAIN g : Like(g[p], t[j])
      BY <2>8
    <3>2. g[p].name = producer /\ ~g[p].detach
      BY <2>4, <2>5, <3>1 DEF Like
    <3> QED
      BY <2>7, <2>9, <3>2, NamedFacts
  <2> DEFINE was == DepsOf(t)
             is  == DepsOf(g)
  <2>11. /\ IsFiniteSet(DOMAIN was) /\ DOMAIN was = NamesOf(t)
         /\ IsFiniteSet(DOMAIN is) /\ DOMAIN is = NamesOf(g)
    BY <2>2, <2>7, NamesFinite
  <2>12. \A k \in DOMAIN t : was[t[k].name] = t[k].deps /\ t[k].name \in DOMAIN was
    BY <2>2, <2>3, <2>11, NamedFacts
  <2>13. \A x \in DOMAIN was : \E k \in DOMAIN t : x = t[k].name
    BY <2>11 DEF NamesOf
  <2>14. \A p \in DOMAIN g : is[g[p].name] = g[p].deps /\ g[p].name \in DOMAIN is
    BY <2>7, <2>9, <2>11, NamedFacts
  <2> HIDE DEF was, is
  <2>15. IsGraph(b)
    <3>1. SUFFICES ASSUME ~IsGraph(b) PROVE FALSE
      OBVIOUS
    <3>2. ASSUME NEW x \in DOMAIN was PROVE was[x] = {}
      <4>1. PICK k \in DOMAIN t : x = t[k].name
        BY <2>13, <3>2
      <4>2. PICK p \in DOMAIN b : b[p].deps = t[k].deps
        BY <2>8
      <4>3. b[p].deps = {}
        BY <3>1, <4>2 DEF IsGraph
      <4> QED
        BY <2>12, <4>1, <4>2, <4>3
    <3>3. t[i].name \in DOMAIN was
      BY <2>2, <2>12
    <3>4. Ancestors(was, t[i].name) = {}
      BY <2>11, <3>2, <3>3, NoAncestors
    <3> QED
      BY <2>3, <3>4 DEF was
  <2>16. \A x \in DOMAIN was : x \in DOMAIN is /\ was[x] \subseteq is[x]
    <3> SUFFICES ASSUME NEW x \in DOMAIN was PROVE x \in DOMAIN is /\ was[x] \subseteq is[x]
      OBVIOUS
    <3>1. PICK k \in DOMAIN t : x = t[k].name
      BY <2>13
    <3>2. PICK p \in DOMAIN g : Like(g[p], t[k]) /\ t[k].deps \subseteq g[p].deps
      BY <2>8, <2>15
    <3>3. g[p].name = x
      BY <3>1, <3>2 DEF Like
    <3> QED
      BY <2>12, <2>14, <3>1, <3>2, <3>3
  <2>17. t[i].name \in DOMAIN was
    BY <2>2, <2>12
  <2>18. Ancestors(was, t[i].name) \subseteq Ancestors(is, t[i].name)
    BY <2>11, <2>16, <2>17, MoreAncestors
  <2> QED
    BY <2>3, <2>10, <2>18 DEF was, is
<1> QED
  BY <1>1, Inductive, PTL

\* The first half of EndsMeet, the part that does not speak of mounts.
TransportsMeet ==
    Compiled /\ Enabled(opts) /\ opts.mode # "other" =>
        IF spec.transport = "file" THEN spec.told = "directory" /\ spec.tokens = {}
        ELSE /\ spec.told = spec.transport
             /\ opts.service
             /\ NamesOf(spec.steps) \subseteq spec.tokens
             /\ spec.transport = "unix" => spec.listening
             /\ spec.transport = "http" => opts.url

\* What the containers are told, what the executor goes by and what the output
\* service was given agree in every setting of the compiler, also when the socket
\* could not be opened: the fallback reaches all three.
THEOREM Agreed == Spec => []TransportsMeet
<1>1. IInv => TransportsMeet
  <2> SUFFICES ASSUME IInv, at = "compiled", Enabled(opts), opts.mode # "other"
               PROVE  IF spec.transport = "file"
                      THEN spec.told = "directory" /\ spec.tokens = {}
                      ELSE /\ spec.told = spec.transport
                           /\ opts.service
                           /\ NamesOf(spec.steps) \subseteq spec.tokens
                           /\ spec.transport = "unix" => spec.listening
                           /\ spec.transport = "http" => opts.url
    BY DEF TransportsMeet, Compiled
  <2>1. PICK listens \in BOOLEAN :
           /\ spec.transport = OutputTransport(opts, listens)
           /\ spec.listening = (TriesUnix(opts) /\ listens)
           /\ spec.tokens = Tokens(manifest, opts, OutputMode(opts, listens))
           /\ spec.told = Told(opts, OutputMode(opts, listens))
    BY DEF IInv, CompileInv
  <2> PICK mode : mode = OutputMode(opts, listens)
    OBVIOUS
  <2>2. Manifest(manifest) /\ opts.mode \in {"file", "auto", "unix", "http", "other"}
    BY DEF IInv, Opts
  <2>3. Wanted(opts) \in {"file", "unix", "http"}
    BY <2>2 DEF Wanted
  <2>4. mode = IF Wanted(opts) = "unix"
               THEN IF TriesUnix(opts) /\ listens THEN "unix" ELSE "file"
               ELSE IF Wanted(opts) = "http"
               THEN IF opts.service /\ opts.url THEN "http" ELSE "file" ELSE "file"
    BY <2>3 DEF OutputMode
  <2>5. /\ mode = "file" \/ (mode = "unix" /\ TriesUnix(opts) /\ listens)
                        \/ (mode = "http" /\ opts.service /\ opts.url)
    BY <2>4
  <2>6. spec.transport = mode /\ spec.told = Told(opts, mode) /\ spec.tokens = Tokens(manifest, opts, mode)
    BY <2>1 DEF OutputTransport
  <2>7. CASE mode = "file"
    BY <2>6, <2>7 DEF Told, Tokens
  <2>8. CASE mode # "file"
    <3>1. spec.told = mode
      BY <2>6, <2>8 DEF Told
    <3>2. opts.service
      BY <2>5, <2>8 DEF TriesUnix
    <3>3. (mode = "unix" => spec.listening) /\ (mode = "http" => opts.url)
      BY <2>1, <2>5
    <3>4. spec.tokens = NamesOf(All(manifest)) \cup IF manifest.clone THEN {Clone} ELSE {}
      BY <2>6, <2>8, <3>2 DEF Tokens
    <3>5. ASSUME NEW i \in DOMAIN spec.steps
          PROVE  spec.steps[i].name \in spec.tokens
      <4> PICK b : b = Built(manifest)
        OBVIOUS
      <4> PICK a : a = All(manifest)
        OBVIOUS
      <4>1. i \in DOMAIN b /\ spec.steps[i].name = b[i].name
        BY <3>5, CompiledFacts DEF Like
      <4>2. PICK e \in 0 .. Len(a) :
               /\ b \in Seq(Item) /\ Len(b) = Off(manifest) + e
               /\ manifest.clone => b[1] = CloneStep
               /\ \A j \in 1 .. e : b[Off(manifest) + j].name = a[j].name
        BY <2>2, BuiltFacts
      <4>3. DOMAIN a = 1 .. Len(a) /\ Len(a) \in Nat
        <5>1. a \in Seq(Item)
          BY <2>2, AllFacts
        <5> QED
          BY <5>1
      <4>4. e \in Nat /\ \A j \in 1 .. e : j \in DOMAIN a
        BY <4>2, <4>3
      <4>5. DOMAIN b = 1 .. Off(manifest) + e
        BY <4>2
      <4>6. CASE manifest.clone /\ i = 1
        BY <3>4, <4>1, <4>2, <4>6, CloneStepType
      <4>7. CASE ~(manifest.clone /\ i = 1)
        <5>1. Off(manifest) = IF manifest.clone THEN 1 ELSE 0
          BY DEF Off
        <5>2. i - Off(manifest) \in 1 .. e /\ Off(manifest) + (i - Off(manifest)) = i
          BY <4>1, <4>4, <4>5, <4>7, <5>1
        <5>3. b[i].name = a[i - Off(manifest)].name
          BY <4>2, <5>2
        <5>4. a[i - Off(manifest)].name \in NamesOf(a)
          BY <4>4, <5>2 DEF NamesOf
        <5> QED
          BY <3>4, <4>1, <5>3, <5>4
      <4> QED
        BY <4>6, <4>7
    <3>6. NamesOf(spec.steps) \subseteq spec.tokens
      BY <3>5 DEF NamesOf
    <3> QED
      BY <2>6, <2>8, <3>1, <3>2, <3>3, <3>6
  <2> QED
    BY <2>7, <2>8
<1> QED
  BY <1>1, Inductive, PTL

-----------------------------------------------------------------------------
(* Lists: what is in them, and what stays apart when they are joined         *)

RangeOf(s) == {s[i] : i \in DOMAIN s}

IsList(s) == s \in Seq(RangeOf(s))

\* A sequence is a list of what is in it.
LEMMA ListFacts ==
  ASSUME NEW S, NEW s \in Seq(S)
  PROVE  IsList(s) /\ RangeOf(s) \subseteq S
<1>1. Len(s) \in Nat /\ s \in [1 .. Len(s) -> S]
  BY LenProperties
<1>2. s \in [1 .. Len(s) -> RangeOf(s)]
  BY <1>1 DEF RangeOf
<1>3. s \in Seq(RangeOf(s))
  BY <1>1, <1>2
<1> QED
  BY <1>1, <1>3 DEF IsList, RangeOf

\* A function on 1 .. n is a list of length n.
LEMMA FunctionList ==
  ASSUME NEW n \in Nat, NEW S, NEW f \in [1 .. n -> S]
  PROVE  IsList(f) /\ Len(f) = n /\ RangeOf(f) \subseteq S
<1>1. f \in Seq(S) /\ Len(f) = n
  OBVIOUS
<1> QED
  BY <1>1, ListFacts

\* Nothing is in the empty list.
LEMMA EmptyList == IsList(<<>>) /\ RangeOf(<<>>) = {}
BY DEF IsList, RangeOf

\* One thing is in a list of one.
LEMMA OneList ==
  ASSUME NEW x
  PROVE  IsList(<<x>>) /\ RangeOf(<<x>>) = {x} /\ Len(<<x>>) = 1
<1>1. <<x>>[1] = x
  OBVIOUS
<1>2. Len(<<x>>) = 1
  OBVIOUS
<1>3. <<x>> \in Seq({x})
  OBVIOUS
<1> PICK s : s = <<x>>
  OBVIOUS
<1>4. DOMAIN s = 1 .. 1
  BY <1>2, <1>3, LenProperties
<1>5. DOMAIN s = {1}
  BY <1>4
<1>6. RangeOf(s) = {x}
  BY <1>1, <1>5 DEF RangeOf
<1>7. IsList(s)
  BY <1>3, ListFacts
<1> QED
  BY <1>2, <1>6, <1>7

\* Two lists joined: what is where in them.
LEMMA JoinFacts ==
  ASSUME NEW s, NEW t, IsList(s), IsList(t), NEW u, u = s \o t
  PROVE  /\ IsList(u) /\ RangeOf(u) = RangeOf(s) \cup RangeOf(t)
         /\ Len(u) = Len(s) + Len(t) /\ DOMAIN u = 1 .. Len(s) + Len(t)
         /\ Len(s) \in Nat /\ Len(t) \in Nat
         /\ DOMAIN s = 1 .. Len(s) /\ DOMAIN t = 1 .. Len(t)
         /\ \A i \in 1 .. Len(s) : u[i] = s[i]
         /\ \A i \in 1 .. Len(t) : u[Len(s) + i] = t[i]
<1> DEFINE S == RangeOf(s) \cup RangeOf(t)
<1>1. s \in Seq(S) /\ t \in Seq(S)
  <2>1. /\ Len(s) \in Nat /\ s \in [1 .. Len(s) -> RangeOf(s)]
        /\ Len(t) \in Nat /\ t \in [1 .. Len(t) -> RangeOf(t)]
    BY LenProperties DEF IsList
  <2> HIDE DEF S
  <2> PICK m, n : m = Len(s) /\ n = Len(t)
    OBVIOUS
  <2>2. RangeOf(s) \subseteq S /\ RangeOf(t) \subseteq S
    BY DEF S
  <2>3. m \in Nat /\ n \in Nat /\ s \in [1 .. m -> S] /\ t \in [1 .. n -> S]
    BY <2>1, <2>2
  <2>4. Seq(S) = UNION {[1 .. k -> S] : k \in Nat}
    BY SeqDef
  <2> QED
    BY <2>3, <2>4, Zenon
<1> HIDE DEF S
<1>2. /\ u \in Seq(S) /\ Len(u) = Len(s) + Len(t) /\ DOMAIN u = 1 .. Len(s) + Len(t)
      /\ Len(s) \in Nat /\ Len(t) \in Nat
      /\ \A i \in 1 .. Len(s) : u[i] = s[i]
      /\ \A i \in 1 .. Len(t) : u[Len(s) + i] = t[i]
  BY <1>1, ConcatFacts
<1>3. IsList(u)
  BY <1>2, ListFacts
<1>4. DOMAIN s = 1 .. Len(s) /\ DOMAIN t = 1 .. Len(t)
  BY <1>1, LenProperties
<1> PICK m, n : m = Len(s) /\ n = Len(t)
  OBVIOUS
<1>5. /\ m \in Nat /\ n \in Nat /\ DOMAIN u = 1 .. m + n /\ DOMAIN s = 1 .. m /\ DOMAIN t = 1 .. n
      /\ \A i \in 1 .. m : u[i] = s[i]
      /\ \A i \in 1 .. n : u[m + i] = t[i]
  BY <1>2, <1>4
<1>6. RangeOf(u) \subseteq RangeOf(s) \cup RangeOf(t)
  <2> SUFFICES ASSUME NEW i \in 1 .. m + n PROVE u[i] \in RangeOf(s) \cup RangeOf(t)
    BY <1>5 DEF RangeOf
  <2>1. CASE i \in 1 .. m
    BY <1>5, <2>1 DEF RangeOf
  <2>2. CASE i \notin 1 .. m
    <3>1. i - m \in 1 .. n /\ m + (i - m) = i
      BY <1>5, <2>2
    <3>2. u[i] = t[i - m]
      BY <1>5, <3>1
    <3> QED
      BY <1>5, <3>1, <3>2 DEF RangeOf
  <2> QED
    BY <2>1, <2>2
<1>7. RangeOf(s) \subseteq RangeOf(u)
  <2>1. \A i \in 1 .. m : i \in 1 .. m + n
    BY <1>5
  <2> QED
    BY <1>5, <2>1 DEF RangeOf
<1>8. RangeOf(t) \subseteq RangeOf(u)
  <2>1. \A i \in 1 .. n : m + i \in 1 .. m + n
    BY <1>5
  <2> QED
    BY <1>5, <2>1 DEF RangeOf
<1> QED
  BY <1>2, <1>3, <1>4, <1>6, <1>7, <1>8

\* No two at one path.
PathsOf(s) == {s[i].path : i \in DOMAIN s}
Apart(s)   == \A i, j \in DOMAIN s : s[i].path = s[j].path => i = j

\* Joined lists keep apart what each keeps apart, if they share no path.
LEMMA JoinApart ==
  ASSUME NEW s, NEW t, IsList(s), IsList(t), NEW u, u = s \o t
  PROVE  /\ PathsOf(u) = PathsOf(s) \cup PathsOf(t)
         /\ Apart(u) <=> Apart(s) /\ Apart(t) /\ PathsOf(s) \cap PathsOf(t) = {}
<1> PICK m, n : m = Len(s) /\ n = Len(t)
  OBVIOUS
<1>1. /\ m \in Nat /\ n \in Nat /\ DOMAIN u = 1 .. m + n /\ DOMAIN s = 1 .. m /\ DOMAIN t = 1 .. n
      /\ \A i \in 1 .. m : u[i] = s[i]
      /\ \A i \in 1 .. n : u[m + i] = t[i]
  BY JoinFacts
<1>2. RangeOf(u) = RangeOf(s) \cup RangeOf(t)
  BY JoinFacts
<1>3. \A x : PathsOf(x) = {e.path : e \in RangeOf(x)}
  BY DEF PathsOf, RangeOf
<1>4. PathsOf(u) = PathsOf(s) \cup PathsOf(t)
  BY <1>2, <1>3
<1>5. \A i \in 1 .. m : i \in 1 .. m + n
  BY <1>1
<1>6. \A i \in 1 .. n : m + i \in 1 .. m + n
  BY <1>1
<1>7. ASSUME Apart(u)
      PROVE  Apart(s) /\ Apart(t) /\ PathsOf(s) \cap PathsOf(t) = {}
  <2>1. Apart(s)
    BY <1>1, <1>5, <1>7 DEF Apart
  <2>0. \A k, l \in 1 .. m + n : u[k].path = u[l].path => k = l
    BY <1>1, <1>7 DEF Apart
  <2>2. ASSUME NEW i \in 1 .. n, NEW j \in 1 .. n, t[i].path = t[j].path
        PROVE  i = j
    <3> PICK k, l : k = m + i /\ l = m + j
      OBVIOUS
    <3>1. k \in 1 .. m + n /\ l \in 1 .. m + n /\ u[k] = t[i] /\ u[l] = t[j]
      BY <1>1, <1>6
    <3>2. k = l
      BY <2>0, <2>2, <3>1, Zenon
    <3> QED
      BY <1>1, <3>2
  <2>3. ASSUME NEW i \in 1 .. m, NEW j \in 1 .. n, s[i].path = t[j].path
        PROVE  FALSE
    <3> PICK l : l = m + j
      OBVIOUS
    <3>1. i \in 1 .. m + n /\ l \in 1 .. m + n /\ u[i] = s[i] /\ u[l] = t[j]
      BY <1>1, <1>5, <1>6
    <3>2. i = l
      BY <2>0, <2>3, <3>1, Zenon
    <3> QED
      BY <1>1, <3>2
  <2> QED
    BY <1>1, <2>1, <2>2, <2>3 DEF Apart, PathsOf
<1>8. ASSUME Apart(s), Apart(t), PathsOf(s) \cap PathsOf(t) = {},
             NEW i \in 1 .. m + n, NEW j \in 1 .. m + n, u[i].path = u[j].path
      PROVE  i = j
  <2>1. ASSUME NEW k \in 1 .. m + n
        PROVE  \/ k \in 1 .. m /\ u[k] = s[k]
               \/ k - m \in 1 .. n /\ u[k] = t[k - m]
    <3>1. CASE k \in 1 .. m
      BY <1>1, <3>1
    <3>2. CASE k \notin 1 .. m
      <4>1. k - m \in 1 .. n /\ m + (k - m) = k
        BY <1>1, <3>2
      <4>2. u[m + (k - m)] = t[k - m]
        BY <1>1, <4>1
      <4> QED
        BY <4>1, <4>2
    <3> QED
      BY <3>1, <3>2
  <2>2. CASE i \in 1 .. m /\ u[i] = s[i] /\ j \in 1 .. m /\ u[j] = s[j]
    BY <1>1, <1>8, <2>2 DEF Apart
  <2>3. CASE i - m \in 1 .. n /\ u[i] = t[i - m] /\ j - m \in 1 .. n /\ u[j] = t[j - m]
    <3> PICK k, l : k = i - m /\ l = j - m
      OBVIOUS
    <3>1. k \in 1 .. n /\ l \in 1 .. n /\ t[k].path = t[l].path
      BY <1>8, <2>3
    <3>2. \A x, y \in 1 .. n : t[x].path = t[y].path => x = y
      BY <1>1, <1>8 DEF Apart
    <3>3. k = l
      BY <3>1, <3>2, Zenon
    <3> QED
      BY <1>1, <3>3
  <2>4. \A x \in 1 .. m, y \in 1 .. n : s[x].path # t[y].path
    BY <1>1, <1>8 DEF PathsOf
  <2> QED
    BY <1>8, <2>1, <2>2, <2>3, <2>4
<1>9. Apart(s) /\ Apart(t) /\ PathsOf(s) \cap PathsOf(t) = {} => Apart(u)
  BY <1>1, <1>8 DEF Apart
<1> QED
  BY <1>4, <1>7, <1>9

\* What Kept keeps.
Keeps(s, keep, len, upTo) ==
    /\ upTo[0] = <<>>
    /\ \A n \in 1 .. len :
          upTo[n] = IF n \in keep THEN Append(upTo[n - 1], s[n]) ELSE upTo[n - 1]

\* Kept goes through the list place by place.
LEMMA KeptSteps ==
  ASSUME NEW s, NEW keep, Len(s) \in Nat
  PROVE  \E upTo : Keeps(s, keep, Len(s), upTo) /\ Kept(s, keep) = upTo[Len(s)]
<1> PICK len \in Nat : len = Len(s)
  OBVIOUS
<1> DEFINE More(n, q) == IF n \in keep THEN Append(q, s[n]) ELSE q
           Good(l) == \E f : /\ DOMAIN f = 0 .. l
                             /\ f[0] = <<>>
                             /\ \A i \in 1 .. l : f[i] = More(i, f[i - 1])
           T == {l \in Nat : ~Good(l)}
           Body(f) == [n \in 0 .. len |-> IF n = 0 THEN <<>> ELSE More(n, f[n - 1])]
<1> HIDE DEF More
<1>1. T = {}
  <2>1. SUFFICES ASSUME T # {} PROVE FALSE
    OBVIOUS
  <2>2. PICK l \in T : \A k \in T : ~(k < l)
    BY <2>1, Least
  <2>3. l # 0
    <3>1. Good(0)
      <4> DEFINE f == [i \in 0 .. 0 |-> <<>>]
      <4>1. DOMAIN f = 0 .. 0 /\ f[0] = <<>> /\ \A i \in 1 .. 0 : f[i] = More(i, f[i - 1])
        OBVIOUS
      <4> QED
        BY <4>1
    <3> QED
      BY <3>1, <2>2
  <2>4. l \in Nat /\ l - 1 \in Nat /\ l - 1 < l
    BY <2>2, <2>3
  <2>5. Good(l - 1)
    BY <2>2, <2>4
  <2>6. PICK f : /\ DOMAIN f = 0 .. l - 1
                 /\ f[0] = <<>>
                 /\ \A i \in 1 .. l - 1 : f[i] = More(i, f[i - 1])
    BY <2>5
  <2> DEFINE g == [i \in 0 .. l |-> IF i = l THEN More(l, f[l - 1]) ELSE f[i]]
  <2>7. DOMAIN g = 0 .. l /\ g[0] = <<>>
    BY <2>3, <2>4, <2>6
  <2>8. \A i \in 1 .. l : g[i] = More(i, g[i - 1])
    <3> SUFFICES ASSUME NEW i \in 1 .. l PROVE g[i] = More(i, g[i - 1])
      OBVIOUS
    <3>1. i - 1 \in 0 .. l /\ i - 1 # l /\ g[i - 1] = f[i - 1]
      BY <2>4
    <3>2. CASE i = l
      BY <3>1, <3>2, <2>4
    <3>3. CASE i # l
      <4>1. i \in 1 .. l - 1 /\ g[i] = f[i]
        BY <3>3, <2>4
      <4> QED
        BY <4>1, <3>1, <2>6
    <3> QED
      BY <3>2, <3>3
  <2> HIDE DEF g
  <2>9. Good(l)
    BY <2>7, <2>8
  <2> QED
    BY <2>2, <2>9
<1>2. PICK f : /\ DOMAIN f = 0 .. len
               /\ f[0] = <<>>
               /\ \A i \in 1 .. len : f[i] = More(i, f[i - 1])
  BY <1>1
<1> DEFINE h == [i \in 0 .. len |-> f[i]]
<1>3. \A i \in 0 .. len : i # 0 => i \in 1 .. len /\ i - 1 \in 0 .. len
  OBVIOUS
<1>4. h = Body(h)
  BY <1>2, <1>3, Zenon
<1> HIDE DEF h
<1>5. \E x : x = Body(x)
  BY <1>4
<1> DEFINE S == CHOOSE x : x = Body(x)
<1>6. S = Body(S)
  BY <1>5
<1>7. Kept(s, keep) = S[len]
  BY DEF Kept, More
<1> HIDE DEF S
<1>8. DOMAIN S = 0 .. len
  BY <1>6
<1>9. \A i \in 0 .. len : S[i] = IF i = 0 THEN <<>> ELSE More(i, S[i - 1])
  BY <1>6
<1>10. 0 \in 0 .. len /\ \A i \in 1 .. len : i \in 0 .. len /\ i # 0
  OBVIOUS
<1>11. S[0] = <<>> /\ \A i \in 1 .. len : S[i] = More(i, S[i - 1])
  BY <1>9, <1>10, Zenon
<1>12. Keeps(s, keep, len, S)
  BY <1>11, Zenon DEF More, Keeps
<1> QED
  BY <1>7, <1>12, Zenon

\* Kept keeps what stands at the places to keep, and nothing else.
LEMMA KeptFacts ==
  ASSUME NEW S, NEW s \in Seq(S), NEW keep \in SUBSET DOMAIN s
  PROVE  /\ Kept(s, keep) \in Seq(S)
         /\ RangeOf(Kept(s, keep)) = {s[i] : i \in keep}
<1> PICK len : len = Len(s)
  OBVIOUS
<1>1. len \in Nat /\ DOMAIN s = 1 .. len
  BY LenProperties
<1>0. Len(s) \in Nat
  BY <1>1
<1>2. \E f : Keeps(s, keep, Len(s), f) /\ Kept(s, keep) = f[Len(s)]
  BY ONLY <1>0, KeptSteps
<1> PICK f : Keeps(s, keep, len, f) /\ Kept(s, keep) = f[len]
  BY <1>2, Zenon
<1>6. /\ f[0] = <<>> /\ Kept(s, keep) = f[len]
      /\ \A n \in 1 .. len : /\ n \in keep => f[n] = Append(f[n - 1], s[n])
                             /\ n \notin keep => f[n] = f[n - 1]
  BY Zenon DEF Keeps
<1> DEFINE P(n) == f[n] \in Seq(S) /\ RangeOf(f[n]) = {s[i] : i \in keep \cap 1 .. n}
           T == {n \in 0 .. len : ~P(n)}
<1>3. T = {}
  <2>1. SUFFICES ASSUME T # {} PROVE FALSE
    OBVIOUS
  <2>2. T \in SUBSET Nat
    OBVIOUS
  <2>3. PICK n \in T : \A k \in T : ~(k < n)
    BY <2>1, <2>2, Least
  <2>4. CASE n = 0
    <3>1. P(0)
      BY <1>6, EmptyList
    <3> QED
      BY <2>3, <2>4, <3>1
  <2>5. CASE n # 0
    <3>1. n \in 1 .. len /\ n - 1 \in 0 .. len /\ n - 1 < n
      BY <2>3, <2>5
    <3>2. f[n - 1] \in Seq(S) /\ RangeOf(f[n - 1]) = {s[i] : i \in keep \cap 1 .. n - 1}
      BY <2>3, <3>1
    <3>3. 1 .. n = (1 .. n - 1) \cup {n}
      BY <3>1
    <3> PICK q, r : q = f[n - 1] /\ r = f[n]
      OBVIOUS
    <3>4. CASE n \in keep
      <4>0. s[n] \in S
        BY <1>1, <3>1
      <4>1. r = Append(q, s[n]) /\ s[n] \in S
        BY <1>6, <3>1, <3>4, <4>0, Zenon
      <4>2. /\ r \in Seq(S) /\ DOMAIN r = 1 .. Len(q) + 1 /\ DOMAIN q = 1 .. Len(q) /\ Len(q) \in Nat
            /\ r[Len(q) + 1] = s[n]
            /\ \A i \in 1 .. Len(q) : r[i] = q[i]
        BY <3>2, <4>1
      <4> PICK m \in Nat : m = Len(q)
        BY <4>2
      <4>3. 1 .. m + 1 = (1 .. m) \cup {m + 1}
        OBVIOUS
      <4>6. /\ DOMAIN r = 1 .. m + 1 /\ DOMAIN q = 1 .. m /\ r[m + 1] = s[n]
            /\ \A i \in 1 .. m : r[i] = q[i]
        BY <4>2
      <4>4. RangeOf(r) = RangeOf(q) \cup {s[n]}
        BY ONLY <4>3, <4>6 DEF RangeOf
      <4>5. {s[i] : i \in keep \cap 1 .. n} = {s[i] : i \in keep \cap 1 .. n - 1} \cup {s[n]}
        BY <3>3, <3>4
      <4> QED
        BY <2>3, <3>2, <4>2, <4>4, <4>5
    <3>5. CASE n \notin keep
      <4>1. r = q
        BY <1>6, <3>1, <3>5
      <4>2. keep \cap 1 .. n = keep \cap 1 .. n - 1
        BY <3>3, <3>5
      <4> QED
        BY <2>3, <3>2, <4>1, <4>2
    <3> QED
      BY <3>4, <3>5
  <2> QED
    BY <2>4, <2>5
<1>7. len \in 0 .. len
  BY <1>1
<1>4. P(len)
  BY <1>3, <1>7, Zenon
<1>5. keep \cap 1 .. len = keep
  BY <1>1
<1> QED
  BY <1>4, <1>5, <1>6

-----------------------------------------------------------------------------
(* Volumes are found by name                                                 *)

\* v is the only one of its name in R.
Sole(R, v) == v \in R /\ \A w \in R : w.name = v.name => w = v

\* What a lookup finds is in the list, has the name and is the first that has it.
LEMMA LookupFacts ==
  ASSUME NEW V, IsList(V), NEW name, Declared(V, name)
  PROVE  \E i \in DOMAIN V : /\ LookupVolume(V, name) = V[i] /\ V[i].name = name
                             /\ \A j \in 1 .. i - 1 : V[j].name # name
<1> DEFINE First(i) == V[i].name = name /\ \A j \in 1 .. i - 1 : V[j].name # name
           T == {i \in DOMAIN V : V[i].name = name}
<1> PICK n : n = Len(V)
  OBVIOUS
<1>1. n \in Nat /\ DOMAIN V = 1 .. n
  BY LenProperties DEF IsList
<1>2. T \in SUBSET Nat /\ T # {}
  BY <1>1 DEF Declared
<1>3. PICK i \in T : \A j \in T : ~(j < i)
  BY <1>2, Least
<1>4. First(i)
  <2>1. ASSUME NEW j \in 1 .. i - 1 PROVE V[j].name # name
    <3>1. j < i /\ j \in DOMAIN V
      BY <1>1
    <3> QED
      BY <1>3, <3>1
  <2> QED
    BY <2>1
<1>5. First(CHOOSE k \in DOMAIN V : First(k)) /\ (CHOOSE k \in DOMAIN V : First(k)) \in DOMAIN V
  <2> HIDE DEF First
  <2> QED
    BY <1>4
<1>6. LookupVolume(V, name) = V[CHOOSE k \in DOMAIN V : First(k)]
  BY DEF LookupVolume
<1> QED
  BY <1>5, <1>6

\* A volume that is the only one of its name is the one a lookup finds.
LEMMA LookupSole ==
  ASSUME NEW V, IsList(V), NEW v, Sole(RangeOf(V), v)
  PROVE  Declared(V, v.name) /\ LookupVolume(V, v.name) = v
<1>1. Declared(V, v.name)
  BY DEF Sole, RangeOf, Declared
<1>2. PICK i \in DOMAIN V : LookupVolume(V, v.name) = V[i] /\ V[i].name = v.name
  BY <1>1, LookupFacts
<1> QED
  BY <1>1, <1>2 DEF Sole, RangeOf

\* V begins with p.
Begins(V, p) == \A k \in DOMAIN p : k \in DOMAIN V /\ V[k] = p[k]

\* So is one that is the only one of its name in the beginning of the list.
LEMMA LookupFirst ==
  ASSUME NEW V, NEW p, IsList(V), IsList(p), Begins(V, p), NEW v, Sole(RangeOf(p), v)
  PROVE  Declared(V, v.name) /\ LookupVolume(V, v.name) = v
<1> PICK m, n : m = Len(p) /\ n = Len(V)
  OBVIOUS
<1>1. /\ m \in Nat /\ n \in Nat /\ DOMAIN V = 1 .. n /\ DOMAIN p = 1 .. m
      /\ \A i \in 1 .. m : i \in 1 .. n /\ V[i] = p[i]
  BY LenProperties DEF IsList, Begins
<1>0. IsList(V)
  OBVIOUS
<1>2. PICK k \in 1 .. m : p[k] = v
  BY <1>1 DEF Sole, RangeOf
<1>3. k \in DOMAIN V /\ V[k] = v
  BY <1>1, <1>2
<1>4. Declared(V, v.name)
  BY <1>3 DEF Declared
<1>5. \E i \in DOMAIN V : /\ LookupVolume(V, v.name) = V[i] /\ V[i].name = v.name
                         /\ \A j \in 1 .. i - 1 : V[j].name # v.name
  <2> PICK name : name = v.name
    OBVIOUS
  <2>1. \E i \in DOMAIN V : /\ LookupVolume(V, name) = V[i] /\ V[i].name = name
                           /\ \A j \in 1 .. i - 1 : V[j].name # name
    <3>1. Declared(V, name)
      BY <1>4
    <3> QED
      BY ONLY <1>0, <3>1, LookupFacts
  <2> QED
    BY <2>1
<1> PICK i \in DOMAIN V : /\ LookupVolume(V, v.name) = V[i] /\ V[i].name = v.name
                          /\ \A j \in 1 .. i - 1 : V[j].name # v.name
  BY <1>5, Zenon
<1>6. i \in 1 .. m
  <2>1. k \notin 1 .. i - 1
    BY <1>3
  <2>2. i \in 1 .. n /\ m \in Nat /\ n \in Nat /\ k \in 1 .. m
    BY <1>1, <1>2
  <2> QED
    BY ONLY <2>1, <2>2
<1>7. V[i] \in RangeOf(p)
  BY <1>1, <1>6 DEF RangeOf
<1> QED
  BY <1>4, <1>7 DEF Sole

-----------------------------------------------------------------------------
(* The two lists of a container                                              *)

\* No volume is for both lists; one of a known kind is for one of them.
LEMMA OneOfTheLists ==
  ASSUME NEW v
  PROVE  /\ ~(InBinds(v) /\ InMounts(v))
         /\ v.kind \in VolumeKind => InBinds(v) \/ InMounts(v)
BY DEF InBinds, InMounts, IsBindMount, IsFileBindMount, IsDataVolume, IsDevice,
       VolumeKind, HostKind

\* The mounts whose volume is known, and the volume.
Found(V, M)     == {k \in DOMAIN M : Declared(V, M[k].name)}
VolumeOf(V, M, k) == LookupVolume(V, M[k].name)

\* What the entry e of a HostConfig is.
Entry(V, M, h, e) ==
    LET v == VolumeOf(V, M, e[2])
    IN  /\ e = <<e[1], e[2]>> /\ e[2] \in Found(V, M)
        /\ h[e].path = M[e[2]].path /\ h[e].volume = v
        /\ \/ e[1] = "Binds" /\ InBinds(v) /\ h[e].ro = FALSE
           \/ /\ e[1] = "Mounts" /\ InMounts(v)
              /\ h[e].ro = ((IsBindMount(v) \/ IsNamedPipe(v)) /\ v.ro)

\* Every entry is a mount whose volume is known, and every such mount has one.
LEMMA HostConfigFacts ==
  ASSUME NEW V, NEW M, NEW h, h = HostConfig(V, M)
  PROVE  /\ \A e \in DOMAIN h : Entry(V, M, h, e)
         /\ \A k \in Found(V, M) :
               VolumeOf(V, M, k).kind \in VolumeKind => \E e \in DOMAIN h : e[2] = k
<1> DEFINE B == {"Binds"} \X {k \in Found(V, M) : InBinds(VolumeOf(V, M, k))}
           C == {"Mounts"} \X {k \in Found(V, M) : InMounts(VolumeOf(V, M, k))}
<1>1. h = [e \in B \cup C |->
             IF e[1] = "Binds" THEN ToBind(VolumeOf(V, M, e[2]), M[e[2]].path)
             ELSE ToMount(VolumeOf(V, M, e[2]), M[e[2]].path)]
  BY DEF HostConfig, Found, VolumeOf
<1> HIDE DEF B, C
<1>2. DOMAIN h = B \cup C
  BY <1>1
<1>3. ASSUME NEW e \in B
      PROVE  /\ e = <<e[1], e[2]>> /\ e[1] = "Binds" /\ e[2] \in Found(V, M)
             /\ InBinds(VolumeOf(V, M, e[2]))
             /\ h[e] = ToBind(VolumeOf(V, M, e[2]), M[e[2]].path)
  BY <1>1 DEF B
<1>4. ASSUME NEW e \in C
      PROVE  /\ e = <<e[1], e[2]>> /\ e[1] = "Mounts" /\ e[2] \in Found(V, M)
             /\ InMounts(VolumeOf(V, M, e[2]))
             /\ h[e] = ToMount(VolumeOf(V, M, e[2]), M[e[2]].path)
  <2>1. /\ e = <<e[1], e[2]>> /\ e[1] = "Mounts" /\ e[2] \in Found(V, M)
        /\ InMounts(VolumeOf(V, M, e[2]))
    BY DEF C
  <2>2. e[1] # "Binds"
    BY <2>1
  <2> QED
    BY <1>1, <2>1, <2>2
<1>5. \A v, p : ToBind(v, p).path = p /\ ToBind(v, p).volume = v /\ ToBind(v, p).ro = FALSE
  BY DEF ToBind
<1>6. \A v, p : /\ ToMount(v, p).path = p /\ ToMount(v, p).volume = v
                /\ ToMount(v, p).ro = ((IsBindMount(v) \/ IsNamedPipe(v)) /\ v.ro)
  BY DEF ToMount
<1>7. ASSUME NEW k \in Found(V, M), VolumeOf(V, M, k).kind \in VolumeKind
      PROVE  \E e \in DOMAIN h : e[2] = k
  <2>1. InBinds(VolumeOf(V, M, k)) \/ InMounts(VolumeOf(V, M, k))
    BY <1>7, OneOfTheLists
  <2>2. CASE InBinds(VolumeOf(V, M, k))
    <3>1. <<"Binds", k>> \in B /\ <<"Binds", k>>[2] = k
      BY <2>2 DEF B
    <3> QED
      BY <1>2, <3>1
  <2>3. CASE InMounts(VolumeOf(V, M, k))
    <3>1. <<"Mounts", k>> \in C /\ <<"Mounts", k>>[2] = k
      BY <2>3 DEF C
    <3> QED
      BY <1>2, <3>1
  <2> QED
    BY <2>1, <2>2, <2>3
<1>8. ASSUME NEW e \in DOMAIN h PROVE Entry(V, M, h, e)
  <2>1. CASE e \in B
    BY <1>3, <1>5, <2>1 DEF Entry
  <2>2. CASE e \in C
    BY <1>4, <1>6, <2>2 DEF Entry
  <2> QED
    BY <1>2, <2>1, <2>2
<1> QED
  BY <1>7, <1>8

\* A mount is in one of the lists only.
LEMMA OneEntry ==
  ASSUME NEW V, NEW M, NEW h, h = HostConfig(V, M),
         NEW d \in DOMAIN h, NEW e \in DOMAIN h, d[2] = e[2]
  PROVE  d = e
<1>1. Entry(V, M, h, d) /\ Entry(V, M, h, e)
  BY HostConfigFacts
<1>2. \/ d[1] = "Binds" /\ InBinds(VolumeOf(V, M, d[2]))
      \/ d[1] = "Mounts" /\ InMounts(VolumeOf(V, M, d[2]))
  BY <1>1 DEF Entry
<1>3. \/ e[1] = "Binds" /\ InBinds(VolumeOf(V, M, d[2]))
      \/ e[1] = "Mounts" /\ InMounts(VolumeOf(V, M, d[2]))
  BY <1>1 DEF Entry
<1>4. d[1] = e[1]
  BY <1>2, <1>3, OneOfTheLists
<1>5. d = <<d[1], d[2]>> /\ e = <<e[1], e[2]>>
  BY <1>1, Zenon DEF Entry
<1> QED
  BY <1>4, <1>5, Zenon

\* Where M mounts that name at that path.
Sites(M, name, path) == {k \in DOMAIN M : M[k].name = name /\ M[k].path = path}

\* A volume has as many entries at a path as the step mounts it there.
LEMMA Counted ==
  ASSUME NEW V, IsList(V), NEW M, IsList(M), NEW h, h = HostConfig(V, M), NEW path,
         NEW v, v.kind \in VolumeKind, Declared(V, v.name), LookupVolume(V, v.name) = v
  PROVE  Cardinality({e \in DOMAIN h : h[e].path = path /\ h[e].volume \in {v}})
           = Cardinality(Sites(M, v.name, path))
<1> DEFINE E == {e \in DOMAIN h : h[e].path = path /\ h[e].volume \in {v}}
           S == Sites(M, v.name, path)
           Of(k) == CHOOSE e \in DOMAIN h : e[2] = k
           f == [k \in S |-> Of(k)]
<1>1. IsFiniteSet(S)
  <2> PICK l : l = Len(M)
    OBVIOUS
  <2>1. DOMAIN M = 1 .. l /\ l \in Nat
    BY LenProperties DEF IsList
  <2>4. IsFiniteSet(1 .. l)
    <3>1. 1 \in Int /\ l \in Int
      BY <2>1
    <3> QED
      BY ONLY <3>1, FS_Interval
  <2>2. IsFiniteSet(DOMAIN M)
    BY <2>1, <2>4
  <2>3. S \in SUBSET DOMAIN M
    BY DEF Sites
  <2> QED
    BY <2>2, <2>3, FS_Subset
<1>2. ASSUME NEW k \in S PROVE Of(k) \in E /\ Of(k)[2] = k
  <2>1. k \in Found(V, M) /\ VolumeOf(V, M, k) = v /\ M[k].path = path
    BY DEF Sites, Found, VolumeOf
  <2>0. \A l \in Found(V, M) : VolumeOf(V, M, l).kind \in VolumeKind => \E e \in DOMAIN h : e[2] = l
    BY HostConfigFacts
  <2>2. \E e \in DOMAIN h : e[2] = k
    BY <2>0, <2>1
  <2>3. Of(k) \in DOMAIN h /\ Of(k)[2] = k
    BY <2>2
  <2>4. h[Of(k)].path = M[k].path /\ h[Of(k)].volume = VolumeOf(V, M, k)
    <3>1. Entry(V, M, h, Of(k))
      BY <2>3, HostConfigFacts
    <3> QED
      BY <2>3, <3>1, Zenon DEF Entry
  <2> QED
    BY <2>1, <2>3, <2>4
<1>3. ASSUME NEW e \in E PROVE e[2] \in S /\ Of(e[2]) = e
  <2>1. /\ e \in DOMAIN h /\ h[e].path = path /\ h[e].volume = v
        /\ e[2] \in Found(V, M) /\ h[e].path = M[e[2]].path /\ h[e].volume = VolumeOf(V, M, e[2])
    <3>1. e \in DOMAIN h /\ h[e].path = path /\ h[e].volume = v
      OBVIOUS
    <3>2. Entry(V, M, h, e)
      BY <3>1, HostConfigFacts
    <3> QED
      BY <3>1, <3>2, Zenon DEF Entry
  <2>2. Declared(V, M[e[2]].name) /\ LookupVolume(V, M[e[2]].name) = v
    BY <2>1 DEF Found, VolumeOf
  <2>3. M[e[2]].name = v.name
    BY <2>2, LookupFacts
  <2>4. e[2] \in S
    BY <2>1, <2>3 DEF Sites, Found
  <2>5. Of(e[2]) \in DOMAIN h /\ Of(e[2])[2] = e[2]
    BY <2>1
  <2>6. Of(e[2]) = e
    BY <2>1, <2>5, OneEntry
  <2> QED
    BY <2>4, <2>6
<1> HIDE DEF E, S, Of
<1>4. f \in Bijection(S, E)
  <2>1. f \in [S -> E]
    BY <1>2
  <2>2. \A k, l \in S : f[k] = f[l] => k = l
    BY <1>2
  <2>3. \A e \in E : \E k \in S : f[k] = e
    BY <1>3
  <2> QED
    BY <2>1, <2>2, <2>3 DEF Bijection, Injection, Surjection, IsInjective
<1>5. ExistsBijection(S, E)
  BY <1>4 DEF ExistsBijection
<1> QED
  BY <1>1, <1>5, FS_Bijection DEF E, S

\* Nothing in s has that name.
Lacks(s, name) == \A x \in RangeOf(s) : x.name # name

\* Joining a list without that name changes nothing.
LEMMA SitesOfFirst ==
  ASSUME NEW s, NEW t, IsList(s), IsList(t), NEW name, NEW path, Lacks(t, name)
  PROVE  Sites(s \o t, name, path) = Sites(s, name, path)
<1> PICK u : u = s \o t
  OBVIOUS
<1> PICK m, n : m = Len(s) /\ n = Len(t)
  OBVIOUS
<1>1. /\ m \in Nat /\ n \in Nat /\ DOMAIN u = 1 .. m + n /\ DOMAIN s = 1 .. m /\ DOMAIN t = 1 .. n
      /\ \A i \in 1 .. m : u[i] = s[i]
      /\ \A i \in 1 .. n : u[m + i] = t[i]
  BY JoinFacts
<1>2. ASSUME NEW i \in 1 .. m + n, i \notin 1 .. m PROVE u[i].name # name
  <2> PICK k : k = i - m
    OBVIOUS
  <2>1. k \in 1 .. n /\ m + k = i
    BY <1>1, <1>2
  <2>2. u[i] = t[k] /\ t[k] \in RangeOf(t)
    BY <1>1, <2>1 DEF RangeOf
  <2> QED
    BY <2>2 DEF Lacks
<1>3. \A i \in 1 .. m : i \in 1 .. m + n
  BY <1>1
<1> QED
  BY <1>1, <1>2, <1>3 DEF Sites

One(S) == \E x : S = {x}

\* A name that the first list lacks is where the second has it.
LEMMA SitesOfLast ==
  ASSUME NEW s, NEW t, IsList(s), IsList(t), NEW name, NEW path,
         Lacks(s, name), One(Sites(t, name, path))
  PROVE  One(Sites(s \o t, name, path))
<1> PICK g : Sites(t, name, path) = {g}
  BY DEF One
<1> PICK u : u = s \o t
  OBVIOUS
<1> PICK m, n : m = Len(s) /\ n = Len(t)
  OBVIOUS
<1>1. /\ m \in Nat /\ n \in Nat /\ DOMAIN u = 1 .. m + n /\ DOMAIN s = 1 .. m /\ DOMAIN t = 1 .. n
      /\ \A i \in 1 .. m : u[i] = s[i]
      /\ \A i \in 1 .. n : u[m + i] = t[i]
  BY JoinFacts
<1>2. g \in 1 .. n /\ t[g].name = name /\ t[g].path = path
  BY <1>1 DEF Sites
<1> PICK l : l = m + g
  OBVIOUS
<1>3. l \in 1 .. m + n /\ u[l] = t[g]
  BY <1>1, <1>2
<1>4. ASSUME NEW i \in Sites(u, name, path) PROVE i = l
  <2>1. i \in 1 .. m + n /\ u[i].name = name /\ u[i].path = path
    BY <1>1 DEF Sites
  <2>2. i \notin 1 .. m
    <3>1. \A j \in 1 .. m : u[j] \in RangeOf(s)
      BY <1>1 DEF RangeOf
    <3> QED
      BY <2>1, <3>1 DEF Lacks
  <2> PICK k : k = i - m
    OBVIOUS
  <2>3. k \in 1 .. n /\ m + k = i
    BY <1>1, <2>1, <2>2
  <2>4. u[i] = t[k]
    BY <1>1, <2>3
  <2>5. k \in Sites(t, name, path)
    BY <1>1, <2>1, <2>3, <2>4 DEF Sites
  <2>6. k = g
    BY <2>5
  <2> QED
    BY <2>3, <2>6
<1>5. l \in Sites(u, name, path)
  BY <1>1, <1>2, <1>3 DEF Sites
<1>6. Sites(u, name, path) = {l}
  BY <1>4, <1>5
<1> QED
  BY <1>6 DEF One

-----------------------------------------------------------------------------
(* Compile's volumes                                                         *)

IsGlobal(x) == x.kind \in HostKind /\ x.ro \in BOOLEAN

\* The global volumes are those of the configuration or the output directory, and
\* none is at /drone/outputs.
LEMMA GlobalsFacts ==
  ASSUME NEW o \in Opts, NEW gs, gs = Globals(o)
  PROVE  /\ IsList(gs)
         /\ \A g \in DOMAIN gs :
               /\ IsGlobal(gs[g])
               /\ gs[g].path # <<"drone", "outputs">>
               /\ \/ \E h \in DOMAIN o.globals : gs[g] = o.globals[h]
                  \/ gs[g].path = OutputTarget(o)
<1> DEFINE shared == IF o.shared
                     THEN <<[kind |-> "dir", path |-> OutputTarget(o), ro |-> FALSE,
                             host |-> HostBase]>>
                     ELSE <<>>
<1> PICK own : own = o.globals
  OBVIOUS
<1> PICK more : more = shared
  OBVIOUS
<1> PICK all : all = own \o more
  OBVIOUS
<1> PICK target : target = OutputTarget(o)
  OBVIOUS
<1>1. own \in Seq([kind : HostKind, path : Path, ro : BOOLEAN, host : Path])
  BY DEF Opts
<1>2. IsList(own) /\ \A x \in RangeOf(own) : IsGlobal(x)
  <2> PICK R : R = [kind : HostKind, path : Path, ro : BOOLEAN, host : Path]
    OBVIOUS
  <2>1. own \in Seq(R)
    BY <1>1
  <2>2. IsList(own) /\ RangeOf(own) \subseteq R
    BY ONLY <2>1, ListFacts
  <2>3. \A x \in R : IsGlobal(x)
    BY DEF IsGlobal
  <2> QED
    BY <2>2, <2>3
<1>3. IsList(more) /\ \A x \in RangeOf(more) : IsGlobal(x) /\ x.path = target
  <2> PICK x : x = [kind |-> "dir", path |-> target, ro |-> FALSE, host |-> HostBase]
    OBVIOUS
  <2>1. IsGlobal(x) /\ x.path = target
    BY DEF IsGlobal, HostKind
  <2>2. more = IF o.shared THEN <<x>> ELSE <<>>
    OBVIOUS
  <2>3. CASE o.shared
    <3>1. IsList(<<x>>) /\ RangeOf(<<x>>) = {x}
      BY OneList
    <3> QED
      BY <2>1, <2>2, <2>3, <3>1
  <2>4. CASE ~o.shared
    BY <2>2, <2>4, EmptyList
  <2> QED
    BY <2>3, <2>4
<1>4. IsList(own) /\ IsList(more)
  BY <1>2, <1>3
<1>5. IsList(all) /\ RangeOf(all) = RangeOf(own) \cup RangeOf(more)
  BY ONLY <1>4, all = own \o more, JoinFacts
<1> PICK S : S = RangeOf(all)
  OBVIOUS
<1>6. all \in Seq(S)
  BY <1>5 DEF IsList
<1> DEFINE keep == {i \in DOMAIN all : all[i].path # <<"drone", "outputs">>}
<1>7. gs = Kept(all, keep)
  BY DEF Globals
<1>8. keep \in SUBSET DOMAIN all
  OBVIOUS
<1> PICK k : k = keep
  OBVIOUS
<1>9. k \in SUBSET DOMAIN all /\ gs = Kept(all, k)
  BY <1>7, <1>8
<1>10. gs \in Seq(S) /\ RangeOf(gs) = {all[i] : i \in k}
  BY ONLY <1>6, <1>9, KeptFacts
<1>12. IsList(gs)
  BY <1>10, ListFacts
<1>11. ASSUME NEW g \in DOMAIN gs
       PROVE  /\ IsGlobal(gs[g])
              /\ gs[g].path # <<"drone", "outputs">>
              /\ \/ \E h \in DOMAIN o.globals : gs[g] = o.globals[h]
                 \/ gs[g].path = OutputTarget(o)
  <2>1. gs[g] \in RangeOf(gs)
    BY DEF RangeOf
  <2>2. PICK i \in k : gs[g] = all[i]
    BY <1>10, <2>1
  <2>3. gs[g].path # <<"drone", "outputs">>
    BY <2>2
  <2>4. gs[g] \in RangeOf(own) \/ gs[g] \in RangeOf(more)
    <3>1. all[i] \in RangeOf(all)
      BY <1>9 DEF RangeOf
    <3> QED
      BY <1>5, <2>2, <3>1
  <2>5. CASE gs[g] \in RangeOf(own)
    BY <1>2, <2>3, <2>5 DEF RangeOf
  <2>6. CASE gs[g] \in RangeOf(more)
    BY <1>3, <2>3, <2>6
  <2> QED
    BY <2>4, <2>5, <2>6
<1> QED
  BY <1>11, <1>12

Mountable(v) == v.kind \in VolumeKind /\ v.ro \in BOOLEAN

\* The g-th global volume and its mount.
GlobalAt(g, global, v, m) ==
    /\ v.name = <<"global", g>> /\ Mountable(v) /\ v.host = global.host
    /\ m = Mount(<<"global", g>>, global.path)

\* The lists of the global volumes and of their mounts go with each other.
LEMMA GlobalVolumesFacts ==
  ASSUME NEW o \in Opts, NEW gs, gs = Globals(o), NEW vs, vs = GlobalVolumes(o),
         NEW ms, ms = GlobalMounts(o)
  PROVE  /\ IsList(vs) /\ IsList(ms) /\ DOMAIN vs = DOMAIN gs /\ DOMAIN ms = DOMAIN gs
         /\ \A g \in DOMAIN gs : GlobalAt(g, gs[g], vs[g], ms[g])
<1> PICK n : n = Len(gs)
  OBVIOUS
<1>1. n \in Nat /\ DOMAIN gs = 1 .. n /\ \A g \in 1 .. n : IsGlobal(gs[g])
  <2>1. IsList(gs) /\ \A g \in DOMAIN gs : IsGlobal(gs[g])
    BY GlobalsFacts
  <2> QED
    BY <2>1, LenProperties DEF IsList
<1> DEFINE W(g) == [Volume(<<"global", g>>, gs[g].kind)
                       EXCEPT !.ro = gs[g].ro, !.host = gs[g].host]
           M(g) == Mount(<<"global", g>>, gs[g].path)
<1>2. vs = [g \in 1 .. n |-> W(g)]
  BY <1>1 DEF GlobalVolumes
<1>3. ms = [g \in 1 .. n |-> M(g)]
  BY <1>1 DEF GlobalMounts
<1>4. ASSUME NEW g \in 1 .. n
      PROVE  /\ W(g).name = <<"global", g>> /\ W(g).kind \in VolumeKind
             /\ W(g).ro \in BOOLEAN /\ W(g).host = gs[g].host
  <2>1. gs[g].kind \in HostKind /\ gs[g].ro \in BOOLEAN
    BY <1>1 DEF IsGlobal
  <2> QED
    BY <2>1 DEF Volume, VolumeKind
<1>7. ASSUME NEW g \in 1 .. n PROVE GlobalAt(g, gs[g], vs[g], ms[g])
  <2>1. vs[g] = W(g) /\ ms[g] = M(g)
    BY <1>2, <1>3
  <2> HIDE DEF W
  <2> QED
    BY <1>4, <2>1 DEF GlobalAt, Mountable
<1> HIDE DEF W, M
<1>5. vs \in [1 .. n -> {W(g) : g \in 1 .. n}] /\ ms \in [1 .. n -> {M(g) : g \in 1 .. n}]
  BY <1>2, <1>3
<1>6. IsList(vs) /\ IsList(ms)
  BY <1>1, <1>5, FunctionList
<1> QED
  BY <1>1, <1>2, <1>3, <1>6, <1>7

OwnVolumes(o, mode, steps) ==
    <<WorkspaceVolume(o)>> \o HelperVolumes(o)
    \o (IF o.debug THEN <<Volume(<<"_addons">>, "disk")>> ELSE <<>>)
    \o OutputVolumes(o, mode, [i \in DOMAIN steps |-> steps[i].name])
    \o GlobalVolumes(o)

IsOwn(o, mode, steps, v) ==
    \/ v = WorkspaceVolume(o)
    \/ o.helper = "image" /\ v = Volume(<<"_output_helper">>, "disk")
    \/ o.helper = "path" /\ v = Volume(<<"helper", "id">>, "file")
    \/ o.debug /\ v = Volume(<<"_addons">>, "disk")
    \/ HasOutputVolumes(o, mode)
       /\ \E i \in DOMAIN steps : v = OutputVolume(mode, steps[i].name)
    \/ \E g \in DOMAIN GlobalVolumes(o) : v = GlobalVolumes(o)[g]

\* What is among the volumes that Compile adds.
LEMMA OwnVolumesRange ==
  ASSUME NEW o \in Opts, NEW mode, NEW steps \in Seq(Item), NEW C, C = OwnVolumes(o, mode, steps)
  PROVE  IsList(C) /\ \A v : v \in RangeOf(C) <=> IsOwn(o, mode, steps, v)
<1> PICK w : w = WorkspaceVolume(o)
  OBVIOUS
<1> PICK a, b : a = Volume(<<"_output_helper">>, "disk") /\ b = Volume(<<"helper", "id">>, "file")
  OBVIOUS
<1> PICK d : d = Volume(<<"_addons">>, "disk")
  OBVIOUS
<1> PICK W : W = <<w>>
  OBVIOUS
<1> PICK H : H = HelperVolumes(o)
  OBVIOUS
<1> PICK D : D = IF o.debug THEN <<d>> ELSE <<>>
  OBVIOUS
<1> PICK U : U = OutputVolumes(o, mode, [i \in DOMAIN steps |-> steps[i].name])
  OBVIOUS
<1> PICK G : G = GlobalVolumes(o)
  OBVIOUS
<1>0. o.helper \in {"none", "image", "path"}
  BY DEF Opts
<1>1. IsList(W) /\ RangeOf(W) = {w}
  BY OneList
<1>2. IsList(H) /\ \A v : v \in RangeOf(H) <=> (o.helper = "image" /\ v = a) \/ (o.helper = "path" /\ v = b)
  <2>1. CASE o.helper = "image"
    <3>1. H = <<a>>
      BY <2>1 DEF HelperVolumes
    <3>2. IsList(<<a>>) /\ RangeOf(<<a>>) = {a}
      BY OneList
    <3> QED
      BY <2>1, <3>1, <3>2
  <2>2. CASE o.helper = "path"
    <3>1. H = <<b>>
      BY <2>2 DEF HelperVolumes
    <3>2. IsList(<<b>>) /\ RangeOf(<<b>>) = {b}
      BY OneList
    <3> QED
      BY <2>2, <3>1, <3>2
  <2>3. CASE o.helper = "none"
    <3>1. H = <<>>
      BY <2>3 DEF HelperVolumes
    <3> QED
      BY <2>3, <3>1, EmptyList
  <2> QED
    BY <1>0, <2>1, <2>2, <2>3
<1>3. IsList(D) /\ \A v : v \in RangeOf(D) <=> o.debug /\ v = d
  <2>1. CASE o.debug
    <3>1. D = <<d>>
      BY <2>1
    <3>2. IsList(<<d>>) /\ RangeOf(<<d>>) = {d}
      BY OneList
    <3> QED
      BY <2>1, <3>1, <3>2
  <2>2. CASE ~o.debug
    BY <2>2, EmptyList
  <2> QED
    BY <2>1, <2>2
<1> DEFINE Vol(i) == OutputVolume(mode, steps[i].name)
<1>4. IsList(U) /\ \A v : v \in RangeOf(U) <=>
             HasOutputVolumes(o, mode) /\ \E i \in DOMAIN steps : v = Vol(i)
  <2>1. CASE HasOutputVolumes(o, mode)
    <3> PICK n : n = Len(steps)
      OBVIOUS
    <3>1. n \in Nat /\ DOMAIN steps = 1 .. n
      BY LenProperties
    <3>2. U = [i \in 1 .. n |-> Vol(i)]
      BY <2>1, <3>1 DEF OutputVolumes
    <3> HIDE DEF Vol
    <3>3. U \in [1 .. n -> {Vol(i) : i \in 1 .. n}]
      BY <3>2
    <3>4. IsList(U)
      BY <3>1, <3>3, FunctionList
    <3>5. \A v : v \in RangeOf(U) <=> \E i \in DOMAIN steps : v = Vol(i)
      BY <3>1, <3>2 DEF RangeOf
    <3> QED
      BY <2>1, <3>4, <3>5
  <2>2. CASE ~HasOutputVolumes(o, mode)
    <3>1. U = <<>>
      BY <2>2 DEF OutputVolumes
    <3> QED
      BY <2>2, <3>1, EmptyList
  <2> QED
    BY <2>1, <2>2
<1>5. IsList(G) /\ \A v : v \in RangeOf(G) <=> \E g \in DOMAIN G : v = G[g]
  <2>1. IsList(G)
    BY GlobalVolumesFacts
  <2> QED
    BY <2>1 DEF RangeOf
<1>6. C = (((W \o H) \o D) \o U) \o G
  BY DEF OwnVolumes
<1> PICK c2 : c2 = W \o H
  OBVIOUS
<1> PICK c3 : c3 = c2 \o D
  OBVIOUS
<1> PICK c4 : c4 = c3 \o U
  OBVIOUS
<1>7. IsList(c2) /\ RangeOf(c2) = RangeOf(W) \cup RangeOf(H)
  BY ONLY <1>1, <1>2, c2 = W \o H, JoinFacts
<1>8. IsList(c3) /\ RangeOf(c3) = RangeOf(c2) \cup RangeOf(D)
  <2>1. IsList(c2) /\ IsList(D)
    BY <1>3, <1>7
  <2> QED
    BY ONLY <2>1, c3 = c2 \o D, JoinFacts
<1>9. IsList(c4) /\ RangeOf(c4) = RangeOf(c3) \cup RangeOf(U)
  BY ONLY <1>8, <1>4, c4 = c3 \o U, JoinFacts
<1>10. IsList(C) /\ RangeOf(C) = RangeOf(c4) \cup RangeOf(G)
  <2>1. C = c4 \o G
    BY <1>6
  <2> QED
    BY ONLY <1>9, <1>5, <2>1, JoinFacts
<1>11. \A v : v \in RangeOf(C) <=>
          \/ v \in RangeOf(W) \/ v \in RangeOf(H) \/ v \in RangeOf(D)
          \/ v \in RangeOf(U) \/ v \in RangeOf(G)
  BY <1>7, <1>8, <1>9, <1>10
<1>12. \A v : v \in RangeOf(C) <=>
          \/ v = w \/ (o.helper = "image" /\ v = a) \/ (o.helper = "path" /\ v = b)
          \/ o.debug /\ v = d
          \/ HasOutputVolumes(o, mode) /\ \E i \in DOMAIN steps : v = Vol(i)
          \/ \E g \in DOMAIN G : v = G[g]
  <2> HIDE DEF Vol
  <2> QED
    BY <1>1, <1>2, <1>3, <1>4, <1>5, <1>11
<1>13. ASSUME NEW v PROVE v \in RangeOf(C) <=> IsOwn(o, mode, steps, v)
  BY <1>12 DEF IsOwn
<1> QED
  BY <1>10, <1>13

\* The names of Compile's volumes tell them apart.
OwnNamed(o, mode, v) ==
    \/ v.name = <<"_workspace">> /\ v = WorkspaceVolume(o)
    \/ v.name = <<"_output_helper">> /\ v = Volume(<<"_output_helper">>, "disk")
    \/ v.name = <<"helper", "id">> /\ v = Volume(<<"helper", "id">>, "file")
    \/ v.name = <<"_addons">> /\ v = Volume(<<"_addons">>, "disk")
    \/ \E x : v.name = <<"outputs", x>> /\ v = OutputVolume(mode, x)
    \/ \E g \in DOMAIN GlobalVolumes(o) : v.name = <<"global", g>> /\ v = GlobalVolumes(o)[g]

\* What a step's output volume is.
LEMMA OutputVolumeFields ==
  ASSUME NEW mode, NEW step, NEW v, v = OutputVolume(mode, step)
  PROVE  /\ v.name = <<"outputs", step>> /\ v.kind = "dir" /\ v.ro = FALSE
         /\ v.host = OutputHost(mode, step)
<1> PICK n, h : n = <<"outputs", step>> /\ h = OutputHost(mode, step)
  OBVIOUS
<1>1. v = [Volume(n, "dir") EXCEPT !.host = h]
  BY DEF OutputVolume
<1>2. v.name = n /\ v.kind = "dir" /\ v.ro = FALSE /\ v.host = h
  BY <1>1 DEF Volume
<1> QED
  BY <1>2

\* The name of a volume that Compile adds says which it is.
LEMMA OwnIsNamed ==
  ASSUME NEW o \in Opts, NEW mode, NEW steps, NEW v, IsOwn(o, mode, steps, v)
  PROVE  OwnNamed(o, mode, v) /\ Mountable(v)
<1>1. CASE v = WorkspaceVolume(o)
  BY <1>1 DEF OwnNamed, Mountable, WorkspaceVolume, Volume, VolumeKind, HostKind
<1>2. CASE v = Volume(<<"_output_helper">>, "disk")
  <2>1. v.name = <<"_output_helper">> /\ v.kind = "disk" /\ v.ro = FALSE
    BY <1>2 DEF Volume
  <2> QED
    BY <1>2, <2>1 DEF OwnNamed, Mountable, VolumeKind, HostKind
<1>3. CASE v = Volume(<<"helper", "id">>, "file")
  <2>1. v.name = <<"helper", "id">> /\ v.kind = "file" /\ v.ro = FALSE
    BY <1>3 DEF Volume
  <2> QED
    BY <1>3, <2>1 DEF OwnNamed, Mountable, VolumeKind, HostKind
<1>4. CASE v = Volume(<<"_addons">>, "disk")
  <2>1. v.name = <<"_addons">> /\ v.kind = "disk" /\ v.ro = FALSE
    BY <1>4 DEF Volume
  <2> QED
    BY <1>4, <2>1 DEF OwnNamed, Mountable, VolumeKind, HostKind
<1>5. ASSUME NEW x, v = OutputVolume(mode, x)
      PROVE  OwnNamed(o, mode, v) /\ Mountable(v)
  <2>1. v.name = <<"outputs", x>> /\ v.kind = "dir" /\ v.ro = FALSE
    BY <1>5, OutputVolumeFields
  <2>2. Mountable(v)
    BY <2>1 DEF Mountable, VolumeKind, HostKind
  <2>3. OwnNamed(o, mode, v)
    BY <1>5, <2>1, Zenon DEF OwnNamed
  <2> QED
    BY <2>2, <2>3
<1>6. ASSUME NEW g \in DOMAIN GlobalVolumes(o), v = GlobalVolumes(o)[g]
      PROVE  OwnNamed(o, mode, v) /\ Mountable(v)
  <2> PICK gs, vs, ms : gs = Globals(o) /\ vs = GlobalVolumes(o) /\ ms = GlobalMounts(o)
    OBVIOUS
  <2>1. DOMAIN vs = DOMAIN gs /\ \A k \in DOMAIN gs : GlobalAt(k, gs[k], vs[k], ms[k])
    BY GlobalVolumesFacts
  <2>2. GlobalAt(g, gs[g], v, ms[g])
    BY <1>6, <2>1
  <2>3. v.name = <<"global", g>> /\ Mountable(v)
    BY <2>2 DEF GlobalAt
  <2> QED
    BY <1>6, <2>3, Zenon DEF OwnNamed
<1> QED
  BY <1>1, <1>2, <1>3, <1>4, <1>5, <1>6 DEF IsOwn

\* Two of them with one name are the same.
LEMMA OwnApart ==
  ASSUME NEW o, NEW mode, NEW v, NEW w, OwnNamed(o, mode, v), OwnNamed(o, mode, w), v.name = w.name
  PROVE  v = w
<1> PICK n : n = v.name
  OBVIOUS
<1>0. /\ <<"_workspace">>[1] = "_workspace" /\ <<"_output_helper">>[1] = "_output_helper"
      /\ <<"helper", "id">>[1] = "helper" /\ <<"_addons">>[1] = "_addons"
      /\ \A x : <<"outputs", x>>[1] = "outputs" /\ <<"outputs", x>>[2] = x
      /\ \A x : <<"global", x>>[1] = "global" /\ <<"global", x>>[2] = x
  OBVIOUS
<1> DEFINE Tagged(x) ==
             \/ n[1] = "_workspace" /\ x = WorkspaceVolume(o)
             \/ n[1] = "_output_helper" /\ x = Volume(<<"_output_helper">>, "disk")
             \/ n[1] = "helper" /\ x = Volume(<<"helper", "id">>, "file")
             \/ n[1] = "_addons" /\ x = Volume(<<"_addons">>, "disk")
             \/ n[1] = "outputs" /\ x = OutputVolume(mode, n[2])
             \/ n[1] = "global" /\ x = GlobalVolumes(o)[n[2]]
<1>1. ASSUME NEW x, x.name = n, OwnNamed(o, mode, x) PROVE Tagged(x)
  <2>1. CASE n = <<"_workspace">> /\ x = WorkspaceVolume(o)
    BY <1>0, <2>1
  <2>2. CASE n = <<"_output_helper">> /\ x = Volume(<<"_output_helper">>, "disk")
    BY <1>0, <2>2
  <2>3. CASE n = <<"helper", "id">> /\ x = Volume(<<"helper", "id">>, "file")
    BY <1>0, <2>3
  <2>4. CASE n = <<"_addons">> /\ x = Volume(<<"_addons">>, "disk")
    BY <1>0, <2>4
  <2>5. ASSUME NEW y, n = <<"outputs", y>>, x = OutputVolume(mode, y) PROVE Tagged(x)
    BY <1>0, <2>5, Zenon
  <2>6. ASSUME NEW g, n = <<"global", g>>, x = GlobalVolumes(o)[g] PROVE Tagged(x)
    BY <1>0, <2>6, Zenon
  <2> HIDE DEF Tagged
  <2> QED
    BY <1>1, <2>1, <2>2, <2>3, <2>4, <2>5, <2>6, Zenon DEF OwnNamed
<1>2. Tagged(v) /\ Tagged(w)
  <2> HIDE DEF Tagged
  <2> QED
    BY <1>1
<1> QED
  BY <1>2

\* Which of their names a manifest can give.
LEMMA GivenNames ==
  ASSUME NEW o, NEW mode, NEW v, OwnNamed(o, mode, v), v.name \in GivenName
  PROVE  v.name \in Internal \cup {<<"_workspace">>}
<1>1. DOMAIN v.name = {1}
  BY DEF GivenName
<1>2. \A x, y : <<x, y>> # v.name
  <2> SUFFICES ASSUME NEW x, NEW y, NEW n, n = v.name, <<x, y>> = n PROVE FALSE
    OBVIOUS
  <2>1. DOMAIN <<x, y>> = 1 .. 2
    OBVIOUS
  <2>2. 2 \in 1 .. 2 /\ 2 \notin {1}
    OBVIOUS
  <2> QED
    BY <1>1, <2>1, <2>2
<1> QED
  BY <1>2 DEF OwnNamed, Internal

\* The volumes of a spec: Compile's are found whatever the manifest declares,
\* and the manifest's unless they are declared twice or named like Compile's.
LEMMA VolumeFacts ==
  ASSUME NEW m, Manifest(m), NEW o \in Opts, NEW mode, NEW steps \in Seq(Item),
         NEW V, V = SpecVolumes(m, o, mode, steps)
  PROVE  /\ IsList(V) /\ \A v \in RangeOf(V) : Mountable(v)
         /\ \A v \in RangeOf(V) :
               IsOwn(o, mode, steps, v) \/ \E d \in DOMAIN m.volumes : v = m.volumes[d]
         /\ \A v : IsOwn(o, mode, steps, v) =>
                      Declared(V, v.name) /\ LookupVolume(V, v.name) = v
         /\ \A d \in DOMAIN m.volumes :
               /\ m.volumes[d].kind # "none"
               /\ m.volumes[d].name \notin Internal \cup {<<"_workspace">>}
               /\ \A e \in DOMAIN m.volumes :
                     m.volumes[e].name = m.volumes[d].name /\ m.volumes[e].kind # "none" => e = d
               => Declared(V, m.volumes[d].name)
                  /\ LookupVolume(V, m.volumes[d].name) = m.volumes[d]
<1> PICK C : C = OwnVolumes(o, mode, steps)
  OBVIOUS
<1> PICK mv : mv = m.volumes
  OBVIOUS
<1> PICK R : R = [name : GivenName, kind : VolumeKind \cup {"none"}, ro : {FALSE}, host : Path]
  OBVIOUS
<1> PICK keep : keep = {i \in DOMAIN mv : mv[i].kind # "none"}
  OBVIOUS
<1> PICK K : K = Kept(mv, keep)
  OBVIOUS
<1>1. IsList(C) /\ \A v : v \in RangeOf(C) <=> IsOwn(o, mode, steps, v)
  BY ONLY o \in Opts, steps \in Seq(Item), C = OwnVolumes(o, mode, steps), OwnVolumesRange
<1>13. mv \in Seq(R)
  BY DEF Manifest
<1>2. mv \in Seq(R) /\ keep \in SUBSET DOMAIN mv
  BY <1>13
<1>3. K \in Seq(R) /\ RangeOf(K) = {mv[i] : i \in keep}
  BY <1>2, KeptFacts
<1>4. IsList(K)
  BY <1>3, ListFacts
<1>5. V = C \o K
  BY DEF SpecVolumes, OwnVolumes
<1>6. IsList(V) /\ RangeOf(V) = RangeOf(C) \cup RangeOf(K)
  <2>1. IsList(C)
    BY <1>1
  <2> QED
    BY ONLY <2>1, <1>4, <1>5, JoinFacts
<1>14. Begins(V, C)
  <2> PICK l, n : l = Len(C) /\ n = Len(K)
    OBVIOUS
  <2>1. IsList(C)
    BY <1>1
  <2>2. /\ DOMAIN V = 1 .. l + n /\ l \in Nat /\ n \in Nat /\ DOMAIN C = 1 .. l
        /\ \A i \in 1 .. l : V[i] = C[i]
    BY <1>4, <1>5, <2>1, JoinFacts
  <2> QED
    BY <2>2 DEF Begins
<1>7. \A i \in DOMAIN mv : mv[i].name \in GivenName /\ mv[i].kind \in VolumeKind \cup {"none"}
                           /\ mv[i].ro = FALSE
  <2>1. \A i \in DOMAIN mv : mv[i] \in R
    BY ONLY <1>13
  <2> QED
    BY <2>1
<1>8. \A v \in RangeOf(C) : OwnNamed(o, mode, v) /\ Mountable(v)
  BY <1>1, OwnIsNamed
<1>9. \A v \in RangeOf(K) : Mountable(v)
  BY <1>3, <1>7 DEF Mountable
<1>10. ASSUME NEW v, IsOwn(o, mode, steps, v)
       PROVE  Declared(V, v.name) /\ LookupVolume(V, v.name) = v
  <2>1. Sole(RangeOf(C), v)
    <3>1. v \in RangeOf(C) /\ OwnNamed(o, mode, v)
      BY <1>1, <1>8, <1>10
    <3>2. ASSUME NEW w \in RangeOf(C), w.name = v.name PROVE w = v
      <4>1. OwnNamed(o, mode, w)
        BY <1>8
      <4> QED
        BY <3>1, <3>2, <4>1, OwnApart, Zenon
    <3> QED
      BY <3>1, <3>2 DEF Sole
  <2>2. IsList(C)
    BY <1>1
  <2> QED
    BY <1>6, <1>14, <2>1, <2>2, LookupFirst, Zenon
<1>11. ASSUME NEW d \in DOMAIN mv, mv[d].kind # "none",
              mv[d].name \notin Internal \cup {<<"_workspace">>},
              \A e \in DOMAIN mv : mv[e].name = mv[d].name /\ mv[e].kind # "none" => e = d
       PROVE  Declared(V, mv[d].name) /\ LookupVolume(V, mv[d].name) = mv[d]
  <2> PICK v : v = mv[d]
    OBVIOUS
  <2>1. v \in RangeOf(K)
    BY <1>3, <1>11
  <2>2. \A w \in RangeOf(K) : w.name = v.name => w = v
    BY <1>3, <1>11
  <2>3. \A w \in RangeOf(C) : w.name # v.name
    <3>1. v.name \in GivenName /\ v.name \notin Internal \cup {<<"_workspace">>}
      BY <1>7, <1>11
    <3> QED
      BY <1>8, <3>1, GivenNames
  <2>4. Sole(RangeOf(V), v)
    BY <1>6, <2>1, <2>2, <2>3 DEF Sole
  <2>5. Declared(V, v.name) /\ LookupVolume(V, v.name) = v
    <3>1. IsList(V)
      BY <1>6
    <3> QED
      BY ONLY <3>1, <2>4, LookupSole
  <2> QED
    BY <2>5
<1>12. \A v \in RangeOf(V) : Mountable(v)
  BY <1>6, <1>8, <1>9
<1>15. ASSUME NEW v \in RangeOf(V)
       PROVE  IsOwn(o, mode, steps, v) \/ \E d \in DOMAIN mv : v = mv[d]
  BY <1>1, <1>2, <1>3, <1>6
<1> QED
  BY <1>6, <1>10, <1>11, <1>12, <1>15

-----------------------------------------------------------------------------
(* Paths                                                                     *)

\* The components of the directory for a step's outputs.
LEMMA OutputPathFacts ==
  ASSUME NEW o \in Opts, NEW mode, NEW step, NEW p, p = OutputPath(o, mode, step)
  PROVE  /\ p[1] = (IF o.root = "default" THEN "drone" ELSE "srv")
         /\ p[2] = (IF o.root = "default" THEN "outputs" ELSE "out")
         /\ Len(p) = (IF mode = "file" THEN 4 ELSE 3)
         /\ mode = "file" => p[4] = step
         /\ \E S : p \in Seq(S)
<1> PICK S : S = {"drone", "outputs", "srv", "out", "uuid", step}
  OBVIOUS
<1> PICK t : t = OutputTarget(o)
  OBVIOUS
<1> PICK u : u = <<"uuid">>
  OBVIOUS
<1> PICK r : r = OutputRoot(o)
  OBVIOUS
<1>1. /\ t \in Seq(S) /\ Len(t) = 2
      /\ t[1] = (IF o.root = "default" THEN "drone" ELSE "srv")
      /\ t[2] = (IF o.root = "default" THEN "outputs" ELSE "out")
  <2>1. "drone" \in S /\ "outputs" \in S /\ "srv" \in S /\ "out" \in S
    OBVIOUS
  <2>2. t = IF o.root = "default" THEN <<"drone", "outputs">> ELSE <<"srv", "out">>
    BY DEF OutputTarget
  <2>3. CASE o.root = "default"
    <3>1. t = <<"drone", "outputs">>
      BY <2>2, <2>3
    <3>2. t \in Seq(S) /\ Len(t) = 2 /\ t[1] = "drone" /\ t[2] = "outputs"
      BY ONLY <2>1, <3>1
    <3> QED
      BY <2>3, <3>2
  <2>4. CASE o.root # "default"
    <3>1. t = <<"srv", "out">>
      BY <2>2, <2>4
    <3>2. t \in Seq(S) /\ Len(t) = 2 /\ t[1] = "srv" /\ t[2] = "out"
      BY ONLY <2>1, <3>1
    <3> QED
      BY <2>4, <3>2
  <2> QED
    BY <2>3, <2>4
<1>2. u \in Seq(S) /\ Len(u) = 1
  <2>1. "uuid" \in S
    OBVIOUS
  <2> QED
    BY ONLY <2>1, u = <<"uuid">>
<1>3. r = t \o u
  BY DEF OutputRoot
<1>4. /\ r \in Seq(S) /\ Len(r) = Len(t) + Len(u)
      /\ \A i \in 1 .. Len(t) : r[i] = t[i]
  <2>1. t \in Seq(S) /\ u \in Seq(S) /\ r = t \o u
    BY <1>1, <1>2, <1>3
  <2> QED
    BY ONLY <2>1, ConcatFacts
<1>5. r \in Seq(S) /\ Len(r) = 3 /\ r[1] = t[1] /\ r[2] = t[2]
  BY <1>1, <1>2, <1>4
<1>6. CASE mode = "file"
  <2>1. p = Append(r, step) /\ step \in S
    BY <1>6 DEF OutputPath
  <2>2. /\ p \in Seq(S) /\ Len(p) = Len(r) + 1
        /\ \A i \in 1 .. Len(r) : p[i] = r[i]
        /\ p[Len(r) + 1] = step
    <3>1. r \in Seq(S) /\ step \in S
      BY <1>5, <2>1
    <3>2. /\ Append(r, step) \in Seq(S) /\ Len(Append(r, step)) = Len(r) + 1
          /\ \A i \in 1 .. Len(r) : Append(r, step)[i] = r[i]
          /\ Append(r, step)[Len(r) + 1] = step
      BY ONLY <3>1, AppendProperties
    <3> QED
      BY <2>1, <3>2
  <2>3. p \in Seq(S) /\ Len(p) = 4 /\ p[1] = r[1] /\ p[2] = r[2] /\ p[4] = step
    BY <1>5, <2>2
  <2> QED
    BY <1>1, <1>5, <1>6, <2>3
<1>7. CASE mode # "file"
  <2>1. p = r
    BY <1>7 DEF OutputPath
  <2> QED
    BY <1>1, <1>5, <1>7, <2>1
<1> QED
  BY <1>6, <1>7

\* The components of the other paths.
LEMMA PathValues ==
  /\ Len(Bin) = 2 /\ Bin[1] = "drone" /\ Bin[2] = "bin"
  /\ Len(Helper) = 3 /\ Helper[1] = "drone" /\ Helper[2] = "bin"
  /\ Len(Addons) = 3 /\ Addons[1] = "usr"
BY DEF Bin, Helper, Addons

\* The paths of Compile's mounts are different, the workspace's aside.
LEMMA PathsApart ==
  ASSUME NEW o \in Opts, NEW mode, NEW step, NEW p, p = OutputPath(o, mode, step)
  PROVE  p \notin {Bin, Helper, Addons} /\ Bin \notin {Helper, Addons} /\ Helper # Addons
<1>1. /\ p[1] = (IF o.root = "default" THEN "drone" ELSE "srv")
      /\ p[2] = (IF o.root = "default" THEN "outputs" ELSE "out")
  BY OutputPathFacts
<1>2. p[1] # "usr" /\ (p[1] = "drone" => p[2] = "outputs")
  BY <1>1
<1> PICK b, h, a : b = Bin /\ h = Helper /\ a = Addons
  OBVIOUS
<1>3. /\ Len(b) = 2 /\ b[1] = "drone" /\ b[2] = "bin"
      /\ Len(h) = 3 /\ h[1] = "drone" /\ h[2] = "bin" /\ a[1] = "usr"
  BY PathValues
<1> QED
  BY <1>2, <1>3

-----------------------------------------------------------------------------
(* The mounts of a step                                                      *)

\* A list that holds x or nothing.
LEMMA AtMostOne ==
  ASSUME NEW c, NEW x, NEW s, s = IF c THEN <<x>> ELSE <<>>
  PROVE  /\ IsList(s) /\ Apart(s) /\ \A y : y \in RangeOf(s) <=> c /\ y = x
<1>1. CASE c
  <2>1. s = <<x>>
    BY <1>1
  <2>2. IsList(s) /\ RangeOf(s) = {x} /\ Len(s) = 1
    BY <2>1, OneList
  <2>3. DOMAIN s = 1 .. 1
    BY <2>2, LenProperties DEF IsList
  <2>4. Apart(s)
    BY <2>3 DEF Apart
  <2> QED
    BY <1>1, <2>2, <2>4
<1>2. CASE ~c
  <2>1. s = <<>>
    BY <1>2
  <2>2. Apart(s)
    BY <2>1 DEF Apart
  <2> QED
    BY <1>2, <2>1, <2>2, EmptyList
<1> QED
  BY <1>1, <1>2

HelperMount(o) ==
    IF o.helper = "image" THEN Mount(<<"_output_helper">>, Bin)
    ELSE Mount(<<"helper", "id">>, Helper)

OutputMount(o, mode, step) == Mount(<<"outputs", step>>, OutputPath(o, mode, step))

\* The mounts that Compile gives a step, without the global ones.
IsGiven(ws, o, mode, step, x) ==
    \/ x = WorkspaceMount(ws, o)
    \/ o.helper # "none" /\ x = HelperMount(o)
    \/ o.debug /\ x = Mount(<<"_addons">>, Addons)
    \/ HasOutputVolumes(o, mode) /\ x = OutputMount(o, mode, step)

\* The fields of a mount.
LEMMA MountFields ==
  ASSUME NEW name, NEW path
  PROVE  Mount(name, path).name = name /\ Mount(name, path).path = path
BY DEF Mount

\* The names of Compile's mounts in a step.
GivenMountName(step, name) ==
    \/ name = <<"_workspace">> \/ name = <<"_output_helper">>
    \/ name = <<"helper", "id">> \/ name = <<"_addons">>
    \/ name = <<"outputs", step>>

LEMMA GivenMounts ==
  ASSUME NEW ws, NEW o, NEW mode, NEW step, NEW x, IsGiven(ws, o, mode, step, x)
  PROVE  GivenMountName(step, x.name)
<1> PICK p, base : p = OutputPath(o, mode, step) /\ base = Workspace(ws, o).base
  OBVIOUS
<1>1. \A name, path : Mount(name, path).name = name
  BY MountFields
<1> QED
  BY <1>1 DEF IsGiven, WorkspaceMount, HelperMount, OutputMount, GivenMountName

\* The lists that a step's mounts are joined from: its own, five of Compile's.
StepLists(ws, o, mode, item, M, W, H, T, U, G, c1, c2, c3, c4) ==
    /\ IsList(W) /\ IsList(H) /\ IsList(T) /\ IsList(U) /\ IsList(G)
    /\ IsList(c1) /\ IsList(c2) /\ IsList(c3) /\ IsList(c4)
    /\ Apart(W) /\ Apart(H) /\ Apart(T) /\ Apart(U) /\ G = GlobalMounts(o)
    /\ c1 = item.mounts \o W /\ c2 = c1 \o H /\ c3 = c2 \o T /\ c4 = c3 \o U
    /\ M = c4 \o G
    /\ \A y : y \in RangeOf(W) <=> y = WorkspaceMount(ws, o)
    /\ \A y : y \in RangeOf(H) <=> o.helper # "none" /\ y = HelperMount(o)
    /\ \A y : y \in RangeOf(T) <=> o.debug /\ y = Mount(<<"_addons">>, Addons)
    /\ \A y : y \in RangeOf(U) <=>
                 HasOutputVolumes(o, mode) /\ y = OutputMount(o, mode, item.name)

\* A step's mounts are joined from such lists.
LEMMA StepMountsLists ==
  ASSUME NEW ws, NEW o \in Opts, NEW mode, NEW item, NEW M, M = StepMounts(ws, o, mode, item),
         IsList(item.mounts)
  PROVE  \E W, H, T, U, G, c1, c2, c3, c4 :
            StepLists(ws, o, mode, item, M, W, H, T, U, G, c1, c2, c3, c4)
<1> PICK own : own = item.mounts
  OBVIOUS
<1> PICK W : W = <<WorkspaceMount(ws, o)>>
  OBVIOUS
<1> PICK H : H = HelperMounts(o)
  OBVIOUS
<1> PICK T : T = TmateMounts(o)
  OBVIOUS
<1> PICK U : U = OutputMounts(o, mode, item.name)
  OBVIOUS
<1> PICK G : G = GlobalMounts(o)
  OBVIOUS
<1> PICK c1 : c1 = own \o W
  OBVIOUS
<1> PICK c2 : c2 = c1 \o H
  OBVIOUS
<1> PICK c3 : c3 = c2 \o T
  OBVIOUS
<1> PICK c4 : c4 = c3 \o U
  OBVIOUS
<1>1. M = c4 \o G
  BY DEF StepMounts
<1>2. IsList(W) /\ Apart(W) /\ \A y : y \in RangeOf(W) <=> y = WorkspaceMount(ws, o)
  <2>1. W = IF TRUE THEN <<WorkspaceMount(ws, o)>> ELSE <<>>
    OBVIOUS
  <2>2. IsList(W) /\ Apart(W) /\ \A y : y \in RangeOf(W) <=> TRUE /\ y = WorkspaceMount(ws, o)
    BY ONLY <2>1, AtMostOne
  <2> QED
    BY <2>2
<1>3. IsList(H) /\ Apart(H) /\ \A y : y \in RangeOf(H) <=> o.helper # "none" /\ y = HelperMount(o)
  <2> PICK x : x = HelperMount(o)
    OBVIOUS
  <2>1. o.helper \in {"none", "image", "path"}
    BY DEF Opts
  <2>2. H = IF o.helper # "none" THEN <<x>> ELSE <<>>
    BY <2>1 DEF HelperMounts, HelperMount
  <2>3. IsList(H) /\ Apart(H) /\ \A y : y \in RangeOf(H) <=> o.helper # "none" /\ y = x
    BY ONLY <2>2, AtMostOne
  <2> QED
    BY <2>3
<1>4. IsList(T) /\ Apart(T) /\ \A y : y \in RangeOf(T) <=> o.debug /\ y = Mount(<<"_addons">>, Addons)
  <2> PICK x : x = Mount(<<"_addons">>, Addons)
    OBVIOUS
  <2>1. T = IF o.debug THEN <<x>> ELSE <<>>
    BY DEF TmateMounts
  <2>2. IsList(T) /\ Apart(T) /\ \A y : y \in RangeOf(T) <=> o.debug /\ y = x
    BY ONLY <2>1, AtMostOne
  <2> QED
    BY <2>2
<1>5. IsList(U) /\ Apart(U) /\ \A y : y \in RangeOf(U) <=>
                         HasOutputVolumes(o, mode) /\ y = OutputMount(o, mode, item.name)
  <2> PICK x : x = OutputMount(o, mode, item.name)
    OBVIOUS
  <2>1. U = IF HasOutputVolumes(o, mode) THEN <<x>> ELSE <<>>
    BY DEF OutputMounts, OutputMount
  <2>2. IsList(U) /\ Apart(U) /\ \A y : y \in RangeOf(U) <=> HasOutputVolumes(o, mode) /\ y = x
    BY ONLY <2>1, AtMostOne
  <2> QED
    BY <2>2
<1>6. IsList(G)
  BY GlobalVolumesFacts
<1>7. IsList(own) /\ IsList(W) /\ IsList(H) /\ IsList(T) /\ IsList(U)
  BY <1>2, <1>3, <1>4, <1>5
<1>8. IsList(c1)
  BY ONLY <1>7, c1 = own \o W, JoinFacts
<1>9. IsList(c2)
  BY ONLY <1>7, <1>8, c2 = c1 \o H, JoinFacts
<1>10. IsList(c3)
  BY ONLY <1>7, <1>9, c3 = c2 \o T, JoinFacts
<1>11. IsList(c4)
  BY ONLY <1>7, <1>10, c4 = c3 \o U, JoinFacts
<1>12. c1 = item.mounts \o W /\ c2 = c1 \o H /\ c3 = c2 \o T /\ c4 = c3 \o U
  OBVIOUS
<1>13. StepLists(ws, o, mode, item, M, W, H, T, U, G, c1, c2, c3, c4)
  BY <1>1, <1>2, <1>3, <1>4, <1>5, <1>6, <1>8, <1>9, <1>10, <1>11, <1>12, Zenon DEF StepLists
<1> QED
  BY <1>13, Zenon

\* What is among a step's mounts.
LEMMA StepMountsRange ==
  ASSUME NEW ws, NEW o \in Opts, NEW mode, NEW item, NEW own, own = item.mounts, IsList(own),
         NEW M, M = StepMounts(ws, o, mode, item), NEW G, G = GlobalMounts(o)
  PROVE  /\ IsList(M)
         /\ \A x : x \in RangeOf(M) <=>
                \/ x \in RangeOf(own) \/ IsGiven(ws, o, mode, item.name, x) \/ x \in RangeOf(G)
<1> PICK W, H, T, U, g, c1, c2, c3, c4 : StepLists(ws, o, mode, item, M, W, H, T, U, g, c1, c2, c3, c4)
  BY StepMountsLists
<1>1. /\ IsList(own) /\ IsList(W) /\ IsList(H) /\ IsList(T) /\ IsList(U) /\ IsList(G)
      /\ IsList(c1) /\ IsList(c2) /\ IsList(c3) /\ IsList(c4)
      /\ c1 = own \o W /\ c2 = c1 \o H /\ c3 = c2 \o T /\ c4 = c3 \o U /\ M = c4 \o G
  BY Zenon DEF StepLists
<1>2. RangeOf(c1) = RangeOf(own) \cup RangeOf(W)
  <2>1. IsList(own) /\ IsList(W) /\ c1 = own \o W
    BY <1>1
  <2> QED
    BY ONLY <2>1, JoinFacts
<1>3. RangeOf(c2) = RangeOf(c1) \cup RangeOf(H)
  <2>1. IsList(c1) /\ IsList(H) /\ c2 = c1 \o H
    BY <1>1
  <2> QED
    BY ONLY <2>1, JoinFacts
<1>4. RangeOf(c3) = RangeOf(c2) \cup RangeOf(T)
  <2>1. IsList(c2) /\ IsList(T) /\ c3 = c2 \o T
    BY <1>1
  <2> QED
    BY ONLY <2>1, JoinFacts
<1>5. RangeOf(c4) = RangeOf(c3) \cup RangeOf(U)
  <2>1. IsList(c3) /\ IsList(U) /\ c4 = c3 \o U
    BY <1>1
  <2> QED
    BY ONLY <2>1, JoinFacts
<1>6. IsList(M) /\ RangeOf(M) = RangeOf(c4) \cup RangeOf(G)
  <2>1. IsList(c4) /\ IsList(G) /\ M = c4 \o G
    BY <1>1
  <2> QED
    BY ONLY <2>1, JoinFacts
<1>7. ASSUME NEW x
      PROVE  IsGiven(ws, o, mode, item.name, x) <=>
                x \in RangeOf(W) \/ x \in RangeOf(H) \/ x \in RangeOf(T) \/ x \in RangeOf(U)
  <2>1. /\ x \in RangeOf(W) <=> x = WorkspaceMount(ws, o)
        /\ x \in RangeOf(H) <=> o.helper # "none" /\ x = HelperMount(o)
        /\ x \in RangeOf(T) <=> o.debug /\ x = Mount(<<"_addons">>, Addons)
        /\ x \in RangeOf(U) <=>
              HasOutputVolumes(o, mode) /\ x = OutputMount(o, mode, item.name)
    BY Zenon DEF StepLists
  <2> QED
    BY <2>1, Zenon DEF IsGiven
<1> QED
  BY <1>2, <1>3, <1>4, <1>5, <1>6, <1>7

\* A name that only the step's own mounts have.
LEMMA SitesOfOwn ==
  ASSUME NEW ws, NEW o \in Opts, NEW mode, NEW item, NEW own, own = item.mounts, IsList(own),
         NEW M, M = StepMounts(ws, o, mode, item), NEW G, G = GlobalMounts(o),
         NEW name, NEW path,
         \A x : IsGiven(ws, o, mode, item.name, x) \/ x \in RangeOf(G) => x.name # name
  PROVE  Sites(M, name, path) = Sites(own, name, path)
<1> PICK W, H, T, U, g, c1, c2, c3, c4 : StepLists(ws, o, mode, item, M, W, H, T, U, g, c1, c2, c3, c4)
  BY StepMountsLists
<1>1. /\ IsList(own) /\ IsList(W) /\ IsList(H) /\ IsList(T) /\ IsList(U) /\ IsList(G)
      /\ IsList(c1) /\ IsList(c2) /\ IsList(c3) /\ IsList(c4)
      /\ c1 = own \o W /\ c2 = c1 \o H /\ c3 = c2 \o T /\ c4 = c3 \o U /\ M = c4 \o G
  BY Zenon DEF StepLists
<1>2. /\ \A x \in RangeOf(W) : x.name # name
      /\ \A x \in RangeOf(H) : x.name # name
      /\ \A x \in RangeOf(T) : x.name # name
      /\ \A x \in RangeOf(U) : x.name # name
      /\ \A x \in RangeOf(G) : x.name # name
  BY Zenon DEF StepLists, IsGiven
<1>3. Sites(c1, name, path) = Sites(own, name, path)
  <2>1. IsList(own) /\ IsList(W) /\ c1 = own \o W
    BY <1>1
  <2>2. Lacks(W, name)
    BY <1>2 DEF Lacks
  <2> QED
    BY ONLY <2>1, <2>2, SitesOfFirst
<1>4. Sites(c2, name, path) = Sites(c1, name, path)
  <2>1. IsList(c1) /\ IsList(H) /\ c2 = c1 \o H
    BY <1>1
  <2>2. Lacks(H, name)
    BY <1>2 DEF Lacks
  <2> QED
    BY ONLY <2>1, <2>2, SitesOfFirst
<1>5. Sites(c3, name, path) = Sites(c2, name, path)
  <2>1. IsList(c2) /\ IsList(T) /\ c3 = c2 \o T
    BY <1>1
  <2>2. Lacks(T, name)
    BY <1>2 DEF Lacks
  <2> QED
    BY ONLY <2>1, <2>2, SitesOfFirst
<1>6. Sites(c4, name, path) = Sites(c3, name, path)
  <2>1. IsList(c3) /\ IsList(U) /\ c4 = c3 \o U
    BY <1>1
  <2>2. Lacks(U, name)
    BY <1>2 DEF Lacks
  <2> QED
    BY ONLY <2>1, <2>2, SitesOfFirst
<1>7. Sites(M, name, path) = Sites(c4, name, path)
  <2>1. IsList(c4) /\ IsList(G) /\ M = c4 \o G
    BY <1>1
  <2>2. Lacks(G, name)
    BY <1>2 DEF Lacks
  <2> QED
    BY ONLY <2>1, <2>2, SitesOfFirst
<1> QED
  BY <1>3, <1>4, <1>5, <1>6, <1>7

\* A name that one of the global mounts has alone.
LEMMA SitesOfGlobal ==
  ASSUME NEW ws, NEW o \in Opts, NEW mode, NEW item, NEW own, own = item.mounts, IsList(own),
         NEW M, M = StepMounts(ws, o, mode, item), NEW G, G = GlobalMounts(o),
         NEW name, NEW path, One(Sites(G, name, path)),
         \A x : IsGiven(ws, o, mode, item.name, x) \/ x \in RangeOf(own) => x.name # name
  PROVE  One(Sites(M, name, path))
<1> PICK W, H, T, U, g, c1, c2, c3, c4 : StepLists(ws, o, mode, item, M, W, H, T, U, g, c1, c2, c3, c4)
  BY StepMountsLists
<1>1. /\ IsList(own) /\ IsList(W) /\ IsList(H) /\ IsList(T) /\ IsList(U) /\ IsList(G)
      /\ IsList(c1) /\ IsList(c2) /\ IsList(c3) /\ IsList(c4)
      /\ c1 = own \o W /\ c2 = c1 \o H /\ c3 = c2 \o T /\ c4 = c3 \o U /\ M = c4 \o G
  BY Zenon DEF StepLists
<1>2. /\ \A x \in RangeOf(W) : x.name # name
      /\ \A x \in RangeOf(H) : x.name # name
      /\ \A x \in RangeOf(T) : x.name # name
      /\ \A x \in RangeOf(U) : x.name # name
      /\ \A x \in RangeOf(own) : x.name # name
  BY Zenon DEF StepLists, IsGiven
<1>3. RangeOf(c1) = RangeOf(own) \cup RangeOf(W)
  <2>1. IsList(own) /\ IsList(W) /\ c1 = own \o W
    BY <1>1
  <2> QED
    BY ONLY <2>1, JoinFacts
<1>4. RangeOf(c2) = RangeOf(c1) \cup RangeOf(H)
  <2>1. IsList(c1) /\ IsList(H) /\ c2 = c1 \o H
    BY <1>1
  <2> QED
    BY ONLY <2>1, JoinFacts
<1>5. RangeOf(c3) = RangeOf(c2) \cup RangeOf(T)
  <2>1. IsList(c2) /\ IsList(T) /\ c3 = c2 \o T
    BY <1>1
  <2> QED
    BY ONLY <2>1, JoinFacts
<1>6. RangeOf(c4) = RangeOf(c3) \cup RangeOf(U)
  <2>1. IsList(c3) /\ IsList(U) /\ c4 = c3 \o U
    BY <1>1
  <2> QED
    BY ONLY <2>1, JoinFacts
<1>7. Lacks(c4, name)
  BY <1>2, <1>3, <1>4, <1>5, <1>6 DEF Lacks
<1>8. IsList(c4) /\ IsList(G) /\ M = c4 \o G
  BY <1>1
<1> QED
  BY ONLY <1>7, <1>8, One(Sites(G, name, path)), SitesOfLast

\* No two mounts at one path, if the workspace is not at a path of Compile's and
\* what is asked for keeps apart from itself, the workspace and those paths.
LEMMA StepMountsApart ==
  ASSUME NEW ws, NEW o \in Opts, NEW mode, NEW item, NEW own, own = item.mounts, IsList(own),
         NEW M, M = StepMounts(ws, o, mode, item), NEW G, G = GlobalMounts(o),
         NEW base, base = Workspace(ws, o).base,
         base \notin {Bin, Helper, Addons, OutputPath(o, mode, item.name)},
         Apart(own \o G),
         \A q \in PathsOf(own \o G) :
            q \notin {base, Bin, Helper, Addons, OutputPath(o, mode, item.name)}
  PROVE  Apart(M)
<1> PICK W, H, T, U, g, c1, c2, c3, c4 : StepLists(ws, o, mode, item, M, W, H, T, U, g, c1, c2, c3, c4)
  BY StepMountsLists
<1> PICK p : p = OutputPath(o, mode, item.name)
  OBVIOUS
<1> PICK asked : asked = own \o G
  OBVIOUS
<1>1. /\ IsList(own) /\ IsList(W) /\ IsList(H) /\ IsList(T) /\ IsList(U) /\ IsList(G)
      /\ IsList(c1) /\ IsList(c2) /\ IsList(c3) /\ IsList(c4)
      /\ c1 = own \o W /\ c2 = c1 \o H /\ c3 = c2 \o T /\ c4 = c3 \o U /\ M = c4 \o G
      /\ Apart(W) /\ Apart(H) /\ Apart(T) /\ Apart(U) /\ asked = own \o G
  BY Zenon DEF StepLists
<1>2. Apart(asked) /\ \A q \in PathsOf(asked) : q \notin {base, Bin, Helper, Addons, p}
  OBVIOUS
<1>3. PathsOf(asked) = PathsOf(own) \cup PathsOf(G)
  BY ONLY <1>1, JoinApart
<1>4. Apart(own) /\ Apart(G) /\ PathsOf(own) \cap PathsOf(G) = {}
  <2>1. Apart(asked) <=> Apart(own) /\ Apart(G) /\ PathsOf(own) \cap PathsOf(G) = {}
    BY ONLY <1>1, JoinApart
  <2> QED
    BY <1>2, <2>1
<1>5. \A x : PathsOf(x) = {e.path : e \in RangeOf(x)}
  BY DEF PathsOf, RangeOf
<1>6. PathsOf(W) \subseteq {base}
  <2>1. \A y \in RangeOf(W) : y = WorkspaceMount(ws, o)
    BY Zenon DEF StepLists
  <2> QED
    BY <1>5, <2>1, MountFields DEF WorkspaceMount
<1>7. PathsOf(H) \subseteq {Bin, Helper}
  <2>1. \A y \in RangeOf(H) : y = HelperMount(o)
    BY Zenon DEF StepLists
  <2>2. HelperMount(o).path \in {Bin, Helper}
    BY MountFields DEF HelperMount
  <2> QED
    BY <1>5, <2>1, <2>2
<1>8. PathsOf(T) \subseteq {Addons}
  <2>1. \A y \in RangeOf(T) : y = Mount(<<"_addons">>, Addons)
    BY Zenon DEF StepLists
  <2>2. Mount(<<"_addons">>, Addons).path = Addons
    BY MountFields
  <2> QED
    BY <1>5, <2>1, <2>2
<1>9. PathsOf(U) \subseteq {p}
  <2>1. \A y \in RangeOf(U) : y = OutputMount(o, mode, item.name)
    BY Zenon DEF StepLists
  <2>2. OutputMount(o, mode, item.name).path = p
    BY MountFields DEF OutputMount
  <2> QED
    BY <1>5, <2>1, <2>2
<1>10. /\ p \notin {base, Bin, Helper, Addons}
       /\ base \notin {Bin, Helper, Addons} /\ Bin \notin {Helper, Addons} /\ Helper # Addons
  BY PathsApart
<1>11. /\ PathsOf(c1) = PathsOf(own) \cup PathsOf(W)
       /\ Apart(c1) <=> Apart(own) /\ Apart(W) /\ PathsOf(own) \cap PathsOf(W) = {}
  <2>1. IsList(own) /\ IsList(W) /\ c1 = own \o W
    BY <1>1
  <2> QED
    BY ONLY <2>1, JoinApart
<1>12. /\ PathsOf(c2) = PathsOf(c1) \cup PathsOf(H)
       /\ Apart(c2) <=> Apart(c1) /\ Apart(H) /\ PathsOf(c1) \cap PathsOf(H) = {}
  <2>1. IsList(c1) /\ IsList(H) /\ c2 = c1 \o H
    BY <1>1
  <2> QED
    BY ONLY <2>1, JoinApart
<1>13. /\ PathsOf(c3) = PathsOf(c2) \cup PathsOf(T)
       /\ Apart(c3) <=> Apart(c2) /\ Apart(T) /\ PathsOf(c2) \cap PathsOf(T) = {}
  <2>1. IsList(c2) /\ IsList(T) /\ c3 = c2 \o T
    BY <1>1
  <2> QED
    BY ONLY <2>1, JoinApart
<1>14. /\ PathsOf(c4) = PathsOf(c3) \cup PathsOf(U)
       /\ Apart(c4) <=> Apart(c3) /\ Apart(U) /\ PathsOf(c3) \cap PathsOf(U) = {}
  <2>1. IsList(c3) /\ IsList(U) /\ c4 = c3 \o U
    BY <1>1
  <2> QED
    BY ONLY <2>1, JoinApart
<1>15. Apart(M) <=> Apart(c4) /\ Apart(G) /\ PathsOf(c4) \cap PathsOf(G) = {}
  <2>1. IsList(c4) /\ IsList(G) /\ M = c4 \o G
    BY <1>1
  <2> QED
    BY ONLY <2>1, JoinApart
<1> PICK own1, g1, w1, h1, t1, u1 :
      /\ own1 = PathsOf(own) /\ g1 = PathsOf(G) /\ w1 = PathsOf(W)
      /\ h1 = PathsOf(H) /\ t1 = PathsOf(T) /\ u1 = PathsOf(U)
  OBVIOUS
<1>16. /\ own1 \cap g1 = {} /\ \A q \in own1 \cup g1 : q \notin {base, Bin, Helper, Addons, p}
       /\ w1 \subseteq {base} /\ h1 \subseteq {Bin, Helper} /\ t1 \subseteq {Addons} /\ u1 \subseteq {p}
  BY <1>2, <1>3, <1>4, <1>6, <1>7, <1>8, <1>9
<1>17. /\ own1 \cap w1 = {} /\ (own1 \cup w1) \cap h1 = {}
       /\ ((own1 \cup w1) \cup h1) \cap t1 = {}
       /\ (((own1 \cup w1) \cup h1) \cup t1) \cap u1 = {}
       /\ ((((own1 \cup w1) \cup h1) \cup t1) \cup u1) \cap g1 = {}
  BY ONLY <1>10, <1>16
<1>18. Apart(c1) /\ Apart(c2)
  BY <1>1, <1>4, <1>11, <1>12, <1>17
<1>19. Apart(c3) /\ Apart(c4)
  BY <1>1, <1>11, <1>12, <1>13, <1>14, <1>17, <1>18
<1> QED
  BY <1>4, <1>11, <1>12, <1>13, <1>14, <1>15, <1>17, <1>19

\* An internal step has one mount, unless it has two at one path.
LEMMA InternalMountsFacts ==
  ASSUME NEW o \in Opts, NEW I, I = InternalMounts(o)
  PROVE  /\ IsList(I)
         /\ ~(o.helper = "image" /\ o.debug) => \A x \in DOMAIN I : Apart(I[x])
<1> PICK a : a = <<Mount(<<"_output_helper">>, Addons)>>
  OBVIOUS
<1> PICK t : t = TmateMounts(o)
  OBVIOUS
<1> PICK b : b = a \o t
  OBVIOUS
<1>1. I = (IF o.helper = "image" THEN <<b>> ELSE <<>>) \o (IF o.debug THEN <<t>> ELSE <<>>)
  BY DEF InternalMounts
<1>2. t = IF o.debug THEN <<Mount(<<"_addons">>, Addons)>> ELSE <<>>
  BY DEF TmateMounts
<1>3. IsList(t) /\ Apart(t)
  <2> PICK y : y = Mount(<<"_addons">>, Addons)
    OBVIOUS
  <2>1. t = IF o.debug THEN <<y>> ELSE <<>>
    BY <1>2
  <2> QED
    BY ONLY <2>1, AtMostOne
<1>4. IsList(a) /\ Apart(a)
  <2> PICK y : y = Mount(<<"_output_helper">>, Addons)
    OBVIOUS
  <2>1. a = IF TRUE THEN <<y>> ELSE <<>>
    OBVIOUS
  <2> QED
    BY ONLY <2>1, AtMostOne
<1> PICK s, r : s = (IF o.helper = "image" THEN <<b>> ELSE <<>>) /\ r = IF o.debug THEN <<t>> ELSE <<>>
  OBVIOUS
<1>5. IsList(s) /\ \A y : y \in RangeOf(s) <=> o.helper = "image" /\ y = b
  BY ONLY s = (IF o.helper = "image" THEN <<b>> ELSE <<>>), AtMostOne
<1>6. IsList(r) /\ \A y : y \in RangeOf(r) <=> o.debug /\ y = t
  BY ONLY r = (IF o.debug THEN <<t>> ELSE <<>>), AtMostOne
<1>7. IsList(I) /\ RangeOf(I) = RangeOf(s) \cup RangeOf(r)
  <2>1. IsList(s) /\ IsList(r) /\ I = s \o r
    BY <1>1, <1>5, <1>6
  <2> QED
    BY ONLY <2>1, JoinFacts
<1>8. ASSUME ~(o.helper = "image" /\ o.debug), NEW x \in DOMAIN I
      PROVE  Apart(I[x])
  <2>1. I[x] \in RangeOf(I)
    BY DEF RangeOf
  <2>2. CASE o.helper = "image" /\ I[x] = b
    <3>1. t = <<>>
      BY <1>2, <1>8, <2>2
    <3>2. PathsOf(t) = {}
      BY <3>1 DEF PathsOf
    <3>3. Apart(b) <=> Apart(a) /\ Apart(t) /\ PathsOf(a) \cap PathsOf(t) = {}
      BY ONLY <1>3, <1>4, b = a \o t, JoinApart
    <3> QED
      BY <1>3, <1>4, <2>2, <3>2, <3>3
  <2>3. CASE I[x] = t
    BY <1>3, <2>3
  <2> QED
    BY <1>5, <1>6, <1>7, <2>1, <2>2, <2>3
<1> QED
  BY <1>7, <1>8

-----------------------------------------------------------------------------
(* The containers of what Compile returns                                    *)

\* The mounts of a step are those of an item that the linter has seen.
LEMMA BuiltMounts ==
  ASSUME NEW m, Manifest(m), CheckStepsAccepts(m), NEW i \in DOMAIN Built(m)
  PROVE  /\ IsList(Built(m)[i].mounts)
         /\ \A x \in RangeOf(Built(m)[i].mounts) : x.name \in GivenName /\ x.name \notin Reserved
<1> PICK b : b = Built(m)
  OBVIOUS
<1> PICK a : a = All(m)
  OBVIOUS
<1> PICK f : f = Off(m)
  OBVIOUS
<1> PICK MS : MS = [name : GivenName, path : Path]
  OBVIOUS
<1>1. PICK e \in 0 .. Len(a) :
         /\ b \in Seq(Item) /\ Len(b) = f + e
         /\ m.clone => b[1] = CloneStep
         /\ \A j \in 1 .. e : b[f + j].mounts = a[j].mounts
  BY BuiltFacts
<1>2. a \in Seq(Item) /\ DOMAIN a = 1 .. Len(a) /\ Len(a) \in Nat
  <2>1. a \in Seq(Item)
    BY AllFacts
  <2> QED
    BY ONLY <2>1, LenProperties
<1>3. DOMAIN b = 1 .. f + e /\ e \in Nat
  <2>1. b \in Seq(Item) /\ Len(b) = f + e
    BY <1>1
  <2>2. DOMAIN b = 1 .. Len(b)
    BY <2>1, LenProperties
  <2>3. e \in Nat
    <3> PICK l : l = Len(a)
      OBVIOUS
    <3>1. e \in 0 .. l /\ l \in Nat
      BY <1>2
    <3> QED
      BY ONLY <3>1
  <2> QED
    BY <2>1, <2>2, <2>3
<1>4. b[i] \in Item
  <2>1. b \in Seq(Item) /\ i \in DOMAIN b
    BY <1>1
  <2> QED
    BY ONLY <2>1
<1>5. b[i].mounts \in Seq(MS)
  BY <1>4 DEF Item
<1> PICK ms : ms = b[i].mounts
  OBVIOUS
<1>6. IsList(ms) /\ RangeOf(ms) \subseteq MS
  <2>1. ms \in Seq(MS)
    BY <1>5
  <2> QED
    BY ONLY <2>1, ListFacts
<1>7. \A x \in RangeOf(ms) : x.name \in GivenName
  <2>1. \A x \in MS : x.name \in GivenName
    OBVIOUS
  <2> QED
    BY ONLY <1>6, <2>1
<1>8. CASE m.clone /\ i = 1
  <2>1. ms = <<>>
    <3>1. b[1] = CloneStep
      BY <1>1, <1>8
    <3> QED
      BY <1>8, <3>1, CloneStepType
  <2>2. RangeOf(ms) = {}
    BY <2>1, EmptyList
  <2> QED
    BY <1>6, <2>2
<1>9. CASE ~(m.clone /\ i = 1)
  <2>1. f = IF m.clone THEN 1 ELSE 0
    BY DEF Off
  <2> PICK j : j = i - f
    OBVIOUS
  <2>2. j \in 1 .. e /\ f + j = i /\ j \in DOMAIN a
    BY <1>2, <1>3, <1>9, <2>1
  <2>3. ms = a[j].mounts
    BY <1>1, <2>2
  <2>4. CheckStep(a[j], m.trusted)
    BY <2>2 DEF CheckStepsAccepts
  <2>5. \A k \in DOMAIN ms : ms[k].name \notin Reserved
    BY <2>3, <2>4 DEF CheckStep
  <2> QED
    BY <1>6, <1>7, <2>5 DEF RangeOf
<1> QED
  BY <1>8, <1>9

ConfiguredSteps(c, ws, o, mode, b, V) ==
    \A i \in 1 .. Len(b) : c[i] = HostConfig(V, StepMounts(ws, o, mode, b[i]))

ConfiguredRest(c, n, I, V) ==
    \A x \in 1 .. Len(I) : c[n + x] = HostConfig(V, I[x])

\* First the containers of the steps, then those of the internal steps.
LEMMA ContainersFacts ==
  ASSUME NEW m, NEW o \in Opts, NEW mode, NEW b \in Seq(Item), NEW c,
         c = Containers(m, o, mode, b), NEW V, V = SpecVolumes(m, o, mode, b),
         NEW I, I = InternalMounts(o)
  PROVE  /\ DOMAIN c = 1 .. Len(b) + Len(I)
         /\ Len(b) \in Nat /\ Len(I) \in Nat /\ DOMAIN I = 1 .. Len(I)
         /\ ConfiguredSteps(c, m.workspace, o, mode, b, V) /\ ConfiguredRest(c, Len(b), I, V)
<1> PICK n, l : n = Len(b) /\ l = Len(I)
  OBVIOUS
<1>1. n \in Nat /\ l \in Nat /\ DOMAIN b = 1 .. n /\ DOMAIN I = 1 .. l
  <2>1. IsList(I)
    BY InternalMountsFacts
  <2> QED
    BY <2>1, LenProperties DEF IsList
<1> DEFINE F(i) == HostConfig(V, StepMounts(m.workspace, o, mode, b[i]))
           G(x) == HostConfig(V, I[x])
           f == [i \in 1 .. n |-> F(i)]
           g == [x \in 1 .. l |-> G(x)]
<1>2. c = f \o g
  BY <1>1 DEF Containers
<1> HIDE DEF F, G
<1>3. f \in [1 .. n -> {F(i) : i \in 1 .. n}] /\ g \in [1 .. l -> {G(x) : x \in 1 .. l}]
  OBVIOUS
<1>4. (\A i \in 1 .. n : f[i] = F(i)) /\ (\A x \in 1 .. l : g[x] = G(x))
  OBVIOUS
<1> HIDE DEF f, g
<1>5. IsList(f) /\ Len(f) = n /\ IsList(g) /\ Len(g) = l
  BY <1>1, <1>3, FunctionList
<1>6. /\ DOMAIN c = 1 .. Len(f) + Len(g)
      /\ \A i \in 1 .. Len(f) : c[i] = f[i]
      /\ \A i \in 1 .. Len(g) : c[Len(f) + i] = g[i]
  <2>1. IsList(f) /\ IsList(g) /\ c = f \o g
    BY <1>2, <1>5
  <2> QED
    BY ONLY <2>1, JoinFacts
<1>7. /\ DOMAIN c = 1 .. n + l
      /\ \A i \in 1 .. n : c[i] = F(i)
      /\ \A i \in 1 .. l : c[n + i] = G(i)
  BY <1>4, <1>5, <1>6
<1> QED
  BY <1>1, <1>7 DEF F, G, ConfiguredSteps, ConfiguredRest

\* The state in which a spec with its containers has been returned.
Whole == IInv /\ at = "compiled" /\ spec.complete

\* What a spec that Compile finished was made from.
LEMMA WholeFacts ==
  ASSUME Whole
  PROVE  /\ Manifest(manifest) /\ opts \in Opts /\ Built(manifest) \in Seq(Item)
         /\ spec.containers = Containers(manifest, opts, spec.transport, Built(manifest))
         /\ DOMAIN spec.steps = 1 .. Len(Built(manifest))
         /\ \A i \in DOMAIN spec.steps :
               spec.dirs[i] = OutputDir(manifest.workspace, opts, spec.transport,
                                        spec.steps[i].name)
<1>1. Manifest(manifest) /\ opts \in Opts
  BY DEF Whole, IInv
<1>2. DOMAIN spec.steps = DOMAIN Built(manifest)
  BY CompiledFacts DEF Whole
<1>3. Built(manifest) \in Seq(Item)
  BY <1>1, BuiltFacts
<1>4. PICK listens \in BOOLEAN :
         /\ spec.transport = OutputTransport(opts, listens)
         /\ spec.dirs = [i \in DOMAIN Built(manifest) |->
                            OutputDir(manifest.workspace, opts, OutputMode(opts, listens),
                                      Built(manifest)[i].name)]
         /\ spec.containers = Containers(manifest, opts, OutputMode(opts, listens), Built(manifest))
  BY DEF Whole, IInv, CompileInv
<1>5. spec.transport = OutputMode(opts, listens)
  BY <1>4 DEF OutputTransport
<1>6. ASSUME NEW i \in DOMAIN spec.steps
      PROVE  spec.dirs[i] = OutputDir(manifest.workspace, opts, spec.transport,
                                      spec.steps[i].name)
  <2> PICK b, s : b = Built(manifest) /\ s = spec.steps
    OBVIOUS
  <2>1. i \in DOMAIN b /\ Like(s[i], b[i])
    BY CompiledFacts DEF Whole
  <2>2. s[i].name = b[i].name
    BY <2>1 DEF Like
  <2> QED
    BY <1>4, <1>5, <2>1, <2>2
<1> QED
  BY <1>1, <1>2, <1>3, <1>4, <1>5, <1>6

\* The container of a step, and what the linter saw of its mounts.
LEMMA StepContainer ==
  ASSUME Whole, NEW i \in DOMAIN spec.steps, NEW mode, mode = spec.transport,
         NEW item, item = spec.steps[i], NEW h, h = spec.containers[i],
         NEW M, M = StepMounts(manifest.workspace, opts, mode, item),
         NEW V, V = SpecVolumes(manifest, opts, mode, Built(manifest))
  PROVE  /\ h = HostConfig(V, M)
         /\ IsList(item.mounts)
         /\ \A x \in RangeOf(item.mounts) : x.name \in GivenName /\ x.name \notin Reserved
         /\ \E j \in DOMAIN Built(manifest) : Built(manifest)[j].name = item.name
<1> PICK b : b = Built(manifest)
  OBVIOUS
<1> PICK c : c = spec.containers
  OBVIOUS
<1> PICK I : I = InternalMounts(opts)
  OBVIOUS
<1>1. /\ Manifest(manifest) /\ opts \in Opts /\ b \in Seq(Item)
      /\ c = Containers(manifest, opts, mode, b)
      /\ DOMAIN spec.steps = 1 .. Len(b)
  BY WholeFacts
<1>2. \A j \in 1 .. Len(b) : c[j] = HostConfig(V, StepMounts(manifest.workspace, opts, mode, b[j]))
  <2>1. /\ opts \in Opts /\ b \in Seq(Item) /\ c = Containers(manifest, opts, mode, b)
        /\ V = SpecVolumes(manifest, opts, mode, b) /\ I = InternalMounts(opts)
    BY <1>1
  <2>2. ConfiguredSteps(c, manifest.workspace, opts, mode, b, V)
    BY ONLY <2>1, ContainersFacts
  <2> QED
    BY ONLY <2>2 DEF ConfiguredSteps
<1>3. h = HostConfig(V, StepMounts(manifest.workspace, opts, mode, b[i]))
  BY <1>1, <1>2
<1>4. i \in DOMAIN b /\ item.name = b[i].name /\ item.mounts = b[i].mounts
  <2>1. DOMAIN spec.steps = DOMAIN b /\ \A j \in DOMAIN spec.steps : Like(spec.steps[j], b[j])
    BY CompiledFacts DEF Whole
  <2>2. Like(item, b[i])
    BY <2>1
  <2> QED
    BY <2>1, <2>2 DEF Like
<1>5. StepMounts(manifest.workspace, opts, mode, b[i]) = M
  BY <1>4 DEF StepMounts
<1>6. /\ IsList(b[i].mounts)
      /\ \A x \in RangeOf(b[i].mounts) : x.name \in GivenName /\ x.name \notin Reserved
  <2>1. CheckStepsAccepts(manifest)
    BY DEF Whole, IInv
  <2> QED
    BY <1>1, <1>4, <2>1, BuiltMounts
<1> QED
  BY <1>3, <1>4, <1>5, <1>6

\* No two steps have one name.
LEMMA NamesDiffer ==
  ASSUME Whole, NEW i \in DOMAIN spec.steps, NEW j \in DOMAIN spec.steps,
         spec.steps[i].name = spec.steps[j].name
  PROVE  i = j
<1> PICK s : s = spec.steps
  OBVIOUS
<1>1. s \in Seq(Item) /\ InOrder(s)
  BY CompiledFacts DEF Whole
<1> QED
  BY <1>1, InOrderUnique

\* What is asked for in a step.
LEMMA AskedFacts ==
  ASSUME Whole, NEW i \in DOMAIN spec.steps, NEW own, own = spec.steps[i].mounts,
         NEW G, G = GlobalMounts(opts)
  PROVE  /\ Asked(i) = own \o G /\ IsList(own) /\ IsList(G) /\ IsList(Asked(i))
         /\ RangeOf(Asked(i)) = RangeOf(own) \cup RangeOf(G)
<1> PICK mode, item, h : mode = spec.transport /\ item = spec.steps[i] /\ h = spec.containers[i]
  OBVIOUS
<1> PICK M : M = StepMounts(manifest.workspace, opts, mode, item)
  OBVIOUS
<1> PICK V : V = SpecVolumes(manifest, opts, mode, Built(manifest))
  OBVIOUS
<1>1. IsList(item.mounts)
  BY StepContainer
<1>2. IsList(G)
  <2>1. opts \in Opts
    BY WholeFacts
  <2> QED
    BY <2>1, GlobalVolumesFacts
<1>3. Asked(i) = own \o G
  BY DEF Asked
<1> PICK a : a = Asked(i)
  OBVIOUS
<1>4. IsList(own) /\ IsList(G) /\ a = own \o G
  BY <1>1, <1>2, <1>3
<1>5. IsList(a) /\ RangeOf(a) = RangeOf(own) \cup RangeOf(G)
  BY ONLY <1>4, JoinFacts
<1> QED
  BY <1>4, <1>5

\* The mounts of the i-th step, each with what became of it.
LEMMA StepEntries ==
  ASSUME Whole, NEW i \in DOMAIN spec.steps, NEW mode, mode = spec.transport,
         NEW item, item = spec.steps[i], NEW h, h = spec.containers[i],
         NEW M, M = StepMounts(manifest.workspace, opts, mode, item),
         NEW V, V = SpecVolumes(manifest, opts, mode, Built(manifest))
  PROVE  /\ IsList(M) /\ IsList(V) /\ h = HostConfig(V, M)
         /\ \A v \in RangeOf(V) : Mountable(v)
         /\ \A e \in DOMAIN h : Entry(V, M, h, e)
         /\ \A x : x \in RangeOf(M) <=>
                \/ x \in RangeOf(Asked(i)) \/ IsGiven(manifest.workspace, opts, mode, item.name, x)
<1> PICK b : b = Built(manifest)
  OBVIOUS
<1> PICK own, G : own = item.mounts /\ G = GlobalMounts(opts)
  OBVIOUS
<1>1. Manifest(manifest) /\ opts \in Opts /\ b \in Seq(Item)
  BY WholeFacts
<1>2. h = HostConfig(V, M) /\ IsList(own)
  BY StepContainer
<1>3. IsList(V) /\ \A v \in RangeOf(V) : Mountable(v)
  BY <1>1, VolumeFacts
<1>4. \A e \in DOMAIN h : Entry(V, M, h, e)
  BY ONLY <1>2, HostConfigFacts
<1>5. /\ IsList(M)
      /\ \A x : x \in RangeOf(M) <=>
             \/ x \in RangeOf(own) \/ IsGiven(manifest.workspace, opts, mode, item.name, x) \/ x \in RangeOf(G)
  BY <1>1, <1>2, StepMountsRange
<1>6. RangeOf(Asked(i)) = RangeOf(own) \cup RangeOf(G)
  BY AskedFacts
<1> QED
  BY <1>2, <1>3, <1>4, <1>5, <1>6

\* The directory of a step's outputs is mounted, and alone unless somebody asks
\* for its path or has the workspace there.
LEMMA OwnDirectoryMounted ==
  ASSUME Whole, NEW i \in DOMAIN spec.steps, HasOutputVolumes(opts, spec.transport),
         NEW path, path = OutputPath(opts, spec.transport, spec.steps[i].name),
         NEW dir, dir = OutputVolume(spec.transport, spec.steps[i].name)
  PROVE  /\ dir \in MountedAt(i, path)
         /\ /\ \A n \in DOMAIN Asked(i) : Asked(i)[n].path # path
            /\ Workspace(manifest.workspace, opts).base # path
            => MountedAt(i, path) = {dir}
<1> PICK mode, item, h : mode = spec.transport /\ item = spec.steps[i] /\ h = spec.containers[i]
  OBVIOUS
<1> PICK M : M = StepMounts(manifest.workspace, opts, mode, item)
  OBVIOUS
<1> PICK V : V = SpecVolumes(manifest, opts, mode, Built(manifest))
  OBVIOUS
<1> PICK b : b = Built(manifest)
  OBVIOUS
<1> PICK x : x = OutputMount(opts, mode, item.name)
  OBVIOUS
<1>1. Manifest(manifest) /\ opts \in Opts /\ b \in Seq(Item)
  BY WholeFacts
<1>2. /\ IsList(M) /\ IsList(V) /\ h = HostConfig(V, M)
      /\ \A e \in DOMAIN h : Entry(V, M, h, e)
      /\ \A y : y \in RangeOf(M) <=>
             \/ y \in RangeOf(Asked(i)) \/ IsGiven(manifest.workspace, opts, mode, item.name, y)
  BY StepEntries
<1>3. dir.name = <<"outputs", item.name>> /\ dir.kind \in VolumeKind
  <2>1. dir = OutputVolume(mode, item.name)
    OBVIOUS
  <2> PICK step : step = item.name
    OBVIOUS
  <2>3. dir = OutputVolume(mode, step)
    BY <2>1
  <2>2. dir.name = <<"outputs", step>> /\ dir.kind = "dir"
    BY ONLY <2>3, OutputVolumeFields
  <2> QED
    BY <2>2 DEF VolumeKind, HostKind
<1>4. x.name = dir.name /\ x.path = path
  BY <1>3 DEF OutputMount, Mount
<1>5. Declared(V, dir.name) /\ LookupVolume(V, dir.name) = dir
  <2>1. \E j \in DOMAIN b : b[j].name = item.name
    BY StepContainer
  <2>2. IsOwn(opts, mode, b, dir)
    BY <2>1 DEF IsOwn
  <2> QED
    BY <1>1, <2>2, VolumeFacts
<1>6. \A y : MountedAt(i, y) = {h[j].volume : j \in {k \in DOMAIN h : h[k].path = y}}
  BY DEF MountedAt
<1>7. dir \in MountedAt(i, path)
  <2>1. x \in RangeOf(M)
    BY <1>2 DEF IsGiven
  <2>2. PICK k \in DOMAIN M : M[k] = x
    BY <2>1 DEF RangeOf
  <2>3. k \in Found(V, M) /\ VolumeOf(V, M, k) = dir
    BY <1>4, <1>5, <2>2 DEF Found, VolumeOf
  <2>4. \E e \in DOMAIN h : e[2] = k
    <3>1. \A l \in Found(V, M) : VolumeOf(V, M, l).kind \in VolumeKind => \E e \in DOMAIN h : e[2] = l
      BY <1>2, HostConfigFacts
    <3> QED
      BY <1>3, <2>3, <3>1
  <2>5. PICK e \in DOMAIN h : e[2] = k
    BY <2>4
  <2>6. h[e].path = path /\ h[e].volume = dir
    <3>1. Entry(V, M, h, e)
      BY <1>2
    <3> QED
      BY <1>4, <2>2, <2>3, <2>5, <3>1 DEF Entry
  <2> QED
    BY <1>6, <2>6
<1>8. ASSUME \A n \in DOMAIN Asked(i) : Asked(i)[n].path # path,
             Workspace(manifest.workspace, opts).base # path,
             NEW e \in DOMAIN h, h[e].path = path
      PROVE  h[e].volume = dir
  <2>1. Entry(V, M, h, e)
    BY <1>2
  <2> PICK k : k = e[2]
    OBVIOUS
  <2>2. k \in DOMAIN M /\ M[k].path = path /\ h[e].volume = LookupVolume(V, M[k].name)
    BY <1>8, <2>1 DEF Entry, Found, VolumeOf
  <2> PICK y : y = M[k]
    OBVIOUS
  <2>3. y \in RangeOf(M) /\ y.path = path
    BY <2>2 DEF RangeOf
  <2>4. y \notin RangeOf(Asked(i))
    BY <1>8, <2>3 DEF RangeOf
  <2>5. IsGiven(manifest.workspace, opts, mode, item.name, y)
    BY <1>2, <2>3, <2>4
  <2>6. path \notin {Bin, Helper, Addons}
    BY <1>1, PathsApart
  <2>7. y = x
    <3>1. y # WorkspaceMount(manifest.workspace, opts)
      <4> PICK base : base = Workspace(manifest.workspace, opts).base
        OBVIOUS
      <4>1. WorkspaceMount(manifest.workspace, opts).path = base
        BY MountFields DEF WorkspaceMount
      <4> QED
        BY <1>8, <2>3, <4>1
    <3>2. y # HelperMount(opts)
      BY <2>3, <2>6, MountFields DEF HelperMount
    <3>3. y # Mount(<<"_addons">>, Addons)
      BY <2>3, <2>6, MountFields
    <3> QED
      BY <2>5, <3>1, <3>2, <3>3, Zenon DEF IsGiven
  <2> QED
    BY <1>4, <1>5, <2>2, <2>7
<1> QED
  BY <1>6, <1>7, <1>8

\* The directory in which a step's outputs arrive is mounted in its container where
\* the step is told it is, and nothing else is at its path unless somebody asks for
\* it or the manifest has its workspace there; container, executor and output
\* service go by the same transport.
THEOREM OutputsMeet == Spec => []EndsMeet
<1>1. IInv /\ TransportsMeet => EndsMeet
  <2> SUFFICES ASSUME IInv, TransportsMeet, Compiled, Enabled(opts), opts.mode # "other",
                      spec.complete, HasOutputVolumes(opts, spec.transport),
                      NEW i \in DOMAIN spec.steps,
                      NEW path, path = spec.dirs[i],
                      NEW dir, dir = OutputVolume(spec.transport, spec.steps[i].name)
               PROVE  /\ dir \in MountedAt(i, path)
                      /\ /\ \A n \in DOMAIN Asked(i) : Asked(i)[n].path # path
                         /\ Workspace(manifest.workspace, opts).base # path
                         => MountedAt(i, path) = {dir}
    BY Zenon DEF EndsMeet, TransportsMeet
  <2>1. Whole
    BY DEF Whole, Compiled
  <2>2. path = OutputPath(opts, spec.transport, spec.steps[i].name)
    <3>1. path = OutputDir(manifest.workspace, opts, spec.transport, spec.steps[i].name)
      BY <2>1, WholeFacts
    <3> QED
      BY <3>1 DEF OutputDir, HasOutputVolumes
  <2> QED
    BY <2>1, <2>2, OwnDirectoryMounted
<1> QED
  BY <1>1, Inductive, Agreed, PTL

-----------------------------------------------------------------------------
(* Who can reach the directory of a step                                     *)

\* A name of two components is none that a manifest gives.
LEMMA OneString ==
  ASSUME NEW name \in GivenName, NEW x, NEW y
  PROVE  name # <<x, y>>
<1> SUFFICES ASSUME name = <<x, y>> PROVE FALSE
  OBVIOUS
<1>1. DOMAIN name = {1}
  BY DEF GivenName
<1>2. DOMAIN <<x, y>> = 1 .. 2
  OBVIOUS
<1>3. 2 \in 1 .. 2 /\ 2 \notin {1}
  OBVIOUS
<1> QED
  BY <1>1, <1>2, <1>3

\* The name and the path of a global mount.
LEMMA GlobalMountFields ==
  ASSUME NEW o \in Opts, NEW gs, gs = Globals(o), NEW G, G = GlobalMounts(o), NEW g \in DOMAIN gs
  PROVE  G[g].name = <<"global", g>> /\ G[g].path = gs[g].path
<1> PICK vs : vs = GlobalVolumes(o)
  OBVIOUS
<1> PICK name, path : name = <<"global", g>> /\ path = gs[g].path
  OBVIOUS
<1>1. \A l \in DOMAIN gs : GlobalAt(l, gs[l], vs[l], G[l])
  BY GlobalVolumesFacts
<1>2. G[g] = Mount(name, path)
  BY <1>1 DEF GlobalAt
<1> QED
  BY <1>2, MountFields

\* A path begins with the directory that it lies in.
LEMMA UnderFacts ==
  ASSUME NEW S, NEW p \in Seq(S), NEW d, Len(d) \in Nat, Under(p, d)
  PROVE  Len(d) <= Len(p) /\ \A x \in 1 .. Len(d) : d[x] = p[x]
<1> PICK l : l = Len(d)
  OBVIOUS
<1>1. l \in Nat /\ l <= Len(p) /\ SubSeq(p, 1, l) = d /\ Len(p) \in Nat
  BY DEF Under
<1>2. ASSUME NEW x \in 1 .. l PROVE d[x] = p[x]
  <2>1. p \in Seq(S) /\ l \in Nat /\ l <= Len(p)
    BY <1>1
  <2>2. SubSeq(p, 1, l)[x] = p[x]
    BY ONLY <2>1, x \in 1 .. l
  <2> QED
    BY <1>1, <2>2
<1> QED
  BY <1>1, <1>2

\* p goes on where d ends.
Leads(p, d) ==
    /\ IsList(p) /\ IsList(d) /\ Len(d) <= Len(p)
    /\ \A x \in 1 .. Len(d) : p[x] = d[x]

\* Then it lies in d.
LEMMA LeadsUnder ==
  ASSUME NEW p, NEW d, Leads(p, d)
  PROVE  Under(p, d)
<1> PICK l, n : l = Len(d) /\ n = Len(p)
  OBVIOUS
<1>1. IsList(p) /\ IsList(d) /\ l <= n /\ \A x \in 1 .. l : p[x] = d[x]
  BY DEF Leads
<1>2. l \in Nat /\ n \in Nat /\ DOMAIN p = 1 .. n /\ d \in [1 .. l -> RangeOf(d)]
  BY <1>1, LenProperties DEF IsList
<1> PICK S : S = RangeOf(p)
  OBVIOUS
<1>3. \A x \in 1 .. l : p[x] \in S
  BY <1>1, <1>2 DEF RangeOf
<1> PICK t : t = SubSeq(p, 1, l)
  OBVIOUS
<1>4. /\ t \in Seq(S) /\ Len(t) = (IF 1 <= l THEN l - 1 + 1 ELSE 0)
      /\ \A x \in 1 .. l - 1 + 1 : t[x] = p[1 + x - 1]
  <2>1. 1 \in Int /\ l \in Int
    BY <1>2
  <2> QED
    BY ONLY <1>3, <2>1, t = SubSeq(p, 1, l), SubSeqProperties
<1>5. Len(t) = l /\ \A x \in 1 .. l : t[x] = d[x]
  <2>1. l - 1 + 1 = l /\ \A x \in 1 .. l : 1 + x - 1 = x
    BY ONLY <1>2
  <2> QED
    BY <1>1, <1>2, <1>4, <2>1
<1>6. d \in Seq(S)
  <2>1. d \in [1 .. l -> S]
    BY <1>1, <1>2, <1>3
  <2> QED
    BY ONLY <1>2, <2>1
<1>7. t = d
  <2>1. Len(t) = Len(d) /\ \A x \in 1 .. Len(t) : t[x] = d[x]
    BY <1>5
  <2> QED
    BY ONLY <1>4, <1>6, <2>1, SeqEqual
<1> QED
  BY <1>1, <1>7 DEF Under

\* What is joined to it goes on too.
LEMMA LeadsJoin ==
  ASSUME NEW p, NEW d, Leads(p, d), NEW t, IsList(t), NEW u, u = p \o t
  PROVE  Leads(u, d)
<1> PICK l, n, k : l = Len(d) /\ n = Len(p) /\ k = Len(t)
  OBVIOUS
<1>1. IsList(p) /\ IsList(d) /\ l <= n /\ \A x \in 1 .. l : p[x] = d[x]
  BY DEF Leads
<1>2. /\ IsList(u) /\ Len(u) = n + k /\ n \in Nat /\ k \in Nat
      /\ \A x \in 1 .. n : u[x] = p[x]
  <2>1. IsList(p) /\ IsList(t) /\ u = p \o t
    BY <1>1
  <2>2. IsList(u) /\ Len(u) = Len(p) + Len(t) /\ Len(p) \in Nat /\ Len(t) \in Nat
    BY ONLY <2>1, JoinFacts
  <2>3. \A x \in 1 .. Len(p) : u[x] = p[x]
    BY ONLY <2>1, JoinFacts
  <2> QED
    BY <2>2, <2>3
<1>3. l \in Nat
  BY <1>1, LenProperties DEF IsList
<1>4. l <= n + k /\ \A x \in 1 .. l : u[x] = d[x]
  BY <1>1, <1>2, <1>3
<1> QED
  BY <1>1, <1>2, <1>4 DEF Leads

\* The steps work in the directory that is mounted or below it.
LEMMA WorkspaceFacts ==
  ASSUME NEW ws, ws \in [base : Path, path : Path, rooted : BOOLEAN], NEW o,
         NEW base, base = Workspace(ws, o).base, NEW full, full = Workspace(ws, o).full
  PROVE  Leads(full, base)
<1> PICK b, p, s : b = ws.base /\ p = ws.path /\ s = Src
  OBVIOUS
<1>1. IsList(b) /\ IsList(p)
  <2> PICK S : S = STRING \cup Name
    OBVIOUS
  <2>1. b \in Seq(S) /\ p \in Seq(S)
    BY DEF Path
  <2> QED
    BY ONLY <2>1, ListFacts
<1>2. IsList(s)
  <2> PICK S : S = {"drone", "src"}
    OBVIOUS
  <2>1. "drone" \in S /\ "src" \in S
    OBVIOUS
  <2>2. s = <<"drone", "src">>
    BY DEF Src
  <2>3. s \in Seq(S)
    BY ONLY <2>1, <2>2
  <2> QED
    BY <2>3, ListFacts
<1>3. \A x : IsList(x) => Leads(x, x)
  <2> SUFFICES ASSUME NEW x, IsList(x) PROVE Leads(x, x)
    OBVIOUS
  <2>1. Len(x) \in Nat
    BY LenProperties DEF IsList
  <2> QED
    BY <2>1 DEF Leads
<1> PICK asked : asked = CreateWorkspace(ws)
  OBVIOUS
<1> PICK ab, af : ab = asked.base /\ af = asked.full
  OBVIOUS
<1>9. \E x, y : /\ asked = [base |-> x, full |-> y]
                /\ (x = b \/ x = p \/ x = s) /\ (y = x \/ y = x \o p)
  BY DEF CreateWorkspace
<1>10. asked = [base |-> ab, full |-> af]
  BY <1>9
<1>4. (ab = b \/ ab = p \/ ab = s) /\ (af = ab \/ af = ab \o p)
  BY <1>9
<1>5. IsList(ab)
  BY <1>1, <1>2, <1>4
<1>6. Leads(af, ab)
  <2>1. Leads(ab, ab)
    BY <1>3, <1>5
  <2>2. Leads(ab \o p, ab)
    BY <1>1, <2>1, LeadsJoin
  <2> QED
    BY <1>4, <2>1, <2>2
<1>7. IsList(af)
  BY <1>6 DEF Leads
<1>8. \/ full = af /\ base = ab
      \/ full = s /\ base = s
      \/ full = af /\ base = af
  <2> PICK given : given = IF asked.full \in Restricted THEN [base |-> s, full |-> s] ELSE asked
    OBVIOUS
  <2>1. \/ given = [base |-> s, full |-> s] \/ given = [base |-> ab, full |-> af]
    BY <1>10
  <2>2. Workspace(ws, o) = IF o.mount THEN [given EXCEPT !.base = given.full] ELSE given
    BY DEF Workspace
  <2>3. ASSUME NEW x, NEW y, given = [base |-> x, full |-> y]
        PROVE  full = y /\ (base = x \/ base = y)
    <3> PICK r : r = Workspace(ws, o)
      OBVIOUS
    <3>1. r = [base |-> x, full |-> y] \/ r = [base |-> y, full |-> y]
      BY ONLY <2>2, <2>3, r = Workspace(ws, o)
    <3> QED
      BY <3>1
  <2> QED
    BY <2>1, <2>3
<1> QED
  BY <1>2, <1>3, <1>6, <1>7, <1>8

\* The components of the directory on the host for a step's outputs.
LEMMA OutputHostFacts ==
  ASSUME NEW step, NEW p, p = OutputHost("file", step)
  PROVE  Len(p) = 4 /\ p[1] = "host" /\ p[4] = step /\ \E S : p \in Seq(S)
<1> PICK S : S = {"host", "outputs", "uuid", step}
  OBVIOUS
<1>1. "host" \in S /\ "outputs" \in S /\ "uuid" \in S /\ step \in S
  OBVIOUS
<1> PICK r, u : r = <<"host", "outputs">> /\ u = <<"uuid", step>>
  OBVIOUS
<1>2. r \in Seq(S) /\ Len(r) = 2 /\ r[1] = "host"
  BY ONLY <1>1, r = <<"host", "outputs">>
<1>3. u \in Seq(S) /\ Len(u) = 2 /\ u[2] = step
  BY ONLY <1>1, u = <<"uuid", step>>
<1>4. p = r \o u
  BY DEF OutputHost, HostBase
<1>5. /\ p \in Seq(S) /\ Len(p) = Len(r) + Len(u)
      /\ \A i \in 1 .. Len(r) : p[i] = r[i]
      /\ \A i \in 1 .. Len(u) : p[Len(r) + i] = u[i]
  <2>1. r \in Seq(S) /\ u \in Seq(S) /\ p = r \o u
    BY <1>2, <1>3, <1>4
  <2>2. p \in Seq(S) /\ Len(p) = Len(r) + Len(u)
    BY ONLY <2>1, ConcatFacts
  <2>3. \A i \in 1 .. Len(r) : p[i] = r[i]
    BY ONLY <2>1, ConcatFacts
  <2>4. \A i \in 1 .. Len(u) : p[Len(r) + i] = u[i]
    BY ONLY <2>1, ConcatFacts
  <2> QED
    BY <2>2, <2>3, <2>4
<1>6. Len(p) = 4 /\ p[1] = r[1] /\ p[4] = u[2]
  <2>1. 1 \in 1 .. 2 /\ 2 \in 1 .. 2 /\ 2 + 2 = 4
    OBVIOUS
  <2> QED
    BY <1>2, <1>3, <1>5, <2>1
<1> QED
  BY <1>2, <1>3, <1>5, <1>6

\* No step has files of another's directory there, nor has what is elsewhere.
LEMMA HostsApart ==
  ASSUME NEW mine, NEW other, mine # other, NEW p, p = OutputHost("file", other),
         NEW q, q = OutputHost("file", mine) \/ q = Elsewhere
  PROVE  ~Under(p, q) /\ ~Under(q, p)
<1>1. Len(p) = 4 /\ p[1] = "host" /\ p[4] = other /\ \E S : p \in Seq(S)
  BY OutputHostFacts
<1>2. \/ Len(q) = 4 /\ q[4] = mine /\ \E S : q \in Seq(S)
      \/ Len(q) = 1 /\ q[1] = "elsewhere" /\ \E S : q \in Seq(S)
  <2>1. CASE q = OutputHost("file", mine)
    BY <2>1, OutputHostFacts
  <2>2. CASE q = Elsewhere
    <3> PICK S : S = {"elsewhere"}
      OBVIOUS
    <3>1. "elsewhere" \in S
      OBVIOUS
    <3>2. q = <<"elsewhere">>
      BY <2>2 DEF Elsewhere
    <3>3. q \in Seq(S) /\ Len(q) = 1 /\ q[1] = "elsewhere"
      BY ONLY <3>1, <3>2
    <3> QED
      BY <3>3
  <2> QED
    BY <2>1, <2>2
<1>3. ASSUME Under(p, q) PROVE FALSE
  <2>1. Len(q) \in Nat /\ Len(q) >= 1
    BY <1>2
  <2>2. \A x \in 1 .. Len(q) : q[x] = p[x]
    BY <1>1, <1>3, <2>1, UnderFacts
  <2> QED
    BY <1>1, <1>2, <2>2
<1>4. ASSUME Under(q, p) PROVE FALSE
  <2>1. Len(p) \in Nat /\ \E S : q \in Seq(S)
    BY <1>1, <1>2
  <2>2. Len(p) <= Len(q) /\ \A x \in 1 .. Len(p) : p[x] = q[x]
    BY <1>4, <2>1, UnderFacts
  <2> QED
    BY <1>1, <1>2, <2>2
<1> QED
  BY <1>3, <1>4

\* A mount of a step whose name is that of an output volume is the step's own.
LEMMA OutputMountsName ==
  ASSUME Whole, NEW i \in DOMAIN spec.steps, NEW item, item = spec.steps[i],
         NEW x, NEW step, x.name = <<"outputs", step>>,
         \/ x \in RangeOf(Asked(i))
         \/ IsGiven(manifest.workspace, opts, spec.transport, item.name, x)
  PROVE  step = item.name
<1> PICK mode, h : mode = spec.transport /\ h = spec.containers[i]
  OBVIOUS
<1> PICK own, G, gs : own = item.mounts /\ G = GlobalMounts(opts) /\ gs = Globals(opts)
  OBVIOUS
<1> PICK n : n = x.name
  OBVIOUS
<1>0. n = <<"outputs", step>> /\ n[1] = "outputs" /\ n[2] = step
  OBVIOUS
<1>1. opts \in Opts
  BY WholeFacts
<1>2. RangeOf(Asked(i)) = RangeOf(own) \cup RangeOf(G)
  BY AskedFacts
<1>3. CASE x \in RangeOf(own)
  <2>1. n \in GivenName
    <3> PICK M, V : /\ M = StepMounts(manifest.workspace, opts, mode, item)
                    /\ V = SpecVolumes(manifest, opts, mode, Built(manifest))
      OBVIOUS
    <3> QED
      BY <1>3, StepContainer
  <2> QED
    BY <1>0, <2>1, OneString
<1>4. CASE x \in RangeOf(G)
  <2>1. PICK g \in DOMAIN G : x = G[g]
    BY <1>4 DEF RangeOf
  <2>2. DOMAIN G = DOMAIN gs
    BY <1>1, GlobalVolumesFacts
  <2>3. n = <<"global", g>>
    BY <1>1, <2>1, <2>2, GlobalMountFields
  <2>4. n[1] = "global"
    BY <2>3
  <2> QED
    BY <1>0, <2>4
<1>5. CASE IsGiven(manifest.workspace, opts, mode, item.name, x)
  <2> PICK ws, mine : ws = manifest.workspace /\ mine = item.name
    OBVIOUS
  <2>1. IsGiven(ws, opts, mode, mine, x)
    BY <1>5
  <2>4. GivenMountName(mine, x.name)
    BY ONLY <2>1, GivenMounts
  <2>2. \/ n = <<"_workspace">> \/ n = <<"_output_helper">>
        \/ n = <<"helper", "id">> \/ n = <<"_addons">>
        \/ n = <<"outputs", mine>>
    BY <2>4 DEF GivenMountName
  <2>3. /\ <<"_workspace">>[1] = "_workspace" /\ <<"_output_helper">>[1] = "_output_helper"
        /\ <<"helper", "id">>[1] = "helper" /\ <<"_addons">>[1] = "_addons"
        /\ <<"outputs", mine>>[2] = mine
    OBVIOUS
  <2> QED
    BY <1>0, <2>2, <2>3
<1> QED
  BY <1>2, <1>3, <1>4, <1>5

\* A volume of Compile's that has files of another step's directory is one that the
\* configuration asks for.
LEMMA OwnKeptOut ==
  ASSUME Whole, spec.transport = "file", opts.root = "default",
         NEW i \in DOMAIN spec.steps, NEW item, item = spec.steps[i],
         NEW other, other # item.name,
         NEW v, IsOwn(opts, "file", Built(manifest), v),
         NEW x, x.name = v.name,
         \/ x \in RangeOf(Asked(i))
         \/ IsGiven(manifest.workspace, opts, "file", item.name, x),
         Overlap(v, OutputVolume("file", other))
  PROVE  Foreign(v)
<1> PICK p, mine : p = OutputHost("file", other) /\ mine = item.name
  OBVIOUS
<1>1. IsBindMount(v) /\ (Under(v.host, p) \/ Under(p, v.host))
  <2> PICK w : w = OutputVolume("file", other)
    OBVIOUS
  <2>1. w.host = p
    BY OutputVolumeFields
  <2> QED
    BY <2>1 DEF Overlap
<1>2. v.host # Elsewhere /\ v.host # OutputHost("file", mine)
  <2>1. mine # other
    OBVIOUS
  <2> QED
    BY ONLY <1>1, <2>1, p = OutputHost("file", other), HostsApart
<1>3. v.kind \in HostKind
  BY <1>1 DEF IsBindMount
<1>4. \A name, kind : Volume(name, kind).host = Elsewhere
  BY DEF Volume
<1>5. v # WorkspaceVolume(opts) /\ \A name, kind : v # Volume(name, kind)
  BY <1>2, <1>4 DEF WorkspaceVolume
<1>6. CASE \E l \in DOMAIN Built(manifest) : v = OutputVolume("file", Built(manifest)[l].name)
  <2>1. PICK step : v = OutputVolume("file", step)
    BY <1>6
  <2>2. v.name = <<"outputs", step>> /\ v.host = OutputHost("file", step)
    BY <2>1, OutputVolumeFields
  <2>3. step = mine
    BY <2>2, OutputMountsName
  <2> QED
    BY <1>2, <2>2, <2>3
<1>7. CASE \E g \in DOMAIN GlobalVolumes(opts) : v = GlobalVolumes(opts)[g]
  <2> PICK gs, vs, ms : gs = Globals(opts) /\ vs = GlobalVolumes(opts) /\ ms = GlobalMounts(opts)
    OBVIOUS
  <2>0. opts \in Opts
    BY WholeFacts
  <2>1. PICK g \in DOMAIN vs : v = vs[g]
    BY <1>7
  <2>2. DOMAIN vs = DOMAIN gs /\ \A l \in DOMAIN gs : GlobalAt(l, gs[l], vs[l], ms[l])
    BY <2>0, GlobalVolumesFacts
  <2>3. g \in DOMAIN gs /\ v.host = gs[g].host
    BY <2>1, <2>2 DEF GlobalAt
  <2>4. /\ gs[g].path # <<"drone", "outputs">>
        /\ \/ \E l \in DOMAIN opts.globals : gs[g] = opts.globals[l]
           \/ gs[g].path = OutputTarget(opts)
    BY <2>0, <2>3, GlobalsFacts
  <2>5. OutputTarget(opts) = <<"drone", "outputs">>
    BY DEF OutputTarget
  <2>6. PICK l \in DOMAIN opts.globals : gs[g] = opts.globals[l]
    BY <2>4, <2>5
  <2> QED
    BY <2>3, <2>6 DEF Foreign
<1> QED
  BY <1>5, <1>6, <1>7, Zenon DEF IsOwn

\* Whoever has files of another step's directory was asked to.
LEMMA OthersKeptOut ==
  ASSUME Whole, spec.transport = "file", opts.root = "default",
         NEW i \in DOMAIN spec.steps, NEW j \in DOMAIN spec.steps, i # j,
         NEW e \in DOMAIN spec.containers[i],
         NEW v, v = spec.containers[i][e].volume,
         Overlap(v, OutputVolume("file", spec.steps[j].name))
  PROVE  Foreign(v)
<1> PICK mode, item, h : mode = spec.transport /\ item = spec.steps[i] /\ h = spec.containers[i]
  OBVIOUS
<1> PICK M : M = StepMounts(manifest.workspace, opts, mode, item)
  OBVIOUS
<1> PICK b : b = Built(manifest)
  OBVIOUS
<1> PICK V : V = SpecVolumes(manifest, opts, mode, b)
  OBVIOUS
<1>1. Manifest(manifest) /\ opts \in Opts /\ b \in Seq(Item)
  BY WholeFacts
<1>2. /\ IsList(M) /\ IsList(V) /\ h = HostConfig(V, M)
      /\ \A d \in DOMAIN h : Entry(V, M, h, d)
      /\ \A y : y \in RangeOf(M) <=>
             \/ y \in RangeOf(Asked(i)) \/ IsGiven(manifest.workspace, opts, mode, item.name, y)
  BY StepEntries
<1> PICK k : k = e[2]
  OBVIOUS
<1>3. k \in DOMAIN M /\ Declared(V, M[k].name) /\ v = LookupVolume(V, M[k].name)
  <2>1. Entry(V, M, h, e)
    BY <1>2
  <2> QED
    BY <2>1 DEF Entry, Found, VolumeOf
<1> PICK x, name : x = M[k] /\ name = x.name
  OBVIOUS
<1>4. /\ x \in RangeOf(Asked(i))
         \/ IsGiven(manifest.workspace, opts, mode, item.name, x)
  BY <1>2, <1>3 DEF RangeOf
<1>5. v \in RangeOf(V) /\ v.name = name
  <2>1. IsList(V) /\ Declared(V, name)
    BY <1>2, <1>3
  <2>2. PICK l \in DOMAIN V : LookupVolume(V, name) = V[l] /\ V[l].name = name
    BY ONLY <2>1, LookupFacts
  <2> QED
    BY <1>3, <2>2 DEF RangeOf
<1>6. IsOwn(opts, mode, b, v) \/ \E d \in DOMAIN manifest.volumes : v = manifest.volumes[d]
  <2>1. \A w \in RangeOf(V) :
           IsOwn(opts, mode, b, w) \/ \E d \in DOMAIN manifest.volumes : w = manifest.volumes[d]
    BY <1>1, VolumeFacts
  <2> QED
    BY <1>5, <2>1
<1>7. CASE IsOwn(opts, mode, b, v)
  <2>1. spec.steps[j].name # item.name
    BY NamesDiffer
  <2> QED
    BY <1>4, <1>5, <1>7, <2>1, OwnKeptOut
<1>8. CASE \E d \in DOMAIN manifest.volumes : v = manifest.volumes[d]
  BY <1>8 DEF Foreign
<1> QED
  BY <1>6, <1>7, <1>8

\* The workspace that each step has mounted leads to the directory of every step.
LEMMA WorkspaceReaches ==
  ASSUME Whole, spec.transport = "file", Enabled(opts), ~opts.shared,
         NEW i \in DOMAIN spec.steps, NEW j \in DOMAIN spec.steps
  PROVE  \E e \in DOMAIN spec.containers[i] :
            /\ spec.containers[i][e].volume = WorkspaceVolume(opts)
            /\ Under(spec.dirs[j], spec.containers[i][e].path)
<1> PICK mode, item, h : mode = spec.transport /\ item = spec.steps[i] /\ h = spec.containers[i]
  OBVIOUS
<1> PICK ws : ws = manifest.workspace
  OBVIOUS
<1> PICK M : M = StepMounts(ws, opts, mode, item)
  OBVIOUS
<1> PICK b : b = Built(manifest)
  OBVIOUS
<1> PICK V : V = SpecVolumes(manifest, opts, mode, b)
  OBVIOUS
<1> PICK base, full : base = Workspace(ws, opts).base /\ full = Workspace(ws, opts).full
  OBVIOUS
<1> PICK v : v = WorkspaceVolume(opts)
  OBVIOUS
<1>1. Manifest(manifest) /\ opts \in Opts /\ b \in Seq(Item)
  BY WholeFacts
<1>2. /\ IsList(M) /\ IsList(V) /\ h = HostConfig(V, M)
      /\ \A d \in DOMAIN h : Entry(V, M, h, d)
      /\ \A y : y \in RangeOf(M) <=>
             \/ y \in RangeOf(Asked(i)) \/ IsGiven(ws, opts, mode, item.name, y)
  BY StepEntries
<1>3. Under(spec.dirs[j], base)
  <2> PICK step, t, u : /\ step = spec.steps[j].name /\ t = <<".drone-outputs", step>>
                        /\ u = full \o t
    OBVIOUS
  <2>1. spec.dirs[j] = u
    <3>1. spec.dirs[j] = OutputDir(ws, opts, mode, step)
      BY WholeFacts
    <3> QED
      BY <3>1 DEF OutputDir, HasOutputVolumes, Enabled
  <2>2. IsList(t)
    <3> PICK S : S = {".drone-outputs", step}
      OBVIOUS
    <3>1. ".drone-outputs" \in S /\ step \in S
      OBVIOUS
    <3>2. t \in Seq(S)
      BY ONLY <3>1, t = <<".drone-outputs", step>>
    <3> QED
      BY <3>2, ListFacts
  <2>3. Leads(full, base)
    <3>1. ws \in [base : Path, path : Path, rooted : BOOLEAN]
      BY <1>1 DEF Manifest
    <3> QED
      BY <3>1, WorkspaceFacts
  <2>4. Leads(u, base)
    BY ONLY <2>2, <2>3, u = full \o t, LeadsJoin
  <2> QED
    BY <2>1, <2>4, LeadsUnder
<1>4. v.name = <<"_workspace">> /\ v.kind \in VolumeKind
  BY DEF WorkspaceVolume, Volume, VolumeKind, HostKind
<1>5. Declared(V, v.name) /\ LookupVolume(V, v.name) = v
  <2>1. IsOwn(opts, mode, b, v)
    BY DEF IsOwn
  <2> QED
    BY <1>1, <2>1, VolumeFacts
<1> PICK x : x = WorkspaceMount(ws, opts)
  OBVIOUS
<1>6. x.name = v.name /\ x.path = base
  BY <1>4, MountFields DEF WorkspaceMount
<1>7. x \in RangeOf(M)
  BY <1>2 DEF IsGiven
<1>8. PICK k \in DOMAIN M : M[k] = x
  BY <1>7 DEF RangeOf
<1>9. k \in Found(V, M) /\ VolumeOf(V, M, k) = v
  BY <1>5, <1>6, <1>8 DEF Found, VolumeOf
<1>10. \E e \in DOMAIN h : e[2] = k
  <2>1. \A l \in Found(V, M) : VolumeOf(V, M, l).kind \in VolumeKind => \E e \in DOMAIN h : e[2] = l
    BY <1>2, HostConfigFacts
  <2> QED
    BY <1>4, <1>9, <2>1
<1>11. PICK e \in DOMAIN h : e[2] = k
  BY <1>10
<1>12. h[e].path = base /\ h[e].volume = v
  <2>1. Entry(V, M, h, e)
    BY <1>2
  <2> QED
    BY <1>6, <1>8, <1>9, <1>11, <2>1 DEF Entry
<1> QED
  BY <1>3, <1>12

\* In the file transport, if the directories are shared with the runner, a step has
\* files of another's directory only by a volume that the manifest or the daemon's
\* configuration asks for; if they are not, the workspace leads every step to all.
THEOREM OthersDirectories == Spec => []OwnDirectoryOnly
<1>1. IInv => OwnDirectoryOnly
  <2> SUFFICES ASSUME IInv, Compiled, spec.complete, spec.transport = "file", Enabled(opts),
                      NEW i \in DOMAIN spec.steps, NEW j \in DOMAIN spec.steps
               PROVE  IF opts.shared
                      THEN i # j /\ opts.root = "default" =>
                              \A k \in DOMAIN spec.containers[i] :
                                  Overlap(spec.containers[i][k].volume,
                                          OutputVolume("file", spec.steps[j].name))
                                  => Foreign(spec.containers[i][k].volume)
                      ELSE \E k \in DOMAIN spec.containers[i] :
                              /\ spec.containers[i][k].volume = WorkspaceVolume(opts)
                              /\ Under(spec.dirs[j], spec.containers[i][k].path)
    BY DEF OwnDirectoryOnly
  <2>1. Whole
    BY DEF Whole, Compiled
  <2>2. CASE opts.shared
    BY <2>1, <2>2, OthersKeptOut
  <2>3. CASE ~opts.shared
    BY <2>1, <2>3, WorkspaceReaches
  <2> QED
    BY <2>2, <2>3
<1> QED
  BY <1>1, Inductive, PTL

-----------------------------------------------------------------------------
(* No two mounts at one path                                                 *)

\* The entries of a container keep apart as its mounts do.
LEMMA EntriesApart ==
  ASSUME NEW V, NEW M, NEW h, h = HostConfig(V, M), Apart(M),
         NEW d \in DOMAIN h, NEW e \in DOMAIN h, h[d].path = h[e].path
  PROVE  d = e
<1>1. Entry(V, M, h, d) /\ Entry(V, M, h, e)
  BY HostConfigFacts
<1>2. d[2] \in DOMAIN M /\ e[2] \in DOMAIN M /\ M[d[2]].path = M[e[2]].path
  BY <1>1 DEF Entry, Found
<1>3. d[2] = e[2]
  BY <1>2 DEF Apart
<1> QED
  BY <1>3, OneEntry

\* The container of a step has no two mounts at one path.
LEMMA StepApart ==
  ASSUME Whole, NEW i \in DOMAIN spec.steps,
         NEW base, base = Workspace(manifest.workspace, opts).base,
         NEW fixed, fixed = {Bin, Helper, Addons,
                             OutputPath(opts, spec.transport, spec.steps[i].name)},
         base \notin fixed,
         Unique([n \in DOMAIN Asked(i) |-> Asked(i)[n].path]),
         \A n \in DOMAIN Asked(i) : Asked(i)[n].path \notin fixed \cup {base},
         NEW d \in DOMAIN spec.containers[i], NEW e \in DOMAIN spec.containers[i],
         spec.containers[i][d].path = spec.containers[i][e].path
  PROVE  d = e
<1> PICK mode, item, h : mode = spec.transport /\ item = spec.steps[i] /\ h = spec.containers[i]
  OBVIOUS
<1> PICK M : M = StepMounts(manifest.workspace, opts, mode, item)
  OBVIOUS
<1> PICK V : V = SpecVolumes(manifest, opts, mode, Built(manifest))
  OBVIOUS
<1> PICK own, G : own = item.mounts /\ G = GlobalMounts(opts)
  OBVIOUS
<1> PICK a : a = Asked(i)
  OBVIOUS
<1>1. opts \in Opts /\ IsList(own) /\ h = HostConfig(V, M)
  BY WholeFacts, StepContainer
<1>2. a = own \o G
  BY AskedFacts
<1>3. Apart(a)
  BY DEF Apart, Unique
<1>4. \A q \in PathsOf(a) : q \notin {base, Bin, Helper, Addons, OutputPath(opts, mode, item.name)}
  BY DEF PathsOf
<1>5. Apart(own \o G) /\ \A q \in PathsOf(own \o G) :
         q \notin {base, Bin, Helper, Addons, OutputPath(opts, mode, item.name)}
  BY <1>2, <1>3, <1>4
<1>6. Apart(M)
  <2> PICK ws : ws = manifest.workspace
    OBVIOUS
  <2>1. /\ M = StepMounts(ws, opts, mode, item) /\ own = item.mounts
        /\ G = GlobalMounts(opts) /\ base = Workspace(ws, opts).base
        /\ base \notin {Bin, Helper, Addons, OutputPath(opts, mode, item.name)}
    OBVIOUS
  <2> QED
    BY ONLY <1>1, <1>5, <2>1, StepMountsApart
<1> QED
  BY <1>1, <1>6, EntriesApart

\* The containers after those of the steps are those of the internal steps.
LEMMA InternalApart ==
  ASSUME Whole, NEW i \in DOMAIN spec.containers, i \notin DOMAIN spec.steps,
         ~(opts.helper = "image" /\ opts.debug),
         NEW d \in DOMAIN spec.containers[i], NEW e \in DOMAIN spec.containers[i],
         spec.containers[i][d].path = spec.containers[i][e].path
  PROVE  d = e
<1> PICK mode, c, h : mode = spec.transport /\ c = spec.containers /\ h = spec.containers[i]
  OBVIOUS
<1> PICK b : b = Built(manifest)
  OBVIOUS
<1> PICK V : V = SpecVolumes(manifest, opts, mode, b)
  OBVIOUS
<1> PICK I : I = InternalMounts(opts)
  OBVIOUS
<1>1. /\ opts \in Opts /\ b \in Seq(Item) /\ c = Containers(manifest, opts, mode, b)
      /\ DOMAIN spec.steps = 1 .. Len(b)
  BY WholeFacts
<1> PICK n, l : n = Len(b) /\ l = Len(I)
  OBVIOUS
<1>2. /\ DOMAIN c = 1 .. n + l /\ n \in Nat /\ l \in Nat /\ DOMAIN I = 1 .. l
      /\ ConfiguredRest(c, n, I, V)
  <2>1. V = SpecVolumes(manifest, opts, mode, b) /\ I = InternalMounts(opts)
    OBVIOUS
  <2>2. /\ DOMAIN c = 1 .. Len(b) + Len(I)
        /\ Len(b) \in Nat /\ Len(I) \in Nat /\ DOMAIN I = 1 .. Len(I)
        /\ ConfiguredRest(c, Len(b), I, V)
    BY ONLY <1>1, <2>1, ContainersFacts
  <2> QED
    BY <2>2
<1> PICK x : x = i - n
  OBVIOUS
<1>3. x \in 1 .. l /\ n + x = i
  BY <1>1, <1>2
<1>4. h = HostConfig(V, I[x])
  BY <1>2, <1>3 DEF ConfiguredRest
<1>5. Apart(I[x])
  BY <1>1, <1>2, <1>3, InternalMountsFacts
<1> QED
  BY <1>4, <1>5, EntriesApart

\* Compile's mounts collide neither with each other nor with those asked for that
\* keep away from each other and from Compile's paths, internal steps included,
\* unless the manifest has its workspace at a path of Compile's or there are both
\* helper image and tmate.
THEOREM OneMountPerPath == Spec => []MountPointsDistinct
<1>1. IInv => MountPointsDistinct
  <2> SUFFICES ASSUME IInv, Compiled, spec.complete, NEW i \in DOMAIN spec.containers,
                      NEW base, base = Workspace(manifest.workspace, opts).base,
                      NEW fixed,
                      fixed = {Bin, Helper, Addons} \cup
                              IF i \in DOMAIN spec.steps
                              THEN {OutputPath(opts, spec.transport, spec.steps[i].name)} ELSE {},
                      Unique([n \in DOMAIN Asked(i) |-> Asked(i)[n].path]),
                      \A n \in DOMAIN Asked(i) : Asked(i)[n].path \notin fixed \cup {base},
                      i \in DOMAIN spec.steps => base \notin fixed,
                      ~(i \notin DOMAIN spec.steps /\ opts.helper = "image" /\ opts.debug),
                      NEW d \in DOMAIN spec.containers[i], NEW e \in DOMAIN spec.containers[i],
                      spec.containers[i][d].path = spec.containers[i][e].path
               PROVE  d = e
    BY Zenon DEF MountPointsDistinct
  <2>1. Whole
    BY DEF Whole, Compiled
  <2>2. CASE i \in DOMAIN spec.steps
    <3>1. fixed = {Bin, Helper, Addons, OutputPath(opts, spec.transport, spec.steps[i].name)}
      BY <2>2
    <3>2. base \notin fixed
      BY <2>2
    <3> QED
      BY <2>1, <2>2, <3>1, <3>2, StepApart
  <2>3. CASE i \notin DOMAIN spec.steps
    BY <2>1, <2>3, InternalApart
  <2> QED
    BY <2>2, <2>3
<1> QED
  BY <1>1, Inductive, PTL

-----------------------------------------------------------------------------
(* What is mounted reaches docker                                            *)

\* d is the only declaration of that name.
OnlyDeclared(mv, name, d) ==
    \A e \in DOMAIN mv : mv[e].name = name /\ mv[e].kind # "none" => e = d

Copies(mounts, m) == {k \in DOMAIN mounts : mounts[k] = m}

\* The step's own mounts are those that the declaration of their names means.
LEMMA DeclaredMounts ==
  ASSUME Whole, NEW i \in DOMAIN spec.steps, NEW mounts, mounts = spec.steps[i].mounts,
         NEW n \in DOMAIN mounts, NEW m, m = mounts[n], m.name \notin Internal,
         NEW mv, mv = manifest.volumes, NEW d \in DOMAIN mv, NEW v, v = mv[d],
         v.name = m.name, v.kind # "none", OnlyDeclared(mv, m.name, d)
  PROVE  Times(i, m.path, {v}) = Cardinality(Copies(mounts, m))
<1> PICK mode, item, h : mode = spec.transport /\ item = spec.steps[i] /\ h = spec.containers[i]
  OBVIOUS
<1> PICK M : M = StepMounts(manifest.workspace, opts, mode, item)
  OBVIOUS
<1> PICK b : b = Built(manifest)
  OBVIOUS
<1> PICK V : V = SpecVolumes(manifest, opts, mode, b)
  OBVIOUS
<1> PICK G, gs, vs : G = GlobalMounts(opts) /\ gs = Globals(opts) /\ vs = GlobalVolumes(opts)
  OBVIOUS
<1> PICK name, path : name = m.name /\ path = m.path
  OBVIOUS
<1> PICK MS : MS = [name : GivenName, path : Path]
  OBVIOUS
<1>1. Manifest(manifest) /\ opts \in Opts /\ b \in Seq(Item)
  BY WholeFacts
<1>2. /\ IsList(M) /\ IsList(V) /\ h = HostConfig(V, M)
      /\ \A x \in RangeOf(V) : Mountable(x)
  BY StepEntries
<1>3. /\ IsList(mounts)
      /\ \A x \in RangeOf(mounts) : x.name \in GivenName /\ x.name \notin Reserved
  BY StepContainer
<1>4. name \in GivenName /\ name \notin Reserved /\ name \notin Internal
  BY <1>3 DEF RangeOf
<1>5. Declared(V, name) /\ LookupVolume(V, name) = v
  <2>1. v.name \notin Internal \cup {<<"_workspace">>}
    BY <1>4 DEF Reserved
  <2>2. \A e \in DOMAIN mv : mv[e].name = v.name /\ mv[e].kind # "none" => e = d
    BY DEF OnlyDeclared
  <2>3. \A c \in DOMAIN mv :
           /\ mv[c].kind # "none"
           /\ mv[c].name \notin Internal \cup {<<"_workspace">>}
           /\ \A e \in DOMAIN mv : mv[e].name = mv[c].name /\ mv[e].kind # "none" => e = c
           => Declared(V, mv[c].name) /\ LookupVolume(V, mv[c].name) = mv[c]
    BY <1>1, VolumeFacts
  <2>4. Declared(V, v.name) /\ LookupVolume(V, v.name) = v
    BY <2>1, <2>2, <2>3
  <2> QED
    BY <2>4
<1>6. v.kind \in VolumeKind
  <2>1. PICK k \in DOMAIN V : LookupVolume(V, name) = V[k]
    BY <1>2, <1>5, LookupFacts
  <2> QED
    BY <1>2, <1>5, <2>1 DEF RangeOf, Mountable
<1>7. Times(i, path, {v}) = Cardinality(Sites(M, name, path))
  <2>1. IsList(V) /\ IsList(M) /\ h = HostConfig(V, M)
    BY <1>2
  <2>2. v.kind \in VolumeKind /\ Declared(V, v.name) /\ LookupVolume(V, v.name) = v
    BY <1>5, <1>6
  <2>3. Cardinality({e \in DOMAIN h : h[e].path = path /\ h[e].volume \in {v}})
          = Cardinality(Sites(M, v.name, path))
    BY ONLY <2>1, <2>2, Counted
  <2>4. Times(i, path, {v})
          = Cardinality({e \in DOMAIN h : h[e].path = path /\ h[e].volume \in {v}})
    BY DEF Times
  <2> QED
    BY <2>3, <2>4
<1>8. \A x : IsGiven(manifest.workspace, opts, mode, item.name, x) \/ x \in RangeOf(G) => x.name # name
  <2>1. ASSUME NEW x, IsGiven(manifest.workspace, opts, mode, item.name, x) PROVE x.name # name
    <3>1. \/ x.name = <<"_workspace">> \/ x.name = <<"_output_helper">>
          \/ x.name = <<"helper", "id">> \/ x.name = <<"_addons">>
          \/ x.name = <<"outputs", item.name>>
      <4>1. GivenMountName(item.name, x.name)
        BY ONLY <2>1, GivenMounts
      <4> QED
        BY <4>1 DEF GivenMountName
    <3>2. name # <<"helper", "id">> /\ name # <<"outputs", item.name>>
      BY <1>4, OneString
    <3> QED
      BY <1>4, <3>1, <3>2 DEF Reserved, Internal
  <2>2. ASSUME NEW x \in RangeOf(G) PROVE x.name # name
    <3>1. PICK g \in DOMAIN G : x = G[g]
      BY DEF RangeOf
    <3>2. DOMAIN G = DOMAIN gs
      BY <1>1, GlobalVolumesFacts
    <3>3. x.name = <<"global", g>>
      BY <1>1, <3>1, <3>2, GlobalMountFields
    <3> QED
      BY <1>4, <3>3, OneString
  <2> QED
    BY <2>1, <2>2
<1>9. Sites(M, name, path) = Sites(mounts, name, path)
  <2>1. /\ opts \in Opts /\ mounts = item.mounts /\ IsList(mounts)
        /\ M = StepMounts(manifest.workspace, opts, mode, item) /\ G = GlobalMounts(opts)
    BY <1>1, <1>3
  <2> QED
    BY ONLY <1>8, <2>1, SitesOfOwn
<1>10. Sites(mounts, name, path) = Copies(mounts, m)
  <2>1. mounts \in Seq(MS)
    <3>1. spec.steps \in Seq(Item)
      BY CompiledFacts DEF Whole
    <3>2. item \in Item
      BY <3>1
    <3> QED
      BY <3>2 DEF Item
  <2>2. \A k \in DOMAIN mounts : mounts[k] \in MS
    BY ONLY <2>1
  <2>3. \A x, y \in MS : x.name = y.name /\ x.path = y.path => x = y
    OBVIOUS
  <2> QED
    BY <2>2, <2>3 DEF Sites, Copies
<1> QED
  BY <1>7, <1>9, <1>10

\* A global volume is mounted once in each step.
LEMMA GlobalMounted ==
  ASSUME Whole, NEW i \in DOMAIN spec.steps, NEW g \in DOMAIN Globals(opts)
  PROVE  Times(i, Globals(opts)[g].path, {GlobalVolumes(opts)[g]}) = 1
<1> PICK mode, item, h : mode = spec.transport /\ item = spec.steps[i] /\ h = spec.containers[i]
  OBVIOUS
<1> PICK M : M = StepMounts(manifest.workspace, opts, mode, item)
  OBVIOUS
<1> PICK b : b = Built(manifest)
  OBVIOUS
<1> PICK V : V = SpecVolumes(manifest, opts, mode, b)
  OBVIOUS
<1> PICK own : own = item.mounts
  OBVIOUS
<1> PICK G, gs, vs : G = GlobalMounts(opts) /\ gs = Globals(opts) /\ vs = GlobalVolumes(opts)
  OBVIOUS
<1> PICK v, path : v = vs[g] /\ path = gs[g].path
  OBVIOUS
<1>1. Manifest(manifest) /\ opts \in Opts /\ b \in Seq(Item)
  BY WholeFacts
<1>2. IsList(M) /\ IsList(V) /\ h = HostConfig(V, M)
  BY StepEntries
<1>3. IsList(own) /\ \A x \in RangeOf(own) : x.name \in GivenName
  BY StepContainer
<1>4. /\ g \in DOMAIN gs /\ DOMAIN vs = DOMAIN gs /\ DOMAIN G = DOMAIN gs
      /\ \A l \in DOMAIN gs : GlobalAt(l, gs[l], vs[l], G[l])
  BY <1>1, GlobalVolumesFacts
<1>5. v.name = <<"global", g>> /\ v.kind \in VolumeKind
  BY <1>4 DEF GlobalAt, Mountable
<1>6. Declared(V, v.name) /\ LookupVolume(V, v.name) = v
  <2>1. IsOwn(opts, mode, b, v)
    BY <1>4 DEF IsOwn
  <2> QED
    BY <1>1, <2>1, VolumeFacts
<1> PICK name : name = v.name
  OBVIOUS
<1>7. Times(i, path, {v}) = Cardinality(Sites(M, name, path))
  <2>1. Cardinality({e \in DOMAIN h : h[e].path = path /\ h[e].volume \in {v}})
          = Cardinality(Sites(M, v.name, path))
    BY ONLY <1>2, <1>5, <1>6, Counted
  <2>2. Times(i, path, {v})
          = Cardinality({e \in DOMAIN h : h[e].path = path /\ h[e].volume \in {v}})
    BY DEF Times
  <2> QED
    BY <2>1, <2>2
<1>8. One(Sites(G, name, path))
  <2>1. \A l \in DOMAIN gs : G[l].name = <<"global", l>> /\ G[l].path = gs[l].path
    BY <1>1, GlobalMountFields
  <2>2. \A l : <<"global", l>> = <<"global", g>> => l = g
    OBVIOUS
  <2>3. Sites(G, name, path) = {g}
    BY <1>4, <1>5, <2>1, <2>2 DEF Sites
  <2> QED
    BY <2>3 DEF One
<1>9. \A x : IsGiven(manifest.workspace, opts, mode, item.name, x) \/ x \in RangeOf(own) => x.name # name
  <2>1. ASSUME NEW x, IsGiven(manifest.workspace, opts, mode, item.name, x) PROVE x.name # name
    <3>1. \/ x.name = <<"_workspace">> \/ x.name = <<"_output_helper">>
          \/ x.name = <<"helper", "id">> \/ x.name = <<"_addons">>
          \/ x.name = <<"outputs", item.name>>
      <4>1. GivenMountName(item.name, x.name)
        BY ONLY <2>1, GivenMounts
      <4> QED
        BY <4>1 DEF GivenMountName
    <3>2. /\ <<"_workspace">>[1] = "_workspace" /\ <<"_output_helper">>[1] = "_output_helper"
          /\ <<"helper", "id">>[1] = "helper" /\ <<"_addons">>[1] = "_addons"
          /\ <<"outputs", item.name>>[1] = "outputs"
      OBVIOUS
    <3>3. x.name[1] # "global"
      BY <3>1, <3>2
    <3>4. <<"global", g>>[1] = "global"
      OBVIOUS
    <3> QED
      BY <1>5, <3>3, <3>4
  <2>2. ASSUME NEW x \in RangeOf(own) PROVE x.name # name
    BY <1>3, <1>5, OneString
  <2> QED
    BY <2>1, <2>2
<1>10. One(Sites(M, name, path))
  <2>1. /\ opts \in Opts /\ own = item.mounts /\ IsList(own)
        /\ M = StepMounts(manifest.workspace, opts, mode, item) /\ G = GlobalMounts(opts)
    BY <1>1, <1>3
  <2> QED
    BY ONLY <1>8, <1>9, <2>1, SitesOfGlobal
<1>11. Cardinality(Sites(M, name, path)) = 1
  BY <1>10, FS_Singleton DEF One
<1> QED
  BY <1>7, <1>11

\* A name that is declared once: as many entries as mounts.
LEMMA ManifestMounts ==
  ASSUME Whole, NEW i \in DOMAIN spec.steps, NEW n \in DOMAIN spec.steps[i].mounts
  PROVE  LET mounts == spec.steps[i].mounts
             m      == mounts[n]
             decl   == {v \in DOMAIN manifest.volumes :
                           manifest.volumes[v].name = m.name
                           /\ manifest.volumes[v].kind # "none"}
         IN  Cardinality(decl) = 1 /\ m.name \notin Internal =>
               Times(i, m.path, {manifest.volumes[v] : v \in decl})
                   = Cardinality({k \in DOMAIN mounts : mounts[k] = m})
<1> DEFINE own == spec.steps[i].mounts
           decl == {v \in DOMAIN manifest.volumes :
                       manifest.volumes[v].name = own[n].name
                       /\ manifest.volumes[v].kind # "none"}
<1> SUFFICES ASSUME Cardinality(decl) = 1, own[n].name \notin Internal
             PROVE  Times(i, own[n].path, {manifest.volumes[v] : v \in decl})
                       = Cardinality({k \in DOMAIN own : own[k] = own[n]})
  OBVIOUS
<1> HIDE DEF own
<1> PICK mv, m : mv = manifest.volumes /\ m = own[n]
  OBVIOUS
<1>1. IsFiniteSet(DOMAIN mv)
  <2> PICK R : R = [name : GivenName, kind : VolumeKind \cup {"none"}, ro : {FALSE}, host : Path]
    OBVIOUS
  <2>1. mv \in Seq(R)
    BY WholeFacts DEF Manifest
  <2> PICK l : l = Len(mv)
    OBVIOUS
  <2>2. DOMAIN mv = 1 .. l /\ l \in Nat
    BY <2>1, LenProperties
  <2>3. IsFiniteSet(1 .. l)
    <3>1. 1 \in Int /\ l \in Int
      BY <2>2
    <3> QED
      BY ONLY <3>1, FS_Interval
  <2> QED
    BY <2>2, <2>3
<1>2. IsFiniteSet(decl)
  <2>1. decl \in SUBSET DOMAIN mv
    OBVIOUS
  <2> QED
    BY <1>1, <2>1, FS_Subset
<1>3. PICK d : decl = {d}
  BY <1>2, FS_Singleton
<1> PICK v : v = mv[d]
  OBVIOUS
<1>4. d \in DOMAIN mv /\ v.name = m.name /\ v.kind # "none" /\ OnlyDeclared(mv, m.name, d)
  BY <1>3 DEF OnlyDeclared
<1>5. {manifest.volumes[e] : e \in decl} = {v}
  BY <1>3
<1> PICK ms : ms = own
  OBVIOUS
<1>6. Times(i, m.path, {v}) = Cardinality(Copies(ms, m))
  <2>1. /\ Whole /\ ms = spec.steps[i].mounts /\ n \in DOMAIN ms /\ m = ms[n]
        /\ m.name \notin Internal /\ mv = manifest.volumes /\ v = mv[d]
    BY DEF own
  <2> QED
    BY ONLY <1>4, <2>1, i \in DOMAIN spec.steps, DeclaredMounts
<1>7. Copies(ms, m) = {k \in DOMAIN own : own[k] = own[n]}
  BY DEF Copies
<1> QED
  BY <1>5, <1>6, <1>7

\* A file or a device is in Mounts, where what is read-only stays so.
LEMMA ReadOnlyKept ==
  ASSUME Whole, NEW i \in DOMAIN spec.steps, NEW e \in DOMAIN spec.containers[i],
         spec.containers[i][e].volume.kind \in {"file", "device"}
  PROVE  spec.containers[i][e].ro = spec.containers[i][e].volume.ro
<1> PICK mode, item, h : mode = spec.transport /\ item = spec.steps[i] /\ h = spec.containers[i]
  OBVIOUS
<1> PICK M : M = StepMounts(manifest.workspace, opts, mode, item)
  OBVIOUS
<1> PICK V : V = SpecVolumes(manifest, opts, mode, Built(manifest))
  OBVIOUS
<1>1. /\ IsList(V) /\ \A x \in RangeOf(V) : Mountable(x)
      /\ \A d \in DOMAIN h : Entry(V, M, h, d)
  BY StepEntries
<1> PICK v : v = VolumeOf(V, M, e[2])
  OBVIOUS
<1>2. /\ e[2] \in Found(V, M) /\ h[e].volume = v
      /\ \/ e[1] = "Binds" /\ InBinds(v) /\ h[e].ro = FALSE
         \/ InMounts(v) /\ h[e].ro = ((IsBindMount(v) \/ IsNamedPipe(v)) /\ v.ro)
  BY <1>1 DEF Entry
<1>3. v.kind \in {"file", "device"} /\ IsBindMount(v) /\ ~InBinds(v)
  BY <1>2 DEF IsBindMount, HostKind, InBinds, IsDevice, IsDataVolume, IsFileBindMount
<1>4. v.ro \in BOOLEAN
  <2> PICK name : name = M[e[2]].name
    OBVIOUS
  <2>1. Declared(V, name) /\ v = LookupVolume(V, name)
    BY <1>2 DEF Found, VolumeOf
  <2>2. PICK k \in DOMAIN V : LookupVolume(V, name) = V[k]
    BY <1>1, <2>1, LookupFacts
  <2> QED
    BY <1>1, <2>1, <2>2 DEF RangeOf, Mountable
<1> QED
  BY <1>2, <1>3, <1>4

\* Each volume that the manifest declares once, and each global one, is handed to
\* docker as often as it is mounted, in one of the two lists; a file or a device
\* that is read-only stays so.
THEOREM MountsArrive == Spec => []MountsReachDocker
<1>1. IInv => MountsReachDocker
  <2> SUFFICES ASSUME IInv, Compiled, spec.complete, NEW i \in DOMAIN spec.steps
               PROVE  /\ \A n \in DOMAIN spec.steps[i].mounts :
                            LET mounts == spec.steps[i].mounts
                                m      == mounts[n]
                                decl   == {v \in DOMAIN manifest.volumes :
                                              manifest.volumes[v].name = m.name
                                              /\ manifest.volumes[v].kind # "none"}
                            IN  Cardinality(decl) = 1 /\ m.name \notin Internal =>
                                  Times(i, m.path, {manifest.volumes[v] : v \in decl})
                                      = Cardinality({k \in DOMAIN mounts : mounts[k] = m})
                      /\ \A g \in DOMAIN Globals(opts) :
                            Times(i, Globals(opts)[g].path, {GlobalVolumes(opts)[g]}) = 1
                      /\ \A k \in DOMAIN spec.containers[i] :
                            spec.containers[i][k].volume.kind \in {"file", "device"} =>
                               spec.containers[i][k].ro = spec.containers[i][k].volume.ro
    BY DEF MountsReachDocker
  <2>1. Whole
    BY DEF Whole, Compiled
  <2>3. ASSUME NEW n \in DOMAIN spec.steps[i].mounts
        PROVE  LET mounts == spec.steps[i].mounts
                   m      == mounts[n]
                   decl   == {v \in DOMAIN manifest.volumes :
                                 manifest.volumes[v].name = m.name
                                 /\ manifest.volumes[v].kind # "none"}
               IN  Cardinality(decl) = 1 /\ m.name \notin Internal =>
                     Times(i, m.path, {manifest.volumes[v] : v \in decl})
                         = Cardinality({k \in DOMAIN mounts : mounts[k] = m})
    BY <2>1, ManifestMounts
  <2>4. \A g \in DOMAIN Globals(opts) :
           Times(i, Globals(opts)[g].path, {GlobalVolumes(opts)[g]}) = 1
    BY <2>1, GlobalMounted
  <2>5. \A k \in DOMAIN spec.containers[i] :
           spec.containers[i][k].volume.kind \in {"file", "device"} =>
              spec.containers[i][k].ro = spec.containers[i][k].volume.ro
    BY <2>1, ReadOnlyKept
  <2> QED
    BY <2>3, <2>4, <2>5
<1> QED
  BY <1>1, Inductive, PTL
=============================================================================
