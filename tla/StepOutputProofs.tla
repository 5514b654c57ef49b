--------------------------- MODULE StepOutputProofs ---------------------------
(***************************************************************************)
(* Theorems about StepOutput for any number of commands and keys, whatever  *)
(* the commands are asked to do.                                           *)
(***************************************************************************)
EXTENDS StepOutput, OutputMapProofs, FiniteSetTheorems, TLAPS

-----------------------------------------------------------------------------
(* The inductive invariant *)

InLoop == {"next", "opened", "written", "removing"}
OnWire == {"sending", "adrift"}

\* Neither had ended when the other started.
Beside(c, d) == c # d /\ c \notin seen[d] /\ d \notin seen[c]

\* Nobody who runs beside c meddles with its k.
Clear(c, k) == \A d \in Call : Beside(c, d) => ~Meddles(d, k)

\* Everybody else who meddles with k had ended before c started.
Alone(c, k) == \A d \in Call \ {c} : Meddles(d, k) => d \in seen[c]

\* Everybody else who touches k was over then, his request perhaps not.
Last(c, k) == \A d \in Call \ {c} : Touches(d, k) => d \in seen[c] \cup late[c]

\* The request for f.
Asks(f, ops) == \E s \in Orders(f) : ops = [i \in DOMAIN s |-> OpOf(f, s[i])]

\* What c was asked to do, and where it is.
CallInv(c) ==
    /\ call[c].at = "idle" => DOMAIN patch[c] = {}
    /\ seen[c] \subseteq {d \in Call : Ended(d)}
    /\ mode = "file" => call[c].at \notin OnWire
    /\ mode = "ipc" => call[c].at \notin InLoop
    /\ call[c].at # "failed" => \A k \in Key : Sets(c, k) => k \in DOMAIN Temp
    /\ call[c].at \in InLoop =>
          /\ call[c].todo \subseteq DOMAIN patch[c]
          /\ \A k \in DOMAIN patch[c] \ call[c].todo, l \in call[c].todo : <<k, l>> \notin Below
    /\ call[c].at \in {"opened", "written"} => patch[c][Now(c)] # Null
    /\ call[c].at = "opened" => call[c].inode \in Inode
    /\ call[c].at = "removing" => patch[c][Now(c)] = Null /\ call[c].names \subseteq Covered(Now(c))
    /\ call[c].at \in OnWire => Asks(patch[c], call[c].ops)
    /\ got # <<>> => call[c].at \in {"idle", "adrift"} \/ Ended(c)

\* c has not made the inode of its k.
Unmade(c, k) ==
    \/ call[c].at = "idle"
    \/ call[c].at \in {"next", "removing"} /\ k \in call[c].todo
    \/ call[c].at \in {"opened", "written"} /\ k \in Rest(c)

\* An inode has one name, and one that is not made has none.
InodeInv ==
    /\ \A k, l \in DOMAIN dir : dir[k] = dir[l] => k = l
    /\ \A c \in Call, x \in Key : Unmade(c, x) =>
          /\ \A k \in DOMAIN dir : dir[k] # <<c, x>>
          /\ \A d \in Call : call[d].at = "opened" => call[d].inode # <<c, x>>

\* The names an open file may have got: what a command that runs beside e has
\* renamed it to, who thereby interferes.
OpenInv(e) ==
    call[e].at = "opened" =>
        /\ \A k \in DOMAIN dir : dir[k] = call[e].inode =>
              \/ k = Temp[Now(e)]
              \/ /\ \E d \in Call : Beside(e, d) /\ Sets(d, k)
                 /\ k = Now(e) \/ Now(e) \in Temps[k]
        /\ \A d \in Call \ {e} : call[d].at = "opened" /\ call[d].inode = call[e].inode =>
              ~Clear(e, Now(e))
        /\ Clear(e, Now(e)) =>
              /\ Temp[Now(e)] \in DOMAIN dir => dir[Temp[Now(e)]] = call[e].inode
              /\ data[call[e].inode] = Torn

WrittenInv(e) ==
    call[e].at = "written" /\ Clear(e, Now(e)) /\ Temp[Now(e)] \in DOMAIN dir =>
        data[dir[Temp[Now(e)]]] = patch[e][Now(e)]

\* c may have left the temporary file of x in the directory.
Awaits(c, x) ==
    /\ Sets(c, x)
    /\ \/ call[c].at \in InLoop /\ x \in call[c].todo
       \/ call[c].at \in {"failed", "killed"}

\* The three ways in which a name got into the directory.
Published(k, v) == \E c \in Call : Sets(c, k) /\ patch[c][k] = v
Pending(k) == \E c \in Call, x \in DOMAIN Temp : Temp[x] = k /\ Awaits(c, x)
Tangled(k) ==
    \E c, d \in Call : Beside(c, d) /\ Sets(c, k) /\ Meddles(d, k)

DirInv == \A k \in DOMAIN dir : Published(k, data[dir[k]]) \/ Pending(k) \/ Tangled(k)

\* c is done with the key x of its patch, and in order so far.
Past(c, x) ==
    /\ x \in DOMAIN patch[c]
    /\ \/ call[c].at = "done"
       \/ call[c].at \in InLoop /\ x \notin call[c].todo

\* What c has made of the keys that are behind it.
Made(c, k) ==
    /\ Sets(c, k) /\ Past(c, k) => k \in DOMAIN dir /\ data[dir[k]] = patch[c][k]
    /\ ~Sets(c, k) /\ k \in DOMAIN dir =>
          \A x \in Key : Past(c, x) /\ patch[c][x] = Null /\ k \in Covered(x) =>
              call[c].at \in {"opened", "written"} /\ k = Temp[Now(c)]
    /\ call[c].at = "removing" /\ k \in Covered(Now(c)) /\ k \in DOMAIN dir =>
          k \in call[c].names

\* d was given up before c started, and its request has arrived.
Landed(d, c, k) == d \in late[c] /\ call[d].at = "killed" /\ Touches(d, k)

Sent(c, k) ==
    call[c].at = "done" /\ Touches(c, k) =>
        Makes(c, k, store) \/ \E d \in Call : Landed(d, c, k) /\ Makes(d, k, store)

\* It stays so as long as nobody comes after.
LastInv(c, k) ==
    /\ mode = "file" /\ Alone(c, k) => Made(c, k)
    /\ mode = "ipc" /\ Last(c, k) => Sent(c, k)

LateInv ==
    \A c \in Call :
        /\ mode = "file" => late[c] = {}
        /\ late[c] \cap seen[c] = {}
        /\ \A d \in late[c] : call[d].at \in {"adrift", "killed"}

StoreInv == \A k \in DOMAIN store : Published(k, store[k])

FileInv ==
    mode = "file" =>
        /\ InodeInv /\ DirInv
        /\ \A c \in Call : OpenInv(c) /\ WrittenInv(c)

Base ==
    /\ TypeOK
    /\ call = [c \in Call |-> call[c]] /\ patch = [c \in Call |-> patch[c]]
    /\ \A c \in Call : CallInv(c)

IInv ==
    /\ Base /\ FileInv /\ StoreInv /\ LateInv
    /\ \A c \in Call, k \in Key : LastInv(c, k)
    /\ OutputsAreWhole /\ LastCallWins

-----------------------------------------------------------------------------
(* Operators *)

LEMMA FirstFacts ==
  ASSUME NEW S \in SUBSET Key, S # {}
  PROVE  First(S) \in S /\ \A k \in S : <<First(S), k>> \notin Below
<1> DEFINE n == Cardinality(Key)
           T == {i \in 1 .. n : Sorted[i] \in S}
           Is(i) == i \in DOMAIN Sorted /\ Sorted[i] \in S /\ \A j \in 1 .. i - 1 : Sorted[j] \notin S
<1>1. n \in Nat /\ DOMAIN Sorted = 1 .. n
  BY SortedAssumption, FS_CardinalityType
<1>2. T \in SUBSET Nat /\ T # {}
  BY <1>1, SortedAssumption
<1>3. PICK m \in T : \A j \in T : ~(j < m)
  BY <1>2, Least
<1>4. \A j \in 1 .. m - 1 : j \in 1 .. n /\ j < m
  BY <1>1, <1>3
<1>5. Is(m)
  BY <1>1, <1>3, <1>4
<1>6. PICK i : Is(i) /\ First(S) = Sorted[i]
  <2>1. Is(CHOOSE x \in DOMAIN Sorted : Sorted[x] \in S /\ \A j \in 1 .. x - 1 : Sorted[j] \notin S)
    BY <1>5
  <2> QED
    BY <2>1 DEF First
<1>7. \A k \in S : <<First(S), k>> \notin Below
  <2> SUFFICES ASSUME NEW k \in S, <<Sorted[i], k>> \in Below PROVE FALSE
    BY <1>6
  <2>1. PICK j \in 1 .. n : Sorted[j] = k
    BY <1>1, SortedAssumption
  <2>2. j < i
    BY <1>1, <1>6, <2>1, SortedAssumption
  <2>3. j \in 1 .. i - 1
    BY <1>1, <1>6, <2>2
  <2> QED
    BY <1>6, <2>1, <2>3
<1> QED
  BY <1>6, <1>7

LEMMA PatchesFacts ==
  ASSUME NEW in \in Inputs, NEW f \in Patches(in.leaves)
  PROVE  /\ DOMAIN f \subseteq Key
         /\ f \in [DOMAIN f -> Value \cup {Null}]
         /\ ~Refused(in) => \A k \in DOMAIN f : f[k] # Null => k \in DOMAIN Temp
<1>1. in.leaves \subseteq Leaf /\ DOMAIN f = {l.key : l \in in.leaves}
  BY InputsAssumption DEF Patches
<1>2. \A k \in DOMAIN f : [key |-> k, value |-> f[k]] \in in.leaves
  BY DEF Patches
<1>3. \A k \in DOMAIN f : k \in Key /\ f[k] \in Value \cup {Null}
  BY <1>1, <1>2 DEF Leaf
<1>4. f \in [DOMAIN f -> Value \cup {Null}]
  BY <1>3 DEF Patches
<1>5. ASSUME ~Refused(in), NEW k \in DOMAIN f, f[k] # Null
      PROVE  k \in DOMAIN Temp
  <2>1. PICK l \in in.leaves : l = [key |-> k, value |-> f[k]]
    BY <1>2
  <2>2. in.cmd = "put" /\ l.key \in Invalid \cup DOMAIN Temp
    BY <1>1, <1>5, <2>1, TempAssumption
  <2> QED
    BY <1>5, <2>1, <2>2 DEF Refused
<1> QED
  BY <1>3, <1>4, <1>5

LEMMA Becoming ==
  ASSUME Base, NEW c \in Call, NEW p, Become(c, p)
  PROVE  /\ call'[c] = p /\ \A d \in Call \ {c} : call'[d] = call[d]
         /\ call' = [d \in Call |-> call'[d]]
BY DEF Become, Base

LEMMA Proceeding ==
  ASSUME Base, NEW c \in Call, NEW rest, Proceed(c, rest)
  PROVE  /\ \/ rest = {} /\ call'[c] = [at |-> "done"]
            \/ rest # {} /\ call'[c] = [at |-> "next", todo |-> rest]
         /\ \A d \in Call \ {c} : call'[d] = call[d]
         /\ call' = [d \in Call |-> call'[d]]
BY Becoming DEF Proceed

\* The key at which a loop is, and what is left to do after it.
LEMMA LoopFacts ==
  ASSUME Base, NEW c \in Call, call[c].at \in InLoop
  PROVE  /\ call[c].todo \in SUBSET Key /\ call[c].todo \subseteq DOMAIN patch[c]
         /\ Now(c) \in call[c].todo /\ Now(c) \in Key
         /\ \A k \in DOMAIN patch[c] \ Rest(c), l \in Rest(c) : <<k, l>> \notin Below
<1>1. call[c].todo \in SUBSET Key /\ call[c].todo # {}
  BY DEF Base, TypeOK, InLoop
<1>2. Now(c) \in call[c].todo /\ \A k \in call[c].todo : <<Now(c), k>> \notin Below
  BY <1>1, FirstFacts DEF Now
<1> QED
  BY <1>1, <1>2 DEF Base, CallInv, Rest

-----------------------------------------------------------------------------
(* Types, and what every command is at *)

CallType(c) ==
    /\ DOMAIN patch[c] \subseteq Key /\ patch[c] \in [DOMAIN patch[c] -> Value \cup {Null}]
    /\ call[c].at \in {"idle", "next", "opened", "written", "removing",
                       "sending", "adrift", "done", "failed", "killed"}
    /\ call[c].at \in InLoop => call[c].todo \subseteq Key /\ call[c].todo # {}
    /\ call[c].at = "removing" => call[c].names \subseteq Key /\ call[c].names # {}

FilesType ==
    /\ DOMAIN dir \subseteq Key /\ dir \in [DOMAIN dir -> Inode]
    /\ data \in [Inode -> Value \cup {Torn}]
StoreType == DOMAIN store \subseteq Key /\ store \in [DOMAIN store -> Value]

LEMMA TypeParts ==
  TypeOK <=> /\ mode \in Modes /\ seen \in [Call -> SUBSET Call]
             /\ late \in [Call -> SUBSET Call]
             /\ FilesType /\ StoreType
             /\ \A c \in Call : CallType(c)
BY DEF TypeOK, FilesType, StoreType, CallType, InLoop

\* A step of c leaves the others as they are.
LEMMA BaseFrame ==
  ASSUME Base, NEW c \in Call, ~Ended(c), mode' = mode, got' = got,
         call' = [d \in Call |-> call'[d]], patch' = [d \in Call |-> patch'[d]],
         \A d \in Call \ {c} :
             call'[d] = call[d] /\ patch'[d] = patch[d] /\ seen'[d] = seen[d],
         seen' \in [Call -> SUBSET Call], late' \in [Call -> SUBSET Call],
         FilesType', StoreType', CallType(c)', CallInv(c)'
  PROVE  Base'
<1>1. ASSUME NEW d \in Call \ {c}
      PROVE  CallType(d)' /\ CallInv(d)'
  <2>1. call'[d] = call[d] /\ patch'[d] = patch[d] /\ seen'[d] = seen[d]
    BY <1>1
  <2>2. CallType(d) /\ CallInv(d)
    BY <1>1, TypeParts DEF Base
  <2>3. CallType(d)'
    BY <2>1, <2>2 DEF CallType
  <2>4. seen'[d] \subseteq {e \in Call : Ended(e)'}
    <3>1. \A e \in Call \ {c} : Ended(e) => Ended(e)'
      BY DEF Ended
    <3> QED
      BY <2>1, <2>2, <3>1 DEF CallInv
  <2>5. Now(d)' = Now(d) /\ \A k : Sets(d, k)' <=> Sets(d, k)
    BY <2>1 DEF Now, Sets
  <2>6. CallInv(d)'
    BY <2>1, <2>2, <2>4, <2>5 DEF CallInv, Ended
  <2> QED
    BY <2>3, <2>6
<1>2. mode' \in Modes
  BY DEF Base, TypeOK
<1>3. \A d \in Call : CallType(d)' /\ CallInv(d)'
  BY <1>1
<1>4. TypeOK'
  <2>1. /\ mode' \in Modes /\ seen' \in [Call -> SUBSET Call] /\ late' \in [Call -> SUBSET Call]
        /\ FilesType' /\ StoreType'
        /\ \A d \in Call : CallType(d)'
    BY <1>2, <1>3
  <2> QED
    BY <2>1 DEF TypeOK, FilesType, StoreType, CallType, InLoop
<1> QED
  BY <1>3, <1>4 DEF Base

\* What every step but CopyOutputs leaves alone, and Start.
Quiet(c) ==
    /\ UNCHANGED <<mode, patch, seen, late, got>>
    /\ call' = [d \in Call |-> call'[d]]
    /\ \A d \in Call \ {c} : call'[d] = call[d]

LEMMA QuietBase ==
  ASSUME Base, NEW c \in Call, ~Ended(c), Quiet(c), FilesType', StoreType',
         CallType(c)', CallInv(c)'
  PROVE  Base'
<1>1. /\ patch' = [d \in Call |-> patch'[d]]
      /\ seen' \in [Call -> SUBSET Call] /\ late' \in [Call -> SUBSET Call]
  BY DEF Base, TypeOK, Quiet
<1> QED
  BY <1>1, BaseFrame DEF Quiet

LEMMA StartBase ==
  ASSUME Base, NEW c \in Call, Start(c)
  PROVE  Base'
<1> DEFINE Does(in, f) ==
             /\ patch' = [patch EXCEPT ![c] = f]
             /\ \/ Refused(in) /\ Become(c, [at |-> "failed"])
                \/ /\ ~Refused(in) /\ mode = "file"
                   /\ Proceed(c, DOMAIN f)
                \/ /\ ~Refused(in) /\ mode = "ipc"
                   /\ \E s \in Orders(f) :
                         Become(c, IF s = <<>> THEN [at |-> "failed"]
                                   ELSE [at |-> "sending",
                                         ops |-> [i \in DOMAIN s |-> OpOf(f, s[i])]])
<1>0. PICK in \in Inputs : \E f \in Patches(in.leaves) : Does(in, f)
  BY Zenon DEF Start
<1>1. PICK f \in Patches(in.leaves) : Does(in, f)
  BY <1>0
<1>2. /\ got = <<>> /\ call[c].at = "idle"
      /\ seen' = [seen EXCEPT ![c] = {d \in Call : Ended(d)}]
      /\ late' = [late EXCEPT ![c] = {d \in Call : call[d].at = "adrift"}]
      /\ UNCHANGED <<mode, dir, data, store, got>>
  BY DEF Start
<1>3. /\ patch'[c] = f /\ patch' = [d \in Call |-> patch'[d]]
      /\ \A d \in Call \ {c} : patch'[d] = patch[d] /\ seen'[d] = seen[d]
      /\ seen'[c] = {d \in Call : Ended(d)} /\ seen' \in [Call -> SUBSET Call]
      /\ late' \in [Call -> SUBSET Call]
  BY <1>1, <1>2 DEF Base, TypeOK
<1>4. DOMAIN f \subseteq Key /\ f \in [DOMAIN f -> Value \cup {Null}]
  BY PatchesFacts
<1>5. FilesType' /\ StoreType'
  BY <1>2 DEF Base, TypeOK, FilesType, StoreType
<1>6. ~Ended(c)
  BY <1>2 DEF Ended
<1> DEFINE Moved ==
             \/ call'[c] = [at |-> "failed"]
             \/ /\ ~Refused(in) /\ mode = "file" /\ DOMAIN f = {}
                /\ call'[c] = [at |-> "done"]
             \/ /\ ~Refused(in) /\ mode = "file" /\ DOMAIN f # {}
                /\ call'[c] = [at |-> "next", todo |-> DOMAIN f]
             \/ /\ ~Refused(in) /\ mode = "ipc"
                /\ \E s \in Orders(f) :
                      call'[c] = [at |-> "sending", ops |-> [i \in DOMAIN s |-> OpOf(f, s[i])]]
<1>7. /\ call' = [d \in Call |-> call'[d]]
      /\ \A d \in Call \ {c} : call'[d] = call[d]
      /\ Moved
  <2>1. CASE Refused(in) /\ Become(c, [at |-> "failed"])
    BY <2>1, Becoming
  <2>2. CASE ~Refused(in) /\ mode = "file" /\ Proceed(c, DOMAIN f)
    BY <2>2, Proceeding
  <2>3. ASSUME ~Refused(in), mode = "ipc", NEW s \in Orders(f),
               Become(c, IF s = <<>> THEN [at |-> "failed"]
                         ELSE [at |-> "sending",
                               ops |-> [i \in DOMAIN s |-> OpOf(f, s[i])]])
        PROVE  /\ call' = [d \in Call |-> call'[d]]
               /\ \A d \in Call \ {c} : call'[d] = call[d]
               /\ Moved
    BY <2>3, Becoming
  <2> QED
    BY <1>1, <2>1, <2>2, <2>3
<1>8. seen'[c] \subseteq {d \in Call : Ended(d)'}
  BY <1>3, <1>6, <1>7 DEF Ended
<1>9. CallType(c)'
  BY <1>3, <1>4, <1>7 DEF CallType, InLoop
<1>10. call'[c].at # "failed" => \A k \in Key : Sets(c, k)' => k \in DOMAIN Temp
  BY <1>3, <1>7, PatchesFacts DEF Sets
<1>11. CallInv(c)'
  <2>1. CASE call'[c] = [at |-> "failed"]
    BY <1>2, <1>8, <2>1 DEF CallInv, InLoop, OnWire, Ended
  <2>2. CASE DOMAIN f = {} /\ call'[c] = [at |-> "done"]
    BY <1>2, <1>8, <1>10, <2>2 DEF CallInv, InLoop, OnWire, Ended
  <2>3. CASE mode = "file" /\ call'[c] = [at |-> "next", todo |-> DOMAIN f]
    BY <1>2, <1>3, <1>8, <1>10, <2>3 DEF CallInv, InLoop, OnWire, Ended
  <2>4. ASSUME mode = "ipc", NEW s \in Orders(f),
               call'[c] = [at |-> "sending", ops |-> [i \in DOMAIN s |-> OpOf(f, s[i])]]
        PROVE  CallInv(c)'
    <3>1. Asks(patch[c], call[c].ops)'
      BY <1>3, <2>4 DEF Asks
    <3> QED
      BY <1>2, <1>8, <1>10, <2>4, <3>1 DEF CallInv, InLoop, OnWire, Ended
  <2> QED
    BY <1>7, <2>1, <2>2, <2>3, <2>4
<1> QED
  BY <1>2, <1>3, <1>5, <1>6, <1>7, <1>9, <1>11, BaseFrame
-----------------------------------------------------------------------------
(* What the system calls do *)

\* c stays at the key of its loop, or leaves it behind.
Stays(c) == call'[c].todo = call[c].todo /\ Now(c)' = Now(c) /\ Rest(c)' = Rest(c)
MovesOn(c) ==
    \/ Rest(c) = {} /\ call'[c] = [at |-> "done"]
    \/ Rest(c) # {} /\ call'[c] = [at |-> "next", todo |-> Rest(c)]

LEMMA OpenFacts ==
  ASSUME Base, NEW c \in Call, OpenTemp(c)
  PROVE  /\ Quiet(c) /\ store' = store
         /\ call[c].at = "next" /\ call'[c].at = "opened" /\ Stays(c)
         /\ Sets(c, Now(c)) /\ Now(c) \in DOMAIN Temp
         /\ call'[c].inode \in Inode
         /\ Temp[Now(c)] \in DOMAIN dir => call'[c].inode = dir[Temp[Now(c)]]
         /\ Temp[Now(c)] \notin DOMAIN dir => call'[c].inode = <<c, Now(c)>>
         /\ DOMAIN dir' = DOMAIN dir \cup {Temp[Now(c)]}
         /\ dir' = [x \in DOMAIN dir' |-> dir'[x]]
         /\ dir'[Temp[Now(c)]] = call'[c].inode
         /\ \A x \in DOMAIN dir : dir'[x] = dir[x]
         /\ data' = [data EXCEPT ![call'[c].inode] = Torn]
<1> DEFINE k == Now(c)
           t == Temp[k]
           i == IF t \in DOMAIN dir THEN dir[t] ELSE <<c, k>>
<1>1. /\ call[c].at = "next" /\ patch[c][k] # Null
      /\ dir' = [x \in DOMAIN dir \cup {t} |-> IF x = t THEN i ELSE dir[x]]
      /\ data' = [data EXCEPT ![i] = Torn]
      /\ Become(c, [at |-> "opened", todo |-> call[c].todo, inode |-> i])
      /\ UNCHANGED <<mode, patch, seen, late, store, got>>
  BY DEF OpenTemp, TempName
<1>2. k \in call[c].todo /\ k \in DOMAIN patch[c] /\ k \in Key
  BY <1>1, LoopFacts DEF InLoop
<1>3. Sets(c, k) /\ k \in DOMAIN Temp
  BY <1>1, <1>2 DEF Sets, Base, CallInv
<1>4. /\ call'[c] = [at |-> "opened", todo |-> call[c].todo, inode |-> i]
      /\ \A d \in Call \ {c} : call'[d] = call[d]
      /\ call' = [d \in Call |-> call'[d]]
  BY <1>1, Becoming
<1>5. i \in Inode
  BY <1>2 DEF Base, TypeOK, Inode
<1>6. Stays(c)
  BY <1>4 DEF Stays, Now, Rest
<1> HIDE DEF k
<1> QED
  BY <1>1, <1>3, <1>4, <1>5, <1>6 DEF Quiet, k

LEMMA WriteFacts ==
  ASSUME Base, NEW c \in Call, WriteTemp(c)
  PROVE  /\ Quiet(c) /\ store' = store /\ dir' = dir
         /\ call[c].at = "opened" /\ call[c].inode \in Inode
         /\ Sets(c, Now(c)) /\ Now(c) \in DOMAIN Temp
         /\ \/ /\ call'[c].at = "written" /\ Stays(c)
               /\ \/ data' = [data EXCEPT ![call[c].inode] = patch[c][Now(c)]]
                  \/ /\ data[call[c].inode] # Torn
                     /\ data' = [data EXCEPT ![call[c].inode] = Torn]
            \/ call'[c].at = "failed" /\ data' = data
<1>1. /\ call[c].at = "opened" /\ UNCHANGED <<mode, patch, seen, late, dir, store, got>>
      /\ \/ /\ \E x \in {patch[c][Now(c)]} \cup (IF data[call[c].inode] = Torn THEN {} ELSE {Torn}) :
                  data' = [data EXCEPT ![call[c].inode] = x]
            /\ Become(c, [at |-> "written", todo |-> call[c].todo])
         \/ Become(c, [at |-> "failed"]) /\ UNCHANGED data
  BY DEF WriteTemp
<1>2. Now(c) \in DOMAIN patch[c] /\ Now(c) \in Key /\ patch[c][Now(c)] # Null /\ call[c].inode \in Inode
  BY <1>1, LoopFacts DEF InLoop, Base, CallInv
<1>3. Sets(c, Now(c)) /\ Now(c) \in DOMAIN Temp
  BY <1>1, <1>2 DEF Sets, Base, CallInv
<1>4. CASE /\ \E x \in {patch[c][Now(c)]} \cup (IF data[call[c].inode] = Torn THEN {} ELSE {Torn}) :
                  data' = [data EXCEPT ![call[c].inode] = x]
           /\ Become(c, [at |-> "written", todo |-> call[c].todo])
  <2>1. /\ call'[c] = [at |-> "written", todo |-> call[c].todo]
        /\ \A d \in Call \ {c} : call'[d] = call[d]
        /\ call' = [d \in Call |-> call'[d]]
    BY <1>4, Becoming
  <2>2. Stays(c)
    BY <2>1 DEF Stays, Now, Rest
  <2>3. \/ data' = [data EXCEPT ![call[c].inode] = patch[c][Now(c)]]
        \/ data[call[c].inode] # Torn /\ data' = [data EXCEPT ![call[c].inode] = Torn]
    BY <1>4
  <2> QED
    BY <1>1, <1>2, <1>3, <2>1, <2>2, <2>3 DEF Quiet
<1>5. CASE Become(c, [at |-> "failed"]) /\ UNCHANGED data
  BY <1>1, <1>2, <1>3, <1>5, Becoming DEF Quiet
<1> QED
  BY <1>1, <1>4, <1>5

LEMMA RenameFacts ==
  ASSUME Base, NEW c \in Call, Rename(c)
  PROVE  /\ Quiet(c) /\ store' = store /\ data' = data
         /\ call[c].at = "written"
         /\ Sets(c, Now(c)) /\ Now(c) \in DOMAIN Temp /\ Now(c) # Temp[Now(c)]
         /\ \/ /\ Temp[Now(c)] \in DOMAIN dir
               /\ DOMAIN dir' = (DOMAIN dir \ {Temp[Now(c)]}) \cup {Now(c)}
               /\ dir' = [x \in DOMAIN dir' |-> dir'[x]]
               /\ dir'[Now(c)] = dir[Temp[Now(c)]]
               /\ \A x \in DOMAIN dir' \ {Now(c)} : dir'[x] = dir[x]
               /\ MovesOn(c)
            \/ /\ Temp[Now(c)] \notin DOMAIN dir
               /\ dir' = dir /\ call'[c].at = "failed"
<1> DEFINE k == Now(c)
           t == Temp[k]
<1>1. /\ call[c].at = "written"
      /\ IF t \in DOMAIN dir
         THEN /\ dir' = [x \in (DOMAIN dir \ {t}) \cup {k} |-> IF x = k THEN dir[t] ELSE dir[x]]
              /\ Proceed(c, Rest(c))
         ELSE Become(c, [at |-> "failed"]) /\ UNCHANGED dir
      /\ UNCHANGED <<mode, patch, seen, late, data, store, got>>
  BY DEF Rename, TempName
<1>2. k \in DOMAIN patch[c] /\ k \in Key /\ patch[c][k] # Null
  BY <1>1, LoopFacts DEF InLoop, Base, CallInv
<1>3. Sets(c, k) /\ k \in DOMAIN Temp /\ k # t
  BY <1>1, <1>2, TempAssumption, BelowAssumption DEF Sets, Base, CallInv
<1> HIDE DEF k
<1>4. CASE t \in DOMAIN dir
  <2>1. Quiet(c) /\ MovesOn(c)
    BY <1>1, <1>4, Proceeding DEF Quiet, MovesOn
  <2> QED
    BY <1>1, <1>3, <1>4, <2>1 DEF k
<1>5. CASE t \notin DOMAIN dir
  <2>1. Quiet(c) /\ call'[c].at = "failed"
    BY <1>1, <1>5, Becoming DEF Quiet
  <2> QED
    BY <1>1, <1>3, <1>5, <2>1 DEF k
<1> QED
  BY <1>4, <1>5

LEMMA ReadFacts ==
  ASSUME Base, NEW c \in Call, ReadNames(c)
  PROVE  /\ Quiet(c) /\ UNCHANGED <<dir, data, store>>
         /\ call[c].at = "next" /\ Now(c) \in DOMAIN patch[c] /\ patch[c][Now(c)] = Null
         /\ \/ call'[c].at = "failed"
            \/ Victims(Now(c)) = {} /\ MovesOn(c)
            \/ /\ Victims(Now(c)) # {} /\ Stays(c)
               /\ call'[c].at = "removing" /\ call'[c].names = Victims(Now(c))
<1> DEFINE k == Now(c)
<1>1. /\ call[c].at = "next" /\ patch[c][k] = Null
      /\ IF k \in Invalid THEN Become(c, [at |-> "failed"])
         ELSE IF Victims(k) = {} THEN Proceed(c, Rest(c))
         ELSE Become(c, [at |-> "removing", todo |-> call[c].todo, names |-> Victims(k)])
      /\ UNCHANGED <<mode, patch, seen, late, dir, data, store, got>>
  BY DEF ReadNames
<1>2. k \in DOMAIN patch[c]
  BY <1>1, LoopFacts DEF InLoop
<1> HIDE DEF k
<1>3. CASE Become(c, [at |-> "failed"])
  BY <1>1, <1>2, <1>3, Becoming DEF Quiet, k
<1>4. CASE Victims(k) = {} /\ Proceed(c, Rest(c))
  BY <1>1, <1>2, <1>4, Proceeding DEF Quiet, MovesOn, k
<1>5. CASE /\ Victims(k) # {}
           /\ Become(c, [at |-> "removing", todo |-> call[c].todo, names |-> Victims(k)])
  <2>1. Quiet(c) /\ call'[c] = [at |-> "removing", todo |-> call[c].todo, names |-> Victims(k)]
    BY <1>1, <1>5, Becoming DEF Quiet
  <2>2. Stays(c)
    BY <2>1 DEF Stays, Now, Rest
  <2> QED
    BY <1>1, <1>2, <1>5, <2>1, <2>2 DEF k
<1> QED
  BY <1>1, <1>3, <1>4, <1>5

LEMMA RemoveFacts ==
  ASSUME Base, NEW c \in Call, RemoveName(c)
  PROVE  /\ Quiet(c) /\ UNCHANGED <<data, store>>
         /\ call[c].at = "removing" /\ Now(c) \in DOMAIN patch[c] /\ patch[c][Now(c)] = Null
         /\ call[c].names \subseteq Covered(Now(c))
         /\ \E x \in call[c].names :
               /\ DOMAIN dir' = DOMAIN dir \ {x} /\ dir' = [k \in DOMAIN dir' |-> dir'[k]]
               /\ \A k \in DOMAIN dir' : dir'[k] = dir[k]
               /\ \/ call[c].names = {x} /\ MovesOn(c)
                  \/ /\ call[c].names # {x} /\ Stays(c) /\ call'[c].at = "removing"
                     /\ call'[c].names = call[c].names \ {x}
<1> DEFINE x == First(call[c].names)
<1>1. /\ call[c].at = "removing"
      /\ dir' = [k \in DOMAIN dir \ {x} |-> dir[k]]
      /\ IF call[c].names = {x} THEN Proceed(c, Rest(c))
         ELSE Become(c, [at |-> "removing", todo |-> call[c].todo,
                         names |-> call[c].names \ {x}])
      /\ UNCHANGED <<mode, patch, seen, late, data, store, got>>
  BY DEF RemoveName
<1>2. Now(c) \in DOMAIN patch[c] /\ patch[c][Now(c)] = Null /\ call[c].names \subseteq Covered(Now(c))
  BY <1>1, LoopFacts DEF InLoop, Base, CallInv
<1>3. x \in call[c].names
  BY <1>1, FirstFacts DEF Base, TypeOK
<1> HIDE DEF x
<1>4. CASE call[c].names = {x}
  <2>1. Quiet(c) /\ MovesOn(c)
    BY <1>1, <1>4, Proceeding DEF Quiet, MovesOn
  <2> QED
    BY <1>1, <1>2, <1>3, <1>4, <2>1
<1>5. CASE call[c].names # {x}
  <2>1. Quiet(c) /\ call'[c] = [at |-> "removing", todo |-> call[c].todo,
                                names |-> call[c].names \ {x}]
    BY <1>1, <1>5, Becoming DEF Quiet
  <2>2. Stays(c)
    BY <2>1 DEF Stays, Now, Rest
  <2> QED
    BY <1>1, <1>2, <1>3, <1>5, <2>1, <2>2
<1> QED
  BY <1>4, <1>5
-----------------------------------------------------------------------------
(* What a request does *)

LEMMA OpOfFacts ==
  ASSUME Base, NEW c \in Call, NEW x \in DOMAIN patch[c], NEW k \in Key
  PROVE  LET o == OpOf(patch[c], x)
         IN  /\ o \in Op
             /\ Hits(o, k) <=> IF patch[c][x] = Null THEN k \in Covered(x) ELSE k = x
             /\ o \in SetOps <=> patch[c][x] # Null
             /\ patch[c][x] # Null => o.value = patch[c][x]
<1>1. x \in Key /\ patch[c][x] \in Value \cup {Null}
  BY DEF Base, TypeOK
<1>2. CASE patch[c][x] = Null
  <2>1. OpOf(patch[c], x) = [op |-> "unset", key |-> x]
    BY <1>2 DEF OpOf
  <2>2. OpOf(patch[c], x) \in UnsetOps /\ OpOf(patch[c], x) \notin SetOps
    BY <1>1, <2>1 DEF UnsetOps, SetOps
  <2> QED
    BY <1>1, <1>2, <2>1, <2>2 DEF Hits, Op
<1>3. CASE patch[c][x] # Null
  <2>1. OpOf(patch[c], x) = [op |-> "set", key |-> x, value |-> patch[c][x]]
    BY <1>3 DEF OpOf
  <2>2. OpOf(patch[c], x) \in SetOps /\ OpOf(patch[c], x) \notin UnsetOps
    BY <1>1, <1>3, <2>1 DEF UnsetOps, SetOps
  <2> QED
    BY <1>1, <1>3, <2>1, <2>2 DEF Hits, Op
<1> QED
  BY <1>2, <1>3

LEMMA OpsFacts ==
  ASSUME Base, NEW c \in Call, call[c].at \in OnWire
  PROVE  /\ call[c].ops \in Seq(Op)
         /\ \A i \in 1 .. Len(call[c].ops) :
               \E x \in DOMAIN patch[c] : call[c].ops[i] = OpOf(patch[c], x)
         /\ \A x \in DOMAIN patch[c] :
               \E i \in 1 .. Len(call[c].ops) : call[c].ops[i] = OpOf(patch[c], x)
<1> DEFINE n == Cardinality(DOMAIN patch[c])
<1>1. PICK s \in Orders(patch[c]) : call[c].ops = [i \in DOMAIN s |-> OpOf(patch[c], s[i])]
  BY DEF Base, CallInv, Asks
<1>2. n \in Nat
  BY SortedAssumption, FS_Subset, FS_CardinalityType DEF Base, TypeOK
<1>3. /\ s \in [1 .. n -> DOMAIN patch[c]]
      /\ \A x \in DOMAIN patch[c] : \E i \in DOMAIN s : s[i] = x
  BY DEF Orders
<1>4. \A x \in DOMAIN patch[c] : OpOf(patch[c], x) \in Op
  <2> SUFFICES ASSUME NEW x \in DOMAIN patch[c] PROVE OpOf(patch[c], x) \in Op
    OBVIOUS
  <2>1. x \in Key
    BY DEF Base, TypeOK
  <2> QED
    BY <2>1, OpOfFacts
<1>5. call[c].ops \in [1 .. n -> Op]
  BY <1>1, <1>3, <1>4
<1> HIDE DEF n
<1>6. call[c].ops \in Seq(Op) /\ Len(call[c].ops) = n
  BY <1>2, <1>5
<1> QED
  BY <1>1, <1>3, <1>6

LEMMA ApplyPatchFacts ==
  ASSUME Base, NEW c \in Call, call[c].at \in OnWire, NEW k \in Key
  PROVE  LET a == ApplyAll(store, call[c].ops)
         IN  /\ ~Touches(c, k) => Agree(a, store, k)
             /\ Touches(c, k) /\ ~Sets(c, k) => k \notin DOMAIN a
             /\ Sets(c, k) =>
                   \/ k \in DOMAIN a /\ a[k] = patch[c][k]
                   \/ /\ k \notin DOMAIN a
                      /\ \E x \in DOMAIN patch[c] : patch[c][x] = Null /\ k \in Covered(x)
<1> DEFINE a == ApplyAll(store, call[c].ops)
           ops == call[c].ops
<1>1. /\ ops \in Seq(Op)
      /\ \A i \in 1 .. Len(ops) : \E x \in DOMAIN patch[c] : ops[i] = OpOf(patch[c], x)
      /\ \A x \in DOMAIN patch[c] : \E i \in 1 .. Len(ops) : ops[i] = OpOf(patch[c], x)
  BY OpsFacts
<1>2. \/ /\ \A i \in 1 .. Len(ops) : ~Hits(ops[i], k)
         /\ Agree(a, store, k)
      \/ \E i \in 1 .. Len(ops) : Hits(ops[i], k) /\ Leaves(a, ops[i], k)
  BY <1>1, ApplyAllKey
<1> HIDE DEF a, ops
<1>3. CASE /\ \A i \in 1 .. Len(ops) : ~Hits(ops[i], k)
           /\ Agree(a, store, k)
  <2>1. \A x \in DOMAIN patch[c] : ~Hits(OpOf(patch[c], x), k)
    BY <1>1, <1>3
  <2>2. \A x \in DOMAIN patch[c] : ~ IF patch[c][x] = Null THEN k \in Covered(x) ELSE k = x
    BY <2>1, OpOfFacts
  <2>3. ~Touches(c, k) /\ ~Sets(c, k)
    BY <2>2 DEF Touches, Sets, Covered
  <2> QED
    BY <1>3, <2>3 DEF a, ops
<1>4. CASE \E i \in 1 .. Len(ops) : Hits(ops[i], k) /\ Leaves(a, ops[i], k)
  <2>1. PICK x \in DOMAIN patch[c] : /\ Hits(OpOf(patch[c], x), k)
                                     /\ Leaves(a, OpOf(patch[c], x), k)
    BY <1>1, <1>4
  <2>2. CASE patch[c][x] = Null
    <3>1. k \in Covered(x) /\ k \notin DOMAIN a
      BY <2>1, <2>2, OpOfFacts DEF Leaves
    <3>2. Touches(c, k)
      BY <2>2, <3>1 DEF Touches
    <3> QED
      BY <2>2, <3>1, <3>2 DEF a, ops
  <2>3. CASE patch[c][x] # Null
    <3>1. k = x /\ k \in DOMAIN a /\ a[k] = patch[c][x]
      BY <2>1, <2>3, OpOfFacts DEF Leaves
    <3>2. Touches(c, k) /\ Sets(c, k)
      BY <2>3, <3>1 DEF Touches, Sets
    <3> QED
      BY <3>1, <3>2 DEF a, ops
  <2> QED
    BY <2>2, <2>3
<1> QED
  BY <1>2, <1>3, <1>4

LEMMA StoreTyped ==
  ASSUME Base, NEW c \in Call, call[c].at \in OnWire, store' = ApplyAll(store, call[c].ops)
  PROVE  StoreType'
<1> DEFINE a == ApplyAll(store, call[c].ops)
<1>1. IsMap(store) /\ DOMAIN store \subseteq Key /\ \A k \in DOMAIN store : store[k] \in Value
  BY DEF Base, TypeOK, IsMap
<1>2. call[c].ops \in Seq(Op)
  BY OpsFacts
<1>3. IsMap(a) /\ DOMAIN a \subseteq Key /\ \A k \in DOMAIN a : a[k] \in Value
  BY <1>1, <1>2, ApplyAllMap
<1> HIDE DEF a
<1>4. store' = a
  BY DEF a
<1>5. a \in [DOMAIN a -> Value]
  BY <1>3 DEF IsMap
<1> QED
  BY <1>3, <1>4, <1>5 DEF StoreType

-----------------------------------------------------------------------------
(* Types, step by step *)

LEMMA MovesOnBase ==
  ASSUME Base, NEW c \in Call, call[c].at \in InLoop, MovesOn(c), Quiet(c)
  PROVE  CallType(c)' /\ CallInv(c)'
<1>1. /\ call[c].todo \in SUBSET Key /\ call[c].todo \subseteq DOMAIN patch[c]
      /\ \A k \in DOMAIN patch[c] \ Rest(c), l \in Rest(c) : <<k, l>> \notin Below
  BY LoopFacts
<1>2. /\ seen'[c] \subseteq {d \in Call : Ended(d)'}
      /\ \A k \in Key : Sets(c, k)' => k \in DOMAIN Temp
      /\ mode' # "ipc" /\ mode' = mode /\ patch' = patch /\ got' = got /\ got = <<>>
      /\ DOMAIN patch[c] \subseteq Key /\ patch[c] \in [DOMAIN patch[c] -> Value \cup {Null}]
  <2>1. ~Ended(c)
    BY DEF Ended, InLoop
  <2>2. \A d \in Call : Ended(d) => Ended(d)'
    BY <2>1 DEF Quiet, Ended
  <2>3. call[c].at # "failed" /\ call[c].at \notin {"idle", "adrift"}
    BY DEF InLoop
  <2> QED
    BY <2>1, <2>2, <2>3 DEF Quiet, Base, TypeOK, CallInv, Sets
<1>3. Rest(c) \subseteq DOMAIN patch[c] /\ Rest(c) \subseteq Key
  BY <1>1 DEF Rest
<1>4. CASE Rest(c) = {} /\ call'[c] = [at |-> "done"]
  BY <1>2, <1>4 DEF CallType, CallInv, InLoop, OnWire, Ended
<1>5. CASE Rest(c) # {} /\ call'[c] = [at |-> "next", todo |-> Rest(c)]
  BY <1>1, <1>2, <1>3, <1>5 DEF CallType, CallInv, InLoop, OnWire, Ended
<1> QED
  BY <1>4, <1>5 DEF MovesOn

\* A command in a loop ends, or goes on with the same key.
LEMMA StaysBase ==
  ASSUME Base, NEW c \in Call, call[c].at \in InLoop, Quiet(c),
         \/ call'[c].at \in {"failed", "killed"}
         \/ /\ Stays(c) /\ call'[c].at \in {"opened", "written", "removing"}
            /\ call'[c].at \in {"opened", "written"} => patch[c][Now(c)] # Null
            /\ call'[c].at = "opened" => call'[c].inode \in Inode
            /\ call'[c].at = "removing" =>
                  /\ patch[c][Now(c)] = Null
                  /\ call'[c].names \subseteq Covered(Now(c)) /\ call'[c].names # {}
  PROVE  CallType(c)' /\ CallInv(c)'
<1>1. /\ call[c].todo \in SUBSET Key /\ call[c].todo \subseteq DOMAIN patch[c] /\ call[c].todo # {}
      /\ \A k \in DOMAIN patch[c] \ call[c].todo, l \in call[c].todo : <<k, l>> \notin Below
  BY LoopFacts DEF Base, CallInv
<1>2. /\ seen'[c] \subseteq {d \in Call : Ended(d)'}
      /\ \A k \in Key : Sets(c, k)' => k \in DOMAIN Temp
      /\ mode' # "ipc" /\ mode' = mode /\ patch' = patch /\ got' = got /\ got = <<>>
      /\ DOMAIN patch[c] \subseteq Key /\ patch[c] \in [DOMAIN patch[c] -> Value \cup {Null}]
  <2>1. ~Ended(c)
    BY DEF Ended, InLoop
  <2>2. \A d \in Call : Ended(d) => Ended(d)'
    BY <2>1 DEF Quiet, Ended
  <2>3. call[c].at # "failed" /\ call[c].at \notin {"idle", "adrift"}
    BY DEF InLoop
  <2> QED
    BY <2>1, <2>2, <2>3 DEF Quiet, Base, TypeOK, CallInv, Sets
<1>3. CASE call'[c].at \in {"failed", "killed"}
  BY <1>2, <1>3 DEF CallType, CallInv, InLoop, OnWire, Ended
<1>4. CASE Stays(c) /\ call'[c].at \in {"opened", "written", "removing"}
  <2>1. Now(c)' = Now(c) /\ call'[c].todo = call[c].todo /\ \A k : Covered(k) \subseteq Key
    BY <1>4 DEF Stays, Covered
  <2>2. CallType(c)'
    BY <1>1, <1>2, <1>4, <2>1 DEF CallType, InLoop
  <2> HIDE DEF Now
  <2>3. CallInv(c)'
    BY <1>1, <1>2, <1>4, <2>1 DEF CallInv, InLoop, OnWire, Ended
  <2> QED
    BY <2>2, <2>3
<1> QED
  BY <1>3, <1>4
LEMMA WireBase ==
  ASSUME Base, NEW c \in Call, call[c].at \in OnWire, Quiet(c),
         \/ call'[c].at \in {"done", "failed"} /\ got = <<>>
         \/ call'[c].at = "killed"
         \/ call'[c].at = "adrift" /\ call'[c].ops = call[c].ops
  PROVE  CallType(c)' /\ CallInv(c)'
<1>1. ~Ended(c) /\ call[c].at # "failed"
  BY DEF Ended, OnWire
<1>2. \A d \in Call : Ended(d) => Ended(d)'
  BY <1>1 DEF Quiet, Ended
<1>3. /\ seen'[c] \subseteq {d \in Call : Ended(d)'}
      /\ \A k \in Key : Sets(c, k)' => k \in DOMAIN Temp
      /\ mode' # "file" /\ mode' = mode /\ patch' = patch /\ got' = got
      /\ DOMAIN patch[c] \subseteq Key /\ patch[c] \in [DOMAIN patch[c] -> Value \cup {Null}]
      /\ Asks(patch[c], call[c].ops)
  BY <1>1, <1>2 DEF Quiet, Base, TypeOK, CallInv, Sets
<1>4. CallType(c)'
  BY <1>3 DEF CallType, InLoop
<1>5. CASE call'[c].at \in {"done", "failed", "killed"}
  <2>1. got' # <<>> => call'[c].at \in {"idle", "adrift"} \/ Ended(c)'
    BY <1>5 DEF Ended
  <2> QED
    BY <1>3, <1>4, <1>5, <2>1 DEF CallInv, InLoop, OnWire
<1>6. CASE call'[c].at = "adrift" /\ call'[c].ops = call[c].ops
  <2>1. Asks(patch[c], call[c].ops)'
    BY <1>3, <1>6
  <2> QED
    BY <1>3, <1>4, <1>6, <2>1 DEF CallInv, InLoop, OnWire
<1> QED
  BY <1>5, <1>6

LEMMA KillFacts ==
  ASSUME Base, NEW c \in Call, Kill(c)
  PROVE  /\ Quiet(c) /\ UNCHANGED <<dir, data, store>>
         /\ call[c].at \in InLoop /\ call'[c].at = "killed"
BY Becoming DEF Kill, Quiet, InLoop

LEMMA WireFacts ==
  ASSUME Base, NEW c \in Call, Deliver(c) \/ Abandon(c) \/ Arrive(c)
  PROVE  /\ Quiet(c) /\ UNCHANGED <<dir, data>> /\ call[c].at \in OnWire /\ mode = "ipc"
         /\ \/ /\ store' = ApplyAll(store, call[c].ops)
               /\ \/ call'[c].at = "done" /\ got = <<>>
                  \/ call'[c].at = "killed"
            \/ /\ store' = store
               /\ \/ call'[c].at = "failed" /\ got = <<>>
                  \/ call'[c].at = "adrift" /\ call'[c].ops = call[c].ops
<1>1. call[c].at \in OnWire
  BY DEF Deliver, Abandon, Arrive, OnWire
<1>2. mode = "ipc" /\ (call[c].at = "sending" => got = <<>>)
  BY <1>1, ModesAssumption DEF Base, TypeOK, CallInv, OnWire, Ended
<1>3. CASE Deliver(c)
  <2>1. call[c].at = "sending" /\ UNCHANGED <<mode, patch, seen, late, dir, data, got>>
    BY <1>3 DEF Deliver
  <2>2. CASE store' = ApplyAll(store, call[c].ops) /\ Become(c, [at |-> "done"])
    <3>1. Quiet(c) /\ call'[c].at = "done"
      BY <2>1, <2>2, Becoming DEF Quiet
    <3> QED
      BY <1>1, <1>2, <2>1, <2>2, <3>1
  <2>3. CASE Become(c, [at |-> "failed"]) /\ UNCHANGED store
    <3>1. Quiet(c) /\ call'[c].at = "failed"
      BY <2>1, <2>3, Becoming DEF Quiet
    <3> QED
      BY <1>1, <1>2, <2>1, <2>3, <3>1
  <2> QED
    BY <1>3, <2>2, <2>3 DEF Deliver
<1>4. CASE Abandon(c)
  <2>1. UNCHANGED <<mode, patch, seen, late, dir, data, store, got>>
        /\ Become(c, [at |-> "adrift", ops |-> call[c].ops])
    BY <1>4 DEF Abandon
  <2>2. Quiet(c) /\ call'[c] = [at |-> "adrift", ops |-> call[c].ops]
    BY <2>1, Becoming DEF Quiet
  <2> QED
    BY <1>1, <1>2, <2>1, <2>2
<1>5. CASE Arrive(c)
  <2>1. /\ UNCHANGED <<mode, patch, seen, late, dir, data, got>>
        /\ store' = ApplyAll(store, call[c].ops) /\ Become(c, [at |-> "killed"])
    BY <1>5 DEF Arrive
  <2>2. Quiet(c) /\ call'[c].at = "killed"
    BY <2>1, Becoming DEF Quiet
  <2> QED
    BY <1>1, <1>2, <2>1, <2>2
<1> QED
  BY <1>3, <1>4, <1>5

LEMMA LoopBase ==
  ASSUME Base, NEW c \in Call,
         OpenTemp(c) \/ WriteTemp(c) \/ Rename(c) \/ ReadNames(c) \/ RemoveName(c) \/ Kill(c)
  PROVE  Base'
<1>0. FilesType /\ StoreType
  BY DEF Base, TypeOK, FilesType, StoreType
<1>1. \A k : Covered(k) \subseteq Key
  BY DEF Covered
<1>2. ASSUME call[c].at \in InLoop, Quiet(c), FilesType', StoreType',
             CallType(c)' /\ CallInv(c)'
      PROVE  Base'
  BY <1>2, QuietBase DEF Ended, InLoop
<1>3. CASE OpenTemp(c)
  <2>1. CallType(c)' /\ CallInv(c)' /\ call[c].at \in InLoop
    BY <1>3, OpenFacts, StaysBase DEF InLoop, Sets
  <2>2. FilesType' /\ StoreType'
    <3>1. /\ DOMAIN dir' = DOMAIN dir \cup {Temp[Now(c)]} /\ dir' = [x \in DOMAIN dir' |-> dir'[x]]
          /\ dir'[Temp[Now(c)]] \in Inode /\ \A x \in DOMAIN dir : dir'[x] = dir[x]
          /\ store' = store /\ call'[c].inode \in Inode
          /\ data' = [data EXCEPT ![call'[c].inode] = Torn]
      BY <1>3, OpenFacts
    <3>2. Temp[Now(c)] \in Key
      BY <1>3, OpenFacts, TempAssumption
    <3>3. DOMAIN dir' \subseteq Key /\ \A x \in DOMAIN dir' : dir'[x] \in Inode
      BY ONLY <1>0, <3>1, <3>2 DEF FilesType
    <3>4. dir' \in [DOMAIN dir' -> Inode]
      BY ONLY <3>1, <3>3
    <3>5. data' \in [Inode -> Value \cup {Torn}]
      BY ONLY <1>0, <3>1 DEF FilesType
    <3> QED
      BY <1>0, <3>1, <3>3, <3>4, <3>5 DEF FilesType, StoreType
  <2> QED
    BY <1>2, <1>3, <2>1, <2>2, OpenFacts
<1>4. CASE WriteTemp(c)
  <2>1. CallType(c)' /\ CallInv(c)' /\ call[c].at \in InLoop
    BY <1>4, WriteFacts, StaysBase DEF InLoop, Sets
  <2>2. FilesType' /\ StoreType'
    <3>1. patch[c][Now(c)] \in Value
      BY <1>4, WriteFacts DEF Sets, Base, TypeOK
    <3> QED
      BY <1>0, <1>4, <3>1, WriteFacts DEF FilesType, StoreType
  <2> QED
    BY <1>2, <1>4, <2>1, <2>2, WriteFacts
<1>5. CASE Rename(c)
  <2>1. call[c].at \in InLoop
    BY <1>5, RenameFacts DEF InLoop
  <2>2. CallType(c)' /\ CallInv(c)'
    <3>1. Quiet(c) /\ (MovesOn(c) \/ call'[c].at = "failed")
      BY <1>5, RenameFacts
    <3> QED
      BY <2>1, <3>1, MovesOnBase, StaysBase
  <2>3. FilesType' /\ StoreType'
    <3>1. Now(c) \in Key
      BY <2>1, LoopFacts
    <3>2. /\ DOMAIN dir' \subseteq Key /\ dir' \in [DOMAIN dir' -> Inode]
      <4>1. CASE dir' = dir
        BY <1>0, <4>1 DEF FilesType
      <4>2. CASE /\ Temp[Now(c)] \in DOMAIN dir
                 /\ DOMAIN dir' = (DOMAIN dir \ {Temp[Now(c)]}) \cup {Now(c)}
                 /\ dir' = [x \in DOMAIN dir' |-> dir'[x]]
                 /\ dir'[Now(c)] = dir[Temp[Now(c)]]
                 /\ \A x \in DOMAIN dir' \ {Now(c)} : dir'[x] = dir[x]
        <5>1. DOMAIN dir' \subseteq Key
          BY <1>0, <3>1, <4>2 DEF FilesType
        <5>2. \A x \in DOMAIN dir' : dir'[x] \in Inode
          BY <1>0, <4>2 DEF FilesType
        <5> QED
          BY <4>2, <5>1, <5>2
      <4> QED
        BY <1>5, <4>1, <4>2, RenameFacts
    <3> QED
      BY <1>0, <1>5, <3>2, RenameFacts DEF FilesType, StoreType
  <2> QED
    BY <1>2, <1>5, <2>1, <2>2, <2>3, RenameFacts
<1>6. CASE ReadNames(c)
  <2>1. call[c].at \in InLoop
    BY <1>6, ReadFacts DEF InLoop
  <2>2. CallType(c)' /\ CallInv(c)'
    <3>1. Victims(Now(c)) \subseteq Covered(Now(c))
      BY DEF Victims
    <3> QED
      BY <1>6, <2>1, <3>1, ReadFacts, MovesOnBase, StaysBase
  <2>3. FilesType' /\ StoreType'
    BY <1>0, <1>6, ReadFacts DEF FilesType, StoreType
  <2> QED
    BY <1>2, <1>6, <2>1, <2>2, <2>3, ReadFacts
<1>7. CASE RemoveName(c)
  <2>1. call[c].at \in InLoop
    BY <1>7, RemoveFacts DEF InLoop
  <2>2. PICK x \in call[c].names :
               /\ DOMAIN dir' = DOMAIN dir \ {x} /\ dir' = [k \in DOMAIN dir' |-> dir'[k]]
               /\ \A k \in DOMAIN dir' : dir'[k] = dir[k]
               /\ \/ call[c].names = {x} /\ MovesOn(c)
                  \/ /\ call[c].names # {x} /\ Stays(c) /\ call'[c].at = "removing"
                     /\ call'[c].names = call[c].names \ {x}
    BY <1>7, RemoveFacts
  <2>3. CallType(c)' /\ CallInv(c)'
    BY <1>7, <2>1, <2>2, RemoveFacts, MovesOnBase, StaysBase
  <2>4. FilesType' /\ StoreType'
    BY <1>0, <1>7, <2>2, RemoveFacts DEF FilesType, StoreType
  <2> QED
    BY <1>2, <1>7, <2>1, <2>3, <2>4, RemoveFacts
<1>8. CASE Kill(c)
  <2>1. CallType(c)' /\ CallInv(c)'
    BY <1>8, KillFacts, StaysBase
  <2>2. FilesType' /\ StoreType'
    BY <1>0, <1>8, KillFacts DEF FilesType, StoreType
  <2> QED
    BY <1>2, <1>8, <2>1, <2>2, KillFacts
<1> QED
  BY <1>3, <1>4, <1>5, <1>6, <1>7, <1>8

LEMMA WireStepBase ==
  ASSUME Base, NEW c \in Call, Deliver(c) \/ Abandon(c) \/ Arrive(c)
  PROVE  Base'
<1>1. CallType(c)' /\ CallInv(c)'
  BY WireFacts, WireBase
<1>2. FilesType' /\ StoreType'
  <2>1. FilesType /\ StoreType
    BY DEF Base, TypeOK, FilesType, StoreType
  <2>2. FilesType'
    BY <2>1, WireFacts DEF FilesType
  <2>3. StoreType'
    BY <2>1, WireFacts, StoreTyped DEF StoreType
  <2> QED
    BY <2>2, <2>3
<1>3. ~Ended(c)
  BY WireFacts DEF Ended, OnWire
<1> QED
  BY <1>1, <1>2, <1>3, WireFacts, QuietBase

LEMMA CopyBase ==
  ASSUME Base, CopyOutputs
  PROVE  Base'
<1>1. /\ \A c \in Call : call[c].at \in {"idle", "adrift"} \/ Ended(c)
      /\ UNCHANGED <<mode, call, patch, seen, late, dir, data, store>>
  BY DEF CopyOutputs
<1>2. TypeOK'
  BY <1>1 DEF Base, TypeOK
<1>3. \A c \in Call : CallInv(c)'
  <2> SUFFICES ASSUME NEW c \in Call PROVE CallInv(c)'
    OBVIOUS
  <2>1. Ended(c)' = Ended(c) /\ (\A d \in Call : Ended(d)' = Ended(d)) /\ Now(c)' = Now(c)
    BY <1>1 DEF Ended, Now
  <2>2. CallInv(c)
    BY DEF Base
  <2> QED
    BY <1>1, <2>1, <2>2 DEF CallInv, Sets, Now, Ended
<1> QED
  BY <1>1, <1>2, <1>3 DEF Base

LEMMA BaseNext ==
  ASSUME Base, [Next]_vars
  PROVE  Base'
<1>1. CASE UNCHANGED vars
  <2>1. TypeOK'
    BY <1>1 DEF Base, TypeOK, vars
  <2>2. \A c \in Call : CallInv(c)'
    BY <1>1 DEF Base, CallInv, vars, Sets, Now, Ended
  <2> QED
    BY <1>1, <2>1, <2>2 DEF Base, vars
<1>2. CASE CopyOutputs
  BY <1>2, CopyBase
<1>3. ASSUME NEW c \in Call, CallNext(c)
      PROVE  Base'
  BY <1>3, StartBase, LoopBase, WireStepBase DEF CallNext
<1> QED
  BY <1>1, <1>2, <1>3 DEF Next

LEMMA InitBase == Init => Base
<1> SUFFICES ASSUME Init PROVE Base
  OBVIOUS
<1>1. \A c \in Call : call[c] = [at |-> "idle"] /\ DOMAIN patch[c] = {} /\ seen[c] = {}
  BY DEF Init
<1>2. TypeOK
  <2>1. \A c \in Call : patch[c] \in [DOMAIN patch[c] -> Value \cup {Null}]
    BY DEF Init
  <2>2. DOMAIN dir = {} /\ dir \in [DOMAIN dir -> Inode]
    BY DEF Init
  <2>3. DOMAIN store = {} /\ store \in [DOMAIN store -> Value]
    BY DEF Init, EmptyMap
  <2> QED
    BY <1>1, <2>1, <2>2, <2>3 DEF Init, TypeOK
<1>3. \A c \in Call : CallInv(c)
  BY <1>1 DEF CallInv, InLoop, OnWire, Sets, Init
<1> QED
  BY <1>2, <1>3 DEF Base, Init

\* Every variable keeps its type: the loops of a command always have a key to
\* go on with, and what the service stores are values under keys.
THEOREM TypeCorrect == Spec => []TypeOK
<1>1. Base /\ [Next]_vars => Base'
  BY BaseNext
<1>2. Base => TypeOK
  BY DEF Base
<1> QED
  BY <1>1, <1>2, InitBase, PTL DEF Spec
-----------------------------------------------------------------------------
(* What has happened stays so *)

Active(c) == call[c].at # "idle"

\* A step leaves what the commands that have started were asked to do.
Kept ==
    /\ mode' = mode
    /\ \A c \in Call : Active(c) =>
          patch'[c] = patch[c] /\ seen'[c] = seen[c] /\ late'[c] = late[c]

LEMMA NextKept ==
  ASSUME Base, [Next]_vars
  PROVE  Kept
<1>1. CASE UNCHANGED vars
  BY <1>1 DEF vars, Kept
<1>2. CASE CopyOutputs
  BY <1>2 DEF CopyOutputs, Kept
<1>3. ASSUME NEW c \in Call, CallNext(c)
      PROVE  Kept
  <2>1. CASE Start(c)
    <3>1. PICK f : patch' = [patch EXCEPT ![c] = f]
      BY <2>1 DEF Start
    <3>2. \A d \in Call \ {c} : patch'[d] = patch[d] /\ seen'[d] = seen[d] /\ late'[d] = late[d]
      BY <2>1, <3>1 DEF Start, Base, TypeOK
    <3>3. mode' = mode /\ ~Active(c)
      BY <2>1 DEF Start, Active
    <3> QED
      BY <3>2, <3>3 DEF Kept
  <2>2. CASE OpenTemp(c) \/ WriteTemp(c) \/ Rename(c)
    BY <2>2 DEF OpenTemp, WriteTemp, Rename, Kept
  <2>3. CASE ReadNames(c) \/ RemoveName(c) \/ Kill(c)
    BY <2>3 DEF ReadNames, RemoveName, Kill, Kept
  <2>4. CASE Deliver(c) \/ Abandon(c) \/ Arrive(c)
    BY <2>4 DEF Deliver, Abandon, Arrive, Kept
  <2> QED
    BY <1>3, <2>1, <2>2, <2>3, <2>4 DEF CallNext
<1> QED
  BY <1>1, <1>2, <1>3 DEF Next

LEMMA KeptFacts ==
  ASSUME Base, Kept
  PROVE  /\ \A c \in Call : \A k : Sets(c, k) =>
               Active(c) /\ Sets(c, k)' /\ patch'[c][k] = patch[c][k]
         /\ \A c \in Call : \A k : Meddles(c, k) => Active(c) /\ Meddles(c, k)'
         /\ \A c, d \in Call : Active(c) /\ Active(d) /\ Beside(c, d) => Beside(c, d)'
         /\ \A c \in Call : \A k : Active(c) /\ Clear(c, k)' => Clear(c, k)
         /\ \A c \in Call : \A k : Active(c) /\ Alone(c, k)' => Alone(c, k)
         /\ \A c \in Call : \A k : Touches(c, k) => Active(c) /\ Touches(c, k)'
         /\ \A c \in Call : \A k : Active(c) /\ Last(c, k)' => Last(c, k)
         /\ \A k, v : Published(k, v) => Published(k, v)'
         /\ \A k : Tangled(k) => Tangled(k)'
<1>1. \A c \in Call : \A k : Sets(c, k) =>
               Active(c) /\ Sets(c, k)' /\ patch'[c][k] = patch[c][k]
  BY DEF Kept, Sets, Active, Base, CallInv
<1>2. \A c \in Call : \A k : Meddles(c, k) => Active(c) /\ Meddles(c, k)'
  <2> SUFFICES ASSUME NEW c \in Call, NEW k, Meddles(c, k)
               PROVE  Active(c) /\ Meddles(c, k)'
    OBVIOUS
  <2>1. CASE Touches(c, k)
    <3>1. Active(c)
      BY <2>1 DEF Touches, Active, Base, CallInv
    <3>2. Touches(c, k)'
      BY <2>1, <3>1 DEF Touches, Kept
    <3> QED
      BY <3>1, <3>2 DEF Meddles
  <2>2. CASE Clobbers(c, k)
    <3>1. PICK x \in Key : Sets(c, x) /\ (x \in Temps[k] \/ k \in Temps[x])
      BY <2>2 DEF Clobbers
    <3>2. Active(c) /\ Sets(c, x)' /\ mode' = "file"
      BY <1>1, <2>2, <3>1 DEF Kept, Clobbers
    <3>3. Clobbers(c, k)'
      BY <3>1, <3>2 DEF Clobbers
    <3> QED
      BY <3>2, <3>3 DEF Meddles
  <2> QED
    BY <2>1, <2>2 DEF Meddles
<1>3. \A c, d \in Call : Active(c) /\ Active(d) /\ Beside(c, d) => Beside(c, d)'
  BY DEF Kept, Beside
<1>4. \A c \in Call : \A k : Active(c) /\ Clear(c, k)' => Clear(c, k)
  BY <1>2, <1>3 DEF Clear
<1>5. \A c \in Call : \A k : Active(c) /\ Alone(c, k)' => Alone(c, k)
  BY <1>2 DEF Alone, Kept
<1>6. \A k, v : Published(k, v) => Published(k, v)'
  BY <1>1 DEF Published
<1>8. \A c \in Call : \A k : Touches(c, k) => Active(c) /\ Touches(c, k)'
  <2> SUFFICES ASSUME NEW c \in Call, NEW k, Touches(c, k)
               PROVE  Active(c) /\ Touches(c, k)'
    OBVIOUS
  <2>1. Active(c)
    BY DEF Touches, Active, Base, CallInv
  <2>2. Touches(c, k)'
    BY <2>1 DEF Touches, Kept
  <2> QED
    BY <2>1, <2>2
<1>9. \A c \in Call : \A k : Active(c) /\ Last(c, k)' => Last(c, k)
  BY <1>8 DEF Last, Kept
<1>7. \A k : Tangled(k) => Tangled(k)'
  <2> SUFFICES ASSUME NEW k, NEW c \in Call, NEW d \in Call,
                      Beside(c, d), Sets(c, k), Meddles(d, k)
               PROVE  Tangled(k)'
    BY DEF Tangled
  <2>1. Beside(c, d)' /\ Sets(c, k)' /\ Meddles(d, k)'
    BY <1>1, <1>2, <1>3
  <2> QED
    BY <2>1 DEF Tangled
<1> QED
  BY <1>1, <1>2, <1>3, <1>4, <1>5, <1>6, <1>7, <1>8, <1>9

\* Two commands that run at the same time.
LEMMA RunningBeside ==
  ASSUME Base, NEW c \in Call, NEW d \in Call, c # d,
         call[c].at \in InLoop \cup OnWire, call[d].at \in InLoop \cup OnWire
  PROVE  Beside(c, d) /\ Beside(d, c)
<1>1. ~Ended(c) /\ ~Ended(d)
  BY DEF Ended, InLoop, OnWire
<1> QED
  BY <1>1 DEF Base, CallInv, Beside

-----------------------------------------------------------------------------
(* The directory *)

\* c goes on without making a name or writing to a file.
LEMMA ShrinkFile ==
  ASSUME Base, Kept, mode = "file", FileInv, NEW c \in Call,
         \A d \in Call \ {c} : call'[d] = call[d],
         data' = data, \A k \in DOMAIN dir' : k \in DOMAIN dir /\ dir'[k] = dir[k],
         call'[c].at \notin {"opened", "written"},
         \A x \in Key : Unmade(c, x)' => Unmade(c, x),
         \A x \in DOMAIN Temp : Awaits(c, x) => Awaits(c, x)'
  PROVE  FileInv'
<1>0. InodeInv /\ DirInv /\ \A e \in Call : OpenInv(e) /\ WrittenInv(e)
  BY DEF FileInv
<1>1. \A d \in Call \ {c} : Now(d)' = Now(d) /\ Rest(d)' = Rest(d)
  BY DEF Now, Rest
<1>2. InodeInv'
  <2>1. \A d \in Call, x \in Key : Unmade(d, x)' => Unmade(d, x)
    <3>1. \A d \in Call \ {c}, x \in Key : Unmade(d, x)' => Unmade(d, x)
      BY <1>1 DEF Unmade
    <3> QED
      BY <3>1
  <2>2. \A d \in Call : call'[d].at = "opened" => call'[d] = call[d]
    OBVIOUS
  <2> QED
    BY <1>0, <2>1, <2>2 DEF InodeInv
<1>3. DirInv'
  <2>1. \A d \in Call, x \in DOMAIN Temp : Awaits(d, x) => Awaits(d, x)'
    <3>1. \A d \in Call \ {c}, x \in DOMAIN Temp : Awaits(d, x) => Awaits(d, x)'
      BY KeptFacts DEF Awaits
    <3> QED
      BY <3>1
  <2>2. \A k : Pending(k) => Pending(k)'
    BY <2>1 DEF Pending, Awaits
  <2> QED
    BY <1>0, <2>2, KeptFacts DEF DirInv
<1>4. ASSUME NEW e \in Call PROVE OpenInv(e)'
  <2> SUFFICES ASSUME call'[e].at = "opened" PROVE OpenInv(e)'
    BY DEF OpenInv
  <2>1. e # c /\ call'[e] = call[e] /\ Now(e)' = Now(e) /\ Active(e) /\ call[e].at = "opened"
    BY <1>1 DEF Active
  <2>2. \A d \in Call : call'[d].at = "opened" => call'[d] = call[d]
    OBVIOUS
  <2>3. \A k : Clear(e, k)' => Clear(e, k)
    BY <2>1, KeptFacts
  <2>4. \A k \in DOMAIN dir' : dir'[k] = call'[e].inode =>
              \/ k = Temp[Now(e)]
              \/ /\ \E d \in Call : Beside(e, d)' /\ Sets(d, k)'
                 /\ k = Now(e) \/ Now(e) \in Temps[k]
    BY <1>0, <2>1, KeptFacts DEF OpenInv
  <2> QED
    BY <1>0, <2>1, <2>2, <2>3, <2>4 DEF OpenInv
<1>5. ASSUME NEW e \in Call PROVE WrittenInv(e)'
  <2> SUFFICES ASSUME call'[e].at = "written" PROVE WrittenInv(e)'
    BY DEF WrittenInv
  <2>1. e # c /\ call'[e] = call[e] /\ Now(e)' = Now(e) /\ Active(e)
    BY <1>1 DEF Active
  <2>2. Clear(e, Now(e))' => Clear(e, Now(e))
    BY <2>1, KeptFacts
  <2>3. patch'[e] = patch[e]
    BY <2>1 DEF Kept
  <2> QED
    BY <1>0, <2>1, <2>2, <2>3 DEF WrittenInv
<1> QED
  BY <1>2, <1>3, <1>4, <1>5 DEF FileInv

LEMMA StartFacts ==
  ASSUME Base, NEW c \in Call, Start(c), mode = "file"
  PROVE  /\ UNCHANGED <<mode, dir, data, store, got>> /\ call[c].at = "idle" /\ got = <<>>
         /\ \A d \in Call \ {c} : call'[d] = call[d]
         /\ \/ call'[c].at = "failed"
            \/ call'[c].at = "done" /\ DOMAIN patch'[c] = {}
            \/ call'[c].at = "next" /\ call'[c].todo = DOMAIN patch'[c]
<1>1. UNCHANGED <<mode, dir, data, store, got>> /\ call[c].at = "idle" /\ got = <<>>
  BY DEF Start
<1>2. PICK in \in Inputs, f \in UNION {Patches(i.leaves) : i \in Inputs} :
        /\ patch' = [patch EXCEPT ![c] = f]
        /\ \/ Become(c, [at |-> "failed"])
           \/ Proceed(c, DOMAIN f)
  BY DEF Start
<1>3. patch'[c] = f
  BY <1>2 DEF Base
<1>4. CASE Become(c, [at |-> "failed"])
  BY <1>1, <1>4, Becoming
<1>5. CASE Proceed(c, DOMAIN f)
  <2>1. /\ \/ DOMAIN f = {} /\ call'[c] = [at |-> "done"]
           \/ DOMAIN f # {} /\ call'[c] = [at |-> "next", todo |-> DOMAIN f]
        /\ \A d \in Call \ {c} : call'[d] = call[d]
    BY <1>5, Proceeding
  <2>2. \/ call'[c].at = "done" /\ DOMAIN f = {}
        \/ call'[c].at = "next" /\ call'[c].todo = DOMAIN f
    BY <2>1
  <2> QED
    BY <1>1, <1>3, <2>1, <2>2
<1> QED
  BY <1>2, <1>4, <1>5

\* Leaving a key to unset behind.
LEMMA MovesOnFrom ==
  ASSUME Base, NEW c \in Call, call[c].at \in InLoop, MovesOn(c), patch' = patch
  PROVE  /\ call'[c].at \notin {"opened", "written"}
         /\ \A x \in Key : Unmade(c, x)' => x \in Rest(c) /\ Unmade(c, x)
         /\ \A x \in DOMAIN Temp : Awaits(c, x) /\ x # Now(c) => Awaits(c, x)'
<1>1. CASE Rest(c) = {} /\ call'[c] = [at |-> "done"]
  BY <1>1 DEF Unmade, Awaits, InLoop, Rest
<1>2. CASE Rest(c) # {} /\ call'[c] = [at |-> "next", todo |-> Rest(c)]
  BY <1>2 DEF Unmade, Awaits, InLoop, Rest, Sets
<1> QED
  BY <1>1, <1>2 DEF MovesOn

LEMMA ShrinkSteps ==
  ASSUME Base, Kept, mode = "file", FileInv, NEW c \in Call,
         \/ Start(c) \/ ReadNames(c) \/ RemoveName(c) \/ Kill(c)
         \/ WriteTemp(c) /\ call'[c].at = "failed"
         \/ Rename(c) /\ Temp[Now(c)] \notin DOMAIN dir
  PROVE  FileInv'
<1>1. CASE Start(c)
  <2>1. \A x : ~Sets(c, x) /\ Unmade(c, x)
    BY <1>1, StartFacts, KeptFacts DEF Active, Unmade
  <2>2. call'[c].at \notin {"opened", "written"}
    BY <1>1, StartFacts
  <2> QED
    BY <1>1, <2>1, <2>2, StartFacts, ShrinkFile DEF Awaits
<1>2. ASSUME Quiet(c), UNCHANGED data, \A k \in DOMAIN dir' : k \in DOMAIN dir /\ dir'[k] = dir[k],
             call[c].at \in InLoop,
             \/ call'[c].at \in {"failed", "killed"}
             \/ MovesOn(c) /\ ~Sets(c, Now(c))
             \/ call'[c].at = "removing" /\ Stays(c) /\ call[c].at \in {"next", "removing"}
      PROVE  FileInv'
  <2>1. CASE call'[c].at \in {"failed", "killed"}
    <3>1. \A x : ~Unmade(c, x)' /\ (Awaits(c, x) => Awaits(c, x)')
      BY <1>2, <2>1 DEF Unmade, Awaits, Quiet, Sets
    <3>2. call'[c].at \notin {"opened", "written"}
      BY <2>1
    <3> QED
      BY <1>2, <3>1, <3>2, ShrinkFile DEF Quiet
  <2>2. CASE MovesOn(c) /\ ~Sets(c, Now(c))
    <3>1. /\ call'[c].at \notin {"opened", "written"}
          /\ \A x \in Key : Unmade(c, x)' => Unmade(c, x)
          /\ \A x \in DOMAIN Temp : Awaits(c, x) => Awaits(c, x)'
      BY <1>2, <2>2, MovesOnFrom DEF Quiet, Awaits
    <3> QED
      BY <1>2, <3>1, ShrinkFile DEF Quiet
  <2>3. CASE call'[c].at = "removing" /\ Stays(c) /\ call[c].at \in {"next", "removing"}
    <3>1. /\ call'[c].at \notin {"opened", "written"}
          /\ \A x \in Key : Unmade(c, x)' => Unmade(c, x)
          /\ \A x \in DOMAIN Temp : Awaits(c, x) => Awaits(c, x)'
      BY <1>2, <2>3 DEF Quiet, Awaits, Stays, Unmade, InLoop, Sets
    <3> QED
      BY <1>2, <3>1, ShrinkFile DEF Quiet
  <2> QED
    BY <1>2, <2>1, <2>2, <2>3
<1>3. CASE ReadNames(c)
  <2>1. ~Sets(c, Now(c)) /\ call[c].at \in InLoop
    BY <1>3, ReadFacts DEF Sets, InLoop
  <2> QED
    BY <1>2, <1>3, <2>1, ReadFacts
<1>4. CASE RemoveName(c)
  <2>1. ~Sets(c, Now(c)) /\ call[c].at \in InLoop
    BY <1>4, RemoveFacts DEF Sets, InLoop
  <2>2. PICK x \in call[c].names :
               /\ DOMAIN dir' = DOMAIN dir \ {x} /\ dir' = [k \in DOMAIN dir' |-> dir'[k]]
               /\ \A k \in DOMAIN dir' : dir'[k] = dir[k]
               /\ \/ call[c].names = {x} /\ MovesOn(c)
                  \/ /\ call[c].names # {x} /\ Stays(c) /\ call'[c].at = "removing"
                     /\ call'[c].names = call[c].names \ {x}
    BY <1>4, RemoveFacts
  <2> QED
    BY <1>2, <1>4, <2>1, <2>2, RemoveFacts
<1>5. CASE Kill(c)
  BY <1>2, <1>5, KillFacts
<1>6. CASE WriteTemp(c) /\ call'[c].at = "failed"
  <2>1. call[c].at \in InLoop
    BY <1>6, WriteFacts DEF InLoop
  <2> QED
    BY <1>2, <1>6, <2>1, WriteFacts
<1>7. CASE Rename(c) /\ Temp[Now(c)] \notin DOMAIN dir
  <2>1. call[c].at \in InLoop
    BY <1>7, RenameFacts DEF InLoop
  <2> QED
    BY <1>2, <1>7, <2>1, RenameFacts
<1> QED
  BY <1>1, <1>3, <1>4, <1>5, <1>6, <1>7

\* One name of a temporary file is after another.
LEMMA TempsFacts ==
  /\ \A x \in DOMAIN Temp : x \in Key /\ Temp[x] \in Key /\ Temp[x] \in Temps[x]
  /\ \A x \in DOMAIN Temp, y \in Key : y \in Temps[Temp[x]] => y \in Temps[x]
<1>1. \A x \in DOMAIN Temp : x \in Key /\ Temp[x] \in Key
  BY TempAssumption
<1>2. \A x \in DOMAIN Temp : Temp[x] \in Temps[x]
  BY <1>1 DEF Temps
<1>3. ASSUME NEW x \in DOMAIN Temp, NEW y \in Key, y \in Temps[Temp[x]]
      PROVE  y \in Temps[x]
  <2>1. ASSUME NEW S \in SUBSET Key, Temp[x] \in S,
               \A z \in S \cap DOMAIN Temp : Temp[z] \in S
        PROVE  y \in S
    <3>1. Temp[x] \in DOMAIN Temp => Temp[Temp[x]] \in S
      BY <2>1
    <3> QED
      BY <1>1, <1>3, <2>1, <3>1 DEF Temps
  <2> QED
    BY <1>1, <2>1 DEF Temps
<1> QED
  BY <1>1, <1>2, <1>3

\* What others set with which e collides.
LEMMA Colliding ==
  ASSUME mode = "file", NEW e \in Call, NEW d \in Call, Beside(e, d),
         NEW y \in Key, Sets(d, y), NEW x, y = x \/ y \in Temps[x] \/ x \in Temps[y]
  PROVE  Meddles(d, x) /\ ~Clear(e, x)
<1>1. Meddles(d, x)
  BY DEF Meddles, Clobbers, Touches, Sets
<1> QED
  BY <1>1 DEF Clear

\* Whom c collides with when it finds the inode of an open file of e under the
\* name of its temporary file.
LEMMA Crossing ==
  ASSUME Base, mode = "file", NEW c \in Call, NEW e \in Call, c # e,
         call[c].at \in InLoop, Sets(c, Now(c)), Now(c) \in DOMAIN Temp,
         Temp[Now(c)] \in DOMAIN dir,
         call[e].at = "opened", OpenInv(e), dir[Temp[Now(c)]] = call[e].inode
  PROVE  /\ Sets(e, Now(e)) /\ Now(e) \in DOMAIN Temp
         /\ Now(e) = Now(c) \/ Now(e) \in Temps[Now(c)]
         /\ ~Clear(c, Now(c)) /\ ~Clear(e, Now(e))
<1>1. Beside(c, e) /\ Beside(e, c)
  BY RunningBeside DEF InLoop
<1>2. Sets(e, Now(e)) /\ Now(e) \in DOMAIN Temp /\ Now(e) \in Key
  <2>1. Now(e) \in DOMAIN patch[e] /\ Now(e) \in Key
    BY LoopFacts DEF InLoop
  <2> QED
    BY <2>1 DEF Sets, Base, CallInv
<1>3. Now(e) = Now(c) \/ Now(e) \in Temps[Now(c)]
  <2>1. \/ Temp[Now(c)] = Temp[Now(e)]
        \/ Temp[Now(c)] = Now(e)
        \/ Now(e) \in Temps[Temp[Now(c)]]
    BY DEF OpenInv
  <2>2. Temp[Now(c)] = Temp[Now(e)] => Now(e) = Now(c)
    BY <1>2, TempAssumption
  <2> QED
    BY <1>2, <2>1, <2>2, TempsFacts
<1>4. Now(c) \in Key
  BY TempsFacts
<1>5. ~Clear(c, Now(c))
  BY <1>1, <1>2, <1>3, Colliding
<1>6. ~Clear(e, Now(e))
  BY <1>1, <1>3, <1>4, Colliding
<1> QED
  BY <1>2, <1>3, <1>5, <1>6

\* A command of which the step is not.
LEMMA OthersKeep ==
  ASSUME Base, Kept, NEW c \in Call, Quiet(c), call[c].at \in InLoop, NEW e \in Call, e # c
  PROVE  /\ call'[e] = call[e] /\ Now(e)' = Now(e) /\ Rest(e)' = Rest(e) /\ patch'[e] = patch[e]
         /\ \A x : Unmade(e, x)' => Unmade(e, x)
         /\ \A x : Awaits(e, x) => Awaits(e, x)'
         /\ call[e].at \in InLoop => Beside(e, c) /\ Beside(c, e)
         /\ call[e].at \in InLoop => \A x : Clear(e, x)' => Clear(e, x)
         /\ \A d \in Call : \A k : Beside(e, d) /\ Sets(d, k) => Beside(e, d)' /\ Sets(d, k)'
<1>1. call'[e] = call[e] /\ patch'[e] = patch[e] /\ patch' = patch /\ seen' = seen
  BY DEF Quiet
<1>2. Now(e)' = Now(e) /\ Rest(e)' = Rest(e)
  BY <1>1 DEF Now, Rest
<1>3. \A x : Unmade(e, x)' => Unmade(e, x)
  BY <1>1, <1>2 DEF Unmade
<1>4. \A x : Awaits(e, x) => Awaits(e, x)'
  BY <1>1 DEF Awaits, Sets
<1>5. call[e].at \in InLoop => Beside(e, c) /\ Beside(c, e)
  BY RunningBeside
<1>6. call[e].at \in InLoop => \A x : Clear(e, x)' => Clear(e, x)
  BY KeptFacts DEF Active, InLoop
<1>7. \A d \in Call : \A k : Beside(e, d) /\ Sets(d, k) => Beside(e, d)' /\ Sets(d, k)'
  BY <1>1 DEF Beside, Sets
<1> QED
  BY <1>1, <1>2, <1>3, <1>4, <1>5, <1>6, <1>7

LEMMA OpenFile ==
  ASSUME Base, Kept, mode = "file", FileInv, NEW c \in Call, OpenTemp(c)
  PROVE  FileInv'
<1> PICK x, t, i : x = Now(c) /\ t = Temp[x] /\ i = call'[c].inode
  OBVIOUS
<1>0. InodeInv /\ DirInv /\ \A e \in Call : OpenInv(e) /\ WrittenInv(e)
  BY DEF FileInv
<1>1. /\ Quiet(c) /\ call[c].at = "next" /\ call'[c].at = "opened" /\ Stays(c)
      /\ Sets(c, x) /\ x \in DOMAIN Temp /\ x \in Key /\ t \in Key
      /\ i \in Inode
      /\ t \in DOMAIN dir => i = dir[t]
      /\ t \notin DOMAIN dir => i = <<c, x>>
      /\ DOMAIN dir' = DOMAIN dir \cup {t} /\ dir'[t] = i
      /\ \A k \in DOMAIN dir : dir'[k] = dir[k]
      /\ data' = [data EXCEPT ![i] = Torn]
  BY OpenFacts, TempAssumption
<1>2. /\ data \in [Inode -> Value \cup {Torn}] /\ DOMAIN dir \subseteq Key
      /\ \A k \in DOMAIN dir : dir[k] \in Inode
  BY DEF Base, TypeOK
<1>3. data'[i] = Torn /\ \A k \in DOMAIN dir : dir[k] # i => data'[dir[k]] = data[dir[k]]
  BY <1>1, <1>2
<1>4. call[c].at \in InLoop /\ x \in call[c].todo /\ x \notin Rest(c) /\ Now(c)' = x /\ Rest(c)' = Rest(c)
  BY <1>1, LoopFacts DEF InLoop, Rest, Stays
<1>5. Unmade(c, x) /\ \A z : Unmade(c, z)' => Unmade(c, z) /\ z # x
  BY <1>1, <1>4 DEF Unmade, Rest, Stays
<1>6. /\ t \notin DOMAIN dir => /\ \A k \in DOMAIN dir : dir[k] # i
                                /\ \A e \in Call : call[e].at = "opened" => call[e].inode # i
      /\ t \in DOMAIN dir => dir[t] = i /\ \A k \in DOMAIN dir : dir[k] = i => k = t
  <2>1. /\ \A k \in DOMAIN dir : dir[k] # <<c, x>>
        /\ \A e \in Call : call[e].at = "opened" => call[e].inode # <<c, x>>
    BY <1>0, <1>1, <1>5 DEF InodeInv
  <2>2. t \in DOMAIN dir => \A k \in DOMAIN dir : dir[k] = dir[t] => k = t
    BY <1>0 DEF InodeInv
  <2> QED
    BY <1>1, <2>1, <2>2
<1>7. \A k \in DOMAIN dir' : k = t \/ (k \in DOMAIN dir /\ dir'[k] = dir[k] /\ dir[k] # i)
  BY <1>1, <1>6
<1>8. InodeInv'
  <2>1. \A k, l \in DOMAIN dir' : dir'[k] = dir'[l] => k = l
    BY <1>0, <1>1, <1>7 DEF InodeInv
  <2>2. ASSUME NEW d \in Call, NEW z \in Key, Unmade(d, z)'
        PROVE  Unmade(d, z) /\ <<d, z>> # i
    <3>1. Unmade(d, z) /\ ~(d = c /\ z = x)
      BY <1>1, <1>4, <1>5, <2>2, OthersKeep
    <3>2. t \notin DOMAIN dir => <<d, z>> # i
      BY <1>1, <3>1
    <3>3. t \in DOMAIN dir => <<d, z>> # i
      BY <1>0, <1>6, <3>1 DEF InodeInv
    <3> QED
      BY <3>1, <3>2, <3>3
  <2>3. ASSUME NEW d \in Call, NEW z \in Key, Unmade(d, z)', NEW k \in DOMAIN dir'
        PROVE  dir'[k] # <<d, z>>
    <3>1. Unmade(d, z) /\ <<d, z>> # i
      BY <2>2, <2>3
    <3>2. \A l \in DOMAIN dir : dir[l] # <<d, z>>
      BY <1>0, <3>1 DEF InodeInv
    <3> QED
      BY <1>1, <1>7, <3>1, <3>2
  <2>4. ASSUME NEW d \in Call, NEW z \in Key, Unmade(d, z)', NEW e \in Call, call'[e].at = "opened"
        PROVE  call'[e].inode # <<d, z>>
    <3>1. CASE e = c
      BY <2>2, <2>4, <3>1
    <3>2. CASE e # c
      BY <1>0, <1>1, <2>2, <2>4, <3>2 DEF Quiet, InodeInv
    <3> QED
      BY <3>1, <3>2
  <2> QED
    BY <2>1, <2>3, <2>4 DEF InodeInv
<1>9. DirInv'
  <2> SUFFICES ASSUME NEW k \in DOMAIN dir'
               PROVE  Published(k, data[dir[k]])' \/ Pending(k)' \/ Tangled(k)'
    BY DEF DirInv
  <2>1. CASE k = t
    <3>1. call'[c].at \in InLoop /\ x \in call'[c].todo /\ Sets(c, x)'
      BY <1>1, <1>4, KeptFacts DEF InLoop, Stays
    <3> QED
      BY <1>1, <2>1, <3>1 DEF Pending, Awaits
  <2>2. CASE k # t
    <3>1. k \in DOMAIN dir /\ dir'[k] = dir[k] /\ data'[dir'[k]] = data[dir[k]]
      BY <1>3, <1>7, <2>2
    <3>3. Pending(k) => Pending(k)'
      <4>1. \A d \in Call : \A z : Awaits(d, z) => Awaits(d, z)'
        <5>1. \A z : Awaits(c, z) => Awaits(c, z)'
          BY <1>1, KeptFacts DEF Awaits, InLoop, Stays
        <5> QED
          BY <1>1, <1>4, <5>1, OthersKeep
      <4> QED
        BY <4>1 DEF Pending, Awaits
    <3> QED
      BY <1>0, <3>1, <3>3, KeptFacts DEF DirInv
  <2> QED
    BY <2>1, <2>2
<1>10. \A e \in Call \ {c} : call[e].at \in {"opened", "written"} =>
          /\ Sets(e, Now(e)) /\ Now(e) \in DOMAIN Temp
          /\ Temp[Now(e)] = t => ~Clear(e, Now(e))
  <2> SUFFICES ASSUME NEW e \in Call, e # c, call[e].at \in {"opened", "written"}
               PROVE  /\ Sets(e, Now(e)) /\ Now(e) \in DOMAIN Temp
                      /\ Temp[Now(e)] = t => ~Clear(e, Now(e))
    OBVIOUS
  <2>1. Now(e) \in DOMAIN patch[e] /\ Now(e) \in Key /\ call[e].at \in InLoop
    BY LoopFacts DEF InLoop
  <2>2. Sets(e, Now(e)) /\ Now(e) \in DOMAIN Temp
    BY <2>1 DEF Sets, Base, CallInv
  <2>3. Temp[Now(e)] = t => x = Now(e)
    BY <1>1, <2>2, TempAssumption
  <2>4. Beside(e, c)
    BY <1>1, <1>4, <2>1, OthersKeep
  <2>5. x = Now(e) => ~Clear(e, Now(e))
    BY <1>1, <2>4, Colliding
  <2> QED
    BY <2>2, <2>3, <2>5
<1>11. OpenInv(c)'
  <2>1. \A k \in DOMAIN dir' : dir'[k] = i => k = t
    BY <1>7
  <2>2. ASSUME NEW e \in Call \ {c}, call'[e].at = "opened", call'[e].inode = i
        PROVE  ~Clear(c, x)'
    <3>1. call[e].at = "opened" /\ call[e].inode = i
      BY <1>1, <2>2 DEF Quiet
    <3>2. t \in DOMAIN dir /\ dir[t] = i
      BY <1>6, <3>1
    <3>3. ~Clear(c, x)
      BY <1>0, <1>1, <1>4, <3>1, <3>2, Crossing
    <3>4. Active(c)
      BY <1>1 DEF Active
    <3> QED
      BY <3>3, <3>4, KeptFacts
  <2> QED
    BY <1>1, <1>3, <1>4, <2>1, <2>2 DEF OpenInv
<1>12. ASSUME NEW e \in Call \ {c}
       PROVE  OpenInv(e)'
  <2> SUFFICES ASSUME call'[e].at = "opened" PROVE OpenInv(e)'
    BY DEF OpenInv
  <2> PICK y, j : y = Now(e) /\ j = call[e].inode
    OBVIOUS
  <2>1. /\ call[e].at = "opened" /\ call[e].at \in InLoop /\ call'[e] = call[e]
        /\ Now(e)' = y /\ (Clear(e, y)' => Clear(e, y))
        /\ \A d \in Call : \A k : Beside(e, d) /\ Sets(d, k) => Beside(e, d)' /\ Sets(d, k)'
    BY <1>1, <1>4, OthersKeep DEF InLoop
  <2>2. /\ \A k \in DOMAIN dir : dir[k] = j =>
              \/ k = Temp[y]
              \/ /\ \E d \in Call : Beside(e, d) /\ Sets(d, k)
                 /\ k = y \/ y \in Temps[k]
        /\ \A d \in Call \ {e} : call[d].at = "opened" /\ call[d].inode = j => ~Clear(e, y)
        /\ Clear(e, y) =>
              /\ Temp[y] \in DOMAIN dir => dir[Temp[y]] = j
              /\ data[j] = Torn
    BY <1>0, <2>1 DEF OpenInv
  <2>3. j = i => t \in DOMAIN dir /\ ~Clear(e, y)
    <3> SUFFICES ASSUME j = i PROVE t \in DOMAIN dir /\ ~Clear(e, y)
      OBVIOUS
    <3>1. t \in DOMAIN dir /\ dir[t] = i
      BY <1>6, <2>1
    <3>2. /\ call[c].at \in InLoop /\ Sets(c, Now(c)) /\ Now(c) \in DOMAIN Temp
          /\ Temp[Now(c)] \in DOMAIN dir /\ dir[Temp[Now(c)]] = call[e].inode
      BY <1>1, <1>4, <3>1
    <3>3. OpenInv(e) /\ call[e].at = "opened" /\ c # e
      BY <1>0, <2>1
    <3>4. ~Clear(e, Now(e))
      BY <3>2, <3>3, Crossing
    <3> QED
      BY <3>1, <3>4
  <2>4. \A k \in DOMAIN dir' : dir'[k] = j =>
              \/ k = Temp[y]
              \/ /\ \E d \in Call : Beside(e, d)' /\ Sets(d, k)'
                 /\ k = y \/ y \in Temps[k]
    <3> SUFFICES ASSUME NEW k \in DOMAIN dir', dir'[k] = j
                 PROVE  \/ k = Temp[y]
                        \/ /\ \E d \in Call : Beside(e, d) /\ Sets(d, k)
                           /\ k = y \/ y \in Temps[k]
      BY <2>1
    <3>1. k \in DOMAIN dir /\ dir[k] = j
      <4>1. CASE k = t
        BY <1>1, <2>3, <4>1
      <4>2. CASE k # t
        BY <1>7, <4>2
      <4> QED
        BY <4>1, <4>2
    <3> QED
      BY <2>2, <3>1
  <2>5. \A d \in Call \ {e} : call'[d].at = "opened" /\ call'[d].inode = j => ~Clear(e, y)'
    <3> SUFFICES ASSUME NEW d \in Call \ {e}, call'[d].at = "opened", call'[d].inode = j
                 PROVE  ~Clear(e, y)
      BY <2>1
    <3>1. CASE d = c
      BY <2>3, <3>1
    <3>2. CASE d # c
      BY <1>1, <2>2, <3>2 DEF Quiet
    <3> QED
      BY <3>1, <3>2
  <2>6. Clear(e, y)' => /\ Temp[y] \in DOMAIN dir' => dir'[Temp[y]] = j
                        /\ data'[j] = Torn
    <3> SUFFICES ASSUME Clear(e, y)
                 PROVE  /\ Temp[y] \in DOMAIN dir' => dir'[Temp[y]] = j
                        /\ data'[j] = Torn
      BY <2>1
    <3>1. Temp[y] # t
      BY <1>10, <2>1
    <3>2. j # i /\ data'[j] = data[j]
      BY <1>1, <1>2, <2>3
    <3> QED
      BY <1>7, <2>2, <3>1, <3>2
  <2> QED
    BY <2>1, <2>4, <2>5, <2>6 DEF OpenInv
<1>13. ASSUME NEW e \in Call
       PROVE  WrittenInv(e)'
  <2> SUFFICES ASSUME call'[e].at = "written", Clear(e, Now(e))', (Temp[Now(e)] \in DOMAIN dir)'
               PROVE  data'[dir'[Temp[Now(e)]']] = patch'[e][Now(e)']
    BY DEF WrittenInv
  <2> PICK y : y = Now(e)
    OBVIOUS
  <2>1. e # c
    BY <1>1
  <2>2. /\ call[e].at = "written" /\ call'[e] = call[e]
        /\ Now(e)' = y /\ Clear(e, y) /\ patch'[e] = patch[e]
    BY <1>1, <1>4, <2>1, OthersKeep DEF InLoop
  <2>3. Temp[y] # t
    BY <1>10, <2>1, <2>2
  <2>4. Temp[y] \in DOMAIN dir /\ data'[dir'[Temp[y]]] = data[dir[Temp[y]]]
    BY <1>3, <1>7, <2>2, <2>3
  <2> QED
    BY <1>0, <2>2, <2>4 DEF WrittenInv
<1> QED
  BY <1>8, <1>9, <1>11, <1>12, <1>13 DEF FileInv

LEMMA WriteFile ==
  ASSUME Base, Kept, mode = "file", FileInv, NEW c \in Call, WriteTemp(c),
         call'[c].at = "written"
  PROVE  FileInv'
<1> PICK x, i : x = Now(c) /\ i = call[c].inode
  OBVIOUS
<1>0. InodeInv /\ DirInv /\ \A e \in Call : OpenInv(e) /\ WrittenInv(e)
  BY DEF FileInv
<1>1. /\ Quiet(c) /\ call[c].at = "opened" /\ Stays(c) /\ dir' = dir
      /\ Sets(c, x) /\ x \in DOMAIN Temp /\ i \in Inode
      /\ \/ data' = [data EXCEPT ![i] = patch[c][x]]
         \/ data[i] # Torn /\ data' = [data EXCEPT ![i] = Torn]
  BY WriteFacts
<1>2. /\ data \in [Inode -> Value \cup {Torn}] /\ DOMAIN dir \subseteq Key
      /\ \A k \in DOMAIN dir : dir[k] \in Inode
  BY DEF Base, TypeOK
<1>3. /\ data[i] = Torn => data'[i] = patch[c][x]
      /\ \A j \in Inode \ {i} : data'[j] = data[j]
  BY <1>1, <1>2
<1>4. call[c].at \in InLoop /\ x \in call[c].todo /\ Now(c)' = x /\ Rest(c)' = Rest(c)
  BY <1>1, LoopFacts DEF InLoop, Stays
<1>5. \A d \in Call : \A z : Unmade(d, z)' => Unmade(d, z)
  <2>1. \A z : Unmade(c, z)' => Unmade(c, z)
    BY <1>1, <1>4 DEF Unmade
  <2> QED
    BY <1>1, <1>4, <2>1, OthersKeep
<1>6. \A d \in Call : call'[d].at = "opened" => d # c /\ call'[d] = call[d]
  BY <1>1 DEF Quiet
<1>7. InodeInv'
  BY <1>0, <1>1, <1>5, <1>6 DEF InodeInv
<1>8. \A k \in DOMAIN dir : dir[k] = i =>
        \/ k = Temp[x]
        \/ /\ \E d \in Call : Beside(c, d) /\ Sets(d, k)
           /\ k = x \/ x \in Temps[k]
  BY <1>0, <1>1 DEF OpenInv
<1>9. DirInv'
  <2> SUFFICES ASSUME NEW k \in DOMAIN dir
               PROVE  Published(k, data[dir[k]])' \/ Pending(k)' \/ Tangled(k)'
    BY <1>1 DEF DirInv
  <2>1. CASE k = Temp[x]
    <3>1. call'[c].at \in InLoop /\ x \in call'[c].todo /\ Sets(c, x)'
      BY <1>1, <1>4, KeptFacts DEF InLoop, Stays
    <3> QED
      BY <1>1, <2>1, <3>1 DEF Pending, Awaits
  <2>2. ASSUME NEW d \in Call, Beside(c, d), Sets(d, k), k = x \/ x \in Temps[k]
        PROVE  Tangled(k)'
    <3>1. Meddles(c, k)
      BY <1>1, <2>2, TempsFacts DEF Meddles, Clobbers, Touches, Sets
    <3>2. Tangled(k)
      BY <2>2, <3>1 DEF Tangled, Beside
    <3> QED
      BY <3>2, KeptFacts
  <2>3. CASE dir[k] # i
    <3>1. dir'[k] = dir[k] /\ data'[dir[k]] = data[dir[k]]
      BY <1>1, <1>2, <1>3, <2>3
    <3>2. \A d \in Call : \A z : Awaits(d, z) => Awaits(d, z)'
      <4>1. \A z : Awaits(c, z) => Awaits(c, z)'
        BY <1>1, KeptFacts DEF Awaits, InLoop, Stays
      <4> QED
        BY <1>1, <1>4, <4>1, OthersKeep
    <3>3. Pending(k) => Pending(k)'
      BY <3>2 DEF Pending, Awaits
    <3> QED
      BY <1>0, <3>1, <3>3, KeptFacts DEF DirInv
  <2> QED
    BY <1>8, <2>1, <2>2, <2>3
<1>10. ASSUME NEW e \in Call
       PROVE  OpenInv(e)'
  <2> SUFFICES ASSUME call'[e].at = "opened" PROVE OpenInv(e)'
    BY DEF OpenInv
  <2> PICK y, j : y = Now(e) /\ j = call[e].inode
    OBVIOUS
  <2>1. /\ e # c /\ call[e].at = "opened" /\ call'[e] = call[e] /\ j \in Inode
        /\ Now(e)' = y /\ (Clear(e, y)' => Clear(e, y))
        /\ \A d \in Call : \A k : Beside(e, d) /\ Sets(d, k) => Beside(e, d)' /\ Sets(d, k)'
    BY <1>1, <1>4, <1>6, OthersKeep DEF InLoop, Base, CallInv
  <2>2. /\ \A k \in DOMAIN dir : dir[k] = j =>
              \/ k = Temp[y]
              \/ /\ \E d \in Call : Beside(e, d) /\ Sets(d, k)
                 /\ k = y \/ y \in Temps[k]
        /\ \A d \in Call \ {e} : call[d].at = "opened" /\ call[d].inode = j => ~Clear(e, y)
        /\ Clear(e, y) =>
              /\ Temp[y] \in DOMAIN dir => dir[Temp[y]] = j
              /\ data[j] = Torn
    BY <1>0, <2>1 DEF OpenInv
  <2>3. \A k \in DOMAIN dir' : dir'[k] = j =>
              \/ k = Temp[y]
              \/ /\ \E d \in Call : Beside(e, d)' /\ Sets(d, k)'
                 /\ k = y \/ y \in Temps[k]
    BY <1>1, <2>1, <2>2
  <2>4. Clear(e, y)' => /\ Temp[y] \in DOMAIN dir' => dir'[Temp[y]] = j
                        /\ data'[j] = Torn
    BY <1>1, <1>3, <2>1, <2>2
  <2>5. \A d \in Call \ {e} : call'[d].at = "opened" /\ call'[d].inode = j => ~Clear(e, y)'
    BY <1>6, <2>1, <2>2
  <2> QED
    BY <2>1, <2>3, <2>4, <2>5 DEF OpenInv
<1>11. WrittenInv(c)'
  <2> SUFFICES ASSUME Clear(c, x)', Temp[x] \in DOMAIN dir
               PROVE  data'[dir[Temp[x]]] = patch'[c][x]
    BY <1>1, <1>4 DEF WrittenInv
  <2>1. Clear(c, x)
    BY <1>1, KeptFacts DEF Active
  <2>2. dir[Temp[x]] = i /\ data[i] = Torn
    BY <1>0, <1>1, <2>1 DEF OpenInv
  <2> QED
    BY <1>1, <1>3, <2>2 DEF Quiet
<1>12. ASSUME NEW e \in Call \ {c}
       PROVE  WrittenInv(e)'
  <2> PICK y : y = Now(e)
    OBVIOUS
  <2> SUFFICES ASSUME call'[e].at = "written", Clear(e, Now(e))', (Temp[Now(e)] \in DOMAIN dir)'
               PROVE  data'[dir'[Temp[Now(e)]']] = patch'[e][Now(e)']
    BY DEF WrittenInv
  <2>1. /\ call[e].at = "written" /\ call[e].at \in InLoop /\ call'[e] = call[e]
        /\ Now(e)' = y /\ Clear(e, y) /\ patch'[e] = patch[e]
    BY <1>1, <1>4, OthersKeep DEF InLoop
  <2>2. Temp[y] \in DOMAIN dir
    BY <1>1, <2>1
  <2>3. Sets(e, y) /\ y \in DOMAIN Temp
    <3>1. y \in DOMAIN patch[e] /\ y \in Key
      BY <2>1, LoopFacts
    <3> QED
      BY <2>1, <3>1 DEF Sets, Base, CallInv
  <2>4. dir[Temp[y]] # i
    BY <1>0, <1>1, <2>1, <2>2, <2>3, Crossing
  <2>5. data'[dir'[Temp[y]]] = data[dir[Temp[y]]]
    BY <1>1, <1>2, <1>3, <2>2, <2>4
  <2> QED
    BY <1>0, <2>1, <2>2, <2>5 DEF WrittenInv
<1> QED
  BY <1>7, <1>9, <1>10, <1>11, <1>12 DEF FileInv

LEMMA RenameFile ==
  ASSUME Base, Kept, mode = "file", FileInv, NEW c \in Call, Rename(c),
         Temp[Now(c)] \in DOMAIN dir
  PROVE  FileInv'
<1> PICK x, t, i : x = Now(c) /\ t = Temp[x] /\ i = dir[t]
  OBVIOUS
<1>0. InodeInv /\ DirInv /\ \A e \in Call : OpenInv(e) /\ WrittenInv(e)
  BY DEF FileInv
<1>1. /\ Quiet(c) /\ call[c].at = "written" /\ MovesOn(c) /\ data' = data
      /\ Sets(c, x) /\ x \in DOMAIN Temp /\ x # t /\ t \in DOMAIN dir
      /\ DOMAIN dir' = (DOMAIN dir \ {t}) \cup {x} /\ dir'[x] = i
      /\ \A k \in DOMAIN dir' \ {x} : dir'[k] = dir[k]
  BY RenameFacts
<1>2. /\ call[c].at \in InLoop
      /\ call'[c].at \notin {"opened", "written"}
      /\ \A z \in Key : Unmade(c, z)' => Unmade(c, z)
      /\ \A z \in DOMAIN Temp : Awaits(c, z) /\ z # x => Awaits(c, z)'
  <2>1. call[c].at \in InLoop
    BY <1>1 DEF InLoop
  <2> QED
    BY <1>1, <2>1, MovesOnFrom DEF Quiet
<1>3. \A k \in DOMAIN dir' : k = x \/ (k \in DOMAIN dir /\ k # t /\ dir'[k] = dir[k] /\ dir[k] # i)
  BY <1>0, <1>1 DEF InodeInv
<1>4. \A d \in Call : call'[d].at \in {"opened", "written"} => d # c /\ call'[d] = call[d]
  BY <1>1, <1>2 DEF Quiet
<1>5. InodeInv'
  <2>1. \A k, l \in DOMAIN dir' : dir'[k] = dir'[l] => k = l
    BY <1>0, <1>1, <1>3 DEF InodeInv
  <2>2. \A d \in Call, z \in Key : Unmade(d, z)' => Unmade(d, z)
    BY <1>1, <1>2, OthersKeep
  <2>3. ASSUME NEW d \in Call, NEW z \in Key, Unmade(d, z)'
        PROVE  /\ \A k \in DOMAIN dir' : dir'[k] # <<d, z>>
               /\ \A e \in Call : call'[e].at = "opened" => call'[e].inode # <<d, z>>
    <3>1. /\ \A k \in DOMAIN dir : dir[k] # <<d, z>>
          /\ \A e \in Call : call[e].at = "opened" => call[e].inode # <<d, z>>
      BY <1>0, <2>2, <2>3 DEF InodeInv
    <3> QED
      BY <1>1, <1>3, <1>4, <3>1
  <2> QED
    BY <2>1, <2>3 DEF InodeInv
<1>6. DirInv'
  <2> SUFFICES ASSUME NEW k \in DOMAIN dir'
               PROVE  Published(k, data[dir[k]])' \/ Pending(k)' \/ Tangled(k)'
    BY DEF DirInv
  <2>1. CASE k = x
    <3>1. CASE Clear(c, x)
      <4>1. data[i] = patch[c][x]
        BY <1>0, <1>1, <3>1 DEF WrittenInv
      <4> QED
        BY <1>1, <2>1, <4>1, KeptFacts DEF Published
    <3>2. CASE ~Clear(c, x)
      <4>1. Tangled(x)
        BY <1>1, <3>2 DEF Clear, Tangled
      <4> QED
        BY <2>1, <4>1, KeptFacts
    <3> QED
      BY <3>1, <3>2
  <2>2. CASE k # x
    <3>1. k \in DOMAIN dir /\ k # t /\ data'[dir'[k]] = data[dir[k]]
      BY <1>1, <1>3, <2>2
    <3>2. \A d \in Call : \A z \in DOMAIN Temp : Awaits(d, z) /\ Temp[z] = k => Awaits(d, z)'
      BY <1>1, <1>2, <3>1, OthersKeep
    <3>3. Pending(k) => Pending(k)'
      BY <3>2 DEF Pending, Awaits
    <3> QED
      BY <1>0, <3>1, <3>3, KeptFacts DEF DirInv
  <2> QED
    BY <2>1, <2>2
\* The name that another one's temporary file may have now is one of its own.
<1>7. ASSUME NEW e \in Call \ {c}, call[e].at \in {"opened", "written"}, Temp[Now(e)] = x
      PROVE  ~Clear(e, Now(e))
  <2>1. Now(e) \in DOMAIN Temp
    <3>1. Now(e) \in DOMAIN patch[e] /\ Now(e) \in Key
      BY <1>7, LoopFacts DEF InLoop
    <3> QED
      BY <1>7, <3>1 DEF Sets, Base, CallInv
  <2>2. Beside(e, c)
    BY <1>1, <1>2, <1>7, OthersKeep DEF InLoop
  <2>3. x \in Key /\ x \in Temps[Now(e)]
    BY <1>1, <1>7, <2>1, TempsFacts
  <2> QED
    BY <1>1, <2>2, <2>3, Colliding
<1>8. ASSUME NEW e \in Call
      PROVE  OpenInv(e)'
  <2> SUFFICES ASSUME call'[e].at = "opened" PROVE OpenInv(e)'
    BY DEF OpenInv
  <2> PICK y, j : y = Now(e) /\ j = call[e].inode
    OBVIOUS
  <2>1. /\ e # c /\ call[e].at = "opened" /\ call'[e] = call[e]
        /\ Now(e)' = y /\ (Clear(e, y)' => Clear(e, y)) /\ Beside(e, c)
        /\ \A d \in Call : \A k : Beside(e, d) /\ Sets(d, k) => Beside(e, d)' /\ Sets(d, k)'
    BY <1>1, <1>2, <1>4, OthersKeep DEF InLoop
  <2>2. /\ \A k \in DOMAIN dir : dir[k] = j =>
              \/ k = Temp[y]
              \/ /\ \E d \in Call : Beside(e, d) /\ Sets(d, k)
                 /\ k = y \/ y \in Temps[k]
        /\ \A d \in Call \ {e} : call[d].at = "opened" /\ call[d].inode = j => ~Clear(e, y)
        /\ Clear(e, y) =>
              /\ Temp[y] \in DOMAIN dir => dir[Temp[y]] = j
              /\ data[j] = Torn
    BY <1>0, <2>1 DEF OpenInv
  <2>3. i = j => x = y \/ y \in Temps[x]
    <3> SUFFICES ASSUME i = j PROVE x = y \/ y \in Temps[x]
      OBVIOUS
    <3>1. /\ Sets(c, Now(c)) /\ Now(c) \in DOMAIN Temp
          /\ Temp[Now(c)] \in DOMAIN dir /\ dir[Temp[Now(c)]] = call[e].inode
      BY <1>1
    <3>2. OpenInv(e)
      BY <1>0
    <3> QED
      BY <1>2, <2>1, <3>1, <3>2, Crossing
  <2>4. \A k \in DOMAIN dir' : dir'[k] = j =>
              \/ k = Temp[y]
              \/ /\ \E d \in Call : Beside(e, d)' /\ Sets(d, k)'
                 /\ k = y \/ y \in Temps[k]
    <3> SUFFICES ASSUME NEW k \in DOMAIN dir', dir'[k] = j
                 PROVE  \/ k = Temp[y]
                        \/ /\ \E d \in Call : Beside(e, d) /\ Sets(d, k)
                           /\ k = y \/ y \in Temps[k]
      BY <2>1
    <3>1. CASE k = x
      BY <1>1, <2>1, <2>3, <3>1
    <3>2. CASE k # x
      BY <1>3, <2>2, <3>2
    <3> QED
      BY <3>1, <3>2
  <2>5. Clear(e, y)' => /\ Temp[y] \in DOMAIN dir' => dir'[Temp[y]] = j
                        /\ data'[j] = Torn
    BY <1>1, <1>3, <1>7, <2>1, <2>2
  <2>6. \A d \in Call \ {e} : call'[d].at = "opened" /\ call'[d].inode = j => ~Clear(e, y)'
    BY <1>4, <2>1, <2>2
  <2> QED
    BY <2>1, <2>4, <2>5, <2>6 DEF OpenInv
<1>9. ASSUME NEW e \in Call
      PROVE  WrittenInv(e)'
  <2> PICK y : y = Now(e)
    OBVIOUS
  <2> SUFFICES ASSUME call'[e].at = "written", Clear(e, Now(e))', (Temp[Now(e)] \in DOMAIN dir)'
               PROVE  data'[dir'[Temp[Now(e)]']] = patch'[e][Now(e)']
    BY DEF WrittenInv
  <2>1. /\ e # c /\ call[e].at = "written" /\ call'[e] = call[e]
        /\ Now(e)' = y /\ Clear(e, y) /\ patch'[e] = patch[e]
    BY <1>1, <1>2, <1>4, OthersKeep DEF InLoop
  <2>2. Temp[y] # x
    BY <1>7, <2>1
  <2>3. Temp[y] \in DOMAIN dir /\ data'[dir'[Temp[y]]] = data[dir[Temp[y]]]
    BY <1>1, <1>3, <2>1, <2>2
  <2> QED
    BY <1>0, <2>1, <2>3 DEF WrittenInv
<1> QED
  BY <1>5, <1>6, <1>8, <1>9 DEF FileInv

LEMMA StillFile ==
  ASSUME FileInv, UNCHANGED <<mode, call, patch, seen, late, dir, data>>
  PROVE  FileInv'
<1>1. /\ \A c : \A k : Sets(c, k)' = Sets(c, k) /\ Touches(c, k)' = Touches(c, k)
      /\ \A c : Now(c)' = Now(c) /\ Rest(c)' = Rest(c)
      /\ \A c, d : Beside(c, d)' = Beside(c, d)
  BY DEF Sets, Touches, Now, Rest, Beside
<1>2. \A c, k : Meddles(c, k)' = Meddles(c, k)
  BY <1>1 DEF Meddles, Clobbers
<1>3. \A c, k : Clear(c, k)' = Clear(c, k) /\ Unmade(c, k)' = Unmade(c, k)
  BY <1>1, <1>2 DEF Clear, Unmade
<1>4. InodeInv => InodeInv'
  BY <1>3 DEF InodeInv
<1>5. DirInv => DirInv'
  BY <1>1, <1>2 DEF DirInv, Published, Pending, Awaits, Tangled
<1>6. \A c : OpenInv(c) => OpenInv(c)'
  BY <1>1, <1>3 DEF OpenInv
<1>7. \A c : WrittenInv(c) => WrittenInv(c)'
  BY <1>1, <1>3 DEF WrittenInv
<1> QED
  BY <1>4, <1>5, <1>6, <1>7 DEF FileInv

LEMMA FileNext ==
  ASSUME Base, FileInv, [Next]_vars
  PROVE  FileInv'
<1>1. Kept
  BY NextKept
<1>2. SUFFICES ASSUME mode = "file" PROVE FileInv'
  BY <1>1 DEF Kept, FileInv
<1>3. CASE UNCHANGED vars \/ CopyOutputs
  BY <1>3, StillFile DEF vars, CopyOutputs
<1>4. ASSUME NEW c \in Call, CallNext(c)
      PROVE  FileInv'
  <2>1. ~(Deliver(c) \/ Abandon(c) \/ Arrive(c))
    BY <1>2, WireFacts
  <2>2. CASE WriteTemp(c)
    BY <1>1, <1>2, <2>2, WriteFacts, WriteFile, ShrinkSteps
  <2>3. CASE Rename(c)
    BY <1>1, <1>2, <2>3, RenameFile, ShrinkSteps
  <2> QED
    BY <1>1, <1>2, <1>4, <2>1, <2>2, <2>3, OpenFile, ShrinkSteps DEF CallNext
<1> QED
  BY <1>3, <1>4 DEF Next

-----------------------------------------------------------------------------
(* The service's map *)

LEMMA StoreNext ==
  ASSUME Base, StoreInv, [Next]_vars
  PROVE  StoreInv'
<1>1. Kept
  BY NextKept
<1>2. CASE store' = store
  BY <1>1, <1>2, KeptFacts DEF StoreInv
<1>3. ASSUME NEW c \in Call, Deliver(c) \/ Arrive(c)
      PROVE  StoreInv'
  <2>1. CASE store' = ApplyAll(store, call[c].ops)
    <3> SUFFICES ASSUME NEW k \in DOMAIN store', NEW v, v = store'[k]
                 PROVE  Published(k, v)'
      BY DEF StoreInv, Published, Sets
    <3>1. k \in Key
      BY BaseNext DEF Base, TypeOK
    <3>2. \/ k \in DOMAIN store /\ v = store[k]
          \/ Sets(c, k) /\ v = patch[c][k]
      <4>1. call[c].at \in OnWire
        BY <1>3, WireFacts
      <4>2. Touches(c, k) \/ Agree(store', store, k)
        BY <2>1, <3>1, <4>1, ApplyPatchFacts
      <4>3. Touches(c, k) => Sets(c, k) /\ v = patch[c][k]
        BY <2>1, <3>1, <4>1, ApplyPatchFacts
      <4> QED
        BY <4>2, <4>3 DEF Agree
    <3>3. Published(k, v)
      BY <3>2 DEF StoreInv, Published
    <3> QED
      BY <1>1, <3>3, KeptFacts
  <2> QED
    BY <1>2, <1>3, <2>1, WireFacts
<1>4. ASSUME NEW c \in Call, CallNext(c), ~(Deliver(c) \/ Arrive(c))
      PROVE  store' = store
  BY <1>4 DEF CallNext, Start, OpenTemp, WriteTemp, Rename, ReadNames, RemoveName, Abandon, Kill
<1> QED
  BY <1>2, <1>3, <1>4 DEF Next, vars, CopyOutputs

-----------------------------------------------------------------------------
(* What the runner gets *)

\* Afterwards only requests that are on their way arrive.
LEMMA AfterCopy ==
  ASSUME Base, [Next]_vars, got # <<>>
  PROVE  /\ got' = got
         /\ \A c \in Call : call'[c].at = "done" => call[c].at = "done"
         /\ \A c \in Call : patch'[c] = patch[c] /\ seen'[c] = seen[c] /\ late'[c] = late[c]
<1>1. CASE UNCHANGED vars
  BY <1>1 DEF vars
<1>2. ~CopyOutputs
  BY DEF CopyOutputs
<1>3. ASSUME NEW c \in Call, CallNext(c)
      PROVE  /\ got' = got
             /\ \A d \in Call : call'[d].at = "done" => call[d].at = "done"
             /\ \A d \in Call : patch'[d] = patch[d] /\ seen'[d] = seen[d] /\ late'[d] = late[d]
  <2>1. call[c].at \in {"idle", "adrift"} \/ Ended(c)
    BY DEF Base, CallInv
  <2>2. ~(OpenTemp(c) \/ WriteTemp(c) \/ Rename(c) \/ ReadNames(c) \/ RemoveName(c) \/ Kill(c))
    BY <2>1 DEF Ended, OpenTemp, WriteTemp, Rename, ReadNames, RemoveName, Kill
  <2>3. ~(Start(c) \/ Deliver(c) \/ Abandon(c))
    BY <2>1 DEF Ended, Start, Deliver, Abandon
  <2>4. Arrive(c)
    BY <1>3, <2>2, <2>3 DEF CallNext
  <2>5. Quiet(c) /\ call'[c] = [at |-> "killed"]
    BY <2>4, WireFacts, Becoming DEF Arrive
  <2> QED
    BY <2>5 DEF Quiet
<1> QED
  BY <1>1, <1>2, <1>3 DEF Next

LEMMA WholeNext ==
  ASSUME Base, FileInv, StoreInv, OutputsAreWhole, [Next]_vars
  PROVE  OutputsAreWhole'
<1> DEFINE Whole(k, v) ==
             \/ Published(k, v)
             \/ \E c \in Call : call[c].at # "done" /\ Borrows(c, k)
             \/ Tangled(k)
<1>1. OutputsAreWhole => (got # <<>> => \A k \in DOMAIN got[1] : Whole(k, got[1][k]))
  BY DEF OutputsAreWhole, Published, Tangled, Beside
<1>2. (got' # <<>> => \A k \in DOMAIN got'[1] : \E v : v = got'[1][k] /\ Whole(k, v)')
      => OutputsAreWhole'
  BY DEF OutputsAreWhole, Published, Tangled, Beside
<1>3. Kept
  BY NextKept
<1>4. ASSUME got # <<>>
      PROVE  OutputsAreWhole'
  <2>1. got' = got /\ \A c \in Call : call'[c].at = "done" => call[c].at = "done"
    BY <1>4, AfterCopy
  <2>2. ASSUME NEW c \in Call, NEW k, Borrows(c, k), call[c].at # "done"
        PROVE  call'[c].at # "done" /\ Borrows(c, k)'
    <3>1. Borrows(c, k)'
      BY <1>3, <2>2, KeptFacts DEF Borrows, Kept
    <3> QED
      BY <2>1, <2>2, <3>1
  <2>3. \A k, v : Whole(k, v) => Whole(k, v)'
    BY <1>3, <2>2, KeptFacts
  <2> HIDE DEF Whole
  <2> QED
    BY <1>1, <1>2, <1>4, <2>1, <2>3
<1>5. CASE CopyOutputs
  <2>1. /\ got' = IF mode = "ipc" THEN <<store>> ELSE <<Files>>
        /\ \A c \in Call : call[c].at \in {"idle", "adrift"} \/ Ended(c)
        /\ call' = call
    BY <1>5 DEF CopyOutputs
  <2>2. CASE mode = "ipc"
    <3>1. \A k \in DOMAIN store : Published(k, store[k])
      BY DEF StoreInv
    <3>2. \A k, v : Published(k, v) => Published(k, v)'
      BY <1>3, KeptFacts
    <3>3. got'[1] = store
      BY <2>1, <2>2
    <3> QED
      BY <1>2, <3>1, <3>2, <3>3
  <2>3. CASE mode # "ipc"
    <3>1. mode = "file" /\ got'[1] = Files
      BY <2>1, <2>3, ModesAssumption DEF Base, TypeOK
    <3>2. \A k \in DOMAIN dir : Published(k, data[dir[k]]) \/ Pending(k) \/ Tangled(k)
      BY <3>1 DEF FileInv, DirInv
    <3>3. ASSUME NEW k, Pending(k)
          PROVE  \E c \in Call : call'[c].at # "done" /\ Borrows(c, k)'
      <4>1. PICK c \in Call, x \in DOMAIN Temp :
               Temp[x] = k /\ Sets(c, x) /\ call[c].at \in {"failed", "killed"}
        BY <2>1, <3>3 DEF Pending, Awaits, InLoop, Ended
      <4>2. Borrows(c, k)
        BY <3>1, <4>1 DEF Borrows
      <4>3. Borrows(c, k)'
        BY <1>3, <4>2, KeptFacts DEF Borrows, Kept
      <4> QED
        BY <2>1, <4>1, <4>3
    <3>4. \A k \in DOMAIN dir : \E v : v = data[dir[k]] /\ Whole(k, v)'
      <4>1. \A k, v : Published(k, v) \/ Pending(k) \/ Tangled(k) => Whole(k, v)'
        BY <1>3, <3>3, KeptFacts
      <4> HIDE DEF Whole
      <4> QED
        BY <3>2, <4>1
    <3>5. DOMAIN got'[1] = DOMAIN dir /\ \A k \in DOMAIN dir : got'[1][k] = data[dir[k]]
      BY <3>1 DEF Files
    <3> HIDE DEF Whole
    <3> QED
      BY <1>2, <3>4, <3>5
  <2> QED
    BY <2>2, <2>3
<1>6. CASE got' = <<>>
  BY <1>6 DEF OutputsAreWhole
<1>7. got' = got \/ CopyOutputs
  BY DEF Next, vars, CallNext, Start, OpenTemp, WriteTemp, Rename, ReadNames, RemoveName,
         Deliver, Abandon, Arrive, Kill
<1> QED
  BY <1>4, <1>5, <1>6, <1>7

-----------------------------------------------------------------------------
(* Whose call is the last *)

\* A step of e that does not meddle with k leaves the output k as it is.
LEMMA Unmeddled ==
  ASSUME Base, FileInv, mode = "file", NEW e \in Call, CallNext(e), NEW k, ~Meddles(e, k),
         ~Start(e)
  PROVE  /\ k \in DOMAIN dir' <=> k \in DOMAIN dir
         /\ k \in DOMAIN dir => data'[dir'[k]] = data[dir[k]]
<1>0. InodeInv /\ \A c \in Call : OpenInv(c)
  BY DEF FileInv
<1>1. /\ data \in [Inode -> Value \cup {Torn}]
      /\ \A l \in DOMAIN dir : dir[l] \in Inode
  BY DEF Base, TypeOK
<1>2. \A x \in DOMAIN Temp : Sets(e, x) => k # x /\ k # Temp[x] /\ x \notin Temps[k]
  BY TempsFacts DEF Meddles, Clobbers, Touches, Sets
<1>3. ~(Deliver(e) \/ Abandon(e) \/ Arrive(e))
  BY WireFacts
<1>4. CASE OpenTemp(e)
  <2> PICK x, t, i : x = Now(e) /\ t = Temp[x] /\ i = call'[e].inode
    OBVIOUS
  <2>1. /\ call[e].at = "next" /\ Sets(e, x) /\ x \in DOMAIN Temp /\ i \in Inode
        /\ t \in DOMAIN dir => i = dir[t]
        /\ t \notin DOMAIN dir => i = <<e, x>>
        /\ DOMAIN dir' = DOMAIN dir \cup {t}
        /\ \A l \in DOMAIN dir : dir'[l] = dir[l]
        /\ data' = [data EXCEPT ![i] = Torn]
    BY <1>4, OpenFacts
  <2>2. k # t
    BY <1>2, <2>1
  <2>3. Unmade(e, x) /\ x \in Key
    BY <2>1, LoopFacts DEF Unmade, InLoop
  <2>4. \A l \in DOMAIN dir : dir[l] # <<e, x>>
    BY <1>0, <2>3 DEF InodeInv
  <2>5. k \in DOMAIN dir => dir[k] # i
    BY <1>0, <2>1, <2>2, <2>4 DEF InodeInv
  <2> QED
    BY <1>1, <2>1, <2>2, <2>5
<1>5. CASE WriteTemp(e)
  <2> PICK x, i : x = Now(e) /\ i = call[e].inode
    OBVIOUS
  <2>1. /\ call[e].at = "opened" /\ Sets(e, x) /\ x \in DOMAIN Temp /\ i \in Inode /\ dir' = dir
        /\ \/ data' = [data EXCEPT ![i] = patch[e][x]]
           \/ data' = [data EXCEPT ![i] = Torn]
           \/ data' = data
    BY <1>5, WriteFacts
  <2>2. k \in DOMAIN dir => dir[k] # i
    BY <1>0, <1>2, <2>1 DEF OpenInv
  <2> QED
    BY <1>1, <2>1, <2>2
<1>6. CASE Rename(e)
  BY <1>2, <1>6, RenameFacts
<1>7. CASE ReadNames(e) \/ Kill(e)
  BY <1>7, ReadFacts, KillFacts
<1>8. CASE RemoveName(e)
  <2>1. \A x \in Covered(Now(e)) : x # k
    BY <1>8, RemoveFacts DEF Meddles, Touches
  <2> QED
    BY <1>8, <2>1, RemoveFacts
<1> QED
  BY <1>3, <1>4, <1>5, <1>6, <1>7, <1>8 DEF CallNext

\* Whoever is alone with a key has no one beside him there.
LEMMA AloneClear ==
  ASSUME NEW c \in Call, NEW k, Alone(c, k)
  PROVE  Clear(c, k)
BY DEF Alone, Clear, Beside

\* Leaving a key behind.
LEMMA PastFacts ==
  ASSUME Base, NEW c \in Call, call[c].at \in InLoop, patch' = patch
  PROVE  /\ \A k : Past(c, k) => k \in Key /\ <<k, Now(c)>> \notin Below /\ k # Now(c)
         /\ Stays(c) /\ call'[c].at \in InLoop => \A k : Past(c, k)' <=> Past(c, k)
         /\ MovesOn(c) => /\ \A k : Past(c, k)' => Past(c, k) \/ k = Now(c)
                          /\ call'[c].at \in {"next", "done"}
         /\ call'[c].at \in {"failed", "killed"} => \A k : ~Past(c, k)'
<1>1. /\ call[c].todo \subseteq DOMAIN patch[c] /\ DOMAIN patch[c] \subseteq Key
      /\ Now(c) \in call[c].todo
      /\ \A k \in DOMAIN patch[c] \ call[c].todo, l \in call[c].todo : <<k, l>> \notin Below
  BY LoopFacts DEF Base, TypeOK, CallInv
<1>2. \A k : Past(c, k) => k \in DOMAIN patch[c] /\ k \notin call[c].todo
  BY DEF Past, InLoop
<1>3. \A k : Past(c, k) => k \in Key /\ <<k, Now(c)>> \notin Below /\ k # Now(c)
  BY <1>1, <1>2
<1>4. ASSUME Stays(c), call'[c].at \in InLoop
      PROVE  \A k : Past(c, k)' <=> Past(c, k)
  BY <1>4 DEF Past, Stays, InLoop
<1>5. ASSUME MovesOn(c)
      PROVE  /\ \A k : Past(c, k)' => Past(c, k) \/ k = Now(c)
             /\ call'[c].at \in {"next", "done"}
  <2>1. CASE Rest(c) = {} /\ call'[c] = [at |-> "done"]
    <3>1. \A k : Past(c, k)' => k \in DOMAIN patch[c]
      BY DEF Past
    <3>2. \A k \in DOMAIN patch[c] : Past(c, k) \/ k = Now(c)
      BY <2>1 DEF Past, Rest
    <3> QED
      BY <2>1, <3>1, <3>2
  <2>2. CASE Rest(c) # {} /\ call'[c] = [at |-> "next", todo |-> Rest(c)]
    <3>1. \A k : Past(c, k)' => k \in DOMAIN patch[c] /\ k \notin Rest(c)
      BY <2>2 DEF Past
    <3>2. \A k \in DOMAIN patch[c] : k \notin Rest(c) => Past(c, k) \/ k = Now(c)
      BY DEF Past, Rest
    <3> QED
      BY <2>2, <3>1, <3>2
  <2> QED
    BY <1>5, <2>1, <2>2 DEF MovesOn
<1>6. call'[c].at \in {"failed", "killed"} => \A k : ~Past(c, k)'
  BY DEF Past, InLoop
<1> QED
  BY <1>3, <1>4, <1>5, <1>6

\* A command that gives up has nothing behind it.
LEMMA EndMade ==
  ASSUME Base, NEW c \in Call, call[c].at \in InLoop, Quiet(c), NEW k,
         call'[c].at \in {"failed", "killed"}
  PROVE  Made(c, k)'
<1>1. \A x : ~Past(c, x)'
  BY PastFacts DEF Quiet
<1> QED
  BY <1>1 DEF Made

LEMMA OpenMade ==
  ASSUME Base, FileInv, mode = "file", NEW c \in Call, OpenTemp(c), NEW k \in Key, Made(c, k)
  PROVE  Made(c, k)'
<1> PICK x, t, i : x = Now(c) /\ t = Temp[x] /\ i = call'[c].inode
  OBVIOUS
<1>1. /\ Quiet(c) /\ call[c].at = "next" /\ call'[c].at = "opened" /\ Stays(c) /\ Now(c)' = x
      /\ Sets(c, x) /\ x \in DOMAIN Temp /\ i \in Inode /\ call[c].at \in InLoop
      /\ t \in DOMAIN dir => i = dir[t]
      /\ t \notin DOMAIN dir => i = <<c, x>>
      /\ DOMAIN dir' = DOMAIN dir \cup {t}
      /\ \A l \in DOMAIN dir : dir'[l] = dir[l]
      /\ data' = [data EXCEPT ![i] = Torn]
  BY OpenFacts DEF Stays, InLoop
<1>2. patch' = patch /\ (Sets(c, k)' <=> Sets(c, k)) /\ \A z : Past(c, z)' <=> Past(c, z)
  BY <1>1, PastFacts DEF Quiet, Sets, InLoop
<1>3. ASSUME Sets(c, k), Past(c, k)
      PROVE  k \in DOMAIN dir' /\ data'[dir'[k]] = patch[c][k]
  <2>1. k # t
    BY <1>1, <1>2, <1>3, PastFacts, TempAssumption
  <2>2. k \in DOMAIN dir /\ data[dir[k]] = patch[c][k]
    BY <1>3 DEF Made
  <2>3. Unmade(c, x) /\ x \in Key
    BY <1>1, LoopFacts DEF Unmade
  <2>4. dir[k] # i
    <3>1. dir[k] # <<c, x>>
      BY <2>2, <2>3 DEF FileInv, InodeInv
    <3>2. t \in DOMAIN dir => dir[k] # dir[t]
      BY <2>1, <2>2 DEF FileInv, InodeInv
    <3> QED
      BY <1>1, <3>1, <3>2
  <2>5. dir[k] \in Inode /\ data \in [Inode -> Value \cup {Torn}]
    BY <2>2 DEF Base, TypeOK
  <2> QED
    BY <1>1, <2>2, <2>4, <2>5
<1>4. ASSUME ~Sets(c, k), k \in DOMAIN dir', NEW z \in Key,
             Past(c, z), patch[c][z] = Null, k \in Covered(z)
      PROVE  k = t
  BY <1>1, <1>4 DEF Made
<1> QED
  BY <1>1, <1>2, <1>3, <1>4 DEF Made

LEMMA WriteMade ==
  ASSUME Base, FileInv, mode = "file", NEW c \in Call, WriteTemp(c), NEW k \in Key, Made(c, k),
         Alone(c, k)
  PROVE  Made(c, k)'
<1> PICK x, i : x = Now(c) /\ i = call[c].inode
  OBVIOUS
<1>1. /\ Quiet(c) /\ call[c].at = "opened" /\ dir' = dir /\ i \in Inode
      /\ x \in DOMAIN Temp /\ call[c].at \in InLoop
      /\ \/ /\ call'[c].at = "written" /\ Stays(c)
            /\ \/ data' = [data EXCEPT ![i] = patch[c][x]]
               \/ data' = [data EXCEPT ![i] = Torn]
         \/ call'[c].at = "failed"
  BY WriteFacts DEF InLoop
<1>2. SUFFICES ASSUME call'[c].at = "written" PROVE Made(c, k)'
  BY <1>1, EndMade
<1>3. /\ patch' = patch /\ (Sets(c, k)' <=> Sets(c, k)) /\ \A z : Past(c, z)' <=> Past(c, z)
      /\ Now(c)' = x
  BY <1>1, <1>2, PastFacts DEF Quiet, Sets, InLoop, Stays
<1>4. ASSUME Sets(c, k), Past(c, k)
      PROVE  k \in DOMAIN dir' /\ data'[dir'[k]] = patch[c][k]
  <2>1. k # Temp[x]
    BY <1>1, <1>3, <1>4, PastFacts, TempAssumption
  <2>2. k \in DOMAIN dir /\ data[dir[k]] = patch[c][k]
    BY <1>4 DEF Made
  <2>3. ~ \E d \in Call : Beside(c, d) /\ Sets(d, k)
    BY AloneClear DEF Clear, Meddles, Touches, Sets
  <2>4. dir[k] # i
    BY <1>1, <2>1, <2>2, <2>3 DEF FileInv, OpenInv
  <2>5. dir[k] \in Inode /\ data \in [Inode -> Value \cup {Torn}]
    BY <2>2 DEF Base, TypeOK
  <2> QED
    BY <1>1, <1>2, <2>2, <2>4, <2>5
<1> QED
  BY <1>1, <1>2, <1>3, <1>4 DEF Made

LEMMA RenameMade ==
  ASSUME Base, FileInv, mode = "file", NEW c \in Call, Rename(c), NEW k \in Key, Made(c, k),
         Alone(c, k)
  PROVE  Made(c, k)'
<1> PICK x, t, i : x = Now(c) /\ t = Temp[x] /\ i = dir[t]
  OBVIOUS
<1>1. /\ Quiet(c) /\ call[c].at = "written" /\ call[c].at \in InLoop /\ data' = data
      /\ Sets(c, x) /\ x \in DOMAIN Temp /\ x # t
      /\ \/ /\ t \in DOMAIN dir
            /\ DOMAIN dir' = (DOMAIN dir \ {t}) \cup {x} /\ dir'[x] = i
            /\ \A l \in DOMAIN dir' \ {x} : dir'[l] = dir[l]
            /\ MovesOn(c)
         \/ call'[c].at = "failed"
  BY RenameFacts DEF InLoop
<1>2. SUFFICES ASSUME /\ t \in DOMAIN dir
                      /\ DOMAIN dir' = (DOMAIN dir \ {t}) \cup {x} /\ dir'[x] = i
                      /\ \A l \in DOMAIN dir' \ {x} : dir'[l] = dir[l]
                      /\ MovesOn(c)
               PROVE  Made(c, k)'
  BY <1>1, EndMade
<1>3. /\ patch' = patch /\ (Sets(c, k)' <=> Sets(c, k))
      /\ \A z : Past(c, z)' => Past(c, z) \/ z = x
      /\ call'[c].at \in {"next", "done"}
  BY <1>1, <1>2, PastFacts DEF Quiet, Sets
<1>4. ASSUME Sets(c, k), Past(c, k)'
      PROVE  k \in DOMAIN dir' /\ data'[dir'[k]] = patch[c][k]
  <2>1. CASE k = x
    <3>1. Clear(c, x)
      BY <2>1, AloneClear
    <3>2. data[i] = patch[c][x]
      BY <1>1, <1>2, <3>1 DEF FileInv, WrittenInv
    <3> QED
      BY <1>1, <1>2, <2>1, <3>2
  <2>2. CASE k # x
    <3>1. Past(c, k) /\ k # t
      BY <1>1, <1>3, <1>4, <2>2, PastFacts, TempAssumption
    <3>2. k \in DOMAIN dir /\ data[dir[k]] = patch[c][k]
      BY <1>4, <3>1 DEF Made
    <3> QED
      BY <1>1, <1>2, <2>2, <3>1, <3>2
  <2> QED
    BY <2>1, <2>2
<1>5. ASSUME ~Sets(c, k), k \in DOMAIN dir', NEW z \in Key,
             Past(c, z)', patch[c][z] = Null, k \in Covered(z)
      PROVE  FALSE
  <2>1. k # x /\ z # x
    BY <1>1, <1>5 DEF Sets
  <2>2. Past(c, z) /\ k \in DOMAIN dir /\ k # t
    BY <1>2, <1>3, <1>5, <2>1
  <2> QED
    BY <1>5, <2>2 DEF Made
<1> QED
  BY <1>1, <1>3, <1>4, <1>5 DEF Made

LEMMA ReadMade ==
  ASSUME Base, mode = "file", NEW c \in Call, ReadNames(c), NEW k \in Key, Made(c, k)
  PROVE  Made(c, k)'
<1> PICK x : x = Now(c)
  OBVIOUS
<1>1. /\ Quiet(c) /\ UNCHANGED <<dir, data>> /\ call[c].at = "next" /\ call[c].at \in InLoop
      /\ x \in DOMAIN patch[c] /\ patch[c][x] = Null
      /\ \/ call'[c].at = "failed"
         \/ Victims(x) = {} /\ MovesOn(c)
         \/ /\ Stays(c) /\ Now(c)' = x
            /\ call'[c].at = "removing" /\ call'[c].names = Victims(x)
  BY ReadFacts DEF InLoop, Stays
<1>2. patch' = patch /\ (Sets(c, k)' <=> Sets(c, k))
  BY <1>1 DEF Quiet, Sets
<1>3. ~Sets(c, x)
  BY <1>1 DEF Sets
<1>4. CASE call'[c].at = "failed"
  BY <1>1, <1>4, EndMade
<1>5. CASE Victims(x) = {} /\ MovesOn(c)
  <2>1. (\A z : Past(c, z)' => Past(c, z) \/ z = x) /\ call'[c].at \in {"next", "done"}
    BY <1>1, <1>2, <1>5, PastFacts
  <2>2. k \in DOMAIN dir => k \notin Covered(x)
    BY <1>5 DEF Victims
  <2> QED
    BY <1>1, <1>2, <1>3, <2>1, <2>2 DEF Made
<1>6. CASE /\ Stays(c) /\ Now(c)' = x
           /\ call'[c].at = "removing" /\ call'[c].names = Victims(x)
  <2>1. \A z : Past(c, z)' <=> Past(c, z)
    BY <1>1, <1>2, <1>6, PastFacts DEF InLoop
  <2>2. k \in DOMAIN dir /\ k \in Covered(x) => k \in Victims(x)
    BY DEF Victims
  <2> QED
    BY <1>1, <1>2, <1>6, <2>1, <2>2 DEF Made
<1> QED
  BY <1>1, <1>4, <1>5, <1>6

LEMMA RemoveMade ==
  ASSUME Base, mode = "file", NEW c \in Call, RemoveName(c), NEW k \in Key, Made(c, k)
  PROVE  Made(c, k)'
<1> PICK x : x = Now(c)
  OBVIOUS
<1>1. /\ Quiet(c) /\ data' = data /\ call[c].at = "removing" /\ call[c].at \in InLoop
      /\ x \in DOMAIN patch[c] /\ patch[c][x] = Null /\ call[c].names \subseteq Covered(x)
  BY RemoveFacts DEF InLoop
<1>2. PICK n \in call[c].names :
               /\ DOMAIN dir' = DOMAIN dir \ {n}
               /\ \A l \in DOMAIN dir' : dir'[l] = dir[l]
               /\ \/ call[c].names = {n} /\ MovesOn(c)
                  \/ /\ Stays(c) /\ call'[c].at = "removing"
                     /\ call'[c].names = call[c].names \ {n}
  BY RemoveFacts
<1>3. patch' = patch /\ (Sets(c, k)' <=> Sets(c, k)) /\ ~Sets(c, x)
  BY <1>1 DEF Quiet, Sets
<1>4. ASSUME Sets(c, k), Past(c, k)
      PROVE  k \in DOMAIN dir' /\ data'[dir'[k]] = patch[c][k]
  <2>1. k # n
    BY <1>1, <1>2, <1>3, <1>4, PastFacts DEF Covered
  <2> QED
    BY <1>1, <1>2, <1>4, <2>1 DEF Made
<1>5. ASSUME ~Sets(c, k), k \in DOMAIN dir', NEW z \in Key,
             Past(c, z), patch[c][z] = Null, k \in Covered(z)
      PROVE  FALSE
  BY <1>1, <1>2, <1>5 DEF Made
<1>6. k \in DOMAIN dir' /\ k \in Covered(x) => k \in call[c].names \ {n}
  BY <1>1, <1>2 DEF Made
<1>7. CASE call[c].names = {n} /\ MovesOn(c)
  <2>1. (\A z : Past(c, z)' => Past(c, z) \/ z = x) /\ call'[c].at \in {"next", "done"}
    BY <1>1, <1>3, <1>7, PastFacts
  <2>2. k \in DOMAIN dir' => k \notin Covered(x)
    BY <1>6, <1>7
  <2> QED
    BY <1>1, <1>3, <1>4, <1>5, <2>1, <2>2 DEF Made
<1>8. CASE /\ Stays(c) /\ call'[c].at = "removing"
           /\ call'[c].names = call[c].names \ {n}
  <2>1. (\A z : Past(c, z)' <=> Past(c, z)) /\ Now(c)' = x
    BY <1>1, <1>3, <1>8, PastFacts DEF InLoop, Stays
  <2> QED
    BY <1>1, <1>3, <1>4, <1>5, <1>6, <1>8, <2>1 DEF Made
<1> QED
  BY <1>2, <1>7, <1>8

\* A command that starts, over the socket too.
LEMMA StartFrame ==
  ASSUME Base, NEW c \in Call, Start(c)
  PROVE  /\ \A d \in Call \ {c} : call'[d] = call[d] /\ patch'[d] = patch[d]
         /\ mode' = mode /\ (mode = "ipc" => call'[c].at # "done")
<1> DEFINE Does(in, f) ==
             /\ patch' = [patch EXCEPT ![c] = f]
             /\ \/ Refused(in) /\ Become(c, [at |-> "failed"])
                \/ /\ ~Refused(in) /\ mode = "file"
                   /\ Proceed(c, DOMAIN f)
                \/ /\ ~Refused(in) /\ mode = "ipc"
                   /\ \E s \in Orders(f) :
                         Become(c, IF s = <<>> THEN [at |-> "failed"]
                                   ELSE [at |-> "sending",
                                         ops |-> [i \in DOMAIN s |-> OpOf(f, s[i])]])
<1>1. PICK in \in Inputs : \E f \in Patches(in.leaves) : Does(in, f)
  BY Zenon DEF Start
<1>2. PICK f \in Patches(in.leaves) : Does(in, f)
  BY <1>1
<1>3. mode' = mode /\ \A d \in Call \ {c} : patch'[d] = patch[d]
  BY <1>2 DEF Start, Base
<1>4. CASE Become(c, [at |-> "failed"])
  BY <1>3, <1>4, Becoming
<1>5. CASE mode = "file" /\ Proceed(c, DOMAIN f)
  <2>1. \A d \in Call \ {c} : call'[d] = call[d]
    BY <1>5, Proceeding
  <2> QED
    BY <1>3, <1>5, <2>1
<1>6. ASSUME NEW s \in Orders(f),
             Become(c, IF s = <<>> THEN [at |-> "failed"]
                       ELSE [at |-> "sending", ops |-> [i \in DOMAIN s |-> OpOf(f, s[i])]])
      PROVE  /\ \A d \in Call \ {c} : call'[d] = call[d]
             /\ call'[c].at # "done"
  <2>1. call'[c] = IF s = <<>> THEN [at |-> "failed"]
                   ELSE [at |-> "sending", ops |-> [i \in DOMAIN s |-> OpOf(f, s[i])]]
    BY <1>6, Becoming
  <2>2. call'[c].at # "done"
    BY <2>1
  <2> QED
    BY <1>6, <2>2, Becoming
<1> QED
  BY <1>2, <1>3, <1>4, <1>5, <1>6

\* A command that has just started has nothing behind it.
LEMMA NewLast ==
  ASSUME Base, NEW c \in Call, Start(c), NEW k
  PROVE  LastInv(c, k)'
<1>1. CASE mode = "file"
  <2>1. (\A x : ~Past(c, x)') /\ call'[c].at # "removing" /\ mode' # "ipc"
    BY <1>1, StartFacts DEF Past, InLoop
  <2> QED
    BY <2>1 DEF LastInv, Made
<1>2. CASE mode # "file"
  <2>1. mode = "ipc" /\ mode' = "ipc" /\ call'[c].at # "done"
    BY <1>2, StartFrame, ModesAssumption DEF Base, TypeOK
  <2> QED
    BY <2>1 DEF LastInv, Sent
<1> QED
  BY <1>1, <1>2

LEMMA StepFrame ==
  ASSUME Base, NEW e \in Call, CallNext(e)
  PROVE  /\ \A d \in Call \ {e} : call'[d] = call[d] /\ patch'[d] = patch[d]
         /\ Start(e) \/ (Quiet(e) /\ call[e].at \in InLoop \cup OnWire)
<1>1. CASE Start(e)
  BY <1>1, StartFrame
<1>2. CASE ~Start(e)
  <2>1. CASE OpenTemp(e) \/ WriteTemp(e) \/ Rename(e)
    <3>1. Quiet(e) /\ call[e].at \in {"next", "opened", "written"}
      BY <2>1, OpenFacts, WriteFacts, RenameFacts
    <3> QED
      BY <3>1 DEF InLoop, Quiet
  <2>2. CASE ReadNames(e) \/ RemoveName(e)
    <3>1. Quiet(e) /\ call[e].at \in {"next", "removing"}
      BY <2>2, ReadFacts, RemoveFacts
    <3> QED
      BY <3>1 DEF InLoop, Quiet
  <2>3. CASE Kill(e) \/ Deliver(e) \/ Abandon(e) \/ Arrive(e)
    <3>1. Quiet(e) /\ call[e].at \in InLoop \cup OnWire
      BY <2>3, KillFacts, WireFacts
    <3> QED
      BY <3>1 DEF Quiet
  <2> QED
    BY <1>2, <2>1, <2>2, <2>3 DEF CallNext
<1> QED
  BY <1>1, <1>2

\* What can still happen to a command that was given up.
LEMMA AdriftStep ==
  ASSUME Base, NEW e \in Call, CallNext(e), call[e].at \in {"adrift", "killed"}
  PROVE  call[e].at = "adrift" /\ call'[e].at = "killed" /\ store' = ApplyAll(store, call[e].ops)
<1>1. Arrive(e)
  BY DEF CallNext, Start, OpenTemp, WriteTemp, Rename, ReadNames, RemoveName, Deliver, Abandon, Kill
<1> QED
  BY <1>1, Becoming DEF Arrive

LEMMA LateNext ==
  ASSUME Base, LateInv, [Next]_vars
  PROVE  LateInv'
<1>1. CASE UNCHANGED vars \/ CopyOutputs
  BY <1>1 DEF vars, CopyOutputs, LateInv
<1>2. ASSUME NEW e \in Call, CallNext(e)
      PROVE  LateInv'
  <2>1. /\ \A d \in Call \ {e} : call'[d] = call[d]
        /\ Start(e) \/ Quiet(e)
    BY <1>2, StepFrame
  <2>2. \A d \in Call : call[d].at \in {"adrift", "killed"} => call'[d].at \in {"adrift", "killed"}
    BY <1>2, <2>1, AdriftStep
  <2>3. CASE Start(e)
    <3>1. /\ seen' = [seen EXCEPT ![e] = {d \in Call : Ended(d)}]
          /\ late' = [late EXCEPT ![e] = {d \in Call : call[d].at = "adrift"}]
          /\ mode' = mode
      BY <2>3 DEF Start
    <3>2. /\ late'[e] = {d \in Call : call[d].at = "adrift"} /\ seen'[e] = {d \in Call : Ended(d)}
          /\ \A c \in Call \ {e} : late'[c] = late[c] /\ seen'[c] = seen[c]
      BY <3>1 DEF Base, TypeOK
    <3>3. mode = "file" => late'[e] = {}
      BY <3>2 DEF Base, CallInv, OnWire
    <3>4. late'[e] \cap seen'[e] = {}
      BY <3>2 DEF Ended
    <3>5. \A c \in Call : \A d \in late'[c] : d \in Call /\ call[d].at \in {"adrift", "killed"}
      BY <3>2 DEF LateInv, Base, TypeOK
    <3>6. \A c \in Call : (mode' = "file" => late'[c] = {}) /\ late'[c] \cap seen'[c] = {}
      BY <3>1, <3>2, <3>3, <3>4 DEF LateInv
    <3> QED
      BY <2>2, <3>5, <3>6 DEF LateInv
  <2>4. CASE Quiet(e)
    <3>1. late' = late /\ seen' = seen /\ mode' = mode
      BY <2>4 DEF Quiet
    <3>2. \A c \in Call : late[c] \subseteq Call
      BY DEF Base, TypeOK
    <3> QED
      BY <2>2, <3>1, <3>2 DEF LateInv
  <2> QED
    BY <2>1, <2>3, <2>4
<1> QED
  BY <1>1, <1>2 DEF Next

\* A step of e leaves what c has made.
LEMMA OthersLast ==
  ASSUME Base, FileInv, LateInv, Kept, NEW e \in Call, CallNext(e), NEW c \in Call, c # e,
         NEW k \in Key, LastInv(c, k)
  PROVE  LastInv(c, k)'
<1>0. call'[c] = call[c] /\ patch'[c] = patch[c] /\ mode' = mode /\ Now(c)' = Now(c)
  BY StepFrame DEF Kept, Now
<1>1. CASE call[c].at = "idle"
  <2>1. (\A x : ~Past(c, x)') /\ call'[c].at \notin {"removing", "done"}
    BY <1>0, <1>1 DEF Past, InLoop
  <2> QED
    BY <2>1 DEF LastInv, Made, Sent
<1>2. CASE call[c].at # "idle"
  <2>1. ASSUME mode = "file", Alone(c, k)'
        PROVE  Made(c, k)'
    <3>1. Alone(c, k) /\ Made(c, k)
      BY <1>2, <2>1, KeptFacts DEF Active, LastInv
    <3>2. CASE Start(e)
      <4>1. UNCHANGED <<dir, data, store>>
        BY <3>2 DEF Start
      <4> QED
        BY <1>0, <3>1, <4>1 DEF Made, Sets, Past
    <3>3. CASE ~Start(e)
      <4>1. call[e].at \in InLoop \cup OnWire
        BY <3>3, StepFrame
      <4>2. ~Meddles(e, k)
        <5>1. ~Ended(e)
          BY <4>1 DEF Ended, InLoop, OnWire
        <5> QED
          BY <3>1, <5>1 DEF Alone, Base, CallInv
      <4>3. /\ k \in DOMAIN dir' <=> k \in DOMAIN dir
            /\ k \in DOMAIN dir => data'[dir'[k]] = data[dir[k]]
        BY <2>1, <3>3, <4>2, Unmeddled
      <4> QED
        BY <1>0, <3>1, <4>3 DEF Made, Sets, Past
    <3> QED
      BY <3>2, <3>3
  <2>2. ASSUME mode = "ipc", Last(c, k)'
        PROVE  Sent(c, k)'
    <3> SUFFICES ASSUME call[c].at = "done", Touches(c, k)
                 PROVE  \/ Makes(c, k, store)'
                        \/ \E d \in Call : Landed(d, c, k)' /\ Makes(d, k, store)'
      BY <1>0 DEF Sent, Touches
    <3>1. Last(c, k) /\ Sent(c, k)
      BY <1>2, <2>2, KeptFacts DEF Active, LastInv
    <3>2. late'[c] = late[c]
      BY <1>2 DEF Kept, Active
    <3>3. CASE call[e].at \notin {"idle", "killed"} /\ Touches(e, k) /\ ~Start(e)
      <4>1. ~Ended(e)
        BY <3>3, StepFrame DEF Ended, InLoop, OnWire
      <4>2. e \in late[c]
        BY <3>1, <3>3, <4>1 DEF Last, Base, CallInv
      <4>3. call[e].at = "adrift" /\ call'[e].at = "killed" /\ store' = ApplyAll(store, call[e].ops)
        BY <4>2, AdriftStep DEF LateInv
      <4>4. Makes(e, k, store')
        BY <2>2, <3>3, <4>3, ApplyPatchFacts DEF Makes, MayUndo, OnWire
      <4>5. patch'[e] = patch[e] /\ mode' = mode
        BY <3>3 DEF Kept, Active
      <4>6. Landed(e, c, k)'
        BY <3>2, <3>3, <4>2, <4>3, <4>5 DEF Landed, Touches
      <4>7. Makes(e, k, store)'
        BY <4>4, <4>5 DEF Makes, Sets, MayUndo
      <4> QED
        BY <4>6, <4>7
    <3>4. CASE Start(e) \/ ~Touches(e, k)
      <4>1. Agree(store', store, k)
        <5>1. CASE Start(e)
          BY <5>1 DEF Start, Agree
        <5>2. CASE ~Start(e) /\ ~Touches(e, k)
          <6>1. CASE call[e].at \in OnWire /\ store' = ApplyAll(store, call[e].ops)
            BY <5>2, <6>1, ApplyPatchFacts
          <6>2. CASE store' = store
            BY <6>2 DEF Agree
          <6> QED
            BY <5>2, <6>1, <6>2, WireFacts
            DEF CallNext, OpenTemp, WriteTemp, Rename, ReadNames, RemoveName, Kill
        <5> QED
          BY <3>4, <5>1, <5>2
      <4>2. \A d \in Call : patch'[d] = patch[d] /\ Makes(d, k, store) => Makes(d, k, store)'
        BY <1>0, <4>1 DEF Makes, Sets, MayUndo, Agree
      <4>3. \A d \in Call : Landed(d, c, k) => Landed(d, c, k)' /\ patch'[d] = patch[d]
        <5> SUFFICES ASSUME NEW d \in Call, Landed(d, c, k)
                     PROVE  Landed(d, c, k)' /\ patch'[d] = patch[d]
          OBVIOUS
        <5>1. d # e
          BY StepFrame, AdriftStep DEF Landed
        <5>2. call'[d] = call[d] /\ patch'[d] = patch[d]
          BY <5>1, StepFrame
        <5> QED
          BY <3>2, <5>2 DEF Landed, Touches
      <4> QED
        BY <1>0, <3>1, <4>2, <4>3 DEF Sent
    <3> QED
      BY <3>3, <3>4, StepFrame DEF InLoop, OnWire
  <2> QED
    BY <1>0, <2>1, <2>2 DEF LastInv
<1> QED
  BY <1>1, <1>2

\* A step of c itself.
LEMMA OwnLast ==
  ASSUME Base, FileInv, Kept, NEW c \in Call, CallNext(c), ~Start(c),
         NEW k \in Key, LastInv(c, k)
  PROVE  LastInv(c, k)'
<1>1. Quiet(c) /\ call[c].at \in InLoop \cup OnWire /\ mode' = mode /\ patch' = patch
  BY StepFrame DEF Quiet
<1>2. ASSUME mode = "file", Alone(c, k)' PROVE Made(c, k)'
  <2>1. Alone(c, k) /\ Made(c, k)
    BY <1>1, <1>2, KeptFacts DEF Active, InLoop, OnWire, LastInv
  <2>2. ~(Deliver(c) \/ Abandon(c) \/ Arrive(c))
    BY <1>2, WireFacts
  <2>3. CASE Kill(c)
    BY <2>3, KillFacts, EndMade
  <2> QED
    BY <1>2, <2>1, <2>2, <2>3, OpenMade, WriteMade, RenameMade, ReadMade, RemoveMade DEF CallNext
<1>3. ASSUME mode = "ipc" PROVE Sent(c, k)'
  <2> SUFFICES ASSUME call'[c].at = "done", Touches(c, k)'
               PROVE  Makes(c, k, store)'
    BY DEF Sent
  <2>1. call[c].at \in OnWire
    BY <1>1, <1>3 DEF Base, CallInv
  <2>2. store' = ApplyAll(store, call[c].ops)
    BY <2>1, WireFacts DEF CallNext, OnWire, OpenTemp, WriteTemp, Rename, ReadNames, RemoveName, Kill, InLoop
  <2>3. /\ Touches(c, k) /\ ~Sets(c, k) => k \notin DOMAIN store'
        /\ Sets(c, k) =>
                   \/ k \in DOMAIN store' /\ store'[k] = patch[c][k]
                   \/ /\ k \notin DOMAIN store'
                      /\ \E x \in DOMAIN patch[c] : patch[c][x] = Null /\ k \in Covered(x)
    BY <2>1, <2>2, ApplyPatchFacts
  <2> QED
    BY <1>1, <1>3, <2>3 DEF Makes, Sets, Touches, MayUndo
<1> QED
  BY <1>1, <1>2, <1>3 DEF LastInv

LEMMA LastNext ==
  ASSUME Base, FileInv, LateInv, [Next]_vars, NEW c \in Call, NEW k \in Key, LastInv(c, k)
  PROVE  LastInv(c, k)'
<1>1. Kept
  BY NextKept
<1>2. CASE UNCHANGED vars \/ CopyOutputs
  <2>1. UNCHANGED <<mode, call, patch, seen, late, dir, data, store>>
    BY <1>2 DEF vars, CopyOutputs
  <2>2. Alone(c, k)' => Alone(c, k)
    BY <2>1 DEF Alone, Meddles, Clobbers, Touches, Sets
  <2>3. Last(c, k)' => Last(c, k)
    BY <2>1 DEF Last, Touches
  <2>4. Made(c, k) => Made(c, k)'
    BY <2>1 DEF Made, Sets, Past, Now
  <2>5. Sent(c, k) => Sent(c, k)'
    BY <2>1 DEF Sent, Landed, Makes, Sets, Touches, MayUndo
  <2> QED
    BY <2>1, <2>2, <2>3, <2>4, <2>5 DEF LastInv
<1>3. ASSUME NEW e \in Call, CallNext(e)
      PROVE  LastInv(c, k)'
  <2>1. CASE e = c /\ Start(c)
    BY <2>1, NewLast
  <2>2. CASE e = c /\ ~Start(c)
    BY <1>1, <1>3, <2>2, OwnLast
  <2>3. CASE e # c
    BY <1>1, <1>3, <2>3, OthersLast
  <2> QED
    BY <2>1, <2>2, <2>3
<1> QED
  BY <1>2, <1>3 DEF Next

LEMMA CallsNext ==
  ASSUME Base, FileInv, LateInv, \A c \in Call, k \in Key : LastInv(c, k), LastCallWins,
         [Next]_vars
  PROVE  LastCallWins'
<1>1. Kept
  BY NextKept
<1> SUFFICES ASSUME NEW c \in Call, NEW k \in Key,
                    got' # <<>>, call'[c].at = "done", Touches(c, k)', Last(c, k)'
             PROVE  \/ Makes(c, k, got[1])'
                    \/ \E d \in Call \ ({c} \cup seen'[c]) : Clobbers(d, k)'
                    \/ \E d \in Call : Landed(d, c, k)' /\ Makes(d, k, got[1])'
  BY DEF LastCallWins, Last, Landed
<1>2. CASE got # <<>>
  <2>1. /\ got' = got /\ call[c].at = "done" /\ mode' = mode
        /\ \A d \in Call : patch'[d] = patch[d] /\ seen'[d] = seen[d] /\ late'[d] = late[d]
    BY <1>1, <1>2, AfterCopy DEF Kept
  <2>2. /\ Touches(c, k) /\ Last(c, k)
        /\ \A d \in Call : Makes(d, k, got[1]) => Makes(d, k, got[1])'
        /\ \A d \in Call : Clobbers(d, k) => Clobbers(d, k)'
    BY <2>1 DEF Touches, Last, Makes, Sets, MayUndo, Clobbers
  <2>3. \A d \in Call : Landed(d, c, k) => Landed(d, c, k)'
    <3>1. \A d \in Call : call[d].at = "killed" => call'[d].at = "killed"
      <4>1. CASE UNCHANGED vars \/ CopyOutputs
        BY <4>1 DEF vars, CopyOutputs
      <4>2. ASSUME NEW e \in Call, CallNext(e)
            PROVE  \A d \in Call : call[d].at = "killed" => call'[d].at = "killed"
        BY <4>2, StepFrame, AdriftStep
      <4> QED
        BY <4>1, <4>2 DEF Next
    <3> QED
      BY <2>1, <3>1 DEF Landed, Touches
  <2>4. \/ Makes(c, k, got[1])
        \/ \E d \in Call \ ({c} \cup seen[c]) : Clobbers(d, k)
        \/ \E d \in Call : Landed(d, c, k) /\ Makes(d, k, got[1])
    <3>1. late[c] \subseteq Call
      BY DEF Base, TypeOK
    <3> QED
      BY <1>2, <2>1, <2>2, <3>1 DEF LastCallWins, Last, Landed
  <2> QED
    BY <2>1, <2>2, <2>3, <2>4
<1>3. CASE got = <<>>
  <2>1. CopyOutputs
    BY <1>3 DEF Next, vars, CallNext, Start, OpenTemp, WriteTemp, Rename, ReadNames, RemoveName,
                Deliver, Abandon, Arrive, Kill
  <2>2. UNCHANGED <<mode, call, patch, seen, late, dir, data, store>>
        /\ got' = IF mode = "ipc" THEN <<store>> ELSE <<Files>>
    BY <2>1 DEF CopyOutputs
  <2>3. Touches(c, k) /\ Last(c, k) /\ call[c].at = "done"
    BY <2>2 DEF Touches, Last
  <2>4. \A d \in Call : Makes(d, k, got'[1]) => Makes(d, k, got[1])'
    BY <2>2 DEF Makes, Sets, MayUndo
  <2>5. CASE mode = "ipc"
    <3>1. Makes(c, k, store) \/ \E d \in Call : Landed(d, c, k) /\ Makes(d, k, store)
      BY <2>3, <2>5 DEF LastInv, Sent
    <3>2. got'[1] = store
      BY <2>2, <2>5
    <3>3. \A d \in Call : Landed(d, c, k) => Landed(d, c, k)'
      BY <2>2 DEF Landed, Touches
    <3> QED
      BY <2>4, <3>1, <3>2, <3>3
  <2>6. CASE mode # "ipc"
    <3>0. mode = "file" /\ late[c] = {}
      BY <2>6, ModesAssumption DEF Base, TypeOK, LateInv
    <3>1. CASE Alone(c, k)
      <4>1. Made(c, k)
        BY <3>0, <3>1 DEF LastInv
      <4>2. DOMAIN got'[1] = DOMAIN dir /\ \A l \in DOMAIN dir : got'[1][l] = data[dir[l]]
        BY <2>2, <2>6 DEF Files
      <4>3. \A x \in DOMAIN patch[c] : Past(c, x) /\ x \in Key
        BY <2>3 DEF Past, Base, TypeOK
      <4>4. CASE Sets(c, k)
        BY <2>4, <4>1, <4>2, <4>3, <4>4 DEF Made, Makes, Sets
      <4>5. CASE ~Sets(c, k)
        <5>1. PICK x \in DOMAIN patch[c] : patch[c][x] = Null /\ k \in Covered(x)
          BY <2>3, <4>5 DEF Touches, Sets, Covered
        <5>2. k \notin DOMAIN dir
          BY <2>3, <4>1, <4>3, <4>5, <5>1 DEF Made
        <5> QED
          BY <2>4, <4>2, <4>5, <5>2 DEF Makes
      <4> QED
        BY <4>4, <4>5
    <3>2. CASE ~Alone(c, k)
      <4>1. PICK d \in Call \ ({c} \cup seen[c]) : Meddles(d, k)
        BY <3>2 DEF Alone
      <4>2. Clobbers(d, k)
        BY <2>3, <3>0, <4>1 DEF Last, Meddles
      <4> QED
        BY <2>2, <4>2 DEF Clobbers, Sets
    <3> QED
      BY <3>1, <3>2
  <2> QED
    BY <2>5, <2>6
<1> QED
  BY <1>2, <1>3

-----------------------------------------------------------------------------
(* The theorems *)

LEMMA InitParts ==
  Init => /\ Base /\ FileInv /\ StoreInv /\ LateInv
          /\ \A c \in Call, k \in Key : LastInv(c, k)
          /\ OutputsAreWhole /\ LastCallWins
<1> SUFFICES ASSUME Init
             PROVE  /\ Base /\ FileInv /\ StoreInv /\ LateInv
                    /\ \A c \in Call, k \in Key : LastInv(c, k)
                    /\ OutputsAreWhole /\ LastCallWins
  OBVIOUS
<1>1. /\ \A c \in Call : call[c].at = "idle"
      /\ DOMAIN dir = {} /\ DOMAIN store = {} /\ got = <<>>
  BY DEF Init, EmptyMap
<1>2. FileInv
  BY <1>1 DEF FileInv, InodeInv, DirInv, OpenInv, WrittenInv
<1>3. StoreInv
  BY <1>1 DEF StoreInv
<1>4. \A c \in Call, k \in Key : LastInv(c, k)
  BY <1>1 DEF LastInv, Made, Sent, Past, InLoop
<1>5. LateInv
  BY DEF LateInv, Init
<1> QED
  BY <1>1, <1>2, <1>3, <1>4, <1>5, InitBase DEF OutputsAreWhole, LastCallWins

LEMMA Inductive == Spec => []IInv
<1>1. Init => IInv
  BY InitParts DEF IInv
<1>2. IInv /\ [Next]_vars => IInv'
  <2> SUFFICES ASSUME IInv, [Next]_vars PROVE IInv'
    OBVIOUS
  <2>1. /\ Base /\ FileInv /\ StoreInv /\ LateInv
        /\ \A c \in Call, k \in Key : LastInv(c, k)
        /\ OutputsAreWhole /\ LastCallWins
    BY DEF IInv
  <2>2. Base' /\ FileInv' /\ StoreInv' /\ LateInv'
    BY <2>1, BaseNext, FileNext, StoreNext, LateNext
  <2>3. \A c \in Call, k \in Key : LastInv(c, k)'
    BY <2>1, LastNext
  <2>4. OutputsAreWhole' /\ LastCallWins'
    BY <2>1, WholeNext, CallsNext
  <2> QED
    BY <2>2, <2>3, <2>4 DEF IInv
<1> QED
  BY <1>1, <1>2, PTL DEF Spec

Ahead(S, x) == {y \in S : Before(y, x)}
Following(S, x) == {y \in S : Element[y].index >= Element[x].index}

\* The elements of a list are where their indices say, counted from the end.
LEMMA Positions ==
  ASSUME NEW list, NEW S, IsFiniteSet(S),
         \A k \in S : k \in DOMAIN Element /\ Element[k].list = list,
         NEW k \in S, NEW x \in S
  PROVE  /\ Cardinality(S) \in Nat
         /\ Cardinality(Ahead(S, x)) \in Nat
         /\ Cardinality(Ahead(S, x)) = Cardinality(S) - Cardinality(Following(S, k)) <=> x = k
<1> DEFINE B(z) == {y \in S : Before(y, z)}
           A == {y \in S : Element[y].index >= Element[k].index}
<1>1. \A z \in S : Element[z] \in [list : Key, index : Nat] /\ Element[z].index \in Nat
  BY ElementAssumption
<1>2. /\ IsFiniteSet(A) /\ Cardinality(A) \in Nat /\ Cardinality(S) \in Nat
      /\ \A z : IsFiniteSet(B(z)) /\ Cardinality(B(z)) \in Nat
  BY FS_Subset, FS_CardinalityType
<1>3. Cardinality(B(k)) = Cardinality(S) - Cardinality(A)
  <2>1. B(k) \cup A = S /\ B(k) \cap A = {}
    BY <1>1 DEF Before
  <2>2. Cardinality(S) = Cardinality(B(k)) + Cardinality(A) - Cardinality({})
    BY <1>2, <2>1, FS_Union
  <2> QED
    BY <1>2, <2>2, FS_EmptySet
<1>4. ASSUME NEW y \in S, NEW z \in S, Before(y, z)
      PROVE  Cardinality(B(y)) # Cardinality(B(z))
  <2>1. B(y) \in SUBSET B(z) /\ y \in B(z) /\ y \notin B(y)
    BY <1>1, <1>4 DEF Before
  <2> QED
    BY <1>2, <2>1, FS_Subset
<1>5. Before(x, k) \/ Before(k, x) \/ x = k
  <2>1. Element[x].index = Element[k].index => Element[x] = Element[k]
    BY <1>1
  <2>2. Element[x] = Element[k] => x = k
    BY ElementAssumption
  <2> QED
    BY <1>1, <2>1, <2>2 DEF Before
<1> QED
  BY <1>2, <1>3, <1>4, <1>5 DEF Ahead, Following

\* Whatever commands run side by side, fail or are killed, the runner gets a
\* value only as a command published it, up to what OutputsAreWhole lets
\* interrupted commands and rivals for the same key do.
THEOREM Whole == Spec => []OutputsAreWhole
<1>1. IInv => OutputsAreWhole
  BY DEF IInv
<1> QED
  BY <1>1, Inductive, PTL

\* The last command that touches a key decides on it if it reported success, in
\* both transports, but for what LastCallWins names: a command on a name that
\* differs by ".tmp", and a request of a command given up before that arrives late.
THEOREM LastWins == Spec => []LastCallWins
<1>1. IInv => LastCallWins
  BY DEF IInv
<1> QED
  BY <1>1, Inductive, PTL

\* A reference <list>.-n finds what the last command that touched the list made
\* of it, whatever became of the commands before it, if none of them published
\* elements that this one does not have or has a request still on its way.
THEOREM NegativeIndex == Spec => []NegativeIndexFollowsTheList
<1>1. ASSUME IInv PROVE NegativeIndexFollowsTheList
  <2> DEFINE Mine(c, list) == {k \in DOMAIN Element : Element[k].list = list /\ Sets(c, k)}
  <2> SUFFICES ASSUME NEW c \in Call, NEW list,
                      got # <<>>, call[c].at = "done", Mine(c, list) # {},
                      \A k \in Mine(c, list) : ~MayUndo(c, k),
                      \A d \in Call \ {c}, k \in Covered(list) :
                         /\ Meddles(d, k) => d \in seen[c]
                         /\ k \in DOMAIN Element /\ Sets(d, k) => k \in Mine(c, list)
               PROVE  /\ \A k \in Mine(c, list) :
                            ResolveValue(got[1], list,
                               Cardinality({l \in Mine(c, list) : Element[l].index >= Element[k].index}))
                            = {patch[c][k]}
                      /\ ResolveValue(got[1], list, Cardinality(Mine(c, list)) + 1) = {}
    BY Zenon DEF NegativeIndexFollowsTheList
  <2> PICK S : S = Mine(c, list)
    OBVIOUS
  <2>1. \A k \in DOMAIN Element : Element[k].list = list => k \in Covered(list)
    BY ElementAssumption, BelowAssumption DEF Covered
  <2>2. IsFiniteSet(S) /\ S \subseteq Key
    <3>1. S \subseteq Key
      BY <2>1 DEF Covered
    <3> QED
      BY <3>1, SortedAssumption, FS_Subset
  <2>3. \A k \in S : k \in DOMAIN got[1] /\ got[1][k] = patch[c][k]
    <3> SUFFICES ASSUME NEW k \in S
                 PROVE  k \in DOMAIN got[1] /\ got[1][k] = patch[c][k]
      OBVIOUS
    <3>1. k \in Key /\ k \in Covered(list) /\ Sets(c, k) /\ ~MayUndo(c, k)
      BY <2>1, <2>2
    <3>2. Touches(c, k)
      BY <3>1 DEF Touches, Sets
    <3>3. LastCallWins /\ LateInv
      BY <1>1 DEF IInv
    <3>4. \A d \in Call \ {c} : Touches(d, k) \/ Clobbers(d, k) => d \in seen[c]
      BY <3>1 DEF Meddles
    <3>5. /\ \A d \in Call \ {c} : Touches(d, k) => d \in seen[c] \cup late[c]
          /\ ~ \E d \in Call \ ({c} \cup seen[c]) : Clobbers(d, k)
          /\ ~ \E d \in late[c] : call[d].at = "killed" /\ Touches(d, k) /\ Makes(d, k, got[1])
      <4>1. late[c] \subseteq Call \ seen[c] /\ c \notin late[c]
        BY <1>1 DEF IInv, Base, TypeOK, LateInv
      <4> QED
        BY <3>4, <4>1
    <3>6. Makes(c, k, got[1])
      BY <3>1, <3>2, <3>3, <3>5 DEF LastCallWins
    <3> QED
      BY <3>1, <3>6 DEF Makes
  <2>4. Elements(got[1], list) = S
    <3> SUFFICES ASSUME NEW k \in DOMAIN got[1], k \in DOMAIN Element, Element[k].list = list
                 PROVE  k \in S
      BY <2>3 DEF Elements
    <3>1. OutputsAreWhole
      BY <1>1 DEF IInv
    <3>2. ~ \E d \in Call : Borrows(d, k)
      BY ElementAssumption DEF Borrows
    <3>3. PICK d \in Call : Sets(d, k)
      BY <3>1, <3>2 DEF OutputsAreWhole
    <3>4. CASE d = c
      BY <3>3, <3>4
    <3>5. CASE d # c
      BY <2>1, <3>3, <3>5
    <3> QED
      BY <3>4, <3>5
  <2>5. \A k \in S : k \in DOMAIN Element /\ Element[k].list = list
    OBVIOUS
  <2> HIDE DEF Mine
  <2> DEFINE R(n) == {x \in S : Cardinality(Ahead(S, x)) = Cardinality(S) - n}
  <2>6. \A n : ResolveValue(got[1], list, n) = {got[1][z] : z \in R(n)}
    BY ONLY <2>4 DEF ResolveValue, Ahead
  <2>7. ASSUME NEW k \in S
        PROVE  ResolveValue(got[1], list, Cardinality(Following(S, k))) = {patch[c][k]}
    <3>1. ASSUME NEW x \in S
          PROVE  Cardinality(Ahead(S, x)) = Cardinality(S) - Cardinality(Following(S, k)) <=> x = k
      BY ONLY <2>2, <2>5, <2>7, <3>1, Positions, Zenon
    <3>2. R(Cardinality(Following(S, k))) = {k}
      BY <2>7, <3>1
    <3> HIDE DEF R
    <3> QED
      BY <2>3, <2>6, <2>7, <3>2
  <2>8. ResolveValue(got[1], list, Cardinality(S) + 1) = {}
    <3>1. \A x \in S : Cardinality(S) \in Nat /\ Cardinality(Ahead(S, x)) \in Nat
      BY <2>2, <2>5, Positions
    <3>2. R(Cardinality(S) + 1) = {}
      BY <3>1
    <3> HIDE DEF R
    <3> QED
      BY <2>6, <3>2
  <2> QED
    BY <2>7, <2>8 DEF Following
<1> QED
  BY <1>1, Inductive, PTL
=============================================================================
