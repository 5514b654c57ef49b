--------------------------- MODULE OutputMapProofs ---------------------------
(***************************************************************************)
(* What a batch of operations makes of a map: the lemmas of the proof       *)
(* modules about OutputMap.                                                *)
(***************************************************************************)
EXTENDS OutputMap, LeastNumber, TLAPS

IsMap(m) == m = [k \in DOMAIN m |-> m[k]]

\* o decides what becomes of k.
Hits(o, k) ==
    \/ o \in SetOps /\ o.key = k
    \/ o \in UnsetOps /\ k \in Covered(o.key)

\* What m has of k is what o makes of it.
Leaves(m, o, k) ==
    IF o \in SetOps THEN k \in DOMAIN m /\ m[k] = o.value ELSE k \notin DOMAIN m

\* a and b have the same of k.
Agree(a, b, k) ==
    /\ k \in DOMAIN a <=> k \in DOMAIN b
    /\ k \in DOMAIN a => a[k] = b[k]

LEMMA OpKinds ==
  ASSUME NEW o \in Op
  PROVE  /\ o \in SetOps => o.op = "set" /\ o.key \in Key /\ o.value \in Value /\ o \notin UnsetOps
         /\ o \notin SetOps => o \in UnsetOps /\ o.op = "unset" /\ o.key \in Key
BY DEF Op, SetOps, UnsetOps

LEMMA ApplyOpMap ==
  ASSUME NEW m, IsMap(m), DOMAIN m \subseteq Key, \A k \in DOMAIN m : m[k] \in Value,
         NEW o \in Op
  PROVE  LET a == ApplyOp(m, o)
         IN  IsMap(a) /\ DOMAIN a \subseteq Key /\ \A k \in DOMAIN a : a[k] \in Value
<1>1. CASE o \in SetOps
  <2>1. ApplyOp(m, o) = ApplySet(m, o.key, o.value)
    BY <1>1, OpKinds DEF ApplyOp
  <2> QED
    BY <1>1, <2>1, OpKinds DEF ApplySet, IsMap
<1>2. CASE o \notin SetOps
  <2>1. ApplyOp(m, o) = ApplyUnset(m, o.key)
    BY <1>2, OpKinds DEF ApplyOp
  <2> QED
    BY <2>1 DEF ApplyUnset, IsMap
<1> QED
  BY <1>1, <1>2

LEMMA ApplyOpKey ==
  ASSUME NEW m, NEW o \in Op, NEW k \in Key
  PROVE  IF Hits(o, k) THEN Leaves(ApplyOp(m, o), o, k) ELSE Agree(ApplyOp(m, o), m, k)
<1>1. CASE o \in SetOps
  <2>1. ApplyOp(m, o) = ApplySet(m, o.key, o.value)
    BY <1>1, OpKinds DEF ApplyOp
  <2> QED
    BY <1>1, <2>1, OpKinds DEF ApplySet, Hits, Leaves, Agree
<1>2. CASE o \notin SetOps
  <2>1. ApplyOp(m, o) = ApplyUnset(m, o.key)
    BY <1>2, OpKinds DEF ApplyOp
  <2> QED
    BY <1>2, <2>1, OpKinds DEF ApplyUnset, Hits, Leaves, Agree
<1> QED
  BY <1>1, <1>2

\* The maps between the operations of a batch.
Steps(m, ops, step) ==
    /\ DOMAIN step = 0 .. Len(ops)
    /\ step[0] = m
    /\ \A i \in 1 .. Len(ops) : step[i] = ApplyOp(step[i - 1], ops[i])

LEMMA ApplySteps ==
  ASSUME NEW m, NEW ops, Len(ops) \in Nat
  PROVE  \E step : Steps(m, ops, step) /\ ApplyAll(m, ops) = step[Len(ops)]
<1> DEFINE n == Len(ops)
           Good(l) == \E f : /\ DOMAIN f = 0 .. l
                             /\ f[0] = m
                             /\ \A i \in 1 .. l : f[i] = ApplyOp(f[i - 1], ops[i])
           T == {l \in Nat : ~Good(l)}
           Body(f) == [i \in 0 .. n |-> IF i = 0 THEN m ELSE ApplyOp(f[i - 1], ops[i])]
<1>1. T = {}
  <2>1. SUFFICES ASSUME T # {} PROVE FALSE
    OBVIOUS
  <2>2. PICK l \in T : \A k \in T : ~(k < l)
    BY <2>1, Least
  <2>3. l # 0
    <3>1. Good(0)
      <4> DEFINE f == [i \in 0 .. 0 |-> m]
      <4>1. DOMAIN f = 0 .. 0 /\ f[0] = m /\ \A i \in 1 .. 0 : f[i] = ApplyOp(f[i - 1], ops[i])
        OBVIOUS
      <4> QED
        BY <4>1
    <3> QED
      BY <3>1, <2>2
  <2>4. l \in Nat /\ l - 1 \in Nat /\ l - 1 < l
    BY <2>2, <2>3
  <2>5. Good(l - 1)
    BY <2>2, <2>4
  <2>6. PICK f : /\ DOMAIN f = 0 .. l - 1
                 /\ f[0] = m
                 /\ \A i \in 1 .. l - 1 : f[i] = ApplyOp(f[i - 1], ops[i])
    BY <2>5
  <2> DEFINE g == [i \in 0 .. l |-> IF i = l THEN ApplyOp(f[l - 1], ops[l]) ELSE f[i]]
  <2>7. DOMAIN g = 0 .. l /\ g[0] = m
    BY <2>3, <2>4, <2>6
  <2>8. \A i \in 1 .. l : g[i] = ApplyOp(g[i - 1], ops[i])
    <3> SUFFICES ASSUME NEW i \in 1 .. l PROVE g[i] = ApplyOp(g[i - 1], ops[i])
      OBVIOUS
    <3>1. i - 1 \in 0 .. l /\ i - 1 # l /\ g[i - 1] = f[i - 1]
      BY <2>4
    <3>2. CASE i = l
      BY <3>1, <3>2, <2>4
    <3>3. CASE i # l
      <4>1. i \in 1 .. l - 1 /\ g[i] = f[i]
        BY <3>3, <2>4
      <4> QED
        BY <4>1, <3>1, <2>6
    <3> QED
      BY <3>2, <3>3
  <2> HIDE DEF g
  <2>9. Good(l)
    BY <2>7, <2>8
  <2> QED
    BY <2>2, <2>9
<1>2. PICK f : /\ DOMAIN f = 0 .. n
               /\ f[0] = m
               /\ \A i \in 1 .. n : f[i] = ApplyOp(f[i - 1], ops[i])
  BY <1>1
<1> DEFINE h == [i \in 0 .. n |-> f[i]]
<1>3. \A i \in 0 .. n : i # 0 => i \in 1 .. n /\ i - 1 \in 0 .. n
  OBVIOUS
<1>4. h = Body(h)
  BY <1>2, <1>3, Zenon
<1> HIDE DEF h
<1>5. \E x : x = Body(x)
  BY <1>4
<1> DEFINE s == CHOOSE x : x = Body(x)
<1>6. s = Body(s)
  BY <1>5
<1>7. ApplyAll(m, ops) = s[n]
  BY DEF ApplyAll
<1> HIDE DEF s
<1>8. Steps(m, ops, s)
  <2>1. DOMAIN s = 0 .. n
    BY <1>6
  <2>2. \A i \in 0 .. n : s[i] = IF i = 0 THEN m ELSE ApplyOp(s[i - 1], ops[i])
    BY <1>6
  <2>3. 0 \in 0 .. n /\ \A i \in 1 .. n : i \in 0 .. n /\ i # 0
    OBVIOUS
  <2> QED
    BY <2>1, <2>2, <2>3 DEF Steps
<1> QED
  BY <1>7, <1>8

\* What a batch makes of one key is what the last of its operations that
\* decides on it makes of it.
LEMMA ApplyAllKey ==
  ASSUME NEW m, NEW ops \in Seq(Op), NEW k \in Key
  PROVE  \/ /\ \A i \in 1 .. Len(ops) : ~Hits(ops[i], k)
            /\ Agree(ApplyAll(m, ops), m, k)
         \/ \E i \in 1 .. Len(ops) : Hits(ops[i], k) /\ Leaves(ApplyAll(m, ops), ops[i], k)
<1>0. Len(ops) \in Nat /\ \A i \in 1 .. Len(ops) : ops[i] \in Op
  OBVIOUS
<1>1. PICK step : Steps(m, ops, step) /\ ApplyAll(m, ops) = step[Len(ops)]
  BY <1>0, ApplySteps
<1> DEFINE n == Len(ops)
           Good(l) == \/ /\ \A i \in 1 .. l : ~Hits(ops[i], k)
                         /\ Agree(step[l], m, k)
                      \/ \E i \in 1 .. l : Hits(ops[i], k) /\ Leaves(step[l], ops[i], k)
           T == {l \in 0 .. n : ~Good(l)}
<1>2. T = {}
  <2>1. SUFFICES ASSUME T # {} PROVE FALSE
    OBVIOUS
  <2>2. T \in SUBSET Nat
    BY <1>0
  <2>3. PICK l \in T : \A j \in T : ~(j < l)
    BY <2>1, <2>2, Least
  <2>4. l # 0
    <3>1. Agree(step[0], m, k)
      BY <1>1 DEF Steps, Agree
    <3> QED
      BY <3>1, <2>3
  <2>5. l \in Nat /\ l \in 1 .. n /\ l - 1 \in 0 .. n /\ l - 1 < l /\ ops[l] \in Op
    BY <1>0, <2>3, <2>4
  <2>6. Good(l - 1)
    BY <2>3, <2>5
  <2>7. step[l] = ApplyOp(step[l - 1], ops[l])
    BY <1>1, <2>5 DEF Steps
  <2>8. IF Hits(ops[l], k) THEN Leaves(step[l], ops[l], k) ELSE Agree(step[l], step[l - 1], k)
    BY <2>5, <2>7, ApplyOpKey
  <2>9. 1 .. l = (1 .. l - 1) \cup {l}
    BY <2>5
  <2>10. CASE Hits(ops[l], k)
    BY <2>3, <2>5, <2>8, <2>9, <2>10
  <2>11. CASE ~Hits(ops[l], k)
    <3>1. Agree(step[l], step[l - 1], k)
      BY <2>8, <2>11
    <3>2. CASE /\ \A i \in 1 .. l - 1 : ~Hits(ops[i], k)
               /\ Agree(step[l - 1], m, k)
      <4>1. Agree(step[l], m, k)
        BY <3>1, <3>2 DEF Agree
      <4>2. \A i \in 1 .. l : ~Hits(ops[i], k)
        BY <2>9, <2>11, <3>2
      <4> QED
        BY <4>1, <4>2, <2>3
    <3>3. CASE \E i \in 1 .. l - 1 : Hits(ops[i], k) /\ Leaves(step[l - 1], ops[i], k)
      <4>1. PICK i \in 1 .. l - 1 : Hits(ops[i], k) /\ Leaves(step[l - 1], ops[i], k)
        BY <3>3
      <4>2. Leaves(step[l], ops[i], k)
        BY <3>1, <4>1 DEF Agree, Leaves
      <4>3. i \in 1 .. l
        BY <2>9, <4>1
      <4> QED
        BY <4>1, <4>2, <4>3, <2>3
    <3> QED
      BY <2>6, <3>2, <3>3
  <2> QED
    BY <2>10, <2>11
<1>3. Good(n)
  BY <1>0, <1>2
<1> QED
  BY <1>1, <1>3

LEMMA ApplyAllMap ==
  ASSUME NEW m, IsMap(m), DOMAIN m \subseteq Key, \A k \in DOMAIN m : m[k] \in Value,
         NEW ops \in Seq(Op)
  PROVE  LET a == ApplyAll(m, ops)
         IN  IsMap(a) /\ DOMAIN a \subseteq Key /\ \A k \in DOMAIN a : a[k] \in Value
<1>0. Len(ops) \in Nat /\ \A i \in 1 .. Len(ops) : ops[i] \in Op
  OBVIOUS
<1>1. PICK step : Steps(m, ops, step) /\ ApplyAll(m, ops) = step[Len(ops)]
  BY <1>0, ApplySteps
<1> DEFINE n == Len(ops)
           Good(a) == IsMap(a) /\ DOMAIN a \subseteq Key /\ \A k \in DOMAIN a : a[k] \in Value
           T == {l \in 0 .. n : ~Good(step[l])}
<1>2. T = {}
  <2>1. SUFFICES ASSUME T # {} PROVE FALSE
    OBVIOUS
  <2>2. T \in SUBSET Nat
    BY <1>0
  <2>3. PICK l \in T : \A j \in T : ~(j < l)
    BY <2>1, <2>2, Least
  <2>4. l # 0
    BY <1>1, <2>3 DEF Steps
  <2>5. l \in Nat /\ l \in 1 .. n /\ l - 1 \in 0 .. n /\ l - 1 < l /\ ops[l] \in Op
    BY <1>0, <2>3, <2>4
  <2>6. Good(step[l - 1])
    BY <2>3, <2>5
  <2>7. step[l] = ApplyOp(step[l - 1], ops[l])
    BY <1>1, <2>5 DEF Steps
  <2>8. Good(step[l])
    BY <2>5, <2>6, <2>7, ApplyOpMap
  <2> QED
    BY <2>3, <2>8
<1>3. Good(step[n])
  BY <1>0, <1>2
<1> QED
  BY <1>1, <1>3

\* A batch is its first operation and the rest of it.
LEMMA ApplyAllTail ==
  ASSUME NEW m, NEW ops \in Seq(Op), ops # <<>>
  PROVE  /\ Len(ops) = 1 => ApplyAll(m, ops) = ApplyOp(m, Head(ops))
         /\ ApplyAll(m, ops) = ApplyAll(ApplyOp(m, Head(ops)), Tail(ops))
<1> DEFINE n == Len(ops)
<1>1. /\ n \in Nat \ {0} /\ Head(ops) = ops[1]
      /\ Len(Tail(ops)) = n - 1 /\ \A i \in 1 .. n - 1 : Tail(ops)[i] = ops[i + 1]
  OBVIOUS
<1>2. PICK a : Steps(m, ops, a) /\ ApplyAll(m, ops) = a[n]
  BY <1>1, ApplySteps
<1>3. PICK b : /\ Steps(ApplyOp(m, Head(ops)), Tail(ops), b)
               /\ ApplyAll(ApplyOp(m, Head(ops)), Tail(ops)) = b[Len(Tail(ops))]
  <2>1. Len(Tail(ops)) \in Nat
    BY <1>1
  <2> QED
    BY ONLY <2>1, ApplySteps, Zenon
<1>4. a[0] = m /\ \A i \in 1 .. n : a[i] = ApplyOp(a[i - 1], ops[i])
  BY <1>2 DEF Steps
<1>5. b[0] = ApplyOp(m, ops[1]) /\ \A i \in 1 .. n - 1 : b[i] = ApplyOp(b[i - 1], ops[i + 1])
  BY <1>1, <1>3 DEF Steps
<1>6. a[1] = ApplyOp(m, ops[1])
  <2>1. 1 \in 1 .. n /\ 1 - 1 = 0
    BY <1>1
  <2> QED
    BY <1>4, <2>1
<1> DEFINE T == {i \in 0 .. n - 1 : b[i] # a[i + 1]}
<1>7. T = {}
  <2>1. SUFFICES ASSUME T # {} PROVE FALSE
    OBVIOUS
  <2>0. T \in SUBSET Nat
    BY <1>1
  <2>2. PICK i \in T : \A j \in T : ~(j < i)
    BY <2>0, <2>1, Least
  <2>3. i # 0
    BY <1>5, <1>6, <2>2
  <2>4. i \in 1 .. n - 1 /\ i - 1 \in 0 .. n - 1 /\ i - 1 < i /\ i + 1 \in 1 .. n
        /\ (i - 1) + 1 = i /\ (i + 1) - 1 = i
    BY <1>1, <2>2, <2>3
  <2>5. b[i - 1] = a[i]
    BY <2>2, <2>4
  <2>6. b[i] = ApplyOp(b[i - 1], ops[i + 1]) /\ a[i + 1] = ApplyOp(a[i], ops[i + 1])
    BY <1>4, <1>5, <2>4
  <2> QED
    BY <2>2, <2>5, <2>6
<1>8. b[n - 1] = a[n]
  <2>1. n - 1 \in 0 .. n - 1 /\ (n - 1) + 1 = n
    BY <1>1
  <2> QED
    BY <1>7, <2>1
<1> QED
  BY <1>1, <1>2, <1>3, <1>6, <1>8
=============================================================================
