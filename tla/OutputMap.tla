------------------------------ MODULE OutputMap ------------------------------
(***************************************************************************)
(* The flattened outputs of one step, map[string]string in the code, and   *)
(* the two operations a step publishes on it (internal/outputproto).  A    *)
(* key is a member of Key; Below is the prefix order of dotted keys:       *)
(* <<"image.name", "image">> \in Below because "image.name" starts with    *)
(* "image.".                                                               *)
(***************************************************************************)
EXTENDS Integers, Sequences, FiniteSets

CONSTANTS
    Key,    \* output keys
    Value,  \* output values
    Below   \* <<k, a>> \in Below: key k has the prefix a followed by a dot

ASSUME BelowAssumption ==
    /\ Below \subseteq Key \X Key
    /\ \A k \in Key : <<k, k>> \notin Below
    /\ \A a, b, c \in Key :
          <<a, b>> \in Below /\ <<b, c>> \in Below => <<a, c>> \in Below

Map == UNION {[D -> Value] : D \in SUBSET Key}

EmptyMap == [k \in {} |-> CHOOSE v \in Value : TRUE]

SetOps   == [op : {"set"}, key : Key, value : Value]
UnsetOps == [op : {"unset"}, key : Key]
Op       == SetOps \cup UnsetOps

\* The keys an unset of k removes: k itself and every key under it.
Covered(k) == {x \in Key : x = k \/ <<x, k>> \in Below}

ApplySet(m, k, v) ==
    [x \in DOMAIN m \cup {k} |-> IF x = k THEN v ELSE m[x]]

ApplyUnset(m, k) == [x \in DOMAIN m \ Covered(k) |-> m[x]]

ApplyOp(m, o) ==
    IF o.op = "set" THEN ApplySet(m, o.key, o.value) ELSE ApplyUnset(m, o.key)

\* The whole batch, in order.
ApplyAll(m, ops) ==
    LET step[i \in 0 .. Len(ops)] ==
            IF i = 0 THEN m ELSE ApplyOp(step[i - 1], ops[i])
    IN  step[Len(ops)]
=============================================================================
