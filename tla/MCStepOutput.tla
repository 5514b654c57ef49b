---------------------------- MODULE MCStepOutput ----------------------------
(***************************************************************************)
(* Small instances of StepOutput for TLC: a list, two of its elements whose *)
(* names sort in another order than their indices, another key, the names   *)
(* of the temporary files, and an invalid key.                              *)
(***************************************************************************)
EXTENDS StepOutput, TLC

CONSTANTS tags, tags2, tags10, name, tagsTmp, tags2Tmp, tags10Tmp, nameTmp, nameTmpTmp, bad

MCSorted == <<name, nameTmp, nameTmpTmp, tags, bad, tags10, tags10Tmp, tags2, tags2Tmp, tagsTmp>>
MCKey   == {MCSorted[i] : i \in DOMAIN MCSorted}
MCTemp  == tags :> tagsTmp @@ tags2 :> tags2Tmp @@ tags10 :> tags10Tmp @@ name :> nameTmp
           @@ nameTmp :> nameTmpTmp
MCBelow == ({bad, tags10, tags10Tmp, tags2, tags2Tmp, tagsTmp} \X {tags})
           \cup {<<tags10Tmp, tags10>>, <<tags2Tmp, tags2>>, <<nameTmp, name>>,
                 <<nameTmpTmp, name>>, <<nameTmpTmp, nameTmp>>}
MCElement == tags2 :> [list |-> tags, index |-> 2] @@ tags10 :> [list |-> tags, index |-> 10]
MCValue == {"v1", "v2"}

Set(k, v) == [key |-> k, value |-> v]
Unset(k)  == [key |-> k, value |-> Null]
Put(leaves) == [cmd |-> "put", leaves |-> leaves]

\* A leaf that loses to one of the same key, a merge, an overwrite, a list, a
\* document that unsets a key and sets one under it, an output that is named
\* like a temporary file, nothing, and invalid keys.
MCInputs ==
    {Put({Set(tags, "v1"), Set(tags, "v2")}), Put({Set(tags, "v2"), Set(name, "v1")}),
     Put({Set(tags2, "v1"), Set(tags10, "v2")}),
     Put({Unset(tags), Set(tags2, "v2")}), Put({Set(nameTmp, "v2")}),
     Put({}), Put({Set(bad, "v1")}),
     [cmd |-> "unset", leaves |-> {Unset(tags)}],
     [cmd |-> "unset", leaves |-> {Unset(bad)}]}

Calls == Permutations(Call)
=============================================================================
