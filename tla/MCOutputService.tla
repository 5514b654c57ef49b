--------------------------- MODULE MCOutputService ---------------------------
(***************************************************************************)
(* Small instances of OutputService for TLC.                               *)
(***************************************************************************)
EXTENDS OutputService

CONSTANTS image, name

\* "image.name" is under "image".
MCKey   == {image, name}
MCBelow == {<<name, image>>}
MCValue == {"v1", "v2"}

Set(k, v) == [op |-> "set", key |-> k, value |-> v]
Unset(k)  == [op |-> "unset", key |-> k]

\* Two batches whose interleaving would mix two values, and a put that
\* replaces a whole map: unset, then set.
MCBatch == {<<Set(image, "v1"), Set(name, "v1")>>,
            <<Unset(image), Set(name, "v2")>>}

\* One op is enough where the content does not matter.
MCBatchOne == {<<Set(name, "v1")>>}
=============================================================================
