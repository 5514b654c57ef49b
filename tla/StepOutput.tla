----------------------------- MODULE StepOutput -----------------------------
(***************************************************************************)
(* drone-output (command/output.go, internal/stepoutput) in the container  *)
(* of one step: the commands set, put and unset, run one after another or   *)
(* in parallel, and what the runner gets to see of them.                   *)
(*                                                                         *)
(* In the file transport a command writes and removes files of the step's   *)
(* output directory, one system call at a time, and can be killed between   *)
(* any two; the runner loads the directory after the step.  Otherwise it    *)
(* sends one request to the output service, whose Apply is atomic (see      *)
(* OutputService).                                                         *)
(*                                                                         *)
(* A file name is a key, that of a temporary file too.  A document is the   *)
(* set of its leaves [key, value]; formats and scalars are left out.        *)
(***************************************************************************)
EXTENDS OutputMap

CONSTANTS
    Call,       \* invocations of drone-output
    Inputs,     \* what they may be asked to do: [cmd, leaves]
    Modes,      \* transports: "file", "ipc"
    Sorted,     \* the keys in the order of sort.Strings
    Temp,       \* Temp[k]: k with ".tmp" appended
    Invalid,    \* keys that ValidateKey refuses
    Element,    \* Element[k]: [list, index], for a key k = <list>.<index>
    Null,       \* a leaf to unset
    Torn        \* the content of a file that is not written whole

Leaf == [key : Key, value : Value \cup {Null}]

ASSUME MarksAssumption == {Null, Torn} \cap Value = {} /\ Null # Torn
ASSUME ModesAssumption == Modes \subseteq {"file", "ipc"}
ASSUME InputsAssumption ==
    Inputs \subseteq [cmd : {"put", "unset"}, leaves : SUBSET Leaf]
\* A prefix comes first.
ASSUME SortedAssumption ==
    /\ IsFiniteSet(Key)
    /\ Sorted \in [1 .. Cardinality(Key) -> Key]
    /\ \A k \in Key : \E i \in DOMAIN Sorted : Sorted[i] = k
    /\ \A i, j \in DOMAIN Sorted : <<Sorted[j], Sorted[i]>> \in Below => i < j
\* The keys that the inputs set have one; the others need none.
ASSUME TempAssumption ==
    /\ \A k \in DOMAIN Temp : k \in Key /\ Temp[k] \in Key /\ <<Temp[k], k>> \in Below
    /\ \A k, l \in DOMAIN Temp : Temp[k] = Temp[l] => k = l
    /\ \A in \in Inputs, l \in Leaf :
          l \in in.leaves /\ l.value # Null =>
              in.cmd = "put" /\ l.key \in Invalid \cup DOMAIN Temp

\* The last segment of the name of a temporary file is not a number.
ASSUME ElementAssumption ==
    /\ \A k, l \in DOMAIN Element :
          /\ Element[k] \in [list : Key, index : Nat]
          /\ <<k, Element[k].list>> \in Below
          /\ Element[k] = Element[l] => k = l
    /\ \A k \in DOMAIN Temp : Temp[k] \notin DOMAIN Element

\* Temps[k]: k with ".tmp" appended once or more.
Temps == [k \in Key |->
    {t \in Key : \A S \in SUBSET Key :
        /\ k \in DOMAIN Temp => Temp[k] \in S
        /\ \A x \in S \cap DOMAIN Temp : Temp[x] \in S
        => t \in S}]

Inode == Call \X Key

VARIABLES
    mode,       \* DRONE_OUTPUT_TRANSPORT
    call,       \* call[c]: a drone-output process, [at |-> ...]
    patch,      \* patch[c]: what it was asked to publish
    seen,       \* seen[c]: the calls that had ended when c started
    late,       \* late[c]: those given up whose request was still on its way then
    dir,        \* the directory: names to inodes
    data,       \* what is in the inodes
    store,      \* the step's map in the output service
    got         \* what the runner has: <<>>, or <<outputs>>

vars == <<mode, call, patch, seen, late, dir, data, store, got>>

Ended(c) == call[c].at \in {"done", "failed", "killed"}

Init ==
    /\ mode \in Modes
    /\ call = [c \in Call |-> [at |-> "idle"]]
    /\ patch = [c \in Call |-> [k \in {} |-> Null]]
    /\ seen = [c \in Call |-> {}]
    /\ late = [c \in Call |-> {}]
    /\ dir = [k \in {} |-> CHOOSE i \in Inode : TRUE]
    /\ data = [i \in Inode |-> Torn]
    /\ store = EmptyMap
    /\ got = <<>>

Become(c, p) == call' = [call EXCEPT ![c] = p]

\* Definitions named Bug... are plausible mistakes in the definition that
\* follows them; no specification uses them.

BugProceed(c, rest) == Become(c, [at |-> "next", todo |-> rest])  \* no end

\* On to the next key of the patch, or return.
Proceed(c, rest) ==
    Become(c, IF rest = {} THEN [at |-> "done"]
              ELSE [at |-> "next", todo |-> rest])

\* The key of S that comes first.
First(S) ==
    LET i == CHOOSE i \in DOMAIN Sorted :
                 Sorted[i] \in S /\ \A j \in 1 .. i - 1 : Sorted[j] \notin S
    IN  Sorted[i]

\* The key at which the loop over the patch is.
Now(c) == First(call[c].todo)
Rest(c) == call[c].todo \ {Now(c)}

-----------------------------------------------------------------------------
(* What a command is to do *)

\* Flattening walks Go maps in any order: of two leaves with the same key, as
\* in {"a.b": 1, "a": {"b": 2}}, either may win.
Patches(leaves) ==
    {f \in [{l.key : l \in leaves} -> {l.value : l \in leaves}] :
        \A k \in DOMAIN f : [key |-> k, value |-> f[k]] \in leaves}

\* set and put validate every key; unset validates none.
Refused(in) == in.cmd = "put" /\ \E l \in in.leaves : l.key \in Invalid

OpOf(f, k) ==
    IF f[k] = Null THEN [op |-> "unset", key |-> k]
    ELSE [op |-> "set", key |-> k, value |-> f[k]]

\* PatchToOps: the ops in the order in which Go walks the map.
Orders(f) ==
    {s \in [1 .. Cardinality(DOMAIN f) -> DOMAIN f] :
        \A k \in DOMAIN f : \E i \in DOMAIN s : s[i] = k}

\* A request without ops is not sent.
Start(c) ==
    /\ got = <<>>
    /\ call[c].at = "idle"
    /\ seen' = [seen EXCEPT ![c] = {d \in Call : Ended(d)}]
    /\ late' = [late EXCEPT ![c] = {d \in Call : call[d].at = "adrift"}]
    /\ \E in \in Inputs : \E f \in Patches(in.leaves) :
        /\ patch' = [patch EXCEPT ![c] = f]
        /\ \/ Refused(in) /\ Become(c, [at |-> "failed"])
           \/ /\ ~Refused(in) /\ mode = "file"
              /\ Proceed(c, DOMAIN f)
           \/ /\ ~Refused(in) /\ mode = "ipc"
              /\ \E s \in Orders(f) :
                    Become(c, IF s = <<>> THEN [at |-> "failed"]
                              ELSE [at |-> "sending",
                                    ops |-> [i \in DOMAIN s |-> OpOf(f, s[i])]])
    /\ UNCHANGED <<mode, dir, data, store, got>>

-----------------------------------------------------------------------------
(* ApplyPatch: files *)

BugTempName(k) == k         \* written in place

TempName(k) == Temp[k]

\* os.WriteFile opens the temporary file, one that is there already too, and
\* truncates it.
OpenTemp(c) ==
    LET k == Now(c)
        t == TempName(k)
        i == IF t \in DOMAIN dir THEN dir[t] ELSE <<c, k>>
    IN  /\ call[c].at = "next"
        /\ patch[c][k] # Null
        /\ dir' = [x \in DOMAIN dir \cup {t} |-> IF x = t THEN i ELSE dir[x]]
        /\ data' = [data EXCEPT ![i] = Torn]
        /\ Become(c, [at |-> "opened", todo |-> call[c].todo, inode |-> i])
        /\ UNCHANGED <<mode, patch, seen, late, store, got>>

\* What another process wrote to the file meanwhile may be longer.
WriteTemp(c) ==
    LET v == patch[c][Now(c)]
        i == call[c].inode
    IN  /\ call[c].at = "opened"
        /\ \/ /\ \E x \in {v} \cup (IF data[i] = Torn THEN {} ELSE {Torn}) :
                    data' = [data EXCEPT ![i] = x]
              /\ Become(c, [at |-> "written", todo |-> call[c].todo])
           \/ Become(c, [at |-> "failed"]) /\ UNCHANGED data
        /\ UNCHANGED <<mode, patch, seen, late, dir, store, got>>

\* Fails when another command renamed or removed the temporary file.
Rename(c) ==
    LET k == Now(c)
        t == TempName(k)
    IN  /\ call[c].at = "written"
        /\ IF t \in DOMAIN dir
           THEN /\ dir' = [x \in (DOMAIN dir \ {t}) \cup {k} |->
                              IF x = k THEN dir[t] ELSE dir[x]]
                /\ Proceed(c, Rest(c))
           ELSE Become(c, [at |-> "failed"]) /\ UNCHANGED dir
        /\ UNCHANGED <<mode, patch, seen, late, data, store, got>>

BugVictims(k) == DOMAIN dir \cap {k}    \* the key itself only

Victims(k) == DOMAIN dir \cap Covered(k)

\* Unset: the names are read at once and removed one by one.
ReadNames(c) ==
    LET k == Now(c)
    IN  /\ call[c].at = "next"
        /\ patch[c][k] = Null
        /\ IF k \in Invalid THEN Become(c, [at |-> "failed"])
           ELSE IF Victims(k) = {} THEN Proceed(c, Rest(c))
           ELSE Become(c, [at |-> "removing", todo |-> call[c].todo,
                           names |-> Victims(k)])
        /\ UNCHANGED <<mode, patch, seen, late, dir, data, store, got>>

\* A name that is gone already is no error.
RemoveName(c) ==
    LET names == call[c].names
    IN  /\ call[c].at = "removing"
        /\ dir' = [x \in DOMAIN dir \ {First(names)} |-> dir[x]]
        /\ IF names = {First(names)} THEN Proceed(c, Rest(c))
           ELSE Become(c, [at |-> "removing", todo |-> call[c].todo,
                           names |-> names \ {First(names)}])
        /\ UNCHANGED <<mode, patch, seen, late, data, store, got>>

-----------------------------------------------------------------------------
(* sendRequest *)

\* Apply and the reply, or a refusal.
Deliver(c) ==
    /\ call[c].at = "sending"
    /\ \/ store' = ApplyAll(store, call[c].ops) /\ Become(c, [at |-> "done"])
       \/ Become(c, [at |-> "failed"]) /\ UNCHANGED store
    /\ UNCHANGED <<mode, patch, seen, late, dir, data, got>>

\* The command gives up on a broken connection or is killed; its request may
\* still be on the way.
Abandon(c) ==
    /\ call[c].at = "sending"
    /\ Become(c, [at |-> "adrift", ops |-> call[c].ops])
    /\ UNCHANGED <<mode, patch, seen, late, dir, data, store, got>>

Arrive(c) ==
    /\ call[c].at = "adrift"
    /\ store' = ApplyAll(store, call[c].ops)
    /\ Become(c, [at |-> "killed"])
    /\ UNCHANGED <<mode, patch, seen, late, dir, data, got>>

-----------------------------------------------------------------------------
\* By a timeout of the user's script, or because the container has exited.
Kill(c) ==
    /\ call[c].at \in {"next", "opened", "written", "removing"}
    /\ Become(c, [at |-> "killed"])
    /\ UNCHANGED <<mode, patch, seen, late, dir, data, store, got>>

\* Load: every file of the directory is an output.
Files == [k \in DOMAIN dir |-> data[dir[k]]]

\* After the container has exited: the directory, copied out of the container,
\* or the service's map.
CopyOutputs ==
    /\ got = <<>>
    /\ \A c \in Call : call[c].at \in {"idle", "adrift"} \/ Ended(c)
    /\ got' = IF mode = "ipc" THEN <<store>>
              ELSE <<Files>>
    /\ UNCHANGED <<mode, call, patch, seen, late, dir, data, store>>

-----------------------------------------------------------------------------
(* ResolveValue, for from_output *)

BugBefore(k, l) ==          \* the order of the names: 10 comes before 2
    \E i, j \in DOMAIN Sorted : i < j /\ Sorted[i] = k /\ Sorted[j] = l

Before(k, l) == Element[k].index < Element[l].index

\* The elements of a list that are there: deeper ones do not count, nor do
\* those that were unset, so that positions are not indices.
Elements(values, list) ==
    {k \in DOMAIN values \cap DOMAIN Element : Element[k].list = list}

\* What <list>.-n stands for: a set with the value, or nothing.  It is nothing
\* also where the code returns an error, for an n past the first element.  A
\* key <list>.-n that was set as such would come first; there is none.
ResolveValue(values, list, n) ==
    LET there == Elements(values, list)
    IN  {values[k] : k \in {x \in there :
            Cardinality({y \in there : Before(y, x)}) = Cardinality(there) - n}}

-----------------------------------------------------------------------------
CallNext(c) ==
    \/ Start(c) \/ OpenTemp(c) \/ WriteTemp(c) \/ Rename(c) \/ ReadNames(c)
    \/ RemoveName(c) \/ Deliver(c) \/ Abandon(c) \/ Arrive(c) \/ Kill(c)

Next == CopyOutputs \/ \E c \in Call : CallNext(c)

Spec == Init /\ [][Next]_vars

-----------------------------------------------------------------------------
TypeOK ==
    /\ mode \in Modes
    /\ \A c \in Call : DOMAIN patch[c] \subseteq Key /\ patch[c] \in [DOMAIN patch[c] -> Value \cup {Null}]
    /\ seen \in [Call -> SUBSET Call] /\ late \in [Call -> SUBSET Call]
    /\ DOMAIN dir \subseteq Key /\ dir \in [DOMAIN dir -> Inode]
    /\ data \in [Inode -> Value \cup {Torn}]
    /\ DOMAIN store \subseteq Key /\ store \in [DOMAIN store -> Value]
    /\ \A c \in Call :
          /\ call[c].at \in {"idle", "next", "opened", "written", "removing",
                             "sending", "adrift", "done", "failed", "killed"}
          /\ call[c].at \in {"next", "opened", "written", "removing"} =>
                call[c].todo \subseteq Key /\ call[c].todo # {}
          /\ call[c].at = "removing" => call[c].names \subseteq Key /\ call[c].names # {}

Touches(c, k) ==
    \E x \in DOMAIN patch[c] : x = k \/ (patch[c][x] = Null /\ k \in Covered(x))

Sets(c, k) == k \in DOMAIN patch[c] /\ patch[c][k] # Null

\* c writes an output through a temporary file of the name k.
Borrows(c, k) == mode = "file" /\ \E x \in DOMAIN Temp : Sets(c, x) /\ k = Temp[x]

\* c sets an output that is named like a temporary file of k, or k is named like
\* one of that.
Clobbers(c, k) == mode = "file" /\ \E x \in Key : Sets(c, x) /\ (x \in Temps[k] \/ k \in Temps[x])

\* c may write to a file that one who sets k writes to, or remove it.
Meddles(c, k) == Touches(c, k) \/ Clobbers(c, k)

\* Over the socket, an unset of a document may come after what it sets below.
MayUndo(c, k) == mode = "ipc" /\ \E x \in DOMAIN patch[c] : patch[c][x] = Null /\ k \in Covered(x)

\* What the command c asks for, of a key that it touches.
Makes(c, k, outputs) ==
    IF Sets(c, k) THEN \/ k \in DOMAIN outputs /\ outputs[k] = patch[c][k]
                       \/ k \notin DOMAIN outputs /\ MayUndo(c, k)
    ELSE k \notin DOMAIN outputs

\* docs/step-outputs.md: a command merges into the outputs, overwrites the
\* affected keys only and preserves the others.  So a key that several commands
\* affect, each started after the one before was over, has what the last one
\* made of it if that one reported success, whatever was killed, failed or given
\* up before and whatever runs in parallel on other keys.  The code keeps this
\* but for three cases.  Where a patch unsets a document and sets a key of it,
\* Makes lets the order of the ops over the socket decide.  A command that sets
\* name disturbs the output name.tmp, which is not preserved, and the reverse.
\* And a command that was given up before may still have its request on the way:
\* it then overwrites what the last one made, with what it asked for itself.
LastCallWins ==
    \A c \in Call, k \in Key :
        /\ got # <<>> /\ call[c].at = "done" /\ Touches(c, k)
        /\ \A d \in Call \ {c} : Touches(d, k) => d \in seen[c] \cup late[c]
        => \/ Makes(c, k, got[1])
           \/ \E d \in Call \ ({c} \cup seen[c]) : Clobbers(d, k)
           \/ \E d \in late[c] : call[d].at = "killed" /\ Touches(d, k) /\ Makes(d, k, got[1])

\* docs/step-outputs.md: -1 means the last list item.  A consumer that counts
\* from the end gets what the last command that touched the list made of it: its
\* n-th element from the end as n-th, in the order of the indices, and nothing
\* before the first.  This needs that no other command published elements that
\* this one does not have (a shorter list leaves those of a longer one behind,
\* and -1 is then one of them), and that no request of one given up is late.
NegativeIndexFollowsTheList ==
    \A c \in Call, list \in {Element[k].list : k \in DOMAIN Element} :
        LET mine == {k \in DOMAIN Element : Element[k].list = list /\ Sets(c, k)}
        IN  /\ got # <<>> /\ call[c].at = "done" /\ mine # {}
            /\ \A k \in mine : ~MayUndo(c, k)
            /\ \A d \in Call \ {c}, k \in Covered(list) :
                  /\ Meddles(d, k) => d \in seen[c]
                  /\ k \in DOMAIN Element /\ Sets(d, k) => k \in mine
            => /\ \A k \in mine :
                     ResolveValue(got[1], list,
                                  Cardinality({l \in mine : Element[l].index >= Element[k].index}))
                         = {patch[c][k]}
               /\ ResolveValue(got[1], list, Cardinality(mine) + 1) = {}

\* The runner gets a value only as a command published it, never half written,
\* and no keys of its own making; but a command that did not finish may leave
\* its temporary file behind as an output, and two commands that write to the
\* same file in parallel may mix or exchange their values.
OutputsAreWhole ==
    got # <<>> =>
        \A k \in DOMAIN got[1] :
            \/ \E c \in Call : Sets(c, k) /\ patch[c][k] = got[1][k]
            \/ \E c \in Call : call[c].at # "done" /\ Borrows(c, k)
            \/ \E c, d \in Call :
                  /\ c # d /\ c \notin seen[d] /\ d \notin seen[c]
                  /\ Sets(c, k) /\ Meddles(d, k)
=============================================================================
