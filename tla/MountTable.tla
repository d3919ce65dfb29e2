----------------------------- MODULE MountTable -----------------------------
(***************************************************************************)
(* The mount daemon inside nfsd (mountprog): mount_array[8], the handles   *)
(* of the mounted paths, and mount_count.  Handles are taken as the paths  *)
(* they stand for; PathTokens shows that comparing the one compares the    *)
(* other.  Requests come over UDP, so each may arrive again.               *)
(***************************************************************************)
EXTENDS Naturals, Sequences, SequencesExt

CONSTANTS
    Path,        \* the paths clients mount, sequences of components
    Exported,    \* those that exist on the server
    MaxMounts,   \* 8: the slots of mount_array
    MaxSteps     \* bound of the model: requests handled

ASSUME ExportedAssumption == Exported \subseteq Path
ASSUME MountsAssumption == MaxMounts \in Nat \ {0} /\ MaxSteps \in Nat

VARIABLES
    mount_array,   \* the paths of slots 0 .. mount_count-1
    behind,        \* make_fsid has stored into the slot behind the array
    reply,         \* the status last answered, with the request's path
    steps          \* requests handled, for the bound

vars == <<mount_array, behind, reply, steps>>

mount_count == Len(mount_array)

TypeOK ==
    /\ mount_array \in BoundedSeq(Exported, MaxMounts)
    /\ behind \in BOOLEAN
    /\ reply \in [proc : {"none", "mnt", "umnt", "umntall", "dump"},
                  path : Path \cup {<<>>}, status : {"ok", "noent"}]
    /\ steps \in 0 .. MaxSteps

Answer(proc, p, status) ==
    /\ reply' = [proc |-> proc, path |-> p, status |-> status]
    /\ steps' = steps + 1

Init ==
    /\ mount_array = <<>>
    /\ behind = FALSE
    /\ reply = [proc |-> "none", path |-> <<>>, status |-> "ok"]
    /\ steps = 0

-----------------------------------------------------------------------------

\* A full table that gives its last slot to the newcomer.
make_fsid_Replace(p) ==
    /\ mount_array' = Append(IF mount_count < MaxMounts THEN mount_array ELSE Front(mount_array), p)
    /\ UNCHANGED behind

\* make_fsid registers the mount before it looks at the limit: in a full
\* table the handle lands behind the last slot and the count is taken back.
make_fsid(p) ==
    IF mount_count < MaxMounts
    THEN mount_array' = Append(mount_array, p) /\ UNCHANGED behind
    ELSE behind' = TRUE /\ UNCHANGED mount_array

\* MNT.  A directory and a file are mounted alike.
AddMount(p) ==
    /\ steps < MaxSteps
    /\ IF p \in Exported
       THEN /\ make_fsid(p)
            /\ Answer("mnt", p, "ok")
       ELSE /\ UNCHANGED <<mount_array, behind>>
            /\ Answer("mnt", p, "noent")

\* memcmp over all ten tokens of slot n and of a row release_filehandle has
\* on its stack: encodepath fills the front of that row and what is behind
\* was there before.  So the rows differ when the path does not begin the
\* slot's path, and may or may not differ when it does.
Differs(n, p) ==
    IF IsPrefix(p, mount_array[n]) THEN BOOLEAN ELSE {TRUE}

\* The loop without its break: every slot that differs goes.
release_filehandle_NoBreak(p) ==
    mount_array' = SelectSeq(mount_array, LAMBDA q : q = p)

\* release_filehandle: the first slot whose tokens differ (memcmp # 0) is
\* overwritten with the last one.
release_filehandle(p) ==
    \E differs \in {d \in [1 .. mount_count -> BOOLEAN] :
                        \A n \in 1 .. mount_count : d[n] \in Differs(n, p)} :
        IF \A n \in 1 .. mount_count : ~differs[n]
        THEN UNCHANGED mount_array
        ELSE LET n == CHOOSE k \in 1 .. mount_count :
                          differs[k] /\ \A j \in 1 .. k - 1 : ~differs[j]
             IN  mount_array' = Front([mount_array EXCEPT ![n] = Last(mount_array)])

\* UMNT: the answer is OK whatever was found.
RemoveMount(p) ==
    /\ steps < MaxSteps
    /\ release_filehandle(p)
    /\ Answer("umnt", p, "ok")
    /\ UNCHANGED behind

\* UMNTALL, sent by a client that is about to restart.
RemoveAllMounts ==
    /\ steps < MaxSteps
    /\ mount_array' = <<>>
    /\ Answer("umntall", <<>>, "ok")
    /\ UNCHANGED behind

\* DUMP prints the table on the console; nothing of it is in the reply.
MountEntries ==
    /\ steps < MaxSteps
    /\ Answer("dump", <<>>, "ok")
    /\ UNCHANGED <<mount_array, behind>>

Next ==
    \/ \E p \in Path : AddMount(p) \/ RemoveMount(p)
    \/ RemoveAllMounts
    \/ MountEntries

Spec == Init /\ [][Next]_vars

-----------------------------------------------------------------------------

\* A mount request in a full table leaves the eight mounts there are alone,
\* and the count within the array.
FullTableKeeps ==
    [][mount_count = MaxMounts /\ reply'.proc = "mnt"
          => mount_array' = mount_array]_vars

\* Unmounting takes one entry at most, and of the entries that stay only the
\* last may change its slot: nothing is invented and nothing is doubled.
UnmountTakesOne ==
    [][reply'.proc = "umnt" /\ steps' # steps =>
          \/ mount_array' = mount_array
          \/ \E n \in 1 .. mount_count :
                /\ mount_count' = mount_count - 1
                /\ \A k \in 1 .. mount_count' :
                      mount_array'[k] = IF k = n THEN Last(mount_array) ELSE mount_array[k]]_vars

\* A mount is registered inside the array ("make_fsid: max mountpoints" is
\* what nfsd says of the one that is not): nothing is stored behind it.
StoresInBounds == ~behind

\* "Remove Mount" / "mountd: unmount Path = %s": an unmount leaves every
\* other path of the table in it.
UnmountIsNamed ==
    [][reply'.proc = "umnt" /\ steps' # steps =>
          \A n \in 1 .. mount_count :
              mount_array[n] # reply'.path => Contains(mount_array', mount_array[n])]_vars

=============================================================================
