---------------------------- MODULE RequestStore ----------------------------
(***************************************************************************)
(* The request store (garwarp/src/request_store.rs): the file the daemon   *)
(* writes its registry to, record by record, call by call, and what a run  *)
(* reads back from it after a failed save, a crash or a power loss.        *)
(*                                                                         *)
(* A file is the sequence of its lines, a line the sequence of its fields, *)
(* a field a key and a text.  The last line of a file may have been cut.   *)
(***************************************************************************)
EXTENDS RequestRegistry, RequestTexts

CONSTANT
    Storable  \* the records the registry of this instance may hold

\* There are finitely many ids, as their length is bounded, and what a registry
\* holds was validated.
ASSUME StoreAssumption ==
    /\ IsFiniteSet(RequestId)
    /\ Storable \subseteq RequestRecord
    /\ RequestId \subseteq Text
    /\ \A r \in Storable :
        /\ r.owner \in [sender : Text, app_id : Text]
        /\ \A id \in RequestId : ValidIdentity(id, r.owner.sender, r.owner.app_id)

\* A parent is none or a window with a number: Option<ParentWindowContext>.
ASSUME WindowAssumption == Parent \subseteq {NoWindow} \cup {X11(n) : n \in WindowId}

VARIABLES
    live,   \* the records of the registry in memory
    pc,     \* where persist_registry is; "down" when no daemon runs
    temp,   \* the temporary file of the save under way
    store,  \* the file at the path of the store
    disk    \* the file that path names on the disk, for who comes after a power loss

vars == <<live, pc, temp, store, disk>>

NoFile == [present |-> FALSE, lines |-> <<>>, synced |-> TRUE]
NewFile == [present |-> TRUE, lines |-> <<>>, synced |-> FALSE]

-----------------------------------------------------------------------------
(* The line of a record. *)

Dash == <<"-">>
IdField(id) == <<"id", id>>
SenderField(r) == <<"sender", r.owner.sender>>
AppField(r) == <<"app_id", IF r.owner.app_id = NoText THEN Dash ELSE r.owner.app_id>>
ParentField(r) == <<"parent", IF r.parent = NoWindow THEN Dash ELSE ShowParent(r.parent)>>

\* The name of a state is one piece of text: no name of a state begins another.
StateField(r) == <<"state", <<r.state>> >>

\* Variant: the state is not the last field.
FormatRecordParentLast(id, r) ==
    <<IdField(id), SenderField(r), AppField(r), StateField(r), ParentField(r)>>

\* format_record_line
FormatRecord(id, r) == <<IdField(id), SenderField(r), AppField(r), ParentField(r), StateField(r)>>

HasField(line, key) == \E i \in DOMAIN line : line[i][1] = key
Value(line, key) == line[CHOOSE i \in DOMAIN line : line[i][1] = key][2]
OptionalValue(line, key) ==
    IF HasField(line, key) /\ Value(line, key) # Dash THEN Value(line, key) ELSE NoText

\* parse_optional_parent_window on the texts a file of this instance can hold.
ParentText == {NoText} \cup UNION {Prefixes(ShowParent(p)) : p \in Parent \ {NoWindow}}
ReadParent == [text \in ParentText |-> ParseParent(text)]

\* parse_fields and the checks of parse_record_line.  A text with a tab or an
\* end of line in it would make a field too many, or a line too short.
IsRecordLine(line) ==
    /\ \A i \in DOMAIN line :
        /\ line[i][1] \in {"id", "sender", "app_id", "parent", "state"}
        /\ \A j \in DOMAIN line : line[i][1] = line[j][1] => i = j
        /\ ~Contains(line[i][2], "\t") /\ ~Contains(line[i][2], "\n")
    /\ HasField(line, "id") /\ HasField(line, "sender") /\ HasField(line, "state")
    /\ Value(line, "state") \in {<<s>> : s \in RequestState}
    /\ ReadParent[OptionalValue(line, "parent")] # BadWindow

ParseRecord(line) ==
    [owner |-> [sender |-> Value(line, "sender"), app_id |-> OptionalValue(line, "app_id")],
     parent |-> ReadParent[OptionalValue(line, "parent")],
     state |-> Value(line, "state")[1]]

-----------------------------------------------------------------------------
(* The file. *)

\* persist_registry: one line for each record, ordered by id.
Written(records) ==
    LET ids == SetToSeq(DOMAIN records) IN
    [i \in DOMAIN ids |-> FormatRecord(ids[i], records[ids[i]])]

\* load_registry: one line it does not read, or an id it has read before, and
\* it reads nothing.
Readable(lines) ==
    /\ \A i \in DOMAIN lines : IsRecordLine(lines[i])
    /\ \A i, j \in DOMAIN lines : Value(lines[i], "id") = Value(lines[j], "id") => i = j

Load(file) ==
    IF Readable(file.lines)
      THEN [ok |-> TRUE,
            records |-> [id \in {Value(file.lines[i], "id") : i \in DOMAIN file.lines} |->
                LET line == CHOOSE i \in DOMAIN file.lines : Value(file.lines[i], "id") = id
                IN ParseRecord(file.lines[line])]]
      ELSE [ok |-> FALSE, records |-> Empty]

\* What can be left of a line, and of a file, when only its beginning is: a
\* key cut short is no key.
CutLines(line) ==
    UNION {{SubSeq(line, 1, k), Append(SubSeq(line, 1, k - 1), <<"torn", <<>> >>)}
             \cup {Append(SubSeq(line, 1, k - 1), <<line[k][1], text>>) : text \in Prefixes(line[k][2])}
           : k \in DOMAIN line}
Cuts(lines) ==
    {lines} \cup
    UNION {{SubSeq(lines, 1, n - 1)} \cup {Append(SubSeq(lines, 1, n - 1), cut) : cut \in CutLines(lines[n])}
           : n \in DOMAIN lines}

-----------------------------------------------------------------------------
Init ==
    /\ live = Empty
    /\ pc = "down"
    /\ temp = NoFile
    /\ store = NoFile
    /\ disk = NoFile

\* load_registry when it succeeds.
Start ==
    /\ pc = "down"
    /\ Load(store).ok
    /\ live' = Load(store).records
    /\ pc' = "idle"
    /\ UNCHANGED <<temp, store, disk>>

\* ... and when it fails, on the file or on reading it: quarantine_request_store
\* moves the file aside, if it can.
StartWithoutStore ==
    /\ pc = "down"
    /\ store.present
    /\ live' = Empty
    /\ store' \in {NoFile, store}
    /\ pc' = "idle"
    /\ UNCHANGED <<temp, disk>>

\* What the daemon does to its registry between two saves, request by request.
Change ==
    /\ pc = "idle"
    /\ \E id \in RequestId :
        \/ \E r \in Storable : live' = Put(live, id, r)
        \/ live' = Keep(live, DOMAIN live \ {id})
    /\ UNCHANGED <<pc, temp, store, disk>>

\* atomic_write up to the first byte.  Its failure leaves nothing, or an empty
\* file under a name nobody will look at or use again: such files are left out.
CreateTemp ==
    /\ pc = "idle"
    /\ temp' = NewFile
    /\ pc' = "write"
    /\ UNCHANGED <<live, store, disk>>

WriteAll ==
    /\ pc = "write"
    /\ temp' = [temp EXCEPT !.lines = Written(live)]
    /\ pc' = "sync"
    /\ UNCHANGED <<live, store, disk>>

\* Variant: the file is not synced.
SyncNothing ==
    /\ pc = "sync"
    /\ pc' = "rename"
    /\ UNCHANGED <<live, temp, store, disk>>

SyncTemp ==
    /\ pc = "sync"
    /\ temp' = [temp EXCEPT !.synced = TRUE]
    /\ pc' = "rename"
    /\ UNCHANGED <<live, store, disk>>

RenameTemp ==
    /\ pc = "rename"
    /\ store' = temp
    /\ temp' = NoFile
    /\ pc' = "idle"
    /\ UNCHANGED <<live, disk>>

\* Any call of atomic_write may fail.
SaveFails ==
    /\ pc \in {"write", "sync", "rename"}
    /\ temp' = NoFile
    /\ pc' = "idle"
    /\ UNCHANGED <<live, store, disk>>

-----------------------------------------------------------------------------
(* The outside. *)

Down == live' = Empty /\ temp' = NoFile /\ pc' = "down"

Crash ==
    /\ pc # "down"
    /\ Down
    /\ UNCHANGED <<store, disk>>

\* The file system writes the directory when it likes.
WriteBack ==
    /\ disk # store
    /\ disk' = store
    /\ UNCHANGED <<live, pc, temp, store>>

\* What was not synced may be cut.
PowerLoss ==
    /\ Down
    /\ \E lines \in IF disk.synced THEN {disk.lines} ELSE Cuts(disk.lines) :
        store' = [disk EXCEPT !.lines = lines, !.synced = TRUE]
    /\ disk' = store'

\* Somebody else cuts the file short between two runs.
Damage ==
    /\ pc = "down"
    /\ store.present /\ Load(store).ok
    /\ \E lines \in Cuts(store.lines) : store' = [store EXCEPT !.lines = lines]
    /\ disk' = store'
    /\ UNCHANGED <<live, pc, temp>>

Next ==
    \/ Start \/ StartWithoutStore \/ Change
    \/ CreateTemp \/ WriteAll \/ SyncTemp \/ RenameTemp \/ SaveFails
    \/ Crash \/ WriteBack \/ PowerLoss \/ Damage

Spec == Init /\ [][Next]_vars
-----------------------------------------------------------------------------
(* Properties. *)

\* Every variable has its type; above all, a registry that was loaded holds
\* nothing but records that one can hold.
TypeOK ==
    /\ IsIdMap(live, Storable)
    /\ pc \in {"down", "idle", "write", "sync", "rename"}
    /\ \A file \in {temp, store, disk} :
        /\ file.present \in BOOLEAN
        /\ file.synced \in BOOLEAN
        /\ IsIdMap(Load(file).records, Storable)

\* What is saved is what is loaded: every record of a request whose identity
\* the validators accept comes back from its line as it was, and a missing app
\* id or window is never taken for one, nor one for a missing one
\* (request_store.rs format_record_line, parse_record_line; validate.rs).
SavedIsLoaded == Load([lines |-> Written(live)]) = [ok |-> TRUE, records |-> live]

\* A file that ends too early costs the records at its end, or all of them; it
\* never makes one up: no request comes back in another state, with another
\* window or under another owner (request_store.rs format_record_line: the
\* required state is the last field).
CutLosesOnlyTheEnd ==
    Load(store).ok =>
        \A lines \in Cuts(store.lines) :
            \A id \in DOMAIN Load([lines |-> lines]).records :
                /\ id \in DOMAIN Load(store).records
                /\ Load([lines |-> lines]).records[id] = Load(store).records[id]

\* The store implements the atomic file: who reads it finds the whole of one
\* save at every moment, after every failed call, crash or power loss
\* (request_store.rs atomic_write: sync_all before rename).
Atomic == INSTANCE AtomicFile WITH
    up <- pc # "down", wanted <- live, shown <- Load(store), kept <- Load(disk)
ImplementsAtomicFile == Atomic!AtomicSpec
=============================================================================
