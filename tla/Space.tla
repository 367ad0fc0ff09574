--------------------------------- MODULE Space ---------------------------------
(***************************************************************************)
(* The two sides of a synchronized space, and the events each of them      *)
(* raises: the folder on disk, seen through the local watcher              *)
(* (trsync/src/local/watcher.rs over the notify crate), and the contents   *)
(* of the Tracim space, seen through its live messages                     *)
(* (trsync/src/remote/watcher.rs) and its HTTP API (core/src/client.rs).   *)
(* Neither the server nor notify is in the repository: they are modelled   *)
(* as the code uses them.                                                  *)
(*                                                                         *)
(* The last part is what the two users of the space may do at any time.    *)
(***************************************************************************)
EXTENDS StateStore, Reduction

CONSTANTS Seeds,     \* how a run starts, within {"empty", "nested"}
          Renaming,  \* bound: types of what the users rename
          MaxEdits,  \* bound: changes made by the two users
          MaxDepth   \* bound: length of the paths users create

ASSUME SpaceAssumption == Ids \subseteq Nat /\ MaxEdits \in Nat /\ MaxDepth \in Nat

VARIABLES
    remote,    \* the contents of the Tracim space
    disk,      \* the synchronized folder
    tlm,       \* remote events not yet received
    notified,  \* local events not yet received
    edits      \* changes the users made so far

-------------------------------------------------------------------------------
(* Events; the local ones are those of module Reduction.                   *)

RemoteEvent(kind, id) == [src |-> "remote", kind |-> kind, id |-> id]

(* A queued event remembers who caused it; no executor can see that. *)
ByUser(events) == [k \in DOMAIN events |-> [event |-> events[k], own |-> FALSE]]
Own(events)    == [k \in DOMAIN events |-> [event |-> events[k], own |-> TRUE]]

-------------------------------------------------------------------------------
(* The disk: a function from the existing paths to files and folders.      *)

NoBytes == 0

Exists(path) == path \in DOMAIN disk
IsDir(path)  == Exists(path) /\ disk[path].type = "folder"
IsFile(path) == Exists(path) /\ disk[path].type = "file"

(* ContentType::from_path: whatever is not a directory is a file. *)
TypeAt(path) == IF IsDir(path) THEN "folder" ELSE "file"

Ancestors(path) == {SubSeq(path, 1, k) : k \in 1..(Len(path) - 1)}
Under(path)     == {p \in DOMAIN disk : IsPrefix(path, p)}
ParentIsDir(path) == Len(path) = 1 \/ IsDir(Front(path))

Folder      == [type |-> "folder", bytes |-> NoBytes]
File(bytes) == [type |-> "file", bytes |-> bytes]

With(path, entry) == [p \in DOMAIN disk \cup {path} |-> IF p = path THEN entry ELSE disk[p]]
Without(paths)    == [p \in DOMAIN disk \ paths |-> disk[p]]

Moved(from, to, p) == to \o SubSeq(p, Len(from) + 1, Len(p))
Renamed(from, to) ==
    LET kept  == DOMAIN disk \ (Under(from) \cup {to})
        moved == {Moved(from, to, p) : p \in Under(from)}
    IN  [p \in kept \cup moved |->
            IF p \in kept THEN disk[p]
            ELSE disk[CHOOSE q \in Under(from) : Moved(from, to, q) = p]]

(* rename(2): a file replaces a file, a folder replaces an empty folder    *)
(* only and never moves below itself.                                      *)
CanRename(from, to) ==
    /\ Exists(from) /\ ParentIsDir(to) /\ from # to
    /\ IF IsDir(from) THEN ~IsPrefix(from, to) /\ (Exists(to) => IsDir(to) /\ Under(to) = {to})
                      ELSE ~IsDir(to)

(* What the watcher makes of a write, a removal and a rename.  A removed   *)
(* folder reports each entry, after what that entry held.  digest_event    *)
(* compares the types found at the two paths of a rename after it          *)
(* happened: the source is gone and reads as a file, so a folder is        *)
(* Deleted and Created.                                                    *)
WriteEvents(path) == <<LocalEvent(IF Exists(path) THEN "Modified" ELSE "Created", path)>>

Removals(path) ==
    {order \in SetToSeqs(Under(path)) :
        \A i, j \in DOMAIN order : i < j => ~IsPrefix(order[i], order[j])}

RemoveEvents(order) == [k \in DOMAIN order |-> LocalEvent("Deleted", order[k])]

RenameEvents(from, to) ==
    IF IsDir(from) THEN <<LocalEvent("Deleted", from), LocalEvent("Created", to)>>
                   ELSE <<RenamedEvent(from, to)>>

-------------------------------------------------------------------------------
(* The Tracim server.                                                      *)

Content == [name: Names, parent: Ids \cup {Root}, type: {"file", "folder"},
            bytes: Nat, rev: Nat, status: {"live", "trashed", "gone"}]

Live(id) == id \in DOMAIN remote /\ remote[id].status = "live"

LiveParent(parent) == parent = Root \/ Live(parent)

Homonyms(id, name, parent) ==
    {other \in DOMAIN remote \ {id} :
        Live(other) /\ remote[other].name = name /\ remote[other].parent = parent}

NewIds == {id \in Ids \ DOMAIN remote : \A other \in Ids \ DOMAIN remote : id <= other}

NewContent(name, parent, type, bytes) ==
    [name |-> name, parent |-> parent, type |-> type,
     bytes |-> bytes, rev |-> 1, status |-> "live"]

WithContent(id, content) ==
    [i \in DOMAIN remote \cup {id} |-> IF i = id THEN content ELSE remote[i]]

Filled(id, bytes)    == [remote EXCEPT ![id].bytes = bytes, ![id].rev = @ + 1]
Labelled(id, name)   == [remote EXCEPT ![id].name = name, ![id].rev = @ + 1]
Parented(id, parent) == [remote EXCEPT ![id].parent = parent, ![id].rev = @ + 1]
Standing(id, status) == [remote EXCEPT ![id].status = status, ![id].rev = @ + 1]
Trashed(id)          == Standing(id, "trashed")
Restored(id)         == Standing(id, "live")
Gone(id)             == Standing(id, "gone")

Tell(events)   == tlm' = tlm \o events
Notify(events) == notified' = notified \o events

-------------------------------------------------------------------------------
(***************************************************************************)
(* The users.  The number of an edit is the version of the bytes it        *)
(* writes, so that no two edits write the same bytes.                      *)
(***************************************************************************)
Edit == edits < MaxEdits /\ edits' = edits + 1

DiskUnchanged   == UNCHANGED <<disk, notified>>
RemoteUnchanged == UNCHANGED <<remote, tlm>>

Depth(parent) == IF parent = Root THEN 0
                 ELSE IF remote[parent].parent = Root THEN 1 ELSE 2

(* Every user event is one live message of the server. *)
RemoteChange(content, kind, id) ==
    /\ Edit
    /\ remote' = content
    /\ Tell(ByUser(<<RemoteEvent(kind, id)>>))
    /\ DiskUnchanged

UserCreatesRemote ==
    \E id \in NewIds, name \in Names, parent \in DOMAIN remote \cup {Root},
       type \in {"file", "folder"} :
        /\ LiveParent(parent) /\ Depth(parent) < MaxDepth
        /\ parent # Root => remote[parent].type = "folder"
        /\ Homonyms(id, name, parent) = {}
        /\ LET bytes == IF type = "file" THEN edits + 1 ELSE NoBytes
           IN  RemoteChange(WithContent(id, NewContent(name, parent, type, bytes)),
                            "Created", id)

UserFillsRemote ==
    \E id \in DOMAIN remote :
        /\ Live(id) /\ remote[id].type = "file"
        /\ RemoteChange(Filled(id, edits + 1), "Updated", id)

UserLabelsRemote ==
    \E id \in DOMAIN remote, name \in Names :
        /\ Live(id) /\ name # remote[id].name /\ remote[id].type \in Renaming
        /\ Homonyms(id, name, remote[id].parent) = {}
        /\ RemoteChange(Labelled(id, name), "Updated", id)

(* Only empty folders move, which keeps them out of their own subtree.     *)
UserMovesRemote ==
    \E id \in DOMAIN remote, parent \in DOMAIN remote \cup {Root} :
        /\ Live(id) /\ remote[id].type \in Renaming
        /\ \A other \in DOMAIN remote : remote[other].parent # id
        /\ LiveParent(parent) /\ parent \notin {id, remote[id].parent}
        /\ parent # Root => remote[parent].type = "folder"
        /\ Depth(parent) < MaxDepth
        /\ Homonyms(id, remote[id].name, parent) = {}
        /\ RemoteChange(Parented(id, parent), "Updated", id)

UserTrashesRemote ==
    \E id \in DOMAIN remote :
        Live(id) /\ RemoteChange(Trashed(id), "Deleted", id)

UserRestoresRemote ==
    \E id \in DOMAIN remote :
        /\ remote[id].status = "trashed" /\ LiveParent(remote[id].parent)
        /\ Homonyms(id, remote[id].name, remote[id].parent) = {}
        /\ RemoteChange(Restored(id), "Created", id)

(* Moved to another space, whose live message still reaches the watcher.   *)
UserSendsRemoteAway ==
    \E id \in DOMAIN remote :
        /\ Live(id) /\ \A other \in DOMAIN remote : remote[other].parent # id
        /\ RemoteChange(Gone(id), "Left", id)

LocalChange(tree, events) ==
    /\ Edit
    /\ disk' = tree
    /\ Notify(ByUser(events))
    /\ RemoteUnchanged

DiskPath == UNION {[1..n -> Names] : n \in 1..MaxDepth}

UserCreatesLocal ==
    \E path \in DiskPath, entry \in {File(edits + 1), Folder} :
        /\ ~Exists(path) /\ ParentIsDir(path)
        /\ LocalChange(With(path, entry), <<LocalEvent("Created", path)>>)

UserWritesLocal ==
    \E path \in DOMAIN disk :
        /\ IsFile(path)
        /\ LocalChange(With(path, File(edits + 1)), <<LocalEvent("Modified", path)>>)

UserRenamesLocal ==
    \E from \in DOMAIN disk, to \in DiskPath :
        /\ CanRename(from, to) /\ disk[from].type \in Renaming
        /\ LocalChange(Renamed(from, to), RenameEvents(from, to))

UserDeletesLocal ==
    \E path \in DOMAIN disk : \E order \in Removals(path) :
        LocalChange(Without(Under(path)), RemoveEvents(order))

UserStep ==
    \/ UserCreatesRemote \/ UserFillsRemote \/ UserLabelsRemote \/ UserMovesRemote
    \/ UserTrashesRemote \/ UserRestoresRemote \/ UserSendsRemoteAway
    \/ UserCreatesLocal \/ UserWritesLocal \/ UserRenamesLocal \/ UserDeletesLocal

===============================================================================
