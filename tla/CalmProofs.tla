------------------------------ MODULE CalmProofs ------------------------------
(***************************************************************************)
(* Users who wait for trsync and for each other: after each of their       *)
(* changes the folder, the State and the space end up the same, and every  *)
(* row is found under the path the State gives it.                         *)
(*                                                                         *)
(* The State, the folder and the space differ by what the last change of a *)
(* user left to do, and by nothing else: `Only` says which rows and which  *)
(* paths may differ, and `Calm` how far the operator has come, at each point*)
(* of each executor, with what it has told and still expects to hear of. A *)
(* change that was missed and a job that failed are the end of it.         *)
(***************************************************************************)
EXTENDS RecoveryProofs, MCOperator

(* The row says where its content is in the space, *)
InSpace(id) ==
    /\ id \in DOMAIN table /\ Live(id) /\ table[id].parent = remote[id].parent
    /\ Fits(id, table[id].path)

(* and the folder holds the content at this path. *)
InFolder(id, path) ==
    /\ path \in DOMAIN disk /\ disk[path].type = remote[id].type
    /\ remote[id].type = "file" => disk[path].bytes = remote[id].bytes

Agrees(id) == InSpace(id) /\ InFolder(id, table[id].path)

(* The sides and the State differ by nothing but these contents and paths. *)
Only(ids, paths) ==
    /\ \A id \in (Visible \cup DOMAIN table) \ ids : Agrees(id)
    /\ \A path \in DOMAIN disk \ paths : \E id \in DOMAIN table \ ids : table[id].path = path

(* Echoes, each of them expected once, *)
Expected(queue) ==
    /\ \A k \in DOMAIN queue :
          queue[k].own /\ queue[k].event.kind # "Left" /\ queue[k].event \in ignored
    /\ \A j, k \in DOMAIN queue : queue[j].event = queue[k].event => j = k

(* but maybe the last, whose work finds nothing to change. *)
Again(event) ==
    \/ event.src = "remote" /\ event.kind = "Updated" /\ Live(event.id)
        /\ remote[event.id].type = "file"
    \/ event.src = "local" /\ event.kind = "Modified" /\ event.stored = event.path
        /\ IsFile(event.path)

Echoes(queue) ==
    /\ \A k \in DOMAIN queue : queue[k].own /\ queue[k].event.kind # "Left"
    /\ \A k \in DOMAIN queue :
          \/ k = Len(queue) /\ Again(queue[k].event)
          \/ queue[k].event \in ignored /\ \A j \in 1..(k - 1) : queue[j].event # queue[k].event

EchoesDown == tlm = <<>> /\ Echoes(notified)
EchoesUp == notified = <<>> /\ Echoes(tlm)

(* The removals the operator expects to hear of are yet to be heard of. *)
RemovalsPending ==
    \A event \in ignored : event.src = "local" /\ event.kind = "Deleted" =>
        \E k \in DOMAIN notified : notified[k].event = event

-------------------------------------------------------------------------------
(* Downloads: the content is missing here, *)
Lacking(id) ==
    id \notin DOMAIN table /\ Live(id) /\ LiveParent(remote[id].parent) /\ remote[id].parent # id
(* or a file that changed there. *)
Turning(id) ==
    id \in DOMAIN table /\ Live(id) /\ LiveParent(remote[id].parent) /\ remote[id].type = "file"

ReadyPresent(id) == Lacking(id) /\ Only({id}, {})
ReadyUpdated(id) ==
    /\ Turning(id)
    /\ \E path \in DOMAIN disk : IsFile(path) /\ table[id].path = path /\ Only({id}, {path})

RowsUnder(path) == {id \in DOMAIN table : IsPrefix(path, table[id].path)}
RowsGone == {id \in DOMAIN table : table[id].path \notin DOMAIN disk}
OnlyUnder(path) == Only(RowsUnder(path), Under(path))
ReadyAbsent(id) ==
    /\ id \in DOMAIN table /\ ~Live(id) /\ RowsGone = {}
    /\ \E path \in DOMAIN disk :
          table[id].path = path /\ OnlyUnder(path) /\ Under(path) \subseteq Columns

Brings(id, path) ==
    /\ job.at \in {"fill", "stat"} /\ job.got = remote[id] /\ tlm = <<>>
    /\ path = Place(id) /\ Only({id}, {path})
    /\ job.at = "fill" => Expected(notified) /\ remote[id].type = "file" /\ IsFile(path)
    /\ job.at = "stat" => Echoes(notified) /\ InFolder(id, path)

Bringing(id) ==
    \/ job.at = "start" /\ Silent /\ ReadyPresent(id)
    \/ job.at = "write" /\ Silent /\ ReadyPresent(id) /\ job.got = remote[id]
    \/ Lacking(id) /\ \E path \in DOMAIN disk : Brings(id, path)

Refreshing(id) ==
    \/ job.at = "start" /\ Silent /\ ReadyUpdated(id)
    \/ job.at = "move" /\ Silent /\ ReadyUpdated(id) /\ job.got = remote[id]
    \/ Turning(id) /\ \E path \in DOMAIN disk : Brings(id, path)

Clearing(id) == job.at = "start" /\ Silent /\ ReadyAbsent(id)

-------------------------------------------------------------------------------
(* Uploads. *)
ReadyCreated(path) ==
    path \in DOMAIN disk /\ ParentIsDir(path) /\ path \notin Columns /\ Only({}, {path})

Rewritten(id, path) ==
    /\ IsFile(path) /\ InSpace(id) /\ table[id].path = path
    /\ remote[id].type = "file" /\ Only({id}, {path})
ReadyModified(path) == \E id \in DOMAIN table : Rewritten(id, path)

Shares(id, path) ==
    /\ job.at \in {"fill", "get", "stat"} /\ job.id = id /\ notified = <<>>
    /\ Lacking(id) /\ Fits(id, path) /\ Only({id}, {path})
    /\ path \in DOMAIN disk /\ disk[path].type = remote[id].type
    /\ job.at = "fill" => Expected(tlm) /\ remote[id].type = "file"
    /\ job.at \in {"get", "stat"} => Echoes(tlm) /\ InFolder(id, path)
    /\ job.at = "stat" => job.got = remote[id]

Sharing(path) ==
    \/ job.at = "start" /\ Silent /\ ReadyCreated(path)
    \/ \E id \in DOMAIN remote : Shares(id, path)

Saves(id, path) ==
    /\ job.at \in {"get", "stat"} /\ job.id = id /\ EchoesUp
    /\ Rewritten(id, path) /\ InFolder(id, path)
    /\ job.at = "stat" => job.got = remote[id]

Saving(path) ==
    \/ job.at = "start" /\ Silent /\ ReadyModified(path)
    \/ \E id \in DOMAIN table : Saves(id, path)

(* A file renamed on the disk: its row, and that of the file it replaced. *)
Rows(path) == {id \in DOMAIN table : table[id].path = path}

Displaced(id, from, to) ==
    /\ id \in DOMAIN table /\ table[id].path = from /\ remote[id].type = "file" /\ Live(id)
    /\ table[id].parent # Root => Live(table[id].parent)
    /\ from # to /\ from \notin DOMAIN disk /\ InFolder(id, to) /\ ParentIsDir(to)
    /\ \E rows \in SUBSET DOMAIN table : rows = {id} \cup Rows(to) /\ Only(rows, {to})
    /\ \A other \in Rows(to) : remote[other].type = "file"

Undisturbed(to) == \A other \in Rows(to) : InSpace(other)

ReadyNamed(from, to) ==
    \E id \in DOMAIN table : Displaced(id, from, to) /\ InSpace(id) /\ Undisturbed(to)

Replaced(mods, to) ==
    \/ mods = <<>> /\ Rows(to) = {}
    \/ \E other \in Rows(to) : mods = <<ForgotChange(other)>> /\ ~Live(other)

Relocates(id, from, to) ==
    /\ job.at \in {"move", "replace", "trash", "again", "stat"} /\ job.id = id /\ notified = <<>>
    /\ Displaced(id, from, to) /\ remote[id].name = Last(to)
    /\ job.at # "stat" => Expected(tlm) /\ remote[id].parent = table[id].parent
    /\ job.at \in {"move", "replace", "trash"} =>
          /\ Undisturbed(to) /\ \A k \in DOMAIN tlm : tlm[k].event.kind = "Updated"
    /\ job.at \in {"move", "replace"} => job.mods = <<>>
    /\ job.at = "trash" => \E other \in Rows(to) : job.mods = <<ForgotChange(other)>>
    /\ job.at \in {"replace", "trash", "again"} => Front(from) # Front(to)
    /\ job.at \in {"again", "stat"} => Replaced(job.mods, to)
    /\ job.at = "stat" =>
          Echoes(tlm) /\ LiveParent(remote[id].parent) /\ remote[id].parent = ParentId(to)

Relocating(from, to) ==
    \/ job.at = "start" /\ Silent /\ job.mods = <<>> /\ ReadyNamed(from, to)
    \/ \E id \in DOMAIN table : Relocates(id, from, to)

-------------------------------------------------------------------------------
(* Deletions on the disk, reported from the bottom up. *)
Reported == {notified[k].event.path : k \in DOMAIN notified}

Sweeping(hand) ==
    /\ \E gone \in {RowsGone} : Only(gone, {})
    /\ hand \subseteq RowsGone
    /\ Expected(tlm)
    /\ \A k \in DOMAIN tlm : tlm[k].event.kind = "Deleted" /\ ~Live(tlm[k].event.id)
    /\ \A k \in DOMAIN notified :
          /\ ~notified[k].own /\ notified[k].event = LocalEvent("Deleted", notified[k].event.path)
          /\ \E id \in RowsGone \ hand : table[id].path = notified[k].event.path
    /\ \A j, k \in DOMAIN notified :
          j < k => ~IsPrefix(notified[j].event.path, notified[k].event.path)
    /\ \A id \in RowsGone \ hand : table[id].path \in Reported /\ InSpace(id)
    /\ \A id \in hand : \A path \in Reported : ~IsPrefix(table[id].path, path)

(* What was below a folder deleted in the space is reported too, and the   *)
(* operator will look for its row in vain.                                 *)
OwnDeletions ==
    /\ tlm = <<>>
    /\ \A k \in DOMAIN notified :
          notified[k].own /\ notified[k].event = LocalEvent("Deleted", notified[k].event.path)
Unexpected == \E k \in DOMAIN notified : notified[k].event \notin ignored
Sinking == OwnDeletions /\ Unexpected /\ Reported \cap Columns = {}

Discarding(path) ==
    \/ job.at = "start" /\ path \notin Columns
    \/ \E id \in DOMAIN table :
          /\ Sweeping({id}) /\ table[id].path = path /\ InSpace(id)
          /\ \/ job.at = "start"
             \/ job.at = "trash" /\ job.id = id /\ job.got = remote[id]

-------------------------------------------------------------------------------
(* What the event of a user changed. *)
Meets(event) ==
    \/ \E id \in DOMAIN remote : event = RemoteEvent("Created", id) /\ ReadyPresent(id)
    \/ \E id \in DOMAIN remote : event = RemoteEvent("Updated", id) /\ ReadyUpdated(id)
    \/ \E id \in DOMAIN remote :
          event \in {RemoteEvent("Deleted", id), RemoteEvent("Left", id)} /\ ReadyAbsent(id)
    \/ \E path \in DOMAIN disk : event = LocalEvent("Created", path) /\ ReadyCreated(path)
    \/ \E path \in DOMAIN disk : event = LocalEvent("Modified", path) /\ ReadyModified(path)
    \/ \E from \in Columns, to \in DOMAIN disk :
          event = RenamedEvent(from, to) /\ ReadyNamed(from, to)

Asked(queue) ==
    /\ job.at = "idle"
    /\ \E event \in {queue[k].event : k \in DOMAIN queue} :
          queue = <<[event |-> event, own |-> FALSE]>> /\ Meets(event)

(* Between two events, *)
AtEase ==
    \/ Only({}, {}) /\ (EchoesDown \/ EchoesUp)
    \/ notified = <<>> /\ Asked(tlm)
    \/ tlm = <<>> /\ Asked(notified)
    \/ Sweeping({})
    \/ Sinking

(* within one, *)
OnHand ==
    /\ job.todo # <<>> /\ job.changes = <<>>
    /\ \/ \E id \in DOMAIN remote : job.todo = <<OnId("PresentOnDisk", id)>> /\ Bringing(id)
       \/ \E id \in DOMAIN remote : job.todo = <<OnId("UpdatedOnDisk", id)>> /\ Refreshing(id)
       \/ \E id \in DOMAIN remote : job.todo = <<OnId("AbsentFromDisk", id)>> /\ Clearing(id)
       \/ \E path \in DOMAIN disk : job.todo = <<OnPath("CreatedOnRemote", path)>> /\ Sharing(path)
       \/ \E path \in DOMAIN disk : job.todo = <<OnPath("ModifiedOnRemote", path)>> /\ Saving(path)
       \/ \E from \in Columns, to \in DOMAIN disk :
             job.todo = <<OnRename(from, to)>> /\ Relocating(from, to)
       \/ /\ Now.ex = "AbsentFromRemote"
          /\ \E path \in {Now.path} :
                job.todo = <<OnPath("AbsentFromRemote", path)>> /\ Discarding(path)

(* and when the State is about to be changed. *)
Placed(id, path) == Fits(id, path) /\ Only({id}, {path}) /\ InFolder(id, path)

RecordsAdd(c) ==
    /\ c.change = "Add" /\ Lacking(c.id) /\ Placed(c.id, c.path)
    /\ c.parent = remote[c.id].parent /\ (EchoesDown \/ EchoesUp)
RecordsUpdate(c) ==
    /\ c.change = "Update" /\ Turning(c.id) /\ \E path \in DOMAIN disk : Placed(c.id, path)
    /\ c.name = remote[c.id].name /\ c.parent = remote[c.id].parent /\ (EchoesDown \/ EchoesUp)
RecordsForgot(c) ==
    /\ c.change = "Forgot" /\ c.id \in DOMAIN table
    /\ \/ Sweeping({c.id}) /\ ~Live(c.id)
       \/ /\ OwnDeletions /\ RowsGone = RowsUnder(table[c.id].path)
          /\ \A id \in DOMAIN table : table[id].path \in Reported => id \in RowsGone
          /\ \/ Unexpected
             \/ RowsGone = {c.id} /\ ~Live(c.id) /\ Only({c.id}, {}) /\ EchoesDown
RecordsReplaced(c, next) ==
    /\ c.change = "Forgot" /\ c.id \in DOMAIN table /\ ~Live(c.id) /\ remote[c.id].type = "file"
    /\ next.change = "Update" /\ next.id # c.id
    /\ Turning(next.id) /\ next.name = remote[next.id].name /\ next.parent = remote[next.id].parent
    /\ \E path \in DOMAIN disk :
          /\ Fits(next.id, path) /\ path = table[c.id].path
          /\ Only({c.id, next.id}, {path}) /\ InFolder(next.id, path)
    /\ EchoesUp

Recording ==
    \/ /\ Len(job.changes) = 1
       /\ \E c \in {job.changes[1]} :
             job.changes = <<c>> /\ (RecordsAdd(c) \/ RecordsUpdate(c) \/ RecordsForgot(c))
    \/ /\ Len(job.changes) = 2
       /\ \E c \in {job.changes[1]}, next \in {job.changes[2]} :
             job.changes = <<c, next>> /\ RecordsReplaced(c, next)

-------------------------------------------------------------------------------
(* The rows follow one another, *)
TableOK == ParentsHold /\ ColumnsNested /\ PathsDistinct(table)

BetweenEvents == job.at = "idle" \/ (job.at = "apply" /\ job.changes = <<>>)

(* and what differs is what is left to do. *)
Calm ==
    /\ Alone /\ FoldersPlain /\ RemovalsPending
    /\ IF BetweenEvents THEN AtEase ELSE IF job.at = "apply" THEN Recording ELSE OnHand

(* So it is, until a change is missed or the operator stops. *)
CalmInv == missed \/ (TableOK /\ (job.at = "failed" \/ Calm))

(* What holds besides. *)
Sound ==
    /\ Inv /\ Rooted(disk) /\ ParentsHold /\ ColumnsNested /\ PathsDistinct(table)
    /\ Alone /\ FoldersPlain /\ RemovalsPending

(* A row is found by its column, and `path` gives that column. *)
LEMMA RowAt ==
    ASSUME Inv, ColumnsNested, PathsDistinct(table), NEW id \in DOMAIN table
    PROVE  /\ HasPath(table, id) /\ PathOf(table, id) = table[id].path /\ table[id].path \in Path
           /\ ContentIdForPath(table, table[id].path) = id
           /\ id \in DOMAIN remote /\ id # Root
<1>1. PICK n \in Nat \ {0} : \E parts \in [1..n -> DOMAIN table] : IsParts(table, parts, id)
    BY RowChain, RowFacts
<1>2. HasPath(table, id)
    BY <1>1, RowFacts, ChainIsPath
<1>3. PathOf(table, id) = table[id].path
    BY <1>2, PathIsColumn, RowFacts
<1>4. ContentIdForPath(table, table[id].path) = id
    BY DEF ContentIdForPath, PathsDistinct
<1> QED
    BY <1>2, <1>3, <1>4, RowFacts

(* Where a content below a known parent belongs, *)
LEMMA PlaceFits ==
    ASSUME Inv, ColumnsNested, PathsDistinct(table), ParentsHold, NEW id \in DOMAIN remote,
           remote[id].parent \in DOMAIN table \cup {Root}
    PROVE  /\ HasRemotePath(remote[id].parent)
           /\ Place(id) \in Path /\ Fits(id, Place(id))
<1>1. HasRemotePath(remote[id].parent)
    BY RowAt DEF HasRemotePath
<1>2. IsTable(table) /\ remote[id].name \in Names /\ remote[id] \in Content
    BY DEF Inv, UsersOK, SidesOK, ContentsOK, Content
<1>3. Place(id) \in Path
    BY <1>1, <1>2, RemotePathType DEF Place
<1>4. CASE remote[id].parent = Root
    <2>1. Place(id) = <<remote[id].name>>
        BY <1>4 DEF Place, RemotePath
    <2> QED
        BY <1>1, <1>3, <1>4, <2>1 DEF Fits, Below, Last
<1>5. CASE remote[id].parent # Root
    <2>1. PICK above \in Path :
            /\ above = table[remote[id].parent].path /\ PathOf(table, remote[id].parent) = above
        BY <1>5, RowAt
    <2>2. Place(id) = Append(above, remote[id].name)
        BY <1>5, <2>1 DEF Place, RemotePath
    <2>3. /\ above \in Seq(Names) /\ Len(above) \in Nat \ {0}
          /\ Len(Place(id)) = Len(above) + 1 /\ Last(Place(id)) = remote[id].name
          /\ \A i \in 1..Len(above) : Place(id)[i] = above[i]
        BY <1>2, <2>2, PathLast DEF Last
    <2>4. IsPrefix(above, Place(id)) /\ above # Place(id)
        <3>1. Place(id) \in Seq(Names) /\ Len(above) <= Len(Place(id))
            BY <1>3, <2>3 DEF Path
        <3>2. \A i \in 1..Len(above) : above[i] = Place(id)[i]
            BY <2>3
        <3>3. IsPrefix(above, Place(id))
            BY <2>3, <3>1, <3>2, PrefixIs
        <3> QED
            BY <2>3, <3>3
    <2>5. Len(Place(id)) # 1 /\ Front(Place(id)) = above
        <3>1. Len(Place(id)) # 1 /\ Front(Place(id)) \in Path /\ IsPrefix(above, Front(Place(id)))
              /\ Len(Front(Place(id))) = Len(Place(id)) - 1
            BY <1>3, <2>1, <2>4, FrontPrefix
        <3>2. Len(Front(Place(id))) = Len(above)
            BY <2>3, <3>1
        <3> QED
            BY <2>1, <3>1, <3>2, PrefixOrder
    <2>6. remote[remote[id].parent].type = "folder"
        BY <1>5 DEF ParentsHold
    <2> QED
        BY <1>1, <1>3, <1>5, <2>1, <2>3, <2>5, <2>6 DEF Fits, Below
<1> QED
    BY <1>4, <1>5

(* and the only path where it does. *)
LEMMA FitsIsPlace ==
    ASSUME Inv, ColumnsNested, PathsDistinct(table), ParentsHold, NEW id \in DOMAIN remote,
           NEW path \in Path, Fits(id, path)
    PROVE  /\ remote[id].parent \in DOMAIN table \cup {Root} /\ HasRemotePath(remote[id].parent)
           /\ Place(id) = path
<1>1. remote[id].parent \in DOMAIN table \cup {Root}
    BY DEF Fits, Below
<1>2. HasRemotePath(remote[id].parent) /\ Place(id) \in Path /\ Fits(id, Place(id))
    BY <1>1, PlaceFits
<1> QED
    BY <1>1, <1>2, FitsPath

(* What a path is below the column of. *)
LEMMA BelowColumn ==
    ASSUME Inv, ColumnsNested, PathsDistinct(table), NEW path \in Path, NEW parent,
           Below(path, parent)
    PROVE  /\ parent = ParentId(path)
           /\ parent # Root => parent \in DOMAIN table /\ Front(path) = table[parent].path
<1>1. CASE parent = Root
    BY <1>1 DEF Below, ParentId
<1>2. CASE parent # Root
    <2>1. parent \in DOMAIN table /\ Len(path) # 1 /\ Front(path) = table[parent].path
        BY <1>2 DEF Below
    <2> QED
        BY <2>1, RowAt DEF ParentId
<1> QED
    BY <1>1, <1>2

(* Only parents that agree, or the top, have what agrees below them. *)
LEMMA ParentRow ==
    ASSUME Sound, NEW id \in DOMAIN remote, NEW ids, NEW paths, Only(ids, paths),
           LiveParent(remote[id].parent), remote[id].parent \notin ids
    PROVE  /\ remote[id].parent \in DOMAIN table \cup {Root}
           /\ remote[id].parent # Root => Agrees(remote[id].parent)
BY DEF LiveParent, Live, Visible, Only, Agrees, InSpace

(* A file is nobody's parent. *)
LEMMA NotOwnParent ==
    ASSUME Sound, NEW id \in DOMAIN remote, remote[id].type = "file"
    PROVE  remote[id].parent # id
<1>1. remote[id].parent = id => id # Root
    BY RowFacts DEF Sound
<1> QED
    BY <1>1 DEF Sound, ParentsHold

(* Where the content in hand goes, no other row is. *)
LEMMA FreePlace ==
    ASSUME Sound, NEW id \in DOMAIN remote, Live(id), NEW path \in Path, Fits(id, path),
           NEW ids, NEW paths, Only(ids, paths), NEW row \in DOMAIN table \ ids, table[row].path = path
    PROVE  row = id
<1>1. row \in Visible /\ Fits(row, path) /\ id \in Visible
    BY DEF Only, Agrees, InSpace, Live, Visible
<1> QED
    BY <1>1, FitsOne DEF Sound

-------------------------------------------------------------------------------
(***************************************************************************)
(* What may differ, when one content or one path changes.                  *)
(***************************************************************************)
(* More may differ than is said to. *)
LEMMA OnlyWider ==
    ASSUME NEW ids, NEW paths, Only(ids, paths), NEW more, NEW further,
           ids \subseteq more, paths \subseteq further,
           \A id \in DOMAIN table : id \in more /\ id \notin ids => table[id].path \in further
    PROVE  Only(more, further)
BY DEF Only

(* One content is new or changes in the space; never its type. *)
SpaceEdit(id) ==
    /\ DOMAIN remote' = DOMAIN remote \cup {id}
    /\ \A other \in DOMAIN remote \ {id} : remote'[other] = remote[other]
    /\ id \in DOMAIN remote => remote'[id].type = remote[id].type

LEMMA BelowEdited ==
    ASSUME Inv, NEW id, SpaceEdit(id), UNCHANGED table, NEW path, NEW parent
    PROVE  Below(path, parent)' <=> Below(path, parent)
<1>1. \A row \in DOMAIN table : row \in DOMAIN remote /\ remote'[row].type = remote[row].type
    BY RowFacts DEF SpaceEdit
<1> QED
    BY <1>1 DEF Below

LEMMA OnlyEdited ==
    ASSUME Inv, NEW id, SpaceEdit(id), UNCHANGED <<table, disk>>,
           NEW ids, NEW paths, Only(ids, paths), id \in ids
    PROVE  Only(ids, paths)'
<1>1. \A other \in (Visible' \cup DOMAIN table) \ ids : other \in (Visible \cup DOMAIN table) \ ids
    BY DEF SpaceEdit, Visible, Live
<1>2. ASSUME NEW other \in (Visible \cup DOMAIN table) \ ids
      PROVE  Agrees(other)'
    <2>1. /\ other \in DOMAIN table /\ other \in DOMAIN remote /\ remote'[other] = remote[other]
          /\ InSpace(other) /\ InFolder(other, table[other].path)
        BY <1>2, RowFacts DEF Only, Agrees, InSpace, SpaceEdit
    <2>2. Live(other)' /\ InFolder(other, table[other].path)'
        BY <2>1 DEF InSpace, Live, InFolder, SpaceEdit
    <2>3. Below(table[other].path, remote[other].parent)'
        <3>1. PICK path, parent : path = table[other].path /\ parent = remote[other].parent
            OBVIOUS
        <3>2. Below(path, parent)
            BY <2>1, <3>1 DEF InSpace, Fits
        <3>3. Below(path, parent)'
            BY <3>2, BelowEdited
        <3> QED
            BY <2>1, <3>1, <3>3 DEF Below
    <2>4. Fits(other, table[other].path)'
        BY <2>1, <2>3 DEF InSpace, Fits
    <2> QED
        BY <2>1, <2>2, <2>4 DEF Agrees, InSpace
<1>3. \A path \in DOMAIN disk' \ paths : \E row \in DOMAIN table' \ ids : table'[row].path = path
    BY DEF Only
<1> QED
    BY <1>1, <1>2, <1>3 DEF Only

LEMMA Edited ==
    ASSUME Sound, NEW id, SpaceEdit(id), UNCHANGED <<table, disk>>,
           remote'[id].parent # Root =>
              /\ remote'[id].parent \in DOMAIN remote
              /\ remote'[id].parent # id /\ remote[remote'[id].parent].type = "folder",
           Live(id)' => \A other \in Visible \ {id} :
              ~(remote[other].name = remote'[id].name /\ remote[other].parent = remote'[id].parent),
           remote'[id].type = "folder" => remote'[id].bytes = NoBytes
    PROVE  TableOK' /\ Alone' /\ FoldersPlain'
<1>1. ParentsHold'
    BY DEF Sound, ParentsHold, SpaceEdit
<1>2. ColumnsNested'
    <2> SUFFICES ASSUME NEW row \in DOMAIN table
                 PROVE  Below(table[row].path, table[row].parent)'
        BY DEF ColumnsNested
    <2>1. PICK path, parent : path = table[row].path /\ parent = table[row].parent
        OBVIOUS
    <2>2. Below(path, parent)
        BY <2>1 DEF Sound, ColumnsNested
    <2>3. Below(path, parent)'
        BY <2>2, BelowEdited DEF Sound
    <2> QED
        BY <2>1, <2>3 DEF Below
<1>3. PathsDistinct(table)'
    BY DEF Sound, PathsDistinct
<1>4. \A other \in Visible' \ {id} : other \in Visible \ {id} /\ remote'[other] = remote[other]
    BY DEF Visible, Live, SpaceEdit
<1>5. id \in Visible' => Live(id)'
    BY DEF Visible
<1>6. Alone'
    BY <1>4, <1>5 DEF Sound, Alone
<1>7. FoldersPlain'
    BY DEF Sound, FoldersPlain, SpaceEdit
<1> QED
    BY <1>1, <1>2, <1>3, <1>6, <1>7 DEF TableOK

(* The disk changes. *)
LEMMA DiskEdited ==
    ASSUME Sound, UNCHANGED <<table, remote>>,
           \A path \in DOMAIN disk' : disk'[path].type = "folder" => disk'[path].bytes = NoBytes
    PROVE  TableOK' /\ Alone' /\ FoldersPlain'
<1>1. ParentsHold' /\ ColumnsNested' /\ PathsDistinct(table)'
    BY DEF Sound, ParentsHold, ColumnsNested, PathsDistinct, Below
<1>2. Alone'
    BY DEF Sound, Alone, Visible, Live
<1>3. FoldersPlain'
    BY DEF Sound, FoldersPlain
<1> QED
    BY <1>1, <1>2, <1>3 DEF TableOK

LEMMA SamePlacing ==
    ASSUME UNCHANGED <<table, remote>>
    PROVE  /\ \A id : Place(id)' = Place(id) /\ InSpace(id)' = InSpace(id) /\ Live(id)' = Live(id)
           /\ \A id : Lacking(id)' = Lacking(id) /\ Turning(id)' = Turning(id)
           /\ \A id, path : Fits(id, path)' = Fits(id, path)
           /\ Visible' = Visible /\ Columns' = Columns
           /\ \A path : ParentId(path)' = ParentId(path)
BY DEF Place, RemotePath, InSpace, Live, Fits, Below, Lacking, Turning, LiveParent, Visible, Columns,
       ParentId

LEMMA OnlyKept ==
    ASSUME UNCHANGED <<table, remote, disk>>, NEW ids, NEW paths, Only(ids, paths)
    PROVE  Only(ids, paths)'
BY DEF Only, Agrees, InSpace, InFolder, Live, Fits, Below, Visible

(* The path of the content in hand is written. *)
LEMMA OnlyWritten ==
    ASSUME Sound, UNCHANGED <<table, remote>>, NEW id \in DOMAIN remote, Live(id),
           NEW path \in Path, Fits(id, path), NEW paths, Only({id}, paths),
           \A other \in paths : other = path \/ (id \in DOMAIN table /\ other = table[id].path),
           \A other \in DOMAIN disk \ (paths \cup {path}) :
              other \in DOMAIN disk' /\ disk'[other] = disk[other],
           \A other \in DOMAIN disk' \ {path} : other \in DOMAIN disk \ paths
    PROVE  Only({id}, {path})'
<1>1. ASSUME NEW row \in (Visible \cup DOMAIN table) \ {id}
      PROVE  Agrees(row)'
    <2>1. Agrees(row) /\ row \in DOMAIN table
        BY <1>1 DEF Only, Agrees, InSpace
    <2>2. table[row].path # path
        BY <1>1, <2>1, FreePlace
    <2>3. id \in DOMAIN table => table[row].path # table[id].path
        BY <1>1, <2>1 DEF Sound, PathsDistinct
    <2>4. table[row].path \in DOMAIN disk \ (paths \cup {path})
        BY <2>1, <2>2, <2>3 DEF Agrees, InFolder
    <2>5. InFolder(row, table[row].path)'
        BY <2>1, <2>4 DEF Agrees, InFolder
    <2>6. InSpace(row)'
        BY <2>1, SamePlacing DEF Agrees
    <2> QED
        BY <2>5, <2>6 DEF Agrees
<1>2. ASSUME NEW other \in DOMAIN disk' \ {path}
      PROVE  \E row \in DOMAIN table \ {id} : table[row].path = other
    BY <1>2 DEF Only
<1>3. Visible' = Visible
    BY SamePlacing
<1> QED
    BY <1>1, <1>2, <1>3 DEF Only

-------------------------------------------------------------------------------
(***************************************************************************)
(* What may differ, when rows are written or forgotten.                    *)
(***************************************************************************)
LEMMA BelowStays ==
    ASSUME UNCHANGED remote, NEW path, NEW parent, Below(path, parent),
           parent # Root => parent \in DOMAIN table' /\ table'[parent].path = table[parent].path
    PROVE  Below(path, parent)'
BY DEF Below

LEMMA SpaceStays ==
    ASSUME UNCHANGED remote, NEW row \in DOMAIN table', table'[row] = table[row], InSpace(row),
           remote[row].parent # Root =>
              /\ remote[row].parent \in DOMAIN table'
              /\ table'[remote[row].parent].path = table[remote[row].parent].path
    PROVE  InSpace(row)'
<1>1. PICK path, parent : path = table[row].path /\ parent = remote[row].parent
    OBVIOUS
<1>2. Below(path, parent)
    BY <1>1 DEF InSpace, Fits
<1>3. Below(path, parent)'
    BY <1>1, <1>2, BelowStays
<1>4. Fits(row, table[row].path)'
    BY <1>1, <1>3 DEF InSpace, Fits, Below
<1> QED
    BY <1>4 DEF InSpace, Live

(* Rows written over those of files, or taken with all that is below them. *)
LEMMA NestedStays ==
    ASSUME ColumnsNested, UNCHANGED remote, NEW rows,
           \A row \in rows : row \in DOMAIN table /\ table'[row] = table[row],
           \A row \in rows : table[row].parent # Root =>
              /\ table[row].parent \in DOMAIN table'
              /\ table'[table[row].parent].path = table[table[row].parent].path
    PROVE  \A row \in rows : Below(table[row].path, table[row].parent)'
<1> SUFFICES ASSUME NEW row \in rows
             PROVE  Below(table[row].path, table[row].parent)'
    OBVIOUS
<1>1. PICK path, parent : path = table[row].path /\ parent = table[row].parent
    OBVIOUS
<1>2. Below(path, parent)
    BY <1>1 DEF ColumnsNested
<1>3. Below(path, parent)'
    BY <1>1, <1>2, BelowStays
<1> QED
    BY <1>1, <1>3

(* One row is written, that of no folder known before. *)
RowWritten(id, path) ==
    /\ DOMAIN table' = DOMAIN table \cup {id} /\ id \in DOMAIN remote
    /\ \A row \in DOMAIN table \ {id} : table'[row] = table[row]
    /\ table'[id].path = path /\ table'[id].parent = remote[id].parent
    /\ id \in DOMAIN table => remote[id].type = "file"

LEMMA FoldersStand ==
    ASSUME NEW id, NEW path, RowWritten(id, path), NEW p, NEW parent, Below(p, parent), parent # Root
    PROVE  parent \in DOMAIN table' /\ table'[parent].path = table[parent].path
BY DEF Below, RowWritten

LEMMA WritesRow ==
    ASSUME Sound, UNCHANGED <<remote, disk>>, NEW id, NEW path, Live(id), RowWritten(id, path),
           Fits(id, path), path \in Path, InFolder(id, path), NEW ids, Only(ids, {path}),
           \A row \in DOMAIN table \ {id} : table[row].path # path, id \in ids
    PROVE  TableOK' /\ \A apart : apart = ids \ {id} => Only(apart, {})'
<1>1. Below(path, remote[id].parent)'
    <2>1. PICK parent : parent = remote[id].parent
        OBVIOUS
    <2>2. Below(path, parent)
        BY <2>1 DEF Fits
    <2>3. Below(path, parent)'
        BY <2>2, FoldersStand, BelowStays
    <2> QED
        BY <2>1, <2>3 DEF Below
<1>2. \A row \in DOMAIN table \ {id} : Below(table[row].path, table[row].parent)'
    <2>1. \A row \in DOMAIN table \ {id} : row \in DOMAIN table /\ table'[row] = table[row]
        BY DEF RowWritten
    <2>2. ASSUME NEW row \in DOMAIN table \ {id}, table[row].parent # Root
          PROVE  /\ table[row].parent \in DOMAIN table'
                 /\ table'[table[row].parent].path = table[table[row].parent].path
        <3>1. PICK p, parent : p = table[row].path /\ parent = table[row].parent
            OBVIOUS
        <3>2. Below(p, parent)
            BY <3>1 DEF Sound, ColumnsNested
        <3> QED
            BY <2>2, <3>1, <3>2, FoldersStand
    <2> QED
        BY <2>1, <2>2, NestedStays DEF Sound
<1>3. ColumnsNested'
    <2> SUFFICES ASSUME NEW row \in DOMAIN table'
                 PROVE  Below(table[row].path, table[row].parent)'
        BY DEF ColumnsNested
    <2> QED
        BY <1>1, <1>2 DEF RowWritten, Below
<1>4. PathsDistinct(table)'
    <2> SUFFICES ASSUME NEW row \in DOMAIN table', NEW other \in DOMAIN table',
                        table'[row].path = table'[other].path
                 PROVE  row = other
        BY DEF PathsDistinct
    <2> QED
        BY DEF RowWritten, Sound, PathsDistinct
<1>5. ParentsHold'
    BY DEF Sound, ParentsHold
<1> SUFFICES ASSUME NEW apart, apart = ids \ {id}
             PROVE  Only(apart, {})'
    BY <1>3, <1>4, <1>5 DEF TableOK
<1>6. ASSUME NEW row \in (Visible' \cup DOMAIN table') \ apart
      PROVE  Agrees(row)'
    <2>1. CASE row = id
        <3>1. Live(id)' /\ InFolder(id, table[id].path)' /\ Fits(id, table[id].path)'
            BY <1>1 DEF Live, InFolder, Fits, RowWritten, Below
        <3> QED
            BY <2>1, <3>1 DEF Agrees, InSpace, RowWritten
    <2>2. CASE row # id
        <3>1. row \in (Visible \cup DOMAIN table) \ ids
            BY <1>6, <2>2 DEF Visible, Live, RowWritten
        <3>2. Agrees(row) /\ row \in DOMAIN table /\ row \in DOMAIN table' /\ table'[row] = table[row]
            BY <2>2, <3>1 DEF Only, RowWritten, Agrees, InSpace
        <3>3. PICK p, parent : p = table[row].path /\ parent = remote[row].parent
            OBVIOUS
        <3>4. Below(p, parent)
            BY <3>2, <3>3 DEF Agrees, InSpace, Fits
        <3>5. parent # Root => parent \in DOMAIN table' /\ table'[parent].path = table[parent].path
            BY <3>4, FoldersStand
        <3>6. InSpace(row)'
            BY <3>2, <3>3, <3>5, SpaceStays DEF Agrees
        <3>7. InFolder(row, table[row].path)'
            BY <3>2 DEF Agrees, InFolder
        <3> QED
            BY <3>6, <3>7 DEF Agrees
    <2> QED
        BY <2>1, <2>2
<1>7. ASSUME NEW p \in DOMAIN disk'
      PROVE  \E row \in DOMAIN table' \ apart : table'[row].path = p
    <2>1. CASE p = path
        BY <2>1 DEF RowWritten
    <2>2. CASE p # path
        <3>1. PICK row \in DOMAIN table \ ids : table[row].path = p
            BY <2>2 DEF Only
        <3> QED
            BY <3>1 DEF RowWritten
    <2> QED
        BY <2>1, <2>2
<1> QED
    BY <1>6, <1>7 DEF Only

(* Nothing is below a file. *)
LEMMA FileAlone ==
    ASSUME Sound, NEW id \in DOMAIN table, remote[id].type = "file"
    PROVE  RowsUnder(table[id].path) = {id}
<1>1. DirectChildren(table, id) = {}
    BY RowFacts DEF Sound, DirectChildren, ColumnsNested, Below
<1>2. Closed(table, {id})
    BY <1>1 DEF Closed
<1>3. \A known \in Subtree(table, id) : known = id
    BY <1>1, <1>2 DEF Subtree
<1>4. \A known \in DOMAIN table : known \in Subtree(table, id) <=> IsPrefix(table[id].path, table[known].path)
    BY SubtreeIs DEF Sound
<1>5. IsPrefix(table[id].path, table[id].path)
    BY RowFacts, PrefixOrder DEF Sound
<1> QED
    BY <1>3, <1>4, <1>5 DEF RowsUnder

LEMMA ForgetsRows ==
    ASSUME Sound, UNCHANGED <<remote, disk>>, NEW id \in DOMAIN table,
           table' = ForgotWithChildren(table, id), NEW rows, rows = RowsUnder(table[id].path)
    PROVE  /\ DOMAIN table' = DOMAIN table \ rows /\ id \in rows
           /\ \A row \in DOMAIN table' :
                 /\ table'[row] = table[row]
                 /\ table[row].parent \in DOMAIN table => table[row].parent \in DOMAIN table'
           /\ \A row \in DOMAIN table' : InSpace(row) => InSpace(row)'
           /\ TableOK'
<1>1. /\ DOMAIN table' = DOMAIN table \ rows
      /\ \A row \in DOMAIN table' : table'[row] = table[row]
    BY SubtreeIs DEF Sound, ForgotWithChildren, RowsUnder
<1>2. id \in rows
    BY RowFacts, PrefixOrder DEF Sound, RowsUnder
<1>3. \A row \in DOMAIN table' : table[row].parent \in DOMAIN table
                                    => table[row].parent \in DOMAIN table'
    BY SubtreeClosed DEF ForgotWithChildren, DirectChildren
<1>4. ASSUME NEW row \in DOMAIN table', InSpace(row)
      PROVE  InSpace(row)'
    <2>1. remote[row].parent # Root => remote[row].parent \in DOMAIN table
        BY <1>4 DEF InSpace, Fits, Below
    <2>2. table[row].parent = remote[row].parent
        BY <1>4 DEF InSpace
    <2> QED
        BY <1>1, <1>3, <1>4, <2>1, <2>2, SpaceStays
<1>5. \A row \in DOMAIN table' : Below(table[row].path, table[row].parent)'
    <2>1. \A row \in DOMAIN table' : table[row].parent # Root => table[row].parent \in DOMAIN table
        BY <1>1 DEF Sound, ColumnsNested, Below
    <2> QED
        BY <1>1, <1>3, <2>1, NestedStays DEF Sound
<1>6. TableOK'
    BY <1>1, <1>5 DEF TableOK, ColumnsNested, PathsDistinct, Sound, ParentsHold
<1> QED
    BY <1>1, <1>2, <1>3, <1>4, <1>6

LEMMA OnlyForgotten ==
    ASSUME Sound, UNCHANGED <<remote, disk>>, NEW id \in DOMAIN table,
           table' = ForgotWithChildren(table, id), NEW rows, rows = RowsUnder(table[id].path),
           NEW ids, NEW paths, Only(ids, paths), rows \subseteq ids, \A row \in rows : ~Live(row)
    PROVE  \A apart : apart = ids \ rows => Only(apart, paths)'
<1> SUFFICES ASSUME NEW apart, apart = ids \ rows
             PROVE  Only(apart, paths)'
    OBVIOUS
<1>1. /\ DOMAIN table' = DOMAIN table \ rows
      /\ \A row \in DOMAIN table' : table'[row] = table[row]
      /\ \A row \in DOMAIN table' : InSpace(row) => InSpace(row)'
    BY ForgetsRows
<1>2. ASSUME NEW row \in (Visible' \cup DOMAIN table') \ apart
      PROVE  Agrees(row)'
    <2>1. row \in (Visible \cup DOMAIN table) \ ids
        BY <1>1, <1>2 DEF Visible, Live
    <2>2. InSpace(row) /\ row \in DOMAIN table /\ row \notin rows /\ InFolder(row, table[row].path)
        BY <2>1 DEF Only, Agrees, InSpace
    <2>3. InSpace(row)' /\ InFolder(row, table[row].path)'
        BY <1>1, <2>2 DEF InFolder
    <2> QED
        BY <2>3 DEF Agrees
<1>3. \A p \in DOMAIN disk' \ paths : \E row \in DOMAIN table' \ apart : table'[row].path = p
    BY <1>1 DEF Only
<1> QED
    BY <1>2, <1>3 DEF Only

(* The modification of an addition, *)
LEMMA AddsRow ==
    ASSUME Sound, UNCHANGED <<remote, disk>>, NEW id, Lacking(id), NEW path, Placed(id, path)
    PROVE  \A c : c.change = "Add" /\ c.id = id /\ c.path = path /\ c.parent = remote[id].parent =>
              /\ Accepted(table, c)
              /\ table' = Changed(table, c) => TableOK' /\ Only({}, {})'
<1> SUFFICES ASSUME NEW c, c.change = "Add", c.id = id, c.path = path, c.parent = remote[id].parent
             PROVE  /\ Accepted(table, c)
                    /\ table' = Changed(table, c) => TableOK' /\ Only({}, {})'
    OBVIOUS
<1>1. /\ id \in DOMAIN remote /\ Live(id) /\ Only({id}, {path}) /\ InFolder(id, path)
      /\ id \notin DOMAIN table /\ remote[id].parent # id
    BY DEF Lacking, Placed, Live
<1>2. path \in Path /\ Fits(id, path)
    BY RowFacts DEF Sound, TreeOK, Placed, InFolder
<1>3. \A row \in DOMAIN table \ {id} : table[row].path # path
    BY <1>1, <1>2, FreePlace
<1>4. Accepted(table, c)
    BY <1>1, <1>3 DEF Accepted, AddAccepted
<1>5. ASSUME table' = Changed(table, c)
      PROVE  TableOK' /\ Only({}, {})'
    <2>1. RowWritten(id, path)
        BY <1>1, <1>5 DEF Changed, Added, RowWritten
    <2>2. {} = {id} \ {id} /\ id \in {id}
        OBVIOUS
    <2> QED
        BY <1>1, <1>2, <1>3, <2>1, <2>2, WritesRow
<1> QED
    BY <1>4, <1>5

(* and that of an update. *)
LEMMA UpdatesRow ==
    ASSUME Sound, UNCHANGED <<remote, disk>>, NEW id, Turning(id), NEW path, Placed(id, path)
    PROVE  \A c : c.change = "Update" /\ c.id = id /\ c.name = remote[id].name
                    /\ c.parent = remote[id].parent =>
              /\ Accepted(table, c)
              /\ table' = Changed(table, c) => TableOK' /\ Only({}, {})'
<1> SUFFICES ASSUME NEW c, c.change = "Update", c.id = id, c.name = remote[id].name,
                    c.parent = remote[id].parent
             PROVE  /\ Accepted(table, c)
                    /\ table' = Changed(table, c) => TableOK' /\ Only({}, {})'
    OBVIOUS
<1>1. /\ id \in DOMAIN remote /\ Live(id) /\ Only({id}, {path}) /\ InFolder(id, path)
      /\ id \in DOMAIN table /\ remote[id].parent # id /\ remote[id].type = "file"
    BY NotOwnParent DEF Turning, Placed, Live
<1>2. /\ path \in Path /\ Fits(id, path) /\ HasRemotePath(remote[id].parent)
      /\ path = RemotePath(remote[id])
    <2>1. path \in Path /\ Fits(id, path)
        BY RowFacts DEF Sound, TreeOK, Placed, InFolder
    <2> QED
        BY <1>1, <2>1, FitsIsPlace DEF Sound, Place
<1>3. UpdatedPath(table, c) = path
    BY <1>2 DEF UpdatedPath, RemotePath, HasRemotePath
<1>4. \A row \in DOMAIN table \ {id} : table[row].path # path
    BY <1>1, <1>2, FreePlace
<1>5. Accepted(table, c)
    BY <1>1, <1>3, <1>4 DEF Accepted, UpdateAccepted
<1>6. ASSUME table' = Changed(table, c)
      PROVE  TableOK' /\ Only({}, {})'
    <2>1. RowWritten(id, path)
        BY <1>1, <1>3, <1>6 DEF Changed, Updated, RowWritten
    <2>2. {} = {id} \ {id} /\ id \in {id}
        OBVIOUS
    <2> QED
        BY <1>1, <1>2, <1>4, <2>1, <2>2, WritesRow
<1> QED
    BY <1>5, <1>6

-------------------------------------------------------------------------------
(***************************************************************************)
(* What the operator told, and expects to hear of.                         *)
(***************************************************************************)
LEMMA EchoesStay ==
    ASSUME UNCHANGED <<remote, disk>>, ignored \subseteq ignored', NEW queue
    PROVE  /\ Expected(queue) => Expected(queue)'
           /\ Echoes(queue) => Echoes(queue)'
BY DEF Expected, Echoes, Again, Live, IsFile, Exists

LEMMA ExpectedEchoes ==
    ASSUME NEW M, NEW queue \in Seq(M), Expected(queue)
    PROVE  Echoes(queue)
BY DEF Expected, Echoes

LEMMA EchoTaken ==
    ASSUME UNCHANGED <<remote, disk>>, NEW M, NEW queue \in Seq(M), queue # <<>>,
           ignored' = ignored \ {Head(queue).event}, NEW rest, rest = Tail(queue)
    PROVE  /\ Expected(queue) => Expected(rest)'
           /\ Echoes(queue) => Echoes(rest)'
<1>1. /\ Len(queue) \in Nat \ {0} /\ DOMAIN queue = 1..Len(queue)
      /\ Len(rest) = Len(queue) - 1 /\ DOMAIN rest = 1..(Len(queue) - 1)
      /\ \A k \in DOMAIN rest : rest[k] = queue[k + 1] /\ k + 1 \in DOMAIN queue
      /\ Head(queue) = queue[1] /\ 1 \in DOMAIN queue
    OBVIOUS
<1>2. ASSUME Expected(queue)
      PROVE  Expected(rest)'
    BY <1>1, <1>2 DEF Expected
<1>3. ASSUME Echoes(queue)
      PROVE  Echoes(rest)'
    <2>1. \A k \in DOMAIN rest : rest[k].own /\ rest[k].event.kind # "Left"
        BY <1>1, <1>3 DEF Echoes
    <2>2. ASSUME NEW k \in DOMAIN rest
          PROVE  \/ k = Len(rest) /\ Again(rest[k].event)'
                 \/ rest[k].event \in ignored' /\ \A j \in 1..(k - 1) : rest[j].event # rest[k].event
        <3>1. CASE k + 1 = Len(queue) /\ Again(queue[k + 1].event)
            <4>1. k = Len(rest) /\ Again(rest[k].event)
                BY <1>1, <3>1
            <4>2. Again(rest[k].event)'
                BY <4>1 DEF Again, Live, IsFile, Exists
            <4> QED
                BY <4>1, <4>2
        <3>2. CASE /\ queue[k + 1].event \in ignored
                   /\ \A j \in 1..(k + 1 - 1) : queue[j].event # queue[k + 1].event
            <4>1. \A j \in 1..(k - 1) : j \in DOMAIN rest /\ j + 1 \in 1..(k + 1 - 1)
                BY <1>1
            <4>2. 1 \in 1..(k + 1 - 1)
                BY <1>1
            <4> QED
                BY <1>1, <3>2, <4>1, <4>2
        <3> QED
            BY <1>1, <1>3, <3>1, <3>2 DEF Echoes
    <2> QED
        BY <2>1, <2>2 DEF Echoes, Again, Live, IsFile, Exists
<1> QED
    BY <1>2, <1>3

LEMMA EchoUnknown ==
    ASSUME NEW M, NEW queue \in Seq(M), queue # <<>>, Head(queue).event \notin ignored, Echoes(queue)
    PROVE  Len(queue) = 1 /\ Again(Head(queue).event)
<1>1. Head(queue) = queue[1] /\ 1 \in DOMAIN queue
    OBVIOUS
<1> QED
    BY <1>1 DEF Echoes

OneLonger(queue, event, more) ==
    /\ Len(more) = Len(queue) + 1 /\ Len(queue) \in Nat
    /\ DOMAIN queue = 1..Len(queue) /\ DOMAIN more = 1..(Len(queue) + 1)
    /\ \A k \in DOMAIN queue : more[k] = queue[k]
    /\ more[Len(queue) + 1] = [event |-> event, own |-> TRUE]
    /\ queue = <<>> => more = <<[event |-> event, own |-> TRUE]>>

LEMMA OwnOne ==
    ASSUME NEW event
    PROVE  Own(<<event>>) = <<[event |-> event, own |-> TRUE]>>
<1>1. PICK m : m = [event |-> event, own |-> TRUE]
    OBVIOUS
<1>2. Own(<<event>>) \in [1..1 -> {m}]
    <2>1. PICK events : events = <<event>>
        OBVIOUS
    <2>2. DOMAIN events = 1..1 /\ events[1] = event
        BY <2>1
    <2>3. Own(events) = [k \in 1..1 |-> [event |-> events[k], own |-> TRUE]]
        BY <2>2 DEF Own
    <2>4. \A k \in 1..1 : [event |-> events[k], own |-> TRUE] = m
        <3>1. \A k \in 1..1 : k = 1
            OBVIOUS
        <3>2. \A k \in 1..1 : events[k] = event
            BY <2>2, <3>1
        <3> QED
            BY <1>1, <3>2, Zenon
    <2>5. [k \in 1..1 |-> [event |-> events[k], own |-> TRUE]] \in [1..1 -> {m}]
        BY <2>4
    <2> QED
        BY <2>1, <2>3, <2>5
<1> QED
    BY <1>1, <1>2, OneOnly

LEMMA OwnLast ==
    ASSUME NEW M, NEW queue \in Seq(M), NEW event, NEW more, more = queue \o Own(<<event>>)
    PROVE  OneLonger(queue, event, more)
<1>1. PICK m : m = [event |-> event, own |-> TRUE]
    OBVIOUS
<1>2. Own(<<event>>) = <<m>>
    BY <1>1, OwnOne
<1>3. queue \in Seq(M \cup {m}) /\ <<m>> \in Seq(M \cup {m})
    BY SeqMonotonic
<1>4. more = queue \o <<m>>
    BY <1>2
<1>5. queue = <<>> => more = <<m>>
    BY <1>3, <1>4
<1>6. /\ Len(more) = Len(queue) + 1 /\ Len(queue) \in Nat
      /\ DOMAIN queue = 1..Len(queue) /\ DOMAIN more = 1..(Len(queue) + 1)
      /\ \A k \in DOMAIN queue : more[k] = queue[k]
      /\ more[Len(queue) + 1] = m
    BY <1>3, <1>4
<1> QED
    BY <1>1, <1>5, <1>6 DEF OneLonger

LEMMA OneMoreExpected ==
    ASSUME NEW M, NEW queue \in Seq(M), Expected(queue), NEW event, NEW more,
           more = queue \o Own(<<event>>), event.kind # "Left",
           ignored \subseteq ignored', event \in ignored',
           \A k \in DOMAIN queue : queue[k].event # event
    PROVE  Expected(more)' /\ Echoes(more)'
<1>0. OneLonger(queue, event, more)
    BY OwnLast
<1>1. /\ Len(more) = Len(queue) + 1 /\ Len(queue) \in Nat
      /\ DOMAIN queue = 1..Len(queue) /\ DOMAIN more = 1..(Len(queue) + 1)
      /\ \A k \in DOMAIN queue : more[k] = queue[k]
      /\ more[Len(queue) + 1] = [event |-> event, own |-> TRUE]
    BY <1>0 DEF OneLonger
<1>2. \A k \in DOMAIN more : more[k].own /\ more[k].event.kind # "Left" /\ more[k].event \in ignored'
    BY <1>1 DEF Expected
<1>3. \A j, k \in DOMAIN more : more[j].event = more[k].event => j = k
    BY <1>1 DEF Expected
<1>4. Expected(more)'
    BY <1>2, <1>3 DEF Expected
<1>5. \A k \in DOMAIN more : \A j \in 1..(k - 1) : j \in DOMAIN more /\ j # k
    BY <1>1
<1>6. Echoes(more)'
    BY <1>2, <1>3, <1>5 DEF Echoes
<1> QED
    BY <1>4, <1>6

LEMMA OneMoreAgain ==
    ASSUME NEW M, NEW queue \in Seq(M), Expected(queue), NEW event, NEW more,
           more = queue \o Own(<<event>>), event.kind # "Left",
           ignored \subseteq ignored', Again(event)'
    PROVE  Echoes(more)'
<1>0. OneLonger(queue, event, more)
    BY OwnLast
<1>1. /\ Len(more) = Len(queue) + 1 /\ Len(queue) \in Nat
      /\ DOMAIN queue = 1..Len(queue) /\ DOMAIN more = 1..(Len(queue) + 1)
      /\ \A k \in DOMAIN queue : more[k] = queue[k]
      /\ more[Len(queue) + 1] = [event |-> event, own |-> TRUE]
    BY <1>0 DEF OneLonger
<1>2. \A k \in DOMAIN more : more[k].own /\ more[k].event.kind # "Left"
    BY <1>1 DEF Expected
<1>3. ASSUME NEW k \in DOMAIN queue
      PROVE  more[k].event \in ignored' /\ \A j \in 1..(k - 1) : more[j].event # more[k].event
    <2>1. more[k].event \in ignored'
        BY <1>1 DEF Expected
    <2>2. \A j \in 1..(k - 1) : j \in DOMAIN queue /\ j # k
        BY <1>1
    <2> QED
        BY <1>1, <2>1, <2>2 DEF Expected
<1>4. Len(more) = Len(queue) + 1 /\ more[Len(queue) + 1].event = event
    BY <1>1
<1>5. \A k \in DOMAIN more : k = Len(queue) + 1 \/ k \in DOMAIN queue
    BY <1>1
<1>6. ASSUME NEW k \in DOMAIN more, k = Len(queue) + 1
      PROVE  k = Len(more) /\ Again(more[k].event)'
    BY <1>4, <1>6 DEF Again, Live, IsFile, Exists
<1> QED
    BY <1>2, <1>3, <1>5, <1>6 DEF Echoes, Again, Live, IsFile, Exists

(* What removals are expected. *)
NoRemoval(events) == \A event \in events : ~(event.src = "local" /\ event.kind = "Deleted")

LEMMA RemovalsKept ==
    ASSUME RemovalsPending, NEW news, ignored' = ignored \cup news, NoRemoval(news),
           NEW M, notified \in Seq(M),
           notified' = notified \/ \E more \in Seq(M) : notified' = notified \o more
    PROVE  RemovalsPending'
<1>1. \A k \in DOMAIN notified : k \in DOMAIN notified' /\ notified'[k] = notified[k]
    <2>1. CASE notified' = notified
        BY <2>1
    <2>2. CASE \E more \in Seq(M) : notified' = notified \o more
        <3>1. PICK q \in Seq(M), more \in Seq(M) : q = notified /\ notified' = q \o more
            BY <2>2
        <3>2. \A k \in DOMAIN q : k \in DOMAIN (q \o more) /\ (q \o more)[k] = q[k]
            OBVIOUS
        <3> QED
            BY <3>1, <3>2
    <2> QED
        BY <2>1, <2>2
<1> QED
    BY <1>1 DEF RemovalsPending, NoRemoval

-------------------------------------------------------------------------------
(* What a step leaves calm. *)
GoesOn == TableOK' /\ (job'.at = "failed" \/ Calm')

Midway == {"start", "write", "move", "fill", "get", "trash", "replace", "again", "stat"}

LEMMA TableStays ==
    ASSUME Sound, UNCHANGED <<table, remote>>
    PROVE  TableOK'
BY DEF Sound, TableOK, ParentsHold, ColumnsNested, PathsDistinct, Below

LEMMA SidesStay ==
    ASSUME Sound, UNCHANGED <<remote, disk>>
    PROVE  Alone' /\ FoldersPlain'
BY DEF Sound, Alone, FoldersPlain, Visible, Live

LEMMA JobFacts ==
    ASSUME Sound
    PROVE  /\ IsJob(job) /\ Inv
           /\ tlm \in Seq(Message(RemoteEvents(DOMAIN remote))) /\ notified \in Seq(Message(LocalEvents))
BY DEF Sound, Inv, JobOK, JobIn, UsersOK, SidesOK, TlmOK, NotifiedOK

LEMMA FailsCalm ==
    ASSUME Sound, UNCHANGED <<table, remote>>, NEW error, Fail(error)
    PROVE  GoesOn
<1>1. job'.at = "failed"
    BY JobFacts DEF IsJob, Fail
<1> QED
    BY <1>1, TableStays DEF GoesOn

LEMMA HandGoes ==
    ASSUME TableOK', Alone', FoldersPlain', RemovalsPending', job'.at \in Midway, OnHand'
    PROVE  GoesOn
BY DEF GoesOn, Calm, BetweenEvents, Midway

(* Only the job, and maybe what it expects. *)
LEMMA JobGoesOn ==
    ASSUME Sound, UNCHANGED <<table, remote, disk, tlm, notified, ignored>>, job'.at \in Midway, OnHand'
    PROVE  GoesOn
<1>1. RemovalsPending'
    BY DEF Sound, RemovalsPending
<1> QED
    BY <1>1, TableStays, SidesStay, HandGoes

LEMMA RestGoes ==
    ASSUME TableOK', Alone', FoldersPlain', RemovalsPending', BetweenEvents', AtEase'
    PROVE  GoesOn
BY DEF GoesOn, Calm

LEMMA RecordGoes ==
    ASSUME TableOK', Alone', FoldersPlain', RemovalsPending', job'.at = "apply", job'.changes # <<>>,
           Recording'
    PROVE  GoesOn
BY DEF GoesOn, Calm, BetweenEvents

LEMMA LastDone ==
    ASSUME Sound, Len(job.todo) = 1, job.changes = <<>>, NEW changes, changes \o <<>> = changes,
           <<>> \o changes = changes, Done(changes)
    PROVE  job'.at = "apply" /\ job'.changes = changes
<1>1. job'.at = "apply" /\ job'.changes = <<>> \o changes
    BY JobFacts DEF IsJob, Done
<1> QED
    BY <1>1

LEMMA OneChange ==
    ASSUME NEW c, job'.changes = <<c>>, (RecordsAdd(c) \/ RecordsUpdate(c) \/ RecordsForgot(c))'
    PROVE  Recording' /\ job'.changes # <<>>
<1>1. Len(<<c>>) = 1 /\ <<c>>[1] = c /\ <<c>> # <<>>
    OBVIOUS
<1> QED
    BY <1>1 DEF Recording

(* What the job is about. *)
LEMMA HandIs ==
    ASSUME Sound, Calm, NEW executor, NEW point \in Midway, At(executor, point)
    PROVE  /\ Len(job.todo) = 1 /\ job.changes = <<>> /\ job.at = point
           /\ executor = "PresentOnDisk" => \E id \in DOMAIN remote :
                 Bringing(id) /\ Now.id = id /\ job.todo = <<OnId("PresentOnDisk", id)>>
           /\ executor = "UpdatedOnDisk" => \E id \in DOMAIN remote :
                 Refreshing(id) /\ Now.id = id /\ job.todo = <<OnId("UpdatedOnDisk", id)>>
           /\ executor = "AbsentFromDisk" => \E id \in DOMAIN remote :
                 Clearing(id) /\ Now.id = id
           /\ executor = "CreatedOnRemote" => \E path \in DOMAIN disk :
                 Sharing(path) /\ Now.path = path /\ job.todo = <<OnPath("CreatedOnRemote", path)>>
           /\ executor = "ModifiedOnRemote" => \E path \in DOMAIN disk :
                 Saving(path) /\ Now.path = path /\ job.todo = <<OnPath("ModifiedOnRemote", path)>>
           /\ executor = "NamedOnRemote" => \E from \in Columns, to \in DOMAIN disk :
                 /\ Relocating(from, to) /\ Now.path = from /\ Now.after = to
                 /\ job.todo = <<OnRename(from, to)>>
           /\ executor = "AbsentFromRemote" => \E path :
                 Discarding(path) /\ Now.path = path /\ job.todo = <<OnPath("AbsentFromRemote", path)>>
<1>1. job.at = point /\ Now.ex = executor /\ OnHand
    BY DEF At, Calm, BetweenEvents, Midway, Now
<1>2. \A goal : job.todo = <<goal>> => Len(job.todo) = 1 /\ Now = goal
    BY DEF Now
<1>3. CASE \E id \in DOMAIN remote : job.todo = <<OnId("PresentOnDisk", id)>> /\ Bringing(id)
    <2>1. PICK id \in DOMAIN remote : job.todo = <<OnId("PresentOnDisk", id)>> /\ Bringing(id)
        BY <1>3
    <2>2. Now = OnId("PresentOnDisk", id) /\ Len(job.todo) = 1
        BY <1>2, <2>1
    <2>3. Now.id = id /\ executor = "PresentOnDisk"
        BY <1>1, <2>2 DEF OnId
    <2> QED
        BY <1>1, <2>1, <2>2, <2>3 DEF OnHand
<1>4. CASE \E id \in DOMAIN remote : job.todo = <<OnId("UpdatedOnDisk", id)>> /\ Refreshing(id)
    <2>1. PICK id \in DOMAIN remote : job.todo = <<OnId("UpdatedOnDisk", id)>> /\ Refreshing(id)
        BY <1>4
    <2>2. Now = OnId("UpdatedOnDisk", id) /\ Len(job.todo) = 1
        BY <1>2, <2>1
    <2>3. Now.id = id /\ executor = "UpdatedOnDisk"
        BY <1>1, <2>2 DEF OnId
    <2> QED
        BY <1>1, <2>1, <2>2, <2>3 DEF OnHand
<1>5. CASE \E id \in DOMAIN remote : job.todo = <<OnId("AbsentFromDisk", id)>> /\ Clearing(id)
    <2>1. PICK id \in DOMAIN remote : job.todo = <<OnId("AbsentFromDisk", id)>> /\ Clearing(id)
        BY <1>5
    <2>2. Now = OnId("AbsentFromDisk", id) /\ Len(job.todo) = 1
        BY <1>2, <2>1
    <2>3. Now.id = id /\ executor = "AbsentFromDisk"
        BY <1>1, <2>2 DEF OnId
    <2> QED
        BY <1>1, <2>1, <2>2, <2>3 DEF OnHand
<1>6. CASE \E path \in DOMAIN disk : job.todo = <<OnPath("CreatedOnRemote", path)>> /\ Sharing(path)
    <2>1. PICK path \in DOMAIN disk : job.todo = <<OnPath("CreatedOnRemote", path)>> /\ Sharing(path)
        BY <1>6
    <2>2. Now = OnPath("CreatedOnRemote", path) /\ Len(job.todo) = 1
        BY <1>2, <2>1
    <2>3. Now.path = path /\ executor = "CreatedOnRemote"
        BY <1>1, <2>2 DEF OnPath
    <2> QED
        BY <1>1, <2>1, <2>2, <2>3 DEF OnHand
<1>7. CASE \E path \in DOMAIN disk : job.todo = <<OnPath("ModifiedOnRemote", path)>> /\ Saving(path)
    <2>1. PICK path \in DOMAIN disk : job.todo = <<OnPath("ModifiedOnRemote", path)>> /\ Saving(path)
        BY <1>7
    <2>2. Now = OnPath("ModifiedOnRemote", path) /\ Len(job.todo) = 1
        BY <1>2, <2>1
    <2>3. Now.path = path /\ executor = "ModifiedOnRemote"
        BY <1>1, <2>2 DEF OnPath
    <2> QED
        BY <1>1, <2>1, <2>2, <2>3 DEF OnHand
<1>8. CASE \E from \in Columns, to \in DOMAIN disk :
             job.todo = <<OnRename(from, to)>> /\ Relocating(from, to)
    <2>1. PICK from \in Columns, to \in DOMAIN disk :
             job.todo = <<OnRename(from, to)>> /\ Relocating(from, to)
        BY <1>8
    <2>2. Now = OnRename(from, to) /\ Len(job.todo) = 1
        BY <1>2, <2>1
    <2>3. Now.path = from /\ Now.after = to /\ executor = "NamedOnRemote"
        BY <1>1, <2>2 DEF OnRename
    <2> QED
        BY <1>1, <2>1, <2>2, <2>3 DEF OnHand
<1>9. CASE \E path \in {Now.path} :
                job.todo = <<OnPath("AbsentFromRemote", path)>> /\ Discarding(path)
    <2>1. PICK path : job.todo = <<OnPath("AbsentFromRemote", path)>> /\ Discarding(path)
        BY <1>9
    <2>2. Now = OnPath("AbsentFromRemote", path) /\ Len(job.todo) = 1
        BY <1>2, <2>1
    <2>3. Now.path = path /\ executor = "AbsentFromRemote"
        BY <1>1, <2>2 DEF OnPath
    <2> QED
        BY <1>1, <2>1, <2>2, <2>3 DEF OnHand
<1> QED
    BY <1>1, <1>3, <1>4, <1>5, <1>6, <1>7, <1>8, <1>9 DEF OnHand

(* The next step of an executor. *)
LEMMA StepsOn ==
    ASSUME Sound, UNCHANGED <<table, remote, disk>>, NEW id, NEW path
    PROVE  /\ Lacking(id)' = Lacking(id) /\ Turning(id)' = Turning(id)
           /\ ReadyPresent(id)' = ReadyPresent(id) /\ ReadyUpdated(id)' = ReadyUpdated(id)
           /\ InFolder(id, path)' = InFolder(id, path) /\ InSpace(id)' = InSpace(id)
           /\ IsFile(path)' = IsFile(path) /\ Place(id)' = Place(id)
<1>1. Lacking(id)' = Lacking(id) /\ Turning(id)' = Turning(id) /\ InSpace(id)' = InSpace(id)
      /\ Place(id)' = Place(id)
    BY SamePlacing
<1>2. InFolder(id, path)' = InFolder(id, path) /\ IsFile(path)' = IsFile(path)
    BY DEF InFolder, IsFile, Exists
<1>3. \A ids, paths : Only(ids, paths)' = Only(ids, paths)
    BY DEF Only, Agrees, InSpace, InFolder, Live, Fits, Below, Visible
<1> QED
    BY <1>1, <1>2, <1>3 DEF ReadyPresent, ReadyUpdated, IsFile, Exists

-------------------------------------------------------------------------------
(***************************************************************************)
(* Downloads.                                                              *)
(***************************************************************************)
(* A content that is missing here. *)
LEMMA LackingPlace ==
    ASSUME Sound, NEW id \in DOMAIN remote, Lacking(id), NEW paths, Only({id}, paths)
    PROVE  /\ HasRemotePath(remote[id].parent) /\ Place(id) \in Path /\ Fits(id, Place(id))
           /\ Live(id) /\ remote[id].status = "live"
           /\ remote[id].parent # Root => Agrees(remote[id].parent)
<1>1. remote[id].parent \in DOMAIN table \cup {Root} /\ (remote[id].parent # Root => Agrees(remote[id].parent))
    BY ParentRow DEF Lacking
<1> QED
    BY <1>1, PlaceFits DEF Sound, Lacking, Live

LEMMA FetchCreatedCalm ==
    ASSUME Sound, Calm, Faults = {}, FetchCreated
    PROVE  GoesOn
<1>1. /\ At("PresentOnDisk", "start") /\ UNCHANGED <<table, remote, disk, tlm, notified, ignored>>
    BY DEF FetchCreated, Sys, world
<1>2. PICK id \in DOMAIN remote :
        /\ Bringing(id) /\ Now.id = id /\ job.todo = <<OnId("PresentOnDisk", id)>>
        /\ job.at = "start" /\ job.changes = <<>>
    BY <1>1, HandIs DEF Midway
<1>3. Silent /\ ReadyPresent(id)
    BY <1>2 DEF Bringing, Brings
<1>4. HasRemotePath(remote[id].parent) /\ remote[id].status = "live"
    BY <1>3, LackingPlace DEF ReadyPresent
<1>5. job' = [job EXCEPT !.at = "write", !.got = remote[id]]
    BY <1>2, <1>4 DEF FetchCreated, Fetch, Broken
<1>6. job'.at = "write" /\ job'.got = remote'[id] /\ job'.todo = job.todo /\ job'.changes = <<>>
    BY <1>1, <1>2, <1>5, JobFacts DEF IsJob
<1>7. ReadyPresent(id)' /\ Silent'
    BY <1>1, <1>3, StepsOn DEF Silent
<1>8. Bringing(id)'
    BY <1>6, <1>7 DEF Bringing
<1>9. job'.todo # <<>> /\ id \in DOMAIN remote'
    BY <1>1, <1>2, <1>6
<1> QED
    BY <1>1, <1>2, <1>6, <1>8, <1>9, JobGoesOn DEF OnHand, Midway

(* What stands above the place of a content is a folder that agrees. *)
LEMMA PlaceParent ==
    ASSUME Sound, NEW id \in DOMAIN remote, remote[id].parent # Root => Agrees(remote[id].parent),
           NEW path \in Path, Fits(id, path)
    PROVE  ParentIsDir(path) /\ \A p \in Ancestors(path) : IsDir(p)
<1>1. ParentIsDir(path)
    <2>1. CASE remote[id].parent = Root
        BY <2>1 DEF Fits, Below, ParentIsDir
    <2>2. CASE remote[id].parent # Root
        <3>1. PICK parent : parent = remote[id].parent
            OBVIOUS
        <3>2. parent \in DOMAIN table /\ remote[parent].type = "folder" /\ Front(path) = table[parent].path
              /\ InFolder(parent, table[parent].path)
            BY <2>2, <3>1 DEF Fits, Below, Agrees
        <3> QED
            BY <3>2 DEF InFolder, ParentIsDir, IsDir, Exists
    <2> QED
        BY <2>1, <2>2
<1>2. ASSUME NEW p \in Ancestors(path)
      PROVE  IsDir(p)
    <2>1. p \in Path /\ IsPrefix(p, path) /\ p # path
        BY AncestorsAre
    <2>2. Len(path) # 1 /\ IsPrefix(p, Front(path)) /\ Front(path) \in Path
        BY <2>1, FrontPrefix
    <2>3. Front(path) \in DOMAIN disk /\ disk[Front(path)].type = "folder"
        BY <1>1, <2>2 DEF ParentIsDir, IsDir, Exists
    <2> QED
        BY <2>1, <2>2, <2>3 DEF Sound, Rooted, IsDir, Exists
<1> QED
    BY <1>1, <1>2

(* The place of a missing content is free. *)
LEMMA LackingFree ==
    ASSUME Sound, NEW id \in DOMAIN remote, Lacking(id), Only({id}, {}), NEW path \in Path, Fits(id, path)
    PROVE  path \notin DOMAIN disk
<1> SUFFICES ASSUME path \in DOMAIN disk PROVE FALSE
    OBVIOUS
<1>1. PICK row \in DOMAIN table \ {id} : table[row].path = path
    BY DEF Only
<1> QED
    BY <1>1, FreePlace DEF Lacking

(* What is expected of one event. *)
LEMMA OneEcho ==
    ASSUME NEW event, event.kind # "Left", event \in ignored', NEW queue, queue = Own(<<event>>)
    PROVE  Expected(queue)' /\ Echoes(queue)' /\ queue = <<[event |-> event, own |-> TRUE]>>
<1>1. queue = <<[event |-> event, own |-> TRUE]>>
    BY OwnOne
<1>2. /\ DOMAIN queue = {1} /\ queue[1].own /\ queue[1].event = event /\ Len(queue) = 1
      /\ \A j : j \notin 1..(1 - 1)
    BY <1>1
<1> QED
    BY <1>1, <1>2 DEF Expected, Echoes

LEMMA EventKinds ==
    ASSUME NEW path, NEW kind
    PROVE  /\ LocalEvent(kind, path).kind = kind /\ LocalEvent(kind, path).src = "local"
           /\ LocalEvent(kind, path).path = path /\ LocalEvent(kind, path).stored = path
BY DEF LocalEvent

LEMMA WriteCreatedCalm ==
    ASSUME Sound, Calm, Faults = {}, WriteCreated, Inv'
    PROVE  GoesOn
<1>1. At("PresentOnDisk", "write") /\ UNCHANGED <<table, remote, tlm>>
    BY DEF WriteCreated, Sys
<1>2. PICK id \in DOMAIN remote :
        /\ Bringing(id) /\ job.todo = <<OnId("PresentOnDisk", id)>>
        /\ job.at = "write" /\ job.changes = <<>>
    BY <1>1, HandIs DEF Midway
<1>3. Silent /\ ReadyPresent(id) /\ job.got = remote[id]
    BY <1>2 DEF Bringing, Brings
<1>4. PICK path \in Path : path = Place(id)
    BY <1>3, LackingPlace DEF ReadyPresent
<1>5. Fits(id, path) /\ Lacking(id) /\ Live(id) /\ Only({id}, {}) /\ RemotePath(job.got) = path
      /\ (remote[id].parent # Root => Agrees(remote[id].parent))
    BY <1>3, <1>4, LackingPlace DEF ReadyPresent, Place
<1>6. path \notin DOMAIN disk /\ ParentIsDir(path) /\ \A p \in Ancestors(path) : IsDir(p)
    BY <1>5, LackingFree, PlaceParent
<1>7. CASE \E error : Fail(error)
    BY <1>1, <1>7, FailsCalm
<1> DEFINE Writes(entry, point) ==
        /\ disk' = With(path, entry) /\ notified' = Own(<<LocalEvent("Created", path)>>)
        /\ job' = [job EXCEPT !.at = point]
        /\ \E news : /\ ignored' = ignored \cup news /\ LocalEvent("Created", path) \in news
                     /\ NoRemoval(news)
<1>8. ASSUME NEW entry, NEW point, Writes(entry, point),
             entry.type = "folder" => entry.bytes = NoBytes, point \in {"fill", "stat"},
             entry.type = remote[id].type,
             point = "fill" => entry.type = "file",
             point = "stat" => entry.type = "folder"
      PROVE  GoesOn
    <2>1. /\ job'.at = point /\ job'.got = remote'[id] /\ job'.todo = job.todo /\ job'.changes = <<>>
          /\ tlm' = <<>>
        BY <1>1, <1>2, <1>3, <1>8, JobFacts DEF IsJob, Silent
    <2>2. /\ path \in DOMAIN disk' /\ disk'[path] = entry
          /\ \A other \in DOMAIN disk : other # path => other \in DOMAIN disk' /\ disk'[other] = disk[other]
          /\ \A other \in DOMAIN disk' : other # path => other \in DOMAIN disk
        BY <1>8 DEF With
    <2>3. Only({id}, {path})'
        <3>1. \A other \in {} : other = path
            OBVIOUS
        <3> QED
            BY <1>1, <1>5, <2>2, OnlyWritten
    <2>4. Lacking(id)' /\ Place(id)' = path
        BY <1>1, <1>4, <1>5, SamePlacing
    <2>5. TableOK' /\ Alone' /\ FoldersPlain'
        BY <1>1, <1>8, <2>2, DiskEdited DEF Sound, FoldersPlain
    <2>6. PICK queue : queue = Own(<<LocalEvent("Created", path)>>)
        OBVIOUS
    <2>7. Expected(queue)' /\ Echoes(queue)' /\ notified' = queue
        BY <1>8, <2>6, OneEcho, EventKinds
    <2>8. Expected(notified)' /\ Echoes(notified)'
        BY <2>7 DEF Expected, Echoes, Again, Live, IsFile, Exists
    <2>9. point = "stat" => InFolder(id, path)'
        BY <1>1, <1>8, <2>2 DEF InFolder
    <2>10. point = "fill" => IsFile(path)' /\ remote'[id].type = "file"
        BY <1>1, <1>8, <2>2 DEF IsFile, Exists
    <2>11. Brings(id, path)'
        BY <1>8, <2>1, <2>3, <2>4, <2>8, <2>9, <2>10 DEF Brings
    <2>12. Bringing(id)'
        BY <2>2, <2>4, <2>11 DEF Bringing
    <2>13. RemovalsPending'
        <3>1. PICK news : ignored' = ignored \cup news /\ NoRemoval(news)
            BY <1>8
        <3>2. notified = <<>>
            BY <1>3 DEF Silent
        <3> QED
            BY <3>1, <3>2 DEF Sound, RemovalsPending, NoRemoval
    <2>14. job'.todo # <<>> /\ id \in DOMAIN remote'
        BY <1>1, <1>2, <2>1
    <2> QED
        BY <1>2, <1>8, <2>1, <2>5, <2>12, <2>13, <2>14, HandGoes DEF OnHand, Midway
<1>9. CASE remote[id].type = "folder" /\ ~\E error : Fail(error)
    <2>1. WriteFolder(path)
        BY <1>3, <1>5, <1>9 DEF WriteCreated
    <2>2. {p \in Ancestors(path) \cup {path} : ~Exists(p)} = {path}
        BY <1>6 DEF IsDir, Exists
    <2>3. disk' = With(path, Folder)
        <3>1. disk' = [p \in DOMAIN disk \cup {path} |-> IF p \in {path} THEN Folder ELSE disk[p]]
            BY <1>9, <2>1, <2>2 DEF WriteFolder
        <3> QED
            BY <3>1 DEF With
    <2>4. PICK created \in SetToSeqs({path}) :
            notified' = notified \o Own([k \in DOMAIN created |-> LocalEvent("Created", created[k])])
        BY <1>9, <2>1, <2>2 DEF WriteFolder, Notify
    <2>5. [k \in DOMAIN created |-> LocalEvent("Created", created[k])] = <<LocalEvent("Created", path)>>
        <3>1. IsFiniteSet({path}) /\ Cardinality({path}) = 1
            BY FS_Singleton
        <3>2. created \in Seq({path}) /\ DOMAIN created = 1..1
            BY <3>1, OrderType
        <3>3. created[1] = path
            BY <3>2
        <3> QED
            BY <3>2, <3>3
    <2>6. notified' = Own(<<LocalEvent("Created", path)>>)
        <3>1. PICK event : event = LocalEvent("Created", path)
            OBVIOUS
        <3>2. notified' = <<>> \o Own(<<event>>)
            BY <1>3, <2>4, <2>5, <3>1 DEF Silent
        <3>3. <<>> \o Own(<<event>>) = Own(<<event>>)
            BY DEF Own
        <3> QED
            BY <3>1, <3>2, <3>3
    <2>7. Writes(Folder, "stat")
        <3>1. PICK news : /\ ignored' = ignored \cup news
                          /\ news = {LocalEvent("Created", p) : p \in Ancestors(path) \cup {<<>>}}
                                        \cup {LocalEvent("Created", path)}
            BY <1>6, <2>1 DEF WriteFolder, Expect, Exists
        <3>2. LocalEvent("Created", path) \in news /\ \A event \in news : event.kind = "Created"
            BY <3>1, EventKinds
        <3>3. NoRemoval(news)
            BY <3>2 DEF NoRemoval
        <3>4. Goto("stat")
            BY <1>9, <2>1 DEF WriteFolder
        <3> QED
            BY <2>3, <2>6, <3>1, <3>2, <3>3, <3>4 DEF Goto
    <2> HIDE DEF Writes
    <2> QED
        BY <1>8, <1>9, <2>7 DEF Folder
<1>10. CASE remote[id].type # "folder" /\ ~\E error : Fail(error)
    <2>1. WriteFile(path) /\ remote[id].type = "file"
        BY <1>3, <1>5, <1>10, RowFacts DEF WriteCreated, Sound, Content
    <2>2. disk' = With(path, File(NoBytes)) /\ Goto("fill") /\ Notify(Own(WriteEvents(path)))
        BY <1>10, <2>1 DEF WriteFile
    <2>3. notified' = Own(<<LocalEvent("Created", path)>>)
        <3>1. PICK event : event = LocalEvent("Created", path)
            OBVIOUS
        <3>2. notified' = <<>> \o Own(<<event>>)
            BY <1>3, <1>6, <2>2, <3>1 DEF Silent, Notify, WriteEvents, Exists
        <3>3. <<>> \o Own(<<event>>) = Own(<<event>>)
            BY DEF Own
        <3> QED
            BY <3>1, <3>2, <3>3
    <2>4. Writes(File(NoBytes), "fill")
        <3>1. ignored' = ignored \cup {LocalEvent("Created", path)}
            BY <1>6, <2>1 DEF WriteFile, Expect, Exists
        <3>2. NoRemoval({LocalEvent("Created", path)})
            BY EventKinds DEF NoRemoval
        <3> QED
            BY <2>2, <2>3, <3>1, <3>2 DEF Goto
    <2>5. File(NoBytes).type = "file"
        BY DEF File
    <2> HIDE DEF Writes
    <2> QED
        BY <1>8, <2>1, <2>4, <2>5
<1> QED
    BY <1>7, <1>9, <1>10

(* A file that is downloaded. *)
LEMMA FillBrings ==
    ASSUME Sound, UNCHANGED <<table, remote, tlm>>, Faults = {}, NEW id \in DOMAIN remote, Live(id),
           NEW path \in Path, Fits(id, path), Brings(id, path), job.at = "fill",
           NEW echo, Download(id, path, echo), ~\E error : Fail(error)
    PROVE  /\ job'.at = "stat" /\ Brings(id, path)' /\ job'.todo = job.todo
           /\ job'.changes = job.changes /\ path \in DOMAIN disk'
           /\ TableOK' /\ Alone' /\ FoldersPlain' /\ RemovalsPending'
<1>1. /\ job.got = remote[id] /\ tlm = <<>> /\ path = Place(id) /\ Only({id}, {path})
      /\ Expected(notified) /\ remote[id].type = "file" /\ IsFile(path)
    BY DEF Brings
<1>2. Overwrite(path, remote[id].bytes) /\ ignored' = ignored \cup {LocalEvent("Modified", echo)}
      /\ job' = [job EXCEPT !.at = "stat"]
    BY DEF Download, Broken, Expect, Goto, Body, Live
<1>3. /\ job'.at = "stat" /\ job'.got = job.got /\ job'.todo = job.todo /\ job'.changes = job.changes
    BY <1>2, JobFacts DEF IsJob
<1>4. disk' = With(path, File(remote[id].bytes)) /\ notified' = notified \o Own(WriteEvents(path))
    BY <1>2 DEF Overwrite, Notify
<1>5. PICK event : event = LocalEvent("Modified", path)
    OBVIOUS
<1>6. notified' = notified \o Own(<<event>>)
    BY <1>1, <1>4, <1>5 DEF WriteEvents, IsFile
<1>7. /\ path \in DOMAIN disk' /\ disk'[path] = File(remote[id].bytes)
      /\ \A other \in DOMAIN disk : other # path => other \in DOMAIN disk' /\ disk'[other] = disk[other]
      /\ \A other \in DOMAIN disk' : other # path => other \in DOMAIN disk
    BY <1>4 DEF With
<1>8. File(remote[id].bytes).type = "file" /\ File(remote[id].bytes).bytes = remote[id].bytes
    BY DEF File
<1>9. Only({id}, {path})'
    BY <1>1, <1>7, OnlyWritten
<1>10. TableOK' /\ Alone' /\ FoldersPlain'
    BY <1>7, <1>8, DiskEdited DEF Sound, FoldersPlain
<1>11. Again(event)' /\ event.kind # "Left"
    BY <1>5, <1>7, <1>8, EventKinds DEF Again, IsFile, Exists
<1>12. Echoes(notified)'
    <2>1. PICK queue, more : queue = notified /\ more = queue \o Own(<<event>>)
        OBVIOUS
    <2>2. ignored \subseteq ignored' /\ queue \in Seq(Message(LocalEvents)) /\ Expected(queue)
        BY <1>1, <1>2, <2>1, JobFacts
    <2>3. Echoes(more)'
        BY <1>11, <2>1, <2>2, OneMoreAgain
    <2> QED
        BY <1>6, <2>1, <2>3 DEF Echoes, Again, Live, IsFile, Exists
<1>13. InFolder(id, path)' /\ Place(id)' = path
    BY <1>1, <1>7, <1>8, SamePlacing DEF InFolder
<1>14. Brings(id, path)'
    BY <1>1, <1>3, <1>9, <1>12, <1>13 DEF Brings
<1>15. RemovalsPending'
    <2>1. NoRemoval({LocalEvent("Modified", echo)})
        BY EventKinds DEF NoRemoval
    <2>2. PICK m : Own(<<event>>) = <<m>>
        BY OwnOne
    <2>3. notified \in Seq(Message(LocalEvents) \cup {m}) /\ <<m>> \in Seq(Message(LocalEvents) \cup {m})
        BY JobFacts, SeqMonotonic
    <2> QED
        BY <1>2, <1>6, <2>1, <2>2, <2>3, RemovalsKept DEF Sound
<1> QED
    BY <1>3, <1>7, <1>10, <1>14, <1>15

LEMMA BringsFits ==
    ASSUME Sound, NEW id \in DOMAIN remote, Lacking(id) \/ Turning(id), NEW path, Brings(id, path)
    PROVE  /\ Live(id) /\ path \in Path /\ Fits(id, path) /\ path = Place(id) /\ path = RemotePath(job.got)
           /\ job.got = remote[id] /\ Only({id}, {path})
<1>1. remote[id].parent # id /\ LiveParent(remote[id].parent) /\ Live(id) /\ Only({id}, {path})
      /\ path = Place(id) /\ job.got = remote[id]
    BY NotOwnParent DEF Lacking, Turning, Brings
<1>2. remote[id].parent \in DOMAIN table \cup {Root}
    BY <1>1, ParentRow
<1> QED
    BY <1>1, <1>2, PlaceFits DEF Sound, Place

LEMMA FillCreatedCalm ==
    ASSUME Sound, Calm, Faults = {}, FillCreated
    PROVE  GoesOn
<1>1. At("PresentOnDisk", "fill") /\ UNCHANGED <<table, remote, tlm>>
    BY DEF FillCreated, Sys
<1>2. PICK id \in DOMAIN remote :
        /\ Bringing(id) /\ Now.id = id /\ job.todo = <<OnId("PresentOnDisk", id)>>
        /\ job.at = "fill" /\ job.changes = <<>>
    BY <1>1, HandIs DEF Midway
<1>3. PICK path : Brings(id, path) /\ Lacking(id)
    BY <1>2 DEF Bringing
<1>4. /\ Live(id) /\ path \in Path /\ Fits(id, path) /\ path = Place(id) /\ path = RemotePath(job.got)
      /\ job.got = remote[id] /\ Only({id}, {path})
    BY <1>3, BringsFits
<1>5. CASE \E error : Fail(error)
    BY <1>1, <1>5, FailsCalm
<1>6. CASE ~\E error : Fail(error)
    <2>1. Download(id, path, path)
        BY <1>2, <1>4 DEF FillCreated
    <2>2. /\ job'.at = "stat" /\ Brings(id, path)' /\ job'.todo = job.todo
          /\ job'.changes = job.changes /\ path \in DOMAIN disk'
          /\ TableOK' /\ Alone' /\ FoldersPlain' /\ RemovalsPending'
        BY <1>1, <1>2, <1>3, <1>4, <1>6, <2>1, FillBrings
    <2>3. Lacking(id)'
        BY <1>1, <1>3, SamePlacing
    <2>4. Bringing(id)'
        BY <2>2, <2>3 DEF Bringing
    <2>5. job'.todo # <<>> /\ id \in DOMAIN remote'
        BY <1>1, <1>2, <2>2
    <2> QED
        BY <1>2, <2>2, <2>4, <2>5, HandGoes DEF OnHand, Midway
<1> QED
    BY <1>5, <1>6

(* The job is over but for the State. *)
LEMMA RecordsOne ==
    ASSUME Sound, UNCHANGED <<table, remote, disk, tlm, notified, ignored>>, Len(job.todo) = 1,
           job.changes = <<>>, NEW c, Done(<<c>>), (RecordsAdd(c) \/ RecordsUpdate(c) \/ RecordsForgot(c))'
    PROVE  GoesOn
<1>1. <<c>> \o <<>> = <<c>> /\ <<>> \o <<c>> = <<c>>
    OBVIOUS
<1>2. job'.at = "apply" /\ job'.changes = <<c>>
    BY <1>1, LastDone
<1>3. Recording' /\ job'.changes # <<>>
    BY <1>2, OneChange
<1>4. RemovalsPending'
    BY DEF Sound, RemovalsPending
<1> QED
    BY <1>2, <1>3, <1>4, TableStays, SidesStay, RecordGoes

LEMMA PlacedStays ==
    ASSUME UNCHANGED <<table, remote, disk>>, NEW id, NEW path, Placed(id, path)
    PROVE  Placed(id, path)'
<1>1. Only({id}, {path})'
    BY OnlyKept DEF Placed
<1> QED
    BY <1>1, SamePlacing DEF Placed, InFolder

LEMMA EchoesDownStay ==
    ASSUME UNCHANGED <<remote, disk, tlm, notified, ignored>>
    PROVE  (EchoesDown => EchoesDown') /\ (EchoesUp => EchoesUp')
BY DEF EchoesDown, EchoesUp, Echoes, Again, Live, IsFile, Exists

LEMMA StatCreatedCalm ==
    ASSUME Sound, Calm, Faults = {}, StatCreated
    PROVE  GoesOn
<1>1. /\ At("PresentOnDisk", "stat") /\ UNCHANGED <<table, remote, disk, tlm, notified, ignored>>
    BY DEF StatCreated, Stat, Sys, world
<1>2. PICK id \in DOMAIN remote :
        Bringing(id) /\ Now.id = id /\ job.at = "stat" /\ job.changes = <<>> /\ Len(job.todo) = 1
    BY <1>1, HandIs DEF Midway
<1>3. PICK path : Brings(id, path) /\ Lacking(id)
    BY <1>2 DEF Bringing
<1>4. path \in Path /\ path = RemotePath(job.got) /\ job.got = remote[id] /\ path = Place(id)
      /\ Only({id}, {path}) /\ Fits(id, path)
    BY <1>3, BringsFits
<1>5. PICK c : c = AddChange(id, path, remote[id].rev, remote[id].parent, Stamp(path))
    OBVIOUS
<1>6. CASE \E error : Fail(error)
    BY <1>1, <1>6, FailsCalm
<1>7. CASE Done(<<c>>)
    <2>1. c.change = "Add" /\ c.id = id /\ c.path = path /\ c.parent = remote[id].parent
        BY <1>5 DEF AddChange
    <2>2. EchoesDown' /\ InFolder(id, path)
        BY <1>1, <1>2, <1>3, EchoesDownStay DEF Brings, EchoesDown
    <2>3. Placed(id, path)' /\ Lacking(id)'
        BY <1>1, <1>3, <1>4, <2>2, PlacedStays, SamePlacing DEF Placed
    <2>4. RecordsAdd(c)'
        BY <1>1, <2>1, <2>2, <2>3 DEF RecordsAdd
    <2> QED
        BY <1>1, <1>2, <1>7, <2>4, RecordsOne
<1> QED
    BY <1>2, <1>4, <1>5, <1>6, <1>7 DEF StatCreated, Stat

(* A file that changed in the space. *)
LEMMA UpdatedPlace ==
    ASSUME Sound, NEW id, ReadyUpdated(id)
    PROVE  /\ id \in DOMAIN table /\ id \in DOMAIN remote /\ Live(id) /\ remote[id].status = "live"
           /\ HasPath(table, id) /\ HasRemotePath(remote[id].parent)
           /\ Place(id) \in Path /\ Fits(id, Place(id))
<1>1. /\ id \in DOMAIN table /\ id \in DOMAIN remote /\ Live(id) /\ remote[id].status = "live"
      /\ LiveParent(remote[id].parent) /\ remote[id].type = "file"
    BY DEF ReadyUpdated, Turning, Live
<1>2. PICK path : Only({id}, {path})
    BY DEF ReadyUpdated
<1>3. remote[id].parent \in DOMAIN table \cup {Root}
    BY <1>1, <1>2, NotOwnParent, ParentRow
<1> QED
    BY <1>1, <1>3, PlaceFits, RowAt DEF Sound

LEMMA FetchUpdatedCalm ==
    ASSUME Sound, Calm, Faults = {}, FetchUpdated
    PROVE  GoesOn
<1>1. /\ At("UpdatedOnDisk", "start") /\ UNCHANGED <<table, remote, disk, tlm, notified, ignored>>
    BY DEF FetchUpdated, Sys, world
<1>2. PICK id \in DOMAIN remote :
        /\ Refreshing(id) /\ Now.id = id /\ job.todo = <<OnId("UpdatedOnDisk", id)>>
        /\ job.at = "start" /\ job.changes = <<>>
    BY <1>1, HandIs DEF Midway
<1>3. Silent /\ ReadyUpdated(id)
    BY <1>2 DEF Refreshing, Brings
<1>4. HasRemotePath(remote[id].parent) /\ remote[id].status = "live" /\ HasPath(table, id)
    BY <1>3, UpdatedPlace
<1>5. job' = [job EXCEPT !.at = "move", !.got = remote[id]]
    BY <1>2, <1>4 DEF FetchUpdated, Fetch, Broken
<1>6. job'.at = "move" /\ job'.got = remote'[id] /\ job'.todo = job.todo /\ job'.changes = <<>>
    BY <1>1, <1>2, <1>5, JobFacts DEF IsJob
<1>7. ReadyUpdated(id)' /\ Silent'
    BY <1>1, <1>3, StepsOn DEF Silent
<1>8. Refreshing(id)'
    BY <1>6, <1>7 DEF Refreshing
<1>9. job'.todo # <<>> /\ id \in DOMAIN remote'
    BY <1>1, <1>2, <1>6
<1> QED
    BY <1>1, <1>2, <1>6, <1>8, <1>9, JobGoesOn DEF OnHand, Midway

LEMMA RemovalsOneMore ==
    ASSUME Sound, NEW event, notified' = notified \o Own(<<event>>),
           NEW news, ignored' = ignored \cup news, NoRemoval(news)
    PROVE  RemovalsPending'
<1>1. PICK m : Own(<<event>>) = <<m>>
    BY OwnOne
<1>2. notified \in Seq(Message(LocalEvents) \cup {m}) /\ <<m>> \in Seq(Message(LocalEvents) \cup {m})
    BY JobFacts, SeqMonotonic
<1> QED
    BY <1>1, <1>2, RemovalsKept DEF Sound

LEMMA NoneFirst ==
    ASSUME NEW queue, queue = <<>>, NEW event, NEW more, more = queue \o Own(<<event>>)
    PROVE  more = Own(<<event>>)
<1>1. PICK m : Own(<<event>>) = <<m>>
    BY OwnOne
<1> QED
    BY <1>1

LEMMA MoveUpdatedCalm ==
    ASSUME Sound, Calm, Faults = {}, MoveUpdated
    PROVE  GoesOn
<1>1. At("UpdatedOnDisk", "move") /\ UNCHANGED <<table, remote, tlm>>
    BY DEF MoveUpdated, Sys
<1>2. PICK id \in DOMAIN remote :
        /\ Refreshing(id) /\ Now.id = id /\ job.todo = <<OnId("UpdatedOnDisk", id)>>
        /\ job.at = "move" /\ job.changes = <<>>
    BY <1>1, HandIs DEF Midway
<1>3. Silent /\ ReadyUpdated(id) /\ job.got = remote[id] /\ Turning(id)
    BY <1>2 DEF Refreshing, Brings, ReadyUpdated
<1>4. PICK from \in Path : IsFile(from) /\ table[id].path = from /\ Only({id}, {from})
    BY <1>3, RowFacts DEF ReadyUpdated, Sound, Turning
<1>5. PICK to \in Path : to = Place(id) /\ to = RemotePath(job.got) /\ Fits(id, to)
    BY <1>3, UpdatedPlace DEF Place
<1>6. PathOf(table, id) = from /\ Live(id) /\ remote[id].type = "file"
    BY <1>3, <1>4, RowAt DEF Turning, Sound
<1>7. CASE \E error : Fail(error)
    BY <1>1, <1>7, FailsCalm
<1>8. ASSUME ~\E error : Fail(error),
             Goto("fill"), Only({id}, {to})', Expected(notified)', IsFile(to)',
             TableOK' /\ Alone' /\ FoldersPlain' /\ RemovalsPending'
      PROVE  GoesOn
    <2>1. /\ job'.at = "fill" /\ job'.got = remote'[id] /\ job'.todo = job.todo /\ job'.changes = <<>>
          /\ tlm' = <<>>
        BY <1>1, <1>2, <1>3, <1>8, JobFacts DEF IsJob, Silent, Goto
    <2>2. Place(id)' = to /\ Turning(id)'
        BY <1>1, <1>3, <1>5, SamePlacing
    <2>3. Brings(id, to)'
        BY <1>1, <1>6, <1>8, <2>1, <2>2 DEF Brings
    <2>4. to \in DOMAIN disk'
        BY <1>8 DEF IsFile, Exists
    <2>5. Refreshing(id)'
        BY <2>2, <2>3, <2>4 DEF Refreshing
    <2>6. job'.todo # <<>> /\ id \in DOMAIN remote'
        BY <1>1, <1>2, <2>1
    <2> QED
        BY <1>2, <1>8, <2>1, <2>5, <2>6, HandGoes DEF OnHand, Midway
<1>9. CASE from = to /\ ~\E error : Fail(error)
    <2>1. Goto("fill") /\ UNCHANGED <<ignored, disk, notified>>
        BY <1>2, <1>5, <1>6, <1>9 DEF MoveUpdated
    <2>2. Only({id}, {to})'
        BY <1>1, <1>4, <1>9, <2>1, OnlyKept
    <2>3. Expected(notified)'
        BY <1>3, <2>1 DEF Expected, Silent
    <2>4. IsFile(to)' /\ RemovalsPending'
        BY <1>4, <1>9, <2>1 DEF IsFile, Exists, Sound, RemovalsPending
    <2> QED
        BY <1>1, <1>8, <1>9, <2>1, <2>2, <2>3, <2>4, TableStays, SidesStay
<1>10. CASE from # to /\ ~\E error : Fail(error)
    <2>1. /\ disk' = Renamed(from, to) /\ notified' = notified \o Own(RenameEvents(from, to))
          /\ ignored' = ignored \cup {RenamedEvent(from, to)} /\ Goto("fill")
        BY <1>2, <1>5, <1>6, <1>10 DEF MoveUpdated, MoveRefused, Expect, Notify
    <2>2. PICK event : event = RenamedEvent(from, to)
        OBVIOUS
    <2>3. notified' = notified \o Own(<<event>>) /\ event.kind = "Renamed"
        BY <1>4, <2>1, <2>2 DEF RenameEvents, IsDir, IsFile, RenamedEvent
    <2>4. /\ DOMAIN disk' = (DOMAIN disk \ {from}) \cup {to}
          /\ \A p \in DOMAIN disk \ {from, to} : disk'[p] = disk[p]
          /\ disk'[to] = disk[from]
        BY <1>4, <1>10, <2>1, RenamesFile DEF IsFile, Exists, Sound
    <2>5. Only({id}, {to})'
        <3>1. \A other \in {from} : other = from
            OBVIOUS
        <3>2. \A other \in DOMAIN disk \ {from, to} : other \in DOMAIN disk' /\ disk'[other] = disk[other]
            BY <2>4
        <3>3. \A other \in DOMAIN disk' \ {to} : other \in DOMAIN disk \ {from}
            BY <2>4
        <3>4. {from} \cup {to} = {from, to}
            OBVIOUS
        <3>5. \A other \in {from} : other = to \/ (id \in DOMAIN table /\ other = table[id].path)
            BY <1>3, <1>4, <3>1 DEF Turning
        <3> QED
            BY <1>1, <1>4, <1>5, <1>6, <3>2, <3>3, <3>4, <3>5, OnlyWritten
    <2>6. Expected(notified)'
        <3>1. PICK queue, more : queue = notified /\ more = queue \o Own(<<event>>)
            OBVIOUS
        <3>2. queue = <<>> /\ event \in ignored' /\ event.kind # "Left" /\ more = Own(<<event>>)
            BY <1>3, <2>1, <2>2, <2>3, <3>1, NoneFirst DEF Silent
        <3>3. Expected(more)'
            BY <3>2, OneEcho
        <3> QED
            BY <2>3, <3>1, <3>3 DEF Expected
    <2>7. IsFile(to)' /\ \A path \in DOMAIN disk' : disk'[path].type = "folder" => disk'[path].bytes = NoBytes
        <3>1. \A path \in DOMAIN disk : disk[path].type = "folder" => disk[path].bytes = NoBytes
            BY DEF Sound, FoldersPlain
        <3> QED
            BY <1>4, <2>4, <3>1 DEF IsFile, Exists
    <2>8. TableOK' /\ Alone' /\ FoldersPlain'
        BY <1>1, <2>7, DiskEdited
    <2>9. RemovalsPending'
        <3>1. NoRemoval({event})
            BY <2>3 DEF NoRemoval
        <3> QED
            BY <2>1, <2>2, <2>3, <3>1, RemovalsOneMore
    <2> QED
        BY <1>8, <1>10, <2>1, <2>5, <2>6, <2>7, <2>8, <2>9
<1> QED
    BY <1>7, <1>9, <1>10

LEMMA FillUpdatedCalm ==
    ASSUME Sound, Calm, Faults = {}, FillUpdated
    PROVE  GoesOn
<1>1. At("UpdatedOnDisk", "fill") /\ UNCHANGED <<table, remote, tlm>>
    BY DEF FillUpdated, Sys
<1>2. PICK id \in DOMAIN remote :
        /\ Refreshing(id) /\ Now.id = id /\ job.todo = <<OnId("UpdatedOnDisk", id)>>
        /\ job.at = "fill" /\ job.changes = <<>>
    BY <1>1, HandIs DEF Midway
<1>3. PICK path : Brings(id, path) /\ Turning(id)
    BY <1>2 DEF Refreshing
<1>4. /\ Live(id) /\ path \in Path /\ Fits(id, path) /\ path = Place(id) /\ path = RemotePath(job.got)
      /\ job.got = remote[id] /\ Only({id}, {path})
    BY <1>3, BringsFits
<1>5. CASE \E error : Fail(error)
    BY <1>1, <1>5, FailsCalm
<1>6. CASE ~\E error : Fail(error)
    <2>0. PICK echo : echo = PathOf(table, id)
        OBVIOUS
    <2>1. Download(id, path, echo)
        BY <1>2, <1>3, <1>4, <2>0 DEF FillUpdated, Turning
    <2>2. /\ job'.at = "stat" /\ Brings(id, path)' /\ job'.todo = job.todo
          /\ job'.changes = job.changes /\ path \in DOMAIN disk'
          /\ TableOK' /\ Alone' /\ FoldersPlain' /\ RemovalsPending'
        BY <1>1, <1>2, <1>3, <1>4, <1>6, <2>1, FillBrings
    <2>3. Turning(id)'
        BY <1>1, <1>3, SamePlacing
    <2>4. Refreshing(id)'
        BY <2>2, <2>3 DEF Refreshing
    <2>5. job'.todo # <<>> /\ id \in DOMAIN remote'
        BY <1>1, <1>2, <2>2
    <2> QED
        BY <1>2, <2>2, <2>4, <2>5, HandGoes DEF OnHand, Midway
<1> QED
    BY <1>5, <1>6

LEMMA StatUpdatedCalm ==
    ASSUME Sound, Calm, Faults = {}, StatUpdated
    PROVE  GoesOn
<1>1. /\ At("UpdatedOnDisk", "stat") /\ UNCHANGED <<table, remote, disk, tlm, notified, ignored>>
    BY DEF StatUpdated, Stat, Sys, world
<1>2. PICK id \in DOMAIN remote :
        Refreshing(id) /\ Now.id = id /\ job.at = "stat" /\ job.changes = <<>> /\ Len(job.todo) = 1
    BY <1>1, HandIs DEF Midway
<1>3. PICK path \in DOMAIN disk : Brings(id, path) /\ Turning(id)
    BY <1>2 DEF Refreshing
<1>4. path \in Path /\ path = RemotePath(job.got) /\ job.got = remote[id] /\ path = Place(id)
      /\ Only({id}, {path}) /\ Fits(id, path)
    BY <1>3, BringsFits
<1>5. PICK c : c = UpdateChange(id, remote[id].name, remote[id].rev, remote[id].parent, Stamp(path))
    OBVIOUS
<1>6. CASE \E error : Fail(error)
    BY <1>1, <1>6, FailsCalm
<1>7. CASE Done(<<c>>)
    <2>1. c.change = "Update" /\ c.id = id /\ c.name = remote[id].name /\ c.parent = remote[id].parent
        BY <1>5 DEF UpdateChange
    <2>2. EchoesDown' /\ InFolder(id, path)
        BY <1>1, <1>2, <1>3, EchoesDownStay DEF Brings, EchoesDown
    <2>3. Placed(id, path)' /\ Turning(id)'
        BY <1>1, <1>3, <1>4, <2>2, PlacedStays, SamePlacing DEF Placed
    <2>4. RecordsUpdate(c)'
        BY <1>1, <2>1, <2>2, <2>3 DEF RecordsUpdate
    <2> QED
        BY <1>1, <1>2, <1>7, <2>4, RecordsOne
<1> QED
    BY <1>2, <1>4, <1>5, <1>6, <1>7 DEF StatUpdated, Stat

(* What a removal reports. *)
RemovalTold(path, owner) ==
    /\ \A k \in DOMAIN notified' :
          /\ notified'[k].own = owner /\ notified'[k].event.path \in Under(path)
          /\ notified'[k].event = LocalEvent("Deleted", notified'[k].event.path)
    /\ \A p \in Under(path) : \E k \in DOMAIN notified' : notified'[k].event = LocalEvent("Deleted", p)
    /\ \A j, k \in DOMAIN notified' :
          j < k => ~IsPrefix(notified'[j].event.path, notified'[k].event.path)
    /\ \A k \in DOMAIN notified' : k \in Nat

LEMMA TuplesOf ==
    ASSUME NEW M, NEW n \in Nat, NEW tuple \in [1..n -> M]
    PROVE  tuple \in Seq(M) /\ Len(tuple) = n
OBVIOUS

LEMMA RemovalTells ==
    ASSUME Sound, notified = <<>>, NEW path, NEW order \in Removals(path), NEW owner \in BOOLEAN, NEW told,
           told = (IF owner THEN Own(RemoveEvents(order)) ELSE ByUser(RemoveEvents(order))),
           notified' = notified \o told
    PROVE  RemovalTold(path, owner)
<1>1. TreeOK(disk) /\ IsFiniteSet(Under(path))
    BY RowFacts, UnderFinite DEF Sound
<1>2. order \in SetToSeqs(Under(path)) /\ \A i, j \in DOMAIN order : i < j => ~IsPrefix(order[i], order[j])
    BY DEF Removals
<1>3. PICK n \in Nat : DOMAIN order = 1..n /\ order \in Seq(Under(path)) /\ Len(order) = n
    BY <1>1, <1>2, OrderType
<1>4. PICK events : events = RemoveEvents(order)
    OBVIOUS
<1>5. DOMAIN events = 1..n /\ \A k \in 1..n : events[k] = LocalEvent("Deleted", order[k])
    BY <1>3, <1>4 DEF RemoveEvents
<1>6. told = [k \in 1..n |-> [event |-> events[k], own |-> owner]]
    BY <1>4, <1>5 DEF Own, ByUser
<1>7. told \in Seq({told[k] : k \in 1..n}) /\ Len(told) = n
    <2>1. PICK M : M = {told[k] : k \in 1..n}
        OBVIOUS
    <2>2. told \in [1..n -> M]
        BY <1>6, <2>1
    <2> QED
        BY <2>1, <2>2, TuplesOf
<1>8. notified' = told
    BY <1>7
<1>9. \A k \in 1..n : notified'[k] = [event |-> LocalEvent("Deleted", order[k]), own |-> owner]
    BY <1>5, <1>6, <1>8
<1>10. DOMAIN notified' = 1..n
    BY <1>6, <1>8
<1>11. \A k \in 1..n : /\ notified'[k].own = owner /\ notified'[k].event = LocalEvent("Deleted", order[k])
                      /\ notified'[k].event.path = order[k]
    <2> SUFFICES ASSUME NEW k \in 1..n
                 PROVE  /\ notified'[k].own = owner /\ notified'[k].event = LocalEvent("Deleted", order[k])
                        /\ notified'[k].event.path = order[k]
        OBVIOUS
    <2>1. PICK e : e = LocalEvent("Deleted", order[k])
        OBVIOUS
    <2>2. notified'[k] = [event |-> e, own |-> owner]
        BY <1>9, <2>1
    <2>3. [event |-> e, own |-> owner].own = owner
        OBVIOUS
    <2>4. [event |-> e, own |-> owner].event = e
        OBVIOUS
    <2> QED
        BY <2>1, <2>2, <2>3, <2>4, EventKinds
<1>12. \A k \in 1..n : order[k] \in Under(path)
    BY <1>3
<1>13. ASSUME NEW p \in Under(path)
       PROVE  \E k \in DOMAIN notified' : notified'[k].event = LocalEvent("Deleted", p)
    <2>1. PICK k \in DOMAIN order : order[k] = p
        BY <1>1, <1>2, OrderAll
    <2> QED
        BY <1>3, <1>10, <1>11, <2>1
<1>14. \A k \in 1..n : /\ notified'[k].own = owner /\ notified'[k].event.path \in Under(path)
                      /\ notified'[k].event = LocalEvent("Deleted", notified'[k].event.path)
    BY <1>11, <1>12
<1>15. \A j, k \in 1..n : j < k => ~IsPrefix(notified'[j].event.path, notified'[k].event.path)
    BY <1>2, <1>3, <1>11
<1>16. \A k \in 1..n : k \in Nat
    OBVIOUS
<1> QED
    BY <1>10, <1>13, <1>14, <1>15, <1>16 DEF RemovalTold

LEMMA AbsentFromDiskCalm ==
    ASSUME Sound, Calm, AbsentFromDisk
    PROVE  GoesOn
<1>1. At("AbsentFromDisk", "start") /\ UNCHANGED <<table, remote, tlm>>
    BY DEF AbsentFromDisk, Sys
<1>2. PICK id \in DOMAIN remote :
        Clearing(id) /\ Now.id = id /\ job.changes = <<>> /\ Len(job.todo) = 1
    BY <1>1, HandIs DEF Midway
<1>3. Silent /\ id \in DOMAIN table /\ ~Live(id) /\ RowsGone = {}
    BY <1>2 DEF Clearing, ReadyAbsent
<1>4. PICK path \in DOMAIN disk :
        table[id].path = path /\ OnlyUnder(path) /\ Under(path) \subseteq Columns
    BY <1>2 DEF Clearing, ReadyAbsent
<1>5. path \in Path /\ HasPath(table, id) /\ PathOf(table, id) = path
    BY <1>3, <1>4, RowAt DEF Sound
<1>6. PICK c : c = ForgotChange(id)
    OBVIOUS
<1>7. (TypeAt(path) = "folder" /\ IsDir(path)) \/ (TypeAt(path) = "file" /\ IsFile(path))
    <2>1. disk[path].type \in {"file", "folder"}
        BY <1>4, RowFacts DEF Sound, TreeOK, Entry
    <2> QED
        BY <1>4, <2>1 DEF TypeAt, IsDir, IsFile, Exists
<1>8. /\ ignored' = ignored \cup {LocalEvent("Deleted", path)}
      /\ disk' = Without(Under(path)) /\ Done(<<c>>)
      /\ \E order \in Removals(path) : notified' = notified \o Own(RemoveEvents(order))
    BY <1>2, <1>4, <1>5, <1>6, <1>7 DEF AbsentFromDisk, Expect, Exists, RemovableAs, Notify
<1>9. RemovalTold(path, TRUE) /\ notified = <<>> /\ tlm' = <<>>
    <2>1. notified = <<>> /\ tlm' = <<>>
        BY <1>1, <1>3 DEF Silent
    <2>2. PICK order \in Removals(path) : notified' = notified \o Own(RemoveEvents(order))
        BY <1>8
    <2> QED
        BY <2>1, <2>2, RemovalTells
<1>10. job'.at = "apply" /\ job'.changes = <<c>>
    <2>1. <<c>> \o <<>> = <<c>> /\ <<>> \o <<c>> = <<c>>
        OBVIOUS
    <2> QED
        BY <1>2, <1>8, <2>1, LastDone
<1>11. /\ DOMAIN disk' = DOMAIN disk \ Under(path)
       /\ \A p \in DOMAIN disk' : disk'[p] = disk[p]
    BY <1>8 DEF Without
<1>12. TableOK' /\ Alone' /\ FoldersPlain'
    BY <1>1, <1>11, DiskEdited DEF Sound, FoldersPlain
<1>13. \A p \in Under(path) : p \in DOMAIN disk /\ IsPrefix(path, p)
    BY DEF Under
<1>14. IsPrefix(path, path) /\ path \in Under(path)
    BY <1>4, <1>5, PrefixOrder DEF Under
<1>15. RowsGone' = RowsUnder(path)
    <2>1. \A row \in DOMAIN table : table[row].path \in DOMAIN disk
        BY <1>3 DEF RowsGone
    <2>2. \A row \in DOMAIN table : table[row].path \notin DOMAIN disk' <=> IsPrefix(path, table[row].path)
        BY <1>11, <2>1 DEF Under
    <2> QED
        BY <1>1, <2>2 DEF RowsGone, RowsUnder
<1>16. RemovalsPending'
    <2>1. \E k \in DOMAIN notified' : notified'[k].event = LocalEvent("Deleted", path)
        BY <1>9, <1>14 DEF RemovalTold
    <2>2. \A event \in ignored : ~(event.src = "local" /\ event.kind = "Deleted")
        BY <1>9 DEF Sound, RemovalsPending
    <2> QED
        BY <1>8, <2>1, <2>2 DEF RemovalsPending
<1>17. OwnDeletions'
    BY <1>9 DEF RemovalTold, OwnDeletions
<1>18. Reported' \subseteq Under(path)
    BY <1>9 DEF RemovalTold, Reported
<1>19. \A row \in DOMAIN table' : table'[row].path \in Reported' => row \in RowsGone'
    BY <1>1, <1>13, <1>15, <1>18 DEF RowsUnder
<1>20. Unexpected' \/ (RowsGone' = {id} /\ ~Live(id)' /\ Only({id}, {})' /\ EchoesDown')
    <2>1. CASE Under(path) = {path}
        <3>1. RowsGone' = {id}
            <4>1. \A row \in RowsUnder(path) : table[row].path = path
                BY <1>3, <2>1 DEF RowsGone, RowsUnder, Under
            <4>2. \A row \in RowsUnder(path) : row = id
                BY <1>3, <1>4, <4>1 DEF Sound, PathsDistinct, RowsUnder
            <4> QED
                BY <1>3, <1>4, <1>14, <1>15, <4>2 DEF RowsUnder
        <3>2. ASSUME NEW row \in (Visible' \cup DOMAIN table') \ {id}
              PROVE  Agrees(row)'
            <4>1. row \in (Visible \cup DOMAIN table) \ RowsUnder(path)
                BY <1>1, <1>15, <3>1, <3>2, SamePlacing
            <4>2. Agrees(row)
                BY <1>4, <4>1 DEF OnlyUnder, Only
            <4>3. table[row].path \notin Under(path) /\ row \in DOMAIN table
                BY <4>1, <4>2 DEF Under, RowsUnder, Agrees, InSpace
            <4>4. InFolder(row, table[row].path)'
                BY <1>1, <1>11, <4>2, <4>3 DEF Agrees, InFolder
            <4>5. InSpace(row)'
                BY <1>1, <4>2, SamePlacing DEF Agrees
            <4> QED
                BY <4>4, <4>5 DEF Agrees
        <3>3. ASSUME NEW p \in DOMAIN disk'
              PROVE  \E row \in DOMAIN table' \ {id} : table'[row].path = p
            <4>1. p \in DOMAIN disk \ Under(path)
                BY <1>11
            <4>2. PICK row \in DOMAIN table : row \notin RowsUnder(path) /\ table[row].path = p
                BY <1>4, <4>1 DEF OnlyUnder, Only
            <4> QED
                BY <1>1, <1>15, <3>1, <4>2
        <3>4. Only({id}, {})'
            BY <3>2, <3>3 DEF Only
        <3>5. \A k \in DOMAIN notified' : notified'[k].event = LocalEvent("Deleted", path)
            BY <1>9, <2>1 DEF RemovalTold
        <3>6. \A j, k \in DOMAIN notified' : ~(j < k)
            <4>1. \A k \in DOMAIN notified' : notified'[k].event.path = path
                BY <1>9, <2>1 DEF RemovalTold
            <4> QED
                BY <1>9, <1>14, <4>1 DEF RemovalTold
        <3>7. EchoesDown'
            <4>1. \A k \in DOMAIN notified' : notified'[k].own /\ notified'[k].event.kind # "Left"
                      /\ notified'[k].event \in ignored'
                BY <1>8, <1>9, <3>5, EventKinds DEF RemovalTold
            <4>2. \A k \in DOMAIN notified' : \A j \in 1..(k - 1) : notified'[j].event # notified'[k].event
                <5>1. \E M : notified' \in Seq(M)
                    <6>1. \A k \in DOMAIN notified' : k \in Nat
                        BY <1>9 DEF RemovalTold
                    <6>2. PICK order \in Removals(path) : notified' = notified \o Own(RemoveEvents(order))
                        BY <1>8
                    <6>3. RemoveEvents(order) \in Seq(LocalEvents)
                        BY RowFacts, RemoveEventsType DEF Sound
                    <6>4. Own(RemoveEvents(order)) \in Seq(Message(LocalEvents))
                        BY <6>3, Tagged
                    <6> QED
                        BY <1>9, <6>2, <6>4
                <5>2. PICK M : notified' \in Seq(M)
                    BY <5>1
                <5>3. \A k \in DOMAIN notified' : \A j \in 1..(k - 1) : j \in DOMAIN notified' /\ j < k
                    BY <5>2
                <5> QED
                    BY <3>6, <5>3
            <4> QED
                BY <1>9, <4>1, <4>2 DEF EchoesDown, Echoes
        <3> QED
            BY <1>1, <1>3, <3>1, <3>4, <3>7 DEF Live
    <2>2. CASE Under(path) # {path}
        <3>1. PICK p \in Under(path) : p # path
            BY <1>14, <2>2
        <3>2. PICK k \in DOMAIN notified' : notified'[k].event = LocalEvent("Deleted", p)
            BY <1>9, <3>1 DEF RemovalTold
        <3>3. LocalEvent("Deleted", p) # LocalEvent("Deleted", path)
            BY <3>1, EventKinds
        <3>4. LocalEvent("Deleted", p) \notin ignored
            <4>1. LocalEvent("Deleted", p).src = "local" /\ LocalEvent("Deleted", p).kind = "Deleted"
                BY EventKinds
            <4> QED
                BY <1>9, <4>1 DEF Sound, RemovalsPending
        <3> QED
            BY <1>8, <3>2, <3>3, <3>4 DEF Unexpected
    <2> QED
        BY <2>1, <2>2
<1>21. RecordsForgot(c)'
    <2>1. c.change = "Forgot" /\ c.id = id /\ table'[c.id].path = path /\ id \in DOMAIN table'
        BY <1>1, <1>3, <1>4, <1>6 DEF ForgotChange
    <2>2. RowsGone' = RowsUnder(table[c.id].path)'
        BY <1>1, <1>15, <2>1 DEF RowsUnder
    <2> QED
        BY <1>17, <1>19, <1>20, <2>1, <2>2 DEF RecordsForgot
<1>22. Recording' /\ job'.changes # <<>>
    BY <1>10, <1>21, OneChange
<1> QED
    BY <1>10, <1>12, <1>16, <1>22, RecordGoes

(* What the edits of one content do. *)
LEMMA FieldsEdited ==
    ASSUME Inv, NEW id \in DOMAIN remote
    PROVE  /\ \A status : remote' = Standing(id, status) =>
                  /\ SpaceEdit(id) /\ id \in DOMAIN remote' /\ remote'[id].status = status
                  /\ remote'[id].name = remote[id].name /\ remote'[id].parent = remote[id].parent
                  /\ remote'[id].type = remote[id].type /\ remote'[id].bytes = remote[id].bytes
           /\ \A bytes : remote' = Filled(id, bytes) =>
                  /\ SpaceEdit(id) /\ id \in DOMAIN remote' /\ remote'[id].bytes = bytes
                  /\ remote'[id].name = remote[id].name /\ remote'[id].parent = remote[id].parent
                  /\ remote'[id].type = remote[id].type /\ remote'[id].status = remote[id].status
           /\ \A name : remote' = Labelled(id, name) =>
                  /\ SpaceEdit(id) /\ id \in DOMAIN remote' /\ remote'[id].name = name
                  /\ remote'[id].bytes = remote[id].bytes /\ remote'[id].parent = remote[id].parent
                  /\ remote'[id].type = remote[id].type /\ remote'[id].status = remote[id].status
           /\ \A parent : remote' = Parented(id, parent) =>
                  /\ SpaceEdit(id) /\ id \in DOMAIN remote' /\ remote'[id].parent = parent
                  /\ remote'[id].bytes = remote[id].bytes /\ remote'[id].name = remote[id].name
                  /\ remote'[id].type = remote[id].type /\ remote'[id].status = remote[id].status
<1>1. remote[id] \in Content
    BY DEF Inv, UsersOK, SidesOK, ContentsOK
<1>2. remote[id] = [name |-> remote[id].name, parent |-> remote[id].parent, type |-> remote[id].type,
                    bytes |-> remote[id].bytes, rev |-> remote[id].rev, status |-> remote[id].status]
    BY <1>1 DEF Content
<1>3. ASSUME NEW content, remote' = [remote EXCEPT ![id] = content], content.type = remote[id].type
      PROVE  SpaceEdit(id) /\ id \in DOMAIN remote' /\ remote'[id] = content
    BY <1>3 DEF SpaceEdit
<1>4. ASSUME NEW status, remote' = Standing(id, status)
      PROVE  remote' = [remote EXCEPT ![id] = [remote[id] EXCEPT !.status = status, !.rev = @ + 1]]
    BY <1>4 DEF Standing
<1>5. ASSUME NEW bytes, remote' = Filled(id, bytes)
      PROVE  remote' = [remote EXCEPT ![id] = [remote[id] EXCEPT !.bytes = bytes, !.rev = @ + 1]]
    BY <1>5 DEF Filled
<1>6. ASSUME NEW name, remote' = Labelled(id, name)
      PROVE  remote' = [remote EXCEPT ![id] = [remote[id] EXCEPT !.name = name, !.rev = @ + 1]]
    BY <1>6 DEF Labelled
<1>7. ASSUME NEW parent, remote' = Parented(id, parent)
      PROVE  remote' = [remote EXCEPT ![id] = [remote[id] EXCEPT !.parent = parent, !.rev = @ + 1]]
    BY <1>7 DEF Parented
<1>8. ASSUME NEW status, remote' = Standing(id, status)
      PROVE  /\ SpaceEdit(id) /\ id \in DOMAIN remote' /\ remote'[id].status = status
             /\ remote'[id].name = remote[id].name /\ remote'[id].parent = remote[id].parent
             /\ remote'[id].type = remote[id].type /\ remote'[id].bytes = remote[id].bytes
    <2>1. PICK content : content = [remote[id] EXCEPT !.status = status, !.rev = @ + 1]
        OBVIOUS
    <2>2. /\ content.status = status /\ content.name = remote[id].name
          /\ content.parent = remote[id].parent /\ content.type = remote[id].type
          /\ content.bytes = remote[id].bytes
        BY <1>2, <2>1
    <2> QED
        BY <1>3, <1>4, <1>8, <2>1, <2>2
<1>9. ASSUME NEW bytes, remote' = Filled(id, bytes)
      PROVE  /\ SpaceEdit(id) /\ id \in DOMAIN remote' /\ remote'[id].bytes = bytes
             /\ remote'[id].name = remote[id].name /\ remote'[id].parent = remote[id].parent
             /\ remote'[id].type = remote[id].type /\ remote'[id].status = remote[id].status
    <2>1. PICK content : content = [remote[id] EXCEPT !.bytes = bytes, !.rev = @ + 1]
        OBVIOUS
    <2>2. /\ content.status = remote[id].status /\ content.name = remote[id].name
          /\ content.parent = remote[id].parent /\ content.type = remote[id].type
          /\ content.bytes = bytes
        BY <1>2, <2>1
    <2> QED
        BY <1>3, <1>5, <1>9, <2>1, <2>2
<1>10. ASSUME NEW name, remote' = Labelled(id, name)
       PROVE  /\ SpaceEdit(id) /\ id \in DOMAIN remote' /\ remote'[id].name = name
              /\ remote'[id].bytes = remote[id].bytes /\ remote'[id].parent = remote[id].parent
              /\ remote'[id].type = remote[id].type /\ remote'[id].status = remote[id].status
    <2>1. PICK content : content = [remote[id] EXCEPT !.name = name, !.rev = @ + 1]
        OBVIOUS
    <2>2. /\ content.status = remote[id].status /\ content.name = name
          /\ content.parent = remote[id].parent /\ content.type = remote[id].type
          /\ content.bytes = remote[id].bytes
        BY <1>2, <2>1
    <2> QED
        BY <1>3, <1>6, <1>10, <2>1, <2>2
<1>11. ASSUME NEW parent, remote' = Parented(id, parent)
       PROVE  /\ SpaceEdit(id) /\ id \in DOMAIN remote' /\ remote'[id].parent = parent
              /\ remote'[id].bytes = remote[id].bytes /\ remote'[id].name = remote[id].name
              /\ remote'[id].type = remote[id].type /\ remote'[id].status = remote[id].status
    <2>1. PICK content : content = [remote[id] EXCEPT !.parent = parent, !.rev = @ + 1]
        OBVIOUS
    <2>2. /\ content.status = remote[id].status /\ content.name = remote[id].name
          /\ content.parent = parent /\ content.type = remote[id].type
          /\ content.bytes = remote[id].bytes
        BY <1>2, <2>1
    <2> QED
        BY <1>3, <1>7, <1>11, <2>1, <2>2
<1> QED
    BY <1>8, <1>9, <1>10, <1>11

(* The other contents are where they were. *)
LEMMA OthersKept ==
    ASSUME Inv, NEW id, SpaceEdit(id), UNCHANGED table, NEW other, other # id
    PROVE  /\ other \in DOMAIN remote => (remote'[other] = remote[other] /\ other \in DOMAIN remote')
           /\ Live(other)' = Live(other)
<1>1. other \in DOMAIN remote => (remote'[other] = remote[other] /\ other \in DOMAIN remote')
    BY DEF SpaceEdit
<1>2. Live(other)' = Live(other)
    BY <1>1 DEF SpaceEdit, Live
<1> QED
    BY <1>1, <1>2
LEMMA StillInSpace ==
    ASSUME Inv, NEW id, SpaceEdit(id), UNCHANGED table, NEW other, other # id, InSpace(other)
    PROVE  InSpace(other)'
    <2>1. PICK path, parent : path = table[other].path /\ parent = remote[other].parent
        OBVIOUS
    <2>2. Below(path, parent)'
        BY <2>1, BelowEdited DEF InSpace, Fits
    <2>3. other \in DOMAIN remote /\ Live(other)' /\ remote'[other] = remote[other]
        BY OthersKept DEF InSpace, Live
    <2>4. Below(table[other].path, remote[other].parent)'
        BY <2>1, <2>2, <2>3 DEF Below
    <2>5. Last(table'[other].path) = remote'[other].name
        BY <2>3 DEF InSpace, Fits
    <2> QED
        BY <2>3, <2>4, <2>5 DEF InSpace, Fits

LEMMA NotInItself ==
    ASSUME Sound, NEW id, InSpace(id)
    PROVE  remote[id].parent # id /\ id \in DOMAIN remote /\ table[id].path \in Path
<1>1. id \in DOMAIN table /\ Below(table[id].path, remote[id].parent) /\ id \in DOMAIN remote /\ id # Root
      /\ table[id].path \in Path
    BY RowAt DEF InSpace, Fits, Live, Sound
<1>2. PICK path \in Path : path = table[id].path
    BY <1>1
<1>3. Len(path) # 1 => Front(path) # path
    BY PathExtend
<1> QED
    BY <1>1, <1>2, <1>3 DEF Below

-------------------------------------------------------------------------------
(***************************************************************************)
(* Uploads.                                                                *)
(***************************************************************************)
(* Deletions on the disk. *)
LEMMA SweepStays ==
    ASSUME UNCHANGED <<table, remote, disk, tlm, notified, ignored>>, NEW hand, Sweeping(hand)
    PROVE  Sweeping(hand)'
<1>1. PICK gone : gone = RowsGone /\ Only(gone, {})
    BY DEF Sweeping
<1>2. Only(gone, {})' /\ gone = RowsGone'
    BY <1>1, OnlyKept DEF RowsGone
<1>3. \A id : (InSpace(id) => InSpace(id)') /\ (Live(id)' <=> Live(id))
    BY SamePlacing
<1>4. Expected(tlm)' /\ Reported' = Reported
    BY DEF Sweeping, Expected, Reported
<1> QED
    BY <1>1, <1>2, <1>3, <1>4 DEF Sweeping

LEMMA FetchAbsentCalm ==
    ASSUME Sound, Calm, Faults = {}, FetchAbsent
    PROVE  GoesOn
<1>1. At("AbsentFromRemote", "start") /\ UNCHANGED <<table, remote, disk, tlm, notified, ignored>>
    BY DEF FetchAbsent, Sys, world
<1>2. PICK path :
        /\ Discarding(path) /\ Now.path = path /\ job.todo = <<OnPath("AbsentFromRemote", path)>>
        /\ job.at = "start" /\ job.changes = <<>>
    BY <1>1, HandIs DEF Midway
<1>3. CASE \E error : Fail(error)
    BY <1>1, <1>3, FailsCalm
<1>4. CASE path \notin Columns
    <2>1. ContentIdForPath(table, path) = Root
        BY <1>4 DEF Columns, ContentIdForPath
    <2>2. Fail("Unexpected")
        BY <1>2, <2>1 DEF FetchAbsent
    <2> QED
        BY <1>3, <2>2
<1>5. CASE path \in Columns
    <2>1. PICK id \in DOMAIN table : Sweeping({id}) /\ table[id].path = path /\ InSpace(id)
        BY <1>2, <1>5 DEF Discarding
    <2>2. ContentIdForPath(table, path) = id /\ id # Root /\ remote[id].status = "live"
        BY <2>1, RowAt DEF Sound, InSpace, Live
    <2>3. job' = [job EXCEPT !.at = "trash", !.id = id, !.got = remote[id]]
        BY <1>2, <2>2 DEF FetchAbsent, Timeout, Broken
    <2>4. /\ job'.at = "trash" /\ job'.id = id /\ job'.got = remote'[id]
          /\ job'.todo = job.todo /\ job'.changes = <<>>
        BY <1>1, <1>2, <2>3, JobFacts DEF IsJob
    <2>5. Sweeping({id})' /\ InSpace(id)' /\ table'[id].path = path /\ id \in DOMAIN table'
        BY <1>1, <2>1, SweepStays, SamePlacing
    <2>6. Discarding(path)'
        BY <2>4, <2>5 DEF Discarding
    <2>7. Now' = OnPath("AbsentFromRemote", path) /\ job'.todo # <<>>
        BY <1>2, <2>4 DEF Now
    <2>8. OnPath("AbsentFromRemote", path).ex = "AbsentFromRemote" /\ OnPath("AbsentFromRemote", path).path = path
        BY DEF OnPath
    <2>9. OnHand'
        BY <1>2, <2>4, <2>6, <2>7, <2>8 DEF OnHand
    <2> QED
        BY <1>1, <2>4, <2>9, JobGoesOn DEF Midway
<1> QED
    BY <1>4, <1>5

LEMMA TrashAbsentCalm ==
    ASSUME Sound, Calm, Faults = {}, TrashAbsent
    PROVE  GoesOn
<1>1. At("AbsentFromRemote", "trash") /\ UNCHANGED <<table, disk, notified>>
    BY DEF TrashAbsent, Sys
<1>2. PICK path :
        Discarding(path) /\ job.at = "trash" /\ job.changes = <<>> /\ Len(job.todo) = 1
    BY <1>1, HandIs DEF Midway
<1>3. PICK id \in DOMAIN table :
        Sweeping({id}) /\ table[id].path = path /\ InSpace(id) /\ job.id = id /\ job.got = remote[id]
    BY <1>2 DEF Discarding
<1>4. Live(id) /\ id \in DOMAIN remote /\ remote[id].status = "live" /\ remote[id].parent # id
    BY <1>3, NotInItself DEF InSpace, Live
<1>5. PICK event : event = RemoteEvent("Deleted", id)
    OBVIOUS
<1>6. event.kind = "Deleted" /\ event.id = id /\ event.src = "remote"
    BY <1>5 DEF RemoteEvent
<1>7. PICK c : c = ForgotChange(id)
    OBVIOUS
<1>8. /\ remote' = Standing(id, "trashed") /\ tlm' = tlm \o Own(<<event>>)
      /\ ignored' = ignored \cup {event} /\ Done(<<c>>)
    BY <1>3, <1>4, <1>5, <1>7 DEF TrashAbsent, TrashContent, Trashed, Tell, Expect, Broken
<1>9. /\ SpaceEdit(id) /\ id \in DOMAIN remote' /\ remote'[id].status = "trashed"
      /\ remote'[id].parent = remote[id].parent
      /\ remote'[id].type = remote[id].type /\ remote'[id].bytes = remote[id].bytes
    BY <1>4, <1>8, FieldsEdited DEF Sound
<1>10. ~Live(id)'
    BY <1>9 DEF Live
<1>11. TableOK' /\ Alone' /\ FoldersPlain'
    <2>1. /\ remote[id].parent # Root =>
                /\ remote[id].parent \in DOMAIN remote /\ remote[remote[id].parent].type = "folder"
          /\ remote[id].type = "folder" => remote[id].bytes = NoBytes
        BY <1>4 DEF Sound, ParentsHold, FoldersPlain
    <2> QED
        BY <1>1, <1>4, <1>9, <1>10, <2>1, Edited
<1>12. RemovalsPending'
    <2>1. NoRemoval({event})
        BY <1>6 DEF NoRemoval
    <2> QED
        BY <1>1, <1>8, <2>1, RemovalsKept, JobFacts DEF Sound
<1>13. PICK gone : gone = RowsGone /\ Only(gone, {}) /\ id \in gone
    BY <1>3 DEF Sweeping
<1>14. gone = RowsGone' /\ Only(gone, {})'
    BY <1>1, <1>9, <1>13, OnlyEdited DEF Sound, RowsGone
<1>15. /\ Expected(tlm)
       /\ \A k \in DOMAIN tlm : tlm[k].event.kind = "Deleted" /\ ~Live(tlm[k].event.id)
    BY <1>3 DEF Sweeping
<1>16. PICK queue, more : queue = tlm /\ more = tlm'
    OBVIOUS
<1>17. \A k \in DOMAIN queue : queue[k].event # event
    BY <1>4, <1>6, <1>15, <1>16
<1>18. queue \in Seq(Message(RemoteEvents(DOMAIN remote))) /\ more = queue \o Own(<<event>>)
    BY <1>8, <1>16, JobFacts
<1>19. Expected(more)'
    BY <1>6, <1>8, <1>15, <1>16, <1>17, <1>18, OneMoreExpected
<1>20. Expected(tlm)'
    BY <1>16, <1>19 DEF Expected
<1>21. ASSUME NEW k \in DOMAIN more
       PROVE  more[k].event.kind = "Deleted" /\ ~Live(more[k].event.id)'
    <2>1. OneLonger(queue, event, more)
        BY <1>18, OwnLast
    <2>2. CASE k \in DOMAIN queue
        <3>1. more[k] = queue[k]
            BY <2>1, <2>2 DEF OneLonger
        <3>2. more[k].event.kind = "Deleted" /\ ~Live(more[k].event.id)
            BY <1>15, <1>16, <2>2, <3>1
        <3>3. PICK other : other = more[k].event.id
            OBVIOUS
        <3>4. other # id /\ ~Live(other)
            BY <1>4, <3>2, <3>3
        <3>5. ~Live(other)'
            BY <1>1, <1>9, <3>4, OthersKept DEF Sound
        <3> QED
            BY <3>2, <3>3, <3>5
    <2>3. CASE k \notin DOMAIN queue
        <3>1. more[k] = [event |-> event, own |-> TRUE]
            BY <2>1, <2>3 DEF OneLonger
        <3> QED
            BY <1>6, <1>10, <3>1
    <2> QED
        BY <2>2, <2>3
<1>22. \A k \in DOMAIN tlm' : tlm'[k].event.kind = "Deleted" /\ ~Live(tlm[k].event.id)'
    BY <1>16, <1>21 DEF Live
<1>23. \A other \in gone \ {id} : InSpace(other) => InSpace(other)'
    BY <1>1, <1>9, StillInSpace DEF Sound
<1>24. Sweeping({id})'
    <2>1. {id} \subseteq RowsGone'
        BY <1>13, <1>14
    <2>2. \A k \in DOMAIN notified' :
             /\ ~notified'[k].own /\ notified'[k].event = LocalEvent("Deleted", notified'[k].event.path)
             /\ \E other \in gone \ {id} : table'[other].path = notified'[k].event.path
        BY <1>1, <1>3, <1>13 DEF Sweeping
    <2>3. \A j, k \in DOMAIN notified' :
             j < k => ~IsPrefix(notified'[j].event.path, notified'[k].event.path)
        BY <1>1, <1>3 DEF Sweeping
    <2>4. Reported' = Reported
        BY <1>1 DEF Reported
    <2>5. \A other \in gone \ {id} : table'[other].path \in Reported' /\ InSpace(other)'
        BY <1>1, <1>3, <1>13, <1>23, <2>4 DEF Sweeping
    <2>6. \A p \in Reported' : ~IsPrefix(table'[id].path, p)
        BY <1>1, <1>3, <2>4 DEF Sweeping
    <2> QED
        BY <1>14, <1>20, <1>22, <2>1, <2>2, <2>3, <2>5, <2>6 DEF Sweeping
<1>25. RecordsForgot(c)'
    <2>1. c.change = "Forgot" /\ c.id = id
        BY <1>7 DEF ForgotChange
    <2>2. Sweeping({c.id})'
        <3>1. c.id = id
            BY <2>1
        <3> QED
            BY <1>24, <3>1
    <2> QED
        BY <1>1, <1>3, <1>10, <2>1, <2>2 DEF RecordsForgot
<1>26. job'.at = "apply" /\ job'.changes = <<c>>
    <2>1. <<c>> \o <<>> = <<c>> /\ <<>> \o <<c>> = <<c>>
        OBVIOUS
    <2> QED
        BY <1>2, <1>8, <2>1, LastDone
<1> QED
    BY <1>11, <1>12, <1>25, <1>26, OneChange, RecordGoes

(* The folder of the disk that holds a path is known, and in the space. *)
LEMMA FolderAbove ==
    ASSUME Sound, NEW path \in Path, ParentIsDir(path), NEW ids, NEW paths, Only(ids, paths),
           Front(path) \notin paths
    PROVE  /\ Below(path, ParentId(path)) /\ LiveParent(ParentId(path))
           /\ (ParentId(path) # Root =>
                 /\ ParentId(path) \in DOMAIN table \ ids /\ ParentId(path) \in DOMAIN remote
                 /\ Agrees(ParentId(path))
                 /\ remote[ParentId(path)].type = "folder")
<1>1. CASE Len(path) = 1
    BY <1>1 DEF ParentId, Below, LiveParent
<1>2. CASE Len(path) # 1
    <2>1. Front(path) \in DOMAIN disk /\ disk[Front(path)].type = "folder"
        BY <1>2 DEF ParentIsDir, IsDir, Exists
    <2>2. PICK row \in DOMAIN table \ ids : table[row].path = Front(path)
        BY <2>1 DEF Only
    <2>3. Agrees(row)
        BY <2>2 DEF Only
    <2>4. ParentId(path) = row /\ row # Root /\ row \in DOMAIN remote
        BY <1>2, <2>2, RowAt DEF ParentId, Sound
    <2>5. remote[row].type = "folder" /\ Live(row)
        BY <2>1, <2>2, <2>3 DEF Agrees, InSpace, InFolder
    <2> QED
        BY <1>2, <2>2, <2>3, <2>4, <2>5 DEF Below, LiveParent
<1> QED
    BY <1>1, <1>2

LEMMA NoHomonym ==
    ASSUME Sound, NEW path \in Path, NEW parent, Below(path, parent), NEW ids, NEW paths, Only(ids, paths),
           \A row \in DOMAIN table \ ids : table[row].path # path,
           NEW other \in Visible \ ids
    PROVE  ~(remote[other].name = Last(path) /\ remote[other].parent = parent)
<1> SUFFICES ASSUME remote[other].name = Last(path), remote[other].parent = parent PROVE FALSE
    OBVIOUS
<1>1. InSpace(other) /\ other \in DOMAIN table /\ other \in DOMAIN remote
    BY DEF Only, Agrees, InSpace, Visible
<1>2. table[other].path \in Path /\ Fits(other, table[other].path) /\ Fits(other, path)
    BY <1>1, RowAt DEF InSpace, Sound, Fits
<1>3. table[other].path = path
    BY <1>1, <1>2, FitsIsPlace DEF Sound
<1> QED
    BY <1>1, <1>3

(* The removals still come. *)
LEMMA RemovalsRest ==
    ASSUME Sound, UNCHANGED notified, NEW event, event.src = "remote", ignored' = ignored \cup {event}
    PROVE  RemovalsPending'
<1>1. NoRemoval({event})
    BY DEF NoRemoval
<1> QED
    BY <1>1, RemovalsKept, JobFacts DEF Sound

LEMMA CreateContentCalm ==
    ASSUME Sound, Calm, Faults = {}, CreateContent
    PROVE  GoesOn
<1>1. At("CreatedOnRemote", "start") /\ UNCHANGED <<table, disk, notified>>
    BY DEF CreateContent, Sys
<1>2. PICK path \in DOMAIN disk :
        /\ Sharing(path) /\ Now.path = path /\ job.todo = <<OnPath("CreatedOnRemote", path)>>
        /\ job.at = "start" /\ job.changes = <<>>
    BY <1>1, HandIs DEF Midway
<1>3. Silent /\ ReadyCreated(path) /\ path \in Path
    BY <1>2, RowFacts DEF Sharing, Shares, Sound, TreeOK
<1>4. PICK parent : parent = ParentId(path)
    OBVIOUS
<1>5. ParentIsDir(path) /\ Only({}, {path}) /\ path \notin Columns /\ (Len(path) # 1 => Front(path) # path)
    BY <1>3, PathExtend DEF ReadyCreated
<1>6. /\ Below(path, parent) /\ LiveParent(parent)
      /\ (parent # Root => parent \in DOMAIN remote /\ remote[parent].type = "folder")
    <2>1. CASE Len(path) # 1
        BY <1>3, <1>4, <1>5, <2>1, FolderAbove
    <2>2. CASE Len(path) = 1
        BY <1>4, <2>2 DEF ParentId, Below, LiveParent
    <2> QED
        BY <2>1, <2>2
<1>7. \A other \in Visible : ~(remote[other].name = Last(path) /\ remote[other].parent = parent)
    <2>1. \A row \in DOMAIN table \ {} : table[row].path # path
        BY <1>5 DEF Columns
    <2> QED
        BY <1>3, <1>5, <1>6, <2>1, NoHomonym
<1>8. Homonyms(Root, Last(path), parent) = {}
    BY <1>7 DEF Homonyms, Visible
<1>9. PICK type, bytes : type = TypeAt(path) /\ bytes = (IF IsFile(path) THEN disk[path].bytes ELSE NoBytes)
    OBVIOUS
<1>10. CASE \E error : Fail(error)
    <2>1. UNCHANGED remote
        <3>1. PICK error : Fail(error)
            BY <1>10
        <3>2. job'.at = "failed"
            BY <3>1, JobFacts DEF Fail, IsJob
        <3>3. \A id : job' # [job EXCEPT !.id = id, !.at = IF type = "file" THEN "fill" ELSE "get"]
            BY <3>2, JobFacts DEF IsJob
        <3> QED
            BY <1>2, <1>4, <1>6, <1>8, <1>9, <3>3 DEF CreateContent, Timeout, Broken, Exists
    <2> QED
        BY <1>1, <1>10, <2>1, FailsCalm
<1>11. CASE ~\E error : Fail(error)
    <2>1. PICK id \in NewIds :
            /\ Create(id, Last(path), parent, type, bytes)
            /\ Expect({RemoteEvent("Created", id)})
            /\ job' = [job EXCEPT !.id = id, !.at = IF type = "file" THEN "fill" ELSE "get"]
        BY <1>2, <1>4, <1>6, <1>8, <1>9, <1>11 DEF CreateContent, Timeout, Broken, Exists
    <2>2. id \notin DOMAIN remote /\ id \notin DOMAIN table
        BY RowFacts DEF NewIds, Sound
    <2>3. PICK event : event = RemoteEvent("Created", id)
        OBVIOUS
    <2>4. event.kind = "Created" /\ event.src = "remote" /\ ignored' = ignored \cup {event}
        BY <2>1, <2>3 DEF RemoteEvent, Expect
    <2>5. PICK content : content = NewContent(Last(path), parent, type, bytes)
        OBVIOUS
    <2>6. /\ content.name = Last(path) /\ content.parent = parent /\ content.type = type
          /\ content.bytes = bytes /\ content.status = "live"
        BY <2>5 DEF NewContent
    <2>7. remote' = [i \in DOMAIN remote \cup {id} |-> IF i = id THEN content ELSE remote[i]]
        BY <2>1, <2>5 DEF Create, WithContent
    <2>8. SpaceEdit(id) /\ id \in DOMAIN remote' /\ remote'[id] = content
        BY <2>2, <2>7 DEF SpaceEdit
    <2>9. tlm' = Own(<<event>>)
        <3>1. PICK queue, more : queue = tlm /\ more = queue \o Own(<<event>>) /\ more = tlm'
            BY <2>1, <2>3 DEF Create, Tell
        <3> QED
            BY <1>3, <3>1, NoneFirst DEF Silent
    <2>10. Expected(tlm)' /\ Echoes(tlm)'
        <3>1. PICK queue : queue = Own(<<event>>)
            OBVIOUS
        <3>2. Expected(queue)' /\ Echoes(queue)'
            BY <2>4, <3>1, OneEcho
        <3> QED
            BY <2>9, <3>1, <3>2 DEF Expected, Echoes, Again, Live, IsFile, Exists
    <2>11. Only({id}, {path})'
        <3>1. Only({id}, {path})
            BY <1>5, <2>2, OnlyWider
        <3> QED
            BY <1>1, <2>8, <3>1, OnlyEdited DEF Sound
    <2>12. TypeAt(path) = disk[path].type /\ type \in {"file", "folder"} /\ (type = "folder" => bytes = NoBytes)
        <3>1. disk[path].type \in {"file", "folder"}
            BY <1>2, RowFacts DEF Sound, TreeOK, Entry
        <3> QED
            BY <1>2, <1>9, <3>1 DEF TypeAt, IsDir, IsFile, Exists
    <2>13. TableOK' /\ Alone' /\ FoldersPlain'
        <3>1. /\ remote'[id].parent # Root =>
                    /\ remote'[id].parent \in DOMAIN remote /\ remote'[id].parent # id
                    /\ remote[remote'[id].parent].type = "folder"
              /\ \A other \in Visible \ {id} :
                    ~(remote[other].name = remote'[id].name /\ remote[other].parent = remote'[id].parent)
              /\ remote'[id].type = "folder" => remote'[id].bytes = NoBytes
            BY <1>6, <1>7, <2>2, <2>6, <2>8, <2>12
        <3> QED
            BY <1>1, <2>8, <3>1, Edited
    <2>14. RemovalsPending'
        BY <1>1, <2>4, RemovalsRest
    <2>15. Lacking(id)' /\ Fits(id, path)'
        <3>1. LiveParent(parent)'
            BY <1>6, <2>2, <2>8 DEF LiveParent, Live, SpaceEdit
        <3>2. Live(id)' /\ remote'[id].parent = parent /\ parent # id
            BY <1>6, <2>2, <2>6, <2>8, RootAssumption DEF Live, LiveParent, NewIds
        <3>3. Below(path, parent)'
            BY <1>1, <1>6, <2>8, BelowEdited DEF Sound
        <3>4. Below(path, remote[id].parent)'
            BY <3>2, <3>3 DEF Below
        <3>5. LiveParent(remote[id].parent)'
            BY <3>1, <3>2 DEF LiveParent, Live
        <3> QED
            BY <1>1, <2>2, <2>6, <2>8, <3>2, <3>4, <3>5 DEF Lacking, Fits
    <2>16. /\ job'.at = (IF type = "file" THEN "fill" ELSE "get") /\ job'.id = id
           /\ job'.todo = job.todo /\ job'.changes = <<>>
        BY <1>2, <2>1, JobFacts DEF IsJob
    <2>17. path \in DOMAIN disk' /\ disk'[path].type = remote'[id].type /\ notified' = <<>>
        BY <1>1, <1>3, <1>9, <2>6, <2>8, <2>12 DEF Silent
    <2>18. type # "file" => InFolder(id, path)'
        BY <1>1, <1>9, <2>6, <2>8, <2>12, <2>17 DEF InFolder
    <2>19. Shares(id, path)'
        BY <2>6, <2>8, <2>10, <2>11, <2>15, <2>16, <2>17, <2>18 DEF Shares
    <2>20. OnHand'
        <3>1. job'.todo # <<>> /\ job'.todo = <<OnPath("CreatedOnRemote", path)>>
            BY <1>2, <2>16
        <3>2. Sharing(path)'
            BY <2>8, <2>19 DEF Sharing
        <3> QED
            BY <2>16, <2>17, <3>1, <3>2 DEF OnHand
    <2> QED
        BY <2>13, <2>14, <2>16, <2>20, HandGoes DEF Midway
<1> QED
    BY <1>10, <1>11

(* What a calm upload never needs. *)
LEMMA NothingToAdopt ==
    ASSUME Sound, Calm, job.at \in {"find", "compare"}
    PROVE  FALSE
<1>1. OnHand
    BY DEF Calm, BetweenEvents
<1> QED
    BY <1>1 DEF OnHand, Bringing, Brings, Refreshing, Clearing, Sharing, Shares, Saving, Saves,
                Relocating, Relocates, Discarding

LEMMA AdoptCalm ==
    ASSUME Sound, Calm
    PROVE  ~FindExisting /\ ~CompareExisting
BY NothingToAdopt DEF FindExisting, CompareExisting, At

(* What only the file of one content tells apart. *)
LEMMA FillShares ==
    ASSUME Sound, UNCHANGED <<table, disk>>, NEW id, Live(id), remote[id].parent # id,
           NEW bytes, remote' = Filled(id, bytes), remote[id].type = "file"
    PROVE  /\ SpaceEdit(id) /\ id \in DOMAIN remote' /\ TableOK' /\ Alone' /\ FoldersPlain'
           /\ remote'[id].type = "file" /\ remote'[id].bytes = bytes
           /\ remote'[id].parent = remote[id].parent /\ remote'[id].name = remote[id].name
           /\ Live(id)'
           /\ (LiveParent(remote[id].parent) => LiveParent(remote[id].parent)')
           /\ \A path : Fits(id, path) => Fits(id, path)'
<1>0. id \in DOMAIN remote
    BY DEF Live
<1>1. /\ SpaceEdit(id) /\ id \in DOMAIN remote' /\ remote'[id].bytes = bytes
      /\ remote'[id].name = remote[id].name /\ remote'[id].parent = remote[id].parent
      /\ remote'[id].type = remote[id].type /\ remote'[id].status = remote[id].status
    BY <1>0, FieldsEdited DEF Sound
<1>2. TableOK' /\ Alone' /\ FoldersPlain'
    <2>1. /\ remote'[id].parent # Root =>
                /\ remote'[id].parent \in DOMAIN remote /\ remote'[id].parent # id
                /\ remote[remote'[id].parent].type = "folder"
        BY <1>0, <1>1 DEF Sound, ParentsHold
    <2>2. \A other \in Visible \ {id} :
             ~(remote[other].name = remote'[id].name /\ remote[other].parent = remote'[id].parent)
        BY <1>0, <1>1 DEF Sound, Alone, Visible
    <2> QED
        BY <1>1, <2>1, <2>2, Edited
<1>3. Live(id)'
    BY <1>0, <1>1 DEF Live
<1>4. LiveParent(remote[id].parent) => LiveParent(remote[id].parent)'
    <2>1. PICK parent : parent = remote[id].parent /\ parent # id
        OBVIOUS
    <2>2. Live(parent)' = Live(parent)
        BY <1>1, <2>1, OthersKept DEF Sound
    <2> QED
        BY <1>1, <2>1, <2>2 DEF LiveParent, Live
<1>5. ASSUME NEW path, Fits(id, path)
      PROVE  Fits(id, path)'
    <2>1. PICK parent : parent = remote[id].parent
        OBVIOUS
    <2>2. Below(path, parent)'
        BY <1>1, <1>5, <2>1, BelowEdited DEF Sound, Fits
    <2> QED
        BY <1>1, <1>5, <2>1, <2>2 DEF Fits, Below
<1> QED
    BY <1>1, <1>2, <1>3, <1>4, <1>5

(* An upload tells the space once more. *)
LEMMA UploadTells ==
    ASSUME Sound, NEW id, Expected(tlm), NEW event, event = RemoteEvent("Updated", id),
           tlm' = tlm \o Own(<<event>>), ignored' = ignored \cup {event},
           Live(id)', remote'[id].type = "file"
    PROVE  Echoes(tlm)'
<1>1. event.kind = "Updated" /\ event.src = "remote" /\ event.id = id
    BY DEF RemoteEvent
<1>2. PICK queue, more : queue = tlm /\ more = tlm'
    OBVIOUS
<1>3. Again(event)'
    BY <1>1 DEF Again
<1>4. Expected(queue)
    BY <1>2 DEF Expected
<1>5. queue \in Seq(Message(RemoteEvents(DOMAIN remote))) /\ more = queue \o Own(<<event>>)
    BY <1>2, JobFacts
<1>6. Echoes(more)'
    BY <1>1, <1>3, <1>4, <1>5, OneMoreAgain
<1> QED
    <2>1. tlm' = more
        BY <1>2
    <2>2. /\ \A k \in DOMAIN more : more[k].own /\ more[k].event.kind # "Left"
          /\ \A k \in DOMAIN more :
                \/ k = Len(more) /\ Again(more[k].event)'
                \/ more[k].event \in ignored' /\ \A j \in 1..(k - 1) : more[j].event # more[k].event
        BY <1>6 DEF Echoes, Again, Live, IsFile, Exists
    <2> QED
        BY <2>1, <2>2 DEF Echoes, Again, Live, IsFile, Exists

LEMMA FillContentCalm ==
    ASSUME Sound, Calm, Faults = {}, FillContent
    PROVE  GoesOn
<1>1. At("CreatedOnRemote", "fill") /\ UNCHANGED <<table, disk, notified>>
    BY DEF FillContent, Sys
<1>2. PICK path \in DOMAIN disk :
        /\ Sharing(path) /\ Now.path = path /\ job.todo = <<OnPath("CreatedOnRemote", path)>>
        /\ job.at = "fill" /\ job.changes = <<>>
    BY <1>1, HandIs DEF Midway
<1>3. PICK id \in DOMAIN remote : Shares(id, path)
    BY <1>2 DEF Sharing
<1>4. /\ job.id = id /\ notified = <<>> /\ Lacking(id) /\ Fits(id, path) /\ Only({id}, {path})
      /\ disk[path].type = remote[id].type /\ Expected(tlm) /\ remote[id].type = "file"
    BY <1>2, <1>3 DEF Shares
<1>5. Live(id) /\ remote[id].parent # id /\ LiveParent(remote[id].parent) /\ id \notin DOMAIN table
    BY <1>4 DEF Lacking
<1>6. CanFill(id, path)
    BY <1>2, <1>4, <1>5 DEF CanFill, IsFile, Exists
<1>7. PICK event : event = RemoteEvent("Updated", id)
    OBVIOUS
<1>8. /\ remote' = Filled(id, disk[path].bytes) /\ tlm' = tlm \o Own(<<event>>)
      /\ ignored' = ignored \cup {event} /\ Goto("get")
    BY <1>2, <1>4, <1>6, <1>7 DEF FillContent, Upload, Fill, Tell, Expect, Broken, RepliesLost
<1>9. /\ SpaceEdit(id) /\ id \in DOMAIN remote' /\ TableOK' /\ Alone' /\ FoldersPlain'
      /\ remote'[id].type = "file" /\ remote'[id].bytes = disk[path].bytes
      /\ remote'[id].parent = remote[id].parent /\ remote'[id].name = remote[id].name
      /\ Live(id)' /\ LiveParent(remote[id].parent)' /\ Fits(id, path)'
    BY <1>1, <1>4, <1>5, <1>8, FillShares
<1>10. Echoes(tlm)'
    BY <1>4, <1>7, <1>8, <1>9, UploadTells
<1>11. Only({id}, {path})'
    BY <1>1, <1>4, <1>9, OnlyEdited DEF Sound
<1>12. /\ job'.at = "get" /\ job'.id = id /\ job'.todo = job.todo /\ job'.changes = <<>>
    BY <1>2, <1>4, <1>8, JobFacts DEF IsJob, Goto
<1>13. Lacking(id)' /\ InFolder(id, path)'
    BY <1>1, <1>2, <1>4, <1>5, <1>9 DEF Lacking, InFolder
<1>14. Shares(id, path)'
    BY <1>1, <1>2, <1>4, <1>9, <1>10, <1>11, <1>12, <1>13 DEF Shares
<1>15. Sharing(path)' /\ path \in DOMAIN disk' /\ job'.todo # <<>>
    BY <1>1, <1>2, <1>9, <1>12, <1>14 DEF Sharing
<1>16. RemovalsPending'
    <2>1. event.src = "remote"
        BY <1>7 DEF RemoteEvent
    <2> QED
        BY <1>1, <1>8, <2>1, RemovalsRest
<1> QED
    BY <1>2, <1>9, <1>12, <1>15, <1>16, HandGoes DEF Midway, OnHand

LEMMA SharesStay ==
    ASSUME UNCHANGED <<table, remote, disk, tlm, notified, ignored>>, NEW id, NEW path, Shares(id, path),
           job.at = "get", job'.id = id, job'.at = "stat", job'.got = remote[id]
    PROVE  Shares(id, path)'
<1>1. Only({id}, {path})' /\ Echoes(tlm)'
    <2>1. PICK queue : queue = tlm
        OBVIOUS
    <2>2. Echoes(queue)'
        BY <2>1, EchoesStay DEF Shares
    <2> QED
        BY <2>1, <2>2, OnlyKept DEF Shares, Echoes, Again, Live, IsFile, Exists
<1>2. Lacking(id)' /\ Fits(id, path)' /\ InFolder(id, path)'
    BY SamePlacing DEF Shares, InFolder
<1> QED
    BY <1>1, <1>2 DEF Shares

LEMMA GetCreatedCalm ==
    ASSUME Sound, Calm, Faults = {}, GetCreated
    PROVE  GoesOn
<1>1. At("CreatedOnRemote", "get") /\ UNCHANGED <<table, remote, disk, tlm, notified, ignored>>
    BY DEF GetCreated, GetContent, Sys, world
<1>2. PICK path \in DOMAIN disk :
        /\ Sharing(path) /\ job.todo = <<OnPath("CreatedOnRemote", path)>>
        /\ job.at = "get" /\ job.changes = <<>>
    BY <1>1, HandIs DEF Midway
<1>3. PICK id \in DOMAIN remote : Shares(id, path) /\ job.id = id /\ Live(id)
    BY <1>2 DEF Sharing, Shares, Lacking
<1>4. job' = [job EXCEPT !.at = "stat", !.got = remote[id]]
    BY <1>3 DEF GetCreated, GetContent, Fetch, Broken, Live
<1>5. /\ job'.at = "stat" /\ job'.id = id /\ job'.got = remote[id] /\ job'.todo = job.todo
      /\ job'.changes = <<>>
    BY <1>2, <1>3, <1>4, JobFacts DEF IsJob
<1>6. Shares(id, path)'
    BY <1>1, <1>2, <1>3, <1>5, SharesStay
<1>7. Sharing(path)' /\ path \in DOMAIN disk' /\ job'.todo # <<>>
    BY <1>1, <1>2, <1>5, <1>6 DEF Sharing
<1> QED
    BY <1>1, <1>2, <1>5, <1>7, JobGoesOn DEF Midway, OnHand

LEMMA StatContentCalm ==
    ASSUME Sound, Calm, Faults = {}, StatContent
    PROVE  GoesOn
<1>1. At("CreatedOnRemote", "stat") /\ UNCHANGED <<table, remote, disk, tlm, notified, ignored>>
    BY DEF StatContent, Stat, Sys, world
<1>2. PICK path \in DOMAIN disk :
        /\ Sharing(path) /\ Now.path = path /\ job.at = "stat" /\ job.changes = <<>> /\ Len(job.todo) = 1
    BY <1>1, HandIs DEF Midway
<1>3. PICK id \in DOMAIN remote : Shares(id, path)
    BY <1>2 DEF Sharing
<1>4. /\ job.id = id /\ job.got = remote[id] /\ notified = <<>> /\ Echoes(tlm) /\ InFolder(id, path)
      /\ Only({id}, {path}) /\ Lacking(id) /\ Fits(id, path)
    BY <1>2, <1>3 DEF Shares
<1>6. PICK c : c = AddChange(id, path, remote[id].rev, remote[id].parent, Stamp(path))
    OBVIOUS
<1>7. CASE \E error : Fail(error)
    BY <1>1, <1>7, FailsCalm
<1>8. CASE Done(<<c>>)
    <2>1. c.change = "Add" /\ c.id = id /\ c.path = path /\ c.parent = remote[id].parent
        BY <1>6 DEF AddChange
    <2>2. EchoesUp'
        BY <1>1, <1>4, EchoesDownStay DEF EchoesUp
    <2>3. Placed(id, path)' /\ Lacking(id)'
        BY <1>1, <1>4, PlacedStays, SamePlacing DEF Placed
    <2>4. RecordsAdd(c)'
        BY <1>1, <2>1, <2>2, <2>3 DEF RecordsAdd
    <2> QED
        BY <1>1, <1>2, <1>8, <2>4, RecordsOne
<1> QED
    BY <1>2, <1>4, <1>6, <1>7, <1>8 DEF StatContent, Stat

LEMMA NothingExpected ==
    ASSUME NEW queue, queue = <<>>
    PROVE  Expected(queue) /\ Echoes(queue)
<1>1. DOMAIN queue = {}
    OBVIOUS
<1> QED
    BY <1>1 DEF Expected, Echoes

LEMMA UploadModifiedCalm ==
    ASSUME Sound, Calm, Faults = {}, UploadModified
    PROVE  GoesOn
<1>1. At("ModifiedOnRemote", "start") /\ UNCHANGED <<table, disk, notified>>
    BY DEF UploadModified, Sys
<1>2. PICK path \in DOMAIN disk :
        /\ Saving(path) /\ Now.path = path /\ job.todo = <<OnPath("ModifiedOnRemote", path)>>
        /\ job.at = "start" /\ job.changes = <<>>
    BY <1>1, HandIs DEF Midway
<1>3. Silent /\ ReadyModified(path)
    BY <1>2 DEF Saving, Saves
<1>4. PICK id \in DOMAIN table :
        /\ IsFile(path) /\ InSpace(id) /\ table[id].path = path
        /\ remote[id].type = "file" /\ Only({id}, {path})
    BY <1>3 DEF ReadyModified, Rewritten
<1>5. /\ ContentIdForPath(table, path) = id /\ id # Root /\ PathOf(table, id) = path /\ HasPath(table, id)
      /\ Live(id) /\ remote[id].parent # id /\ table[id].parent = remote[id].parent /\ Fits(id, path)
    BY <1>4, RowAt, NotInItself DEF Sound, InSpace
<1>6. CanFill(id, path) /\ TypeAt(path) = "file"
    BY <1>4, <1>5 DEF CanFill, TypeAt, IsFile, IsDir, Exists
<1>7. PICK event : event = RemoteEvent("Updated", id)
    OBVIOUS
<1>8. /\ remote' = Filled(id, disk[path].bytes) /\ tlm' = tlm \o Own(<<event>>)
      /\ ignored' = ignored \cup {event} /\ job' = [job EXCEPT !.id = id, !.at = "get"]
    BY <1>2, <1>4, <1>5, <1>6, <1>7 DEF UploadModified, Upload, Fill, Tell, Expect, RepliesLost
<1>9. /\ SpaceEdit(id) /\ id \in DOMAIN remote' /\ TableOK' /\ Alone' /\ FoldersPlain'
      /\ remote'[id].type = "file" /\ remote'[id].bytes = disk[path].bytes
      /\ remote'[id].parent = remote[id].parent /\ Live(id)' /\ Fits(id, path)'
    BY <1>1, <1>4, <1>5, <1>8, FillShares
<1>10. Echoes(tlm)'
    <2>1. Expected(tlm)
        BY <1>3, NothingExpected DEF Silent
    <2> QED
        BY <1>7, <1>8, <1>9, <2>1, UploadTells
<1>11. Only({id}, {path})'
    BY <1>1, <1>4, <1>9, OnlyEdited DEF Sound
<1>12. /\ job'.at = "get" /\ job'.id = id /\ job'.todo = job.todo /\ job'.changes = <<>>
    BY <1>2, <1>8, JobFacts DEF IsJob
<1>13. Fits(id, table[id].path)'
    BY <1>1, <1>4, <1>9 DEF Fits, Below
<1>14. Rewritten(id, path)' /\ InFolder(id, path)'
    BY <1>1, <1>2, <1>4, <1>5, <1>9, <1>11, <1>13 DEF Rewritten, InFolder, InSpace, IsFile, Exists
<1>15. EchoesUp'
    BY <1>1, <1>3, <1>10 DEF EchoesUp, Silent
<1>16. Saves(id, path)'
    BY <1>12, <1>14, <1>15 DEF Saves
<1>17. Saving(path)' /\ path \in DOMAIN disk' /\ job'.todo # <<>>
    BY <1>1, <1>2, <1>12, <1>16 DEF Saving
<1>18. RemovalsPending'
    <2>1. event.src = "remote"
        BY <1>7 DEF RemoteEvent
    <2> QED
        BY <1>1, <1>8, <2>1, RemovalsRest
<1> QED
    BY <1>2, <1>9, <1>12, <1>17, <1>18, HandGoes DEF Midway, OnHand

LEMMA RewrittenStays ==
    ASSUME UNCHANGED <<table, remote, disk>>, NEW id, NEW path, Rewritten(id, path), InFolder(id, path)
    PROVE  Rewritten(id, path)' /\ InFolder(id, path)'
<1>1. Only({id}, {path})' /\ InSpace(id)'
    BY OnlyKept, SamePlacing DEF Rewritten
<1> QED
    BY <1>1 DEF Rewritten, InFolder, IsFile, Exists

LEMMA GetModifiedCalm ==
    ASSUME Sound, Calm, Faults = {}, GetModified
    PROVE  GoesOn
<1>1. At("ModifiedOnRemote", "get") /\ UNCHANGED <<table, remote, disk, tlm, notified, ignored>>
    BY DEF GetModified, GetContent, Sys, world
<1>2. PICK path \in DOMAIN disk :
        /\ Saving(path) /\ job.todo = <<OnPath("ModifiedOnRemote", path)>>
        /\ job.at = "get" /\ job.changes = <<>>
    BY <1>1, HandIs DEF Midway
<1>3. PICK id \in DOMAIN table :
        job.id = id /\ EchoesUp /\ Rewritten(id, path) /\ InFolder(id, path) /\ Live(id)
    BY <1>2 DEF Saving, Saves, Rewritten, InSpace
<1>4. job' = [job EXCEPT !.at = "stat", !.got = remote[id]]
    BY <1>3 DEF GetModified, GetContent, Fetch, Broken, Live
<1>5. /\ job'.at = "stat" /\ job'.id = id /\ job'.got = remote'[id] /\ job'.todo = job.todo
      /\ job'.changes = <<>>
    BY <1>1, <1>2, <1>3, <1>4, JobFacts DEF IsJob
<1>6. EchoesUp' /\ Rewritten(id, path)' /\ InFolder(id, path)'
    BY <1>1, <1>3, RewrittenStays, EchoesDownStay
<1>7. Saves(id, path)'
    BY <1>5, <1>6 DEF Saves
<1>8. Saving(path)' /\ path \in DOMAIN disk' /\ job'.todo # <<>>
    BY <1>1, <1>2, <1>5, <1>7 DEF Saving
<1> QED
    BY <1>1, <1>2, <1>5, <1>8, JobGoesOn DEF Midway, OnHand

LEMMA StatModifiedCalm ==
    ASSUME Sound, Calm, Faults = {}, StatModified
    PROVE  GoesOn
<1>1. At("ModifiedOnRemote", "stat") /\ UNCHANGED <<table, remote, disk, tlm, notified, ignored>>
    BY DEF StatModified, Stat, Sys, world
<1>2. PICK path \in DOMAIN disk :
        Saving(path) /\ job.at = "stat" /\ job.changes = <<>> /\ Len(job.todo) = 1
    BY <1>1, HandIs DEF Midway
<1>3. PICK id \in DOMAIN table :
        /\ job.id = id /\ job.got = remote[id] /\ EchoesUp /\ InFolder(id, path)
        /\ Only({id}, {path}) /\ InSpace(id) /\ table[id].path = path /\ remote[id].type = "file"
    BY <1>2 DEF Saving, Saves, Rewritten
<1>4. /\ PathOf(table, id) = path /\ id \in DOMAIN remote /\ path \in Path /\ Live(id) /\ Fits(id, path)
    BY <1>3, RowAt DEF Sound, InSpace
<1>6. Turning(id)
    <2>1. remote[id].parent # Root => remote[id].parent \in DOMAIN table /\ remote[id].parent # id
        BY <1>3, <1>4, NotInItself DEF Fits, Below
    <2>2. remote[id].parent # Root => Live(remote[id].parent)
        <3>1. PICK parent : parent = remote[id].parent
            OBVIOUS
        <3>2. parent # Root => Agrees(parent)
            BY <1>3, <2>1, <3>1 DEF Only
        <3> QED
            BY <3>1, <3>2 DEF Agrees, InSpace
    <2> QED
        BY <1>3, <1>4, <2>2 DEF Turning, LiveParent
<1>7. PICK c : c = UpdateChange(id, remote[id].name, remote[id].rev, remote[id].parent, Stamp(path))
    OBVIOUS
<1>8. CASE \E error : Fail(error)
    BY <1>1, <1>8, FailsCalm
<1>9. CASE Done(<<c>>)
    <2>1. c.change = "Update" /\ c.id = id /\ c.name = remote[id].name /\ c.parent = remote[id].parent
        BY <1>7 DEF UpdateChange
    <2>2. EchoesUp'
        BY <1>1, <1>3, EchoesDownStay
    <2>3. Placed(id, path)' /\ Turning(id)'
        BY <1>1, <1>3, <1>4, <1>6, PlacedStays, SamePlacing DEF Placed
    <2>4. RecordsUpdate(c)'
        BY <1>1, <2>1, <2>2, <2>3 DEF RecordsUpdate
    <2> QED
        BY <1>1, <1>2, <1>9, <2>4, RecordsOne
<1> QED
    BY <1>3, <1>4, <1>7, <1>8, <1>9 DEF StatModified, Stat

-------------------------------------------------------------------------------
(* A file renamed on the disk. *)
LEMMA DisplacedFacts ==
    ASSUME Sound, NEW id, NEW from, NEW to, Displaced(id, from, to)
    PROVE  /\ id \in DOMAIN table /\ id \in DOMAIN remote /\ id # Root /\ Live(id) /\ remote[id].type = "file"
           /\ from \in Path /\ to \in Path /\ to \in DOMAIN disk /\ table[id].path = from /\ from # to
           /\ ContentIdForPath(table, from) = id /\ PathOf(table, id) = from /\ HasPath(table, id)
           /\ table[id].parent = ParentId(from) /\ table[id].parent # id
           /\ Below(from, table[id].parent) /\ LiveParent(table[id].parent)
           /\ Below(to, ParentId(to)) /\ LiveParent(ParentId(to)) /\ ParentId(to) # id
           /\ (ParentId(to) # Root =>
                 ParentId(to) \in DOMAIN remote /\ remote[ParentId(to)].type = "folder")
           /\ (table[id].parent # Root =>
                 table[id].parent \in DOMAIN remote /\ remote[table[id].parent].type = "folder")
<1>1. /\ id \in DOMAIN table /\ table[id].path = from /\ remote[id].type = "file" /\ Live(id) /\ from # to
      /\ InFolder(id, to) /\ ParentIsDir(to)
      /\ (table[id].parent # Root => Live(table[id].parent))
    BY DEF Displaced
<1>2. PICK rows : Only(rows, {to}) /\ id \in rows
    BY DEF Displaced
<1>3. /\ from \in Path /\ ContentIdForPath(table, from) = id /\ PathOf(table, id) = from
      /\ HasPath(table, id) /\ id \in DOMAIN remote /\ id # Root
    BY <1>1, RowAt DEF Sound
<1>4. to \in DOMAIN disk /\ to \in Path
    BY <1>1, RowFacts DEF InFolder, Sound, TreeOK
<1>5. Below(from, table[id].parent)
    BY <1>1 DEF Sound, ColumnsNested
<1>6. /\ table[id].parent = ParentId(from)
      /\ (table[id].parent # Root =>
            table[id].parent \in DOMAIN table /\ remote[table[id].parent].type = "folder")
    BY <1>3, <1>5, BelowColumn DEF Below, Sound
<1>7. table[id].parent # id /\ (table[id].parent # Root => table[id].parent \in DOMAIN remote)
    BY <1>1, <1>3, <1>6, RowFacts DEF Sound
<1>8. CASE Len(to) = 1
    <2>1. ParentId(to) = Root /\ Below(to, ParentId(to)) /\ LiveParent(ParentId(to))
        BY <1>8 DEF ParentId, Below, LiveParent
    <2> QED
        BY <1>1, <1>3, <1>4, <1>5, <1>6, <1>7, <2>1 DEF LiveParent
<1>9. CASE Len(to) # 1
    <2>1. Front(to) # to
        BY <1>4, <1>9, PathExtend
    <2>2. Front(to) \notin {to}
        BY <2>1
    <2>3. /\ Below(to, ParentId(to)) /\ LiveParent(ParentId(to))
          /\ (ParentId(to) # Root => ParentId(to) \in DOMAIN remote /\ remote[ParentId(to)].type = "folder")
        BY <1>1, <1>2, <1>4, <2>2, FolderAbove
    <2>4. ParentId(to) # id
        BY <1>1, <1>3, <2>3
    <2> QED
        BY <1>1, <1>3, <1>4, <1>5, <1>6, <1>7, <2>3, <2>4 DEF LiveParent
<1> QED
    BY <1>8, <1>9

LEMMA DisplacedStays ==
    ASSUME Sound, UNCHANGED <<table, disk>>, NEW id, NEW from, NEW to, Displaced(id, from, to),
           NEW edited, SpaceEdit(edited), edited = id \/ edited \in Rows(to),
           remote'[id].type = remote[id].type, remote'[id].bytes = remote[id].bytes,
           Live(id)', table[id].parent # Root => Live(table[id].parent)'
    PROVE  Displaced(id, from, to)'
<1>1. PICK rows \in SUBSET DOMAIN table : rows = {id} \cup Rows(to) /\ Only(rows, {to})
    BY DEF Displaced
<1>2. rows = {id} \cup Rows(to)' /\ rows \in SUBSET DOMAIN table' /\ Rows(to)' = Rows(to)
    BY <1>1 DEF Rows
<1>3. Only(rows, {to})'
    BY <1>1, OnlyEdited DEF Sound
<1>4. InFolder(id, to)' /\ ParentIsDir(to)'
    BY DEF Displaced, InFolder, ParentIsDir, IsDir, Exists
<1>5. \A other \in Rows(to) : remote'[other].type = "file"
    <2> SUFFICES ASSUME NEW other \in Rows(to) PROVE remote'[other].type = "file"
        OBVIOUS
    <2>1. other \in DOMAIN remote /\ remote[other].type = "file"
        BY RowFacts DEF Sound, Rows, Displaced
    <2> QED
        BY <2>1 DEF SpaceEdit
<1>6. (table[id].parent # Root => Live(table[id].parent))'
    BY DEF Live
<1> QED
    BY <1>2, <1>3, <1>4, <1>5, <1>6 DEF Displaced

(* With the former folder goes the file replaced there. *)
LEMMA NoneReplaced ==
    ASSUME Sound, NEW id, NEW from, NEW to, Displaced(id, from, to), Undisturbed(to),
           remote[id].name = Last(to), remote[id].parent = ParentId(to)
    PROVE  Rows(to) = {}
<1> SUFFICES ASSUME NEW other \in Rows(to) PROVE FALSE
    OBVIOUS
<1>1. InSpace(other) /\ other \in DOMAIN table /\ table[other].path = to
    BY DEF Undisturbed, Rows
<1>2. remote[other].name = Last(to) /\ Below(to, remote[other].parent) /\ Live(other)
    BY <1>1 DEF InSpace, Fits
<1>3. to \in Path /\ Live(id) /\ table[id].path # to
    BY DisplacedFacts
<1>4. remote[other].parent = ParentId(to)
    BY <1>2, <1>3, BelowColumn DEF Sound
<1> QED
    BY <1>1, <1>2, <1>3, <1>4 DEF Sound, Alone, Visible, Live

LEMMA SameFolder ==
    ASSUME NEW from \in Path, NEW to \in Path, Front(from) = Front(to)
    PROVE  ParentId(from) = ParentId(to)
<1>1. ASSUME NEW path \in Path
      PROVE  Len(Front(path)) = Len(path) - 1
    <2>1. path \in Seq(Names) /\ Len(path) \in Nat /\ Len(path) # 0 /\ path = [i \in 1..Len(path) |-> path[i]]
        BY DEF Path
    <2>2. CASE Len(path) = 1
        <3>1. PICK name : path = <<name>>
            BY <2>1, <2>2
        <3>2. Front(path) = <<>>
            BY <3>1 DEF Front
        <3> QED
            BY <2>2, <3>2
    <2>3. CASE Len(path) # 1
        BY <2>3, FrontPrefix
    <2> QED
        BY <2>2, <2>3
<1>2. Len(from) \in Nat /\ Len(to) \in Nat
    BY DEF Path
<1>3. Len(from) = Len(to)
    <2>1. Len(Front(from)) = Len(from) - 1 /\ Len(Front(to)) = Len(to) - 1
        BY <1>1
    <2> QED
        BY <1>2, <2>1
<1> QED
    BY <1>3 DEF ParentId

LEMMA NamedHand ==
    ASSUME TableOK', Alone', FoldersPlain', RemovalsPending', NEW from \in Columns', NEW to \in DOMAIN disk',
           NEW id \in DOMAIN table', Relocates(id, from, to)', job'.todo = <<OnRename(from, to)>>,
           job'.changes = <<>>
    PROVE  GoesOn
<1>1. Relocating(from, to)' /\ job'.todo # <<>>
    BY DEF Relocating
<1>2. job'.at \in Midway
    BY DEF Relocates, Midway
<1> QED
    BY <1>1, <1>2, HandGoes DEF OnHand

LEMMA UndisturbedStays ==
    ASSUME Sound, UNCHANGED table, NEW id, SpaceEdit(id), NEW to, Undisturbed(to), id \notin Rows(to)
    PROVE  Undisturbed(to)'
<1>1. Rows(to)' = Rows(to)
    BY DEF Rows
<1>2. \A other \in Rows(to) : InSpace(other)'
    <2> SUFFICES ASSUME NEW other \in Rows(to) PROVE InSpace(other)'
        OBVIOUS
    <2>1. InSpace(other) /\ other # id
        BY DEF Undisturbed
    <2> QED
        BY <2>1, StillInSpace DEF Sound
<1> QED
    BY <1>1, <1>2 DEF Undisturbed

(* A file gets its new label. *)
LEMMA RelabelCalm ==
    ASSUME Sound, UNCHANGED <<table, disk, notified>>, NEW id, NEW from, NEW to, Displaced(id, from, to),
           InSpace(id), Undisturbed(to), Silent, job.mods = <<>>, job.todo = <<OnRename(from, to)>>,
           job.changes = <<>>, Homonyms(id, Last(to), remote[id].parent) = {},
           Relabel(id, Last(to)), Expect({RemoteEvent("Updated", id)}),
           NEW rev, job' = [job EXCEPT !.at = "move", !.id = id, !.got = rev]
    PROVE  GoesOn
<1>1. /\ id \in DOMAIN table /\ id \in DOMAIN remote /\ Live(id) /\ remote[id].type = "file"
      /\ table[id].path = from /\ from # to /\ to \in DOMAIN disk /\ table[id].parent # id
      /\ LiveParent(table[id].parent) /\ table[id].parent = remote[id].parent
      /\ (remote[id].parent # Root =>
            remote[id].parent \in DOMAIN remote /\ remote[remote[id].parent].type = "folder")
    BY DisplacedFacts DEF InSpace
<1>2. PICK event : event = RemoteEvent("Updated", id)
    OBVIOUS
<1>3. event.kind = "Updated" /\ event.src = "remote"
    BY <1>2 DEF RemoteEvent
<1>4. /\ remote' = Labelled(id, Last(to)) /\ tlm' = tlm \o Own(<<event>>)
      /\ ignored' = ignored \cup {event}
    BY <1>2 DEF Relabel, Tell, Expect
<1>5. /\ SpaceEdit(id) /\ id \in DOMAIN remote' /\ remote'[id].name = Last(to)
      /\ remote'[id].bytes = remote[id].bytes /\ remote'[id].parent = remote[id].parent
      /\ remote'[id].type = remote[id].type /\ remote'[id].status = remote[id].status
    BY <1>1, <1>4, FieldsEdited DEF Sound
<1>6. Live(id)'
    BY <1>1, <1>5 DEF Live
<1>7. TableOK' /\ Alone' /\ FoldersPlain'
    <2>1. \A other \in Visible \ {id} :
             ~(remote[other].name = Last(to) /\ remote[other].parent = remote[id].parent)
        BY DEF Homonyms, Visible
    <2>2. remote'[id].type = "folder" => remote'[id].bytes = NoBytes
        BY <1>1, <1>5
    <2> QED
        BY <1>1, <1>5, <2>1, <2>2, Edited
<1>8. table[id].parent # Root => Live(table[id].parent)'
    <2>1. PICK parent : parent = table[id].parent /\ parent # id
        BY <1>1
    <2>2. Live(parent)' = Live(parent)
        BY <1>5, <2>1, OthersKept DEF Sound
    <2> QED
        BY <1>1, <2>1, <2>2 DEF LiveParent, Live
<1>9. Displaced(id, from, to)'
    BY <1>5, <1>6, <1>8, DisplacedStays
<1>10. Undisturbed(to)'
    BY <1>1, <1>5, UndisturbedStays DEF Rows
<1>11. tlm' = <<[event |-> event, own |-> TRUE]>> /\ Expected(tlm)'
    <2>1. PICK queue, more : queue = tlm /\ more = queue \o Own(<<event>>) /\ more = tlm'
        BY <1>4
    <2>2. more = Own(<<event>>)
        BY <2>1, NoneFirst DEF Silent
    <2>3. Expected(more)' /\ more = <<[event |-> event, own |-> TRUE]>>
        BY <1>3, <1>4, <2>2, OneEcho
    <2> QED
        BY <2>1, <2>3 DEF Expected
<1>12. \A k \in DOMAIN tlm' : tlm'[k].event.kind = "Updated"
    BY <1>3, <1>11
<1>13. /\ job'.at = "move" /\ job'.id = id /\ job'.mods = <<>> /\ job'.todo = job.todo
       /\ job'.changes = <<>> /\ notified' = <<>>
    BY JobFacts DEF IsJob, Silent
<1>14. Relocates(id, from, to)'
    BY <1>1, <1>5, <1>9, <1>10, <1>11, <1>12, <1>13 DEF Relocates
<1>15. RemovalsPending'
    BY <1>3, <1>4, RemovalsRest
<1>16. from \in Columns' /\ to \in DOMAIN disk' /\ id \in DOMAIN table'
    BY <1>1 DEF Columns
<1> QED
    BY <1>7, <1>13, <1>14, <1>15, <1>16, NamedHand

LEMMA DisplacedRests ==
    ASSUME UNCHANGED <<table, remote, disk>>, NEW id, NEW from, NEW to, Displaced(id, from, to)
    PROVE  Displaced(id, from, to)' /\ (Undisturbed(to) => Undisturbed(to)') /\ Rows(to)' = Rows(to)
<1>1. PICK rows \in SUBSET DOMAIN table : rows = {id} \cup Rows(to) /\ Only(rows, {to})
    BY DEF Displaced
<1>2. Only(rows, {to})' /\ Rows(to)' = Rows(to)
    BY <1>1, OnlyKept DEF Rows
<1>3. \A row : InSpace(row) => InSpace(row)'
    BY SamePlacing
<1>4. InFolder(id, to)' /\ ParentIsDir(to)' /\ Live(id)'
      /\ (table[id].parent # Root => Live(table[id].parent))'
    BY DEF Displaced, InFolder, ParentIsDir, IsDir, Exists, Live
<1>5. Displaced(id, from, to)'
    BY <1>1, <1>2, <1>4 DEF Displaced
<1> QED
    BY <1>2, <1>3, <1>5 DEF Undisturbed

LEMMA SetLabelCalm ==
    ASSUME Sound, Calm, Faults = {}, SetLabel
    PROVE  GoesOn
<1>1. At("NamedOnRemote", "start") /\ UNCHANGED <<table, disk, notified>>
    BY DEF SetLabel, Sys
<1>2. PICK from \in Columns, to \in DOMAIN disk :
        /\ Relocating(from, to) /\ Now.path = from /\ Now.after = to
        /\ job.todo = <<OnRename(from, to)>> /\ job.at = "start" /\ job.changes = <<>>
    BY <1>1, HandIs DEF Midway
<1>3. Silent /\ job.mods = <<>> /\ ReadyNamed(from, to)
    BY <1>2 DEF Relocating, Relocates
<1>4. PICK id \in DOMAIN table : Displaced(id, from, to) /\ InSpace(id) /\ Undisturbed(to)
    BY <1>3 DEF ReadyNamed
<1>5. /\ ContentIdForPath(table, from) = id /\ PathOf(table, id) = from /\ HasPath(table, id) /\ id # Root
      /\ Live(id) /\ remote[id].type = "file" /\ table[id].path = from
    BY <1>4, DisplacedFacts
<1>6. TypeAt(from) = "file" /\ TypeAt(to) = "file"
    BY <1>4, <1>5 DEF Displaced, InFolder, TypeAt, IsDir, Exists
<1>7. ~NamedFails(id) /\ FileName(table, id) = Last(from) /\ remote[id].name = Last(from)
    BY <1>2, <1>4, <1>5, <1>6 DEF NamedFails, FileName, InSpace, Fits
<1>8. CASE \E error : Fail(error)
    <2>1. UNCHANGED remote
        <3>1. job'.at = "failed"
            BY <1>8, JobFacts DEF Fail, IsJob
        <3>2. \A rev : job' # [job EXCEPT !.at = "move", !.id = id, !.got = rev]
            BY <3>1, JobFacts DEF IsJob
        <3> QED
            BY <1>2, <1>5, <1>7, <3>2 DEF SetLabel, Broken
    <2> QED
        BY <1>1, <1>8, <2>1, FailsCalm
<1>9. CASE ~(\E error : Fail(error)) /\ Last(from) # Last(to)
    <2>1. /\ Homonyms(id, Last(to), remote[id].parent) = {} /\ Relabel(id, Last(to))
          /\ Expect({RemoteEvent("Updated", id)})
          /\ job' = [job EXCEPT !.at = "move", !.id = id, !.got = AnsweredRevision(id)]
        BY <1>2, <1>5, <1>7, <1>9 DEF SetLabel, Broken
    <2> QED
        BY <1>1, <1>2, <1>3, <1>4, <2>1, RelabelCalm
<1>10. CASE ~(\E error : Fail(error)) /\ Last(from) = Last(to)
    <2>1. /\ UNCHANGED <<ignored, remote, tlm>>
          /\ job' = [job EXCEPT !.at = "move", !.id = id, !.got = table[id].rev]
        BY <1>2, <1>5, <1>7, <1>10 DEF SetLabel, Broken
    <2>2. /\ job'.at = "move" /\ job'.id = id /\ job'.mods = <<>> /\ job'.todo = job.todo
          /\ job'.changes = <<>> /\ notified' = <<>> /\ tlm' = <<>>
        BY <1>1, <1>2, <1>3, <2>1, JobFacts DEF IsJob, Silent
    <2>3. Displaced(id, from, to)' /\ Undisturbed(to)'
        BY <1>1, <1>4, <2>1, DisplacedRests
    <2>4. Expected(tlm)' /\ \A k \in DOMAIN tlm' : tlm'[k].event.kind = "Updated"
        BY <2>2 DEF Expected
    <2>5. remote'[id].name = Last(to) /\ remote'[id].parent = table'[id].parent
        BY <1>1, <1>4, <1>7, <1>10, <2>1 DEF InSpace
    <2>6. Relocates(id, from, to)'
        BY <2>2, <2>3, <2>4, <2>5 DEF Relocates
    <2>7. TableOK' /\ Alone' /\ FoldersPlain' /\ RemovalsPending'
        BY <1>1, <2>1, TableStays, SidesStay DEF Sound, RemovalsPending
    <2>8. from \in Columns' /\ to \in DOMAIN disk' /\ id \in DOMAIN table'
        BY <1>1, <1>2 DEF Columns
    <2> QED
        BY <1>2, <2>2, <2>6, <2>7, <2>8, NamedHand
<1> QED
    BY <1>8, <1>9, <1>10

(* What was replaced stays so. *)
LEMMA ReplacedStays ==
    ASSUME Sound, UNCHANGED table, NEW id, SpaceEdit(id), NEW to, NEW mods, Replaced(mods, to),
           id \notin Rows(to)
    PROVE  Replaced(mods, to)'
<1>1. Rows(to)' = Rows(to)
    BY DEF Rows
<1>2. \A other \in Rows(to) : ~Live(other) => ~Live(other)'
    <2> SUFFICES ASSUME NEW other \in Rows(to), ~Live(other) PROVE ~Live(other)'
        OBVIOUS
    <2> QED
        BY OthersKept DEF Sound
<1> QED
    BY <1>1, <1>2 DEF Replaced

(* A file gets its new parent. *)
LEMMA ReparentCalm ==
    ASSUME Sound, UNCHANGED <<table, disk, notified>>, NEW id, NEW from, NEW to,
           Relocates(id, from, to), job.at \in {"move", "again"}, Replaced(job.mods, to),
           job.todo = <<OnRename(from, to)>>, job.changes = <<>>,
           Homonyms(id, remote[id].name, ParentId(to)) = {}, from \in Columns,
           Reparent(id, ParentId(to)), Expect({RemoteEvent("Updated", id)}),
           NEW rev, job' = [job EXCEPT !.at = "stat", !.got = rev]
    PROVE  GoesOn
<1>0. /\ Displaced(id, from, to) /\ Expected(tlm) /\ job.id = id /\ notified = <<>>
      /\ remote[id].name = Last(to)
    BY DEF Relocates
<1>1. /\ id \in DOMAIN table /\ id \in DOMAIN remote /\ Live(id) /\ remote[id].type = "file"
      /\ table[id].path = from /\ from # to /\ to \in DOMAIN disk /\ table[id].parent # id
      /\ LiveParent(table[id].parent)
    BY <1>0, DisplacedFacts
<1>2. PICK parent : parent = ParentId(to)
    OBVIOUS
<1>3. /\ LiveParent(parent) /\ parent # id
      /\ (parent # Root => parent \in DOMAIN remote /\ remote[parent].type = "folder")
    BY <1>0, <1>2, DisplacedFacts
<1>4. PICK event : event = RemoteEvent("Updated", id)
    OBVIOUS
<1>5. /\ remote' = Parented(id, parent) /\ tlm' = tlm \o Own(<<event>>)
      /\ ignored' = ignored \cup {event} /\ event.src = "remote"
    BY <1>2, <1>4 DEF Reparent, Tell, Expect, RemoteEvent
<1>6. /\ SpaceEdit(id) /\ id \in DOMAIN remote' /\ remote'[id].parent = parent
      /\ remote'[id].bytes = remote[id].bytes /\ remote'[id].name = remote[id].name
      /\ remote'[id].type = remote[id].type /\ remote'[id].status = remote[id].status
    BY <1>1, <1>5, FieldsEdited DEF Sound
<1>7. Live(id)'
    BY <1>1, <1>6 DEF Live
<1>8. TableOK' /\ Alone' /\ FoldersPlain'
    <2>1. \A other \in Visible \ {id} :
             ~(remote[other].name = remote'[id].name /\ remote[other].parent = remote'[id].parent)
        BY <1>2, <1>6 DEF Homonyms, Visible
    <2>2. remote'[id].type = "folder" => remote'[id].bytes = NoBytes
        BY <1>1, <1>6
    <2> QED
        BY <1>1, <1>3, <1>6, <2>1, <2>2, Edited
<1>9. ASSUME NEW above, above # id, LiveParent(above)
      PROVE  above # Root => Live(above)'
    <2>1. Live(above)' = Live(above)
        BY <1>6, <1>9, OthersKept DEF Sound
    <2> QED
        BY <1>9, <2>1 DEF LiveParent
<1>10. table[id].parent # Root => Live(table[id].parent)'
    <2>1. PICK above : above = table[id].parent
        OBVIOUS
    <2>2. above # Root => Live(above)'
        BY <1>1, <1>9, <2>1
    <2> QED
        BY <2>1, <2>2 DEF Live
<1>11. Displaced(id, from, to)'
    BY <1>0, <1>6, <1>7, <1>10, DisplacedStays
<1>12. Echoes(tlm)'
    BY <1>0, <1>1, <1>4, <1>5, <1>6, <1>7, UploadTells
<1>13. LiveParent(remote[id].parent)' /\ remote'[id].parent = ParentId(to)'
    <2>1. parent = ParentId(to)'
        BY <1>2 DEF ParentId
    <2>2. parent # Root => Live(parent)'
        BY <1>3, <1>9
    <2> QED
        BY <1>6, <2>1, <2>2 DEF LiveParent, Live
<1>14. PICK mods : mods = job.mods
    OBVIOUS
<1>15. Replaced(mods, to)'
    <2>1. id \notin Rows(to)
        BY <1>1 DEF Rows
    <2> QED
        BY <1>6, <1>14, <2>1, ReplacedStays
<1>16. /\ job'.at = "stat" /\ job'.id = id /\ job'.mods = mods /\ job'.todo = job.todo
       /\ job'.changes = <<>> /\ notified' = <<>>
    BY <1>0, <1>14, JobFacts DEF IsJob
<1>17. Replaced(job.mods, to)'
    BY <1>15, <1>16 DEF Replaced
<1>18. Relocates(id, from, to)'
    BY <1>0, <1>6, <1>11, <1>12, <1>13, <1>16, <1>17 DEF Relocates
<1>19. RemovalsPending'
    BY <1>5, RemovalsRest
<1>20. from \in Columns' /\ to \in DOMAIN disk' /\ id \in DOMAIN table'
    BY <1>1 DEF Columns
<1> QED
    BY <1>8, <1>16, <1>18, <1>19, <1>20, NamedHand

(* The steps of a renaming that only look. *)
LEMMA RelocatesOn ==
    ASSUME Sound, UNCHANGED <<table, remote, disk, tlm, notified, ignored>>, NEW id, NEW from, NEW to,
           Relocates(id, from, to), from \in Columns, job.todo = <<OnRename(from, to)>>,
           job.changes = <<>>, NEW point, Goto(point),
           \/ /\ point = "replace" /\ job.at = "move" /\ Front(from) # Front(to)
           \/ /\ point = "stat" /\ Replaced(job.mods, to) /\ Front(from) = Front(to)
    PROVE  GoesOn
<1>1. /\ Displaced(id, from, to) /\ notified = <<>> /\ remote[id].name = Last(to) /\ job.id = id
    BY DEF Relocates
<1>2. job.at # "stat" => Expected(tlm) /\ remote[id].parent = table[id].parent
    BY DEF Relocates
<1>3. /\ job'.at = point /\ job'.id = id /\ job'.mods = job.mods /\ job'.todo = job.todo
      /\ job'.changes = <<>> /\ notified' = <<>>
    BY <1>1, JobFacts DEF IsJob, Goto
<1>4. Displaced(id, from, to)' /\ (Undisturbed(to) => Undisturbed(to)') /\ Rows(to)' = Rows(to)
    BY <1>1, DisplacedRests
<1>5. /\ table[id].parent = ParentId(from) /\ LiveParent(table[id].parent) /\ from \in Path /\ to \in Path
      /\ to \in DOMAIN disk /\ id \in DOMAIN table
    BY <1>1, DisplacedFacts
<1>6. (Expected(tlm) => Expected(tlm)') /\ (Echoes(tlm) => Echoes(tlm)')
    BY DEF Expected, Echoes, Again, Live, IsFile, Exists
<1>7. tlm \in Seq(Message(RemoteEvents(DOMAIN remote))) /\ (Expected(tlm) => Echoes(tlm))
    BY JobFacts, ExpectedEchoes
<1>8. Replaced(job.mods, to) => Replaced(job.mods, to)'
    BY <1>3, <1>4 DEF Replaced, Live
<1>9. point = "stat" => /\ LiveParent(remote[id].parent)' /\ remote'[id].parent = ParentId(to)'
    <2>1. CASE job.at = "stat"
        BY <2>1 DEF Relocates, LiveParent, Live, ParentId
    <2>2. CASE job.at # "stat"
        <3>1. point = "stat" => ParentId(from) = ParentId(to)
            BY <1>5, SameFolder
        <3>2. point = "stat" => remote[id].parent = ParentId(to) /\ LiveParent(remote[id].parent)
            BY <1>2, <1>5, <2>2, <3>1
        <3> QED
            BY <3>2 DEF LiveParent, Live, ParentId
    <2> QED
        BY <2>1, <2>2
<1>10. CASE point = "replace"
    <2>1. Undisturbed(to) /\ job.mods = <<>> /\ \A k \in DOMAIN tlm : tlm[k].event.kind = "Updated"
        BY <1>10 DEF Relocates
    <2>2. Expected(tlm)' /\ Undisturbed(to)' /\ remote'[id].parent = table'[id].parent
        BY <1>2, <1>4, <1>6, <1>10, <2>1
    <2> HIDE DEF Goto
    <2>3. Relocates(id, from, to)'
        BY <1>1, <1>3, <1>4, <1>10, <2>1, <2>2 DEF Relocates
    <2> QED
        BY <1>3, <1>5, <2>3, NamedHand, TableStays, SidesStay DEF Sound, RemovalsPending, Columns
<1>11. CASE point = "stat"
    <2>1. Echoes(tlm)'
        BY <1>2, <1>6, <1>7 DEF Relocates
    <2>2. Replaced(job.mods, to)'
        BY <1>8, <1>11
    <2>3. Relocates(id, from, to)'
        BY <1>1, <1>3, <1>4, <1>9, <1>11, <2>1, <2>2 DEF Relocates
    <2> QED
        BY <1>3, <1>5, <2>3, NamedHand, TableStays, SidesStay DEF Sound, RemovalsPending, Columns
<1> QED
    BY <1>10, <1>11

LEMMA SetParentAtCalm ==
    ASSUME Sound, Calm, Faults = {}, NEW point \in {"move", "again"}, SetParentAt(point)
    PROVE  GoesOn
<1>1. At("NamedOnRemote", point) /\ UNCHANGED <<table, disk, notified>>
    BY DEF SetParentAt, Sys
<1>2. PICK from \in Columns, to \in DOMAIN disk :
        /\ Relocating(from, to) /\ Now.path = from /\ Now.after = to
        /\ job.todo = <<OnRename(from, to)>> /\ job.at = point /\ job.changes = <<>>
    BY <1>1, HandIs DEF Midway
<1>3. PICK id \in DOMAIN table : Relocates(id, from, to)
    BY <1>2 DEF Relocating
<1>4. Displaced(id, from, to) /\ job.id = id /\ remote[id].name = Last(to)
    BY <1>3 DEF Relocates
<1>5. /\ PathOf(table, id) = from /\ Live(id) /\ LiveParent(ParentId(to)) /\ to \in Path /\ from \in Path
      /\ table[id].parent = ParentId(from)
    BY <1>4, DisplacedFacts
<1>6. point = "again" => Front(from) # Front(to) /\ Replaced(job.mods, to)
    BY <1>2, <1>3 DEF Relocates
<1>7. point = "move" => Undisturbed(to) /\ job.mods = <<>> /\ remote[id].parent = table[id].parent
    BY <1>2, <1>3 DEF Relocates
<1>8. CASE \E error : Fail(error)
    <2>1. UNCHANGED remote
        <3>1. job'.at = "failed"
            BY <1>8, JobFacts DEF Fail, IsJob
        <3>2. job' # [job EXCEPT !.at = "stat", !.got = AnsweredRevision(id)]
            BY <3>1, JobFacts DEF IsJob
        <3> QED
            BY <1>2, <1>4, <3>2 DEF SetParentAt, Timeout, Broken
    <2> QED
        BY <1>1, <1>8, <2>1, FailsCalm
<1>9. CASE ~(\E error : Fail(error)) /\ Front(from) = Front(to)
    <2>1. Goto("stat") /\ UNCHANGED <<ignored, remote, tlm>> /\ point = "move"
        BY <1>2, <1>4, <1>5, <1>6, <1>9 DEF SetParentAt
    <2>2. remote[id].parent = ParentId(to)
        BY <1>5, <1>7, <1>9, <2>1, SameFolder
    <2>3. Rows(to) = {}
        BY <1>4, <1>7, <2>1, <2>2, NoneReplaced
    <2>4. Replaced(job.mods, to)
        BY <1>7, <2>1, <2>3 DEF Replaced
    <2> QED
        BY <1>1, <1>2, <1>3, <1>9, <2>1, <2>4, RelocatesOn
<1>10. CASE ~(\E error : Fail(error)) /\ Front(from) # Front(to)
                /\ Homonyms(id, remote[id].name, ParentId(to)) # {}
    <2>1. Goto("replace") /\ UNCHANGED <<ignored, remote, tlm>> /\ point = "move"
        BY <1>2, <1>4, <1>5, <1>10 DEF SetParentAt, Timeout, Broken
    <2> QED
        BY <1>1, <1>2, <1>3, <1>10, <2>1, RelocatesOn
<1>11. CASE ~(\E error : Fail(error)) /\ Front(from) # Front(to)
                /\ Homonyms(id, remote[id].name, ParentId(to)) = {}
    <2>1. /\ Reparent(id, ParentId(to)) /\ Expect({RemoteEvent("Updated", id)})
          /\ job' = [job EXCEPT !.at = "stat", !.got = AnsweredRevision(id)]
        BY <1>2, <1>4, <1>5, <1>11 DEF SetParentAt, Timeout, Broken
    <2>2. Replaced(job.mods, to)
        <3>1. CASE point = "again"
            BY <1>6, <3>1
        <3>2. CASE point = "move"
            <4>1. Rows(to) = {}
                <5> SUFFICES ASSUME NEW other \in Rows(to) PROVE FALSE
                    OBVIOUS
                <5>1. InSpace(other) /\ other \in DOMAIN table /\ table[other].path = to
                    BY <1>7, <3>2 DEF Undisturbed, Rows
                <5>2. remote[other].name = Last(to) /\ Below(to, remote[other].parent) /\ Live(other)
                    BY <5>1 DEF InSpace, Fits
                <5>3. remote[other].parent = ParentId(to)
                    BY <1>5, <5>2, BelowColumn DEF Sound
                <5>4. other # id
                    BY <1>4, <5>1, DisplacedFacts
                <5> QED
                    BY <1>4, <1>11, <5>2, <5>3, <5>4 DEF Homonyms, Live
            <4> QED
                BY <1>7, <3>2, <4>1 DEF Replaced
        <3> QED
            BY <3>1, <3>2
    <2> QED
        BY <1>1, <1>2, <1>3, <1>11, <2>1, <2>2, ReparentCalm
<1> QED
    BY <1>8, <1>9, <1>10, <1>11

(* The homonym to replace is found in the space, *)
LEMMA FindHomonymCalm ==
    ASSUME Sound, Calm, Faults = {}, FindHomonym
    PROVE  GoesOn
<1>1. At("NamedOnRemote", "replace") /\ UNCHANGED <<table, remote, disk, tlm, notified, ignored>>
    BY DEF FindHomonym, Sys, world
<1>2. PICK from \in Columns, to \in DOMAIN disk :
        /\ Relocating(from, to) /\ Now.path = from /\ Now.after = to
        /\ job.todo = <<OnRename(from, to)>> /\ job.at = "replace" /\ job.changes = <<>>
    BY <1>1, HandIs DEF Midway
<1>3. PICK id \in DOMAIN table : Relocates(id, from, to)
    BY <1>2 DEF Relocating
<1>4. /\ Displaced(id, from, to) /\ job.id = id /\ remote[id].name = Last(to) /\ notified = <<>>
      /\ Expected(tlm) /\ remote[id].parent = table[id].parent /\ Undisturbed(to)
      /\ Front(from) # Front(to)
      /\ \A k \in DOMAIN tlm : tlm[k].event.kind = "Updated"
    BY <1>2, <1>3 DEF Relocates
<1>5. Live(id) /\ to \in Path /\ Below(to, ParentId(to))
    BY <1>4, DisplacedFacts
<1>6. CASE \E error : Fail(error)
    BY <1>1, <1>6, FailsCalm
<1>7. CASE ~\E error : Fail(error)
    <2>1. PICK other \in Homonyms(id, Last(to), ParentId(to)) :
            job' = [job EXCEPT !.at = "trash", !.mods = <<ForgotChange(other)>>]
        BY <1>2, <1>4, <1>7 DEF FindHomonym, Timeout, Broken
    <2>2. /\ other \in DOMAIN remote /\ other # id /\ Live(other) /\ remote[other].name = Last(to)
          /\ remote[other].parent = ParentId(to) /\ other \in Visible
        BY <2>1 DEF Homonyms, Visible
    <2>3. PICK rows : rows = {id} \cup Rows(to) /\ Only(rows, {to})
        BY <1>4 DEF Displaced
    <2>4. other \in Rows(to)
        <3>1. \A row \in DOMAIN table \ rows : table[row].path # to
            BY <2>3 DEF Rows
        <3>2. other \in rows
            BY <1>5, <2>2, <2>3, <3>1, NoHomonym
        <3> QED
            BY <2>2, <2>3, <3>2
    <2>5. /\ job'.at = "trash" /\ job'.id = id /\ job'.mods = <<ForgotChange(other)>>
          /\ job'.todo = job.todo /\ job'.changes = <<>> /\ notified' = <<>>
        BY <1>1, <1>2, <1>4, <2>1, JobFacts DEF IsJob
    <2>6. Displaced(id, from, to)' /\ Undisturbed(to)' /\ other \in Rows(to)'
        BY <1>1, <1>4, <2>4, DisplacedRests
    <2>7. Expected(tlm)' /\ \A k \in DOMAIN tlm' : tlm'[k].event.kind = "Updated"
        BY <1>1, <1>4 DEF Expected
    <2>8. Relocates(id, from, to)'
        BY <1>1, <1>4, <2>5, <2>6, <2>7 DEF Relocates
    <2> QED
        BY <1>1, <1>2, <2>5, <2>8, NamedHand, TableStays, SidesStay DEF Sound, RemovalsPending, Columns
<1> QED
    BY <1>6, <1>7

(* then trashed. *)
LEMMA TrashHomonymCalm ==
    ASSUME Sound, Calm, Faults = {}, TrashHomonym
    PROVE  GoesOn
<1>1. At("NamedOnRemote", "trash") /\ UNCHANGED <<table, disk, notified>>
    BY DEF TrashHomonym, Sys
<1>2. PICK from \in Columns, to \in DOMAIN disk :
        /\ Relocating(from, to) /\ Now.path = from /\ Now.after = to
        /\ job.todo = <<OnRename(from, to)>> /\ job.at = "trash" /\ job.changes = <<>>
    BY <1>1, HandIs DEF Midway
<1>3. PICK id \in DOMAIN table : Relocates(id, from, to)
    BY <1>2 DEF Relocating
<1>4. /\ Displaced(id, from, to) /\ job.id = id /\ remote[id].name = Last(to) /\ notified = <<>>
      /\ Expected(tlm) /\ remote[id].parent = table[id].parent /\ Undisturbed(to)
      /\ Front(from) # Front(to)
      /\ \A k \in DOMAIN tlm : tlm[k].event.kind = "Updated"
    BY <1>2, <1>3 DEF Relocates
<1>5. /\ Live(id) /\ to \in Path /\ from \in Path /\ Below(to, ParentId(to)) /\ LiveParent(table[id].parent)
      /\ id \in DOMAIN remote /\ table[id].path = from /\ from # to
      /\ (table[id].parent # Root => remote[table[id].parent].type = "folder")
    BY <1>4, DisplacedFacts
<1>6. CASE \E error : Fail(error)
    <2>1. UNCHANGED remote
        <3>1. job'.at = "failed"
            BY <1>6, JobFacts DEF Fail, IsJob
        <3>2. ~Goto("again")
            BY <3>1, JobFacts DEF IsJob, Goto
        <3> QED
            BY <3>2 DEF TrashHomonym, RepliesLost
    <2> QED
        BY <1>1, <1>6, <2>1, FailsCalm
<1>7. CASE ~\E error : Fail(error)
    <2>1. PICK other \in Rows(to) : job.mods = <<ForgotChange(other)>>
        BY <1>2, <1>3 DEF Relocates
    <2>2. /\ other \in DOMAIN table /\ table[other].path = to /\ remote[other].type = "file"
          /\ InSpace(other) /\ Live(other) /\ other # id /\ other \in DOMAIN remote
        <3>1. other \in DOMAIN table /\ table[other].path = to /\ remote[other].type = "file" /\ InSpace(other)
            BY <1>4, <2>1 DEF Rows, Displaced, Undisturbed
        <3> QED
            BY <1>5, <3>1, RowFacts DEF Sound, InSpace
    <2>3. /\ TrashContent(other) /\ Expect({RemoteEvent("Deleted", other)}) /\ Goto("again")
        <3>1. Head(job.mods).id = other
            BY <2>1 DEF ForgotChange
        <3>2. remote[other].status # "gone"
            BY <2>2 DEF Live
        <3> QED
            BY <1>7, <3>1, <3>2 DEF TrashHomonym, Timeout, Broken
    <2>4. remote[other].parent = ParentId(to)
        <3>1. Below(to, remote[other].parent)
            BY <2>2 DEF InSpace, Fits
        <3> QED
            BY <1>5, <3>1, BelowColumn DEF Sound
    <2>5. other \in Rows(to)
        BY <2>1
    <2>6. PICK event : event = RemoteEvent("Deleted", other)
        OBVIOUS
    <2>7. event.kind = "Deleted" /\ event.src = "remote"
        BY <2>6 DEF RemoteEvent
    <2>8. /\ remote' = Standing(other, "trashed") /\ tlm' = tlm \o Own(<<event>>)
          /\ ignored' = ignored \cup {event}
        BY <2>2, <2>3, <2>6 DEF TrashContent, Trashed, Tell, Expect
    <2>9. /\ SpaceEdit(other) /\ other \in DOMAIN remote' /\ remote'[other].status = "trashed"
          /\ remote'[other].parent = remote[other].parent /\ remote'[other].type = remote[other].type
        BY <2>2, <2>8, FieldsEdited DEF Sound
    <2>10. ~Live(other)' /\ Live(id)' /\ remote'[id] = remote[id]
        <3>1. Live(id)' = Live(id)
            BY <1>1, <2>2, <2>9, OthersKept DEF Sound
        <3>2. remote'[id] = remote[id]
            BY <1>5, <2>2, <2>9 DEF SpaceEdit
        <3> QED
            BY <1>5, <2>9, <3>1, <3>2 DEF Live
    <2>11. TableOK' /\ Alone' /\ FoldersPlain'
        <3>1. /\ remote'[other].parent # Root =>
                    /\ remote'[other].parent \in DOMAIN remote /\ remote'[other].parent # other
                    /\ remote[remote'[other].parent].type = "folder"
              /\ remote'[other].type = "folder" => remote'[other].bytes = NoBytes
            BY <1>5, <2>2, <2>4, <2>9, RowFacts DEF Sound, ParentsHold
        <3> QED
            BY <1>1, <2>9, <2>10, <3>1, Edited
    <2>12. table[id].parent # Root => Live(table[id].parent)'
        <3>1. PICK parent : parent = table[id].parent
            OBVIOUS
        <3>2. parent # Root => parent # other /\ Live(parent)
            BY <1>5, <2>2, <3>1 DEF LiveParent
        <3>3. parent # Root => Live(parent)'
            BY <1>1, <2>9, <3>2, OthersKept DEF Sound
        <3> QED
            BY <1>1, <3>1, <3>3 DEF Live
    <2>13. Displaced(id, from, to)'
        BY <1>1, <1>4, <2>5, <2>9, <2>10, <2>12, DisplacedStays
    <2>14. Expected(tlm)'
        <3>1. PICK queue, more : queue = tlm /\ more = tlm'
            OBVIOUS
        <3>2. queue \in Seq(Message(RemoteEvents(DOMAIN remote))) /\ more = queue \o Own(<<event>>)
            BY <2>8, <3>1, JobFacts
        <3>3. \A k \in DOMAIN queue : queue[k].event # event
            BY <1>4, <2>7, <3>1
        <3>4. Expected(queue)
            BY <1>4, <3>1
        <3>5. event.kind # "Left" /\ ignored \subseteq ignored' /\ event \in ignored'
            BY <2>7, <2>8
        <3>6. Expected(more)'
            BY <3>2, <3>3, <3>4, <3>5, OneMoreExpected
        <3> QED
            BY <3>1, <3>6 DEF Expected
    <2>15. /\ job'.at = "again" /\ job'.id = id /\ job'.mods = <<ForgotChange(other)>>
           /\ job'.todo = job.todo /\ job'.changes = <<>> /\ notified' = <<>>
        BY <1>1, <1>2, <1>4, <2>1, <2>3, JobFacts DEF IsJob, Goto
    <2>16. Replaced(job.mods, to)'
        BY <1>1, <2>5, <2>10, <2>15 DEF Replaced, Rows
    <2>17. Relocates(id, from, to)'
        BY <1>1, <1>4, <2>10, <2>13, <2>14, <2>15, <2>16 DEF Relocates
    <2>18. RemovalsPending'
        BY <1>1, <2>7, <2>8, RemovalsRest
    <2>19. from \in Columns' /\ to \in DOMAIN disk' /\ id \in DOMAIN table'
        BY <1>1, <1>2 DEF Columns
    <2> QED
        BY <1>2, <2>11, <2>15, <2>17, <2>18, <2>19, NamedHand
<1> QED
    BY <1>6, <1>7

LEMMA StatNamedCalm ==
    ASSUME Sound, Calm, Faults = {}, StatNamed
    PROVE  GoesOn
<1>1. At("NamedOnRemote", "stat") /\ UNCHANGED <<table, remote, disk, tlm, notified, ignored>>
    BY DEF StatNamed, Stat, Sys, world
<1>2. PICK from \in Columns, to \in DOMAIN disk :
        /\ Relocating(from, to) /\ Now.after = to /\ job.at = "stat" /\ job.changes = <<>>
        /\ Len(job.todo) = 1
    BY <1>1, HandIs DEF Midway
<1>3. PICK id \in DOMAIN table : Relocates(id, from, to)
    BY <1>2 DEF Relocating
<1>4. /\ Displaced(id, from, to) /\ job.id = id /\ remote[id].name = Last(to) /\ EchoesUp
      /\ LiveParent(remote[id].parent) /\ remote[id].parent = ParentId(to) /\ Replaced(job.mods, to)
    BY <1>2, <1>3 DEF Relocates, EchoesUp
<1>5. /\ Live(id) /\ id \in DOMAIN remote /\ remote[id].type = "file" /\ to \in Path
      /\ Below(to, ParentId(to)) /\ table[id].path # to
    BY <1>4, DisplacedFacts
<1>6. Fits(id, to)
    BY <1>4, <1>5 DEF Fits
<1>7. Turning(id) /\ InFolder(id, to)
    BY <1>4, <1>5 DEF Turning, Displaced
<1>8. PICK rows : rows = {id} \cup Rows(to) /\ Only(rows, {to})
    BY <1>4 DEF Displaced
<1>9. PICK next : next = UpdateChange(id, Last(to), job.got, ParentId(to), Stamp(to))
    OBVIOUS
<1>10. next.change = "Update" /\ next.id = id /\ next.name = remote[id].name /\ next.parent = remote[id].parent
    BY <1>4, <1>9 DEF UpdateChange
<1>11. EchoesUp' /\ Turning(id)' /\ InFolder(id, to)' /\ Only(rows, {to})' /\ Fits(id, to)'
    BY <1>1, <1>4, <1>6, <1>7, <1>8, EchoesDownStay, SamePlacing, OnlyKept DEF InFolder
<1>12. CASE \E error : Fail(error)
    BY <1>1, <1>12, FailsCalm
<1>13. CASE Done(job.mods \o <<next>>) /\ job.mods = <<>>
    <2>1. Rows(to) = {}
        BY <1>4, <1>13 DEF Replaced
    <2>2. <<>> \o <<next>> = <<next>>
        OBVIOUS
    <2>3. rows = {id}
        BY <1>8, <2>1
    <2>4. Placed(id, to)'
        BY <1>11, <2>3 DEF Placed
    <2>5. RecordsUpdate(next)'
        BY <1>1, <1>2, <1>10, <1>11, <2>4 DEF RecordsUpdate
    <2> QED
        BY <1>1, <1>2, <1>13, <2>2, <2>5, RecordsOne
<1>14. CASE Done(job.mods \o <<next>>) /\ job.mods # <<>>
    <2>1. PICK other \in Rows(to) : job.mods = <<ForgotChange(other)>> /\ ~Live(other)
        BY <1>4, <1>14 DEF Replaced
    <2>2. PICK c : c = ForgotChange(other)
        OBVIOUS
    <2>3. c.change = "Forgot" /\ c.id = other
        BY <2>2 DEF ForgotChange
    <2>4. PICK changes : changes = <<c, next>>
        OBVIOUS
    <2>5. <<c>> \o <<next>> = <<c, next>> /\ <<c, next>> \o <<>> = <<c, next>> /\ <<>> \o <<c, next>> = <<c, next>>
        <3>1. <<c>> \in Seq({c, next}) /\ <<next>> \in Seq({c, next}) /\ <<c, next>> \in Seq({c, next})
            OBVIOUS
        <3>2. <<c>> \o <<next>> = <<c, next>>
            <4>1. PICK both : both = <<c>> \o <<next>>
                OBVIOUS
            <4>2. both \in Seq({c, next}) /\ Len(both) = 2 /\ both[1] = c /\ both[2] = next
                BY <3>1, <4>1
            <4>3. Len(<<c, next>>) = 2 /\ <<c, next>>[1] = c /\ <<c, next>>[2] = next
                OBVIOUS
            <4>4. \A k \in 1..2 : both[k] = <<c, next>>[k]
                BY <4>2, <4>3
            <4>5. both = <<c, next>>
                BY <3>1, <4>2, <4>3, <4>4, SeqEqual
            <4> QED
                BY <4>1, <4>5
        <3>3. <<c, next>> \o <<>> = <<c, next>>
            BY <3>1
        <3>4. <<>> \o <<c, next>> = <<c, next>>
            BY <3>1
        <3> QED
            BY <3>2, <3>3, <3>4
    <2>6. Done(<<c, next>>)
        BY <1>14, <2>1, <2>2, <2>5
    <2>7. job'.at = "apply" /\ job'.changes = <<c, next>>
        BY <1>2, <2>5, <2>6, LastDone
    <2>8. other \in DOMAIN table /\ table[other].path = to /\ remote[other].type = "file" /\ other # id
        BY <1>4, <1>5, <2>1 DEF Rows, Displaced
    <2>9. rows = {other, id}
        BY <1>8, <2>8 DEF Rows, Sound, PathsDistinct
    <2>10. Only({other, id}, {to})'
        BY <1>11, <2>9
    <2>11. ~Live(other)'
        BY <1>1, <2>1 DEF Live
    <2>12. RecordsReplaced(c, next)'
        <3>1. c.id = other /\ next.id = id
            BY <1>10, <2>3
        <3>2. Only({c.id, next.id}, {to})'
            BY <2>10, <3>1
        <3>3. Turning(next.id)' /\ InFolder(next.id, to)' /\ ~Live(c.id)' /\ Fits(next.id, to)'
            BY <1>11, <2>11, <3>1
        <3>4. next.name = remote'[next.id].name /\ next.parent = remote'[next.id].parent
            BY <1>1, <1>10, <3>1
        <3>5. c.id \in DOMAIN table' /\ remote'[c.id].type = "file" /\ to = table'[c.id].path /\ next.id # c.id
              /\ to \in DOMAIN disk'
            BY <1>1, <1>2, <2>8, <3>1
        <3> QED
            BY <1>10, <1>11, <2>3, <3>2, <3>3, <3>4, <3>5 DEF RecordsReplaced
    <2>13. Recording' /\ job'.changes # <<>>
        <3>1. Len(<<c, next>>) = 2 /\ <<c, next>>[1] = c /\ <<c, next>>[2] = next /\ <<c, next>> # <<>>
            OBVIOUS
        <3> QED
            BY <2>7, <2>12, <3>1 DEF Recording
    <2>14. TableOK' /\ Alone' /\ FoldersPlain' /\ RemovalsPending'
        BY <1>1, TableStays, SidesStay DEF Sound, RemovalsPending
    <2> QED
        BY <2>7, <2>13, <2>14, RecordGoes
<1> QED
    BY <1>2, <1>4, <1>9, <1>12, <1>13, <1>14 DEF StatNamed, Stat

(* Rest is not a matter of the job. *)
LEMMA RestStays ==
    ASSUME UNCHANGED <<table, remote, disk, tlm, notified, ignored>>, AtEase, job.at # "idle"
    PROVE  AtEase'
<1>1. CASE Only({}, {}) /\ (EchoesDown \/ EchoesUp)
    BY <1>1, OnlyKept, EchoesDownStay DEF AtEase
<1>2. CASE Sweeping({})
    BY <1>2, SweepStays DEF AtEase
<1>3. CASE Sinking
    BY <1>3 DEF AtEase, Sinking, OwnDeletions, Unexpected, Reported, Columns
<1> QED
    BY <1>1, <1>2, <1>3 DEF AtEase, Asked

LEMMA RowRecorded ==
    ASSUME Sound, job.at = "apply", UNCHANGED <<remote, disk, tlm, notified, ignored>>,
           job' = [job EXCEPT !.changes = Tail(@)], TableOK', NEW c, job.changes = <<c>>, AtEase'
    PROVE  GoesOn
<1>1. Tail(<<c>>) = <<>>
    OBVIOUS
<1>2. job'.at = "apply" /\ job'.changes = <<>>
    BY <1>1, JobFacts DEF IsJob
<1> QED
    BY <1>2, SidesStay, RestGoes DEF Sound, RemovalsPending, BetweenEvents

(* What stood below what the user deleted was recorded before. *)
LEMMA ForgotSwept ==
    ASSUME Sound, UNCHANGED <<remote, disk, tlm, notified, ignored>>, NEW id \in DOMAIN table,
           table' = ForgotWithChildren(table, id), Sweeping({id}), ~Live(id)
    PROVE  TableOK' /\ Sweeping({})'
<1>1. PICK gone : gone = RowsGone /\ Only(gone, {}) /\ id \in gone
    BY DEF Sweeping
<1>2. PICK path \in Path : table[id].path = path /\ path \notin DOMAIN disk
    BY <1>1, RowFacts DEF Sound, RowsGone
<1>3. RowsUnder(path) = {id}
    <2>1. ASSUME NEW row \in RowsUnder(path), row # id
          PROVE  FALSE
        <3>1. row \in DOMAIN table /\ IsPrefix(path, table[row].path) /\ table[row].path # path
            BY <1>2, <2>1 DEF RowsUnder, Sound, PathsDistinct
        <3>2. table[row].path \notin DOMAIN disk
            BY <1>2, <3>1 DEF Sound, Rooted
        <3>3. row \in RowsGone \ {id}
            BY <2>1, <3>1, <3>2 DEF RowsGone
        <3>4. table[row].path \in Reported
            BY <3>3 DEF Sweeping
        <3> QED
            BY <1>2, <3>1, <3>4 DEF Sweeping
    <2>2. id \in RowsUnder(path)
        BY <1>2, PrefixOrder DEF RowsUnder
    <2> QED
        BY <2>1, <2>2
<1>4. /\ DOMAIN table' = DOMAIN table \ {id}
      /\ \A row \in DOMAIN table' : table'[row] = table[row]
      /\ \A row \in DOMAIN table' : InSpace(row) => InSpace(row)'
      /\ TableOK'
    BY <1>2, <1>3, ForgetsRows
<1>5. PICK apart : apart = gone \ {id}
    OBVIOUS
<1>6. Only(apart, {})'
    BY <1>1, <1>2, <1>3, <1>5, OnlyForgotten
<1>7. apart = RowsGone'
    BY <1>1, <1>4, <1>5 DEF RowsGone
<1>8. Expected(tlm)' /\ Reported' = Reported
      /\ \A k \in DOMAIN tlm' : tlm'[k].event.kind = "Deleted" /\ ~Live(tlm[k].event.id)'
    BY DEF Sweeping, Expected, Reported, Live
<1>9. \A k \in DOMAIN notified' :
         /\ ~notified'[k].own /\ notified'[k].event = LocalEvent("Deleted", notified'[k].event.path)
         /\ \E row \in apart : table'[row].path = notified'[k].event.path
    <2>1. \A row \in apart : row \in DOMAIN table' /\ table'[row] = table[row]
        BY <1>1, <1>4, <1>5 DEF RowsGone
    <2> QED
        BY <1>1, <1>5, <2>1 DEF Sweeping
<1>10. \A j, k \in DOMAIN notified' :
          j < k => ~IsPrefix(notified'[j].event.path, notified'[k].event.path)
    BY DEF Sweeping
<1>11. \A row \in apart : table'[row].path \in Reported' /\ InSpace(row)'
    <2> SUFFICES ASSUME NEW row \in apart PROVE table'[row].path \in Reported' /\ InSpace(row)'
        OBVIOUS
    <2>1. row \in DOMAIN table' /\ row \in RowsGone \ {id}
        BY <1>1, <1>4, <1>5 DEF RowsGone
    <2> QED
        BY <1>4, <1>8, <2>1 DEF Sweeping
<1>12. apart = RowsGone' \ {}
    BY <1>7
<1> QED
    BY <1>4, <1>6, <1>7, <1>8, <1>9, <1>10, <1>11, <1>12 DEF Sweeping

LEMMA ForgotCalm ==
    ASSUME Sound, job.at = "apply", UNCHANGED <<remote, disk, tlm, notified, ignored>>, NEW c,
           RecordsForgot(c), table' = ForgotWithChildren(table, c.id)
    PROVE  TableOK' /\ AtEase'
<1>1. PICK id \in DOMAIN table : id = c.id
    BY DEF RecordsForgot
<1>2. CASE Sweeping({id}) /\ ~Live(id)
    BY <1>1, <1>2, ForgotSwept DEF AtEase
<1>3. CASE ~(Sweeping({id}) /\ ~Live(id))
    <2>1. PICK rows : rows = RowsUnder(table[id].path)
        OBVIOUS
    <2>2. /\ OwnDeletions /\ RowsGone = rows
          /\ \A row \in DOMAIN table : table[row].path \in Reported => row \in RowsGone
          /\ \/ Unexpected
             \/ RowsGone = {id} /\ ~Live(id) /\ Only({id}, {}) /\ EchoesDown
        BY <1>1, <1>3, <2>1 DEF RecordsForgot
    <2>3. /\ DOMAIN table' = DOMAIN table \ rows /\ id \in rows
          /\ \A row \in DOMAIN table' : table'[row] = table[row]
          /\ TableOK'
        BY <1>1, <2>1, ForgetsRows
    <2>4. CASE Unexpected
        <3>1. OwnDeletions' /\ Unexpected' /\ Reported' = Reported
            BY <2>2, <2>4 DEF OwnDeletions, Unexpected, Reported
        <3>2. \A row \in DOMAIN table' : table'[row].path \notin Reported'
            BY <2>2, <2>3, <3>1
        <3> QED
            BY <2>3, <3>1, <3>2 DEF AtEase, Sinking, Columns
    <2>5. CASE RowsGone = {id} /\ ~Live(id) /\ Only({id}, {}) /\ EchoesDown
        <3>1. rows \subseteq {id} /\ {} = {id} \ rows /\ \A row \in rows : ~Live(row)
            BY <2>2, <2>5
        <3>2. Only({}, {})'
            BY <1>1, <2>1, <2>5, <3>1, OnlyForgotten
        <3>3. EchoesDown'
            BY <2>5, EchoesDownStay
        <3> QED
            BY <2>3, <3>2, <3>3 DEF AtEase
    <2> QED
        BY <2>2, <2>4, <2>5
<1> QED
    BY <1>2, <1>3

LEMMA ReplacedCalm ==
    ASSUME Sound, job.at = "apply", UNCHANGED <<remote, disk, tlm, notified, ignored>>, NEW c, NEW next,
           RecordsReplaced(c, next), table' = ForgotWithChildren(table, c.id)
    PROVE  TableOK' /\ RecordsUpdate(next)'
<1>1. PICK id \in DOMAIN table, other \in DOMAIN table : id = c.id /\ other = next.id
    BY DEF RecordsReplaced, Turning
<1>2. /\ ~Live(id) /\ remote[id].type = "file" /\ other # id /\ Turning(other)
      /\ next.change = "Update" /\ next.name = remote[other].name /\ next.parent = remote[other].parent
      /\ EchoesUp
    BY <1>1 DEF RecordsReplaced
<1>3. PICK path \in DOMAIN disk :
        Fits(other, path) /\ path = table[id].path /\ Only({id, other}, {path}) /\ InFolder(other, path)
    BY <1>1 DEF RecordsReplaced
<1>4. RowsUnder(path) = {id}
    BY <1>2, <1>3, FileAlone
<1>5. /\ DOMAIN table' = DOMAIN table \ {id}
      /\ \A row \in DOMAIN table' : table'[row] = table[row]
      /\ TableOK'
    BY <1>1, <1>3, <1>4, ForgetsRows
<1>6. Only({other}, {path})'
    <2>1. {id} \subseteq {id, other} /\ {other} = {id, other} \ {id} /\ \A row \in {id} : ~Live(row)
        BY <1>2
    <2> QED
        BY <1>1, <1>3, <1>4, <2>1, OnlyForgotten
<1>7. Fits(other, path)'
    <2>1. PICK parent : parent = remote[other].parent
        OBVIOUS
    <2>2. Below(path, parent)
        BY <1>3, <2>1 DEF Fits
    <2>3. parent # Root => parent \in DOMAIN table' /\ table'[parent].path = table[parent].path
        BY <1>2, <1>5, <2>2 DEF Below
    <2>4. Below(path, parent)'
        BY <2>2, <2>3, BelowStays
    <2> QED
        BY <1>3, <2>1, <2>4 DEF Fits, Below
<1>8. Placed(other, path)' /\ path \in DOMAIN disk'
    BY <1>3, <1>6, <1>7 DEF Placed, InFolder
<1>9. Turning(other)'
    BY <1>2, <1>5 DEF Turning, Live, LiveParent
<1>10. EchoesUp'
    BY <1>2, EchoesDownStay
<1> QED
    BY <1>1, <1>2, <1>5, <1>8, <1>9, <1>10 DEF RecordsUpdate

LEMMA ApplyChangeCalm ==
    ASSUME Sound, Calm, ApplyChange
    PROVE  GoesOn
<1>1. job.at = "apply" /\ UNCHANGED <<remote, disk, tlm, notified, ignored>>
    BY DEF ApplyChange, world
<1>2. CASE job.changes = <<>>
    <2>1. job' = Idle /\ UNCHANGED table
        BY <1>2 DEF ApplyChange
    <2>2. job'.at = "idle"
        BY <2>1 DEF Idle
    <2>3. AtEase'
        BY <1>1, <1>2, <2>1, RestStays DEF Calm, BetweenEvents
    <2>4. TableOK' /\ Alone' /\ FoldersPlain' /\ RemovalsPending'
        BY <1>1, <2>1, TableStays, SidesStay DEF Sound, RemovalsPending
    <2> QED
        BY <2>2, <2>3, <2>4, RestGoes DEF BetweenEvents
<1>3. CASE job.changes # <<>>
    <2>1. Recording
        BY <1>1, <1>3 DEF Calm, BetweenEvents
    <2>2. CASE Len(job.changes) = 1
        <3>1. PICK c : job.changes = <<c>> /\ (RecordsAdd(c) \/ RecordsUpdate(c) \/ RecordsForgot(c))
            BY <2>1, <2>2 DEF Recording
        <3>2. Head(job.changes) = c
            BY <3>1
        <3>3. CASE \E error : Fail(error)
            <4>1. UNCHANGED table
                <5>1. job'.at = "failed"
                    BY <3>3, JobFacts DEF Fail, IsJob
                <5>2. job' # [job EXCEPT !.changes = Tail(@)]
                    BY <1>1, <5>1, JobFacts DEF IsJob
                <5> QED
                    BY <1>3, <5>2 DEF ApplyChange
            <4> QED
                BY <1>1, <3>3, <4>1, FailsCalm
        <3>4. CASE ~\E error : Fail(error)
            <4>1. table' = Changed(table, c) /\ job' = [job EXCEPT !.changes = Tail(@)]
                BY <1>3, <3>2, <3>4 DEF ApplyChange
            <4>2. CASE RecordsAdd(c)
                <5>1. /\ c.change = "Add" /\ Lacking(c.id) /\ Placed(c.id, c.path)
                      /\ c.parent = remote[c.id].parent /\ (EchoesDown \/ EchoesUp)
                    BY <4>2 DEF RecordsAdd
                <5>2. TableOK' /\ Only({}, {})'
                    BY <1>1, <4>1, <5>1, AddsRow
                <5>3. EchoesDown' \/ EchoesUp'
                    BY <1>1, <5>1, EchoesDownStay
                <5>4. AtEase'
                    BY <5>2, <5>3 DEF AtEase
                <5> QED
                    BY <1>1, <3>1, <4>1, <5>2, <5>4, RowRecorded
            <4>3. CASE RecordsUpdate(c)
                <5>1. PICK path : Placed(c.id, path)
                    BY <4>3 DEF RecordsUpdate
                <5>2. /\ c.change = "Update" /\ Turning(c.id) /\ c.name = remote[c.id].name
                      /\ c.parent = remote[c.id].parent /\ (EchoesDown \/ EchoesUp)
                    BY <4>3 DEF RecordsUpdate
                <5>3. TableOK' /\ Only({}, {})'
                    BY <1>1, <4>1, <5>1, <5>2, UpdatesRow
                <5>4. EchoesDown' \/ EchoesUp'
                    BY <1>1, <5>2, EchoesDownStay
                <5>5. AtEase'
                    BY <5>3, <5>4 DEF AtEase
                <5> QED
                    BY <1>1, <3>1, <4>1, <5>3, <5>5, RowRecorded
            <4>4. CASE RecordsForgot(c)
                <5>1. table' = ForgotWithChildren(table, c.id)
                    BY <4>1, <4>4 DEF RecordsForgot, Changed
                <5>2. TableOK' /\ AtEase'
                    BY <1>1, <4>4, <5>1, ForgotCalm
                <5> QED
                    BY <1>1, <3>1, <4>1, <5>2, RowRecorded
            <4> QED
                BY <3>1, <4>2, <4>3, <4>4
        <3> QED
            BY <3>3, <3>4
    <2>3. CASE Len(job.changes) # 1
        <3>1. PICK c, next : job.changes = <<c, next>> /\ RecordsReplaced(c, next)
            BY <2>1, <2>3 DEF Recording
        <3>2. Head(job.changes) = c /\ Tail(<<c, next>>) = <<next>>
            BY <3>1
        <3>3. c.change = "Forgot" /\ Accepted(table, c)
            BY <3>1 DEF RecordsReplaced, Accepted
        <3>4. table' = Changed(table, c) /\ job' = [job EXCEPT !.changes = Tail(@)]
            BY <1>3, <3>2, <3>3 DEF ApplyChange
        <3>5. table' = ForgotWithChildren(table, c.id)
            BY <3>3, <3>4 DEF Changed
        <3>6. TableOK' /\ RecordsUpdate(next)'
            BY <1>1, <3>1, <3>5, ReplacedCalm
        <3>7. job'.at = "apply" /\ job'.changes = <<next>>
            BY <1>1, <3>1, <3>2, <3>4, JobFacts DEF IsJob
        <3>8. Recording' /\ job'.changes # <<>>
            BY <3>6, <3>7, OneChange
        <3>9. Alone' /\ FoldersPlain' /\ RemovalsPending'
            BY <1>1, SidesStay DEF Sound, RemovalsPending
        <3> QED
            BY <3>6, <3>7, <3>8, <3>9, RecordGoes
    <2> QED
        BY <2>2, <2>3
<1> QED
    BY <1>2, <1>3

-------------------------------------------------------------------------------
(***************************************************************************)
(* The watcher looks at a message of another space.                        *)
(***************************************************************************)
LEMMA LeftAsked ==
    ASSUME Sound, Calm, NEW k \in DOMAIN tlm, tlm[k].event.kind = "Left"
    PROVE  \/ BetweenEvents /\ notified = <<>> /\ Asked(tlm)
           \/ /\ ~BetweenEvents /\ job.at = "start" /\ job.todo # <<>> /\ job.changes = <<>>
              /\ Now.ex = "AbsentFromRemote" /\ job.todo = <<OnPath("AbsentFromRemote", Now.path)>>
              /\ Now.path \notin Columns
<1>1. tlm # <<>> /\ ~Echoes(tlm) /\ ~Expected(tlm)
    <2>1. tlm # <<>>
        OBVIOUS
    <2>2. ~Echoes(tlm)
        BY DEF Echoes
    <2>3. ~Expected(tlm)
        BY DEF Expected
    <2> QED
        BY <2>1, <2>2, <2>3
<1>2. ~Silent /\ ~EchoesDown /\ ~EchoesUp /\ ~OwnDeletions /\ \A hand : ~Sweeping(hand)
    <2>1. ~Silent /\ ~EchoesDown /\ ~EchoesUp /\ ~OwnDeletions
        BY <1>1 DEF Silent, EchoesDown, EchoesUp, OwnDeletions
    <2>2. \A hand : ~Sweeping(hand)
        BY <1>1 DEF Sweeping
    <2> QED
        BY <2>1, <2>2
<1>3. CASE BetweenEvents
    <2>1. AtEase
        BY <1>3 DEF Calm
    <2> QED
        BY <1>1, <1>2, <1>3, <2>1 DEF AtEase, Sinking
<1>4. CASE ~BetweenEvents /\ job.at = "apply"
    <2>1. Recording
        BY <1>4 DEF Calm
    <2>2. \A c : ~RecordsAdd(c) /\ ~RecordsUpdate(c) /\ ~RecordsForgot(c)
        BY <1>2 DEF RecordsAdd, RecordsUpdate, RecordsForgot
    <2>3. \A c, next : ~RecordsReplaced(c, next)
        BY <1>2 DEF RecordsReplaced
    <2> QED
        BY <2>1, <2>2, <2>3 DEF Recording
<1>5. CASE ~BetweenEvents /\ job.at # "apply"
    <2>1. OnHand
        BY <1>5 DEF Calm
    <2>2. \A id \in DOMAIN remote : ~Bringing(id) /\ ~Refreshing(id) /\ ~Clearing(id)
        BY <1>1, <1>2 DEF Bringing, Refreshing, Clearing, Brings
    <2>3. \A path \in DOMAIN disk : ~Sharing(path)
        BY <1>1, <1>2 DEF Sharing, Shares
    <2>4. \A path \in DOMAIN disk : ~Saving(path)
        BY <1>1, <1>2 DEF Saving, Saves
    <2>5. \A from, to : ~Relocating(from, to)
        BY <1>1, <1>2 DEF Relocating, Relocates
    <2>6. Now.ex = "AbsentFromRemote" /\ \E path \in {Now.path} :
            job.todo = <<OnPath("AbsentFromRemote", path)>> /\ Discarding(path)
        BY <2>1, <2>2, <2>3, <2>4, <2>5 DEF OnHand
    <2>7. job.at = "start" /\ Now.path \notin Columns
        BY <1>2, <2>6 DEF Discarding
    <2> QED
        BY <1>5, <2>1, <2>6, <2>7 DEF OnHand
<1> QED
    BY <1>3, <1>4, <1>5

LEMMA LeftMet ==
    ASSUME Sound, NEW event, Meets(event), event.kind = "Left"
    PROVE  \E id \in DOMAIN remote : event = RemoteEvent("Left", id) /\ ReadyAbsent(id)
<1>1. \A id : /\ RemoteEvent("Created", id).kind = "Created" /\ RemoteEvent("Updated", id).kind = "Updated"
              /\ RemoteEvent("Deleted", id).kind = "Deleted"
    BY DEF RemoteEvent
<1>2. \A path : LocalEvent("Created", path).kind = "Created" /\ LocalEvent("Modified", path).kind = "Modified"
    BY DEF LocalEvent
<1>3. \A from, to : RenamedEvent(from, to).kind = "Renamed"
    BY DEF RenamedEvent
<1> QED
    BY <1>1, <1>2, <1>3 DEF Meets

LEMMA ReadyStays ==
    ASSUME UNCHANGED <<table, remote, disk>>, NEW id, ReadyAbsent(id)
    PROVE  ReadyAbsent(id)'
<1>1. PICK path \in DOMAIN disk :
        table[id].path = path /\ OnlyUnder(path) /\ Under(path) \subseteq Columns
    BY DEF ReadyAbsent
<1>2. PICK ids, paths : ids = RowsUnder(path) /\ paths = Under(path) /\ Only(ids, paths)
    BY <1>1 DEF OnlyUnder
<1>3. Only(ids, paths)'
    BY <1>2, OnlyKept
<1>4. ids = RowsUnder(path)' /\ paths = Under(path)' /\ RowsGone' = RowsGone /\ Columns' = Columns
    BY <1>2 DEF RowsUnder, Under, RowsGone, Columns
<1>5. OnlyUnder(path)'
    BY <1>3, <1>4 DEF OnlyUnder
<1>6. Under(path)' \subseteq Columns'
    BY <1>1, <1>2, <1>4
<1>7. Live(id)' = Live(id)
    BY DEF Live
<1> QED
    BY <1>1, <1>4, <1>5, <1>6, <1>7 DEF ReadyAbsent

LEMMA WatchLeftCalm ==
    ASSUME Sound, Calm, WatchLeft
    PROVE  missed' \/ GoesOn
<1>1. PICK k \in DOMAIN tlm :
        /\ tlm[k].event.kind = "Left"
        /\ IF tlm[k].event.id \in DOMAIN table
           THEN tlm' = [tlm EXCEPT ![k] = [event |-> RemoteEvent("Deleted", tlm[k].event.id),
                                           own |-> tlm[k].own]]
           ELSE missed' = TRUE
    BY DEF WatchLeft
<1>2. UNCHANGED <<table, ignored, job, remote, disk, notified>>
    BY DEF WatchLeft, store
<1>3. TableOK' /\ Alone' /\ FoldersPlain' /\ RemovalsPending'
    BY <1>2, TableStays, SidesStay DEF Sound, RemovalsPending
<1>4. CASE BetweenEvents /\ notified = <<>> /\ Asked(tlm)
    <2>1. PICK event \in {tlm[j].event : j \in DOMAIN tlm} :
            tlm = <<[event |-> event, own |-> FALSE]>> /\ Meets(event) /\ job.at = "idle"
        BY <1>4 DEF Asked
    <2>2. k = 1 /\ tlm[k] = [event |-> event, own |-> FALSE]
        <3>1. PICK x : x = [event |-> event, own |-> FALSE]
            OBVIOUS
        <3>2. tlm = <<x>>
            BY <2>1, <3>1
        <3>3. DOMAIN <<x>> = {1} /\ <<x>>[1] = x
            OBVIOUS
        <3> QED
            BY <3>1, <3>2, <3>3
    <2>3. tlm[k].event = event /\ tlm[k].own = FALSE
        BY <2>2
    <2>4. PICK id \in DOMAIN remote : event = RemoteEvent("Left", id) /\ ReadyAbsent(id)
        BY <1>1, <2>1, <2>3, LeftMet
    <2>5. event.id = id /\ id \in DOMAIN table
        BY <2>4 DEF RemoteEvent, ReadyAbsent
    <2>6. PICK m : m = [event |-> RemoteEvent("Deleted", id), own |-> FALSE]
        OBVIOUS
    <2>7. tlm' = [tlm EXCEPT ![1] = m]
        BY <1>1, <2>2, <2>3, <2>5, <2>6
    <2>8. tlm' = <<m>>
        <3>1. \A x : [<<x>> EXCEPT ![1] = m] = <<m>>
            OBVIOUS
        <3> QED
            BY <2>1, <2>7, <3>1
    <2>9. ReadyAbsent(id)'
        BY <1>2, <2>4, ReadyStays
    <2>10. PICK other : other = RemoteEvent("Deleted", id)
        OBVIOUS
    <2>11. Meets(other)'
        BY <1>2, <2>9, <2>10 DEF Meets, RemoteEvent
    <2>12. m = [event |-> other, own |-> FALSE] /\ m.event = other
        BY <2>6, <2>10
    <2>13. other \in {tlm'[j].event : j \in DOMAIN tlm'}
        BY <2>8, <2>12
    <2>14. Asked(tlm)'
        BY <1>2, <2>1, <2>8, <2>11, <2>12, <2>13 DEF Asked
    <2> QED
        BY <1>2, <1>3, <1>4, <2>1, <2>14, RestGoes DEF BetweenEvents, AtEase
<1>5. CASE /\ ~BetweenEvents /\ job.at = "start" /\ job.todo # <<>> /\ job.changes = <<>>
           /\ Now.ex = "AbsentFromRemote" /\ job.todo = <<OnPath("AbsentFromRemote", Now.path)>>
           /\ Now.path \notin Columns
    <2>1. Now' = Now /\ Columns' = Columns
        BY <1>2 DEF Now, Columns
    <2>2. PICK path : path = Now.path
        OBVIOUS
    <2>3. Discarding(path)'
        BY <1>2, <1>5, <2>1, <2>2 DEF Discarding
    <2>4. OnHand'
        BY <1>2, <1>5, <2>1, <2>2, <2>3 DEF OnHand
    <2> QED
        BY <1>2, <1>3, <1>5, <2>4, HandGoes DEF Midway
<1> QED
    BY <1>1, <1>4, <1>5, LeftAsked

-------------------------------------------------------------------------------
(***************************************************************************)
(* The operator takes an event.                                            *)
(***************************************************************************)
LEMMA RemovalsTaken ==
    ASSUME Sound, NEW M, notified \in Seq(M), notified # <<>>, notified' = Tail(notified),
           ignored' \subseteq ignored \ {Head(notified).event}
    PROVE  RemovalsPending'
<1> SUFFICES ASSUME NEW event \in ignored', event.src = "local", event.kind = "Deleted"
             PROVE  \E k \in DOMAIN notified' : notified'[k].event = event
    BY DEF RemovalsPending
<1>1. PICK k \in DOMAIN notified : notified[k].event = event
    BY DEF Sound, RemovalsPending
<1>2. event # notified[1].event /\ Head(notified) = notified[1]
    OBVIOUS
<1>3. k # 1
    BY <1>1, <1>2
<1>4. k - 1 \in DOMAIN notified' /\ notified'[k - 1] = notified[k]
    BY <1>3
<1> QED
    BY <1>1, <1>4

LEMMA RemovalsAwaited ==
    ASSUME Sound, UNCHANGED notified, ignored' \subseteq ignored
    PROVE  RemovalsPending'
BY DEF Sound, RemovalsPending

LEMMA FolderAt ==
    ASSUME Sound, NEW p, Agrees(p), remote[p].type = "folder"
    PROVE  TypeAt(table[p].path) = "folder"
BY DEF Agrees, InFolder, TypeAt, IsDir, Exists

LEMMA Received ==
    ASSUME NEW event, NEW own, Receive(event, own), event \notin ignored,
           ~Unreadable(event), ~IsAttachment(event), NEW goal, Executors(event) = <<goal>>
    PROVE  /\ UNCHANGED <<ignored, missed, table, remote, disk>>
           /\ job'.at = "start" /\ job'.todo = <<goal>> /\ job'.todo # <<>> /\ job'.changes = <<>>
           /\ job'.mods = <<>> /\ Now' = goal
<1>1. UNCHANGED <<ignored, missed, table, remote, disk>>
    BY DEF Receive
<1>2. job' = [Idle EXCEPT !.at = "start", !.from = event.src, !.todo = <<goal>>]
    BY DEF Receive
<1>3. job'.at = "start" /\ job'.todo = <<goal>> /\ job'.changes = <<>> /\ job'.mods = <<>>
    BY <1>2 DEF Idle
<1>4. <<goal>> # <<>> /\ Head(<<goal>>) = goal
    OBVIOUS
<1> QED
    BY <1>1, <1>3, <1>4 DEF Now

LEMMA Dismissed ==
    ASSUME NEW event, NEW own, Receive(event, own), event \in ignored
    PROVE  /\ UNCHANGED <<table, remote, disk, job>> /\ ignored' = ignored \ {event}
           /\ (own \/ missed') /\ job'.at = "idle"
BY DEF Receive

LEMMA StartsOn ==
    ASSUME Sound, UNCHANGED <<table, remote, disk>>, RemovalsPending', job'.at = "start", OnHand'
    PROVE  GoesOn
BY TableStays, SidesStay, HandGoes DEF Midway

LEMMA RestsOn ==
    ASSUME Sound, UNCHANGED <<table, remote, disk>>, RemovalsPending', job'.at = "idle", AtEase'
    PROVE  GoesOn
BY TableStays, SidesStay, RestGoes DEF BetweenEvents

(* Nothing is taken for an attachment. *)
LEMMA ParentIsFolder ==
    ASSUME Sound, NEW id \in DOMAIN remote, NEW ids, NEW paths, Only(ids, paths),
           NEW parent \in DOMAIN table \ ids, remote[parent].type = "folder"
    PROVE  TypeAt(table[parent].path) = "folder"
<1>1. Agrees(parent)
    BY DEF Only
<1> QED
    BY <1>1, FolderAt

LEMMA RemoteFields ==
    ASSUME NEW kind, NEW id
    PROVE  /\ RemoteEvent(kind, id).src = "remote" /\ RemoteEvent(kind, id).kind = kind
           /\ RemoteEvent(kind, id).id = id
BY DEF RemoteEvent

LEMMA RenamedFields ==
    ASSUME NEW from, NEW to
    PROVE  /\ RenamedEvent(from, to).src = "local" /\ RenamedEvent(from, to).kind = "Renamed"
           /\ RenamedEvent(from, to).stored = from /\ RenamedEvent(from, to).path = to
BY DEF RenamedEvent

LEMMA CreatedReceived ==
    ASSUME Sound, NEW id \in DOMAIN remote, ReadyPresent(id), NEW event, event = RemoteEvent("Created", id)
    PROVE  /\ ~Unreadable(event) /\ ~IsAttachment(event)
           /\ Executors(event) = <<OnId("PresentOnDisk", id)>>
<1>1. event.src = "remote" /\ event.kind = "Created" /\ event.id = id
    BY RemoteFields
<1>2. Live(id) /\ remote[id].parent # id /\ Only({id}, {})
    BY DEF ReadyPresent, Lacking
<1>3. ~Unreadable(event)
    BY <1>1, <1>2 DEF Unreadable, Live
<1>4. ~IsAttachment(event)
    <2> SUFFICES ASSUME remote[id].parent \in DOMAIN table
                 PROVE  TypeAt(table[remote[id].parent].path) = "folder"
        BY <1>1 DEF IsAttachment, ParentOf
    <2>1. remote[id].parent # Root
        BY RowFacts DEF Sound
    <2>2. remote[remote[id].parent].type = "folder"
        BY <2>1 DEF Sound, ParentsHold
    <2>3. PICK parent : parent = remote[id].parent
        OBVIOUS
    <2> QED
        BY <1>2, <2>2, <2>3, ParentIsFolder
<1>5. Executors(event) = <<OnId("PresentOnDisk", id)>>
    BY <1>1 DEF Executors, DownloadExecutor
<1> QED
    BY <1>3, <1>4, <1>5

LEMMA UpdatedReceived ==
    ASSUME Sound, NEW id \in DOMAIN remote, ReadyUpdated(id), NEW event, event = RemoteEvent("Updated", id)
    PROVE  /\ ~Unreadable(event) /\ ~IsAttachment(event)
           /\ Executors(event) = <<OnId("UpdatedOnDisk", id)>>
<1>1. event.src = "remote" /\ event.kind = "Updated" /\ event.id = id
    BY RemoteFields
<1>2. PICK paths : Only({id}, paths)
    BY DEF ReadyUpdated
<1>3. id \in DOMAIN table /\ remote[id].type = "file"
    BY DEF ReadyUpdated, Turning
<1>4. ~IsAttachment(event)
    <2> SUFFICES ASSUME table[id].parent \in DOMAIN table
                 PROVE  TypeAt(table[table[id].parent].path) = "folder"
        BY <1>1, <1>3 DEF IsAttachment, ParentOf
    <2>1. table[id].parent # Root
        BY RowFacts DEF Sound
    <2>2. remote[table[id].parent].type = "folder"
        BY <1>3, <2>1 DEF Sound, ColumnsNested, Below
    <2>3. PICK parent : parent = table[id].parent
        OBVIOUS
    <2>4. parent # id
        BY <1>3, <2>2, <2>3
    <2> QED
        BY <1>2, <2>2, <2>3, <2>4, ParentIsFolder
<1>5. Executors(event) = <<OnId("UpdatedOnDisk", id)>>
    BY <1>1, <1>3 DEF Executors, DownloadExecutor
<1> QED
    BY <1>1, <1>4, <1>5 DEF Unreadable

LEMMA DeletedReceived ==
    ASSUME Sound, NEW id \in DOMAIN remote, ReadyAbsent(id), NEW event, event = RemoteEvent("Deleted", id)
    PROVE  /\ ~Unreadable(event) /\ ~IsAttachment(event)
           /\ Executors(event) = <<OnId("AbsentFromDisk", id)>>
<1>1. event.src = "remote" /\ event.kind = "Deleted" /\ event.id = id
    BY RemoteFields
<1>2. id \in DOMAIN table
    BY DEF ReadyAbsent
<1>3. PICK path : table[id].path = path /\ Only(RowsUnder(path), Under(path))
    BY DEF ReadyAbsent, OnlyUnder
<1>4. ~IsAttachment(event)
    <2> SUFFICES ASSUME table[id].parent \in DOMAIN table
                 PROVE  TypeAt(table[table[id].parent].path) = "folder"
        BY <1>1, <1>2 DEF IsAttachment, ParentOf
    <2>1. table[id].parent # Root
        BY RowFacts DEF Sound
    <2>2. PICK parent : parent = table[id].parent
        OBVIOUS
    <2>3. remote[parent].type = "folder" /\ Len(path) # 1 /\ table[parent].path = Front(path)
        BY <1>2, <1>3, <2>1, <2>2 DEF Sound, ColumnsNested, Below
    <2>4. path \in Path /\ Front(path) \in Path
        BY <1>2, <1>3, <2>2, <2>3, RowAt DEF Sound
    <2>5. ~IsPrefix(path, Front(path))
        <3>1. IsPrefix(Front(path), path) /\ Front(path) # path
            BY <2>3, <2>4, FrontPrefix
        <3> QED
            BY <2>4, <3>1, PrefixOrder
    <2>6. PICK rows, paths : rows = RowsUnder(path) /\ paths = Under(path)
        OBVIOUS
    <2>7. parent \in DOMAIN table \ rows
        BY <2>2, <2>3, <2>5, <2>6 DEF RowsUnder
    <2> QED
        BY <1>3, <2>2, <2>3, <2>6, <2>7, ParentIsFolder
<1>5. Executors(event) = <<OnId("AbsentFromDisk", id)>>
    BY <1>1 DEF Executors, DownloadExecutor
<1> QED
    BY <1>1, <1>4, <1>5 DEF Unreadable

LEMMA LocalReceived ==
    ASSUME NEW event, event.src = "local"
    PROVE  /\ ~Unreadable(event) /\ ~IsAttachment(event)
           /\ event.kind = "Created" => Executors(event) = <<OnPath("CreatedOnRemote", event.path)>>
           /\ event.kind = "Modified" /\ event.stored = event.path
                => Executors(event) = <<OnPath("ModifiedOnRemote", event.path)>>
           /\ event.kind = "Renamed" => Executors(event) = <<OnRename(event.stored, event.path)>>
           /\ event.kind = "Deleted" => Executors(event) = <<OnPath("AbsentFromRemote", event.stored)>>
<1>1. ~Unreadable(event) /\ ~IsAttachment(event)
    BY DEF Unreadable, IsAttachment
<1>2. Executors(event) = UploadExecutors(event)
    BY DEF Executors
<1>3. \A goal : <<goal>> \o <<>> = <<goal>>
    OBVIOUS
<1>4. event.kind = "Created" => UploadExecutors(event) = <<OnPath("CreatedOnRemote", event.path)>>
    BY DEF UploadExecutors
<1>5. event.kind = "Deleted" => UploadExecutors(event) = <<OnPath("AbsentFromRemote", event.stored)>>
    BY DEF UploadExecutors
<1>6. event.kind = "Renamed" => UploadExecutors(event) = <<OnRename(event.stored, event.path)>>
    BY DEF UploadExecutors
<1>7. event.kind = "Modified" /\ event.stored = event.path
        => UploadExecutors(event) = <<OnPath("ModifiedOnRemote", event.path)>>
    BY <1>3 DEF UploadExecutors
<1> QED
    BY <1>1, <1>2, <1>4, <1>5, <1>6, <1>7

LEMMA UploadsStay ==
    ASSUME UNCHANGED <<table, remote, disk>>
    PROVE  /\ \A path : ReadyCreated(path) => ReadyCreated(path)'
           /\ \A path : ReadyModified(path) => ReadyModified(path)'
           /\ \A from, to : ReadyNamed(from, to) => ReadyNamed(from, to)'
<1>1. ASSUME NEW path, ReadyCreated(path)
      PROVE  ReadyCreated(path)'
    <2>1. Only({}, {path})' /\ Columns' = Columns
        BY <1>1, OnlyKept, SamePlacing DEF ReadyCreated
    <2>2. ParentIsDir(path)'
        BY <1>1 DEF ReadyCreated, ParentIsDir, IsDir, Exists
    <2> QED
        BY <1>1, <2>1, <2>2 DEF ReadyCreated
<1>2. ASSUME NEW path, ReadyModified(path)
      PROVE  ReadyModified(path)'
    <2>1. PICK id \in DOMAIN table : Rewritten(id, path)
        BY <1>2 DEF ReadyModified
    <2>2. Only({id}, {path})' /\ InSpace(id)'
        BY <2>1, OnlyKept, SamePlacing DEF Rewritten
    <2>3. Rewritten(id, path)'
        BY <2>1, <2>2 DEF Rewritten, IsFile, Exists
    <2> QED
        BY <2>1, <2>3 DEF ReadyModified
<1>3. ASSUME NEW from, NEW to, ReadyNamed(from, to)
      PROVE  ReadyNamed(from, to)'
    <2>1. PICK id \in DOMAIN table : Displaced(id, from, to) /\ InSpace(id) /\ Undisturbed(to)
        BY <1>3 DEF ReadyNamed
    <2>2. Displaced(id, from, to)' /\ Undisturbed(to)' /\ InSpace(id)'
        BY <2>1, DisplacedRests, SamePlacing
    <2> QED
        BY <2>1, <2>2 DEF ReadyNamed
<1> QED
    BY <1>1, <1>2, <1>3

(* What a user did in the space starts the executor that follows it. *)
LEMMA AskedRemote ==
    ASSUME Sound, Calm, job.at = "idle", notified = <<>>, notified' = notified, tlm' = <<>>,
           NEW event, Meets(event), event.src = "remote", event.kind # "Left", event \notin ignored,
           NEW own, Receive(event, own)
    PROVE  GoesOn
<1>1. Silent'
    BY DEF Silent
<1>2. \A path : LocalEvent("Created", path).src = "local" /\ LocalEvent("Modified", path).src = "local"
    BY EventKinds
<1>3. \A from, to : RenamedEvent(from, to).src = "local"
    BY RenamedFields
<1>4. RemovalsPending'
    BY RemovalsAwaited DEF Receive
<1>5. CASE \E id \in DOMAIN remote : event = RemoteEvent("Created", id) /\ ReadyPresent(id)
    <2>1. PICK id \in DOMAIN remote : event = RemoteEvent("Created", id) /\ ReadyPresent(id)
        BY <1>5
    <2>2. PICK goal : goal = OnId("PresentOnDisk", id)
        OBVIOUS
    <2>3. /\ UNCHANGED <<table, remote, disk>> /\ job'.at = "start"
          /\ job'.todo = <<goal>> /\ job'.todo # <<>> /\ job'.changes = <<>>
        BY <2>1, <2>2, CreatedReceived, Received
    <2>4. ReadyPresent(id)'
        BY <2>1, <2>3, StepsOn
    <2>5. OnHand'
        BY <1>1, <2>1, <2>2, <2>3, <2>4 DEF OnHand, Bringing
    <2> QED
        BY <1>4, <2>3, <2>5, StartsOn
<1>6. CASE \E id \in DOMAIN remote : event = RemoteEvent("Updated", id) /\ ReadyUpdated(id)
    <2>1. PICK id \in DOMAIN remote : event = RemoteEvent("Updated", id) /\ ReadyUpdated(id)
        BY <1>6
    <2>2. PICK goal : goal = OnId("UpdatedOnDisk", id)
        OBVIOUS
    <2>3. /\ UNCHANGED <<table, remote, disk>> /\ job'.at = "start"
          /\ job'.todo = <<goal>> /\ job'.todo # <<>> /\ job'.changes = <<>>
        BY <2>1, <2>2, UpdatedReceived, Received
    <2>4. ReadyUpdated(id)'
        BY <2>1, <2>3, StepsOn
    <2>5. OnHand'
        BY <1>1, <2>1, <2>2, <2>3, <2>4 DEF OnHand, Refreshing
    <2> QED
        BY <1>4, <2>3, <2>5, StartsOn
<1>7. CASE \E id \in DOMAIN remote : event = RemoteEvent("Deleted", id) /\ ReadyAbsent(id)
    <2>1. PICK id \in DOMAIN remote : event = RemoteEvent("Deleted", id) /\ ReadyAbsent(id)
        BY <1>7
    <2>2. PICK goal : goal = OnId("AbsentFromDisk", id)
        OBVIOUS
    <2>3. /\ UNCHANGED <<table, remote, disk>> /\ job'.at = "start"
          /\ job'.todo = <<goal>> /\ job'.todo # <<>> /\ job'.changes = <<>>
        BY <2>1, <2>2, DeletedReceived, Received
    <2>4. ReadyAbsent(id)'
        BY <2>1, <2>3, ReadyStays
    <2>5. OnHand'
        BY <1>1, <2>1, <2>2, <2>3, <2>4 DEF OnHand, Clearing
    <2> QED
        BY <1>4, <2>3, <2>5, StartsOn
<1>8. \A id : RemoteEvent("Left", id).kind = "Left"
    BY RemoteFields
<1> QED
    BY <1>2, <1>3, <1>5, <1>6, <1>7, <1>8 DEF Meets

LEMMA AskedLocal ==
    ASSUME Sound, Calm, job.at = "idle", tlm = <<>>, tlm' = tlm, notified' = <<>>,
           NEW event, Meets(event), event.src = "local", event \notin ignored, RemovalsPending',
           NEW own, Receive(event, own)
    PROVE  GoesOn
<1>1. Silent'
    BY DEF Silent
<1>2. \A kind, id : RemoteEvent(kind, id).src = "remote"
    BY RemoteFields
<1>3. ~Unreadable(event) /\ ~IsAttachment(event)
    BY LocalReceived
<1>4. CASE \E path \in DOMAIN disk : event = LocalEvent("Created", path) /\ ReadyCreated(path)
    <2>1. PICK path \in DOMAIN disk : event = LocalEvent("Created", path) /\ ReadyCreated(path)
        BY <1>4
    <2>2. PICK goal : goal = OnPath("CreatedOnRemote", path)
        OBVIOUS
    <2>3. Executors(event) = <<goal>>
        BY <2>1, <2>2, LocalReceived, EventKinds
    <2>4. /\ UNCHANGED <<table, remote, disk>> /\ job'.at = "start"
          /\ job'.todo = <<goal>> /\ job'.todo # <<>> /\ job'.changes = <<>>
        BY <1>3, <2>3, Received
    <2>5. ReadyCreated(path)'
        BY <2>1, <2>4, UploadsStay
    <2>6. OnHand'
        BY <1>1, <2>1, <2>2, <2>4, <2>5 DEF OnHand, Sharing
    <2> QED
        BY <2>4, <2>6, StartsOn
<1>5. CASE \E path \in DOMAIN disk : event = LocalEvent("Modified", path) /\ ReadyModified(path)
    <2>1. PICK path \in DOMAIN disk : event = LocalEvent("Modified", path) /\ ReadyModified(path)
        BY <1>5
    <2>2. PICK goal : goal = OnPath("ModifiedOnRemote", path)
        OBVIOUS
    <2>3. Executors(event) = <<goal>>
        BY <2>1, <2>2, LocalReceived, EventKinds
    <2>4. /\ UNCHANGED <<table, remote, disk>> /\ job'.at = "start"
          /\ job'.todo = <<goal>> /\ job'.todo # <<>> /\ job'.changes = <<>>
        BY <1>3, <2>3, Received
    <2>5. ReadyModified(path)'
        BY <2>1, <2>4, UploadsStay
    <2>6. OnHand'
        BY <1>1, <2>1, <2>2, <2>4, <2>5 DEF OnHand, Saving
    <2> QED
        BY <2>4, <2>6, StartsOn
<1>6. CASE \E from \in Columns, to \in DOMAIN disk :
          event = RenamedEvent(from, to) /\ ReadyNamed(from, to)
    <2>1. PICK from \in Columns, to \in DOMAIN disk :
          event = RenamedEvent(from, to) /\ ReadyNamed(from, to)
        BY <1>6
    <2>2. PICK goal : goal = OnRename(from, to)
        OBVIOUS
    <2>3. Executors(event) = <<goal>>
        BY <2>1, <2>2, LocalReceived, RenamedFields
    <2>4. /\ UNCHANGED <<table, remote, disk>> /\ job'.at = "start" /\ job'.mods = <<>>
          /\ job'.todo = <<goal>> /\ job'.todo # <<>> /\ job'.changes = <<>>
        BY <1>3, <2>3, Received
    <2>5. ReadyNamed(from, to)' /\ Columns' = Columns
        BY <2>1, <2>4, UploadsStay, SamePlacing
    <2>6. OnHand'
        BY <1>1, <2>1, <2>2, <2>4, <2>5 DEF OnHand, Relocating
    <2> QED
        BY <2>4, <2>6, StartsOn
<1> QED
    BY <1>2, <1>4, <1>5, <1>6 DEF Meets

(* An echo that is not expected any more finds both sides as they are. *)
LEMMA AgainMeets ==
    ASSUME Sound, Only({}, {}), NEW event, Again(event),
           event \in RemoteEvents(DOMAIN remote) \/ event \in LocalEvents
    PROVE  Meets(event) /\ event.kind # "Left"
<1>1. \A row \in DOMAIN table : Agrees(row) /\ row \in DOMAIN remote
    BY RowFacts DEF Sound, Only
<1>2. CASE /\ event.src = "remote" /\ event.kind = "Updated" /\ Live(event.id)
           /\ remote[event.id].type = "file"
    <2>1. event \in RemoteEvents(DOMAIN remote)
        BY <1>2 DEF LocalEvents
    <2>2. PICK id \in DOMAIN remote : id = event.id
        BY <2>1 DEF RemoteEvents
    <2>3. event = RemoteEvent("Updated", id)
        BY <1>2, <2>1, <2>2 DEF RemoteEvents, RemoteEvent
    <2>4. id \in DOMAIN table /\ Agrees(id) /\ Live(id) /\ remote[id].type = "file"
        BY <1>2, <2>2 DEF Only, Visible, Agrees, InSpace
    <2>5. LiveParent(remote[id].parent)
        <3>1. CASE remote[id].parent = Root
            BY <3>1 DEF LiveParent
        <3>2. CASE remote[id].parent # Root
            <4>1. remote[id].parent \in DOMAIN table
                BY <2>4, <3>2 DEF Agrees, InSpace, Fits, Below
            <4> QED
                BY <1>1, <4>1 DEF LiveParent, Agrees, InSpace
        <3> QED
            BY <3>1, <3>2
    <2>6. PICK path \in DOMAIN disk : path = table[id].path /\ IsFile(path)
        BY <2>4 DEF Agrees, InFolder, IsFile, Exists
    <2>7. Only({id}, {path})
        <3>1. \A row \in DOMAIN table : row \in {id} => table[row].path \in {path}
            BY <2>6
        <3> QED
            BY <3>1, OnlyWider
    <2>8. ReadyUpdated(id)
        BY <2>4, <2>5, <2>6, <2>7 DEF ReadyUpdated, Turning
    <2> QED
        BY <1>2, <2>2, <2>3, <2>8 DEF Meets
<1>3. CASE /\ event.src = "local" /\ event.kind = "Modified" /\ event.stored = event.path
           /\ IsFile(event.path)
    <2>1. event \in LocalEvents
        BY <1>3 DEF RemoteEvents
    <2>2. PICK path \in DOMAIN disk : path = event.path
        BY <1>3 DEF IsFile, Exists
    <2>3. event = LocalEvent("Modified", path)
        BY <1>3, <2>1, <2>2 DEF LocalEvents, LocalEvent
    <2>4. PICK id \in DOMAIN table : table[id].path = path
        BY <2>2 DEF Only
    <2>5. Agrees(id) /\ id \in DOMAIN remote
        BY <1>1, <2>4
    <2>6. remote[id].type = "file" /\ IsFile(path)
        BY <1>3, <2>2, <2>4, <2>5 DEF Agrees, InFolder, IsFile
    <2>7. Only({id}, {path})
        <3>1. \A row \in DOMAIN table : row \in {id} => table[row].path \in {path}
            BY <2>4
        <3> QED
            BY <3>1, OnlyWider
    <2>8. ReadyModified(path)
        BY <2>4, <2>5, <2>6, <2>7 DEF ReadyModified, Rewritten, Agrees
    <2> QED
        BY <1>3, <2>2, <2>3, <2>8 DEF Meets
<1> QED
    BY <1>2, <1>3 DEF Again

LEMMA OneTaken ==
    ASSUME NEW M, NEW queue \in Seq(M), Len(queue) = 1
    PROVE  Tail(queue) = <<>>
<1>1. Tail(queue) \in Seq(M) /\ Len(Tail(queue)) = 0
    OBVIOUS
<1> QED
    BY <1>1, EmptySeq

LEMMA EchoesNamed ==
    ASSUME NEW rest
    PROVE  /\ rest = tlm' /\ Echoes(rest)' => Echoes(tlm)'
           /\ rest = notified' /\ Echoes(rest)' => Echoes(notified)'
<1>1. \A event : Again(event)' <=>
         \/ event.src = "remote" /\ event.kind = "Updated" /\ Live(event.id)' /\ remote'[event.id].type = "file"
         \/ event.src = "local" /\ event.kind = "Modified" /\ event.stored = event.path
            /\ IsFile(event.path)'
    BY DEF Again, Live, IsFile, Exists
<1> QED
    BY DEF Echoes, Again, Live, IsFile, Exists

LEMMA LeftBehind ==
    ASSUME NEW rest, rest = tlm', UNCHANGED remote,
           \A k \in DOMAIN rest : rest[k].event.kind = "Deleted" /\ ~Live(rest[k].event.id)
    PROVE  (\A k \in DOMAIN tlm : tlm[k].event.kind = "Deleted" /\ ~Live(tlm[k].event.id))'
BY DEF Live

LEMMA ReceiveRemoteCalm ==
    ASSUME Sound, Calm, ReceiveRemote
    PROVE  missed' \/ GoesOn
<1>1. PICK event, own : event = Head(tlm).event /\ own = Head(tlm).own
    OBVIOUS
<1>2. /\ job.at = "idle" /\ tlm # <<>> /\ event.kind # "Left" /\ Receive(event, own)
      /\ tlm' = Tail(tlm) /\ notified' = notified
    BY <1>1 DEF ReceiveRemote, Receive
<1>3. AtEase
    BY <1>2 DEF Calm, BetweenEvents
<1>4. PICK queue, M : queue = tlm /\ queue \in Seq(M) /\ M = Message(RemoteEvents(DOMAIN remote))
    BY JobFacts
<1>5. /\ Head(queue) = queue[1] /\ 1 \in DOMAIN queue /\ Head(queue) \in M
    BY <1>2, <1>4
<1>6. event \in RemoteEvents(DOMAIN remote) /\ event.src = "remote"
    BY <1>1, <1>4, <1>5 DEF Message, RemoteEvents
<1>7. RemovalsPending'
    <2>1. ignored' \subseteq ignored
        BY <1>2 DEF Receive
    <2> QED
        BY <1>2, <2>1, RemovalsAwaited
<1>8. PICK rest : rest = Tail(queue) /\ rest = tlm'
    BY <1>2, <1>4
<1>9. CASE Only({}, {}) /\ EchoesUp
    <2>1. notified = <<>> /\ Echoes(queue) /\ own = TRUE
        BY <1>1, <1>4, <1>5, <1>9 DEF EchoesUp, Echoes, Message
    <2>2. CASE event \in ignored
        <3>1. UNCHANGED <<table, remote, disk>> /\ ignored' = ignored \ {event} /\ job'.at = "idle"
            BY <1>2, <2>2, Dismissed
        <3>2. Echoes(rest)'
            BY <1>1, <1>2, <1>4, <1>8, <2>1, <3>1, EchoTaken
        <3>3. EchoesUp'
            <4>1. Echoes(tlm)'
                BY <1>8, <3>2, EchoesNamed
            <4> QED
                BY <1>2, <2>1, <4>1 DEF EchoesUp
        <3>4. Only({}, {})'
            BY <1>9, <3>1, OnlyKept
        <3> QED
            BY <1>7, <3>1, <3>3, <3>4, RestsOn DEF AtEase
    <2>3. CASE event \notin ignored
        <3>1. Len(queue) = 1 /\ Again(event)
            BY <1>1, <1>2, <1>4, <2>1, <2>3, EchoUnknown
        <3>2. tlm' = <<>>
            BY <1>4, <1>8, <3>1, OneTaken
        <3>3. Meets(event)
            BY <1>6, <1>9, <3>1, AgainMeets
        <3> QED
            BY <1>2, <1>6, <2>1, <2>3, <3>2, <3>3, AskedRemote
    <2> QED
        BY <2>2, <2>3
<1>10. CASE notified = <<>> /\ Asked(tlm)
    <2>1. PICK e \in {tlm[j].event : j \in DOMAIN tlm} : tlm = <<[event |-> e, own |-> FALSE]>> /\ Meets(e)
        BY <1>10 DEF Asked
    <2>2. PICK m : m = [event |-> e, own |-> FALSE]
        OBVIOUS
    <2>3. tlm = <<m>> /\ Head(<<m>>) = m /\ Tail(<<m>>) = <<>>
        BY <2>1, <2>2
    <2>4. event = e /\ own = FALSE /\ tlm' = <<>>
        BY <1>1, <1>2, <2>2, <2>3
    <2>5. CASE event \in ignored
        BY <1>2, <2>4, <2>5, Dismissed
    <2>6. CASE event \notin ignored
        BY <1>2, <1>6, <1>10, <2>1, <2>4, <2>6, AskedRemote
    <2> QED
        BY <2>5, <2>6
<1>11. CASE Sweeping({})
    <2>1. event \in ignored /\ Expected(queue)
        BY <1>1, <1>4, <1>5, <1>11 DEF Sweeping, Expected
    <2>2. UNCHANGED <<table, remote, disk>> /\ ignored' = ignored \ {event} /\ job'.at = "idle"
        BY <1>2, <2>1, Dismissed
    <2>3. Expected(rest)'
        BY <1>1, <1>2, <1>4, <1>8, <2>1, <2>2, EchoTaken
    <2>4. Expected(tlm)'
        BY <1>8, <2>3 DEF Expected
    <2>5. PICK gone : gone = RowsGone /\ Only(gone, {})
        BY <1>11 DEF Sweeping
    <2>6. Only(gone, {})' /\ gone = RowsGone' /\ Reported' = Reported
        BY <1>2, <2>2, <2>5, OnlyKept DEF RowsGone, Reported
    <2>7. \A id : (InSpace(id) => InSpace(id)') /\ (Live(id)' <=> Live(id))
        BY <2>2, SamePlacing
    <2>8. \A k \in DOMAIN rest : rest[k] = queue[k + 1] /\ k + 1 \in DOMAIN queue
        BY <1>2, <1>4, <1>8
    <2>9. \A k \in DOMAIN queue : queue[k].event.kind = "Deleted" /\ ~Live(queue[k].event.id)
        BY <1>4, <1>11 DEF Sweeping
    <2>10. \A k \in DOMAIN rest : rest[k].event.kind = "Deleted" /\ ~Live(rest[k].event.id)
        BY <2>8, <2>9
    <2>11. Sweeping({})'
        <3>1. (\A k \in DOMAIN tlm : tlm[k].event.kind = "Deleted" /\ ~Live(tlm[k].event.id))'
            BY <1>8, <2>2, <2>10, LeftBehind
        <3> QED
            BY <1>2, <1>11, <2>2, <2>4, <2>5, <2>6, <2>7, <3>1 DEF Sweeping, Live
    <2> QED
        BY <1>7, <2>2, <2>11, RestsOn DEF AtEase
<1>12. CASE tlm = <<>>
    BY <1>2, <1>12
<1> QED
    BY <1>3, <1>9, <1>10, <1>11, <1>12 DEF AtEase, EchoesDown, Sinking, OwnDeletions

(* The first of the deletions reported is taken in hand. *)
LEMMA SweepTaken ==
    ASSUME Sound, UNCHANGED <<table, remote, disk, tlm, ignored>>, Sweeping({}),
           NEW M, NEW queue \in Seq(M), queue = notified, queue # <<>>, notified' = Tail(queue),
           NEW id \in RowsGone, table[id].path = queue[1].event.path
    PROVE  Sweeping({id})' /\ InSpace(id)'
<1>1. PICK gone : gone = RowsGone /\ Only(gone, {}) /\ id \in gone
    BY DEF Sweeping
<1>2. PICK rest : rest = notified' /\ rest = Tail(queue)
    OBVIOUS
<1>3. /\ \A k \in DOMAIN rest : rest[k] = queue[k + 1] /\ k + 1 \in DOMAIN queue /\ 1 < k + 1
      /\ \A k \in DOMAIN queue : k # 1 => k - 1 \in DOMAIN rest /\ rest[k - 1] = queue[k]
      /\ \A j, k \in DOMAIN rest : j < k => j + 1 < k + 1
      /\ 1 \in DOMAIN queue
    BY <1>2
<1>4. /\ \A k \in DOMAIN queue :
            /\ ~queue[k].own /\ queue[k].event = LocalEvent("Deleted", queue[k].event.path)
            /\ \E row \in gone : table[row].path = queue[k].event.path
      /\ \A j, k \in DOMAIN queue : j < k => ~IsPrefix(queue[j].event.path, queue[k].event.path)
      /\ \A row \in gone : table[row].path \in Reported /\ InSpace(row)
    BY <1>1 DEF Sweeping
<1>5. Only(gone, {})' /\ gone = RowsGone'
    BY <1>1, OnlyKept DEF RowsGone
<1>6. \A row : (InSpace(row) => InSpace(row)') /\ (Live(row)' <=> Live(row))
    BY SamePlacing
<1>7. Expected(tlm)'
    BY DEF Sweeping, Expected
<1>8. \A k \in DOMAIN rest :
            /\ ~rest[k].own /\ rest[k].event = LocalEvent("Deleted", rest[k].event.path)
            /\ \E row \in gone : table[row].path = rest[k].event.path
            /\ ~IsPrefix(table[id].path, rest[k].event.path)
    BY <1>3, <1>4
<1>9. table[id].path \in Path /\ IsPrefix(table[id].path, table[id].path)
    BY RowFacts, PrefixOrder DEF Sound, RowsGone
<1>10. \A k \in DOMAIN rest : \E row \in gone \ {id} : table[row].path = rest[k].event.path
    BY <1>8, <1>9
<1>11. \A j, k \in DOMAIN rest : j < k => ~IsPrefix(rest[j].event.path, rest[k].event.path)
    BY <1>3, <1>4
<1>12. ASSUME NEW row \in gone \ {id}
       PROVE  table[row].path \in Reported'
    <2>1. PICK k \in DOMAIN queue : table[row].path = queue[k].event.path
        BY <1>4, <1>12 DEF Reported
    <2>2. k # 1
        BY <1>1, <1>12, <2>1 DEF Sound, PathsDistinct, RowsGone
    <2>3. k - 1 \in DOMAIN rest /\ rest[k - 1].event.path = table[row].path
        BY <1>3, <2>1, <2>2
    <2> QED
        BY <1>2, <2>3 DEF Reported
<1>13. \A path \in Reported' : ~IsPrefix(table[id].path, path)
    BY <1>2, <1>8 DEF Reported
<1>14. (\A k \in DOMAIN tlm : tlm[k].event.kind = "Deleted" /\ ~Live(tlm[k].event.id))'
    BY DEF Sweeping, Live
<1>15. /\ \E one \in {RowsGone'} : one = gone
       /\ {id} \subseteq RowsGone'
    BY <1>1, <1>5
<1>16. (\E one \in {RowsGone} : Only(one, {}))'
    BY <1>5
<1>17. (\A k \in DOMAIN notified :
          /\ ~notified[k].own /\ notified[k].event = LocalEvent("Deleted", notified[k].event.path)
          /\ \E row \in RowsGone \ {id} : table[row].path = notified[k].event.path)'
    BY <1>2, <1>5, <1>8, <1>10
<1>18. (\A row \in RowsGone \ {id} : table[row].path \in Reported /\ InSpace(row))'
    <2> SUFFICES ASSUME NEW row \in gone \ {id}
                 PROVE  table[row].path \in Reported' /\ InSpace(row)'
        BY <1>5
    <2> QED
        BY <1>4, <1>6, <1>12
<1>19. Sweeping({id})'
    BY <1>2, <1>7, <1>11, <1>13, <1>14, <1>15, <1>16, <1>17, <1>18 DEF Sweeping
<1>20. InSpace(id)'
    BY <1>1, <1>4, <1>6
<1> QED
    BY <1>19, <1>20

LEMMA DiscardStarts ==
    ASSUME Sound, UNCHANGED <<table, remote, disk>>, RemovalsPending', NEW path,
           job'.at = "start", job'.todo = <<OnPath("AbsentFromRemote", path)>>, job'.todo # <<>>,
           job'.changes = <<>>, Now' = OnPath("AbsentFromRemote", path), Discarding(path)'
    PROVE  GoesOn
<1>1. Now'.ex = "AbsentFromRemote" /\ Now'.path = path
    BY DEF OnPath
<1>2. OnHand'
    BY <1>1 DEF OnHand
<1> QED
    BY <1>2, StartsOn

LEMMA ReceiveLocalCalm ==
    ASSUME Sound, Calm, ReceiveLocal
    PROVE  missed' \/ GoesOn
<1>1. PICK event, own : event = Head(notified).event /\ own = Head(notified).own
    OBVIOUS
<1>2. /\ job.at = "idle" /\ notified # <<>> /\ Receive(event, own)
      /\ notified' = Tail(notified) /\ tlm' = tlm
    BY <1>1 DEF ReceiveLocal, Receive
<1>3. AtEase
    BY <1>2 DEF Calm, BetweenEvents
<1>4. PICK queue, M : queue = notified /\ queue \in Seq(M) /\ M = Message(LocalEvents)
    BY JobFacts
<1>5. /\ Head(queue) = queue[1] /\ 1 \in DOMAIN queue /\ Head(queue) \in M
    BY <1>2, <1>4
<1>6. event \in LocalEvents /\ event.src = "local"
    BY <1>1, <1>4, <1>5 DEF Message, LocalEvents
<1>7. RemovalsPending'
    <2>1. ignored' \subseteq ignored \ {event}
        BY <1>2 DEF Receive
    <2> QED
        BY <1>1, <1>2, <1>4, <2>1, RemovalsTaken
<1>8. PICK rest : rest = Tail(queue) /\ rest = notified'
    BY <1>2, <1>4
<1>9. CASE Only({}, {}) /\ EchoesDown
    <2>1. tlm = <<>> /\ Echoes(queue) /\ own = TRUE
        BY <1>1, <1>4, <1>5, <1>9 DEF EchoesDown, Echoes, Message
    <2>2. CASE event \in ignored
        <3>1. UNCHANGED <<table, remote, disk>> /\ ignored' = ignored \ {event} /\ job'.at = "idle"
            BY <1>2, <2>2, Dismissed
        <3>2. Echoes(rest)'
            BY <1>1, <1>2, <1>4, <1>8, <2>1, <3>1, EchoTaken
        <3>3. EchoesDown'
            <4>1. Echoes(notified)'
                BY <1>8, <3>2, EchoesNamed
            <4> QED
                BY <1>2, <2>1, <4>1 DEF EchoesDown
        <3>4. Only({}, {})'
            BY <1>9, <3>1, OnlyKept
        <3> QED
            BY <1>7, <3>1, <3>3, <3>4, RestsOn DEF AtEase
    <2>3. CASE event \notin ignored
        <3>1. Len(queue) = 1 /\ Again(event)
            BY <1>1, <1>2, <1>4, <2>1, <2>3, EchoUnknown
        <3>2. notified' = <<>>
            BY <1>4, <1>8, <3>1, OneTaken
        <3>3. Meets(event)
            BY <1>6, <1>9, <3>1, AgainMeets
        <3> QED
            BY <1>2, <1>6, <1>7, <2>1, <2>3, <3>2, <3>3, AskedLocal
    <2> QED
        BY <2>2, <2>3
<1>10. CASE tlm = <<>> /\ Asked(notified)
    <2>1. PICK e \in {notified[j].event : j \in DOMAIN notified} :
            notified = <<[event |-> e, own |-> FALSE]>> /\ Meets(e)
        BY <1>10 DEF Asked
    <2>2. PICK m : m = [event |-> e, own |-> FALSE]
        OBVIOUS
    <2>3. notified = <<m>> /\ Head(<<m>>) = m /\ Tail(<<m>>) = <<>>
        BY <2>1, <2>2
    <2>4. event = e /\ own = FALSE /\ notified' = <<>>
        BY <1>1, <1>2, <2>2, <2>3
    <2>5. CASE event \in ignored
        BY <1>2, <2>4, <2>5, Dismissed
    <2>6. CASE event \notin ignored
        BY <1>2, <1>6, <1>7, <1>10, <2>1, <2>4, <2>6, AskedLocal
    <2> QED
        BY <2>5, <2>6
<1>11. CASE Sweeping({})
    <2>1. \A k \in DOMAIN queue :
            /\ ~queue[k].own /\ queue[k].event = LocalEvent("Deleted", queue[k].event.path)
            /\ \E id \in RowsGone : table[id].path = queue[k].event.path
        BY <1>4, <1>11 DEF Sweeping
    <2>2. PICK path : path = event.path
        OBVIOUS
    <2>3. ~own /\ event = LocalEvent("Deleted", path) /\ path = queue[1].event.path
        BY <1>1, <1>4, <1>5, <2>1, <2>2
    <2>4. PICK id \in RowsGone : table[id].path = path
        BY <1>5, <2>1, <2>3
    <2>5. CASE event \in ignored
        BY <1>2, <2>3, <2>5, Dismissed
    <2>6. CASE event \notin ignored
        <3>1. event.kind = "Deleted" /\ event.src = "local" /\ event.stored = path
            BY <2>3, EventKinds
        <3>2. PICK goal : goal = OnPath("AbsentFromRemote", path)
            OBVIOUS
        <3>3. Executors(event) = <<goal>> /\ ~Unreadable(event) /\ ~IsAttachment(event)
            BY <3>1, <3>2, LocalReceived
        <3>4. /\ UNCHANGED <<table, remote, disk, ignored>> /\ job'.at = "start"
              /\ job'.todo = <<goal>> /\ job'.todo # <<>> /\ job'.changes = <<>> /\ Now' = goal
            BY <1>2, <2>6, <3>3, Received
        <3>5. Sweeping({id})' /\ InSpace(id)'
            BY <1>2, <1>4, <1>11, <2>3, <2>4, <3>4, SweepTaken
        <3>6. Discarding(path)'
            <4>1. id \in DOMAIN table' /\ table'[id].path = path
                BY <2>4, <3>4 DEF RowsGone
            <4> QED
                BY <3>4, <3>5, <4>1 DEF Discarding
        <3> QED
            BY <1>7, <3>2, <3>4, <3>6, DiscardStarts
    <2> QED
        BY <2>5, <2>6
<1>12. CASE Sinking
    <2>1. \A k \in DOMAIN queue :
            queue[k].own /\ queue[k].event = LocalEvent("Deleted", queue[k].event.path)
        BY <1>4, <1>12 DEF Sinking, OwnDeletions
    <2>2. PICK path : path = event.path
        OBVIOUS
    <2>3. own /\ event = LocalEvent("Deleted", path) /\ path = queue[1].event.path
        BY <1>1, <1>4, <1>5, <2>1, <2>2
    <2>4. path \notin Columns /\ tlm = <<>>
        BY <1>4, <1>5, <1>12, <2>3 DEF Sinking, OwnDeletions, Reported
    <2>5. CASE event \in ignored
        <3>1. UNCHANGED <<table, remote, disk>> /\ ignored' = ignored \ {event} /\ job'.at = "idle"
            BY <1>2, <2>5, Dismissed
        <3>2. /\ \A k \in DOMAIN rest : rest[k] = queue[k + 1] /\ k + 1 \in DOMAIN queue
              /\ \A k \in DOMAIN queue : k # 1 => k - 1 \in DOMAIN rest /\ rest[k - 1] = queue[k]
            BY <1>2, <1>4, <1>8
        <3>3. OwnDeletions'
            <4>1. \A k \in DOMAIN rest : rest[k].own /\ rest[k].event = LocalEvent("Deleted", rest[k].event.path)
                BY <2>1, <3>2
            <4> QED
                BY <1>2, <1>8, <2>4, <4>1 DEF OwnDeletions
        <3>4. Unexpected'
            <4>1. PICK k \in DOMAIN queue : queue[k].event \notin ignored
                BY <1>4, <1>12 DEF Sinking, Unexpected
            <4>2. k # 1
                BY <1>1, <1>4, <1>5, <2>5, <4>1
            <4>3. k - 1 \in DOMAIN rest /\ rest[k - 1].event \notin ignored'
                BY <3>1, <3>2, <4>1, <4>2
            <4> QED
                BY <1>8, <4>3 DEF Unexpected
        <3>5. Reported' \cap Columns' = {}
            <4>1. Columns' = Columns
                BY <3>1, SamePlacing
            <4>2. \A k \in DOMAIN rest : rest[k].event.path \in Reported
                BY <1>4, <3>2 DEF Reported
            <4> QED
                BY <1>8, <1>12, <4>1, <4>2 DEF Sinking, Reported
        <3> QED
            BY <1>7, <3>1, <3>3, <3>4, <3>5, RestsOn DEF AtEase, Sinking
    <2>6. CASE event \notin ignored
        <3>1. event.kind = "Deleted" /\ event.src = "local" /\ event.stored = path
            BY <2>3, EventKinds
        <3>2. PICK goal : goal = OnPath("AbsentFromRemote", path)
            OBVIOUS
        <3>3. Executors(event) = <<goal>> /\ ~Unreadable(event) /\ ~IsAttachment(event)
            BY <3>1, <3>2, LocalReceived
        <3>4. /\ UNCHANGED <<table, remote, disk, ignored>> /\ job'.at = "start"
              /\ job'.todo = <<goal>> /\ job'.todo # <<>> /\ job'.changes = <<>> /\ Now' = goal
            BY <1>2, <2>6, <3>3, Received
        <3>5. Discarding(path)'
            BY <2>4, <3>4 DEF Discarding, Columns
        <3> QED
            BY <1>7, <3>2, <3>4, <3>5, DiscardStarts
    <2> QED
        BY <2>5, <2>6
<1>13. CASE notified = <<>>
    BY <1>2, <1>13
<1> QED
    BY <1>3, <1>9, <1>10, <1>11, <1>12, <1>13 DEF AtEase, EchoesUp

-------------------------------------------------------------------------------
(***************************************************************************)
(* What the users change, when everything agrees.                          *)
(***************************************************************************)
LEMMA QuietAgrees ==
    ASSUME Sound, Calm, Quiet
    PROVE  Only({}, {})
<1>1. tlm = <<>> /\ notified = <<>> /\ job.at = "idle" /\ AtEase
    BY DEF Quiet, Calm, BetweenEvents
<1>2. \A event : <<[event |-> event, own |-> FALSE]>> # <<>>
    OBVIOUS
<1>3. ~Asked(tlm) /\ ~Asked(notified)
    BY <1>1, <1>2 DEF Asked
<1>4. \A k \in DOMAIN notified : FALSE
    BY <1>1
<1>5. ~Sinking
    BY <1>4 DEF Sinking, Unexpected
<1>6. ASSUME Sweeping({})
      PROVE  Only({}, {})
    <2>1. Reported = {}
        BY <1>4 DEF Reported
    <2>2. PICK gone : gone = RowsGone /\ Only(gone, {})
        BY <1>6 DEF Sweeping
    <2>3. gone = {}
        BY <1>6, <2>1, <2>2 DEF Sweeping
    <2> QED
        BY <2>2, <2>3
<1> QED
    BY <1>1, <1>3, <1>5, <1>6 DEF AtEase

LEMMA AllAgree ==
    ASSUME Sound, Only({}, {})
    PROVE  /\ \A id \in DOMAIN table :
                 Agrees(id) /\ InSpace(id) /\ Live(id) /\ id \in DOMAIN remote /\ table[id].path \in DOMAIN disk
           /\ \A id : Live(id) <=> id \in DOMAIN table
           /\ \A path \in DOMAIN disk : path \in Columns
           /\ Columns \subseteq DOMAIN disk /\ RowsGone = {}
           /\ \A id \in DOMAIN table : LiveParent(remote[id].parent) /\ LiveParent(table[id].parent)
<1>1. \A id \in DOMAIN table :
         Agrees(id) /\ InSpace(id) /\ Live(id) /\ id \in DOMAIN remote /\ table[id].path \in DOMAIN disk
    BY RowFacts DEF Sound, Only, Agrees, InSpace, InFolder
<1>2. \A id : Live(id) <=> id \in DOMAIN table
    BY <1>1 DEF Only, Agrees, InSpace, Visible, Live
<1>3. \A path \in DOMAIN disk : path \in Columns
    BY DEF Only, Columns
<1>4. Columns \subseteq DOMAIN disk /\ RowsGone = {}
    BY <1>1 DEF Columns, RowsGone
<1>5. \A id \in DOMAIN table : LiveParent(remote[id].parent) /\ LiveParent(table[id].parent)
    BY <1>1 DEF LiveParent, InSpace, Fits, Below
<1> QED
    BY <1>1, <1>2, <1>3, <1>4, <1>5

LEMMA OnlyTouched ==
    ASSUME UNCHANGED <<table, remote>>, Only({}, {}), NEW touched, NEW ids, NEW paths,
           \A p \in DOMAIN disk \ touched : p \in DOMAIN disk' /\ disk'[p] = disk[p],
           \A p \in DOMAIN disk' \ paths : p \in DOMAIN disk \ touched,
           \A row \in DOMAIN table : row \in ids <=> table[row].path \in touched
    PROVE  Only(ids, paths)'
<1>1. ASSUME NEW row \in (Visible \cup DOMAIN table) \ ids
      PROVE  Agrees(row)'
    <2>1. Agrees(row) /\ row \in DOMAIN table
        BY DEF Only, Agrees, InSpace
    <2>2. table[row].path \in DOMAIN disk \ touched
        BY <2>1 DEF Agrees, InFolder
    <2>3. InFolder(row, table[row].path)'
        BY <2>1, <2>2 DEF Agrees, InFolder
    <2>4. InSpace(row)'
        BY <2>1, SamePlacing DEF Agrees
    <2> QED
        BY <2>3, <2>4 DEF Agrees
<1>2. ASSUME NEW p \in DOMAIN disk' \ paths
      PROVE  \E row \in DOMAIN table \ ids : table[row].path = p
    <2>1. p \in DOMAIN disk \ touched
        OBVIOUS
    <2>2. PICK row \in DOMAIN table : table[row].path = p
        BY <2>1 DEF Only
    <2> QED
        BY <2>1, <2>2
<1>3. Visible' = Visible
    BY SamePlacing
<1> QED
    BY <1>1, <1>2, <1>3 DEF Only

LEMMA UserOne ==
    ASSUME NEW event
    PROVE  ByUser(<<event>>) = <<[event |-> event, own |-> FALSE]>>
<1>1. PICK m : m = [event |-> event, own |-> FALSE]
    OBVIOUS
<1>2. ByUser(<<event>>) \in [1..1 -> {m}]
    <2>1. PICK events : events = <<event>>
        OBVIOUS
    <2>2. DOMAIN events = 1..1 /\ events[1] = event
        BY <2>1
    <2>3. ByUser(events) = [k \in 1..1 |-> [event |-> events[k], own |-> FALSE]]
        BY <2>2 DEF ByUser
    <2>4. \A k \in 1..1 : [event |-> events[k], own |-> FALSE] = m
        <3>1. \A k \in 1..1 : k = 1
            OBVIOUS
        <3>2. \A k \in 1..1 : events[k] = event
            BY <2>2, <3>1
        <3> QED
            BY <1>1, <3>2, Zenon
    <2>5. [k \in 1..1 |-> [event |-> events[k], own |-> FALSE]] \in [1..1 -> {m}]
        BY <2>4
    <2> QED
        BY <2>1, <2>3, <2>5
<1> QED
    BY <1>1, <1>2, OneOnly

LEMMA AskedOne ==
    ASSUME job'.at = "idle", NEW event, Meets(event)', NEW queue, queue = <<>> \o ByUser(<<event>>)
    PROVE  Asked(queue)'
<1>1. PICK m : m = [event |-> event, own |-> FALSE]
    OBVIOUS
<1>2. queue = <<m>>
    <2>1. ByUser(<<event>>) = <<m>>
        BY <1>1, UserOne
    <2>2. <<>> \o <<m>> = <<m>>
        OBVIOUS
    <2> QED
        BY <2>1, <2>2
<1>3. event \in {queue[k].event : k \in DOMAIN queue}
    <2>1. m.event = event
        BY <1>1
    <2>2. 1 \in DOMAIN <<m>> /\ <<m>>[1] = m
        OBVIOUS
    <2> QED
        BY <1>2, <2>1, <2>2
<1> QED
    BY <1>1, <1>2, <1>3 DEF Asked

LEMMA AsksRemote ==
    ASSUME Sound, Quiet, UNCHANGED <<table, ignored, job, disk, notified>>, NEW event,
           tlm' = tlm \o ByUser(<<event>>), Meets(event)', TableOK', Alone', FoldersPlain'
    PROVE  GoesOn
<1>1. job'.at = "idle" /\ tlm = <<>> /\ notified' = <<>>
    BY DEF Quiet
<1>2. PICK queue : queue = <<>> \o ByUser(<<event>>) /\ queue = tlm'
    BY <1>1
<1>3. Asked(queue)'
    BY <1>1, <1>2, AskedOne
<1>4. Asked(tlm)'
    <2>1. PICK e \in {queue[k].event : k \in DOMAIN queue} :
            queue = <<[event |-> e, own |-> FALSE]>> /\ Meets(e)'
        BY <1>3 DEF Asked
    <2> QED
        BY <1>1, <1>2, <2>1 DEF Asked
<1>5. AtEase'
    BY <1>1, <1>4 DEF AtEase
<1>6. RemovalsPending'
    BY DEF Sound, RemovalsPending
<1> QED
    BY <1>1, <1>5, <1>6, RestGoes DEF BetweenEvents

LEMMA AsksLocal ==
    ASSUME Sound, Quiet, UNCHANGED <<table, ignored, job, remote, tlm>>, NEW event,
           notified' = notified \o ByUser(<<event>>), Meets(event)', TableOK', Alone', FoldersPlain'
    PROVE  GoesOn
<1>1. job'.at = "idle" /\ notified = <<>> /\ tlm' = <<>>
    BY DEF Quiet
<1>2. PICK queue : queue = <<>> \o ByUser(<<event>>) /\ queue = notified'
    BY <1>1
<1>3. Asked(queue)'
    BY <1>1, <1>2, AskedOne
<1>4. Asked(notified)'
    <2>1. PICK e \in {queue[k].event : k \in DOMAIN queue} :
            queue = <<[event |-> e, own |-> FALSE]>> /\ Meets(e)'
        BY <1>3 DEF Asked
    <2> QED
        BY <1>1, <1>2, <2>1 DEF Asked
<1>5. AtEase'
    BY <1>1, <1>4 DEF AtEase
<1>6. RemovalsPending'
    <2>1. \A k \in DOMAIN notified : FALSE
        BY <1>1
    <2> QED
        BY <2>1 DEF Sound, RemovalsPending
<1> QED
    BY <1>1, <1>5, <1>6, RestGoes DEF BetweenEvents

LEMMA OnlyOf ==
    ASSUME Sound, Only({}, {}), NEW id \in DOMAIN table
    PROVE  Only({id}, {table[id].path})
BY OnlyWider

(* A file of the space changed. *)
LEMMA FileChanged ==
    ASSUME Sound, Only({}, {}), UNCHANGED <<table, disk>>, NEW id \in DOMAIN table, SpaceEdit(id),
           remote[id].type = "file", Live(id)', LiveParent(remote'[id].parent),
           remote'[id].parent # id
    PROVE  ReadyUpdated(id)'
<1>1. Only({id}, {table[id].path})'
    BY OnlyOf, OnlyEdited DEF Sound
<1>2. IsFile(table[id].path) /\ id \in DOMAIN remote
    BY AllAgree DEF Agrees, InFolder, IsFile, Exists
<1>3. IsFile(table[id].path)'
    BY <1>2 DEF IsFile, Exists
<1>4. Turning(id)'
    <2>1. remote'[id].type = "file"
        BY <1>2 DEF SpaceEdit
    <2>2. LiveParent(remote[id].parent)'
        BY OthersKept DEF Sound, LiveParent
    <2> QED
        BY <2>1, <2>2 DEF Turning
<1>5. PICK path : path = table[id].path
    OBVIOUS
<1>6. path \in DOMAIN disk' /\ IsFile(path)' /\ Only({id}, {path})'
    BY <1>1, <1>3, <1>5 DEF IsFile, Exists
<1> QED
    BY <1>4, <1>5, <1>6 DEF ReadyUpdated

LEMMA FillsRemoteCalm ==
    ASSUME Sound, Calm, Quiet, UNCHANGED <<table, ignored, job>>, UserFillsRemote
    PROVE  GoesOn
<1>1. PICK id \in DOMAIN remote :
        Live(id) /\ remote[id].type = "file" /\ RemoteChange(Filled(id, edits + 1), "Updated", id)
    BY DEF UserFillsRemote
<1>2. /\ remote' = Filled(id, edits + 1) /\ tlm' = tlm \o ByUser(<<RemoteEvent("Updated", id)>>)
      /\ UNCHANGED <<disk, notified>>
    BY <1>1 DEF RemoteChange, Tell, DiskUnchanged
<1>3. Only({}, {})
    BY QuietAgrees
<1>4. id \in DOMAIN table /\ remote[id].parent # id /\ LiveParent(remote[id].parent)
    BY <1>1, <1>3, AllAgree, NotOwnParent
<1>5. SpaceEdit(id) /\ Live(id)' /\ TableOK' /\ Alone' /\ FoldersPlain'
    BY <1>1, <1>2, <1>4, FillShares
<1>6. remote'[id].parent = remote[id].parent
    BY <1>2, FieldsEdited DEF Sound
<1>7. ReadyUpdated(id)'
    BY <1>1, <1>2, <1>3, <1>4, <1>5, <1>6, FileChanged
<1>8. PICK event : event = RemoteEvent("Updated", id)
    OBVIOUS
<1>9. id \in DOMAIN remote'
    BY <1>5 DEF SpaceEdit
<1>10. Meets(event)'
    BY <1>7, <1>8, <1>9 DEF Meets, RemoteEvent
<1> QED
    BY <1>2, <1>5, <1>8, <1>10, AsksRemote

LEMMA LabelsRemoteCalm ==
    ASSUME Sound, Calm, Quiet, Renaming \subseteq {"file"}, UNCHANGED <<table, ignored, job>>,
           UserLabelsRemote
    PROVE  GoesOn
<1>1. PICK id \in DOMAIN remote, name \in Names :
        /\ Live(id) /\ remote[id].type = "file" /\ Homonyms(id, name, remote[id].parent) = {}
        /\ RemoteChange(Labelled(id, name), "Updated", id)
    BY DEF UserLabelsRemote
<1>2. /\ remote' = Labelled(id, name) /\ tlm' = tlm \o ByUser(<<RemoteEvent("Updated", id)>>)
      /\ UNCHANGED <<disk, notified>>
    BY <1>1 DEF RemoteChange, Tell, DiskUnchanged
<1>3. Only({}, {})
    BY QuietAgrees
<1>4. id \in DOMAIN table /\ remote[id].parent # id /\ LiveParent(remote[id].parent)
    BY <1>1, <1>3, AllAgree, NotOwnParent
<1>5. /\ SpaceEdit(id) /\ id \in DOMAIN remote' /\ remote'[id].name = name
      /\ remote'[id].parent = remote[id].parent
      /\ remote'[id].type = remote[id].type /\ remote'[id].status = remote[id].status
    BY <1>2, FieldsEdited DEF Sound
<1>6. Live(id)'
    BY <1>1, <1>5 DEF Live
<1>7. TableOK' /\ Alone' /\ FoldersPlain'
    <2>1. remote[id].parent # Root =>
            remote[id].parent \in DOMAIN remote /\ remote[remote[id].parent].type = "folder"
        BY DEF Sound, ParentsHold
    <2>2. \A other \in Visible \ {id} :
            ~(remote[other].name = remote'[id].name /\ remote[other].parent = remote'[id].parent)
        BY <1>1, <1>5 DEF Homonyms, Visible
    <2>3. remote'[id].type = "file"
        BY <1>1, <1>5
    <2> QED
        BY <1>2, <1>4, <1>5, <2>1, <2>2, <2>3, Edited
<1>8. ReadyUpdated(id)'
    BY <1>1, <1>2, <1>3, <1>4, <1>5, <1>6, FileChanged
<1>9. PICK event : event = RemoteEvent("Updated", id)
    OBVIOUS
<1>10. Meets(event)'
    BY <1>5, <1>8, <1>9 DEF Meets, RemoteEvent
<1> QED
    BY <1>2, <1>7, <1>9, <1>10, AsksRemote

LEMMA MovesRemoteCalm ==
    ASSUME Sound, Calm, Quiet, Renaming \subseteq {"file"}, UNCHANGED <<table, ignored, job>>,
           UserMovesRemote
    PROVE  GoesOn
<1>1. PICK id \in DOMAIN remote, parent \in DOMAIN remote \cup {Root} :
        /\ Live(id) /\ remote[id].type = "file" /\ LiveParent(parent) /\ parent # id
        /\ parent # Root => remote[parent].type = "folder"
        /\ Homonyms(id, remote[id].name, parent) = {}
        /\ RemoteChange(Parented(id, parent), "Updated", id)
    BY DEF UserMovesRemote
<1>2. /\ remote' = Parented(id, parent) /\ tlm' = tlm \o ByUser(<<RemoteEvent("Updated", id)>>)
      /\ UNCHANGED <<disk, notified>>
    BY <1>1 DEF RemoteChange, Tell, DiskUnchanged
<1>3. Only({}, {})
    BY QuietAgrees
<1>4. id \in DOMAIN table
    BY <1>1, <1>3, AllAgree
<1>5. /\ SpaceEdit(id) /\ id \in DOMAIN remote' /\ remote'[id].name = remote[id].name
      /\ remote'[id].parent = parent
      /\ remote'[id].type = remote[id].type /\ remote'[id].status = remote[id].status
    BY <1>2, FieldsEdited DEF Sound
<1>6. Live(id)'
    BY <1>1, <1>5 DEF Live
<1>7. TableOK' /\ Alone' /\ FoldersPlain'
    <2>1. \A other \in Visible \ {id} :
            ~(remote[other].name = remote'[id].name /\ remote[other].parent = remote'[id].parent)
        BY <1>1, <1>5 DEF Homonyms, Visible
    <2>2. remote'[id].type = "file"
        BY <1>1, <1>5
    <2> QED
        BY <1>1, <1>2, <1>5, <2>1, <2>2, Edited
<1>8. ReadyUpdated(id)'
    BY <1>1, <1>2, <1>3, <1>4, <1>5, <1>6, FileChanged
<1>9. PICK event : event = RemoteEvent("Updated", id)
    OBVIOUS
<1>10. Meets(event)'
    BY <1>5, <1>8, <1>9 DEF Meets, RemoteEvent
<1> QED
    BY <1>2, <1>7, <1>9, <1>10, AsksRemote

(* A content of the space went away. *)
LEMMA RemovedFromSpace ==
    ASSUME Sound, Only({}, {}), UNCHANGED <<table, disk>>, NEW id \in DOMAIN table,
           NEW status, status # "live", remote' = Standing(id, status)
    PROVE  ReadyAbsent(id)' /\ TableOK' /\ Alone' /\ FoldersPlain' /\ id \in DOMAIN remote'
<1>1. id \in DOMAIN remote /\ InSpace(id) /\ table[id].path \in DOMAIN disk
    BY AllAgree
<1>2. /\ SpaceEdit(id) /\ id \in DOMAIN remote' /\ remote'[id].status = status
      /\ remote'[id].name = remote[id].name /\ remote'[id].parent = remote[id].parent
      /\ remote'[id].type = remote[id].type /\ remote'[id].bytes = remote[id].bytes
    BY <1>1, FieldsEdited DEF Sound
<1>3. ~Live(id)'
    BY <1>2 DEF Live
<1>4. TableOK' /\ Alone' /\ FoldersPlain'
    <2>1. remote[id].parent # Root =>
            /\ remote[id].parent \in DOMAIN remote /\ remote[id].parent # id
            /\ remote[remote[id].parent].type = "folder"
        BY <1>1, NotInItself DEF Sound, ParentsHold
    <2>2. remote[id].type = "folder" => remote[id].bytes = NoBytes
        BY <1>1 DEF Sound, FoldersPlain
    <2> QED
        BY <1>2, <1>3, <2>1, <2>2, Edited
<1>5. PICK path \in DOMAIN disk : table[id].path = path /\ path \in Path
    BY <1>1, RowFacts DEF Sound
<1>6. PICK rows, paths : rows = RowsUnder(path) /\ paths = Under(path)
    OBVIOUS
<1>7. id \in rows
    BY <1>5, <1>6, PrefixOrder DEF RowsUnder
<1>8. Only(rows, paths)
    <2>1. \A row \in DOMAIN table : row \in rows => table[row].path \in paths
        BY <1>6, AllAgree DEF RowsUnder, Under
    <2> QED
        BY <2>1, OnlyWider
<1>9. Only(rows, paths)'
    BY <1>2, <1>7, <1>8, OnlyEdited DEF Sound
<1>10. rows = RowsUnder(path)' /\ paths = Under(path)'
    BY <1>6 DEF RowsUnder, Under
<1>11. OnlyUnder(path)'
    BY <1>9, <1>10 DEF OnlyUnder
<1>12. Under(path)' \subseteq Columns' /\ RowsGone' = {}
    BY AllAgree DEF Under, Columns, RowsGone
<1>13. ReadyAbsent(id)'
    BY <1>3, <1>5, <1>11, <1>12 DEF ReadyAbsent
<1> QED
    BY <1>2, <1>4, <1>13

LEMMA TrashesRemoteCalm ==
    ASSUME Sound, Calm, Quiet, UNCHANGED <<table, ignored, job>>,
           UserTrashesRemote \/ UserSendsRemoteAway
    PROVE  GoesOn
<1>1. PICK id \in DOMAIN remote :
        /\ Live(id)
        /\ \/ RemoteChange(Standing(id, "trashed"), "Deleted", id)
           \/ RemoteChange(Standing(id, "gone"), "Left", id)
    BY DEF UserTrashesRemote, UserSendsRemoteAway, Trashed, Gone
<1>2. PICK event, status :
        /\ event \in {RemoteEvent("Deleted", id), RemoteEvent("Left", id)} /\ status # "live"
        /\ remote' = Standing(id, status) /\ tlm' = tlm \o ByUser(<<event>>)
        /\ UNCHANGED <<disk, notified>>
    BY <1>1 DEF RemoteChange, Tell, DiskUnchanged
<1>3. Only({}, {})
    BY QuietAgrees
<1>4. id \in DOMAIN table
    BY <1>1, <1>3, AllAgree
<1>5. ReadyAbsent(id)' /\ TableOK' /\ Alone' /\ FoldersPlain' /\ id \in DOMAIN remote'
    BY <1>2, <1>3, <1>4, RemovedFromSpace
<1>6. Meets(event)'
    BY <1>2, <1>5 DEF Meets, RemoteEvent
<1> QED
    BY <1>2, <1>5, <1>6, AsksRemote

(* A content of the space came up. *)
LEMMA CameUp ==
    ASSUME Sound, Calm, Quiet, Only({}, {}), UNCHANGED <<table, ignored, job, disk, notified>>,
           NEW id, id \notin DOMAIN table, SpaceEdit(id), Live(id)',
           LiveParent(remote'[id].parent), remote'[id].parent # id,
           remote'[id].parent # Root => remote[remote'[id].parent].type = "folder",
           Homonyms(id, remote'[id].name, remote'[id].parent) = {},
           remote'[id].type = "folder" => remote'[id].bytes = NoBytes,
           tlm' = tlm \o ByUser(<<RemoteEvent("Created", id)>>)
    PROVE  GoesOn
<1>1. id \in DOMAIN remote'
    BY DEF SpaceEdit
<1>2. TableOK' /\ Alone' /\ FoldersPlain'
    <2>1. \A other \in Visible \ {id} :
            ~(remote[other].name = remote'[id].name /\ remote[other].parent = remote'[id].parent)
        BY DEF Homonyms, Visible
    <2>2. remote'[id].parent # Root => remote'[id].parent \in DOMAIN remote
        BY DEF LiveParent, Live
    <2> QED
        BY <2>1, <2>2, Edited
<1>3. Only({id}, {})'
    <2>1. Only({id}, {})
        BY OnlyWider
    <2> QED
        BY <2>1, OnlyEdited DEF Sound
<1>4. LiveParent(remote[id].parent)'
    BY OthersKept DEF Sound, LiveParent
<1>5. ReadyPresent(id)'
    BY <1>3, <1>4 DEF ReadyPresent, Lacking
<1>6. PICK event : event = RemoteEvent("Created", id)
    OBVIOUS
<1>7. Meets(event)'
    BY <1>1, <1>5, <1>6 DEF Meets, RemoteEvent
<1> QED
    BY <1>2, <1>6, <1>7, AsksRemote

LEMMA RestoresRemoteCalm ==
    ASSUME Sound, Calm, Quiet, UNCHANGED <<table, ignored, job>>, UserRestoresRemote
    PROVE  GoesOn
<1>1. PICK id \in DOMAIN remote :
        /\ remote[id].status = "trashed" /\ LiveParent(remote[id].parent)
        /\ Homonyms(id, remote[id].name, remote[id].parent) = {}
        /\ RemoteChange(Standing(id, "live"), "Created", id)
    BY DEF UserRestoresRemote, Restored
<1>2. /\ remote' = Standing(id, "live") /\ tlm' = tlm \o ByUser(<<RemoteEvent("Created", id)>>)
      /\ UNCHANGED <<disk, notified>>
    BY <1>1 DEF RemoteChange, Tell, DiskUnchanged
<1>3. Only({}, {})
    BY QuietAgrees
<1>4. ~Live(id) /\ id \notin DOMAIN table
    <2>1. ~Live(id)
        BY <1>1 DEF Live
    <2> QED
        BY <1>3, <2>1, AllAgree
<1>5. /\ SpaceEdit(id) /\ id \in DOMAIN remote' /\ remote'[id].status = "live"
      /\ remote'[id].name = remote[id].name /\ remote'[id].parent = remote[id].parent
      /\ remote'[id].type = remote[id].type /\ remote'[id].bytes = remote[id].bytes
    BY <1>2, FieldsEdited DEF Sound
<1>6. Live(id)'
    BY <1>5 DEF Live
<1>7. remote[id].parent # id /\ id # Root
    <2>1. id # Root
        BY RowFacts DEF Sound
    <2> QED
        BY <1>1, <1>4, <2>1 DEF LiveParent
<1>8. remote[id].parent # Root => remote[remote[id].parent].type = "folder"
    BY DEF Sound, ParentsHold
<1>9. remote[id].type = "folder" => remote[id].bytes = NoBytes
    BY DEF Sound, FoldersPlain
<1> QED
    BY <1>1, <1>2, <1>3, <1>4, <1>5, <1>6, <1>7, <1>8, <1>9, CameUp

LEMMA CreatesRemoteCalm ==
    ASSUME Sound, Calm, Quiet, UNCHANGED <<table, ignored, job>>, UserCreatesRemote
    PROVE  GoesOn
<1>1. PICK id \in NewIds, name \in Names, parent \in DOMAIN remote \cup {Root},
           type \in {"file", "folder"}, bytes \in {edits + 1, NoBytes} :
        /\ LiveParent(parent) /\ (parent # Root => remote[parent].type = "folder")
        /\ Homonyms(id, name, parent) = {} /\ (type = "folder" => bytes = NoBytes)
        /\ RemoteChange(WithContent(id, NewContent(name, parent, type, bytes)), "Created", id)
    <2>1. PICK id \in NewIds, name \in Names, parent \in DOMAIN remote \cup {Root},
               type \in {"file", "folder"} :
            /\ LiveParent(parent) /\ (parent # Root => remote[parent].type = "folder")
            /\ Homonyms(id, name, parent) = {}
            /\ \E bytes \in {IF type = "file" THEN edits + 1 ELSE NoBytes} :
                  RemoteChange(WithContent(id, NewContent(name, parent, type, bytes)), "Created", id)
        BY DEF UserCreatesRemote
    <2> QED
        BY <2>1
<1>2. PICK content : content = NewContent(name, parent, type, bytes)
    OBVIOUS
<1>3. /\ remote' = WithContent(id, content) /\ tlm' = tlm \o ByUser(<<RemoteEvent("Created", id)>>)
      /\ UNCHANGED <<disk, notified>>
    BY <1>1, <1>2 DEF RemoteChange, Tell, DiskUnchanged
<1>4. Only({}, {})
    BY QuietAgrees
<1>5. id \notin DOMAIN remote /\ id # Root /\ id \notin DOMAIN table
    <2>1. id \notin DOMAIN remote /\ id \in Ids
        BY DEF NewIds
    <2>2. id # Root
        BY <2>1, RootAssumption
    <2> QED
        BY <2>1, <2>2, RowFacts DEF Sound
<1>6. DOMAIN remote' = DOMAIN remote \cup {id} /\ remote'[id] = content
      /\ \A other \in DOMAIN remote \ {id} : remote'[other] = remote[other]
    BY <1>3 DEF WithContent
<1>7. /\ content.name = name /\ content.parent = parent /\ content.type = type /\ content.bytes = bytes
      /\ content.status = "live"
    BY <1>2 DEF NewContent
<1>8. SpaceEdit(id) /\ Live(id)'
    BY <1>5, <1>6, <1>7 DEF SpaceEdit, Live
<1>9. parent # id
    BY <1>5
<1> QED
    BY <1>1, <1>3, <1>4, <1>5, <1>6, <1>7, <1>8, <1>9, CameUp

LEMMA CreatesLocalCalm ==
    ASSUME Sound, Calm, Quiet, UNCHANGED <<table, ignored, job>>, UserCreatesLocal
    PROVE  GoesOn
<1>1. PICK path \in DiskPath, entry \in {File(edits + 1), Folder} :
        /\ ~Exists(path) /\ ParentIsDir(path)
        /\ LocalChange(With(path, entry), <<LocalEvent("Created", path)>>)
    BY DEF UserCreatesLocal
<1>2. /\ disk' = With(path, entry) /\ notified' = notified \o ByUser(<<LocalEvent("Created", path)>>)
      /\ UNCHANGED <<remote, tlm>>
    BY <1>1 DEF LocalChange, Notify, RemoteUnchanged
<1>3. path \in Path /\ path \notin DOMAIN disk
    BY <1>1, DiskPathType DEF Exists
<1>4. /\ DOMAIN disk' = DOMAIN disk \cup {path} /\ disk'[path] = entry
      /\ \A p \in DOMAIN disk : disk'[p] = disk[p]
    BY <1>2, <1>3 DEF With
<1>5. Only({}, {})
    BY QuietAgrees
<1>6. TableOK' /\ Alone' /\ FoldersPlain'
    <2>1. entry.type = "folder" => entry.bytes = NoBytes
        BY <1>1 DEF File, Folder
    <2>2. \A p \in DOMAIN disk' : disk'[p].type = "folder" => disk'[p].bytes = NoBytes
        BY <1>4, <2>1 DEF Sound, FoldersPlain
    <2> QED
        BY <1>2, <2>2, DiskEdited
<1>7. Only({}, {path})'
    <2>1. PICK none : none = {}
        OBVIOUS
    <2>2. \A p \in DOMAIN disk \ none : p \in DOMAIN disk' /\ disk'[p] = disk[p]
        BY <1>4, <2>1
    <2>3. \A p \in DOMAIN disk' \ {path} : p \in DOMAIN disk \ none
        BY <1>4, <2>1
    <2>4. \A row \in DOMAIN table : row \in none <=> table[row].path \in none
        BY <2>1
    <2>5. Only(none, {path})'
        BY <1>2, <1>5, <2>2, <2>3, <2>4, OnlyTouched
    <2> QED
        BY <2>1, <2>5
<1>8. path \notin Columns'
    <2>1. path \notin Columns /\ Columns' = Columns
        BY <1>2, <1>3, <1>5, AllAgree, SamePlacing
    <2> QED
        BY <2>1
<1>9. ParentIsDir(path)'
    <2>1. CASE Len(path) = 1
        BY <2>1 DEF ParentIsDir
    <2>2. CASE IsDir(Front(path))
        BY <1>4, <2>2 DEF ParentIsDir, IsDir, Exists
    <2> QED
        BY <1>1, <2>1, <2>2 DEF ParentIsDir
<1>10. ReadyCreated(path)'
    BY <1>4, <1>7, <1>8, <1>9 DEF ReadyCreated
<1>11. PICK event : event = LocalEvent("Created", path)
    OBVIOUS
<1>12. Meets(event)'
    <2>1. path \in DOMAIN disk'
        BY <1>4
    <2> QED
        BY <1>10, <1>11, <2>1 DEF Meets, LocalEvent
<1> QED
    BY <1>2, <1>6, <1>11, <1>12, AsksLocal

LEMMA WritesLocalCalm ==
    ASSUME Sound, Calm, Quiet, UNCHANGED <<table, ignored, job>>, UserWritesLocal
    PROVE  GoesOn
<1>1. PICK path \in DOMAIN disk :
        IsFile(path) /\ LocalChange(With(path, File(edits + 1)), <<LocalEvent("Modified", path)>>)
    BY DEF UserWritesLocal
<1>2. PICK entry : entry = File(edits + 1) /\ entry.type = "file"
    <2>1. PICK entry : entry = File(edits + 1)
        OBVIOUS
    <2> QED
        BY <2>1 DEF File
<1>3. /\ disk' = With(path, entry) /\ notified' = notified \o ByUser(<<LocalEvent("Modified", path)>>)
      /\ UNCHANGED <<remote, tlm>>
    BY <1>1, <1>2 DEF LocalChange, Notify, RemoteUnchanged
<1>4. /\ DOMAIN disk' = DOMAIN disk /\ disk'[path] = entry
      /\ \A p \in DOMAIN disk \ {path} : disk'[p] = disk[p]
    BY <1>3 DEF With
<1>5. Only({}, {})
    BY QuietAgrees
<1>6. TableOK' /\ Alone' /\ FoldersPlain'
    <2>1. \A p \in DOMAIN disk' : disk'[p].type = "folder" => disk'[p].bytes = NoBytes
        BY <1>2, <1>4 DEF Sound, FoldersPlain
    <2> QED
        BY <1>3, <2>1, DiskEdited
<1>7. PICK id \in DOMAIN table : table[id].path = path
    BY <1>5 DEF Only
<1>8. Only({id}, {path})'
    <2>1. \A p \in DOMAIN disk \ {path} : p \in DOMAIN disk' /\ disk'[p] = disk[p]
        BY <1>4
    <2>2. \A p \in DOMAIN disk' \ {path} : p \in DOMAIN disk \ {path}
        BY <1>4
    <2>3. \A row \in DOMAIN table : row \in {id} <=> table[row].path \in {path}
        BY <1>7 DEF Sound, PathsDistinct
    <2> QED
        BY <1>3, <1>5, <2>1, <2>2, <2>3, OnlyTouched
<1>9. Rewritten(id, path)'
    <2>1. InSpace(id) /\ remote[id].type = "file"
        BY <1>1, <1>5, <1>7, AllAgree DEF Agrees, InFolder, IsFile
    <2>2. InSpace(id)'
        BY <1>3, <2>1, SamePlacing
    <2>3. IsFile(path)'
        BY <1>2, <1>4 DEF IsFile, Exists
    <2> QED
        BY <1>3, <1>7, <1>8, <2>1, <2>2, <2>3 DEF Rewritten
<1>10. ReadyModified(path)'
    BY <1>7, <1>9 DEF ReadyModified
<1>11. PICK event : event = LocalEvent("Modified", path)
    OBVIOUS
<1>12. Meets(event)'
    <2>1. path \in DOMAIN disk'
        BY <1>4
    <2> QED
        BY <1>10, <1>11, <2>1 DEF Meets, LocalEvent
<1> QED
    BY <1>3, <1>6, <1>11, <1>12, AsksLocal

LEMMA RenamesLocalCalm ==
    ASSUME Sound, Calm, Quiet, Renaming \subseteq {"file"}, UNCHANGED <<table, ignored, job>>,
           UserRenamesLocal
    PROVE  GoesOn
<1>1. PICK from \in DOMAIN disk, to \in DiskPath :
        /\ CanRename(from, to) /\ disk[from].type = "file"
        /\ LocalChange(Renamed(from, to), RenameEvents(from, to))
    BY DEF UserRenamesLocal
<1>2. /\ disk' = Renamed(from, to) /\ notified' = notified \o ByUser(<<RenamedEvent(from, to)>>)
      /\ UNCHANGED <<remote, tlm>>
    BY <1>1 DEF LocalChange, Notify, RemoteUnchanged, RenameEvents, IsDir
<1>3. from \in Path /\ to \in Path /\ from # to /\ ParentIsDir(to) /\ ~IsDir(to) /\ IsFile(from)
    BY <1>1, DiskPathType, RowFacts DEF CanRename, Sound, TreeOK, IsDir, IsFile, Exists
<1>4. /\ DOMAIN disk' = (DOMAIN disk \ {from}) \cup {to}
      /\ \A p \in DOMAIN disk \ {from, to} : disk'[p] = disk[p]
      /\ disk'[to] = disk[from]
    BY <1>2, <1>3, RenamesFile DEF Sound, IsFile, Exists
<1>5. Only({}, {})
    BY QuietAgrees
<1>6. TableOK' /\ Alone' /\ FoldersPlain'
    <2>1. \A p \in DOMAIN disk' : disk'[p].type = "folder" => disk'[p].bytes = NoBytes
        BY <1>1, <1>4 DEF Sound, FoldersPlain
    <2> QED
        BY <1>2, <2>1, DiskEdited
<1>7. PICK id \in DOMAIN table : table[id].path = from
    BY <1>5 DEF Only
<1>8. /\ Agrees(id) /\ InSpace(id) /\ Live(id) /\ id \in DOMAIN remote /\ remote[id].type = "file"
      /\ LiveParent(table[id].parent)
    BY <1>1, <1>5, <1>7, AllAgree DEF Agrees, InFolder
<1>9. PICK rows \in SUBSET DOMAIN table : rows = {id} \cup Rows(to)
    BY DEF Rows
<1>10. Only(rows, {to})'
    <2>1. \A p \in DOMAIN disk \ {from, to} : p \in DOMAIN disk' /\ disk'[p] = disk[p]
        BY <1>4
    <2>2. \A p \in DOMAIN disk' \ {to} : p \in DOMAIN disk \ {from, to}
        BY <1>4
    <2>3. \A row \in DOMAIN table : row \in rows <=> table[row].path \in {from, to}
        BY <1>7, <1>9 DEF Sound, PathsDistinct, Rows
    <2> QED
        BY <1>2, <1>5, <2>1, <2>2, <2>3, OnlyTouched
<1>11. Rows(to)' = Rows(to)
    BY DEF Rows
<1>12. \A other \in Rows(to) : remote[other].type = "file" /\ InSpace(other)
    <2> SUFFICES ASSUME NEW other \in Rows(to)
                 PROVE  remote[other].type = "file" /\ InSpace(other)
        OBVIOUS
    <2>1. other \in DOMAIN table /\ table[other].path = to
        BY DEF Rows
    <2>2. Agrees(other) /\ InSpace(other) /\ other \in DOMAIN remote
        BY <1>5, <2>1, AllAgree
    <2>3. remote[other].type \in {"file", "folder"}
        BY <2>2, RowFacts DEF Sound, Content
    <2> QED
        BY <1>3, <2>1, <2>2, <2>3 DEF Agrees, InFolder, IsDir, Exists
<1>13. InFolder(id, to)'
    BY <1>2, <1>4, <1>7, <1>8 DEF Agrees, InFolder
<1>14. ParentIsDir(to)'
    <2>1. CASE Len(to) = 1
        BY <2>1 DEF ParentIsDir
    <2>2. CASE Len(to) # 1 /\ IsDir(Front(to))
        <3>1. Front(to) # from /\ Front(to) # to
            BY <1>1, <1>3, <2>2 DEF IsDir, Exists
        <3> QED
            BY <1>4, <2>2, <3>1 DEF ParentIsDir, IsDir, Exists
    <2> QED
        BY <1>3, <2>1, <2>2 DEF ParentIsDir
<1>15. (table[id].parent # Root => Live(table[id].parent))'
    BY <1>2, <1>8 DEF LiveParent, Live
<1>16. Displaced(id, from, to)'
    <2>1. from \notin DOMAIN disk'
        BY <1>3, <1>4
    <2>2. Live(id)'
        BY <1>2, <1>8 DEF Live
    <2>3. \A other \in Rows(to)' : remote'[other].type = "file"
        BY <1>2, <1>11, <1>12
    <2>4. rows = {id} \cup Rows(to)' /\ rows \in SUBSET DOMAIN table'
        BY <1>9, <1>11
    <2> QED
        BY <1>2, <1>3, <1>7, <1>8, <1>10, <1>13, <1>14, <1>15, <2>1, <2>2, <2>3, <2>4 DEF Displaced
<1>17. InSpace(id)' /\ Undisturbed(to)'
    <2>1. \A other : InSpace(other) => InSpace(other)'
        BY <1>2, SamePlacing
    <2> QED
        BY <1>8, <1>11, <1>12, <2>1 DEF Undisturbed
<1>18. ReadyNamed(from, to)'
    BY <1>7, <1>16, <1>17 DEF ReadyNamed
<1>19. PICK event : event = RenamedEvent(from, to)
    OBVIOUS
<1>20. Meets(event)'
    <2>1. from \in Columns' /\ to \in DOMAIN disk'
        BY <1>4, <1>7 DEF Columns
    <2> QED
        BY <1>18, <1>19, <2>1 DEF Meets, RenamedEvent
<1> QED
    BY <1>2, <1>6, <1>19, <1>20, AsksLocal

LEMMA DeletesLocalCalm ==
    ASSUME Sound, Calm, Quiet, UNCHANGED <<table, ignored, job>>, UserDeletesLocal
    PROVE  GoesOn
<1>1. PICK path \in DOMAIN disk : \E order \in Removals(path) :
        LocalChange(Without(Under(path)), RemoveEvents(order))
    BY DEF UserDeletesLocal
<1>2. PICK order \in Removals(path) :
        /\ disk' = Without(Under(path)) /\ notified' = notified \o ByUser(RemoveEvents(order))
        /\ UNCHANGED <<remote, tlm>>
    BY <1>1 DEF LocalChange, Notify, RemoteUnchanged
<1>3. tlm = <<>> /\ notified = <<>> /\ job'.at = "idle" /\ tlm' = <<>>
    BY <1>2 DEF Quiet
<1>4. Only({}, {})
    BY QuietAgrees
<1>5. /\ DOMAIN disk' = DOMAIN disk \ Under(path)
      /\ \A p \in DOMAIN disk' : disk'[p] = disk[p]
    BY <1>2 DEF Without
<1>6. TableOK' /\ Alone' /\ FoldersPlain'
    BY <1>2, <1>5, DiskEdited DEF Sound, FoldersPlain
<1>7. RemovalTold(path, FALSE)
    BY <1>2, <1>3, RemovalTells
<1>8. PICK gone, under : gone = RowsGone' /\ under = Under(path)
    OBVIOUS
<1>9. \A row \in DOMAIN table : row \in gone <=> table[row].path \in under
    BY <1>2, <1>4, <1>5, <1>8, AllAgree DEF RowsGone
<1>10. Only(gone, {})'
    <2>1. \A p \in DOMAIN disk \ under : p \in DOMAIN disk' /\ disk'[p] = disk[p]
        BY <1>5, <1>8
    <2>2. \A p \in DOMAIN disk' \ {} : p \in DOMAIN disk \ under
        BY <1>5, <1>8
    <2>3. PICK none : none = {}
        OBVIOUS
    <2>4. Only(gone, none)'
        BY <1>2, <1>4, <1>9, <2>1, <2>2, <2>3, OnlyTouched
    <2> QED
        BY <2>3, <2>4
<1>11. gone \subseteq DOMAIN table
    BY <1>8 DEF RowsGone
<1>12. \A row \in gone : InSpace(row)'
    <2>1. \A row \in gone : InSpace(row)
        BY <1>4, <1>11, AllAgree
    <2> QED
        BY <1>2, <2>1, SamePlacing
<1>13. \A row \in gone : table[row].path \in Reported'
    <2> SUFFICES ASSUME NEW row \in gone PROVE table[row].path \in Reported'
        OBVIOUS
    <2>1. table[row].path \in Under(path)
        BY <1>8, <1>9, <1>11
    <2>2. PICK k \in DOMAIN notified' : notified'[k].event = LocalEvent("Deleted", table[row].path)
        BY <1>7, <2>1 DEF RemovalTold
    <2>3. notified'[k].event.path = table[row].path
        BY <2>2, EventKinds
    <2> QED
        BY <2>3 DEF Reported
<1>14. \A k \in DOMAIN notified' :
          /\ ~notified'[k].own /\ notified'[k].event = LocalEvent("Deleted", notified'[k].event.path)
          /\ \E row \in gone \ {} : table[row].path = notified'[k].event.path
    <2> SUFFICES ASSUME NEW k \in DOMAIN notified'
                 PROVE  \E row \in gone : table[row].path = notified'[k].event.path
        BY <1>7 DEF RemovalTold
    <2>1. PICK p : p = notified'[k].event.path /\ p \in Under(path)
        BY <1>7 DEF RemovalTold
    <2>2. p \in DOMAIN disk
        BY <2>1 DEF Under
    <2>3. PICK row \in DOMAIN table : table[row].path = p
        BY <1>4, <2>2 DEF Only
    <2> QED
        BY <1>8, <1>9, <2>1, <2>3
<1>15. Expected(tlm)'
    <2>1. DOMAIN tlm' = {}
        BY <1>3
    <2> QED
        BY <2>1 DEF Expected
<1>16. (\A k \in DOMAIN tlm : tlm[k].event.kind = "Deleted" /\ ~Live(tlm[k].event.id))'
    <2>1. DOMAIN tlm' = {}
        BY <1>3
    <2> QED
        BY <2>1
<1>17. \A j, k \in DOMAIN notified' :
          j < k => ~IsPrefix(notified'[j].event.path, notified'[k].event.path)
    BY <1>7 DEF RemovalTold
<1>18. Sweeping({})'
    <2>1. (\E one \in {RowsGone} : Only(one, {}))'
        BY <1>8, <1>10
    <2>2. (\A k \in DOMAIN notified :
            /\ ~notified[k].own /\ notified[k].event = LocalEvent("Deleted", notified[k].event.path)
            /\ \E row \in RowsGone \ {} : table[row].path = notified[k].event.path)'
        BY <1>8, <1>14
    <2>3. (\A row \in RowsGone \ {} : table[row].path \in Reported /\ InSpace(row))'
        BY <1>8, <1>12, <1>13
    <2> QED
        BY <1>15, <1>16, <1>17, <2>1, <2>2, <2>3 DEF Sweeping
<1>19. RemovalsPending'
    <2>1. \A k \in DOMAIN notified : FALSE
        BY <1>3
    <2> QED
        BY <2>1 DEF Sound, RemovalsPending
<1> QED
    BY <1>3, <1>6, <1>18, <1>19, RestGoes DEF BetweenEvents, AtEase

-------------------------------------------------------------------------------
(***************************************************************************)
(* Every step of calm users and of the operator.                           *)
(***************************************************************************)
LEMMA UsersCalm ==
    ASSUME Sound, Calm, Quiet, Renaming \subseteq {"file"}, UserActs
    PROVE  GoesOn
<1>1. UNCHANGED <<table, ignored, job>> /\ UserStep
    BY DEF UserActs, store
<1> QED
    BY <1>1, FillsRemoteCalm, LabelsRemoteCalm, MovesRemoteCalm, TrashesRemoteCalm, RestoresRemoteCalm,
       CreatesRemoteCalm, CreatesLocalCalm, WritesLocalCalm, RenamesLocalCalm, DeletesLocalCalm
       DEF UserStep

LEMMA DownloadsCalm ==
    ASSUME Sound, Inv', Calm, Faults = {}, DownloadStep
    PROVE  GoesOn
BY AbsentFromDiskCalm, FetchCreatedCalm, WriteCreatedCalm, FillCreatedCalm, StatCreatedCalm,
   FetchUpdatedCalm, MoveUpdatedCalm, FillUpdatedCalm, StatUpdatedCalm DEF DownloadStep

LEMMA UploadsCalm ==
    ASSUME Sound, Calm, Faults = {}, UploadStep
    PROVE  GoesOn
<1>1. SetParent \/ SetParentAgain => GoesOn
    BY SetParentAtCalm DEF SetParent, SetParentAgain
<1>2. ~FindExisting /\ ~CompareExisting
    BY AdoptCalm
<1> QED
    BY <1>1, <1>2, FetchAbsentCalm, TrashAbsentCalm, CreateContentCalm, FillContentCalm, GetCreatedCalm,
       StatContentCalm, UploadModifiedCalm, GetModifiedCalm, StatModifiedCalm, SetLabelCalm,
       FindHomonymCalm, TrashHomonymCalm, StatNamedCalm DEF UploadStep

(* The operator leaves everything calm, or misses a change. *)
LEMMA OperatorGoesOn ==
    ASSUME Sound, Inv', Calm, Faults = {}, OperatorStep
    PROVE  missed' \/ GoesOn
BY WatchLeftCalm, ReceiveRemoteCalm, ReceiveLocalCalm, DownloadsCalm, UploadsCalm, ApplyChangeCalm
   DEF OperatorStep

(* A change that was missed stays so, *)
LEMMA MissedStays ==
    ASSUME missed, Next
    PROVE  missed'
<1>1. CASE WatchLeft
    BY <1>1 DEF WatchLeft
<1>2. CASE ReceiveRemote
    BY <1>2 DEF ReceiveRemote, Receive
<1>3. CASE ReceiveLocal
    BY <1>3 DEF ReceiveLocal, Receive
<1>4. CASE DownloadStep
    BY <1>4, Zenon DEF DownloadStep, AbsentFromDisk, FetchCreated, WriteCreated, FillCreated, StatCreated,
       FetchUpdated, FetchDownload, MoveUpdated, FillUpdated, StatUpdated, Stat, Sys
<1>5. CASE UploadStep
    BY <1>5, Zenon DEF UploadStep, FetchAbsent, TrashAbsent, CreateContent, FindExisting, CompareExisting,
       FillContent, GetCreated, StatContent, UploadModified, GetModified, StatModified, GetContent,
       SetLabel, SetParent, FindHomonym, TrashHomonym, SetParentAgain, SetParentAt, StatNamed, Stat, Sys
<1>6. CASE ApplyChange
    BY <1>6 DEF ApplyChange
<1>7. CASE UserActs
    BY <1>7 DEF UserActs
<1> QED
    BY <1>1, <1>2, <1>3, <1>4, <1>5, <1>6, <1>7 DEF Next, OperatorStep

(* and a job that failed is the end of the operator. *)
LEMMA FailedStays ==
    ASSUME job.at = "failed", OperatorStep
    PROVE  UNCHANGED <<table, remote, job>>
<1>1. ~(DownloadStep \/ UploadStep \/ ApplyChange)
    <2>1. ~DownloadStep
        BY DEF DownloadStep, AbsentFromDisk, FetchCreated, WriteCreated, FillCreated, StatCreated,
           FetchUpdated, MoveUpdated, FillUpdated, StatUpdated, At
    <2>2. ~UploadStep
        BY DEF UploadStep, FetchAbsent, TrashAbsent, CreateContent, FindExisting, CompareExisting,
           FillContent, GetCreated, StatContent, UploadModified, GetModified, StatModified, GetContent,
           SetLabel, SetParent, FindHomonym, TrashHomonym, SetParentAgain, SetParentAt, StatNamed, At
    <2> QED
        BY <2>1, <2>2 DEF ApplyChange
<1>2. ~ReceiveRemote /\ ~ReceiveLocal
    BY DEF ReceiveRemote, ReceiveLocal, Receive
<1> QED
    BY <1>1, <1>2 DEF OperatorStep, WatchLeft, store

(* The steps of CalmSpec keep what is calm so, *)
CalmNext == OperatorStep \/ (Quiet /\ UserActs)

LEMMA CalmStep ==
    ASSUME Inv, Inv', Rooted(disk), CalmInv, Faults = {}, Renaming \subseteq {"file"}, CalmNext
    PROVE  CalmInv'
<1>1. CASE missed
    BY <1>1, MissedStays DEF CalmNext, Next, CalmInv
<1>2. CASE ~missed /\ job.at = "failed"
    <2>1. UNCHANGED <<table, remote, job>>
        BY <1>2, FailedStays DEF CalmNext, Quiet
    <2>2. TableOK
        BY <1>2 DEF CalmInv
    <2>3. TableOK'
        BY <2>1, <2>2 DEF TableOK, ParentsHold, ColumnsNested, PathsDistinct, Below
    <2> QED
        BY <1>2, <2>1, <2>3 DEF CalmInv
<1>3. CASE ~missed /\ Calm
    <2>1. Sound
        BY <1>3 DEF CalmInv, TableOK, Calm, Sound
    <2>2. missed' \/ GoesOn
        BY <1>3, <2>1, OperatorGoesOn, UsersCalm DEF CalmNext
    <2> QED
        BY <2>2 DEF GoesOn, CalmInv
<1> QED
    BY <1>1, <1>2, <1>3 DEF CalmInv

(* a step that changes nothing does, *)
LEMMA PlacesStay ==
    ASSUME UNCHANGED <<table, remote, disk>>
    PROVE  /\ \A id : Live(id)' <=> Live(id)
           /\ \A id, path : Fits(id, path)' <=> Fits(id, path)
           /\ \A id : InSpace(id)' <=> InSpace(id)
           /\ \A id, path : InFolder(id, path)' <=> InFolder(id, path)
           /\ \A id : Agrees(id)' <=> Agrees(id)
           /\ \A ids, paths : Only(ids, paths)' <=> Only(ids, paths)
<1>1. \A id : Live(id)' <=> Live(id)
    BY DEF Live
<1>2. \A id, path : Fits(id, path)' <=> Fits(id, path)
    BY DEF Fits, Below
<1>3. \A id : InSpace(id)' <=> InSpace(id)
    BY <1>1, <1>2 DEF InSpace
<1> QED
    BY <1>1, <1>2, <1>3 DEF InFolder, Agrees, Only, Visible

LEMMA CalmStays ==
    ASSUME CalmInv, UNCHANGED vars
    PROVE  CalmInv'
<1>0. UNCHANGED <<table, ignored, job, remote, disk, tlm, notified, missed>>
    BY DEF vars
<1>1. TableOK' = TableOK /\ Alone' = Alone /\ FoldersPlain' = FoldersPlain
    BY <1>0 DEF TableOK, ParentsHold, ColumnsNested, PathsDistinct, Below, Alone, Visible, Live, FoldersPlain
<1>2. RemovalsPending' = RemovalsPending
    BY <1>0 DEF RemovalsPending
<1>3. AtEase' = AtEase
    <2>1. \A ids, paths : Only(ids, paths)' <=> Only(ids, paths)
        BY <1>0 DEF Only, Visible, Live, Agrees, InSpace, Fits, Below, InFolder
    <2>2. EchoesDown' = EchoesDown /\ EchoesUp' = EchoesUp
        BY <1>0 DEF EchoesDown, Echoes, Again, Live, IsFile, Exists, EchoesUp
    <2>3. Sweeping({})' = Sweeping({})
        BY <1>0 DEF Sweeping, RowsGone, Reported, Only, Visible, Live, Agrees, InSpace,
           Fits, Below, InFolder, Expected
    <2>4. Sinking' = Sinking
        BY <1>0 DEF Sinking, Unexpected, Reported, OwnDeletions, Columns
    <2>5. \A event : Meets(event)' <=> Meets(event)
        BY <1>0 DEF Meets, RemoteEvent, ReadyUpdated, Turning, LiveParent, Live, Only,
           Visible, Agrees, InSpace, Fits, Below, InFolder, IsFile, Exists,
           ReadyPresent, Lacking, ReadyNamed, Undisturbed, Rows, Displaced, ParentIsDir,
           IsDir, ReadyModified, Rewritten, ReadyCreated, Columns, ReadyAbsent, Under,
           RowsGone, OnlyUnder, RowsUnder
    <2>6. Asked(tlm)' = Asked(tlm) /\ Asked(notified)' = Asked(notified)
        BY <1>0, <2>5 DEF Asked
    <2>7. Only({}, {})' <=> Only({}, {})
        BY <2>1
    <2> QED
        BY <1>0, <2>2, <2>3, <2>4, <2>6, <2>7 DEF AtEase
<1>4. OnHand' = OnHand
    <2>1. \A id : Bringing(id)' <=> Bringing(id)
        BY <1>0 DEF Bringing, Silent, ReadyPresent, Only, Visible, Live, Agrees,
           InSpace, Fits, Below, InFolder, Lacking, LiveParent, Brings, Place,
           RemotePath, IsFile, Exists, Expected, Echoes, Again
    <2>2. \A id : Refreshing(id)' <=> Refreshing(id)
        BY <1>0 DEF Refreshing, Turning, LiveParent, Live, Silent, ReadyUpdated, Only,
           Visible, Agrees, InSpace, Fits, Below, InFolder, IsFile, Exists, Brings,
           Place, RemotePath, Expected, Echoes, Again
    <2>3. \A id : Clearing(id)' <=> Clearing(id)
        BY <1>0 DEF Clearing, Silent, ReadyAbsent, Under, RowsGone, OnlyUnder,
           RowsUnder, Only, Visible, Live, Agrees, InSpace, Fits, Below, InFolder,
           Columns
    <2>4. \A path : Sharing(path)' <=> Sharing(path)
        BY <1>0 DEF Sharing, Silent, Shares, Only, Visible, Live, Agrees, InSpace, Fits,
           Below, InFolder, Lacking, LiveParent, Expected, Echoes, Again, IsFile,
           Exists, ReadyCreated, ParentIsDir, IsDir, Columns
    <2>5. \A path : Saving(path)' <=> Saving(path)
        BY <1>0 DEF Saving, Silent, Saves, Rewritten, Only, Visible, Live, Agrees,
           InSpace, Fits, Below, InFolder, IsFile, Exists, EchoesUp, Echoes, Again,
           ReadyModified
    <2>6. \A from, to : Relocating(from, to)' <=> Relocating(from, to)
        BY <1>0 DEF Relocating, Silent, Relocates, Undisturbed, Rows, InSpace, Live,
           Fits, Below, Replaced, ParentId, LiveParent, Expected, Echoes, Again, IsFile,
           Exists, Displaced, ParentIsDir, IsDir, Only, Visible, Agrees, InFolder,
           ReadyNamed
    <2>7. \A path : Discarding(path)' <=> Discarding(path)
        BY <1>0 DEF Discarding, Sweeping, RowsGone, Reported, Only, Visible, Live,
           Agrees, InSpace, Fits, Below, InFolder, Expected, Columns
    <2> QED
        BY <1>0, <2>1, <2>2, <2>3, <2>4, <2>5, <2>6, <2>7 DEF OnHand, Columns, Now
<1>5. Recording' = Recording
    BY <1>0 DEF Recording, RecordsUpdate, Turning, LiveParent, Live, Placed, Only,
       Visible, Agrees, InSpace, Fits, Below, InFolder, EchoesUp, Echoes, Again, IsFile,
       Exists, EchoesDown, RecordsReplaced, RecordsForgot, Unexpected, Sweeping,
       RowsGone, Reported, Expected, RowsUnder, OwnDeletions, RecordsAdd, Lacking
<1> QED
    BY <1>0, <1>1, <1>2, <1>3, <1>4, <1>5 DEF CalmInv, Calm, BetweenEvents

(* and it is so at the start. *)
LEMMA CalmStart ==
    ASSUME Init, Inv
    PROVE  CalmInv
<1>1. Follows /\ Matching /\ Typed(DOMAIN table) /\ AsItWas
    BY InitFollows, StartSynchronized DEF Synchronized, Matching
<1>2. /\ Visible = DOMAIN table /\ DOMAIN remote = DOMAIN table
      /\ \A id \in DOMAIN table : table[id].rev = remote[id].rev
    BY InitFollows DEF Untouched, Alike
<1>3. ParentsHold /\ PathsDistinct(table) /\ Alone /\ FoldersPlain /\ InPlace /\ ColumnsNested
    BY <1>1, InPlaceNested DEF Follows
<1>4. ASSUME NEW id \in DOMAIN table
      PROVE  Agrees(id)
    <2>1. Live(id)
        BY <1>2 DEF Visible, Live
    <2>2. InSpace(id)
        BY <1>3, <2>1 DEF InSpace, InPlace
    <2>3. table[id].path \in DOMAIN disk /\ disk[table[id].path].type = remote[id].type
        BY <1>1 DEF Matching, Columns, Typed
    <2>4. remote[id].type = "file" => disk[table[id].path].bytes = remote[id].bytes
        BY <1>1, <1>2 DEF AsItWas, SameBytes
    <2> QED
        BY <2>2, <2>3, <2>4 DEF Agrees, InFolder
<1>5. Only({}, {})
    BY <1>1, <1>2, <1>4 DEF Only, Matching, Columns
<1>6. job = Idle /\ ignored = {} /\ tlm = <<>> /\ notified = <<>>
    BY DEF Init
<1>7. job.at = "idle"
    BY <1>6 DEF Idle
<1>8. EchoesDown
    BY <1>6, NothingExpected DEF EchoesDown
<1>9. RemovalsPending
    BY <1>6 DEF RemovalsPending
<1> QED
    BY <1>3, <1>5, <1>7, <1>8, <1>9 DEF CalmInv, TableOK, Calm, BetweenEvents, AtEase

CalmAlways == Inv /\ Rooted(disk) /\ CalmInv

(* No bound of the instance matters but these: no call fails, and users     *)
(* rename files only.                                                       *)
LEMMA CalmInvariance ==
    ASSUME Faults = {}, Renaming \subseteq {"file"}
    PROVE  CalmSpec => []CalmAlways
<1>1. Init => CalmAlways
    BY InitInv, RootedStart, CalmStart DEF CalmAlways, Init
<1>2. CalmAlways /\ [CalmNext]_vars => CalmAlways'
    <2> SUFFICES ASSUME CalmAlways, [CalmNext]_vars
                 PROVE  CalmAlways'
        OBVIOUS
    <2>1. [Next]_vars
        BY DEF CalmNext, Next
    <2>2. Inv'
        BY <2>1, NextInv DEF CalmAlways
    <2>3. Rooted(disk)'
        BY <2>1, RootedStep DEF CalmAlways
    <2>4. CalmInv'
        BY <2>2, CalmStep, CalmStays DEF CalmAlways
    <2> QED
        BY <2>2, <2>3, <2>4 DEF CalmAlways
<1>3. CalmSpec => Init /\ [][CalmNext]_vars
    BY DEF CalmSpec, CalmNext
<1> QED
    BY <1>1, <1>2, <1>3, PTL

(* When nothing is left to do, the folder is the space. *)
LEMMA CalmSidesAgree ==
    ASSUME Sound, Only({}, {})
    PROVE  DiskTree = RemoteTree
<1>0. Inv /\ Rooted(disk) /\ ParentsHold /\ FoldersPlain
    BY DEF Sound
<1>1. \A id \in DOMAIN table :
         /\ Agrees(id) /\ InSpace(id) /\ Live(id) /\ id \in DOMAIN remote
         /\ table[id].path \in DOMAIN disk
    BY AllAgree
<1>2. InPlace
    BY <1>1 DEF InPlace, InSpace
<1>3. DOMAIN table = Listed
    <2>1. DOMAIN table \subseteq Listed
        BY <1>0, <1>1, <1>2, ThereListed
    <2>2. \A id \in Listed : Live(id)
        BY DEF Listed, Visible, Live
    <2> QED
        BY <2>1, <2>2, AllAgree
<1>4. \A id : id \in Listed <=> id \in Visible /\ HasPath(RemoteTable, id)
    BY <1>0, RowFacts DEF Listed, ParentsHold, Visible
<1>5. ASSUME NEW id \in Listed
      PROVE  PathOf(RemoteTable, id) = table[id].path
    <2>1. Fits(id, table[id].path) /\ table[id].path \in Path
        BY <1>0, <1>2, <1>3, RowFacts DEF InPlace
    <2> QED
        BY <1>0, <1>2, <2>1, RemoteColumn
<1>6. ASSUME NEW id \in Listed
      PROVE  /\ table[id].path \in DOMAIN disk
             /\ disk[table[id].path].type = remote[id].type
             /\ disk[table[id].path].bytes = remote[id].bytes
    <2>1. InFolder(id, table[id].path) /\ id \in DOMAIN remote
        BY <1>1, <1>3 DEF Agrees
    <2>2. CASE remote[id].type = "file"
        BY <2>1, <2>2 DEF InFolder
    <2>3. CASE remote[id].type = "folder"
        BY <1>0, <2>1, <2>3 DEF FoldersPlain, InFolder
    <2>4. remote[id].type \in {"file", "folder"}
        BY <1>0, <2>1, RowFacts DEF Content
    <2> QED
        BY <2>1, <2>2, <2>3, <2>4 DEF InFolder
<1>7. \A path \in DOMAIN disk : \E id \in Listed : path = table[id].path
    BY <1>3 DEF Only
<1>8. RemoteTree = {[path |-> table[id].path, type |-> remote[id].type,
                     bytes |-> remote[id].bytes] : id \in Listed}
    BY <1>4, <1>5 DEF RemoteTree
<1> QED
    BY <1>6, <1>7, <1>8 DEF DiskTree

(* When calm users rename files only and no call fails, the folder and the *)
(* space hold the same tree each time the operator is done with an event,  *)
(* unless a change was missed.                                             *)
THEOREM CalmConverges ==
    ASSUME Faults = {}, Renaming \subseteq {"file"}
    PROVE  CalmSpec => []Converged
<1>1. ASSUME CalmAlways
      PROVE  Converged
    <2> SUFFICES ASSUME Quiet, ~missed
                 PROVE  DiskTree = RemoteTree
        BY DEF Converged
    <2>1. job.at = "idle"
        BY DEF Quiet
    <2>2. Calm /\ Sound
        BY <1>1, <2>1 DEF CalmAlways, CalmInv, TableOK, Calm, Sound
    <2> QED
        BY <2>2, QuietAgrees, CalmSidesAgree
<1> QED
    BY <1>1, CalmInvariance, PTL

(* Then content_id_for_path finds every content of the State under the     *)
(* path the State gives it.                                                *)
THEOREM CalmPathsFound ==
    ASSUME Faults = {}, Renaming \subseteq {"file"}
    PROVE  CalmSpec => []PathsFound
<1>1. ASSUME CalmAlways
      PROVE  PathsFound
    <2> SUFFICES ASSUME ~missed
                 PROVE  ColumnsFresh
        BY DEF PathsFound
    <2>1. Inv /\ ColumnsNested /\ PathsDistinct(table)
        BY <1>1 DEF CalmAlways, CalmInv, TableOK
    <2> QED
        BY <2>1, RowAt DEF ColumnsFresh
<1> QED
    BY <1>1, CalmInvariance, PTL
===============================================================================
