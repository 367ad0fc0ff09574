----------------------------- MODULE OperatorProofs -----------------------------
(***************************************************************************)
(* Proofs about the operator.                                              *)
(*                                                                         *)
(* First what it works on: the two sides of a space keep their types,      *)
(* whatever the users do and whichever of the primitives of Space the      *)
(* operator calls; nothing is ever below what is not a folder; and a       *)
(* change of place makes no loop in the State unless the content is on the *)
(* way to its new parent.                                                  *)
(*                                                                         *)
(* Then its types, and that the State never claims a revision the server   *)
(* has not issued.  Both rest on one inductive invariant, Inv, which says  *)
(* what the event in hand (`job`) holds at each point of each executor.    *)
(***************************************************************************)
EXTENDS Operator, FoldProofs, FiniteSetTheorems, SequenceTheorems, TLAPS

(* What the queries and the modifications of the State return, whatever    *)
(* the contents and names: the lemmas the proofs about Operator rest on.   *)

ParentIds == Ids \cup {Root}

AddChanges    == [change: {"Add"}, id: Ids, path: Path, rev: Nat, parent: ParentIds, stamp: Nat]
UpdateChanges == [change: {"Update"}, id: Ids, name: Names, rev: Nat, parent: ParentIds,
                  stamp: Nat]
Changes == [change: {"Forgot"}, id: Ids] \cup AddChanges \cup UpdateChanges

-------------------------------------------------------------------------------
(* A path has a last component, and is one longer than what leads to it.   *)
LEMMA PathLast ==
    ASSUME NEW path \in Path
    PROVE  /\ path \in Seq(Names) /\ Len(path) \in Nat \ {0}
           /\ Last(path) \in Names
BY DEF Path, Last

LEMMA PathAppend ==
    ASSUME NEW path \in Seq(Names), NEW name \in Names
    PROVE  Append(path, name) \in Path
<1>1. Append(path, name) \in Seq(Names) /\ Len(Append(path, name)) = Len(path) + 1
    OBVIOUS
<1>2. Len(path) \in Nat /\ Len(<<>>) = 0
    OBVIOUS
<1>3. Append(path, name) # <<>>
    BY <1>1, <1>2
<1> QED
    BY <1>1, <1>3 DEF Path

(* `path` succeeds on known contents only (disk.rs, DiskState::path).      *)
LEMMA PartsShape ==
    ASSUME NEW T, NEW id, NEW parts \in Parts(T, id)
    PROVE  /\ parts \in Seq(DOMAIN T) /\ Len(parts) \in Nat \ {0}
           /\ \A k \in 1..Len(parts) : parts[k] \in DOMAIN T
           /\ id \in DOMAIN T
<1>1. PICK n \in 1..Cardinality(DOMAIN T) :
        parts \in [1..n -> DOMAIN T] /\ IsParts(T, parts, id)
    BY DEF Parts
<1>2. n \in Nat /\ n >= 1
    BY <1>1
<1>3. parts \in Seq(DOMAIN T) /\ Len(parts) = n
    BY <1>1, <1>2
<1>4. parts[n] \in DOMAIN T /\ parts[n] = id
    BY <1>1, <1>2, <1>3 DEF IsParts, Last
<1> QED
    BY <1>1, <1>2, <1>3, <1>4

LEMMA HasPathKnown ==
    ASSUME NEW T, NEW id, HasPath(T, id)
    PROVE  id \in DOMAIN T
BY PartsShape DEF HasPath

(* What `path` builds from the names of the rows is a path.                *)
LEMMA PathOfNames ==
    ASSUME NEW T, \A known \in DOMAIN T : FileName(T, known) \in Names,
           NEW id, HasPath(T, id)
    PROVE  PathOf(T, id) \in Path
<1> DEFINE parts == CHOOSE parts \in Parts(T, id) : TRUE
<1>1. parts \in Parts(T, id)
    BY DEF HasPath
<1> HIDE DEF parts
<1>2. /\ parts \in Seq(DOMAIN T) /\ Len(parts) \in Nat \ {0}
      /\ \A k \in 1..Len(parts) : parts[k] \in DOMAIN T
    BY <1>1, PartsShape
<1>3. PathOf(T, id) = [k \in 1..Len(parts) |-> FileName(T, parts[k])]
    BY DEF PathOf, parts
<1>4. PathOf(T, id) \in [1..Len(parts) -> Names]
    BY <1>2, <1>3
<1>5. PathOf(T, id) \in Seq(Names) /\ Len(PathOf(T, id)) = Len(parts)
    BY <1>2, <1>4
<1> QED
    BY <1>2, <1>5 DEF Path

LEMMA PathOfType ==
    ASSUME NEW T, IsTable(T), NEW id, HasPath(T, id)
    PROVE  PathOf(T, id) \in Path
<1>1. \A known \in DOMAIN T : FileName(T, known) \in Names
    BY PathLast DEF IsTable, Row, FileName
<1> QED
    BY <1>1, PathOfNames

LEMMA ContentIdKnown ==
    ASSUME NEW T, IsTable(T), NEW path
    PROVE  /\ ContentIdForPath(T, path) \in ParentIds
           /\ ContentIdForPath(T, path) # Root => ContentIdForPath(T, path) \in DOMAIN T
<1>1. CASE \E id \in DOMAIN T : T[id].path = path
    BY <1>1 DEF ContentIdForPath, ParentIds, IsTable
<1>2. CASE ~\E id \in DOMAIN T : T[id].path = path
    BY <1>2 DEF ContentIdForPath, ParentIds
<1> QED
    BY <1>1, <1>2

-------------------------------------------------------------------------------
LEMMA UpdatedPathType ==
    ASSUME NEW T, IsTable(T), NEW c \in UpdateChanges
    PROVE  UpdatedPath(T, c) \in Path
<1>1. CASE c.parent # Root /\ HasPath(T, c.parent)
    BY <1>1, PathOfType, PathLast, PathAppend DEF UpdatedPath, UpdateChanges
<1>2. CASE ~(c.parent # Root /\ HasPath(T, c.parent))
    <2>1. <<c.name>> \in Seq(Names) /\ <<c.name>> # <<>>
        BY DEF UpdateChanges
    <2> QED
        BY <1>2, <2>1 DEF UpdatedPath, Path
<1> QED
    BY <1>1, <1>2

(* Every modification turns a table into a table, and makes at most its    *)
(* own content known.                                                      *)
LEMMA ChangedType ==
    ASSUME NEW T, IsTable(T), NEW c \in Changes
    PROVE  IsTable(Changed(T, c)) /\ DOMAIN Changed(T, c) \subseteq DOMAIN T \cup {c.id}
<1>1. CASE c.change = "Forgot"
    BY <1>1 DEF Changed, ForgotWithChildren, IsTable
<1>2. CASE c \in AddChanges
    BY <1>2 DEF AddChanges, Changed, Added, IsTable, Row, ParentIds
<1>3. CASE c \in UpdateChanges
    BY <1>3, UpdatedPathType DEF UpdateChanges, Changed, Updated, IsTable, Row, ParentIds
<1> QED
    BY <1>1, <1>2, <1>3 DEF Changes

(* A content is forgotten with everything below it, so that no parent_id   *)
(* is left without its row (state/mod.rs, forgot_with_children).           *)
LEMMA SubtreeClosed ==
    ASSUME NEW T, NEW id
    PROVE  \A known \in Subtree(T, id) : DirectChildren(T, known) \subseteq Subtree(T, id)
BY DEF Subtree, Closed, DirectChildren

LEMMA ForgotKeepsParents ==
    ASSUME NEW T, ParentsKnown(T), NEW id
    PROVE  ParentsKnown(ForgotWithChildren(T, id))
BY SubtreeClosed DEF ParentsKnown, ForgotWithChildren, DirectChildren

LEMMA ChangedKeepsParents ==
    ASSUME NEW T, ParentsKnown(T), NEW c \in Changes,
           c.change = "Forgot" \/ c.parent \in DOMAIN T \cup {Root}
    PROVE  ParentsKnown(Changed(T, c))
<1>1. CASE c.change = "Forgot"
    BY <1>1, ForgotKeepsParents DEF Changed
<1>2. CASE c \in AddChanges
    BY <1>2 DEF AddChanges, Changed, Added, ParentsKnown
<1>3. CASE c \in UpdateChanges
    BY <1>3 DEF UpdateChanges, Changed, Updated, ParentsKnown
<1> QED
    BY <1>1, <1>2, <1>3 DEF Changes

-------------------------------------------------------------------------------
(* The two sides. *)

Entry == [type: {"file", "folder"}, bytes: Nat]

RemoteEvents(ids) ==
    [src: {"remote"}, kind: {"Created", "Updated", "Deleted", "Left"}, id: ids]

LocalEvents ==
    [src: {"local"}, kind: {"Created", "Modified", "Deleted"}, stored: Path, path: Path]
        \cup [src: {"local"}, kind: {"Renamed"}, stored: Path, before: Path, path: Path]

Message(events) == [event: events, own: BOOLEAN]

(* The contents of the space, for a value of `remote`. *)
ContentsOK(contents) ==
    DOMAIN contents \subseteq Ids /\ contents \in [DOMAIN contents -> Content]

(* The folder, for a value of `disk`. *)
TreeOK(tree) ==
    /\ IsFiniteSet(DOMAIN tree) /\ DOMAIN tree \subseteq Path
    /\ tree \in [DOMAIN tree -> Entry]

TlmOK(messages, contents) == messages \in Seq(Message(RemoteEvents(DOMAIN contents)))

NotifiedOK(events) == events \in Seq(Message(LocalEvents))

SidesOK == ContentsOK(remote) /\ TreeOK(disk) /\ TlmOK(tlm, remote) /\ NotifiedOK(notified)

-------------------------------------------------------------------------------
(* Events. *)
LEMMA Tagged ==
    ASSUME NEW E, NEW events \in Seq(E)
    PROVE  /\ ByUser(events) \in Seq(Message(E))
           /\ Own(events) \in Seq(Message(E))
<1>1. DOMAIN events = 1..Len(events) /\ Len(events) \in Nat
    BY LenProperties
<1>2. ASSUME NEW k \in 1..Len(events), NEW own \in BOOLEAN
      PROVE  [event |-> events[k], own |-> own] \in Message(E)
    BY <1>2, ElementOfSeq DEF Message
<1>3. ByUser(events) \in [1..Len(events) -> Message(E)]
    BY <1>1, <1>2 DEF ByUser
<1>4. Own(events) \in [1..Len(events) -> Message(E)]
    BY <1>1, <1>2 DEF Own
<1> QED
    BY <1>1, <1>3, <1>4

LEMMA LocalEventType ==
    ASSUME NEW path \in Path, NEW kind \in {"Created", "Modified", "Deleted"}
    PROVE  LocalEvent(kind, path) \in LocalEvents
BY DEF LocalEvent, LocalEvents

LEMMA RenameEventsType ==
    ASSUME NEW from \in Path, NEW to \in Path
    PROVE  RenameEvents(from, to) \in Seq(LocalEvents)
<1>1. /\ LocalEvent("Deleted", from) \in LocalEvents
      /\ LocalEvent("Created", to) \in LocalEvents
    BY LocalEventType
<1>2. RenamedEvent(from, to) \in LocalEvents
    BY DEF RenamedEvent, LocalEvents
<1> QED
    BY <1>1, <1>2 DEF RenameEvents

LEMMA WriteEventsType ==
    ASSUME NEW path \in Path
    PROVE  WriteEvents(path) \in Seq(LocalEvents)
<1>1. LocalEvent(IF Exists(path) THEN "Modified" ELSE "Created", path) \in LocalEvents
    BY LocalEventType
<1> QED
    BY <1>1 DEF WriteEvents

(* A set of paths in some order. *)
LEMMA OrderType ==
    ASSUME NEW S, IsFiniteSet(S), NEW order \in SetToSeqs(S)
    PROVE  order \in Seq(S) /\ DOMAIN order = 1..Cardinality(S) /\ Cardinality(S) \in Nat
BY FS_CardinalityType DEF SetToSeqs

LEMMA EachEventType ==
    ASSUME NEW paths \in SUBSET Path, IsFiniteSet(paths), NEW order \in SetToSeqs(paths),
           NEW kind \in {"Created", "Deleted"}
    PROVE  [k \in DOMAIN order |-> LocalEvent(kind, order[k])] \in Seq(LocalEvents)
<1>1. order \in Seq(paths) /\ DOMAIN order = 1..Cardinality(paths) /\ Cardinality(paths) \in Nat
    BY OrderType
<1>2. \A k \in DOMAIN order : order[k] \in Path
    BY <1>1
<1>3. \A k \in DOMAIN order : LocalEvent(kind, order[k]) \in LocalEvents
    BY <1>2, LocalEventType
<1> QED
    BY <1>1, <1>3

-------------------------------------------------------------------------------
(* The disk. *)
LEMMA WithType ==
    ASSUME TreeOK(disk), NEW path \in Path, NEW entry \in Entry
    PROVE  TreeOK(With(path, entry))
<1>1. IsFiniteSet(DOMAIN disk \cup {path})
    BY FS_AddElement DEF TreeOK
<1> QED
    BY <1>1 DEF TreeOK, With

LEMMA WithoutType ==
    ASSUME TreeOK(disk), NEW paths
    PROVE  TreeOK(Without(paths))
<1>1. IsFiniteSet(DOMAIN disk \ paths)
    BY FS_Subset DEF TreeOK
<1> QED
    BY <1>1 DEF TreeOK, Without

LEMMA UnderFinite ==
    ASSUME TreeOK(disk), NEW path
    PROVE  IsFiniteSet(Under(path)) /\ Under(path) \in SUBSET Path
<1>1. Under(path) \in SUBSET DOMAIN disk
    BY DEF Under
<1> QED
    BY <1>1, FS_Subset DEF TreeOK

LEMMA MovedType ==
    ASSUME NEW from \in Path, NEW to \in Path, NEW p \in Path
    PROVE  Moved(from, to, p) \in Path
<1>1. to \in Seq(Names) /\ Len(to) \in Nat \ {0} /\ Len(from) \in Nat /\ Len(p) \in Nat
    BY DEF Path
<1>2. \A i \in (Len(from) + 1)..Len(p) : p[i] \in Names
    BY <1>1 DEF Path
<1>3. SubSeq(p, Len(from) + 1, Len(p)) \in Seq(Names)
    BY <1>1, <1>2, SubSeqProperties
<1>4. /\ to \o SubSeq(p, Len(from) + 1, Len(p)) \in Seq(Names)
      /\ Len(to \o SubSeq(p, Len(from) + 1, Len(p)))
            = Len(to) + Len(SubSeq(p, Len(from) + 1, Len(p)))
      /\ Len(SubSeq(p, Len(from) + 1, Len(p))) \in Nat
    BY <1>1, <1>3, ConcatProperties
<1> QED
    BY <1>1, <1>4 DEF Moved, Path

LEMMA DiskPathType ==
    ASSUME NEW path \in DiskPath
    PROVE  path \in Path
<1>1. PICK n \in 1..MaxDepth : path \in [1..n -> Names]
    BY DEF DiskPath
<1>2. n \in Nat \ {0}
    BY <1>1, SpaceAssumption
<1>3. path \in Seq(Names) /\ Len(path) = n
    BY <1>1, <1>2
<1> QED
    BY <1>2, <1>3 DEF Path

LEMMA RemoveEventsType ==
    ASSUME TreeOK(disk), NEW path, NEW order \in Removals(path)
    PROVE  RemoveEvents(order) \in Seq(LocalEvents)
<1>1. order \in SetToSeqs(Under(path))
    BY DEF Removals
<1> QED
    BY <1>1, UnderFinite, EachEventType DEF RemoveEvents

LEMMA RenamedType ==
    ASSUME TreeOK(disk), NEW from \in Path, NEW to \in Path
    PROVE  TreeOK(Renamed(from, to))
<1> DEFINE kept  == DOMAIN disk \ (Under(from) \cup {to})
           moved == {Moved(from, to, p) : p \in Under(from)}
           f     == [p \in Under(from) |-> Moved(from, to, p)]
<1>1. IsFiniteSet(Under(from)) /\ Under(from) \subseteq Path /\ Under(from) \subseteq DOMAIN disk
    BY UnderFinite DEF Under
<1>2. f \in Surjection(Under(from), moved)
    BY DEF Surjection
<1>3. IsFiniteSet(moved)
    BY <1>1, <1>2, FS_Surjection
<1>4. IsFiniteSet(kept)
    BY FS_Subset DEF TreeOK
<1>5. moved \subseteq Path
    BY <1>1, MovedType
<1>6. DOMAIN Renamed(from, to) = kept \cup moved
    BY DEF Renamed
<1>7. ASSUME NEW p \in kept \cup moved
      PROVE  Renamed(from, to)[p] \in Entry
    <2>1. CASE p \in kept
        BY <2>1 DEF Renamed, TreeOK
    <2>2. CASE p \notin kept
        <3>1. \E q \in Under(from) : Moved(from, to, q) = p
            BY <2>2
        <3>2. (CHOOSE q \in Under(from) : Moved(from, to, q) = p) \in DOMAIN disk
            BY <1>1, <3>1
        <3> QED
            BY <2>2, <3>2 DEF Renamed, TreeOK
    <2> QED
        BY <2>1, <2>2
<1>8. Renamed(from, to) \in [kept \cup moved -> Entry]
    BY <1>6, <1>7 DEF Renamed
<1>9. IsFiniteSet(kept \cup moved)
    BY <1>3, <1>4, FS_Union
<1>10. kept \cup moved \subseteq Path
    BY <1>5 DEF TreeOK
<1> HIDE DEF kept, moved, f
<1> QED
    BY <1>6, <1>8, <1>9, <1>10 DEF TreeOK

-------------------------------------------------------------------------------
(* The server: no content disappears, and no revision goes back. *)
Grows(contents) ==
    /\ DOMAIN remote \subseteq DOMAIN contents
    /\ \A id \in DOMAIN remote : remote[id].rev <= contents[id].rev

LEMMA WithContentType ==
    ASSUME ContentsOK(remote), NEW id \in Ids \ DOMAIN remote, NEW content \in Content
    PROVE  ContentsOK(WithContent(id, content)) /\ Grows(WithContent(id, content))
BY DEF ContentsOK, WithContent, Grows, Content

LEMMA EditedContent ==
    ASSUME NEW old \in Content, NEW rev \in Nat
    PROVE  /\ \A bytes \in Nat : [old EXCEPT !.bytes = bytes, !.rev = rev] \in Content
           /\ \A name \in Names : [old EXCEPT !.name = name, !.rev = rev] \in Content
           /\ \A parent \in ParentIds :
                 [old EXCEPT !.parent = parent, !.rev = rev] \in Content
           /\ \A status \in {"live", "trashed", "gone"} :
                 [old EXCEPT !.status = status, !.rev = rev] \in Content
BY DEF Content, ParentIds

LEMMA EditedType ==
    ASSUME ContentsOK(remote), NEW id \in DOMAIN remote
    PROVE  /\ \A bytes \in Nat :
                 ContentsOK(Filled(id, bytes)) /\ Grows(Filled(id, bytes))
           /\ \A name \in Names :
                 ContentsOK(Labelled(id, name)) /\ Grows(Labelled(id, name))
           /\ \A parent \in ParentIds :
                 ContentsOK(Parented(id, parent)) /\ Grows(Parented(id, parent))
           /\ \A status \in {"live", "trashed", "gone"} :
                 ContentsOK(Standing(id, status)) /\ Grows(Standing(id, status))
<1>1. remote[id] \in Content
    BY DEF ContentsOK
<1>2. ASSUME NEW content \in Content, content.rev >= remote[id].rev
      PROVE  /\ ContentsOK([remote EXCEPT ![id] = content])
             /\ Grows([remote EXCEPT ![id] = content])
    BY <1>2 DEF ContentsOK, Grows, Content
<1>3. ASSUME NEW bytes \in Nat
      PROVE  ContentsOK(Filled(id, bytes)) /\ Grows(Filled(id, bytes))
    <2> DEFINE content == [remote[id] EXCEPT !.bytes = bytes, !.rev = @ + 1]
    <2>1. content \in Content /\ content.rev >= remote[id].rev
        <3>1. /\ remote[id].rev \in Nat /\ remote[id].rev + 1 \in Nat
              /\ content.rev = remote[id].rev + 1
            BY <1>1 DEF Content
        <3>2. content \in Content
            BY <1>1, <3>1, EditedContent
        <3> HIDE DEF content
        <3> QED
            BY <3>1, <3>2
    <2>2. Filled(id, bytes) = [remote EXCEPT ![id] = content]
        BY <1>1 DEF Filled, ContentsOK, Content
    <2> QED
        BY <1>2, <2>1, <2>2
<1>4. ASSUME NEW name \in Names
      PROVE  ContentsOK(Labelled(id, name)) /\ Grows(Labelled(id, name))
    <2> DEFINE content == [remote[id] EXCEPT !.name = name, !.rev = @ + 1]
    <2>1. content \in Content /\ content.rev >= remote[id].rev
        <3>1. /\ remote[id].rev \in Nat /\ remote[id].rev + 1 \in Nat
              /\ content.rev = remote[id].rev + 1
            BY <1>1 DEF Content
        <3>2. content \in Content
            BY <1>1, <3>1, EditedContent
        <3> HIDE DEF content
        <3> QED
            BY <3>1, <3>2
    <2>2. Labelled(id, name) = [remote EXCEPT ![id] = content]
        BY <1>1 DEF Labelled, ContentsOK, Content
    <2> QED
        BY <1>2, <2>1, <2>2
<1>5. ASSUME NEW parent \in ParentIds
      PROVE  ContentsOK(Parented(id, parent)) /\ Grows(Parented(id, parent))
    <2> DEFINE content == [remote[id] EXCEPT !.parent = parent, !.rev = @ + 1]
    <2>1. content \in Content /\ content.rev >= remote[id].rev
        <3>1. /\ remote[id].rev \in Nat /\ remote[id].rev + 1 \in Nat
              /\ content.rev = remote[id].rev + 1
            BY <1>1 DEF Content
        <3>2. content \in Content
            BY <1>1, <3>1, EditedContent
        <3> HIDE DEF content
        <3> QED
            BY <3>1, <3>2
    <2>2. Parented(id, parent) = [remote EXCEPT ![id] = content]
        BY <1>1 DEF Parented, ContentsOK, Content
    <2> QED
        BY <1>2, <2>1, <2>2
<1>6. ASSUME NEW status \in {"live", "trashed", "gone"}
      PROVE  ContentsOK(Standing(id, status)) /\ Grows(Standing(id, status))
    <2> DEFINE content == [remote[id] EXCEPT !.status = status, !.rev = @ + 1]
    <2>1. content \in Content /\ content.rev >= remote[id].rev
        <3>1. /\ remote[id].rev \in Nat /\ remote[id].rev + 1 \in Nat
              /\ content.rev = remote[id].rev + 1
            BY <1>1 DEF Content
        <3>2. content \in Content
            BY <1>1, <3>1, EditedContent
        <3> HIDE DEF content
        <3> QED
            BY <3>1, <3>2
    <2>2. Standing(id, status) = [remote EXCEPT ![id] = content]
        BY <1>1 DEF Standing, ContentsOK, Content
    <2> QED
        BY <1>2, <2>1, <2>2
<1> QED
    BY <1>3, <1>4, <1>5, <1>6

(* Messages name contents of the space, which never leave it for good. *)
LEMMA TlmGrows ==
    ASSUME NEW messages, TlmOK(messages, remote), NEW contents, Grows(contents)
    PROVE  TlmOK(messages, contents)
<1>1. Message(RemoteEvents(DOMAIN remote)) \subseteq Message(RemoteEvents(DOMAIN contents))
    BY DEF Message, RemoteEvents, Grows
<1> QED
    BY <1>1, SeqMonotonic DEF TlmOK

LEMMA Told ==
    ASSUME TlmOK(tlm, remote), NEW contents, Grows(contents),
           NEW id \in DOMAIN contents, NEW kind \in {"Created", "Updated", "Deleted", "Left"}
    PROVE  /\ TlmOK(tlm \o ByUser(<<RemoteEvent(kind, id)>>), contents)
           /\ TlmOK(tlm \o Own(<<RemoteEvent(kind, id)>>), contents)
<1>1. TlmOK(tlm, contents)
    BY TlmGrows
<1>2. RemoteEvent(kind, id) \in RemoteEvents(DOMAIN contents)
    BY DEF RemoteEvent, RemoteEvents
<1>3. /\ ByUser(<<RemoteEvent(kind, id)>>) \in Seq(Message(RemoteEvents(DOMAIN contents)))
      /\ Own(<<RemoteEvent(kind, id)>>) \in Seq(Message(RemoteEvents(DOMAIN contents)))
    <2>1. <<RemoteEvent(kind, id)>> \in Seq(RemoteEvents(DOMAIN contents))
        BY <1>2
    <2> QED
        BY <2>1, Tagged
<1> QED
    BY <1>1, <1>3, ConcatProperties DEF TlmOK

LEMMA Notified ==
    ASSUME NotifiedOK(notified), NEW events \in Seq(LocalEvents)
    PROVE  NotifiedOK(notified \o ByUser(events)) /\ NotifiedOK(notified \o Own(events))
BY Tagged, ConcatProperties DEF NotifiedOK

-------------------------------------------------------------------------------
(* The users. *)
UsersOK == SidesOK /\ edits \in 0..MaxEdits

LEMMA EditBound ==
    ASSUME edits \in 0..MaxEdits, Edit
    PROVE  edits' \in 0..MaxEdits /\ edits + 1 \in Nat
BY SpaceAssumption DEF Edit

LEMMA RemoteChangeType ==
    ASSUME UsersOK, NEW contents, ContentsOK(contents), Grows(contents),
           NEW id \in DOMAIN contents, NEW kind \in {"Created", "Updated", "Deleted", "Left"},
           RemoteChange(contents, kind, id)
    PROVE  UsersOK' /\ Grows(remote')
<1>1. remote' = contents /\ ContentsOK(remote') /\ Grows(remote')
    BY DEF RemoteChange
<1>2. TlmOK(tlm', remote')
    BY <1>1, Told DEF RemoteChange, Tell, UsersOK, SidesOK
<1>3. TreeOK(disk') /\ NotifiedOK(notified')
    BY DEF RemoteChange, DiskUnchanged, UsersOK, SidesOK
<1>4. edits' \in 0..MaxEdits
    BY EditBound DEF RemoteChange, UsersOK
<1> QED
    BY <1>1, <1>2, <1>3, <1>4 DEF UsersOK, SidesOK, ContentsOK, TreeOK, TlmOK, NotifiedOK

LEMMA LocalChangeType ==
    ASSUME UsersOK, NEW tree, TreeOK(tree), NEW events \in Seq(LocalEvents),
           LocalChange(tree, events)
    PROVE  UsersOK' /\ Grows(remote')
<1>1. disk' = tree /\ TreeOK(disk')
    BY DEF LocalChange
<1>2. NotifiedOK(notified')
    BY Notified DEF LocalChange, Notify, UsersOK, SidesOK
<1>3. remote' = remote /\ tlm' = tlm
    BY DEF LocalChange, RemoteUnchanged
<1>4. edits' \in 0..MaxEdits
    BY EditBound DEF LocalChange, UsersOK
<1>5. Grows(remote')
    BY <1>3 DEF Grows, UsersOK, SidesOK, ContentsOK, Content
<1> QED
    BY <1>1, <1>2, <1>3, <1>4, <1>5 DEF UsersOK, SidesOK, ContentsOK, TreeOK, TlmOK, NotifiedOK

(* What the users do keeps the types of both sides. *)
LEMMA UserStepType ==
    ASSUME UsersOK, UserStep
    PROVE  UsersOK' /\ Grows(remote')
<1> USE DEF UsersOK, SidesOK
<1>1. CASE UserCreatesRemote
    <2>1. PICK id \in NewIds, name \in Names, parent \in DOMAIN remote \cup {Root},
               type \in {"file", "folder"} :
            LET bytes == IF type = "file" THEN edits + 1 ELSE NoBytes
            IN  RemoteChange(WithContent(id, NewContent(name, parent, type, bytes)),
                             "Created", id)
        BY <1>1 DEF UserCreatesRemote
    <2> DEFINE bytes == IF type = "file" THEN edits + 1 ELSE NoBytes
    <2>2. bytes \in Nat
        BY SpaceAssumption DEF NoBytes
    <2>3. id \in Ids \ DOMAIN remote
        BY DEF NewIds
    <2> HIDE DEF bytes
    <2>4. NewContent(name, parent, type, bytes) \in Content
        BY <2>2 DEF NewContent, Content, ContentsOK
    <2>5. id \in DOMAIN WithContent(id, NewContent(name, parent, type, bytes))
        BY DEF WithContent
    <2> QED
        BY <2>1, <2>3, <2>4, <2>5, WithContentType, RemoteChangeType DEF bytes
<1>2. CASE UserFillsRemote
    <2>1. PICK id \in DOMAIN remote : RemoteChange(Filled(id, edits + 1), "Updated", id)
        BY <1>2 DEF UserFillsRemote
    <2>2. edits + 1 \in Nat
        BY <2>1, EditBound DEF RemoteChange
    <2> QED
        BY <2>1, <2>2, EditedType, RemoteChangeType DEF Grows
<1>3. CASE UserLabelsRemote
    <2>1. PICK id \in DOMAIN remote, name \in Names :
            RemoteChange(Labelled(id, name), "Updated", id)
        BY <1>3 DEF UserLabelsRemote
    <2> QED
        BY <2>1, EditedType, RemoteChangeType DEF Grows
<1>4. CASE UserMovesRemote
    <2>1. PICK id \in DOMAIN remote, parent \in DOMAIN remote \cup {Root} :
            RemoteChange(Parented(id, parent), "Updated", id)
        BY <1>4 DEF UserMovesRemote
    <2>2. parent \in ParentIds
        BY DEF ParentIds, ContentsOK
    <2> QED
        BY <2>1, <2>2, EditedType, RemoteChangeType DEF Grows
<1>5. CASE UserTrashesRemote
    <2>1. PICK id \in DOMAIN remote : RemoteChange(Trashed(id), "Deleted", id)
        BY <1>5 DEF UserTrashesRemote
    <2> QED
        BY <2>1, EditedType, RemoteChangeType DEF Grows, Trashed
<1>6. CASE UserRestoresRemote
    <2>1. PICK id \in DOMAIN remote : RemoteChange(Restored(id), "Created", id)
        BY <1>6 DEF UserRestoresRemote
    <2> QED
        BY <2>1, EditedType, RemoteChangeType DEF Grows, Restored
<1>7. CASE UserSendsRemoteAway
    <2>1. PICK id \in DOMAIN remote : RemoteChange(Gone(id), "Left", id)
        BY <1>7 DEF UserSendsRemoteAway
    <2> QED
        BY <2>1, EditedType, RemoteChangeType DEF Grows, Gone
<1>8. CASE UserCreatesLocal
    <2>1. PICK path \in DiskPath, entry \in {File(edits + 1), Folder} :
            LocalChange(With(path, entry), <<LocalEvent("Created", path)>>)
        BY <1>8 DEF UserCreatesLocal
    <2>2. path \in Path
        BY DiskPathType
    <2>3. entry \in Entry
        BY <2>1, EditBound DEF LocalChange, File, Folder, Entry, NoBytes
    <2>4. <<LocalEvent("Created", path)>> \in Seq(LocalEvents)
        BY <2>2, LocalEventType
    <2> QED
        BY <2>1, <2>2, <2>3, <2>4, WithType, LocalChangeType
<1>9. CASE UserWritesLocal
    <2>1. PICK path \in DOMAIN disk :
            LocalChange(With(path, File(edits + 1)), <<LocalEvent("Modified", path)>>)
        BY <1>9 DEF UserWritesLocal
    <2>2. path \in Path
        BY DEF TreeOK
    <2>3. File(edits + 1) \in Entry
        BY <2>1, EditBound DEF LocalChange, File, Entry
    <2>4. <<LocalEvent("Modified", path)>> \in Seq(LocalEvents)
        BY <2>2, LocalEventType
    <2> QED
        BY <2>1, <2>2, <2>3, <2>4, WithType, LocalChangeType
<1>10. CASE UserRenamesLocal
    <2>1. PICK from \in DOMAIN disk, to \in DiskPath :
            LocalChange(Renamed(from, to), RenameEvents(from, to))
        BY <1>10 DEF UserRenamesLocal
    <2>2. from \in Path /\ to \in Path
        BY DiskPathType DEF TreeOK
    <2> QED
        BY <2>1, <2>2, RenamedType, RenameEventsType, LocalChangeType
<1>11. CASE UserDeletesLocal
    <2>0. PICK path \in DOMAIN disk : \E order \in Removals(path) :
            LocalChange(Without(Under(path)), RemoveEvents(order))
        BY <1>11 DEF UserDeletesLocal
    <2>1. PICK order \in Removals(path) :
            LocalChange(Without(Under(path)), RemoveEvents(order))
        BY <2>0
    <2>2. RemoveEvents(order) \in Seq(LocalEvents)
        BY RemoveEventsType
    <2> QED
        BY <2>1, <2>2, WithoutType, LocalChangeType
<1> QED
    BY <1>1, <1>2, <1>3, <1>4, <1>5, <1>6, <1>7, <1>8, <1>9, <1>10, <1>11 DEF UserStep

-------------------------------------------------------------------------------
(* Prefixes. *)
LEMMA PrefixIs ==
    ASSUME NEW S, NEW s \in Seq(S), NEW t \in Seq(S)
    PROVE  IsPrefix(s, t) <=> Len(s) <= Len(t) /\ \A i \in 1..Len(s) : s[i] = t[i]
<1>1. Len(s) \in Nat /\ Len(t) \in Nat
    OBVIOUS
<1>2. SubSeq(s, 1, Len(s)) = s
    BY <1>1
<1>3. CASE Len(s) <= Len(t)
    <2>1. /\ Len(SubSeq(t, 1, Len(s))) = Len(s)
          /\ \A i \in 1..Len(s) : SubSeq(t, 1, Len(s))[i] = t[i]
          /\ SubSeq(t, 1, Len(s)) \in Seq(S)
        BY <1>1, <1>3
    <2>2. s = SubSeq(t, 1, Len(s)) <=> \A i \in 1..Len(s) : s[i] = t[i]
        BY <1>1, <2>1
    <2> QED
        BY <1>2, <1>3, <2>2 DEF IsPrefix
<1>4. CASE ~(Len(s) <= Len(t))
    BY <1>4 DEF IsPrefix
<1> QED
    BY <1>3, <1>4

LEMMA PrefixOrder ==
    ASSUME NEW s \in Path, NEW t \in Path, NEW u \in Path
    PROVE  /\ IsPrefix(s, s)
           /\ IsPrefix(s, t) /\ IsPrefix(t, u) => IsPrefix(s, u)
           /\ IsPrefix(s, u) /\ IsPrefix(t, u) => IsPrefix(s, t) \/ IsPrefix(t, s)
           /\ IsPrefix(s, t) => Len(s) <= Len(t) /\ (Len(s) = Len(t) => s = t)
<1>1. /\ s \in Seq(Names) /\ t \in Seq(Names) /\ u \in Seq(Names)
      /\ Len(s) \in Nat /\ Len(t) \in Nat /\ Len(u) \in Nat
    BY DEF Path
<1>2. IsPrefix(s, s)
    BY <1>1, PrefixIs
<1>3. ASSUME IsPrefix(s, t), IsPrefix(t, u)
      PROVE  IsPrefix(s, u)
    <2>1. /\ Len(s) <= Len(t) /\ \A i \in 1..Len(s) : s[i] = t[i]
          /\ Len(t) <= Len(u) /\ \A i \in 1..Len(t) : t[i] = u[i]
        BY <1>1, <1>3, PrefixIs
    <2>2. Len(s) <= Len(u) /\ \A i \in 1..Len(s) : s[i] = u[i]
        BY <1>1, <2>1
    <2> QED
        BY <1>1, <2>2, PrefixIs
<1>4. ASSUME IsPrefix(s, u), IsPrefix(t, u)
      PROVE  IsPrefix(s, t) \/ IsPrefix(t, s)
    <2>1. /\ \A i \in 1..Len(s) : s[i] = u[i]
          /\ \A i \in 1..Len(t) : t[i] = u[i]
        BY <1>1, <1>4, PrefixIs
    <2>2. CASE Len(s) <= Len(t)
        <3>1. \A i \in 1..Len(s) : s[i] = t[i]
            BY <1>1, <2>1, <2>2
        <3> QED
            BY <1>1, <2>2, <3>1, PrefixIs
    <2>3. CASE Len(t) <= Len(s)
        <3>1. \A i \in 1..Len(t) : t[i] = s[i]
            BY <1>1, <2>1, <2>3
        <3> QED
            BY <1>1, <2>3, <3>1, PrefixIs
    <2> QED
        BY <1>1, <2>2, <2>3
<1>5. ASSUME IsPrefix(s, t)
      PROVE  Len(s) <= Len(t) /\ (Len(s) = Len(t) => s = t)
    <2>1. Len(s) <= Len(t) /\ \A i \in 1..Len(s) : s[i] = t[i]
        BY <1>1, <1>5, PrefixIs
    <2> QED
        BY <1>1, <2>1
<1> QED
    BY <1>2, <1>3, <1>4, <1>5

(* What is above a path is above, or is, what leads to it. *)
LEMMA FrontPrefix ==
    ASSUME NEW path \in Path
    PROVE  /\ Len(path) # 1 => Front(path) \in Path /\ Len(Front(path)) = Len(path) - 1
                               /\ IsPrefix(Front(path), path)
           /\ \A s \in Path : IsPrefix(s, path) /\ s # path
                                => Len(path) # 1 /\ IsPrefix(s, Front(path))
<1>1. path \in Seq(Names) /\ Len(path) \in Nat \ {0} /\ Len(path) >= 1
    BY DEF Path
<1>2. ASSUME Len(path) # 1
      PROVE  /\ Front(path) \in Seq(Names) /\ Len(Front(path)) = Len(path) - 1
             /\ \A i \in 1..(Len(path) - 1) : Front(path)[i] = path[i]
    <2>1. PICK n \in Nat : n = Len(path) - 1
        BY <1>1
    <2>2. n <= Len(path) /\ \A i \in 1..n : path[i] \in Names
        BY <1>1, <2>1
    <2>3. /\ SubSeq(path, 1, n) \in Seq(Names) /\ Len(SubSeq(path, 1, n)) = n
          /\ \A i \in 1..n : SubSeq(path, 1, n)[i] = path[i]
        BY <1>1, <2>1, <2>2
    <2> QED
        BY <2>1, <2>3 DEF Front
<1>3. ASSUME Len(path) # 1
      PROVE  Front(path) \in Path /\ IsPrefix(Front(path), path)
    <2>1. Front(path) # <<>>
        BY <1>1, <1>2, <1>3
    <2>2. /\ Front(path) \in Seq(Names) /\ Len(Front(path)) <= Len(path)
          /\ \A i \in 1..Len(Front(path)) : Front(path)[i] = path[i]
        BY <1>1, <1>2, <1>3
    <2> QED
        BY <1>1, <2>1, <2>2, PrefixIs DEF Path
<1>4. ASSUME NEW s \in Path, IsPrefix(s, path), s # path
      PROVE  Len(path) # 1 /\ IsPrefix(s, Front(path))
    <2>1. s \in Seq(Names) /\ Len(s) \in Nat \ {0}
        BY DEF Path
    <2>2. Len(s) <= Len(path) /\ \A i \in 1..Len(s) : s[i] = path[i]
        BY <1>1, <1>4, <2>1, PrefixIs
    <2>3. Len(s) # Len(path)
        BY <1>1, <1>4, <2>1, <2>2
    <2>4. Len(path) # 1 /\ Len(s) <= Len(path) - 1
        BY <1>1, <2>1, <2>2, <2>3
    <2>5. \A i \in 1..Len(s) : s[i] = Front(path)[i]
        BY <1>1, <1>2, <2>1, <2>2, <2>4
    <2> QED
        BY <1>2, <2>1, <2>4, <2>5, PrefixIs
<1> QED
    BY <1>2, <1>3, <1>4

-------------------------------------------------------------------------------
(* Whatever is above an entry of the disk is a folder. *)
Rooted(tree) ==
    \A p \in DOMAIN tree : \A above \in Path :
        IsPrefix(above, p) /\ above # p => above \in DOMAIN tree /\ tree[above].type = "folder"

LEMMA RootedWith ==
    ASSUME TreeOK(disk), Rooted(disk), NEW path \in Path, ParentIsDir(path), ~IsDir(path),
           NEW entry
    PROVE  Rooted(With(path, entry))
<1> SUFFICES ASSUME NEW p \in DOMAIN disk \cup {path}, NEW above \in Path,
                    IsPrefix(above, p), above # p
             PROVE  above \in DOMAIN disk /\ disk[above].type = "folder" /\ above # path
    BY DEF Rooted, With
<1>1. CASE p \in DOMAIN disk
    BY <1>1 DEF Rooted, IsDir, Exists
<1>2. CASE p = path
    <2>1. Len(path) # 1 /\ IsPrefix(above, Front(path))
        BY <1>2, FrontPrefix
    <2>2. Front(path) \in DOMAIN disk /\ disk[Front(path)].type = "folder"
        BY <2>1 DEF ParentIsDir, IsDir, Exists
    <2> QED
        BY <1>2, <2>1, <2>2 DEF Rooted
<1> QED
    BY <1>1, <1>2

LEMMA RootedWithout ==
    ASSUME TreeOK(disk), Rooted(disk), NEW path \in Path
    PROVE  Rooted(Without(Under(path)))
<1> SUFFICES ASSUME NEW p \in DOMAIN disk, ~IsPrefix(path, p), NEW above \in Path,
                    IsPrefix(above, p), above # p
             PROVE  /\ above \in DOMAIN disk /\ disk[above].type = "folder"
                    /\ ~IsPrefix(path, above)
    BY DEF Rooted, Without, Under
<1> QED
    BY PrefixOrder DEF Rooted, TreeOK

LEMMA AncestorsAre ==
    ASSUME NEW path \in Path, NEW p
    PROVE  p \in Ancestors(path) <=> p \in Path /\ IsPrefix(p, path) /\ p # path
<1>1. path \in Seq(Names) /\ Len(path) \in Nat \ {0}
    BY DEF Path
<1>2. ASSUME NEW k \in 1..(Len(path) - 1), p = SubSeq(path, 1, k)
      PROVE  p \in Path /\ IsPrefix(p, path) /\ p # path
    <2>1. k \in Nat \ {0} /\ k < Len(path) /\ \A i \in 1..k : path[i] \in Names
        BY <1>1
    <2>2. p \in Seq(Names) /\ Len(p) = k /\ \A i \in 1..k : p[i] = path[i]
        BY <1>1, <1>2, <2>1
    <2>3. p # <<>> /\ p # path
        BY <2>1, <2>2
    <2> QED
        BY <1>1, <2>1, <2>2, <2>3, PrefixIs DEF Path
<1>3. ASSUME p \in Path, IsPrefix(p, path), p # path
      PROVE  \E k \in 1..(Len(path) - 1) : p = SubSeq(path, 1, k)
    <2>1. p \in Seq(Names) /\ Len(p) \in Nat \ {0}
        BY <1>3 DEF Path
    <2>2. Len(p) <= Len(path) /\ \A i \in 1..Len(p) : p[i] = path[i]
        BY <1>1, <1>3, <2>1, PrefixIs
    <2>3. Len(p) # Len(path)
        BY <1>1, <1>3, <2>1, <2>2
    <2>4. PICK k \in Nat : k = Len(p)
        BY <2>1
    <2>5. k \in 1..(Len(path) - 1) /\ \A i \in 1..k : path[i] \in Names
        BY <1>1, <2>1, <2>2, <2>3, <2>4
    <2>6. /\ SubSeq(path, 1, k) \in Seq(Names) /\ Len(SubSeq(path, 1, k)) = k
          /\ \A i \in 1..k : SubSeq(path, 1, k)[i] = path[i]
        BY <1>1, <2>5
    <2>7. p = SubSeq(path, 1, k)
        BY <2>1, <2>2, <2>4, <2>6
    <2> QED
        BY <2>5, <2>7
<1> QED
    BY <1>2, <1>3 DEF Ancestors

(* A folder made with what it misses above it. *)
LEMMA RootedFolders ==
    ASSUME TreeOK(disk), Rooted(disk), NEW path \in Path,
           Exists(path) \/ \A p \in Ancestors(path) : ~IsFile(p),
           NEW missing, missing = {p \in Ancestors(path) \cup {path} : ~Exists(p)}
    PROVE  Rooted([p \in DOMAIN disk \cup missing |-> IF p \in missing THEN Folder ELSE disk[p]])
<1> SUFFICES ASSUME NEW p \in DOMAIN disk \cup missing, NEW above \in Path,
                    IsPrefix(above, p), above # p
             PROVE  /\ above \in DOMAIN disk \cup missing
                    /\ above \notin missing => disk[above].type = "folder"
    BY DEF Rooted, Folder
<1>1. CASE p \in DOMAIN disk
    BY <1>1 DEF Rooted, Exists
<1>2. CASE p \in missing
    <2>1. p \in Path /\ IsPrefix(p, path)
        BY <1>2, AncestorsAre, PrefixOrder
    <2>2. IsPrefix(above, path) /\ above # path
        BY <2>1, PrefixOrder
    <2>3. above \in Ancestors(path)
        BY <2>2, AncestorsAre
    <2>4. ~Exists(path)
        BY <1>2, <2>1, AncestorsAre DEF Rooted, Exists
    <2>5. ~IsFile(above)
        BY <2>3, <2>4
    <2>6. Exists(above) => disk[above].type = "folder"
        BY <2>5 DEF IsFile, Exists, TreeOK, Entry
    <2> QED
        BY <2>3, <2>6 DEF Exists
<1> QED
    BY <1>1, <1>2

-------------------------------------------------------------------------------
(* A rename. *)
LEMMA MovedIs ==
    ASSUME NEW from \in Path, NEW to \in Path, NEW p \in Path, IsPrefix(from, p)
    PROVE  /\ Moved(from, to, p) \in Path
           /\ Len(Moved(from, to, p)) = Len(to) + (Len(p) - Len(from))
           /\ \A i \in 1..Len(to) : Moved(from, to, p)[i] = to[i]
           /\ \A i \in 1..(Len(p) - Len(from)) :
                  Moved(from, to, p)[Len(to) + i] = p[Len(from) + i]
<1>1. /\ from \in Seq(Names) /\ to \in Seq(Names) /\ p \in Seq(Names)
      /\ Len(from) \in Nat \ {0} /\ Len(to) \in Nat \ {0} /\ Len(p) \in Nat
    BY DEF Path
<1>2. Len(from) <= Len(p)
    BY PrefixOrder
<1>3. PICK f \in Nat, t \in Nat, n \in Nat : f = Len(from) /\ t = Len(to) /\ n = Len(p) /\ f <= n
    BY <1>1, <1>2
<1> DEFINE w == SubSeq(p, f + 1, n)
<1>4. \A i \in (f + 1)..n : p[i] \in Names
    BY <1>1, <1>3
<1>5. /\ w \in Seq(Names) /\ Len(w) = n - f /\ \A i \in 1..(n - f) : w[i] = p[f + i]
    <2>1. /\ w \in Seq(Names) /\ Len(w) = IF f + 1 <= n THEN n - (f + 1) + 1 ELSE 0
          /\ \A i \in 1..(n - (f + 1) + 1) : w[i] = p[(f + 1) + i - 1]
        BY <1>3, <1>4, SubSeqProperties
    <2>2. (IF f + 1 <= n THEN n - (f + 1) + 1 ELSE 0) = n - f /\ n - (f + 1) + 1 = n - f
        BY <1>3
    <2>3. \A i \in 1..(n - f) : (f + 1) + i - 1 = f + i
        BY <1>3
    <2> HIDE DEF w
    <2> QED
        BY <2>1, <2>2, <2>3
<1>6. Moved(from, to, p) = to \o w
    BY <1>3 DEF Moved
<1> HIDE DEF w
<1>7. /\ Len(to \o w) = t + (n - f) /\ \A i \in 1..t : (to \o w)[i] = to[i]
      /\ \A i \in 1..(n - f) : (to \o w)[t + i] = w[i]
    <2>1. \A i \in 1..(n - f) : t + i > t /\ t + i - t = i /\ t + i \in 1..(t + (n - f))
        BY <1>3
    <2>2. PICK d \in Nat : d = n - f
        BY <1>3
    <2>3. Len(w) = d /\ Len(to) = t
        BY <1>3, <1>5, <2>2
    <2>4. /\ Len(to \o w) = t + d /\ \A i \in 1..t : (to \o w)[i] = to[i]
          /\ \A i \in 1..d : (to \o w)[t + i] = w[i]
        <3>1. /\ Len(to \o w) = Len(to) + Len(w)
              /\ \A i \in 1..(Len(to) + Len(w)) :
                    (to \o w)[i] = IF i <= Len(to) THEN to[i] ELSE w[i - Len(to)]
            BY <1>1, <1>5, ConcatProperties
        <3>2. /\ \A i \in 1..t : i \in 1..(t + d) /\ i <= t
              /\ \A i \in 1..d : t + i \in 1..(t + d) /\ ~(t + i <= t) /\ (t + i) - t = i
            OBVIOUS
        <3> QED
            BY <2>3, <3>1, <3>2
    <2> QED
        BY <2>2, <2>4
<1>8. Moved(from, to, p) \in Path
    BY MovedType
<1> QED
    BY <1>3, <1>5, <1>6, <1>7, <1>8

LEMMA MovedInjective ==
    ASSUME NEW from \in Path, NEW to \in Path, NEW p \in Path, NEW q \in Path,
           IsPrefix(from, p), IsPrefix(from, q), Moved(from, to, p) = Moved(from, to, q)
    PROVE  p = q
<1>1. /\ from \in Seq(Names) /\ p \in Seq(Names) /\ q \in Seq(Names)
      /\ Len(from) \in Nat /\ Len(to) \in Nat /\ Len(p) \in Nat /\ Len(q) \in Nat
    BY DEF Path
<1>2. PICK f \in Nat, t \in Nat, m \in Nat, n \in Nat :
            f = Len(from) /\ t = Len(to) /\ m = Len(p) /\ n = Len(q)
    BY <1>1
<1>3. t + (m - f) = t + (n - f)
    <2>1. Len(Moved(from, to, p)) = Len(to) + (Len(p) - Len(from))
        BY MovedIs
    <2>2. Len(Moved(from, to, q)) = Len(to) + (Len(q) - Len(from))
        BY MovedIs
    <2> QED
        BY <1>2, <2>1, <2>2
<1>4. m = n
    BY <1>2, <1>3
<1>5. \A i \in 1..f : p[i] = q[i]
    <2>1. \A i \in 1..Len(from) : from[i] = p[i]
        BY <1>1, PrefixIs
    <2>2. \A i \in 1..Len(from) : from[i] = q[i]
        BY <1>1, PrefixIs
    <2> QED
        BY <1>2, <2>1, <2>2
<1>6. \A i \in 1..(n - f) : p[f + i] = q[f + i]
    <2>1. \A i \in 1..(Len(p) - Len(from)) : Moved(from, to, p)[Len(to) + i] = p[Len(from) + i]
        BY MovedIs
    <2>2. \A i \in 1..(Len(q) - Len(from)) : Moved(from, to, q)[Len(to) + i] = q[Len(from) + i]
        BY MovedIs
    <2> QED
        BY <1>2, <1>4, <2>1, <2>2
<1>7. ASSUME NEW i \in 1..n
      PROVE  p[i] = q[i]
    <2>1. CASE i \in 1..f
        BY <1>5, <2>1
    <2>2. CASE i \notin 1..f
        <3>1. i - f \in 1..(n - f) /\ f + (i - f) = i
            BY <2>2
        <3> QED
            BY <1>6, <3>1
    <2> QED
        BY <2>1, <2>2
<1> QED
    <2>1. Len(p) = n /\ Len(q) = n
        BY <1>2, <1>4
    <2> QED
        BY <1>1, <1>7, <2>1

(* What is above a moved entry is above its new place, or moved with it. *)
LEMMA AboveMoved ==
    ASSUME NEW from \in Path, NEW to \in Path, NEW p \in Path, IsPrefix(from, p),
           NEW above \in Path, IsPrefix(above, Moved(from, to, p)), above # Moved(from, to, p)
    PROVE  \/ IsPrefix(above, to) /\ above # to
           \/ \E q \in Path : /\ IsPrefix(from, q) /\ IsPrefix(q, p) /\ q # p
                             /\ above = Moved(from, to, q)
<1> DEFINE new == Moved(from, to, p)
<1>1. /\ from \in Seq(Names) /\ p \in Seq(Names) /\ to \in Seq(Names) /\ above \in Seq(Names)
      /\ Len(from) \in Nat /\ Len(to) \in Nat /\ Len(p) \in Nat /\ Len(above) \in Nat
      /\ Len(from) >= 1
    BY DEF Path
<1>2. PICK f \in Nat, t \in Nat, m \in Nat, a \in Nat :
            f = Len(from) /\ t = Len(to) /\ m = Len(p) /\ a = Len(above) /\ f >= 1
    BY <1>1
<1>3. /\ new \in Path /\ Len(new) = t + (m - f)
      /\ \A i \in 1..t : new[i] = to[i]
      /\ \A i \in 1..(m - f) : new[t + i] = p[f + i]
    <2>1. /\ new \in Path /\ Len(new) = Len(to) + (Len(p) - Len(from))
          /\ \A i \in 1..Len(to) : new[i] = to[i]
          /\ \A i \in 1..(Len(p) - Len(from)) : new[Len(to) + i] = p[Len(from) + i]
        BY MovedIs
    <2> HIDE DEF new
    <2> QED
        BY <1>2, <2>1
<1>4. f <= m /\ \A i \in 1..f : from[i] = p[i]
    BY <1>1, <1>2, PrefixIs
<1> HIDE DEF new
<1>5. a <= t + (m - f) /\ \A i \in 1..a : above[i] = new[i]
    <2>1. new \in Seq(Names)
        BY <1>3 DEF Path
    <2> QED
        BY <1>1, <1>2, <1>3, <2>1, PrefixIs DEF new
<1>6. a # t + (m - f)
    <2>1. IsPrefix(above, new) /\ above # new
        BY DEF new
    <2> QED
        BY <1>2, <1>3, <2>1, PrefixOrder
<1>7. CASE a < t
    <2>1. \A i \in 1..a : above[i] = to[i]
        BY <1>3, <1>5, <1>7
    <2> QED
        BY <1>1, <1>2, <1>7, <2>1, PrefixIs
<1>8. CASE ~(a < t)
    <2> DEFINE k == f + (a - t)
               q == SubSeq(p, 1, k)
    <2>1. k \in Nat /\ f <= k /\ k < m /\ k >= 1
        BY <1>2, <1>4, <1>5, <1>6, <1>8
    <2> HIDE DEF k
    <2>2. \A i \in 1..k : p[i] \in Names
        BY <1>1, <1>2, <2>1
    <2>3. q \in Seq(Names) /\ Len(q) = k /\ \A i \in 1..k : q[i] = p[i]
        BY <1>1, <1>2, <2>1, <2>2
    <2> HIDE DEF q
    <2>4. q \in Path /\ q # p
        <3>1. q # <<>>
            BY <2>1, <2>3
        <3> QED
            BY <1>2, <2>1, <2>3, <3>1 DEF Path
    <2>5. IsPrefix(q, p)
        BY <1>1, <1>2, <2>1, <2>3, PrefixIs
    <2>6. IsPrefix(from, q)
        <3>1. \A i \in 1..f : from[i] = q[i]
            BY <1>4, <2>1, <2>3
        <3> QED
            BY <1>1, <1>2, <2>1, <2>3, <3>1, PrefixIs
    <2>7. /\ Moved(from, to, q) \in Path /\ Len(Moved(from, to, q)) = t + (k - f)
          /\ \A i \in 1..t : Moved(from, to, q)[i] = to[i]
          /\ \A i \in 1..(k - f) : Moved(from, to, q)[t + i] = q[f + i]
        <3>1. /\ Moved(from, to, q) \in Path
              /\ Len(Moved(from, to, q)) = Len(to) + (Len(q) - Len(from))
              /\ \A i \in 1..Len(to) : Moved(from, to, q)[i] = to[i]
              /\ \A i \in 1..(Len(q) - Len(from)) :
                    Moved(from, to, q)[Len(to) + i] = q[Len(from) + i]
            BY <2>4, <2>6, MovedIs
        <3> QED
            BY <1>2, <2>3, <3>1
    <2>8. t + (k - f) = a
        BY <1>2, <1>8 DEF k
    <2>9. ASSUME NEW i \in 1..a
          PROVE  above[i] = Moved(from, to, q)[i]
        <3>1. CASE i \in 1..t
            BY <1>3, <1>5, <2>7, <3>1
        <3>2. CASE i \notin 1..t
            <4>1. PICK j \in Nat : j = i - t
                BY <3>2
            <4>2. j \in 1..(k - f) /\ j \in 1..(m - f) /\ i = t + j /\ f + j \in 1..k
                BY <2>1, <2>8, <3>2, <4>1
            <4>3. above[i] = p[f + j]
                BY <1>3, <1>5, <4>2
            <4>4. Moved(from, to, q)[i] = p[f + j]
                BY <2>3, <2>7, <4>2
            <4> QED
                BY <4>3, <4>4
        <3> QED
            BY <3>1, <3>2
    <2>10. above = Moved(from, to, q)
        <3>1. Moved(from, to, q) \in Seq(Names)
            BY <2>7 DEF Path
        <3> QED
            BY <1>1, <1>2, <2>7, <2>8, <2>9, <3>1
    <2> QED
        BY <2>4, <2>5, <2>6, <2>10
<1> QED
    BY <1>7, <1>8

(* Nothing is below a file. *)
LEMMA UnderFile ==
    ASSUME TreeOK(disk), Rooted(disk), NEW from \in DOMAIN disk, ~IsDir(from), NEW p \in Under(from)
    PROVE  p = from
BY DEF Rooted, TreeOK, IsDir, Exists, Under

LEMMA RootedRenamed ==
    ASSUME TreeOK(disk), Rooted(disk), NEW from \in Path, NEW to \in Path, CanRename(from, to)
    PROVE  Rooted(Renamed(from, to))
<1> DEFINE kept  == DOMAIN disk \ (Under(from) \cup {to})
           moved == {Moved(from, to, p) : p \in Under(from)}
<1>1. /\ DOMAIN disk \subseteq Path /\ from \in DOMAIN disk /\ from # to /\ ParentIsDir(to)
      /\ IsDir(from) => ~IsPrefix(from, to) /\ (to \in DOMAIN disk => IsDir(to))
      /\ ~IsDir(from) => ~IsDir(to)
      /\ \A p \in DOMAIN disk : IsDir(to) /\ IsPrefix(to, p) => p = to
    BY DEF TreeOK, CanRename, IsDir, Exists, Under
<1>2. \A p \in Under(from) : p \in Path /\ p \in DOMAIN disk /\ IsPrefix(from, p)
    BY <1>1 DEF Under
<1>3. ASSUME NEW above \in Path, above \in DOMAIN disk, disk[above].type = "folder",
             ~IsPrefix(from, above)
      PROVE  above \in kept \cup {to}
    BY <1>1, <1>3 DEF Under, IsDir, Exists
<1>4. ASSUME NEW p \in kept, NEW above \in Path, IsPrefix(above, p), above # p
      PROVE  above \in kept /\ disk[above].type = "folder"
    <2>1. p \in DOMAIN disk /\ p \in Path /\ ~IsPrefix(from, p)
        BY <1>1 DEF Under
    <2>2. above \in DOMAIN disk /\ disk[above].type = "folder" /\ ~IsPrefix(from, above)
        BY <1>4, <2>1, PrefixOrder DEF Rooted
    <2>3. above # to
        BY <1>1, <1>4, <2>1, <2>2 DEF IsDir, Exists
    <2> QED
        BY <1>3, <2>2, <2>3
<1>5. ASSUME NEW p \in Under(from), NEW above \in Path,
             IsPrefix(above, Moved(from, to, p)), above # Moved(from, to, p)
      PROVE  \/ above \in kept /\ disk[above].type = "folder"
             \/ /\ above \in moved /\ above \notin kept
                /\ \A q \in Under(from) : Moved(from, to, q) = above => disk[q].type = "folder"
    <2>1. p \in Path /\ IsPrefix(from, p)
        BY <1>2
    <2>2. CASE IsPrefix(above, to) /\ above # to
        <3>1. Len(to) # 1 /\ IsPrefix(above, Front(to)) /\ Front(to) \in Path
            BY <2>2, FrontPrefix
        <3>2. Front(to) \in DOMAIN disk /\ disk[Front(to)].type = "folder"
            BY <1>1, <3>1 DEF ParentIsDir, IsDir, Exists
        <3>3. above \in DOMAIN disk /\ disk[above].type = "folder"
            BY <3>1, <3>2 DEF Rooted
        <3>4. ~IsPrefix(from, above)
            <4>1. CASE IsDir(from)
                BY <1>1, <2>2, <4>1, PrefixOrder
            <4>2. CASE ~IsDir(from)
                <5>1. IsPrefix(from, above) => above = from
                    BY <1>1, <3>3, <4>2, UnderFile DEF Under
                <5> QED
                    BY <3>3, <4>2, <5>1 DEF IsDir, Exists
            <4> QED
                BY <4>1, <4>2
        <3> QED
            BY <1>3, <2>2, <3>3, <3>4
    <2>3. ASSUME NEW q \in Path, IsPrefix(from, q), IsPrefix(q, p), q # p,
                 above = Moved(from, to, q)
          PROVE  /\ above \in moved /\ above \notin kept
                 /\ \A r \in Under(from) : Moved(from, to, r) = above => disk[r].type = "folder"
        <3>1. q \in DOMAIN disk /\ disk[q].type = "folder"
            BY <1>2, <2>3 DEF Rooted
        <3>2. q \in Under(from) /\ above \in moved
            BY <2>3, <3>1 DEF Under
        <3>3. ASSUME NEW r \in Under(from), Moved(from, to, r) = above
              PROVE  r = q
            BY <1>2, <2>3, <3>3, MovedInjective
        <3>4. IsDir(from)
            <4>1. ~IsDir(from) => q = from /\ p = from
                BY <1>1, <3>2, UnderFile
            <4> QED
                BY <2>3, <4>1
        <3>5. above \notin kept
            <4>1. IsPrefix(to, above)
                <5>1. /\ above \in Path /\ Len(above) = Len(to) + (Len(q) - Len(from))
                      /\ \A i \in 1..Len(to) : above[i] = to[i]
                    <6>1. q \in Path /\ IsPrefix(from, q)
                        BY <2>3
                    <6>2. /\ Moved(from, to, q) \in Path
                          /\ Len(Moved(from, to, q)) = Len(to) + (Len(q) - Len(from))
                          /\ \A i \in 1..Len(to) : Moved(from, to, q)[i] = to[i]
                        BY <6>1, MovedIs
                    <6> QED
                        BY <2>3, <6>2
                <5>2. Len(from) <= Len(q) /\ Len(to) \in Nat /\ Len(q) \in Nat /\ Len(from) \in Nat
                    BY <2>3, PrefixOrder, PathLast
                <5>3. Len(to) <= Len(above)
                    BY <5>1, <5>2
                <5> QED
                    BY <5>1, <5>3, PrefixIs DEF Path
            <4>2. above \in DOMAIN disk /\ above # to => to \in DOMAIN disk
                BY <4>1 DEF Rooted
            <4> QED
                BY <1>1, <3>4, <4>1, <4>2
        <3> QED
            BY <3>1, <3>2, <3>3, <3>5
    <2>4. CASE \E q \in Path : /\ IsPrefix(from, q) /\ IsPrefix(q, p) /\ q # p
                              /\ above = Moved(from, to, q)
        BY <2>3, <2>4
    <2>5. \/ IsPrefix(above, to) /\ above # to
          \/ \E q \in Path : /\ IsPrefix(from, q) /\ IsPrefix(q, p) /\ q # p
                            /\ above = Moved(from, to, q)
        BY <1>5, <2>1, AboveMoved
    <2> QED
        BY <2>2, <2>4, <2>5
<1>6. DOMAIN Renamed(from, to) = kept \cup moved
    BY DEF Renamed
<1>7. \A p \in kept : Renamed(from, to)[p] = disk[p]
    BY DEF Renamed
<1>8. ASSUME NEW p \in moved, p \notin kept
      PROVE  \E q \in Under(from) : Moved(from, to, q) = p /\ Renamed(from, to)[p] = disk[q]
    <2>1. \E q \in Under(from) : Moved(from, to, q) = p
        OBVIOUS
    <2>2. Renamed(from, to)[p] = disk[CHOOSE q \in Under(from) : Moved(from, to, q) = p]
        BY <1>8 DEF Renamed
    <2> QED
        BY <2>1, <2>2
<1> SUFFICES ASSUME NEW p \in kept \cup moved, NEW above \in Path,
                    IsPrefix(above, p), above # p
             PROVE  /\ above \in kept \cup moved
                    /\ Renamed(from, to)[above].type = "folder"
    BY <1>6 DEF Rooted
<1> HIDE DEF kept
<1>9. CASE p \in kept
    BY <1>4, <1>7, <1>9
<1>10. CASE p \in moved
    <2>1. PICK q \in Under(from) : p = Moved(from, to, q)
        BY <1>10
    <2> HIDE DEF moved
    <2>2. CASE above \in kept /\ disk[above].type = "folder"
        BY <1>7, <2>2
    <2>3. CASE /\ above \in moved /\ above \notin kept
               /\ \A r \in Under(from) : Moved(from, to, r) = above => disk[r].type = "folder"
        BY <1>8, <2>3
    <2> QED
        BY <1>5, <2>1, <2>2, <2>3
<1> QED
    BY <1>9, <1>10

-------------------------------------------------------------------------------
(* What leads to a content is one sequence of rows, read from the end.     *)
LEMMA PartsUnique ==
    ASSUME NEW T, Root \notin DOMAIN T, NEW id,
           NEW q \in Seq(DOMAIN T), NEW r \in Seq(DOMAIN T),
           Len(q) \in Nat \ {0}, Len(r) \in Nat \ {0}, IsParts(T, q, id), IsParts(T, r, id)
    PROVE  q = r
<1>1. PICK m \in Nat \ {0}, n \in Nat \ {0} : m = Len(q) /\ n = Len(r)
    OBVIOUS
<1>2. /\ q[m] = id /\ r[n] = id /\ T[q[1]].parent = Root /\ T[r[1]].parent = Root
      /\ \A k \in 2..m : T[q[k]].parent = q[k - 1]
      /\ \A k \in 2..n : T[r[k]].parent = r[k - 1]
      /\ \A k \in 1..m : q[k] \in DOMAIN T
      /\ \A k \in 1..n : r[k] \in DOMAIN T
    BY <1>1 DEF IsParts, Last
<1> DEFINE S == {k \in Nat : k < m /\ k < n => q[m - k] = r[n - k]}
<1>3. 0 \in S
    BY <1>2
<1>4. ASSUME NEW k \in Nat, k \in S
      PROVE  k + 1 \in S
    <2> SUFFICES ASSUME k + 1 < m, k + 1 < n
                 PROVE  q[m - (k + 1)] = r[n - (k + 1)]
        OBVIOUS
    <2>1. /\ k < m /\ k < n /\ m - k \in 2..m /\ n - k \in 2..n
          /\ (m - k) - 1 = m - (k + 1) /\ (n - k) - 1 = n - (k + 1)
        OBVIOUS
    <2>2. q[m - k] = r[n - k]
        BY <1>4, <2>1
    <2>3. T[q[m - k]].parent = q[m - (k + 1)] /\ T[r[n - k]].parent = r[n - (k + 1)]
        BY <1>2, <2>1
    <2> QED
        BY <2>2, <2>3
<1>5. Nat \subseteq S
    <2> HIDE DEF S
    <2> QED
        BY <1>3, <1>4, ByInduction
<1>6. \A k \in Nat : k < m /\ k < n => q[m - k] = r[n - k]
    BY <1>5
<1> HIDE DEF S
<1>7. ~(m < n)
    <2> SUFFICES ASSUME m < n
                 PROVE  FALSE
        OBVIOUS
    <2>1. m - 1 \in Nat /\ m - 1 < m /\ m - 1 < n /\ m - (m - 1) = 1 /\ n - (m - 1) \in 2..n
          /\ (n - (m - 1)) - 1 \in 1..n
        OBVIOUS
    <2>2. q[1] = r[n - (m - 1)]
        BY <1>6, <2>1
    <2> QED
        BY <1>2, <2>1, <2>2
<1>8. ~(n < m)
    <2> SUFFICES ASSUME n < m
                 PROVE  FALSE
        OBVIOUS
    <2>1. n - 1 \in Nat /\ n - 1 < m /\ n - 1 < n /\ n - (n - 1) = 1 /\ m - (n - 1) \in 2..m
          /\ (m - (n - 1)) - 1 \in 1..m
        OBVIOUS
    <2>2. r[1] = q[m - (n - 1)]
        BY <1>6, <2>1
    <2> QED
        BY <1>2, <2>1, <2>2
<1>9. m = n
    BY <1>7, <1>8
<1>10. ASSUME NEW k \in 1..m
       PROVE  q[k] = r[k]
    <2>1. m - k \in Nat /\ m - k < m /\ m - (m - k) = k
        OBVIOUS
    <2> QED
        BY <1>6, <1>9, <2>1
<1>11. Len(q) = Len(r) /\ \A k \in 1..Len(q) : q[k] = r[k]
    BY <1>1, <1>9, <1>10
<1> QED
    BY <1>11, SeqEqual

(* A content on the way to another one has a path above its path.          *)
LEMMA AboveInTable ==
    ASSUME NEW T, IsTable(T), NEW id, HasPath(T, id), NEW other, HasPath(T, other),
           NEW parts, parts = (CHOOSE some \in Parts(T, other) : TRUE),
           NEW j \in 1..Len(parts), parts[j] = id
    PROVE  IsPrefix(PathOf(T, id), PathOf(T, other))
<1> DEFINE own == CHOOSE own \in Parts(T, id) : TRUE
           up  == SubSeq(parts, 1, j)
<1>1. Root \notin DOMAIN T
    BY RootAssumption DEF IsTable
<1>2. own \in Parts(T, id) /\ parts \in Parts(T, other)
    BY DEF HasPath
<1>3. PathOf(T, id) = [k \in 1..Len(own) |-> FileName(T, own[k])]
    BY DEF PathOf
<1>4. PathOf(T, other) = [k \in 1..Len(parts) |-> FileName(T, parts[k])]
    BY DEF PathOf
<1> HIDE DEF own
<1>5. /\ own \in Seq(DOMAIN T) /\ Len(own) \in Nat \ {0} /\ IsParts(T, own, id)
      /\ parts \in Seq(DOMAIN T) /\ Len(parts) \in Nat \ {0} /\ IsParts(T, parts, other)
    BY <1>2, PartsShape DEF Parts
<1>6. PICK n \in Nat \ {0} : n = Len(parts)
    BY <1>5
<1>0. j \in 1..n /\ j \in Nat \ {0}
    BY <1>6
<1>7. \A k \in 1..j : parts[k] \in DOMAIN T
    BY <1>5, <1>6, <1>0
<1>8. up \in Seq(DOMAIN T) /\ Len(up) = j /\ \A k \in 1..j : up[k] = parts[k]
    BY <1>5, <1>6, <1>0, <1>7
<1> HIDE DEF up
<1>9. IsParts(T, up, id)
    <2>1. T[parts[1]].parent = Root /\ \A k \in 2..n : T[parts[k]].parent = parts[k - 1]
        BY <1>5, <1>6, <1>0 DEF IsParts
    <2>2. up[j] = id /\ up[1] = parts[1]
        BY <1>6, <1>0, <1>8
    <2>3. ASSUME NEW k \in 2..j
          PROVE  T[up[k]].parent = up[k - 1]
        <3>1. k \in 1..j /\ k - 1 \in 1..j /\ k \in 2..n
            BY <1>6, <1>0
        <3> QED
            BY <1>8, <2>1, <3>1
    <2> QED
        BY <1>8, <2>1, <2>2, <2>3 DEF IsParts, Last
<1>10. own = up
    BY <1>1, <1>5, <1>6, <1>0, <1>8, <1>9, PartsUnique
<1>11. /\ PathOf(T, id) \in Seq(Names) /\ PathOf(T, other) \in Seq(Names)
    BY PathOfType DEF Path
<1>12. Len(PathOf(T, id)) = j /\ Len(PathOf(T, other)) = n
    BY <1>3, <1>4, <1>6, <1>0, <1>8, <1>10, <1>11
<1>13. ASSUME NEW k \in 1..j
       PROVE  PathOf(T, id)[k] = PathOf(T, other)[k]
    <2>1. k \in 1..n
        BY <1>6, <1>0
    <2>2. own[k] = parts[k] /\ Len(own) = j
        BY <1>8, <1>10
    <2> QED
        BY <1>3, <1>4, <1>6, <1>0, <2>1, <2>2
<1> QED
    BY <1>6, <1>0, <1>11, <1>12, <1>13, PrefixIs

(* The content is not on the way to this parent.                           *)
Apart(T, id, parent) ==
    \/ parent = Root
    \/ \E parts \in Parts(T, parent) : \A k \in 1..Len(parts) : parts[k] # id

LEMMA UpdatedAcyclic ==
    ASSUME NEW T, IsTable(T), Acyclic(T), NEW c, Apart(T, c.id, c.parent)
    PROVE  Acyclic(Updated(T, c))
<1> SUFFICES ASSUME NEW S \in SUBSET DOMAIN T, S # {},
                    \A id \in S : (IF id = c.id THEN c.parent ELSE T[id].parent) \in S
             PROVE  FALSE
    BY DEF Acyclic, Updated
<1>1. Root \notin S
    BY RootAssumption DEF IsTable
<1>2. c.id \in S
    BY DEF Acyclic
<1>3. c.parent \in S /\ c.parent # Root
    BY <1>1, <1>2
<1>4. PICK parts \in Parts(T, c.parent) : \A k \in 1..Len(parts) : parts[k] # c.id
    BY <1>3 DEF Apart
<1>5. /\ Len(parts) \in Nat \ {0} /\ T[parts[1]].parent = Root
      /\ \A k \in 2..Len(parts) : T[parts[k]].parent = parts[k - 1]
      /\ parts[Len(parts)] = c.parent
    BY PartsShape DEF Parts, IsParts, Last
<1>6. PICK n \in Nat \ {0} : n = Len(parts)
    BY <1>5
<1> DEFINE K == {k \in 1..n : parts[k] \in S}
<1>7. K \in SUBSET Nat /\ n \in K
    BY <1>3, <1>5, <1>6
<1>8. PICK k \in K : \A m \in K : k <= m
    BY <1>7, LeastNumber
<1>9. k \in 1..n /\ parts[k] \in S /\ T[parts[k]].parent \in S
    BY <1>4, <1>6
<1>10. k # 1
    BY <1>1, <1>5, <1>9
<1>11. k \in 2..n /\ k - 1 \in 1..n /\ ~(k <= k - 1)
    BY <1>9, <1>10
<1>12. parts[k - 1] \in S
    BY <1>5, <1>6, <1>9, <1>11
<1> QED
    BY <1>8, <1>11, <1>12

LEMMA AddedAcyclic ==
    ASSUME NEW T, IsTable(T), Acyclic(T), ParentsKnown(T), NEW c,
           c.id \in Ids \ DOMAIN T, c.parent \in DOMAIN T \cup {Root}
    PROVE  Acyclic(Added(T, c))
<1> SUFFICES ASSUME NEW S \in SUBSET (DOMAIN T \cup {c.id}), S # {},
                    \A id \in S : (IF id = c.id THEN c.parent ELSE T[id].parent) \in S
             PROVE  FALSE
    BY DEF Acyclic, Added
<1>1. c.parent # c.id
    BY RootAssumption
<1>2. S \ {c.id} \in SUBSET DOMAIN T /\ S \ {c.id} # {}
    BY <1>1
<1>3. ASSUME NEW id \in S \ {c.id}
      PROVE  T[id].parent \in S \ {c.id}
    BY RootAssumption DEF ParentsKnown
<1> QED
    BY <1>2, <1>3 DEF Acyclic

LEMMA ForgotAcyclic ==
    ASSUME NEW T, Acyclic(T), NEW id
    PROVE  Acyclic(ForgotWithChildren(T, id))
BY DEF Acyclic, ForgotWithChildren

(* A change that forgets, adds below what is known, or does not take a     *)
(* content below itself.                                                   *)
LEMMA ChangedAcyclic ==
    ASSUME NEW T, IsTable(T), Acyclic(T), ParentsKnown(T), NEW c \in Changes,
           Accepted(T, c),
           c.change = "Forgot" \/ c.parent \in DOMAIN T \cup {Root},
           c.change = "Update" => Apart(T, c.id, c.parent)
    PROVE  Acyclic(Changed(T, c))
<1>1. CASE c.change = "Forgot"
    BY <1>1, ForgotAcyclic DEF Changed
<1>2. CASE c.change = "Add"
    <2>1. c.id \in Ids \ DOMAIN T
        BY <1>2 DEF Accepted, AddAccepted, Changes, AddChanges, UpdateChanges
    <2> QED
        BY <1>2, <2>1, AddedAcyclic DEF Changed
<1>3. CASE c.change = "Update"
    BY <1>3, UpdatedAcyclic DEF Changed
<1> QED
    BY <1>1, <1>2, <1>3 DEF Changes, AddChanges, UpdateChanges

-------------------------------------------------------------------------------
(* The disk: nothing is ever below what is not a folder.                   *)
LEMMA RootedWritten ==
    ASSUME TreeOK(disk), Rooted(disk), NEW path \in Path, NEW entry,
           disk' = With(path, entry), ~IsDir(path), IsFile(path) \/ ParentIsDir(path)
    PROVE  Rooted(disk')
<1>1. IsFile(path) => ParentIsDir(path)
    <2> SUFFICES ASSUME IsFile(path), Len(path) # 1
                 PROVE  IsDir(Front(path))
        BY DEF ParentIsDir
    <2>1. Front(path) \in Path /\ IsPrefix(Front(path), path) /\ Len(Front(path)) = Len(path) - 1
        BY FrontPrefix
    <2>2. Front(path) # path
        BY <2>1, PathLast
    <2> QED
        BY <2>1, <2>2 DEF Rooted, IsFile, IsDir, Exists
<1> QED
    BY <1>1, RootedWith

LEMMA RootedUsers ==
    ASSUME TreeOK(disk), Rooted(disk), UserStep
    PROVE  Rooted(disk')
<1>1. CASE UserCreatesLocal
    <2>1. PICK path \in DiskPath, entry \in {File(edits + 1), Folder} :
            ~Exists(path) /\ ParentIsDir(path) /\ disk' = With(path, entry)
        BY <1>1 DEF UserCreatesLocal, LocalChange
    <2> QED
        BY <2>1, DiskPathType, RootedWritten DEF IsDir
<1>2. CASE UserWritesLocal
    <2>1. PICK path \in DOMAIN disk : IsFile(path) /\ disk' = With(path, File(edits + 1))
        BY <1>2 DEF UserWritesLocal, LocalChange
    <2>2. ~IsDir(path) /\ path \in Path
        BY <2>1 DEF IsFile, IsDir, TreeOK
    <2> QED
        BY <2>1, <2>2, RootedWritten
<1>3. CASE UserRenamesLocal
    <2>1. PICK from \in DOMAIN disk, to \in DiskPath :
            CanRename(from, to) /\ disk' = Renamed(from, to)
        BY <1>3 DEF UserRenamesLocal, LocalChange
    <2> QED
        BY <2>1, DiskPathType, RootedRenamed DEF TreeOK
<1>4. CASE UserDeletesLocal
    <2>1. PICK path \in DOMAIN disk : disk' = Without(Under(path))
        BY <1>4 DEF UserDeletesLocal, LocalChange
    <2> QED
        BY <2>1, RootedWithout DEF TreeOK
<1>5. ASSUME \/ UserCreatesRemote \/ UserFillsRemote \/ UserLabelsRemote \/ UserMovesRemote
             \/ UserTrashesRemote \/ UserRestoresRemote \/ UserSendsRemoteAway
      PROVE  UNCHANGED disk
    BY <1>5 DEF UserCreatesRemote, UserFillsRemote, UserLabelsRemote, UserMovesRemote,
                UserTrashesRemote, UserRestoresRemote, UserSendsRemoteAway, RemoteChange,
                DiskUnchanged
<1> QED
    BY <1>1, <1>2, <1>3, <1>4, <1>5 DEF UserStep

-------------------------------------------------------------------------------
(***************************************************************************)
(* The operator.                                                           *)
(***************************************************************************)
(* A modification whose revision the server has issued. *)
Issued(c, contents) ==
    c.change = "Forgot" \/ (c.id \in DOMAIN contents /\ c.rev <= contents[c.id].rev)

IssuedChanges(contents) == {c \in Changes : Issued(c, contents)}

ExecutorsOf(ids) ==
    [ex: {"AbsentFromDisk", "PresentOnDisk", "UpdatedOnDisk"}, id: ids]
        \cup [ex: {"AbsentFromRemote", "CreatedOnRemote", "ModifiedOnRemote"}, path: Path]
        \cup [ex: {"NamedOnRemote"}, path: Path, after: Path]

(* Nine fields, no more. *)
IsJob(j) ==
    j = [at |-> j.at, from |-> j.from, todo |-> j.todo, id |-> j.id, got |-> j.got,
         mods |-> j.mods, changes |-> j.changes, retry |-> j.retry, error |-> j.error]

JobIn(j, contents) ==
    /\ IsJob(j)
    /\ j.at \in Points /\ j.from \in {"none", "local", "remote"}
    /\ j.todo \in Seq(ExecutorsOf(DOMAIN contents)) /\ j.id \in Ids \cup {Root}
    /\ j.got \in Content \cup Nat \cup {Root}
    /\ j.mods \in Seq(IssuedChanges(contents))
    /\ j.changes \in Seq(IssuedChanges(contents))
    /\ j.retry \in 0..RETRY_COUNT_MAX

(* Only the last timeout ends the event. *)
JobOK == JobIn(job, remote) /\ (job.at # "failed" => job.retry < RETRY_COUNT_MAX)

(* The content read from the server, at a revision it still has or had. *)
Fetched(id) == id \in DOMAIN remote /\ job.got \in Content /\ job.got.rev <= remote[id].rev

HoldsDownload ==
    \A executor \in {"PresentOnDisk", "UpdatedOnDisk"},
       point \in {"write", "move", "fill", "stat"} :
        At(executor, point) => Fetched(Now.id) /\ HasRemotePath(job.got.parent)

HoldsUpload ==
    /\ \A executor \in {"CreatedOnRemote", "ModifiedOnRemote"},
          point \in {"fill", "compare", "get"} :
          At(executor, point) => job.id \in DOMAIN remote
    /\ \A executor \in {"CreatedOnRemote", "ModifiedOnRemote"} :
          At(executor, "stat") => Fetched(job.id)

HoldsName ==
    \A point \in {"move", "replace", "trash", "again", "stat"} :
        At("NamedOnRemote", point) =>
            job.id \in DOMAIN remote /\ job.got \in Nat /\ job.got <= remote[job.id].rev

HoldsTrash ==
    /\ At("AbsentFromRemote", "trash") => job.id \in DOMAIN remote
    /\ At("NamedOnRemote", "trash") => job.mods # <<>> /\ Head(job.mods).id \in DOMAIN remote

Holds == HoldsDownload /\ HoldsUpload /\ HoldsName /\ HoldsTrash

Inv ==
    /\ UsersOK
    /\ IsTable(table) /\ RevisionNotAhead
    /\ JobOK /\ Holds
    /\ missed \in BOOLEAN

-------------------------------------------------------------------------------
(* What the server adds never makes a modification or an executor wrong. *)
LEMMA JobsGrow ==
    ASSUME ContentsOK(remote), NEW contents, ContentsOK(contents), Grows(contents)
    PROVE  /\ IssuedChanges(remote) \subseteq IssuedChanges(contents)
           /\ ExecutorsOf(DOMAIN remote) \subseteq ExecutorsOf(DOMAIN contents)
           /\ \A j : JobIn(j, remote) => JobIn(j, contents)
<1>1. IssuedChanges(remote) \subseteq IssuedChanges(contents)
    <2>1. \A id \in DOMAIN remote : remote[id].rev \in Nat /\ contents[id].rev \in Nat
        BY DEF ContentsOK, Content, Grows
    <2>2. \A c \in Changes : c.change # "Forgot" => c.rev \in Nat
        BY DEF Changes, AddChanges, UpdateChanges
    <2> QED
        BY <2>1, <2>2 DEF IssuedChanges, Issued, Grows
<1>2. ExecutorsOf(DOMAIN remote) \subseteq ExecutorsOf(DOMAIN contents)
    BY DEF ExecutorsOf, Grows
<1>3. /\ Seq(IssuedChanges(remote)) \subseteq Seq(IssuedChanges(contents))
      /\ Seq(ExecutorsOf(DOMAIN remote)) \subseteq Seq(ExecutorsOf(DOMAIN contents))
    BY <1>1, <1>2, SeqMonotonic
<1>4. \A j : JobIn(j, remote) => JobIn(j, contents)
    BY <1>3 DEF JobIn
<1> QED
    BY <1>1, <1>2, <1>4

(* The effect of a step on everything but the job. *)
Keeps == UsersOK' /\ Grows(remote') /\ UNCHANGED <<table, missed>>

LEMMA KeepsTable ==
    ASSUME Inv, Keeps
    PROVE  IsTable(table') /\ RevisionNotAhead' /\ missed' \in BOOLEAN
<1>1. \A id \in DOMAIN remote : remote[id].rev \in Nat /\ remote'[id].rev \in Nat
    BY DEF Inv, Keeps, UsersOK, SidesOK, ContentsOK, Content, Grows
<1>2. \A id \in DOMAIN table : table[id].rev \in Nat
    BY DEF Inv, IsTable, Row
<1> QED
    BY <1>1, <1>2 DEF Inv, Keeps, RevisionNotAhead, Grows

LEMMA KeepsJobs ==
    ASSUME Inv, Keeps
    PROVE  /\ JobIn(job, remote')
           /\ IssuedChanges(remote) \subseteq IssuedChanges(remote')
BY JobsGrow DEF Inv, Keeps, UsersOK, SidesOK, JobOK

LEMMA FetchedGrows ==
    ASSUME Inv, Keeps, NEW id, Fetched(id)
    PROVE  /\ id \in DOMAIN remote' /\ job.got.rev <= remote'[id].rev
<1>1. remote[id].rev \in Nat /\ remote'[id].rev \in Nat /\ job.got.rev \in Nat
    BY DEF Inv, Keeps, UsersOK, SidesOK, ContentsOK, Content, Grows, Fetched
<1> QED
    BY <1>1 DEF Keeps, Grows, Fetched

(* An event that failed holds nothing. *)
LEMMA Failing ==
    ASSUME Inv, Keeps, NEW error, Fail(error)
    PROVE  Inv'
<1>1. job' = [job EXCEPT !.at = "failed", !.error = error] /\ JobIn(job, remote')
    BY KeepsJobs DEF Fail
<1>2. JobIn(job', remote') /\ job'.at = "failed"
    BY <1>1 DEF JobIn, IsJob, Points
<1>3. Holds'
    BY <1>2 DEF Holds, HoldsDownload, HoldsUpload, HoldsName, HoldsTrash, At
<1> QED
    BY <1>2, <1>3, KeepsTable DEF Inv, Keeps, JobOK

(* A timeout starts the executor again, or ends the event. *)
LEMMA TimingOut ==
    ASSUME Inv, Keeps, job.at # "failed", Timeout
    PROVE  Inv'
<1>1. JobIn(job, remote')
    BY KeepsJobs
<1>2. job.retry \in Nat /\ RetryCount \in Nat /\ RetryCount = job.retry + 1
      /\ RetryCount \in 0..RETRY_COUNT_MAX
    BY OperatorAssumption DEF Inv, JobOK, JobIn, RetryCount
<1>3. CASE Exhausted(RetryCount)
    <2>1. job' = [job EXCEPT !.at = "failed", !.error = "MaximumRetryCount",
                             !.retry = RetryCount]
        BY <1>3 DEF Timeout
    <2>2. job'.at = "failed" /\ job'.retry = RetryCount /\ IsJob(job')
          /\ job'.error = "MaximumRetryCount" /\ job'.from = job.from /\ job'.todo = job.todo
          /\ job'.id = job.id /\ job'.got = job.got /\ job'.mods = job.mods
          /\ job'.changes = job.changes
        BY <1>1, <2>1 DEF JobIn, IsJob
    <2>3. JobIn(job', remote')
        BY <1>1, <1>2, <2>2 DEF JobIn, Points
    <2>4. Holds'
        BY <2>2 DEF Holds, HoldsDownload, HoldsUpload, HoldsName, HoldsTrash, At
    <2> QED
        BY <2>2, <2>3, <2>4, KeepsTable DEF Inv, Keeps, JobOK
<1>4. CASE ~Exhausted(RetryCount)
    <2>1. job' = [job EXCEPT !.at = "start", !.retry = RetryCount, !.mods = <<>>,
                             !.got = Nothing, !.id = Root]
        BY <1>4 DEF Timeout
    <2>2. job'.at = "start" /\ job'.retry = RetryCount /\ IsJob(job')
          /\ job'.error = job.error /\ job'.from = job.from /\ job'.todo = job.todo
          /\ job'.id = Root /\ job'.got = Root /\ job'.mods = <<>>
          /\ job'.changes = job.changes
        BY <1>1, <2>1 DEF JobIn, IsJob, Nothing
    <2>3. JobIn(job', remote')
        BY <1>1, <1>2, <2>2 DEF JobIn, Points
    <2>4. job'.retry < RETRY_COUNT_MAX
        BY <1>2, <1>4, <2>2, OperatorAssumption DEF Exhausted
    <2>5. Holds'
        BY <2>2 DEF Holds, HoldsDownload, HoldsUpload, HoldsName, HoldsTrash, At
    <2> QED
        BY <2>2, <2>3, <2>4, <2>5, KeepsTable DEF Inv, Keeps, JobOK
<1> QED
    BY <1>3, <1>4

(* The executor in hand is finished. *)
LEMMA Finishing ==
    ASSUME Inv, Keeps, job.at # "failed", job.todo # <<>>,
           NEW done \in Seq(IssuedChanges(remote')), Done(done)
    PROVE  Inv'
<1>1. JobIn(job, remote')
    BY KeepsJobs
<1>2. /\ Tail(job.todo) \in Seq(ExecutorsOf(DOMAIN remote'))
      /\ job.changes \o done \in Seq(IssuedChanges(remote'))
    BY <1>1, HeadTailProperties, ConcatProperties DEF JobIn
<1>3. /\ job'.at \in {"start", "apply"} /\ job'.retry = job.retry /\ IsJob(job')
      /\ job'.error = job.error /\ job'.from = job.from /\ job'.todo = Tail(job.todo)
      /\ job'.id = Root /\ job'.got = Root /\ job'.mods = <<>>
      /\ job'.changes = job.changes \o done
    BY <1>1 DEF Done, JobIn, IsJob, Nothing
<1>4. JobIn(job', remote')
    BY <1>1, <1>2, <1>3 DEF JobIn, Points
<1>5. Holds'
    BY <1>3 DEF Holds, HoldsDownload, HoldsUpload, HoldsName, HoldsTrash, At
<1> QED
    BY <1>3, <1>4, <1>5, KeepsTable DEF Inv, Keeps, JobOK

(* The executor in hand reaches its next point. *)
LEMMA Reaching ==
    ASSUME Inv, Keeps, NEW executor, NEW from, At(executor, from), from # "failed",
           JobIn(job', remote'), job'.todo = job.todo, job'.retry = job.retry,
           /\ executor \in {"PresentOnDisk", "UpdatedOnDisk"}
           /\ job'.at \in {"write", "move", "fill", "stat"}
           => /\ Now.id \in DOMAIN remote' /\ job'.got \in Content
              /\ job'.got.rev <= remote'[Now.id].rev
              /\ HasRemotePath(job'.got.parent),
           /\ executor \in {"CreatedOnRemote", "ModifiedOnRemote"}
           /\ job'.at \in {"fill", "compare", "get"}
           => job'.id \in DOMAIN remote',
           executor \in {"CreatedOnRemote", "ModifiedOnRemote"} /\ job'.at = "stat"
           => /\ job'.id \in DOMAIN remote' /\ job'.got \in Content
              /\ job'.got.rev <= remote'[job'.id].rev,
           /\ executor = "NamedOnRemote"
           /\ job'.at \in {"move", "replace", "trash", "again", "stat"}
           => /\ job'.id \in DOMAIN remote' /\ job'.got \in Nat
              /\ job'.got <= remote'[job'.id].rev,
           executor = "AbsentFromRemote" /\ job'.at = "trash" => job'.id \in DOMAIN remote',
           executor = "NamedOnRemote" /\ job'.at = "trash"
           => job'.mods # <<>> /\ Head(job'.mods).id \in DOMAIN remote'
    PROVE  Inv'
<1>1. /\ Head(job'.todo).ex = executor /\ Now' = Now
      /\ \A other, point : At(other, point)' => other = executor /\ job'.at = point
    BY DEF At, Now
<1>2. HoldsDownload'
    BY <1>1 DEF HoldsDownload, Fetched, HasRemotePath, Keeps
<1>3. HoldsUpload'
    BY <1>1 DEF HoldsUpload, Fetched
<1>4. HoldsName' /\ HoldsTrash'
    BY <1>1 DEF HoldsName, HoldsTrash
<1>5. JobOK'
    BY DEF Inv, JobOK, At
<1> QED
    BY <1>2, <1>3, <1>4, <1>5, KeepsTable DEF Inv, Keeps, Holds

-------------------------------------------------------------------------------
(* Steps that leave both sides alone, change the disk, change the server.  *)
LEMMA KeepsWorld ==
    ASSUME Inv, UNCHANGED <<table, edits, missed>>, UNCHANGED <<remote, disk, tlm, notified>>
    PROVE  Keeps
<1>1. \A id \in DOMAIN remote : remote[id].rev \in Nat
    BY DEF Inv, UsersOK, SidesOK, ContentsOK, Content
<1>2. UsersOK'
    BY DEF Inv, UsersOK, SidesOK, ContentsOK, TreeOK, TlmOK, NotifiedOK
<1> QED
    BY <1>1, <1>2 DEF Keeps, Grows

LEMMA KeepsDisk ==
    ASSUME Inv, UNCHANGED <<table, edits, missed>>, UNCHANGED <<remote, tlm>>,
           TreeOK(disk'), NotifiedOK(notified')
    PROVE  Keeps
<1>1. \A id \in DOMAIN remote : remote[id].rev \in Nat
    BY DEF Inv, UsersOK, SidesOK, ContentsOK, Content
<1>2. UsersOK'
    BY DEF Inv, UsersOK, SidesOK, ContentsOK, TreeOK, TlmOK, NotifiedOK
<1> QED
    BY <1>1, <1>2 DEF Keeps, Grows

LEMMA KeepsRemote ==
    ASSUME Inv, UNCHANGED <<table, edits, missed>>, UNCHANGED <<disk, notified>>,
           NEW contents, ContentsOK(contents), Grows(contents), remote' = contents,
           NEW id \in DOMAIN contents, NEW kind \in {"Created", "Updated", "Deleted"},
           Tell(Own(<<RemoteEvent(kind, id)>>))
    PROVE  Keeps
<1>1. TlmOK(tlm', remote')
    BY Told DEF Inv, UsersOK, SidesOK, Tell
<1>2. UsersOK'
    BY <1>1 DEF Inv, UsersOK, SidesOK, ContentsOK, TreeOK, TlmOK, NotifiedOK
<1> QED
    BY <1>2 DEF Keeps

(* A leaf of an executor that leaves both sides alone. *)
LEMMA FailingAlone ==
    ASSUME Inv, NEW error, Fail(error),
           UNCHANGED <<table, edits, missed>>, UNCHANGED <<remote, disk, tlm, notified>>
    PROVE  Inv'
BY KeepsWorld, Failing

LEMMA TimingOutAlone ==
    ASSUME Inv, Timeout, job.at # "failed",
           UNCHANGED <<table, edits, missed>>, UNCHANGED <<remote, disk, tlm, notified>>
    PROVE  Inv'
BY KeepsWorld, TimingOut

(* The modification time is read and the executor is finished. *)
LEMMA Statting ==
    ASSUME Inv, job.at = "stat", job.todo # <<>>, NEW path, NEW done, Stat(path, done),
           Exists(path) => done \in Seq(IssuedChanges(remote))
    PROVE  Inv'
<1>1. Keeps /\ remote' = remote
    BY KeepsWorld DEF Stat, Sys, world
<1>2. CASE Exists(path)
    BY <1>1, <1>2, Finishing DEF Stat
<1>3. CASE ~Exists(path)
    BY <1>1, <1>3, Failing DEF Stat
<1> QED
    BY <1>2, <1>3

LEMMA StampType ==
    ASSUME Inv, NEW path, Exists(path)
    PROVE  Stamp(path) \in Nat
BY DEF Inv, UsersOK, SidesOK, TreeOK, Entry, Stamp, Exists

(* The place of a remote content on disk. *)
LEMMA RemotePathType ==
    ASSUME Inv, NEW content \in Content, HasRemotePath(content.parent)
    PROVE  RemotePath(content) \in Path
<1>1. content.name \in Names
    BY DEF Content
<1>2. CASE content.parent = Root
    <2>1. <<content.name>> \in Seq(Names) /\ <<content.name>> # <<>>
        BY <1>1
    <2> QED
        BY <1>2, <2>1 DEF RemotePath, Path
<1>3. CASE content.parent # Root
    BY <1>1, <1>3, PathOfType, PathLast, PathAppend DEF RemotePath, HasRemotePath, Inv
<1> QED
    BY <1>2, <1>3

-------------------------------------------------------------------------------
(* What the executor in hand works on. *)
LEMMA NowType ==
    ASSUME Inv, NEW executor, NEW point, At(executor, point)
    PROVE  /\ job.todo # <<>> /\ job.at = point
           /\ executor \in {"AbsentFromDisk", "PresentOnDisk", "UpdatedOnDisk"}
                => Now.id \in DOMAIN remote
           /\ executor \in {"AbsentFromRemote", "CreatedOnRemote", "ModifiedOnRemote",
                            "NamedOnRemote"} => Now.path \in Path
           /\ executor = "NamedOnRemote" => Now.after \in Path
<1>1. Now \in ExecutorsOf(DOMAIN remote) /\ Now.ex = executor
    BY HeadTailProperties DEF Inv, JobOK, JobIn, At, Now
<1> QED
    BY <1>1 DEF ExecutorsOf, At

LEMMA ForgotIssued ==
    ASSUME NEW id \in Ids, NEW contents
    PROVE  <<ForgotChange(id)>> \in Seq(IssuedChanges(contents))
<1>1. ForgotChange(id) \in IssuedChanges(contents)
    BY DEF ForgotChange, IssuedChanges, Issued, Changes
<1> QED
    BY <1>1

LEMMA AddIssued ==
    ASSUME NEW id \in Ids, NEW path \in Path, NEW rev \in Nat, NEW parent \in ParentIds,
           NEW stamp \in Nat, NEW contents,
           id \in DOMAIN contents, rev <= contents[id].rev
    PROVE  <<AddChange(id, path, rev, parent, stamp)>> \in Seq(IssuedChanges(contents))
<1>1. AddChange(id, path, rev, parent, stamp) \in IssuedChanges(contents)
    BY DEF AddChange, IssuedChanges, Issued, Changes, AddChanges
<1> QED
    BY <1>1

LEMMA UpdateIssued ==
    ASSUME NEW id \in Ids, NEW name \in Names, NEW rev \in Nat, NEW parent \in ParentIds,
           NEW stamp \in Nat, NEW contents,
           id \in DOMAIN contents, rev <= contents[id].rev
    PROVE  <<UpdateChange(id, name, rev, parent, stamp)>> \in Seq(IssuedChanges(contents))
<1>1. UpdateChange(id, name, rev, parent, stamp) \in IssuedChanges(contents)
    BY DEF UpdateChange, IssuedChanges, Issued, Changes, UpdateChanges
<1> QED
    BY <1>1

LEMMA FetchedType ==
    ASSUME Inv, NEW id, Fetched(id)
    PROVE  /\ id \in Ids /\ id \in DOMAIN remote
           /\ job.got.name \in Names /\ job.got.rev \in Nat /\ job.got.parent \in ParentIds
           /\ job.got.rev <= remote[id].rev
BY DEF Inv, UsersOK, SidesOK, ContentsOK, Fetched, Content, ParentIds

-------------------------------------------------------------------------------
(* AbsentFromDisk. *)
LEMMA AbsentFromDiskStep ==
    ASSUME Inv, AbsentFromDisk
    PROVE  Inv'
<1>1. /\ job.todo # <<>> /\ job.at = "start" /\ Now.id \in DOMAIN remote
      /\ UNCHANGED <<table, edits, missed>> /\ UNCHANGED <<remote, tlm>>
    BY NowType DEF AbsentFromDisk, Sys
<1>2. CASE ~HasPath(table, Now.id)
    BY <1>1, <1>2, FailingAlone DEF AbsentFromDisk
<1>3. CASE HasPath(table, Now.id)
    <2> DEFINE path == PathOf(table, Now.id)
               type == TypeAt(table[Now.id].path)
    <2> HIDE DEF path, type
    <2>1. Done(<<ForgotChange(Now.id)>>)
        BY <1>3 DEF AbsentFromDisk
    <2>2. IF RemovableAs(type, path)
          THEN /\ disk' = Without(Under(path))
               /\ \E order \in Removals(path) : Notify(Own(RemoveEvents(order)))
          ELSE UNCHANGED <<disk, notified>>
        BY <1>3 DEF AbsentFromDisk, path, type
    <2>3. TreeOK(disk) /\ NotifiedOK(notified)
        BY DEF Inv, UsersOK, SidesOK
    <2>4. TreeOK(disk') /\ NotifiedOK(notified')
        <3>1. CASE RemovableAs(type, path)
            <4>1. PICK order \in Removals(path) : Notify(Own(RemoveEvents(order)))
                BY <2>2, <3>1
            <4>2. RemoveEvents(order) \in Seq(LocalEvents)
                BY <2>3, RemoveEventsType
            <4> QED
                BY <2>2, <2>3, <3>1, <4>1, <4>2, WithoutType, Notified DEF Notify
        <3>2. CASE ~RemovableAs(type, path)
            BY <2>2, <2>3, <3>2 DEF NotifiedOK, TreeOK
        <3> QED
            BY <3>1, <3>2
    <2>5. Keeps /\ remote' = remote
        BY <1>1, <2>4, KeepsDisk
    <2>6. Now.id \in Ids
        BY <1>1 DEF Inv, UsersOK, SidesOK, ContentsOK
    <2> QED
        BY <1>1, <2>1, <2>5, <2>6, ForgotIssued, Finishing
<1> QED
    BY <1>2, <1>3

-------------------------------------------------------------------------------
(* PresentOnDisk and UpdatedOnDisk. *)
LEMMA FetchType ==
    ASSUME Inv, NEW id \in DOMAIN remote
    PROVE  remote[id] \in Content /\ remote[id].rev \in Nat /\ remote[id].rev <= remote[id].rev
BY DEF Inv, UsersOK, SidesOK, ContentsOK, Content

LEMMA FetchDownload ==
    ASSUME Inv, NEW executor \in {"PresentOnDisk", "UpdatedOnDisk"}, At(executor, "start"),
           NEW point \in {"write", "move"}, HasRemotePath(remote[Now.id].parent),
           job' = [job EXCEPT !.at = point, !.got = remote[Now.id]],
           UNCHANGED <<table, edits, missed>>, UNCHANGED <<remote, disk, tlm, notified>>
    PROVE  Inv'
<1>1. Keeps
    BY KeepsWorld
<1>2. Now.id \in DOMAIN remote
    BY NowType
<1>3. remote[Now.id] \in Content /\ remote[Now.id].rev <= remote[Now.id].rev
    BY <1>2, FetchType
<1>4. JobIn(job, remote')
    BY <1>1, KeepsJobs
<1>5. /\ job'.at = point /\ job'.got = remote[Now.id] /\ job'.todo = job.todo
      /\ job'.retry = job.retry /\ IsJob(job') /\ job'.from = job.from /\ job'.id = job.id
      /\ job'.mods = job.mods /\ job'.changes = job.changes
    BY <1>4 DEF JobIn, IsJob
<1>6. JobIn(job', remote')
    BY <1>3, <1>4, <1>5 DEF JobIn, Points
<1> QED
    BY <1>1, <1>2, <1>3, <1>5, <1>6, Reaching

LEMMA FetchCreatedStep ==
    ASSUME Inv, FetchCreated
    PROVE  Inv'
<1>1. /\ At("PresentOnDisk", "start")
      /\ UNCHANGED <<table, edits, missed>> /\ UNCHANGED <<remote, disk, tlm, notified>>
    BY DEF FetchCreated, Sys, world
<1>2. \/ /\ HasRemotePath(remote[Now.id].parent)
         /\ job' = [job EXCEPT !.at = "write", !.got = remote[Now.id]]
      \/ \E error : Fail(error)
    BY DEF FetchCreated, Fetch, Broken
<1> QED
    BY <1>1, <1>2, FetchDownload, FailingAlone

LEMMA FetchUpdatedStep ==
    ASSUME Inv, FetchUpdated
    PROVE  Inv'
<1>1. /\ At("UpdatedOnDisk", "start")
      /\ UNCHANGED <<table, edits, missed>> /\ UNCHANGED <<remote, disk, tlm, notified>>
    BY DEF FetchUpdated, Sys, world
<1>2. \/ /\ HasRemotePath(remote[Now.id].parent)
         /\ job' = [job EXCEPT !.at = "move", !.got = remote[Now.id]]
      \/ \E error : Fail(error)
    BY DEF FetchUpdated, Fetch, Broken
<1> QED
    BY <1>1, <1>2, FetchDownload, FailingAlone

(* From a point of the download to the next one. *)
LEMMA GoingOn ==
    ASSUME Inv, Keeps, remote' = remote,
           NEW executor \in {"PresentOnDisk", "UpdatedOnDisk"},
           NEW from \in {"write", "move", "fill"}, At(executor, from),
           NEW point \in {"fill", "stat"}, Goto(point)
    PROVE  Inv'
<1>1. JobIn(job, remote') /\ Fetched(Now.id) /\ HasRemotePath(job.got.parent)
    BY KeepsJobs DEF Inv, Holds, HoldsDownload
<1>2. /\ job'.at = point /\ job'.got = job.got /\ job'.todo = job.todo
      /\ job'.retry = job.retry /\ JobIn(job', remote')
    BY <1>1 DEF Goto, JobIn, IsJob, Points
<1> QED
    BY <1>1, <1>2, Reaching DEF Fetched

(* What a folder lacks of the way to its path. *)
LEMMA MissingType ==
    ASSUME NEW path \in Path
    PROVE  /\ {p \in Ancestors(path) \cup {path} : ~Exists(p)} \in SUBSET Path
           /\ IsFiniteSet({p \in Ancestors(path) \cup {path} : ~Exists(p)})
<1> DEFINE missing == {p \in Ancestors(path) \cup {path} : ~Exists(p)}
<1>1. Len(path) \in Nat \ {0} /\ path \in Seq(Names)
    BY PathLast
<1>2. IsFiniteSet(1..(Len(path) - 1))
    BY <1>1, FS_Interval
<1>3. [k \in 1..(Len(path) - 1) |-> SubSeq(path, 1, k)]
            \in Surjection(1..(Len(path) - 1), Ancestors(path))
    BY DEF Surjection, Ancestors
<1>4. IsFiniteSet(Ancestors(path) \cup {path})
    BY <1>2, <1>3, FS_Surjection, FS_AddElement
<1>5. ASSUME NEW k \in 1..(Len(path) - 1)
      PROVE  SubSeq(path, 1, k) \in Path
    <2>1. \A i \in 1..k : path[i] \in Names
        BY <1>1
    <2>2. SubSeq(path, 1, k) \in Seq(Names) /\ Len(SubSeq(path, 1, k)) = k
        BY <1>1, <2>1, SubSeqProperties
    <2> QED
        BY <1>1, <2>2 DEF Path
<1>6. missing \in SUBSET (Ancestors(path) \cup {path})
    OBVIOUS
<1> QED
    BY <1>4, <1>5, <1>6, FS_Subset DEF Ancestors

LEMMA WriteFolderStep ==
    ASSUME Inv, At("PresentOnDisk", "write"), NEW path \in Path, WriteFolder(path),
           UNCHANGED <<table, edits, missed>>, UNCHANGED <<remote, tlm>>
    PROVE  Inv'
<1> DEFINE missing == {p \in Ancestors(path) \cup {path} : ~Exists(p)}
           refused == (\E p \in Ancestors(path) : IsFile(p)) /\ ~Exists(path)
<1>1. TreeOK(disk) /\ NotifiedOK(notified)
    BY DEF Inv, UsersOK, SidesOK
<1>2. missing \in SUBSET Path /\ IsFiniteSet(missing)
    BY MissingType
<1> HIDE DEF missing, refused
<1>3. CASE refused
    <2>1. Fail("Unexpected") /\ UNCHANGED <<disk, notified>>
        BY <1>3 DEF WriteFolder, refused
    <2> QED
        BY <2>1, FailingAlone
<1>4. CASE ~refused
    <2>1. /\ disk' = [p \in DOMAIN disk \cup missing |-> IF p \in missing THEN Folder ELSE disk[p]]
          /\ \E created \in SetToSeqs(missing) :
                 Notify(Own([k \in DOMAIN created |-> LocalEvent("Created", created[k])]))
          /\ Goto("stat")
        BY <1>4 DEF WriteFolder, refused, missing
    <2>2. IsFiniteSet(DOMAIN disk \cup missing)
        BY <1>1, <1>2, FS_Union DEF TreeOK
    <2>3. Folder \in Entry
        BY DEF Folder, Entry, NoBytes
    <2>4. TreeOK(disk')
        BY <1>1, <1>2, <2>1, <2>2, <2>3 DEF TreeOK
    <2>5. PICK created \in SetToSeqs(missing) :
            Notify(Own([k \in DOMAIN created |-> LocalEvent("Created", created[k])]))
        BY <2>1
    <2>6. [k \in DOMAIN created |-> LocalEvent("Created", created[k])] \in Seq(LocalEvents)
        BY <1>2, EachEventType
    <2>7. NotifiedOK(notified')
        BY <1>1, <2>5, <2>6, Notified DEF Notify
    <2> QED
        BY <2>1, <2>4, <2>7, KeepsDisk, GoingOn
<1> QED
    BY <1>3, <1>4

(* A file is created or written at a path. *)
LEMMA KeepsWritten ==
    ASSUME Inv, NEW path \in Path, NEW bytes \in Nat,
           disk' = With(path, File(bytes)), Notify(Own(WriteEvents(path))),
           UNCHANGED <<table, edits, missed>>, UNCHANGED <<remote, tlm>>
    PROVE  Keeps
<1>1. TreeOK(disk) /\ NotifiedOK(notified)
    BY DEF Inv, UsersOK, SidesOK
<1>2. File(bytes) \in Entry
    BY DEF File, Entry
<1>3. TreeOK(disk')
    BY <1>1, <1>2, WithType
<1>4. NotifiedOK(notified')
    BY <1>1, WriteEventsType, Notified DEF Notify
<1> QED
    BY <1>3, <1>4, KeepsDisk

LEMMA WriteCreatedStep ==
    ASSUME Inv, WriteCreated
    PROVE  Inv'
<1>1. /\ At("PresentOnDisk", "write")
      /\ UNCHANGED <<table, edits, missed>> /\ UNCHANGED <<remote, tlm>>
    BY DEF WriteCreated, Sys
<1>2. job.got \in Content /\ HasRemotePath(job.got.parent)
    BY <1>1 DEF Inv, Holds, HoldsDownload, Fetched
<1> DEFINE path == RemotePath(job.got)
<1>3. path \in Path
    BY <1>2, RemotePathType
<1> HIDE DEF path
<1>4. CASE WriteFolder(path)
    BY <1>1, <1>3, <1>4, WriteFolderStep
<1>5. CASE WriteFile(path)
    <2>1. CASE IsDir(path) \/ ~ParentIsDir(path)
        BY <1>1, <1>5, <2>1, FailingAlone DEF WriteFile
    <2>2. CASE ~(IsDir(path) \/ ~ParentIsDir(path))
        <3>1. /\ disk' = With(path, File(NoBytes)) /\ Notify(Own(WriteEvents(path)))
              /\ Goto("fill")
            BY <1>5, <2>2 DEF WriteFile
        <3>2. Keeps
            BY <1>1, <1>3, <3>1, KeepsWritten DEF NoBytes
        <3> QED
            BY <1>1, <3>1, <3>2, GoingOn
    <2> QED
        BY <2>1, <2>2
<1> QED
    BY <1>4, <1>5 DEF WriteCreated, path

LEMMA Downloading ==
    ASSUME Inv, NEW executor \in {"PresentOnDisk", "UpdatedOnDisk"}, At(executor, "fill"),
           NEW path \in Path, NEW echo, Download(Now.id, path, echo),
           UNCHANGED <<table, edits, missed>>, UNCHANGED <<remote, tlm>>
    PROVE  Inv'
<1>1. CASE Broken /\ UNCHANGED <<ignored, disk, notified>>
    BY <1>1, FailingAlone DEF Broken
<1>2. CASE Fail("Unexpected") /\ UNCHANGED <<ignored, disk, notified>>
    BY <1>2, FailingAlone
<1>3. Body(Now.id) \in Nat /\ NoBytes \in Nat
    BY NowType, FetchType DEF Content, Body, NoBytes
<1>4. ASSUME NEW bytes \in Nat, Overwrite(path, bytes)
      PROVE  Keeps
    BY <1>4, KeepsWritten DEF Overwrite
<1>5. CASE Overwrite(path, Body(Now.id)) /\ Goto("stat")
    <2>1. Keeps
        BY <1>3, <1>4, <1>5
    <2> QED
        BY <1>5, <2>1, GoingOn
<1>6. CASE Broken /\ Overwrite(path, NoBytes)
    <2>1. Keeps
        BY <1>3, <1>4, <1>6
    <2> QED
        BY <1>6, <2>1, Failing DEF Broken
<1> QED
    BY <1>1, <1>2, <1>5, <1>6 DEF Download

LEMMA FillCreatedStep ==
    ASSUME Inv, FillCreated
    PROVE  Inv'
<1>1. /\ At("PresentOnDisk", "fill")
      /\ UNCHANGED <<table, edits, missed>> /\ UNCHANGED <<remote, tlm>>
    BY DEF FillCreated, Sys
<1>2. RemotePath(job.got) \in Path
    BY <1>1, RemotePathType DEF Inv, Holds, HoldsDownload, Fetched
<1> QED
    BY <1>1, <1>2, Downloading DEF FillCreated

LEMMA FillUpdatedStep ==
    ASSUME Inv, FillUpdated
    PROVE  Inv'
<1>1. /\ At("UpdatedOnDisk", "fill")
      /\ UNCHANGED <<table, edits, missed>> /\ UNCHANGED <<remote, tlm>>
    BY DEF FillUpdated, Sys
<1>2. RemotePath(job.got) \in Path
    BY <1>1, RemotePathType DEF Inv, Holds, HoldsDownload, Fetched
<1>3. CASE job.got.type = "folder"
    <2>1. Goto("stat") /\ UNCHANGED <<disk, notified>>
        BY <1>3 DEF FillUpdated
    <2>2. Keeps
        BY <1>1, <2>1, KeepsWorld
    <2> QED
        BY <1>1, <2>1, <2>2, GoingOn
<1>4. CASE job.got.type # "folder"
    BY <1>1, <1>2, <1>4, Downloading DEF FillUpdated
<1> QED
    BY <1>3, <1>4

LEMMA MoveUpdatedStep ==
    ASSUME Inv, MoveUpdated
    PROVE  Inv'
<1> DEFINE from == PathOf(table, Now.id)
           to   == RemotePath(job.got)
<1>1. /\ At("UpdatedOnDisk", "move")
      /\ UNCHANGED <<table, edits, missed>> /\ UNCHANGED <<remote, tlm>>
    BY DEF MoveUpdated, Sys
<1>2. to \in Path
    BY <1>1, RemotePathType DEF Inv, Holds, HoldsDownload, Fetched
<1> HIDE DEF from, to
<1>3. CASE from = to
    <2>1. Goto("fill") /\ UNCHANGED <<disk, notified>>
        BY <1>3 DEF MoveUpdated, from, to
    <2> QED
        BY <1>1, <2>1, KeepsWorld, GoingOn
<1>4. CASE from # to /\ CanRename(from, to)
    <2>1. disk' = Renamed(from, to) /\ Notify(Own(RenameEvents(from, to))) /\ Goto("fill")
        BY <1>4 DEF MoveUpdated, from, to
    <2>2. TreeOK(disk) /\ NotifiedOK(notified)
        BY DEF Inv, UsersOK, SidesOK
    <2>3. from \in Path
        BY <1>4, <2>2 DEF CanRename, Exists, TreeOK
    <2>4. TreeOK(disk')
        BY <1>2, <2>1, <2>2, <2>3, RenamedType
    <2>5. NotifiedOK(notified')
        BY <1>2, <2>1, <2>2, <2>3, RenameEventsType, Notified DEF Notify
    <2> QED
        BY <1>1, <2>1, <2>4, <2>5, KeepsDisk, GoingOn
<1>5. CASE from # to /\ ~CanRename(from, to)
    BY <1>1, <1>5, FailingAlone DEF MoveUpdated, MoveRefused, from, to
<1> QED
    BY <1>3, <1>4, <1>5

LEMMA StatCreatedStep ==
    ASSUME Inv, StatCreated
    PROVE  Inv'
<1> DEFINE path == RemotePath(job.got)
           done == <<AddChange(Now.id, path, job.got.rev, job.got.parent, Stamp(path))>>
<1>1. At("PresentOnDisk", "stat") /\ Stat(path, done)
    BY DEF StatCreated
<1>2. Fetched(Now.id) /\ HasRemotePath(job.got.parent)
    BY <1>1 DEF Inv, Holds, HoldsDownload
<1>3. path \in Path
    BY <1>2, RemotePathType DEF Fetched
<1> HIDE DEF path
<1>4. Exists(path) => done \in Seq(IssuedChanges(remote))
    BY <1>2, <1>3, FetchedType, StampType, AddIssued
<1> HIDE DEF done
<1> QED
    BY <1>1, <1>4, NowType, Statting

LEMMA StatUpdatedStep ==
    ASSUME Inv, StatUpdated
    PROVE  Inv'
<1> DEFINE path == RemotePath(job.got)
           done == <<UpdateChange(Now.id, job.got.name, job.got.rev, job.got.parent,
                                  Stamp(path))>>
<1>1. At("UpdatedOnDisk", "stat") /\ Stat(path, done)
    BY DEF StatUpdated
<1>2. Fetched(Now.id)
    BY <1>1 DEF Inv, Holds, HoldsDownload
<1> HIDE DEF path
<1>3. Exists(path) => done \in Seq(IssuedChanges(remote))
    BY <1>2, FetchedType, StampType, UpdateIssued
<1> HIDE DEF done
<1> QED
    BY <1>1, <1>3, NowType, Statting

LEMMA DownloadSteps ==
    ASSUME Inv, DownloadStep
    PROVE  Inv'
BY AbsentFromDiskStep, FetchCreatedStep, WriteCreatedStep, FillCreatedStep, StatCreatedStep,
   FetchUpdatedStep, MoveUpdatedStep, FillUpdatedStep, StatUpdatedStep DEF DownloadStep

-------------------------------------------------------------------------------
(* A content the operator trashes or changes on the server. *)
LEMMA KeepsTrashed ==
    ASSUME Inv, NEW id \in DOMAIN remote, TrashContent(id),
           UNCHANGED <<table, edits, missed>>, UNCHANGED <<disk, notified>>
    PROVE  Keeps
<1>1. CASE Live(id)
    <2>1. ContentsOK(Trashed(id)) /\ Grows(Trashed(id))
        BY EditedType DEF Trashed, Inv, UsersOK, SidesOK
    <2>2. remote' = Trashed(id) /\ Tell(Own(<<RemoteEvent("Deleted", id)>>))
        BY <1>1 DEF TrashContent
    <2>3. id \in DOMAIN Trashed(id)
        BY <2>1 DEF Grows
    <2> QED
        BY <2>1, <2>2, <2>3, KeepsRemote
<1>2. CASE ~Live(id)
    BY <1>2, KeepsWorld DEF TrashContent
<1> QED
    BY <1>1, <1>2

LEMMA KeepsUploaded ==
    ASSUME Inv, NEW id, NEW path, CanFill(id, path), Fill(id, path),
           UNCHANGED <<table, edits, missed>>, UNCHANGED <<disk, notified>>
    PROVE  Keeps /\ id \in DOMAIN remote /\ id \in DOMAIN remote'
<1>1. id \in DOMAIN remote /\ disk[path].bytes \in Nat
    BY DEF CanFill, Live, IsFile, Exists, Inv, UsersOK, SidesOK, TreeOK, Entry
<1>2. ContentsOK(Filled(id, disk[path].bytes)) /\ Grows(Filled(id, disk[path].bytes))
    BY <1>1, EditedType DEF Inv, UsersOK, SidesOK
<1>3. id \in DOMAIN Filled(id, disk[path].bytes)
    BY <1>1, <1>2 DEF Grows
<1> QED
    BY <1>1, <1>2, <1>3, KeepsRemote DEF Fill

(* From a point of the upload to the next one. *)
LEMMA Uploading ==
    ASSUME Inv, Keeps,
           NEW executor \in {"CreatedOnRemote", "ModifiedOnRemote"},
           NEW from, At(executor, from), from # "failed",
           NEW id \in DOMAIN remote', NEW point \in {"find", "fill", "compare", "get"},
           job' = [job EXCEPT !.id = id, !.at = point] \/ (Goto(point) /\ job.id = id)
    PROVE  Inv'
<1>1. JobIn(job, remote') /\ id \in Ids
    BY KeepsJobs DEF Keeps, UsersOK, SidesOK, ContentsOK
<1>2. /\ job'.at = point /\ job'.id = id /\ job'.todo = job.todo
      /\ job'.retry = job.retry /\ JobIn(job', remote')
    BY <1>1 DEF Goto, JobIn, IsJob, Points
<1> QED
    BY <1>1, <1>2, Reaching

-------------------------------------------------------------------------------
(* AbsentFromRemote. *)
LEMMA RowsKnown ==
    ASSUME Inv, NEW id \in DOMAIN table
    PROVE  id \in DOMAIN remote /\ id \in Ids
BY DEF Inv, RevisionNotAhead, IsTable

LEMMA FetchAbsentStep ==
    ASSUME Inv, FetchAbsent
    PROVE  Inv'
<1> DEFINE id == ContentIdForPath(table, Now.path)
<1>1. /\ At("AbsentFromRemote", "start")
      /\ UNCHANGED <<table, edits, missed>> /\ UNCHANGED <<remote, disk, tlm, notified>>
    BY DEF FetchAbsent, Sys, world
<1>2. id # Root => id \in DOMAIN remote /\ id \in Ids
    BY ContentIdKnown, RowsKnown DEF Inv
<1> HIDE DEF id
<1>3. CASE \E error : Fail(error)
    BY <1>1, <1>3, FailingAlone
<1>4. CASE Timeout
    BY <1>1, <1>4, NowType, TimingOutAlone
<1>5. CASE id # Root /\ Done(<<ForgotChange(id)>>)
    <2>1. Keeps
        BY <1>1, KeepsWorld
    <2>2. job.todo # <<>> /\ job.at = "start"
        BY <1>1, NowType
    <2>3. <<ForgotChange(id)>> \in Seq(IssuedChanges(remote'))
        BY <1>2, <1>5, ForgotIssued
    <2> QED
        BY <1>5, <2>1, <2>2, <2>3, Finishing
<1>6. CASE id # Root /\ job' = [job EXCEPT !.at = "trash", !.id = id, !.got = remote[id]]
    <2>1. Keeps /\ JobIn(job, remote')
        BY <1>1, KeepsWorld, KeepsJobs
    <2>2. remote[id] \in Content
        BY <1>2, <1>6, FetchType
    <2>3. /\ job'.at = "trash" /\ job'.id = id /\ job'.got = remote[id] /\ IsJob(job')
          /\ job'.todo = job.todo /\ job'.retry = job.retry /\ job'.from = job.from
          /\ job'.mods = job.mods /\ job'.changes = job.changes
        BY <1>6, <2>1 DEF JobIn, IsJob
    <2>4. JobIn(job', remote')
        BY <1>2, <1>6, <2>1, <2>2, <2>3 DEF JobIn, Points
    <2> QED
        BY <1>1, <1>2, <1>6, <2>1, <2>3, <2>4, Reaching
<1> QED
    BY <1>3, <1>4, <1>5, <1>6 DEF FetchAbsent, Broken, id

LEMMA TrashAbsentStep ==
    ASSUME Inv, TrashAbsent
    PROVE  Inv'
<1>1. /\ At("AbsentFromRemote", "trash")
      /\ UNCHANGED <<table, edits, missed>> /\ UNCHANGED <<disk, notified>>
    BY DEF TrashAbsent, Sys
<1>2. job.id \in DOMAIN remote /\ job.id \in Ids
    BY <1>1 DEF Inv, Holds, HoldsTrash, UsersOK, SidesOK, ContentsOK
<1>3. CASE TrashContent(job.id) /\ Done(<<ForgotChange(job.id)>>)
    <2>1. Keeps
        BY <1>1, <1>2, <1>3, KeepsTrashed
    <2>2. job.todo # <<>> /\ job.at = "trash"
        BY <1>1, NowType
    <2>3. <<ForgotChange(job.id)>> \in Seq(IssuedChanges(remote'))
        BY <1>2, ForgotIssued
    <2> QED
        BY <1>3, <2>1, <2>2, <2>3, Finishing
<1>4. CASE (\E error : Fail(error)) /\ UNCHANGED <<remote, tlm>>
    BY <1>1, <1>4, FailingAlone
<1>5. CASE TrashContent(job.id) /\ \E error : Fail(error)
    BY <1>1, <1>2, <1>5, KeepsTrashed, Failing
<1> QED
    BY <1>3, <1>4, <1>5 DEF TrashAbsent, Broken

-------------------------------------------------------------------------------
(* CreatedOnRemote. *)
LEMMA ParentIdType ==
    ASSUME Inv, NEW path
    PROVE  ParentId(path) \in ParentIds
BY ContentIdKnown DEF ParentId, ParentIds, Inv

LEMMA KeepsCreated ==
    ASSUME Inv, NEW id \in NewIds, NEW name \in Names, NEW parent \in ParentIds,
           NEW type \in {"file", "folder"}, NEW bytes \in Nat,
           Create(id, name, parent, type, bytes),
           UNCHANGED <<table, edits, missed>>, UNCHANGED <<disk, notified>>
    PROVE  Keeps /\ id \in DOMAIN remote'
<1> DEFINE content == NewContent(name, parent, type, bytes)
<1>1. content \in Content
    BY DEF NewContent, Content, ParentIds
<1>2. id \in Ids \ DOMAIN remote
    BY DEF NewIds
<1>3. ContentsOK(WithContent(id, content)) /\ Grows(WithContent(id, content))
    BY <1>1, <1>2, WithContentType DEF Inv, UsersOK, SidesOK
<1>4. id \in DOMAIN WithContent(id, content)
    BY DEF WithContent
<1>5. remote' = WithContent(id, content) /\ Tell(Own(<<RemoteEvent("Created", id)>>))
    BY DEF Create
<1> HIDE DEF content
<1> QED
    BY <1>3, <1>4, <1>5, KeepsRemote

LEMMA CreateContentStep ==
    ASSUME Inv, CreateContent
    PROVE  Inv'
<1> DEFINE path == Now.path
           name == Last(path)
           parent == ParentId(path)
           type == TypeAt(path)
           bytes == IF IsFile(path) THEN disk[path].bytes ELSE NoBytes
<1>1. /\ At("CreatedOnRemote", "start")
      /\ UNCHANGED <<table, edits, missed>> /\ UNCHANGED <<disk, notified>>
    BY DEF CreateContent, Sys
<1>2. name \in Names /\ parent \in ParentIds /\ type \in {"file", "folder"} /\ bytes \in Nat
    <2>1. name \in Names
        BY <1>1, NowType, PathLast
    <2>2. bytes \in Nat
        BY DEF IsFile, Exists, NoBytes, Inv, UsersOK, SidesOK, TreeOK, Entry
    <2> QED
        BY <2>1, <2>2, ParentIdType DEF TypeAt
<1>3. \/ \E id \in NewIds :
            /\ Create(id, name, parent, type, bytes)
            /\ job' = [job EXCEPT !.id = id, !.at = IF type = "file" THEN "fill" ELSE "get"]
      \/ Goto("find") /\ UNCHANGED <<remote, tlm>>
      \/ (\E error : Fail(error)) /\ UNCHANGED <<remote, tlm>>
      \/ /\ Timeout \/ \E error : Fail(error)
         /\ \E id \in NewIds : Create(id, name, parent, type, bytes)
      \/ Timeout /\ UNCHANGED <<remote, tlm>>
    BY DEF CreateContent, Broken
<1> HIDE DEF path, name, parent, type, bytes
<1>4. CASE \E id \in NewIds :
            /\ Create(id, name, parent, type, bytes)
            /\ job' = [job EXCEPT !.id = id, !.at = IF type = "file" THEN "fill" ELSE "get"]
    <2>1. PICK id \in NewIds :
            /\ Create(id, name, parent, type, bytes)
            /\ job' = [job EXCEPT !.id = id, !.at = IF type = "file" THEN "fill" ELSE "get"]
        BY <1>4
    <2>2. Keeps /\ id \in DOMAIN remote'
        BY <1>1, <1>2, <2>1, KeepsCreated
    <2> QED
        BY <1>1, <2>1, <2>2, Uploading
<1>5. CASE Goto("find") /\ UNCHANGED <<remote, tlm>>
    <2>1. Keeps /\ JobIn(job, remote')
        BY <1>1, <1>5, KeepsWorld, KeepsJobs
    <2>2. /\ job'.at = "find" /\ job'.todo = job.todo
          /\ job'.retry = job.retry /\ JobIn(job', remote')
        BY <1>5, <2>1 DEF Goto, JobIn, IsJob, Points
    <2> QED
        BY <1>1, <2>1, <2>2, Reaching
<1>6. CASE (\E error : Fail(error)) /\ UNCHANGED <<remote, tlm>>
    BY <1>1, <1>6, FailingAlone
<1>7. CASE /\ Timeout \/ \E error : Fail(error)
           /\ \E id \in NewIds : Create(id, name, parent, type, bytes)
    <2>1. Keeps
        BY <1>1, <1>2, <1>7, KeepsCreated
    <2> QED
        BY <1>1, <1>7, <2>1, NowType, TimingOut, Failing
<1>8. CASE Timeout /\ UNCHANGED <<remote, tlm>>
    BY <1>1, <1>8, NowType, TimingOutAlone
<1> QED
    BY <1>3, <1>4, <1>5, <1>6, <1>7, <1>8

LEMMA FindExistingStep ==
    ASSUME Inv, FindExisting
    PROVE  Inv'
<1>1. /\ At("CreatedOnRemote", "find")
      /\ UNCHANGED <<table, edits, missed>> /\ UNCHANGED <<remote, disk, tlm, notified>>
    BY DEF FindExisting, Sys, world
<1>2. CASE \E error : Fail(error)
    BY <1>1, <1>2, FailingAlone
<1>3. CASE \E id \in Homonyms(Root, Last(Now.path), ParentId(Now.path)) :
            job' = [job EXCEPT !.id = id, !.at = IF TypeAt(Now.path) = "file" THEN "compare"
                                                 ELSE "get"]
    <2>1. PICK id \in DOMAIN remote :
            job' = [job EXCEPT !.id = id, !.at = IF TypeAt(Now.path) = "file" THEN "compare"
                                                 ELSE "get"]
        BY <1>3 DEF Homonyms
    <2>2. Keeps
        BY <1>1, KeepsWorld
    <2> QED
        BY <1>1, <2>1, <2>2, Uploading
<1> QED
    BY <1>2, <1>3 DEF FindExisting, Broken

LEMMA CompareExistingStep ==
    ASSUME Inv, CompareExisting
    PROVE  Inv'
<1>1. /\ At("CreatedOnRemote", "compare")
      /\ UNCHANGED <<table, edits, missed>> /\ UNCHANGED <<remote, disk, tlm, notified>>
    BY DEF CompareExisting, Sys, world
<1>2. CASE \E error : Fail(error)
    BY <1>1, <1>2, FailingAlone
<1>3. CASE Timeout
    BY <1>1, <1>3, NowType, TimingOutAlone
<1>4. CASE \E point \in {"get", "fill"} : Goto(point)
    <2>1. Keeps
        BY <1>1, KeepsWorld
    <2>2. job.id \in DOMAIN remote
        BY <1>1 DEF Inv, Holds, HoldsUpload
    <2> QED
        BY <1>1, <1>4, <2>1, <2>2, Uploading
<1> QED
    BY <1>2, <1>3, <1>4 DEF CompareExisting, Broken

LEMMA FillContentStep ==
    ASSUME Inv, FillContent
    PROVE  Inv'
<1>1. /\ At("CreatedOnRemote", "fill")
      /\ UNCHANGED <<table, edits, missed>> /\ UNCHANGED <<disk, notified>>
    BY DEF FillContent, Sys
<1>2. CASE (\E error : Fail(error)) /\ UNCHANGED <<remote, tlm>>
    BY <1>1, <1>2, FailingAlone
<1>3. CASE CanFill(job.id, Now.path) /\ Fill(job.id, Now.path) /\ Goto("get")
    BY <1>1, <1>3, KeepsUploaded, Uploading
<1>4. CASE CanFill(job.id, Now.path) /\ Fill(job.id, Now.path) /\ \E error : Fail(error)
    BY <1>1, <1>4, KeepsUploaded, Failing
<1> QED
    BY <1>2, <1>3, <1>4 DEF FillContent, Broken, Upload

LEMMA GetContentStep ==
    ASSUME Inv, NEW executor \in {"CreatedOnRemote", "ModifiedOnRemote"}, GetContent(executor)
    PROVE  Inv'
<1>1. /\ At(executor, "get")
      /\ UNCHANGED <<table, edits, missed>> /\ UNCHANGED <<remote, disk, tlm, notified>>
    BY DEF GetContent, Sys, world
<1>2. job.id \in DOMAIN remote
    BY <1>1 DEF Inv, Holds, HoldsUpload
<1>3. CASE \E error : Fail(error)
    BY <1>1, <1>3, FailingAlone
<1>4. CASE job' = [job EXCEPT !.at = "stat", !.got = remote[job.id]]
    <2>1. Keeps /\ JobIn(job, remote')
        BY <1>1, KeepsWorld, KeepsJobs
    <2>2. remote[job.id] \in Content /\ remote[job.id].rev <= remote[job.id].rev
        BY <1>2, FetchType
    <2>3. /\ job'.at = "stat" /\ job'.got = remote[job.id] /\ IsJob(job') /\ job'.id = job.id
          /\ job'.todo = job.todo /\ job'.retry = job.retry /\ job'.from = job.from
          /\ job'.mods = job.mods /\ job'.changes = job.changes
        BY <1>4, <2>1 DEF JobIn, IsJob
    <2>4. JobIn(job', remote')
        BY <2>1, <2>2, <2>3 DEF JobIn, Points
    <2> QED
        BY <1>1, <1>2, <2>1, <2>2, <2>3, <2>4, Reaching
<1> QED
    BY <1>3, <1>4 DEF GetContent, Fetch, Broken

LEMMA StatContentStep ==
    ASSUME Inv, StatContent
    PROVE  Inv'
<1> DEFINE path == Now.path
           done == <<AddChange(job.id, path, job.got.rev, job.got.parent, Stamp(path))>>
<1>1. At("CreatedOnRemote", "stat") /\ Stat(path, done)
    BY DEF StatContent
<1>2. Fetched(job.id)
    BY <1>1 DEF Inv, Holds, HoldsUpload
<1>3. path \in Path
    BY <1>1, NowType
<1> HIDE DEF path
<1>4. Exists(path) => done \in Seq(IssuedChanges(remote))
    BY <1>2, <1>3, FetchedType, StampType, AddIssued
<1> HIDE DEF done
<1> QED
    BY <1>1, <1>4, NowType, Statting

-------------------------------------------------------------------------------
(* ModifiedOnRemote. *)
LEMMA UploadModifiedStep ==
    ASSUME Inv, UploadModified
    PROVE  Inv'
<1> DEFINE id == ContentIdForPath(table, Now.path)
           path == PathOf(table, id)
           next == job' = [job EXCEPT !.id = id, !.at = "get"]
<1>1. /\ At("ModifiedOnRemote", "start")
      /\ UNCHANGED <<table, edits, missed>> /\ UNCHANGED <<disk, notified>>
    BY DEF UploadModified, Sys
<1>2. id # Root => id \in DOMAIN remote
    BY ContentIdKnown, RowsKnown DEF Inv
<1>3. \/ (\E error : Fail(error)) /\ UNCHANGED <<remote, tlm>>
      \/ id # Root /\ CanFill(id, path) /\ Fill(id, path) /\ next
      \/ id # Root /\ next /\ UNCHANGED <<remote, tlm>>
    BY DEF UploadModified, Upload
<1> HIDE DEF id, path
<1>4. CASE (\E error : Fail(error)) /\ UNCHANGED <<remote, tlm>>
    BY <1>1, <1>4, FailingAlone
<1>5. CASE id # Root /\ CanFill(id, path) /\ Fill(id, path) /\ next
    BY <1>1, <1>5, KeepsUploaded, Uploading
<1>6. CASE id # Root /\ next /\ UNCHANGED <<remote, tlm>>
    BY <1>1, <1>2, <1>6, KeepsWorld, Uploading
<1> QED
    BY <1>3, <1>4, <1>5, <1>6

LEMMA StatModifiedStep ==
    ASSUME Inv, StatModified
    PROVE  Inv'
<1> DEFINE path == PathOf(table, job.id)
           done == <<UpdateChange(job.id, job.got.name, job.got.rev, job.got.parent,
                                  Stamp(path))>>
<1>1. At("ModifiedOnRemote", "stat") /\ Stat(path, done)
    BY DEF StatModified
<1>2. Fetched(job.id)
    BY <1>1 DEF Inv, Holds, HoldsUpload
<1> HIDE DEF path
<1>3. Exists(path) => done \in Seq(IssuedChanges(remote))
    BY <1>2, FetchedType, StampType, UpdateIssued
<1> HIDE DEF done
<1> QED
    BY <1>1, <1>3, NowType, Statting

-------------------------------------------------------------------------------
(* NamedOnRemote. *)
LEMMA Naming ==
    ASSUME Inv, Keeps, NEW from, At("NamedOnRemote", from), from # "failed",
           NEW point \in {"move", "stat", "again"}, NEW id \in DOMAIN remote',
           NEW rev \in Nat, rev <= remote'[id].rev,
           job'.at = point, job'.id = id, job'.got = rev, IsJob(job'),
           job'.todo = job.todo, job'.retry = job.retry, job'.from = job.from,
           job'.mods = job.mods, job'.changes = job.changes
    PROVE  Inv'
<1>1. JobIn(job, remote') /\ id \in Ids
    BY KeepsJobs DEF Keeps, UsersOK, SidesOK, ContentsOK
<1>2. JobIn(job', remote')
    BY <1>1 DEF JobIn, Points
<1> QED
    BY <1>2, Reaching

LEMMA SetLabelStep ==
    ASSUME Inv, SetLabel
    PROVE  Inv'
<1> DEFINE id == ContentIdForPath(table, Now.path)
           name == Last(Now.after)
           next(rev) == job' = [job EXCEPT !.at = "move", !.id = id, !.got = rev]
<1>1. /\ At("NamedOnRemote", "start")
      /\ UNCHANGED <<table, edits, missed>> /\ UNCHANGED <<disk, notified>>
    BY DEF SetLabel, Sys
<1>2. id # Root => /\ id \in DOMAIN remote /\ table[id].rev \in Nat
                  /\ table[id].rev <= remote[id].rev /\ remote[id].rev \in Nat
    BY ContentIdKnown, RowsKnown, FetchType DEF Inv, RevisionNotAhead, IsTable, Row
<1>3. name \in Names
    BY <1>1, NowType, PathLast
<1>4. \/ (\E error : Fail(error)) /\ UNCHANGED <<remote, tlm>>
      \/ id # Root /\ next(table[id].rev) /\ UNCHANGED <<remote, tlm>>
      \/ id # Root /\ Relabel(id, name) /\ next(remote[id].rev + 1)
      \/ id # Root /\ Relabel(id, name) /\ \E error : Fail(error)
    BY DEF SetLabel, Broken, AnsweredRevision, NamedFails
<1> HIDE DEF id, name
<1>5. ASSUME NEW rev, next(rev)
      PROVE  /\ job'.at = "move" /\ job'.id = id /\ job'.got = rev /\ IsJob(job')
             /\ job'.todo = job.todo /\ job'.retry = job.retry /\ job'.from = job.from
             /\ job'.mods = job.mods /\ job'.changes = job.changes
    BY <1>5 DEF Inv, JobOK, JobIn, IsJob
<1>6. CASE (\E error : Fail(error)) /\ UNCHANGED <<remote, tlm>>
    BY <1>1, <1>6, FailingAlone
<1>7. CASE id # Root /\ next(table[id].rev) /\ UNCHANGED <<remote, tlm>>
    <2>1. Keeps
        BY <1>1, <1>7, KeepsWorld
    <2> HIDE DEF next
    <2> QED
        BY <1>1, <1>2, <1>5, <1>7, <2>1, Naming
<1>8. ASSUME id # Root, Relabel(id, name)
      PROVE  /\ Keeps /\ id \in DOMAIN remote' /\ remote[id].rev + 1 \in Nat
             /\ remote[id].rev + 1 <= remote'[id].rev
    <2>1. ContentsOK(Labelled(id, name)) /\ Grows(Labelled(id, name))
        BY <1>2, <1>3, <1>8, EditedType DEF Inv, UsersOK, SidesOK
    <2>2. /\ id \in DOMAIN remote /\ remote' = Labelled(id, name)
          /\ id \in DOMAIN Labelled(id, name) /\ id \in DOMAIN remote'
        BY <1>2, <1>8, <2>1 DEF Relabel, Grows
    <2>3. Keeps
        BY <1>1, <1>8, <2>1, <2>2, KeepsRemote DEF Relabel
    <2>4. remote[id].rev \in Nat /\ remote[id].rev + 1 \in Nat
        BY <1>2, <1>8
    <2>5. remote'[id].rev = remote[id].rev + 1
        BY <2>2, FetchType DEF Labelled, Content
    <2>6. remote[id].rev + 1 <= remote'[id].rev
        BY <2>4, <2>5
    <2> QED
        BY <2>2, <2>3, <2>4, <2>6
<1>9. CASE id # Root /\ Relabel(id, name) /\ next(remote[id].rev + 1)
    <2> HIDE DEF next
    <2> QED
        BY <1>1, <1>5, <1>8, <1>9, Naming
<1>10. CASE id # Root /\ Relabel(id, name) /\ \E error : Fail(error)
    BY <1>8, <1>10, Failing
<1> QED
    BY <1>4, <1>6, <1>7, <1>9, <1>10

LEMMA NameHeld ==
    ASSUME Inv, NEW point \in {"move", "replace", "trash", "again", "stat"},
           At("NamedOnRemote", point)
    PROVE  /\ job.id \in DOMAIN remote /\ job.id \in Ids /\ job.got \in Nat
           /\ job.got <= remote[job.id].rev /\ remote[job.id].rev \in Nat
BY FetchType DEF Inv, Holds, HoldsName, UsersOK, SidesOK, ContentsOK

LEMMA SetParentStep ==
    ASSUME Inv, NEW point \in {"move", "again"}, SetParentAt(point)
    PROVE  Inv'
<1> DEFINE id == job.id
           parent == ParentId(Now.after)
<1>1. /\ At("NamedOnRemote", point)
      /\ UNCHANGED <<table, edits, missed>> /\ UNCHANGED <<disk, notified>>
    BY DEF SetParentAt, Sys
<1>2. /\ id \in DOMAIN remote /\ job.got \in Nat /\ job.got <= remote[id].rev
      /\ remote[id].rev \in Nat
    BY <1>1, NameHeld
<1>3. \/ (\E error : Fail(error)) /\ UNCHANGED <<remote, tlm>>
      \/ Timeout /\ UNCHANGED <<remote, tlm>>
      \/ (Goto("stat") \/ Goto("replace")) /\ UNCHANGED <<remote, tlm>>
      \/ (Timeout \/ \E error : Fail(error)) /\ Reparent(id, parent)
      \/ Reparent(id, parent) /\ job' = [job EXCEPT !.at = "stat", !.got = remote[id].rev + 1]
    BY DEF SetParentAt, Broken, AnsweredRevision
<1>4. ASSUME Reparent(id, parent)
      PROVE  /\ Keeps /\ id \in DOMAIN remote' /\ remote[id].rev + 1 \in Nat
             /\ remote[id].rev + 1 <= remote'[id].rev
    <2>1. ContentsOK(Parented(id, parent)) /\ Grows(Parented(id, parent))
        BY <1>2, ParentIdType, EditedType DEF Inv, UsersOK, SidesOK
    <2>2. remote' = Parented(id, parent) /\ id \in DOMAIN Parented(id, parent)
        BY <1>2, <1>4, <2>1 DEF Reparent, Grows
    <2>3. Keeps
        BY <1>1, <1>4, <2>1, <2>2, KeepsRemote DEF Reparent
    <2>4. remote'[id].rev = remote[id].rev + 1
        BY <1>2, <2>2, FetchType DEF Parented, Content
    <2> QED
        BY <1>2, <2>2, <2>3, <2>4
<1>5. CASE (\E error : Fail(error)) /\ UNCHANGED <<remote, tlm>>
    BY <1>1, <1>5, FailingAlone
<1>6. CASE Timeout /\ UNCHANGED <<remote, tlm>>
    BY <1>1, <1>6, NowType, TimingOutAlone
<1>7. CASE (Goto("stat") \/ Goto("replace")) /\ UNCHANGED <<remote, tlm>>
    <2>1. Keeps /\ JobIn(job, remote')
        BY <1>1, <1>7, KeepsWorld, KeepsJobs
    <2>2. /\ job'.at \in {"stat", "replace"} /\ job'.id = id /\ job'.got = job.got
          /\ job'.todo = job.todo /\ job'.retry = job.retry /\ JobIn(job', remote')
        BY <1>7, <2>1 DEF Goto, JobIn, IsJob, Points
    <2> QED
        BY <1>1, <1>2, <1>7, <2>1, <2>2, Reaching
<1>8. CASE (Timeout \/ \E error : Fail(error)) /\ Reparent(id, parent)
    BY <1>1, <1>4, <1>8, NowType, TimingOut, Failing
<1>9. CASE Reparent(id, parent) /\ job' = [job EXCEPT !.at = "stat", !.got = remote[id].rev + 1]
    <2>1. /\ job'.at = "stat" /\ job'.id = id /\ job'.got = remote[id].rev + 1 /\ IsJob(job')
          /\ job'.todo = job.todo /\ job'.retry = job.retry /\ job'.from = job.from
          /\ job'.mods = job.mods /\ job'.changes = job.changes
        BY <1>9 DEF Inv, JobOK, JobIn, IsJob
    <2> QED
        BY <1>1, <1>4, <1>9, <2>1, Naming
<1> QED
    BY <1>3, <1>5, <1>6, <1>7, <1>8, <1>9

LEMMA FindHomonymStep ==
    ASSUME Inv, FindHomonym
    PROVE  Inv'
<1>1. /\ At("NamedOnRemote", "replace")
      /\ UNCHANGED <<table, edits, missed>> /\ UNCHANGED <<remote, disk, tlm, notified>>
    BY DEF FindHomonym, Sys, world
<1>2. CASE \E error : Fail(error)
    BY <1>1, <1>2, FailingAlone
<1>3. CASE Timeout
    BY <1>1, <1>3, NowType, TimingOutAlone
<1>4. CASE \E other \in Homonyms(job.id, Last(Now.after), ParentId(Now.after)) :
            job' = [job EXCEPT !.at = "trash", !.mods = <<ForgotChange(other)>>]
    <2>1. PICK other \in DOMAIN remote :
            job' = [job EXCEPT !.at = "trash", !.mods = <<ForgotChange(other)>>]
        BY <1>4 DEF Homonyms
    <2>2. Keeps /\ JobIn(job, remote')
        BY <1>1, KeepsWorld, KeepsJobs
    <2>3. <<ForgotChange(other)>> \in Seq(IssuedChanges(remote'))
        BY ForgotIssued DEF Inv, UsersOK, SidesOK, ContentsOK
    <2>4. /\ job'.at = "trash" /\ job'.id = job.id /\ job'.got = job.got /\ IsJob(job')
          /\ job'.todo = job.todo /\ job'.retry = job.retry /\ job'.from = job.from
          /\ job'.mods = <<ForgotChange(other)>> /\ job'.changes = job.changes
        BY <2>1, <2>2 DEF JobIn, IsJob
    <2>5. JobIn(job', remote')
        BY <2>2, <2>3, <2>4 DEF JobIn, Points
    <2>6. job'.mods # <<>> /\ Head(job'.mods).id \in DOMAIN remote'
        BY <1>1, <2>1, <2>4 DEF ForgotChange
    <2> QED
        BY <1>1, <2>2, <2>4, <2>5, <2>6, NameHeld, Reaching
<1> QED
    BY <1>2, <1>3, <1>4 DEF FindHomonym, Broken

LEMMA TrashHomonymStep ==
    ASSUME Inv, TrashHomonym
    PROVE  Inv'
<1>1. /\ At("NamedOnRemote", "trash")
      /\ UNCHANGED <<table, edits, missed>> /\ UNCHANGED <<disk, notified>>
    BY DEF TrashHomonym, Sys
<1>2. Head(job.mods).id \in DOMAIN remote
    BY <1>1 DEF Inv, Holds, HoldsTrash
<1>3. CASE (Timeout \/ \E error : Fail(error)) /\ UNCHANGED <<remote, tlm>>
    BY <1>1, <1>3, NowType, TimingOutAlone, FailingAlone
<1>4. TrashContent(Head(job.mods).id) => Keeps
    BY <1>1, <1>2, KeepsTrashed
<1>5. CASE TrashContent(Head(job.mods).id) /\ (Timeout \/ \E error : Fail(error))
    BY <1>1, <1>4, <1>5, NowType, TimingOut, Failing
<1>6. CASE TrashContent(Head(job.mods).id) /\ Goto("again")
    <2>1. Keeps /\ JobIn(job, remote')
        BY <1>4, <1>6, KeepsJobs
    <2>2. /\ job'.at = "again" /\ job'.id = job.id /\ job'.got = job.got /\ IsJob(job')
          /\ job'.todo = job.todo /\ job'.retry = job.retry /\ job'.from = job.from
          /\ job'.mods = job.mods /\ job'.changes = job.changes
        BY <1>6, <2>1 DEF JobIn, IsJob, Goto
    <2>3. /\ job.id \in DOMAIN remote' /\ job.got \in Nat
          /\ job.got <= remote'[job.id].rev
        <3>1. /\ job.id \in DOMAIN remote /\ job.got \in Nat /\ job.got <= remote[job.id].rev
              /\ remote[job.id].rev \in Nat
            BY <1>1, NameHeld
        <3>2. job.id \in DOMAIN remote' /\ remote'[job.id].rev \in Nat
            BY <2>1, <3>1 DEF Keeps, Grows, UsersOK, SidesOK, ContentsOK, Content
        <3> QED
            BY <2>1, <3>1, <3>2 DEF Keeps, Grows
    <2> QED
        BY <1>1, <2>1, <2>2, <2>3, Naming
<1> QED
    BY <1>3, <1>5, <1>6 DEF TrashHomonym, Broken

LEMMA StatNamedStep ==
    ASSUME Inv, StatNamed
    PROVE  Inv'
<1> DEFINE last == <<UpdateChange(job.id, Last(Now.after), job.got, ParentId(Now.after),
                                  Stamp(Now.after))>>
           done == job.mods \o last
<1>1. At("NamedOnRemote", "stat") /\ Stat(Now.after, done)
    BY DEF StatNamed
<1>2. /\ job.id \in DOMAIN remote /\ job.id \in Ids /\ job.got \in Nat
      /\ job.got <= remote[job.id].rev
    BY <1>1, NameHeld
<1>3. Last(Now.after) \in Names
    BY <1>1, NowType, PathLast
<1>4. Exists(Now.after) => last \in Seq(IssuedChanges(remote))
    BY <1>2, <1>3, ParentIdType, StampType, UpdateIssued
<1> HIDE DEF last
<1>5. Exists(Now.after) => done \in Seq(IssuedChanges(remote))
    BY <1>4, ConcatProperties DEF Inv, JobOK, JobIn
<1> HIDE DEF done
<1> QED
    BY <1>1, <1>5, NowType, Statting

LEMMA UploadSteps ==
    ASSUME Inv, UploadStep
    PROVE  Inv'
BY FetchAbsentStep, TrashAbsentStep, CreateContentStep, FindExistingStep, CompareExistingStep,
   FillContentStep, GetContentStep, StatContentStep, UploadModifiedStep, StatModifiedStep,
   SetLabelStep, SetParentStep, FindHomonymStep, TrashHomonymStep,
   StatNamedStep
   DEF UploadStep, GetCreated, GetModified, SetParent, SetParentAgain

-------------------------------------------------------------------------------
(* Before an executor has started and after the last one has finished the  *)
(* job holds nothing of the server.                                        *)
LEMMA Resting ==
    ASSUME UsersOK', IsTable(table'), RevisionNotAhead', missed' \in BOOLEAN,
           JobIn(job', remote'), job'.at \in {"idle", "start", "apply", "failed"},
           job'.at # "failed" => job'.retry < RETRY_COUNT_MAX
    PROVE  Inv'
<1>1. Holds'
    BY DEF Holds, HoldsDownload, HoldsUpload, HoldsName, HoldsTrash, At
<1> QED
    BY <1>1 DEF Inv, JobOK

(* The executors of an event of either side. *)
LEMMA ExecutorsType ==
    ASSUME NEW ids, NEW event \in RemoteEvents(ids) \cup LocalEvents
    PROVE  Executors(event) \in Seq(ExecutorsOf(ids))
<1>1. CASE event \in RemoteEvents(ids)
    <2>1. event.src = "remote" /\ event.id \in ids
        BY <1>1 DEF RemoteEvents
    <2>2. DownloadExecutor(event) \in ExecutorsOf(ids)
        BY <2>1 DEF DownloadExecutor, OnId, ExecutorsOf
    <2>3. <<DownloadExecutor(event)>> \in Seq(ExecutorsOf(ids))
        BY <2>2
    <2> QED
        BY <2>1, <2>3 DEF Executors
<1>2. CASE event \in LocalEvents
    <2>1. /\ event.src = "local" /\ event.stored \in Path /\ event.path \in Path
          /\ event.kind \in {"Created", "Modified", "Deleted", "Renamed"}
        BY <1>2 DEF LocalEvents
    <2>2. /\ \A ex \in {"AbsentFromRemote", "CreatedOnRemote", "ModifiedOnRemote"} :
                \A path \in Path : <<OnPath(ex, path)>> \in Seq(ExecutorsOf(ids))
          /\ <<OnRename(event.stored, event.path)>> \in Seq(ExecutorsOf(ids))
        <3>1. \A ex \in {"AbsentFromRemote", "CreatedOnRemote", "ModifiedOnRemote"} :
                \A path \in Path : OnPath(ex, path) \in ExecutorsOf(ids)
            BY DEF OnPath, ExecutorsOf
        <3>2. OnRename(event.stored, event.path) \in ExecutorsOf(ids)
            BY <2>1 DEF OnRename, ExecutorsOf
        <3> QED
            BY <3>1, <3>2
    <2>3. /\ <<OnPath("ModifiedOnRemote", event.stored)>> \o
                <<OnRename(event.stored, event.path)>> \in Seq(ExecutorsOf(ids))
          /\ <<OnPath("ModifiedOnRemote", event.stored)>> \o <<>> \in Seq(ExecutorsOf(ids))
        <3>1. <<OnPath("ModifiedOnRemote", event.stored)>> \in Seq(ExecutorsOf(ids))
            BY <2>1, <2>2
        <3>2. <<OnRename(event.stored, event.path)>> \in Seq(ExecutorsOf(ids))
              /\ <<>> \in Seq(ExecutorsOf(ids))
            BY <2>2
        <3> QED
            BY <3>1, <3>2, ConcatProperties
    <2>4. UploadExecutors(event) \in Seq(ExecutorsOf(ids))
        BY <2>1, <2>2, <2>3 DEF UploadExecutors
    <2> QED
        BY <2>1, <2>4 DEF Executors
<1> QED
    BY <1>1, <1>2

LEMMA Receiving ==
    ASSUME Inv, NEW event \in RemoteEvents(DOMAIN remote) \cup LocalEvents,
           NEW own \in BOOLEAN, Receive(event, own),
           TlmOK(tlm', remote), NotifiedOK(notified')
    PROVE  Inv'
<1>1. /\ job.at = "idle" /\ UNCHANGED <<table, remote, disk, edits>>
      /\ missed' \in BOOLEAN
    BY DEF Receive, Inv
<1>2. UsersOK' /\ IsTable(table') /\ RevisionNotAhead'
    BY <1>1 DEF Inv, UsersOK, SidesOK, ContentsOK, TreeOK, TlmOK, NotifiedOK, RevisionNotAhead
<1>3. \/ UNCHANGED job
      \/ \E error : Fail(error)
      \/ job' = [Idle EXCEPT !.at = "start", !.from = event.src, !.todo = Executors(event)]
    BY DEF Receive
<1>4. JobIn(job, remote') /\ job.retry < RETRY_COUNT_MAX
    BY <1>1 DEF Inv, JobOK
<1>5. CASE UNCHANGED job
    BY <1>1, <1>2, <1>4, <1>5, Resting
<1>6. CASE \E error : Fail(error)
    <2>1. JobIn(job', remote') /\ job'.at = "failed"
        BY <1>4, <1>6 DEF Fail, JobIn, IsJob, Points
    <2> QED
        BY <1>1, <1>2, <2>1, Resting
<1>7. CASE job' = [Idle EXCEPT !.at = "start", !.from = event.src, !.todo = Executors(event)]
    <2>1. /\ job'.at = "start" /\ job'.from = event.src /\ job'.todo = Executors(event)
          /\ job'.id = Root /\ job'.got = Root /\ job'.mods = <<>> /\ job'.changes = <<>>
          /\ job'.retry = 0 /\ IsJob(job')
        BY <1>7 DEF Idle, IsJob, Nothing
    <2>2. event.src \in {"local", "remote"}
        BY DEF RemoteEvents, LocalEvents
    <2>3. Executors(event) \in Seq(ExecutorsOf(DOMAIN remote'))
        BY <1>1, ExecutorsType
    <2>4. 0 \in 0..RETRY_COUNT_MAX /\ 0 < RETRY_COUNT_MAX
        BY OperatorAssumption
    <2>5. <<>> \in Seq(IssuedChanges(remote'))
        OBVIOUS
    <2>6. JobIn(job', remote')
        BY <2>1, <2>2, <2>3, <2>4, <2>5 DEF JobIn, Points
    <2> QED
        BY <1>1, <1>2, <2>1, <2>4, <2>6, Resting
<1> QED
    BY <1>3, <1>5, <1>6, <1>7

(* The oldest message of a queue, and the others. *)
LEMMA Dequeued ==
    ASSUME NEW E, NEW queue \in Seq(Message(E)), queue # <<>>
    PROVE  /\ Head(queue).event \in E /\ Head(queue).own \in BOOLEAN
           /\ Tail(queue) \in Seq(Message(E))
<1>1. Head(queue) \in Message(E) /\ Tail(queue) \in Seq(Message(E))
    BY HeadTailProperties
<1> QED
    BY <1>1 DEF Message

(* The watcher leaves every waiting message but one as it is. *)
LEMMA WatchLeftQueue ==
    ASSUME Inv, WatchLeft
    PROVE  TlmOK(tlm', remote) /\ missed' \in BOOLEAN
<1> DEFINE M == Message(RemoteEvents(DOMAIN remote))
<1>1. tlm \in Seq(M) /\ missed \in BOOLEAN
    BY DEF Inv, UsersOK, SidesOK, TlmOK
<1>2. PICK k \in DOMAIN tlm :
        \/ /\ tlm' = [tlm EXCEPT ![k] = [event |-> RemoteEvent("Deleted", tlm[k].event.id),
                                        own |-> tlm[k].own]]
           /\ UNCHANGED missed
        \/ tlm' = RemoveAt(tlm, k) /\ missed' = TRUE
    BY DEF WatchLeft
<1>3. DOMAIN tlm = 1..Len(tlm) /\ Len(tlm) \in Nat /\ k \in 1..Len(tlm)
      /\ \A i \in 1..Len(tlm) : tlm[i] \in M
    BY <1>1, <1>2, LenProperties, ElementOfSeq
<1>4. [event |-> RemoteEvent("Deleted", tlm[k].event.id), own |-> tlm[k].own] \in M
    <2>1. tlm[k] \in M
        BY <1>3
    <2> QED
        BY <2>1 DEF Message, RemoteEvents, RemoteEvent
<1> HIDE DEF M
<1>5. [tlm EXCEPT ![k] = [event |-> RemoteEvent("Deleted", tlm[k].event.id),
                          own |-> tlm[k].own]] \in Seq(M)
    BY <1>1, <1>3, <1>4, ExceptSeq
<1>6. RemoveAt(tlm, k) \in Seq(M)
    <2>1. SubSeq(tlm, 1, k - 1) \in Seq(M) /\ SubSeq(tlm, k + 1, Len(tlm)) \in Seq(M)
        BY <1>3, SubSeqProperties
    <2> QED
        BY <2>1, ConcatProperties DEF RemoveAt
<1> QED
    BY <1>1, <1>2, <1>5, <1>6 DEF TlmOK, M

LEMMA WatchLeftStep ==
    ASSUME Inv, WatchLeft
    PROVE  Inv'
<1>1. UNCHANGED <<table, ignored, job, remote, disk, notified, edits>>
    BY DEF WatchLeft, store
<1>2. UsersOK' /\ missed' \in BOOLEAN
    BY <1>1, WatchLeftQueue
       DEF Inv, UsersOK, SidesOK, ContentsOK, TreeOK, TlmOK, NotifiedOK
<1> QED
    BY <1>1, <1>2
       DEF Inv, RevisionNotAhead, JobOK, Holds, HoldsDownload, HoldsUpload, HoldsName,
           HoldsTrash, At, Now, Fetched, HasRemotePath

LEMMA ReceiveRemoteStep ==
    ASSUME Inv, ReceiveRemote
    PROVE  Inv'
<1>1. /\ Head(tlm).event \in RemoteEvents(DOMAIN remote) /\ Head(tlm).own \in BOOLEAN
      /\ TlmOK(tlm', remote)
    BY Dequeued DEF ReceiveRemote, Inv, UsersOK, SidesOK, TlmOK
<1>2. NotifiedOK(notified')
    BY DEF ReceiveRemote, Inv, UsersOK, SidesOK
<1> QED
    BY <1>1, <1>2, Receiving DEF ReceiveRemote

LEMMA ReceiveLocalStep ==
    ASSUME Inv, ReceiveLocal
    PROVE  Inv'
<1>1. /\ Head(notified).event \in LocalEvents /\ Head(notified).own \in BOOLEAN
      /\ NotifiedOK(notified')
    BY Dequeued DEF ReceiveLocal, Inv, UsersOK, SidesOK, NotifiedOK
<1>2. TlmOK(tlm', remote)
    BY DEF ReceiveLocal, Inv, UsersOK, SidesOK
<1> QED
    BY <1>1, <1>2, Receiving DEF ReceiveLocal

(* A modification is applied at a revision the server has issued. *)
LEMMA ApplyChangeStep ==
    ASSUME Inv, ApplyChange
    PROVE  Inv'
<1>1. job.at = "apply" /\ UNCHANGED <<remote, disk, tlm, notified, edits, missed>>
    BY DEF ApplyChange, world
<1>2. UsersOK' /\ missed' \in BOOLEAN
    BY <1>1 DEF Inv, UsersOK, SidesOK, ContentsOK, TreeOK, TlmOK, NotifiedOK
<1>3. JobIn(job, remote') /\ job.retry < RETRY_COUNT_MAX
    BY <1>1 DEF Inv, JobOK
<1>4. CASE UNCHANGED table
    <2>1. IsTable(table') /\ RevisionNotAhead'
        BY <1>1, <1>4 DEF Inv, RevisionNotAhead
    <2>2. CASE job' = Idle
        <3>1. /\ job'.at = "idle" /\ job'.from = "none" /\ job'.todo = <<>> /\ job'.id = Root
              /\ job'.got = Root /\ job'.mods = <<>> /\ job'.changes = <<>> /\ job'.retry = 0
              /\ IsJob(job')
            BY <2>2 DEF Idle, IsJob, Nothing
        <3>2. 0 \in 0..RETRY_COUNT_MAX /\ 0 < RETRY_COUNT_MAX
            BY OperatorAssumption
        <3>3. JobIn(job', remote')
            BY <3>1, <3>2 DEF JobIn, Points
        <3> QED
            BY <1>2, <2>1, <3>1, <3>2, <3>3, Resting
    <2>3. CASE Fail("State")
        <3>1. JobIn(job', remote') /\ job'.at = "failed"
            BY <1>3, <2>3 DEF Fail, JobIn, IsJob, Points
        <3> QED
            BY <1>2, <2>1, <3>1, Resting
    <2>4. CASE job.changes # <<>> /\ Accepted(table, Head(job.changes))
        <3>1. job' = [job EXCEPT !.changes = Tail(@)]
            BY <2>4 DEF ApplyChange
        <3>2. Tail(job.changes) \in Seq(IssuedChanges(remote'))
            BY <1>3, <2>4, HeadTailProperties DEF JobIn
        <3>3. /\ job'.at = job.at /\ job'.from = job.from /\ job'.todo = job.todo
              /\ job'.id = job.id /\ job'.got = job.got /\ job'.mods = job.mods
              /\ job'.changes = Tail(job.changes) /\ job'.retry = job.retry /\ IsJob(job')
            BY <1>3, <3>1 DEF JobIn, IsJob
        <3>4. JobIn(job', remote')
            BY <1>3, <3>2, <3>3 DEF JobIn
        <3> QED
            BY <1>1, <1>2, <1>3, <2>1, <3>3, <3>4, Resting
    <2> QED
        BY <2>2, <2>3, <2>4 DEF ApplyChange
<1>5. CASE job.changes # <<>> /\ table' = Changed(table, Head(job.changes))
           /\ job' = [job EXCEPT !.changes = Tail(@)]
    <2> DEFINE c == Head(job.changes)
    <2>1. c \in IssuedChanges(remote) /\ Tail(job.changes) \in Seq(IssuedChanges(remote'))
        BY <1>1, <1>3, <1>5, HeadTailProperties DEF JobIn
    <2>2. /\ job'.at = job.at /\ job'.from = job.from /\ job'.todo = job.todo
          /\ job'.id = job.id /\ job'.got = job.got /\ job'.mods = job.mods
          /\ job'.changes = Tail(job.changes) /\ job'.retry = job.retry /\ IsJob(job')
        BY <1>3, <1>5 DEF JobIn, IsJob
    <2>3. JobIn(job', remote')
        BY <1>3, <2>1, <2>2 DEF JobIn
    <2> HIDE DEF c
    <2>4. table' = Changed(table, c) /\ c \in Changes /\ Issued(c, remote)
        BY <1>5, <2>1 DEF IssuedChanges, c
    <2>5. IsTable(table')
        BY <2>4, ChangedType DEF Inv
    <2>6. RevisionNotAhead'
        <3>1. CASE c.change = "Forgot"
            BY <1>1, <2>4, <3>1 DEF Changed, ForgotWithChildren, Inv, RevisionNotAhead
        <3>2. CASE c \in AddChanges
            BY <1>1, <2>4, <3>2 DEF AddChanges, Issued, Changed, Added, Inv, RevisionNotAhead
        <3>3. CASE c \in UpdateChanges
            BY <1>1, <2>4, <3>3 DEF UpdateChanges, Issued, Changed, Updated, Inv, RevisionNotAhead
        <3> QED
            BY <2>4, <3>1, <3>2, <3>3 DEF Changes
    <2> QED
        BY <1>1, <1>2, <1>3, <2>2, <2>3, <2>5, <2>6, Resting
<1> QED
    BY <1>4, <1>5 DEF ApplyChange

(* What the users do between two steps of an executor spoils nothing of    *)
(* what it holds.                                                          *)
LEMMA UserActsStep ==
    ASSUME Inv, UserActs
    PROVE  Inv'
<1>1. Keeps /\ UNCHANGED job
    BY UserStepType DEF UserActs, Keeps, Inv, store
<1>2. JobOK'
    BY <1>1, KeepsJobs DEF Inv, JobOK
<1>3. \A executor, point : At(executor, point)' = At(executor, point)
    BY <1>1 DEF At
<1>4. Now' = Now /\ \A parent : HasRemotePath(parent)' = HasRemotePath(parent)
    BY <1>1 DEF Now, HasRemotePath, Keeps
<1>5. \A id : Fetched(id) => Fetched(id)'
    BY <1>1, FetchedGrows DEF Fetched
<1>6. \A id \in DOMAIN remote : /\ id \in DOMAIN remote'
                               /\ remote[id].rev \in Nat /\ remote'[id].rev \in Nat
                               /\ remote[id].rev <= remote'[id].rev
    BY <1>1 DEF Keeps, Grows, Inv, UsersOK, SidesOK, ContentsOK, Content
<1>7. HoldsDownload'
    BY <1>1, <1>3, <1>4, <1>5 DEF Inv, Holds, HoldsDownload
<1>8. HoldsUpload'
    BY <1>1, <1>3, <1>5, <1>6 DEF Inv, Holds, HoldsUpload
<1>9. HoldsName'
    BY <1>1, <1>3, <1>6 DEF Inv, Holds, HoldsName
<1>10. HoldsTrash'
    BY <1>1, <1>3, <1>6 DEF Inv, Holds, HoldsTrash
<1> QED
    BY <1>1, <1>2, <1>7, <1>8, <1>9, <1>10, KeepsTable DEF Inv, Keeps, Holds

-------------------------------------------------------------------------------
LEMMA StartType ==
    ASSUME StartEmpty \/ StartNested
    PROVE  /\ ContentsOK(remote) /\ TreeOK(disk)
           /\ IsTable(table) /\ RevisionNotAhead
<1>1. CASE StartEmpty
    <2>1. remote = EmptyTable /\ disk = EmptyTable /\ table = EmptyTable
        BY <1>1 DEF StartEmpty, Agree
    <2>2. DOMAIN EmptyTable = {} /\ IsFiniteSet({})
        BY FS_EmptySet DEF EmptyTable
    <2>3. EmptyTable \in [{} -> Content] /\ EmptyTable \in [{} -> Row]
          /\ EmptyTable \in [{} -> Entry]
        BY DEF EmptyTable
    <2> QED
        BY <2>1, <2>2, <2>3 DEF ContentsOK, TreeOK, IsTable, RevisionNotAhead
<1>2. CASE StartNested
    <2> DEFINE name == CHOOSE name \in Names : TRUE
               inside == <<name, name>>
    <2>1. PICK top \in Ids, below \in Ids, entry \in {Folder, File(NoBytes)} :
            /\ top < below
            /\ Agree([id \in {top, below} |->
                        IF id = top THEN NewContent(name, Root, "folder", NoBytes)
                                    ELSE NewContent(name, top, entry.type, NoBytes)],
                     [path \in {<<name>>, inside} |-> IF path = inside THEN entry ELSE Folder],
                     [id \in {top, below} |->
                        IF id = top
                        THEN [path |-> <<name>>, rev |-> 1, parent |-> Root, stamp |-> NoBytes]
                        ELSE [path |-> inside, rev |-> 1, parent |-> top, stamp |-> NoBytes]])
        BY <1>2 DEF StartNested
    <2>2. name \in Names
        BY OperatorAssumption
    <2> HIDE DEF name
    <2>3. <<name>> \in Path /\ inside \in Path
        <3>1. <<name>> \in Seq(Names) /\ <<name, name>> \in Seq(Names)
            BY <2>2
        <3>2. Len(<<name>>) = 1 /\ Len(<<name, name>>) = 2 /\ Len(<<>>) = 0
            OBVIOUS
        <3> QED
            BY <3>1, <3>2 DEF Path
    <2> HIDE DEF inside
    <2>4. entry \in Entry /\ Folder \in Entry
        BY DEF Folder, File, NoBytes, Entry
    <2>5. /\ NewContent(name, Root, "folder", NoBytes) \in Content
          /\ NewContent(name, top, entry.type, NoBytes) \in Content
          /\ NewContent(name, Root, "folder", NoBytes).rev = 1
          /\ NewContent(name, top, entry.type, NoBytes).rev = 1
        BY <2>2, <2>4 DEF NewContent, Content, NoBytes, Entry
    <2>6. ContentsOK(remote) /\ \A id \in DOMAIN remote : remote[id].rev = 1
        BY <2>1, <2>5 DEF Agree, ContentsOK
    <2>7. TreeOK(disk)
        <3>1. IsFiniteSet({<<name>>} \cup {inside})
            BY FS_Singleton, FS_AddElement
        <3> QED
            BY <2>1, <2>3, <2>4, <3>1 DEF Agree, TreeOK
    <2>8. IsTable(table) /\ DOMAIN table = DOMAIN remote /\ \A id \in DOMAIN table : table[id].rev = 1
        <3>1. /\ [path |-> <<name>>, rev |-> 1, parent |-> Root, stamp |-> NoBytes] \in Row
              /\ [path |-> inside, rev |-> 1, parent |-> top, stamp |-> NoBytes] \in Row
            BY <2>3 DEF Row, NoBytes
        <3> QED
            BY <2>1, <3>1 DEF Agree, IsTable
    <2> QED
        BY <2>6, <2>7, <2>8 DEF RevisionNotAhead
<1> QED
    BY <1>1, <1>2

LEMMA InitInv == Init => Inv
<1> SUFFICES ASSUME Init PROVE Inv
    OBVIOUS
<1>1. ContentsOK(remote) /\ TreeOK(disk) /\ IsTable(table) /\ RevisionNotAhead
    BY StartType DEF Init
<1>2. UsersOK
    BY <1>1, SpaceAssumption DEF Init, UsersOK, SidesOK, TlmOK, NotifiedOK
<1>3. JobOK
    <2>1. /\ job.at = "idle" /\ job.from = "none" /\ job.todo = <<>> /\ job.id = Root
          /\ job.got = Root /\ job.mods = <<>> /\ job.changes = <<>> /\ job.retry = 0
          /\ IsJob(job)
        BY DEF Init, Idle, IsJob, Nothing
    <2>2. 0 \in 0..RETRY_COUNT_MAX /\ 0 < RETRY_COUNT_MAX
        BY OperatorAssumption
    <2> QED
        BY <2>1, <2>2 DEF JobOK, JobIn, Points
<1>4. Holds
    BY DEF Init, Idle, Holds, HoldsDownload, HoldsUpload, HoldsName, HoldsTrash, At
<1> QED
    BY <1>1, <1>2, <1>3, <1>4 DEF Init, Inv

LEMMA NextInv == Inv /\ [Next]_vars => Inv'
<1> SUFFICES ASSUME Inv, [Next]_vars PROVE Inv'
    OBVIOUS
<1>1. CASE OperatorStep
    BY <1>1, WatchLeftStep, ReceiveRemoteStep, ReceiveLocalStep, DownloadSteps,
       UploadSteps, ApplyChangeStep DEF OperatorStep
<1>2. CASE UserActs
    BY <1>2, UserActsStep
<1>3. CASE UNCHANGED vars
    BY <1>3 DEF vars, Inv, UsersOK, SidesOK, ContentsOK, TreeOK, TlmOK, NotifiedOK,
                RevisionNotAhead, JobOK, Holds, HoldsDownload, HoldsUpload, HoldsName,
                HoldsTrash, At, Now, Fetched, HasRemotePath
<1> QED
    BY <1>1, <1>2, <1>3 DEF Next

(* The strengthening: what the event in hand holds at each point of each   *)
(* executor (operator.rs:89-138).                                          *)
THEOREM Invariance == Spec => []Inv
<1> QED
    BY InitInv, NextInv, PTL DEF Spec

(* Every variable keeps its type, and an event in hand has timed out less  *)
(* than RETRY_COUNT_MAX times.                                             *)
THEOREM TypeCorrectness == Spec => []TypeOK
<1>1. Inv => TypeOK
    BY DEF Inv, UsersOK, SidesOK, ContentsOK, JobOK, JobIn, TypeOK
<1> QED
    BY <1>1, Invariance, PTL

(* Whatever the two users do between the calls of an executor, and whichever *)
(* of them fail, no row of the State is ahead of the server: what a later   *)
(* startup finds equal to the server is what was synchronized.              *)
THEOREM RevisionsIssued == Spec => []RevisionNotAhead
<1>1. Inv => RevisionNotAhead
    BY DEF Inv
<1> QED
    BY <1>1, Invariance, PTL

-------------------------------------------------------------------------------
(***************************************************************************)
(* The State never goes back to an older revision of a content it knows.   *)
(* The revision written to a row was read calls before: the proof shows    *)
(* that the row has not changed since, for an event has one executor and   *)
(* makes one update at most. It rests on the order of delivery: a change   *)
(* of bytes is notified under the path its content is stored under, when   *)
(* events do not pile up.                                                  *)
(***************************************************************************)

(* A change of bytes that is not also a rename. *)
Plain(event) == event.kind = "Modified" => event.stored = event.path
PlainEvents == {event \in LocalEvents : Plain(event)}

NotifiedPlain == notified \in Seq(Message(PlainEvents))

(* An update to this revision takes nothing back. *)
Newer(id, rev) == id \in DOMAIN table => table[id].rev <= rev

(* What is applied adds or updates one row at most, last, and forward.     *)
Forward(changes) ==
    \A k \in DOMAIN changes :
        /\ changes[k].change # "Forgot" => k = Len(changes)
        /\ changes[k].change = "Update" => Newer(changes[k].id, changes[k].rev)

Forgets(mods) == \A k \in DOMAIN mods : mods[k].change = "Forgot"

Working == {"start", "write", "move", "fill", "find", "compare", "get", "trash",
            "replace", "again", "stat"}

(* One executor for each event, which has recorded nothing yet, and holds  *)
(* no revision older than that of the row it is to update.                 *)
OneExecutor ==
    /\ job.at \in Working => Len(job.todo) = 1 /\ job.changes = <<>>
    /\ Forgets(job.mods)
    /\ job.at = "apply" => Forward(job.changes)

HoldsNewer ==
    /\ \A point \in {"move", "fill", "stat"} :
           At("UpdatedOnDisk", point) => Newer(Now.id, job.got.rev)
    /\ At("ModifiedOnRemote", "stat") => Newer(job.id, job.got.rev)
    /\ \A point \in {"move", "replace", "trash", "again", "stat"} :
           At("NamedOnRemote", point) => Newer(job.id, job.got)

RevisionOK == OneExecutor /\ HoldsNewer

-------------------------------------------------------------------------------
(* The notifications. *)
LEMMA PlainLocalEvent ==
    ASSUME NEW path \in Path, NEW kind \in {"Created", "Modified", "Deleted"}
    PROVE  LocalEvent(kind, path) \in PlainEvents
BY LocalEventType DEF LocalEvent, PlainEvents, Plain

LEMMA PlainRename ==
    ASSUME NEW from \in Path, NEW to \in Path
    PROVE  RenameEvents(from, to) \in Seq(PlainEvents)
<1>1. RenamedEvent(from, to) \in PlainEvents
    BY DEF RenamedEvent, LocalEvents, PlainEvents, Plain
<1>2. /\ LocalEvent("Deleted", from) \in PlainEvents
      /\ LocalEvent("Created", to) \in PlainEvents
    BY PlainLocalEvent
<1> QED
    BY <1>1, <1>2 DEF RenameEvents

LEMMA PlainWrite ==
    ASSUME NEW path \in Path
    PROVE  WriteEvents(path) \in Seq(PlainEvents)
<1>1. LocalEvent(IF Exists(path) THEN "Modified" ELSE "Created", path) \in PlainEvents
    BY PlainLocalEvent
<1> QED
    BY <1>1 DEF WriteEvents

LEMMA PlainEach ==
    ASSUME NEW paths \in SUBSET Path, IsFiniteSet(paths), NEW order \in SetToSeqs(paths),
           NEW kind \in {"Created", "Deleted"}
    PROVE  [k \in DOMAIN order |-> LocalEvent(kind, order[k])] \in Seq(PlainEvents)
<1>1. order \in Seq(paths) /\ DOMAIN order = 1..Cardinality(paths) /\ Cardinality(paths) \in Nat
    BY OrderType
<1>2. \A k \in DOMAIN order : order[k] \in Path
    BY <1>1
<1>3. \A k \in DOMAIN order : LocalEvent(kind, order[k]) \in PlainEvents
    BY <1>2, PlainLocalEvent
<1> QED
    BY <1>1, <1>3

LEMMA PlainRemoval ==
    ASSUME TreeOK(disk), NEW path, NEW order \in Removals(path)
    PROVE  RemoveEvents(order) \in Seq(PlainEvents)
<1>1. Under(path) \in SUBSET Path /\ IsFiniteSet(Under(path))
    BY UnderFinite DEF TreeOK, Under
<1>2. order \in SetToSeqs(Under(path))
    BY DEF Removals
<1> QED
    BY <1>1, <1>2, PlainEach DEF RemoveEvents

LEMMA PlainNotified ==
    ASSUME NotifiedPlain, NEW events \in Seq(PlainEvents),
           Notify(Own(events)) \/ Notify(ByUser(events))
    PROVE  NotifiedPlain'
BY Tagged, ConcatProperties DEF NotifiedPlain, Notify

LEMMA PlainWritten ==
    ASSUME NotifiedPlain, NEW path \in Path, Notify(Own(WriteEvents(path)))
    PROVE  NotifiedPlain'
BY PlainWrite, PlainNotified

LEMMA PlainUsers ==
    ASSUME Inv, NotifiedPlain, UserStep
    PROVE  NotifiedPlain'
<1>1. CASE UNCHANGED notified
    BY <1>1 DEF NotifiedPlain
<1>2. CASE \E tree : \E events \in Seq(PlainEvents) : LocalChange(tree, events)
    BY <1>2, PlainNotified DEF LocalChange
<1>3. TreeOK(disk)
    BY DEF Inv, UsersOK, SidesOK
<1>4. ASSUME UserCreatesLocal
      PROVE  \E tree : \E events \in Seq(PlainEvents) : LocalChange(tree, events)
    <2>1. PICK path \in DiskPath, entry \in {File(edits + 1), Folder} :
            LocalChange(With(path, entry), <<LocalEvent("Created", path)>>)
        BY <1>4 DEF UserCreatesLocal
    <2>2. <<LocalEvent("Created", path)>> \in Seq(PlainEvents)
        BY DiskPathType, PlainLocalEvent
    <2> QED
        BY <2>1, <2>2
<1>5. ASSUME UserWritesLocal
      PROVE  \E tree : \E events \in Seq(PlainEvents) : LocalChange(tree, events)
    <2>1. PICK path \in DOMAIN disk :
            LocalChange(With(path, File(edits + 1)), <<LocalEvent("Modified", path)>>)
        BY <1>5 DEF UserWritesLocal
    <2>2. <<LocalEvent("Modified", path)>> \in Seq(PlainEvents)
        BY <1>3, PlainLocalEvent DEF TreeOK
    <2> QED
        BY <2>1, <2>2
<1>6. ASSUME UserRenamesLocal
      PROVE  \E tree : \E events \in Seq(PlainEvents) : LocalChange(tree, events)
    <2>1. PICK from \in DOMAIN disk, to \in DiskPath :
            LocalChange(Renamed(from, to), RenameEvents(from, to))
        BY <1>6 DEF UserRenamesLocal
    <2>2. RenameEvents(from, to) \in Seq(PlainEvents)
        BY <1>3, DiskPathType, PlainRename DEF TreeOK
    <2> QED
        BY <2>1, <2>2
<1>7. ASSUME UserDeletesLocal
      PROVE  \E tree : \E events \in Seq(PlainEvents) : LocalChange(tree, events)
    <2>1. PICK path \in DOMAIN disk : \E order \in Removals(path) :
            LocalChange(Without(Under(path)), RemoveEvents(order))
        BY <1>7 DEF UserDeletesLocal
    <2> QED
        BY <1>3, <2>1, PlainRemoval
<1>8. ASSUME \/ UserCreatesRemote \/ UserFillsRemote \/ UserLabelsRemote \/ UserMovesRemote
             \/ UserTrashesRemote \/ UserRestoresRemote \/ UserSendsRemoteAway
      PROVE  UNCHANGED notified
    BY <1>8 DEF UserCreatesRemote, UserFillsRemote, UserLabelsRemote, UserMovesRemote,
                UserTrashesRemote, UserRestoresRemote, UserSendsRemoteAway, RemoteChange,
                DiskUnchanged
<1> QED
    BY <1>1, <1>2, <1>4, <1>5, <1>6, <1>7, <1>8 DEF UserStep

-------------------------------------------------------------------------------
(* The ways a step of an executor ends.                                    *)
LEMMA RevisionFailing ==
    ASSUME Inv, RevisionOK, NEW error, Fail(error)
    PROVE  RevisionOK'
<1>1. job'.at = "failed" /\ job'.mods = job.mods
    BY DEF Fail, Inv, JobOK, JobIn, IsJob
<1> QED
    BY <1>1 DEF RevisionOK, OneExecutor, HoldsNewer, Forgets, Working, At

LEMMA RevisionTimingOut ==
    ASSUME Inv, RevisionOK, Timeout, job.at \in Working
    PROVE  RevisionOK'
<1>1. /\ job'.at \in {"failed", "start"} /\ job'.todo = job.todo /\ job'.changes = job.changes
      /\ job'.mods \in {job.mods, <<>>}
    BY DEF Timeout, Inv, JobOK, JobIn, IsJob
<1>2. Forgets(<<>>)
    BY DEF Forgets
<1> QED
    BY <1>1, <1>2 DEF RevisionOK, OneExecutor, HoldsNewer, Forgets, Working, At

LEMMA RevisionGoing ==
    ASSUME Inv, RevisionOK, UNCHANGED table, NEW executor, NEW from \in Working,
           At(executor, from), job'.at \in Working, job'.todo = job.todo,
           job'.changes = job.changes, Forgets(job'.mods),
           executor = "UpdatedOnDisk" => Newer(Now.id, job'.got.rev),
           executor = "ModifiedOnRemote" /\ job'.at = "stat" => Newer(job'.id, job'.got.rev),
           executor = "NamedOnRemote" => Newer(job'.id, job'.got)
    PROVE  RevisionOK'
<1>1. OneExecutor'
    BY DEF RevisionOK, OneExecutor, At, Working
<1>2. Now' = Now /\ \A other, point : At(other, point)' => other = executor /\ job'.at = point
    BY DEF At, Now
<1>3. \A id, rev : Newer(id, rev) => Newer(id, rev)'
    BY DEF Newer
<1>4. HoldsNewer'
    BY <1>2 DEF HoldsNewer, Newer
<1> QED
    BY <1>1, <1>4 DEF RevisionOK

(* The executor is the only one of its event.                              *)
LEMMA RevisionDone ==
    ASSUME Inv, RevisionOK, UNCHANGED table, NEW executor, NEW from \in Working,
           At(executor, from), NEW done \in Seq(Changes), Forward(done), Done(done)
    PROVE  RevisionOK'
<1>1. Len(job.todo) = 1 /\ job.changes = <<>>
    BY DEF RevisionOK, OneExecutor, At
<1>2. /\ job'.at = "apply" /\ job'.changes = <<>> \o done /\ job'.mods = <<>>
    BY <1>1 DEF Done, Inv, JobOK, JobIn, IsJob
<1>3. <<>> \o done = done
    OBVIOUS
<1>4. Forward(done)' /\ Forgets(<<>>)
    BY DEF Forward, Newer, Forgets
<1> QED
    BY <1>2, <1>3, <1>4
    DEF RevisionOK, OneExecutor, HoldsNewer, Working, At, Forward, Newer

LEMMA ForwardOne ==
    ASSUME NEW c \in Changes, c.change = "Update" => Newer(c.id, c.rev)
    PROVE  <<c>> \in Seq(Changes) /\ Forward(<<c>>)
BY DEF Forward

(* The modification time is read, and one change recorded.                 *)
LEMMA RevisionStatting ==
    ASSUME Inv, RevisionOK, NEW executor, At(executor, "stat"), NEW path, NEW done,
           Stat(path, done), Exists(path) => done \in Seq(Changes) /\ Forward(done)
    PROVE  RevisionOK'
<1>1. CASE Exists(path)
    BY <1>1, RevisionDone DEF Stat, Sys, Working
<1>2. CASE ~Exists(path)
    BY <1>2, RevisionFailing DEF Stat
<1> QED
    BY <1>1, <1>2

(* A row is never ahead of what the server answers.                        *)
LEMMA ServerNewer ==
    ASSUME Inv, NEW id \in DOMAIN remote
    PROVE  /\ remote[id].rev \in Nat /\ Newer(id, remote[id].rev)
           /\ Newer(id, remote[id].rev + 1)
<1>1. remote[id].rev \in Nat
    BY DEF Inv, UsersOK, SidesOK, ContentsOK, Content
<1>2. id \in DOMAIN table => table[id].rev \in Nat /\ table[id].rev <= remote[id].rev
    BY DEF Inv, IsTable, Row, RevisionNotAhead
<1> QED
    BY <1>1, <1>2 DEF Newer

-------------------------------------------------------------------------------
(* Downloads.                                                              *)
LEMMA RevisionFetch ==
    ASSUME Inv, RevisionOK, FetchCreated \/ FetchUpdated
    PROVE  RevisionOK'
<1>1. UNCHANGED table
    BY DEF FetchCreated, FetchUpdated, Sys
<1>2. \/ \E error : Fail(error)
      \/ /\ \E executor \in {"PresentOnDisk", "UpdatedOnDisk"} : At(executor, "start")
         /\ \E point \in {"write", "move"} :
               job' = [job EXCEPT !.at = point, !.got = remote[Now.id]]
    BY DEF FetchCreated, FetchUpdated, Fetch, Broken
<1>3. CASE \E error : Fail(error)
    BY <1>3, RevisionFailing
<1>4. ASSUME NEW executor \in {"PresentOnDisk", "UpdatedOnDisk"}, At(executor, "start"),
             NEW point \in {"write", "move"},
             job' = [job EXCEPT !.at = point, !.got = remote[Now.id]]
      PROVE  RevisionOK'
    <2>1. /\ job'.at = point /\ job'.got = remote[Now.id] /\ job'.todo = job.todo
          /\ job'.changes = job.changes /\ job'.mods = job.mods
        BY <1>4 DEF Inv, JobOK, JobIn, IsJob
    <2>2. Newer(Now.id, remote[Now.id].rev)
        BY <1>4, NowType, ServerNewer
    <2>3. Forgets(job'.mods)
        BY <2>1 DEF RevisionOK, OneExecutor
    <2> QED
        BY <1>1, <1>4, <2>1, <2>2, <2>3, RevisionGoing DEF Working
<1> QED
    BY <1>2, <1>3, <1>4

LEMMA RevisionMoves ==
    ASSUME Inv, RevisionOK, WriteCreated \/ FillCreated \/ MoveUpdated \/ FillUpdated
    PROVE  RevisionOK'
<1>1. UNCHANGED table
    BY DEF WriteCreated, FillCreated, MoveUpdated, FillUpdated, Sys
<1>2. \/ \E error : Fail(error)
      \/ /\ \/ \E from \in Working : At("PresentOnDisk", from)
            \/ \E from \in {"move", "fill"} : At("UpdatedOnDisk", from)
         /\ \E point \in {"fill", "stat"} : Goto(point)
    <2>1. CASE WriteCreated
        BY <2>1 DEF WriteCreated, WriteFolder, WriteFile, Working
    <2>2. CASE FillCreated
        BY <2>2 DEF FillCreated, Download, Broken, Working
    <2>3. CASE MoveUpdated
        BY <2>3 DEF MoveUpdated, MoveRefused
    <2>4. CASE FillUpdated
        BY <2>4 DEF FillUpdated, Download, Broken
    <2> QED
        BY <2>1, <2>2, <2>3, <2>4
<1>3. CASE \E error : Fail(error)
    BY <1>3, RevisionFailing
<1>4. ASSUME NEW point \in {"fill", "stat"}, Goto(point)
      PROVE  /\ job'.at = point /\ job'.got = job.got /\ job'.todo = job.todo
             /\ job'.changes = job.changes /\ job'.mods = job.mods /\ Forgets(job'.mods)
             /\ job'.at \in Working
    BY <1>4 DEF Goto, Inv, JobOK, JobIn, IsJob, RevisionOK, OneExecutor, Working
<1>5. ASSUME NEW from \in Working, At("PresentOnDisk", from),
             NEW point \in {"fill", "stat"}, Goto(point)
      PROVE  RevisionOK'
    BY <1>1, <1>4, <1>5, RevisionGoing
<1>6. ASSUME NEW from \in {"move", "fill"}, At("UpdatedOnDisk", from),
             NEW point \in {"fill", "stat"}, Goto(point)
      PROVE  RevisionOK'
    <2>1. Newer(Now.id, job.got.rev) /\ from \in Working
        BY <1>6 DEF RevisionOK, HoldsNewer, Working
    <2> QED
        BY <1>1, <1>4, <1>6, <2>1, RevisionGoing
<1> QED
    BY <1>2, <1>3, <1>5, <1>6

LEMMA RevisionDownload ==
    ASSUME Inv, RevisionOK, DownloadStep
    PROVE  RevisionOK' /\ UNCHANGED table
<1>1. UNCHANGED table
    BY DEF DownloadStep, AbsentFromDisk, FetchCreated, WriteCreated, FillCreated, StatCreated,
           FetchUpdated, MoveUpdated, FillUpdated, StatUpdated, Sys, Stat
<1>2. CASE AbsentFromDisk
    <2>1. At("AbsentFromDisk", "start") /\ Now.id \in Ids
        BY <1>2, NowType DEF AbsentFromDisk, Inv, UsersOK, SidesOK, ContentsOK
    <2>2. ForgotChange(Now.id) \in Changes /\ ForgotChange(Now.id).change # "Update"
        BY <2>1 DEF ForgotChange, Changes
    <2>3. Fail("Unexpected") \/ Done(<<ForgotChange(Now.id)>>)
        BY <1>2 DEF AbsentFromDisk
    <2> QED
        BY <1>1, <2>1, <2>2, <2>3, ForwardOne, RevisionFailing, RevisionDone DEF Working
<1>3. CASE StatCreated
    <2> DEFINE path == RemotePath(job.got)
               c == AddChange(Now.id, path, job.got.rev, job.got.parent, Stamp(path))
    <2>1. At("PresentOnDisk", "stat") /\ Stat(path, <<c>>)
        BY <1>3 DEF StatCreated
    <2>2. /\ Now.id \in Ids /\ job.got \in Content /\ path \in Path
        BY <2>1, NowType, RemotePathType
        DEF Inv, Holds, HoldsDownload, Fetched, UsersOK, SidesOK, ContentsOK
    <2>3. job.got.rev \in Nat /\ job.got.parent \in ParentIds
        BY <2>2 DEF Content, ParentIds
    <2>4. Exists(path) => Stamp(path) \in Nat
        BY StampType
    <2>5. (Exists(path) => c \in Changes) /\ c.change # "Update"
        BY <2>2, <2>3, <2>4 DEF AddChange, AddChanges, Changes
    <2> HIDE DEF c, path
    <2> QED
        BY <1>1, <2>1, <2>5, ForwardOne, RevisionStatting
<1>4. CASE StatUpdated
    <2> DEFINE path == RemotePath(job.got)
               c == UpdateChange(Now.id, job.got.name, job.got.rev, job.got.parent, Stamp(path))
    <2>1. At("UpdatedOnDisk", "stat") /\ Stat(path, <<c>>)
        BY <1>4 DEF StatUpdated
    <2>2. Now.id \in Ids /\ job.got \in Content
        BY <2>1, NowType DEF Inv, Holds, HoldsDownload, Fetched, UsersOK, SidesOK, ContentsOK
    <2>3. job.got.rev \in Nat /\ job.got.parent \in ParentIds /\ job.got.name \in Names
        BY <2>2 DEF Content, ParentIds
    <2>4. Exists(path) => Stamp(path) \in Nat
        BY StampType
    <2>5. Exists(path) => c \in Changes
        BY <2>2, <2>3, <2>4 DEF UpdateChange, UpdateChanges, Changes
    <2>6. Newer(Now.id, job.got.rev)
        BY <2>1 DEF RevisionOK, HoldsNewer
    <2>7. Newer(c.id, c.rev)
        BY <2>6 DEF UpdateChange
    <2> HIDE DEF c, path
    <2> QED
        BY <1>1, <2>1, <2>5, <2>7, ForwardOne, RevisionStatting
<1> QED
    BY <1>1, <1>2, <1>3, <1>4, RevisionFetch, RevisionMoves DEF DownloadStep

-------------------------------------------------------------------------------
(* Uploads. Those that hold no revision, then each of the others.          *)
LEMMA RevisionAbsent ==
    ASSUME Inv, RevisionOK, FetchAbsent \/ TrashAbsent
    PROVE  RevisionOK'
<1>1. UNCHANGED table
    BY DEF FetchAbsent, TrashAbsent, Sys
<1>2. PICK point \in {"start", "trash"} : At("AbsentFromRemote", point)
    BY DEF FetchAbsent, TrashAbsent
<1>3. point \in Working /\ job.at \in Working
    BY <1>2 DEF Working, At
<1>4. \/ \E error : Fail(error)
      \/ Timeout
      \/ \E id \in Ids : Done(<<ForgotChange(id)>>)
      \/ /\ point = "start"
         /\ \E id, got : job' = [job EXCEPT !.at = "trash", !.id = id, !.got = got]
    <2>1. CASE FetchAbsent
        <3> DEFINE id == ContentIdForPath(table, Now.path)
        <3>1. id # Root => id \in Ids
            BY ContentIdKnown, RowsKnown DEF Inv, UsersOK, SidesOK, ContentsOK
        <3> HIDE DEF id
        <3>2. \/ \E error : Fail(error)
              \/ Timeout
              \/ id # Root /\ Done(<<ForgotChange(id)>>)
              \/ job' = [job EXCEPT !.at = "trash", !.id = id, !.got = remote[id]]
            BY <2>1 DEF FetchAbsent, Broken, id
        <3>3. job.at = "start"
            BY <2>1 DEF FetchAbsent, At
        <3> QED
            BY <1>2, <3>1, <3>2, <3>3 DEF At
    <2>2. CASE TrashAbsent
        <3>1. At("AbsentFromRemote", "trash")
            BY <2>2 DEF TrashAbsent
        <3>2. job.id \in Ids
            BY <3>1 DEF Inv, Holds, HoldsTrash, UsersOK, SidesOK, ContentsOK
        <3> QED
            BY <2>2, <3>2 DEF TrashAbsent, Broken
    <2> QED
        BY <2>1, <2>2
<1>5. CASE \E error : Fail(error)
    BY <1>5, RevisionFailing
<1>6. CASE Timeout
    BY <1>3, <1>6, RevisionTimingOut
<1>7. ASSUME NEW id \in Ids, Done(<<ForgotChange(id)>>)
      PROVE  RevisionOK'
    <2>1. ForgotChange(id) \in Changes /\ ForgotChange(id).change # "Update"
        BY DEF ForgotChange, Changes
    <2> QED
        BY <1>1, <1>2, <1>3, <1>7, <2>1, ForwardOne, RevisionDone
<1>8. ASSUME NEW id, NEW got, job' = [job EXCEPT !.at = "trash", !.id = id, !.got = got]
      PROVE  RevisionOK'
    <2>1. /\ job'.at = "trash" /\ job'.todo = job.todo /\ job'.changes = job.changes
          /\ job'.mods = job.mods
        BY <1>8 DEF Inv, JobOK, JobIn, IsJob
    <2>2. Forgets(job'.mods) /\ job'.at \in Working
        BY <2>1 DEF RevisionOK, OneExecutor, Working
    <2> QED
        BY <1>1, <1>2, <1>3, <2>1, <2>2, RevisionGoing
<1> QED
    BY <1>4, <1>5, <1>6, <1>7, <1>8

LEMMA RevisionCreated ==
    ASSUME Inv, RevisionOK, CreateContent \/ FindExisting \/ CompareExisting \/ FillContent
                            \/ GetCreated
    PROVE  RevisionOK'
<1>1. UNCHANGED table
    BY DEF CreateContent, FindExisting, CompareExisting, FillContent, GetCreated, GetContent, Sys
<1>2. \E from \in Working : At("CreatedOnRemote", from)
    BY DEF CreateContent, FindExisting, CompareExisting, FillContent, GetCreated, GetContent,
           Working
<1>3. job.at \in Working
    BY <1>2 DEF At
<1>4. \/ \E error : Fail(error)
      \/ Timeout
      \/ \E point \in Working : Goto(point)
      \/ \E point \in Working : \E id : job' = [job EXCEPT !.id = id, !.at = point]
      \/ \E got : job' = [job EXCEPT !.at = "stat", !.got = got]
    <2>1. CASE CreateContent
        BY <2>1 DEF CreateContent, Broken, Working
    <2>2. CASE FindExisting
        BY <2>2 DEF FindExisting, Broken, Working
    <2>3. CASE CompareExisting
        BY <2>3 DEF CompareExisting, Broken, Working
    <2>4. CASE FillContent
        BY <2>4 DEF FillContent, Broken, Working
    <2>5. CASE GetCreated
        BY <2>5 DEF GetCreated, GetContent, Fetch, Broken
    <2> QED
        BY <2>1, <2>2, <2>3, <2>4, <2>5
<1>5. CASE \E error : Fail(error)
    BY <1>5, RevisionFailing
<1>6. CASE Timeout
    BY <1>3, <1>6, RevisionTimingOut
<1>7. ASSUME \/ \E point \in Working : Goto(point)
             \/ \E point \in Working : \E id : job' = [job EXCEPT !.id = id, !.at = point]
             \/ \E got : job' = [job EXCEPT !.at = "stat", !.got = got]
      PROVE  RevisionOK'
    <2>1. /\ job'.todo = job.todo /\ job'.changes = job.changes /\ job'.mods = job.mods
          /\ job'.at \in Working
        <3>1. IsJob(job) /\ "stat" \in Working
            BY DEF Inv, JobOK, JobIn, Working
        <3>2. CASE \E point \in Working : Goto(point)
            BY <3>1, <3>2 DEF Goto, IsJob
        <3>3. CASE \E point \in Working : \E id : job' = [job EXCEPT !.id = id, !.at = point]
            BY <3>1, <3>3 DEF IsJob
        <3>4. CASE \E got : job' = [job EXCEPT !.at = "stat", !.got = got]
            BY <3>1, <3>4 DEF IsJob
        <3> QED
            BY <1>7, <3>2, <3>3, <3>4
    <2>2. Forgets(job'.mods)
        BY <2>1 DEF RevisionOK, OneExecutor
    <2> QED
        BY <1>1, <1>2, <2>1, <2>2, RevisionGoing
<1> QED
    BY <1>4, <1>5, <1>6, <1>7

LEMMA RevisionAdopted ==
    ASSUME Inv, RevisionOK, StatContent
    PROVE  RevisionOK'
<1> DEFINE path == Now.path
           c == AddChange(job.id, path, job.got.rev, job.got.parent, Stamp(path))
<1>1. At("CreatedOnRemote", "stat") /\ Stat(path, <<c>>)
    BY DEF StatContent
<1>2. job.id \in Ids /\ job.got \in Content /\ path \in Path
    BY <1>1, NowType DEF Inv, Holds, HoldsUpload, Fetched, UsersOK, SidesOK, ContentsOK
<1>3. job.got.rev \in Nat /\ job.got.parent \in ParentIds
    BY <1>2 DEF Content, ParentIds
<1>4. Exists(path) => Stamp(path) \in Nat
    BY StampType
<1>5. (Exists(path) => c \in Changes) /\ c.change # "Update"
    BY <1>2, <1>3, <1>4 DEF AddChange, AddChanges, Changes
<1> HIDE DEF c, path
<1> QED
    BY <1>1, <1>5, ForwardOne, RevisionStatting

LEMMA RevisionModified ==
    ASSUME Inv, RevisionOK, UploadModified \/ GetModified \/ StatModified
    PROVE  RevisionOK'
<1>1. CASE UploadModified
    <2>1. /\ UNCHANGED table /\ At("ModifiedOnRemote", "start")
          /\ \/ \E error : Fail(error)
             \/ \E id : job' = [job EXCEPT !.id = id, !.at = "get"]
        BY <1>1 DEF UploadModified, Sys
    <2>2. ASSUME NEW id, job' = [job EXCEPT !.id = id, !.at = "get"]
          PROVE  /\ job'.at = "get" /\ job'.todo = job.todo /\ job'.changes = job.changes
                 /\ Forgets(job'.mods) /\ job'.at \in Working
        BY <2>2 DEF Inv, JobOK, JobIn, IsJob, RevisionOK, OneExecutor, Working
    <2> QED
        BY <2>1, <2>2, RevisionFailing, RevisionGoing DEF Working
<1>2. CASE GetModified
    <2>1. /\ UNCHANGED table /\ At("ModifiedOnRemote", "get")
          /\ \/ \E error : Fail(error)
             \/ job' = [job EXCEPT !.at = "stat", !.got = remote[job.id]]
        BY <1>2 DEF GetModified, GetContent, Sys, Fetch, Broken
    <2>2. job.id \in DOMAIN remote
        BY <2>1 DEF Inv, Holds, HoldsUpload
    <2>3. ASSUME job' = [job EXCEPT !.at = "stat", !.got = remote[job.id]]
          PROVE  /\ job'.at = "stat" /\ job'.todo = job.todo /\ job'.changes = job.changes
                 /\ job'.id = job.id /\ job'.got = remote[job.id]
                 /\ Forgets(job'.mods) /\ job'.at \in Working
        BY <2>3 DEF Inv, JobOK, JobIn, IsJob, RevisionOK, OneExecutor, Working
    <2> QED
        BY <2>1, <2>2, <2>3, ServerNewer, RevisionFailing, RevisionGoing DEF Working
<1>3. CASE StatModified
    <2> DEFINE path == PathOf(table, job.id)
               c == UpdateChange(job.id, job.got.name, job.got.rev, job.got.parent, Stamp(path))
    <2>1. At("ModifiedOnRemote", "stat") /\ Stat(path, <<c>>)
        BY <1>3 DEF StatModified
    <2>2. job.id \in Ids /\ job.got \in Content
        BY <2>1 DEF Inv, Holds, HoldsUpload, Fetched, UsersOK, SidesOK, ContentsOK
    <2>3. job.got.rev \in Nat /\ job.got.parent \in ParentIds /\ job.got.name \in Names
        BY <2>2 DEF Content, ParentIds
    <2>4. Exists(path) => Stamp(path) \in Nat
        BY StampType
    <2>5. Exists(path) => c \in Changes
        BY <2>2, <2>3, <2>4 DEF UpdateChange, UpdateChanges, Changes
    <2>6. Newer(job.id, job.got.rev)
        BY <2>1 DEF RevisionOK, HoldsNewer
    <2>7. Newer(c.id, c.rev)
        BY <2>6 DEF UpdateChange
    <2> HIDE DEF c, path
    <2> QED
        BY <2>1, <2>5, <2>7, ForwardOne, RevisionStatting
<1> QED
    BY <1>1, <1>2, <1>3

-------------------------------------------------------------------------------
(* Renames. The revision held is that of the row, or one the server issues *)
(* while the row stands.                                                   *)
LEMMA RevisionLabelled ==
    ASSUME Inv, RevisionOK, SetLabel
    PROVE  RevisionOK'
<1> DEFINE id == ContentIdForPath(table, Now.path)
<1>1. UNCHANGED table /\ At("NamedOnRemote", "start")
    BY DEF SetLabel, Sys
<1>2. id # Root => id \in DOMAIN remote /\ table[id].rev \in Nat
    BY ContentIdKnown, RowsKnown DEF Inv, IsTable, Row
<1>3. \/ \E error : Fail(error)
      \/ \E rev \in {table[id].rev, remote[id].rev + 1} :
            id # Root /\ job' = [job EXCEPT !.at = "move", !.id = id, !.got = rev]
    BY DEF SetLabel, Broken, AnsweredRevision, NamedFails
<1> HIDE DEF id
<1>4. CASE \E error : Fail(error)
    BY <1>4, RevisionFailing
<1>5. ASSUME NEW rev \in {table[id].rev, remote[id].rev + 1}, id # Root,
             job' = [job EXCEPT !.at = "move", !.id = id, !.got = rev]
      PROVE  RevisionOK'
    <2>1. /\ job'.at = "move" /\ job'.id = id /\ job'.got = rev /\ job'.todo = job.todo
          /\ job'.changes = job.changes /\ Forgets(job'.mods) /\ job'.at \in Working
        BY <1>5 DEF Inv, JobOK, JobIn, IsJob, RevisionOK, OneExecutor, Working
    <2>2. Newer(id, table[id].rev) /\ Newer(id, remote[id].rev + 1)
        BY <1>2, <1>5, ServerNewer DEF Newer
    <2> QED
        BY <1>1, <2>1, <2>2, <1>5, RevisionGoing DEF Working
<1> QED
    BY <1>3, <1>4, <1>5

LEMMA RevisionParented ==
    ASSUME Inv, RevisionOK, NEW point \in {"move", "again"}, SetParentAt(point)
    PROVE  RevisionOK'
<1>1. UNCHANGED table /\ At("NamedOnRemote", point)
    BY DEF SetParentAt, Sys
<1>2. job.id \in DOMAIN remote /\ Newer(job.id, job.got) /\ point \in Working
    BY <1>1, NameHeld DEF RevisionOK, HoldsNewer, Working
<1>3. job.at \in Working
    BY <1>1, <1>2 DEF At
<1>4. \/ \E error : Fail(error)
      \/ Timeout
      \/ Goto("stat") \/ Goto("replace")
      \/ job' = [job EXCEPT !.at = "stat", !.got = remote[job.id].rev + 1]
    BY DEF SetParentAt, Broken, AnsweredRevision
<1>5. ASSUME Goto("stat") \/ Goto("replace")
      PROVE  /\ job'.at \in Working /\ job'.id = job.id /\ job'.got = job.got
             /\ job'.todo = job.todo /\ job'.changes = job.changes /\ Forgets(job'.mods)
    BY <1>5 DEF Goto, Inv, JobOK, JobIn, IsJob, RevisionOK, OneExecutor, Working
<1>6. ASSUME job' = [job EXCEPT !.at = "stat", !.got = remote[job.id].rev + 1]
      PROVE  /\ job'.at \in Working /\ job'.id = job.id /\ job'.got = remote[job.id].rev + 1
             /\ job'.todo = job.todo /\ job'.changes = job.changes /\ Forgets(job'.mods)
    BY <1>6 DEF Inv, JobOK, JobIn, IsJob, RevisionOK, OneExecutor, Working
<1>7. CASE \E error : Fail(error)
    BY <1>7, RevisionFailing
<1>8. CASE Timeout
    BY <1>3, <1>8, RevisionTimingOut
<1>9. CASE Goto("stat") \/ Goto("replace")
    BY <1>1, <1>2, <1>5, <1>9, RevisionGoing
<1>10. CASE job' = [job EXCEPT !.at = "stat", !.got = remote[job.id].rev + 1]
    BY <1>1, <1>2, <1>6, <1>10, ServerNewer, RevisionGoing
<1> QED
    BY <1>4, <1>7, <1>8, <1>9, <1>10

LEMMA RevisionFound ==
    ASSUME Inv, RevisionOK, FindHomonym
    PROVE  RevisionOK'
<1>1. UNCHANGED table /\ At("NamedOnRemote", "replace")
    BY DEF FindHomonym, Sys
<1>2. Newer(job.id, job.got) /\ job.at \in Working
    BY <1>1 DEF RevisionOK, HoldsNewer, Working, At
<1>3. \/ \E error : Fail(error)
      \/ Timeout
      \/ \E other : job' = [job EXCEPT !.at = "trash", !.mods = <<ForgotChange(other)>>]
    BY DEF FindHomonym, Broken
<1>4. ASSUME NEW other, job' = [job EXCEPT !.at = "trash", !.mods = <<ForgotChange(other)>>]
      PROVE  RevisionOK'
    <2>1. /\ job'.at = "trash" /\ job'.id = job.id /\ job'.got = job.got
          /\ job'.todo = job.todo /\ job'.changes = job.changes
          /\ job'.mods = <<ForgotChange(other)>>
        BY <1>4 DEF Inv, JobOK, JobIn, IsJob
    <2>2. Forgets(<<ForgotChange(other)>>)
        BY DEF Forgets, ForgotChange
    <2> QED
        BY <1>1, <1>2, <2>1, <2>2, RevisionGoing DEF Working
<1> QED
    BY <1>2, <1>3, <1>4, RevisionFailing, RevisionTimingOut

LEMMA RevisionReplaced ==
    ASSUME Inv, RevisionOK, TrashHomonym
    PROVE  RevisionOK'
<1>1. UNCHANGED table /\ At("NamedOnRemote", "trash")
    BY DEF TrashHomonym, Sys
<1>2. Newer(job.id, job.got) /\ job.at \in Working
    BY <1>1 DEF RevisionOK, HoldsNewer, Working, At
<1>3. (\E error : Fail(error)) \/ Timeout \/ Goto("again")
    BY DEF TrashHomonym, Broken
<1>4. ASSUME Goto("again")
      PROVE  /\ job'.at \in Working /\ job'.id = job.id /\ job'.got = job.got
             /\ job'.todo = job.todo /\ job'.changes = job.changes /\ Forgets(job'.mods)
    BY <1>4 DEF Goto, Inv, JobOK, JobIn, IsJob, RevisionOK, OneExecutor, Working
<1> QED
    BY <1>1, <1>2, <1>3, <1>4, RevisionFailing, RevisionTimingOut, RevisionGoing DEF Working

LEMMA RevisionNamed ==
    ASSUME Inv, RevisionOK, StatNamed
    PROVE  RevisionOK'
<1> DEFINE c == UpdateChange(job.id, Last(Now.after), job.got, ParentId(Now.after),
                             Stamp(Now.after))
<1>1. At("NamedOnRemote", "stat") /\ Stat(Now.after, job.mods \o <<c>>)
    BY DEF StatNamed
<1>2. Last(Now.after) \in Names
    BY <1>1, NowType, PathLast
<1>3. Exists(Now.after) => c \in Changes
    BY <1>1, <1>2, NameHeld, ParentIdType, StampType DEF UpdateChange, UpdateChanges, Changes
<1>4. c.id = job.id /\ c.rev = job.got
    BY DEF UpdateChange
<1> HIDE DEF c
<1>5. Newer(c.id, c.rev)
    BY <1>1, <1>4 DEF RevisionOK, HoldsNewer
<1>6. job.mods \in Seq(Changes) /\ Forgets(job.mods)
    <2>1. IssuedChanges(remote) \subseteq Changes
        BY DEF IssuedChanges
    <2> QED
        BY <2>1, SeqMonotonic DEF Inv, JobOK, JobIn, RevisionOK, OneExecutor
<1>7. ASSUME Exists(Now.after)
      PROVE  job.mods \o <<c>> \in Seq(Changes) /\ Forward(job.mods \o <<c>>)
    <2>1. /\ Len(job.mods \o <<c>>) = Len(job.mods) + 1 /\ Len(job.mods) \in Nat
          /\ \A k \in 1..Len(job.mods) : (job.mods \o <<c>>)[k] = job.mods[k]
          /\ (job.mods \o <<c>>)[Len(job.mods) + 1] = c
          /\ job.mods \o <<c>> \in Seq(Changes)
        BY <1>3, <1>6, <1>7
    <2>2. DOMAIN (job.mods \o <<c>>) = 1..(Len(job.mods) + 1)
          /\ DOMAIN job.mods = 1..Len(job.mods)
        BY <1>6, <2>1, LenProperties
    <2> QED
        BY <1>5, <1>6, <2>1, <2>2 DEF Forward, Forgets
<1> QED
    BY <1>1, <1>7, RevisionStatting

LEMMA RevisionUpload ==
    ASSUME Inv, RevisionOK, UploadStep
    PROVE  RevisionOK' /\ UNCHANGED table
<1>1. UNCHANGED table
    BY DEF UploadStep, FetchAbsent, TrashAbsent, CreateContent, FindExisting, CompareExisting,
           FillContent, GetCreated, GetModified, GetContent, StatContent, UploadModified,
           StatModified, SetLabel, SetParent, SetParentAgain, SetParentAt, FindHomonym,
           TrashHomonym,
           StatNamed, Sys, Stat
<1> QED
    BY <1>1, RevisionAbsent, RevisionCreated, RevisionAdopted, RevisionModified,
       RevisionLabelled, RevisionParented, RevisionFound, RevisionReplaced, RevisionNamed
    DEF UploadStep, SetParent, SetParentAgain

-------------------------------------------------------------------------------
(* The steps of an executor notify plain events only. *)
LEMMA PlainMade ==
    ASSUME Inv, NotifiedPlain, DownloadStep
    PROVE  NotifiedPlain'
<1>1. TreeOK(disk)
    BY DEF Inv, UsersOK, SidesOK
<1>2. CASE UNCHANGED notified
    BY <1>2 DEF NotifiedPlain
<1>3. CASE \E path \in Path : Notify(Own(WriteEvents(path)))
    BY <1>3, PlainWritten
<1>4. CASE AbsentFromDisk
    <2>1. \/ UNCHANGED notified
          \/ \E path : \E order \in Removals(path) : Notify(Own(RemoveEvents(order)))
        BY <1>4 DEF AbsentFromDisk
    <2>2. ASSUME NEW path, NEW order \in Removals(path), Notify(Own(RemoveEvents(order)))
          PROVE  NotifiedPlain'
        BY <1>1, <2>2, PlainRemoval, PlainNotified
    <2> QED
        BY <1>2, <2>1, <2>2
<1>5. ASSUME NEW executor \in {"PresentOnDisk", "UpdatedOnDisk"},
             NEW point \in {"write", "move", "fill"}, At(executor, point)
      PROVE  RemotePath(job.got) \in Path
    BY <1>5, RemotePathType DEF Inv, Holds, HoldsDownload, Fetched
<1>6. CASE WriteCreated
    <2> DEFINE path == RemotePath(job.got)
    <2>1. path \in Path
        BY <1>5, <1>6 DEF WriteCreated
    <2> HIDE DEF path
    <2>2. WriteFolder(path) \/ WriteFile(path)
        BY <1>6 DEF WriteCreated, path
    <2>3. CASE WriteFile(path)
        BY <1>2, <1>3, <2>1, <2>3 DEF WriteFile
    <2>4. CASE WriteFolder(path)
        <3> DEFINE missing == {p \in Ancestors(path) \cup {path} : ~Exists(p)}
        <3>1. missing \in SUBSET Path /\ IsFiniteSet(missing)
            BY <2>1, MissingType
        <3> HIDE DEF missing
        <3>2. \/ UNCHANGED notified
              \/ \E created \in SetToSeqs(missing) :
                    Notify(Own([k \in DOMAIN created |-> LocalEvent("Created", created[k])]))
            BY <2>4 DEF WriteFolder, missing
        <3>3. ASSUME NEW created \in SetToSeqs(missing),
                     Notify(Own([k \in DOMAIN created |-> LocalEvent("Created", created[k])]))
              PROVE  NotifiedPlain'
            BY <3>1, <3>3, PlainEach, PlainNotified
        <3> QED
            BY <1>2, <3>2, <3>3
    <2> QED
        BY <2>2, <2>3, <2>4
<1>7. CASE FillCreated
    BY <1>2, <1>3, <1>5, <1>7 DEF FillCreated, Download, Overwrite
<1>8. CASE FillUpdated
    BY <1>2, <1>3, <1>5, <1>8 DEF FillUpdated, Download, Overwrite
<1>9. CASE MoveUpdated
    <2> DEFINE from == PathOf(table, Now.id)
               to   == RemotePath(job.got)
    <2>1. to \in Path
        BY <1>5, <1>9 DEF MoveUpdated
    <2>2. UNCHANGED notified \/ (CanRename(from, to) /\ Notify(Own(RenameEvents(from, to))))
        BY <1>9 DEF MoveUpdated, MoveRefused
    <2>3. CanRename(from, to) => from \in Path
        BY <1>1 DEF CanRename, Exists, TreeOK
    <2> HIDE DEF from, to
    <2>4. ASSUME from \in Path, Notify(Own(RenameEvents(from, to)))
          PROVE  NotifiedPlain'
        BY <2>1, <2>4, PlainRename, PlainNotified
    <2> QED
        BY <1>2, <2>2, <2>3, <2>4
<1>10. CASE FetchCreated \/ StatCreated \/ FetchUpdated \/ StatUpdated
    BY <1>2, <1>10 DEF FetchCreated, StatCreated, FetchUpdated, StatUpdated, Stat, Sys, world
<1> QED
    BY <1>4, <1>6, <1>7, <1>8, <1>9, <1>10 DEF DownloadStep

LEMMA PlainUploads ==
    ASSUME NotifiedPlain, UploadStep
    PROVE  NotifiedPlain'
<1>1. UNCHANGED notified
    BY DEF UploadStep, FetchAbsent, TrashAbsent, CreateContent, FindExisting, CompareExisting,
           FillContent, GetCreated, GetModified, GetContent, StatContent, UploadModified,
           StatModified, SetLabel, SetParent, SetParentAgain, SetParentAt, FindHomonym,
           TrashHomonym,
           StatNamed, Sys, Stat, world
<1> QED
    BY <1>1 DEF NotifiedPlain

-------------------------------------------------------------------------------
(* An event makes one executor. *)
LEMMA OneForEach ==
    ASSUME NEW ids, NEW event \in RemoteEvents(ids) \cup PlainEvents
    PROVE  Len(Executors(event)) = 1
<1>1. CASE event \in RemoteEvents(ids)
    BY <1>1 DEF RemoteEvents, Executors
<1>2. CASE event \in PlainEvents
    <2>1. /\ event.src = "local" /\ event.kind \in {"Created", "Modified", "Deleted", "Renamed"}
          /\ event.kind = "Modified" => event.stored = event.path
        BY <1>2 DEF PlainEvents, LocalEvents, Plain
    <2>2. CASE event.kind = "Modified"
        <3>1. Executors(event) = <<OnPath("ModifiedOnRemote", event.stored)>> \o <<>>
            BY <2>1, <2>2 DEF Executors, UploadExecutors
        <3> QED
            BY <3>1
    <2>3. CASE event.kind # "Modified"
        BY <2>1, <2>3 DEF Executors, UploadExecutors
    <2> QED
        BY <2>2, <2>3
<1> QED
    BY <1>1, <1>2

LEMMA RevisionReceiving ==
    ASSUME Inv, RevisionOK, NEW event \in RemoteEvents(DOMAIN remote) \cup PlainEvents,
           NEW own, Receive(event, own)
    PROVE  RevisionOK' /\ UNCHANGED table
<1>1. UNCHANGED table
    BY DEF Receive
<1>2. \/ UNCHANGED job
      \/ \E error : Fail(error)
      \/ job' = [Idle EXCEPT !.at = "start", !.from = event.src, !.todo = Executors(event)]
    BY DEF Receive
<1>3. CASE UNCHANGED job
    BY <1>1, <1>3 DEF RevisionOK, OneExecutor, HoldsNewer, Forward, Newer, Forgets, At, Now
<1>4. CASE \E error : Fail(error)
    BY <1>1, <1>4, RevisionFailing
<1>5. CASE job' = [Idle EXCEPT !.at = "start", !.from = event.src, !.todo = Executors(event)]
    <2>1. /\ job'.at = "start" /\ job'.todo = Executors(event) /\ job'.changes = <<>>
          /\ job'.mods = <<>>
        BY <1>5 DEF Idle
    <2>2. Forgets(<<>>)
        BY DEF Forgets
    <2> QED
        BY <1>1, <2>1, <2>2, OneForEach DEF RevisionOK, OneExecutor, HoldsNewer, At
<1> QED
    BY <1>1, <1>2, <1>3, <1>4, <1>5

LEMMA RevisionReceive ==
    ASSUME Inv, RevisionOK, NotifiedPlain, ReceiveRemote \/ ReceiveLocal
    PROVE  RevisionOK' /\ NotifiedPlain' /\ UNCHANGED table
<1>1. CASE ReceiveRemote
    <2>1. Head(tlm).event \in RemoteEvents(DOMAIN remote)
        BY <1>1, Dequeued DEF ReceiveRemote, Inv, UsersOK, SidesOK, TlmOK
    <2>2. NotifiedPlain'
        BY <1>1 DEF ReceiveRemote, NotifiedPlain
    <2> QED
        BY <1>1, <2>1, <2>2, RevisionReceiving DEF ReceiveRemote
<1>2. CASE ReceiveLocal
    <2>1. Head(notified).event \in PlainEvents /\ Tail(notified) \in Seq(Message(PlainEvents))
        BY <1>2, Dequeued DEF ReceiveLocal, NotifiedPlain
    <2> QED
        BY <1>2, <2>1, RevisionReceiving DEF ReceiveLocal, NotifiedPlain
<1> QED
    BY <1>1, <1>2

(* No revision is taken back. *)
Kept == \A id \in DOMAIN table \cap DOMAIN table' : table[id].rev <= table'[id].rev

LEMMA KeptAlike ==
    ASSUME Inv, UNCHANGED table
    PROVE  Kept
<1>1. \A id \in DOMAIN table : table[id].rev \in Nat
    BY DEF Inv, IsTable, Row
<1> QED
    BY <1>1 DEF Kept

LEMMA RevisionApply ==
    ASSUME Inv, RevisionOK, ApplyChange
    PROVE  RevisionOK' /\ Kept
<1>1. job.at = "apply"
    BY DEF ApplyChange
<1>2. CASE job' = Idle /\ UNCHANGED table
    <2>1. job'.at = "idle" /\ job'.mods = <<>> /\ Forgets(<<>>)
        BY <1>2 DEF Idle, Forgets
    <2> QED
        BY <1>2, <2>1, KeptAlike DEF RevisionOK, OneExecutor, HoldsNewer, Working, At
<1>3. CASE Fail("State") /\ UNCHANGED table
    BY <1>3, RevisionFailing, KeptAlike
<1>4. CASE /\ job.changes # <<>> /\ Accepted(table, Head(job.changes))
           /\ table' = Changed(table, Head(job.changes))
           /\ job' = [job EXCEPT !.changes = Tail(@)]
    <2> PICK c, rest : c = Head(job.changes) /\ rest = Tail(job.changes)
        OBVIOUS
    <2>1. job'.at = "apply" /\ job'.mods = job.mods /\ job'.changes = rest
        BY <1>1, <1>4 DEF Inv, JobOK, JobIn, IsJob
    <2>2. job.changes \in Seq(Changes) /\ job.changes # <<>>
        <3>1. IssuedChanges(remote) \subseteq Changes
            BY DEF IssuedChanges
        <3> QED
            BY <1>4, <3>1, SeqMonotonic DEF Inv, JobOK, JobIn
    <2>3. /\ Len(job.changes) \in Nat \ {0} /\ c = job.changes[1] /\ c \in Changes
          /\ Len(rest) = Len(job.changes) - 1
          /\ \A k \in 1..Len(rest) : rest[k] = job.changes[k + 1]
          /\ DOMAIN rest = 1..Len(rest) /\ DOMAIN job.changes = 1..Len(job.changes)
        BY <2>2, HeadTailProperties, LenProperties
    <2>4. Forward(job.changes)
        BY <1>1 DEF RevisionOK, OneExecutor
    <2>5. /\ c.change # "Forgot" => Len(rest) = 0
          /\ c.change = "Update" => Newer(c.id, c.rev)
        <3>1. 1 \in DOMAIN job.changes
            BY <2>3
        <3>2. /\ c.change # "Forgot" => 1 = Len(job.changes)
              /\ c.change = "Update" => Newer(c.id, c.rev)
            BY <2>3, <2>4, <3>1 DEF Forward
        <3> QED
            BY <2>3, <3>2
    <2>6. Forward(rest)
        <3> SUFFICES ASSUME NEW k \in DOMAIN rest
                     PROVE  /\ rest[k].change # "Forgot" => k = Len(rest)
                            /\ rest[k].change = "Update" => Newer(rest[k].id, rest[k].rev)
            BY DEF Forward
        <3>1. /\ k \in Nat /\ k + 1 \in DOMAIN job.changes /\ rest[k] = job.changes[k + 1]
            BY <2>3
        <3>2. /\ rest[k].change # "Forgot" => k + 1 = Len(job.changes)
              /\ rest[k].change = "Update" => Newer(rest[k].id, rest[k].rev)
            BY <2>4, <3>1 DEF Forward
        <3> QED
            BY <2>3, <3>1, <3>2
    <2>7. DOMAIN rest = 1..Len(rest) /\ (Len(rest) = 0 => DOMAIN rest = {})
        BY <2>3
    <2>8. table' = Changed(table, c) /\ Accepted(table, c)
        BY <1>4
    <2>9. \A id \in DOMAIN table : table[id].rev \in Nat
        BY DEF Inv, IsTable, Row
    <2>10. CASE c.change = "Forgot"
        <3>1. /\ DOMAIN table' \subseteq DOMAIN table
              /\ \A id \in DOMAIN table' : table'[id] = table[id]
            BY <2>8, <2>10 DEF Changed, ForgotWithChildren
        <3>2. Kept
            BY <2>9, <3>1 DEF Kept
        <3>3. Forward(rest)'
            BY <2>6, <3>1 DEF Forward, Newer
        <3> QED
            BY <2>1, <3>2, <3>3
            DEF RevisionOK, OneExecutor, HoldsNewer, Working, At, Forward, Newer, Forgets
    <2>11. CASE c.change = "Update"
        <3>1. DOMAIN rest = {}
            BY <2>5, <2>7, <2>11
        <3>2. /\ DOMAIN table' = DOMAIN table
              /\ \A id \in DOMAIN table : table'[id].rev = IF id = c.id THEN c.rev
                                                          ELSE table[id].rev
            BY <2>8, <2>11 DEF Changed, Updated
        <3>3. Kept
            BY <2>5, <2>9, <2>11, <3>2 DEF Kept, Newer
        <3> QED
            BY <2>1, <3>1, <3>3
            DEF RevisionOK, OneExecutor, HoldsNewer, Working, At, Forward, Forgets
    <2>12. CASE c.change = "Add"
        <3>1. /\ c.id \notin DOMAIN table /\ DOMAIN table' = DOMAIN table \cup {c.id}
              /\ \A id \in DOMAIN table : table'[id] = table[id]
            BY <2>8, <2>12 DEF Accepted, AddAccepted, Changed, Added
        <3>2. Kept
            BY <2>9, <3>1 DEF Kept
        <3>3. DOMAIN rest = {}
            BY <2>5, <2>7, <2>12
        <3> QED
            BY <2>1, <3>2, <3>3
            DEF RevisionOK, OneExecutor, HoldsNewer, Working, At, Forward, Forgets
    <2> QED
        BY <2>3, <2>10, <2>11, <2>12 DEF Changes, AddChanges, UpdateChanges
<1> QED
    BY <1>2, <1>3, <1>4 DEF ApplyChange

-------------------------------------------------------------------------------
LEMMA RevisionStep ==
    ASSUME Inv, RevisionOK, NotifiedPlain, [Next]_vars
    PROVE  RevisionOK' /\ NotifiedPlain' /\ Kept
<1>1. CASE ReceiveRemote \/ ReceiveLocal
    BY <1>1, RevisionReceive, KeptAlike
<1>2. CASE DownloadStep
    BY <1>2, RevisionDownload, PlainMade, KeptAlike
<1>3. CASE UploadStep
    BY <1>3, RevisionUpload, PlainUploads, KeptAlike
<1>4. CASE ApplyChange
    <2>1. NotifiedPlain'
        BY <1>4 DEF ApplyChange, world, NotifiedPlain
    <2> QED
        BY <1>4, <2>1, RevisionApply
<1>5. CASE UserActs \/ WatchLeft \/ UNCHANGED vars
    <2>1. UNCHANGED <<table, job>>
        BY <1>5 DEF UserActs, WatchLeft, vars, store
    <2>2. RevisionOK'
        BY <2>1 DEF RevisionOK, OneExecutor, HoldsNewer, Forward, Newer, Forgets, At, Now
    <2>3. NotifiedPlain'
        <3>1. CASE UserActs
            BY <3>1, PlainUsers DEF UserActs
        <3>2. CASE WatchLeft \/ UNCHANGED vars
            BY <3>2 DEF WatchLeft, vars, NotifiedPlain
        <3> QED
            BY <1>5, <3>1, <3>2
    <2> QED
        BY <2>1, <2>2, <2>3, KeptAlike
<1> QED
    BY <1>1, <1>2, <1>3, <1>4, <1>5 DEF Next, OperatorStep

(* Whatever users do between two calls and whichever calls fail, a row is  *)
(* never overwritten with an older revision of its content: the next       *)
(* startup would download, or upload, what was already done.               *)
THEOREM RevisionsOnlyGrow == Spec => RevisionsGrow
<1>1. Init => RevisionOK /\ NotifiedPlain
    BY DEF Init, Idle, RevisionOK, OneExecutor, HoldsNewer, Forgets, Working, At, NotifiedPlain
<1>2. Spec => [](Inv /\ RevisionOK /\ NotifiedPlain)
    <2>1. Inv /\ RevisionOK /\ NotifiedPlain /\ [Next]_vars
            => (Inv /\ RevisionOK /\ NotifiedPlain)'
        BY NextInv, RevisionStep
    <2> QED
        BY <1>1, <2>1, InitInv, PTL DEF Spec
<1>3. Inv /\ RevisionOK /\ NotifiedPlain /\ [Next]_vars
        => [\A id \in DOMAIN table \cap DOMAIN table' : table[id].rev <= table'[id].rev]_vars
    BY RevisionStep DEF Kept
<1> QED
    BY <1>2, <1>3, PTL DEF Spec, RevisionsGrow


-------------------------------------------------------------------------------
(***************************************************************************)
(* What a remote event records has a parent the State knows.  The parent   *)
(* is looked up when the content is fetched and the State is changed after *)
(* the download: the proof shows that nothing is forgotten in between, for *)
(* one event is worked on at a time, and that an event of the server makes *)
(* one modification at most.                                               *)
(***************************************************************************)

Downloads == {"AbsentFromDisk", "PresentOnDisk", "UpdatedOnDisk"}

KnownParent(c) == c.change = "Forgot" \/ c.parent \in DOMAIN table \cup {Root}

(* A remote event has one executor, and what it records has a parent.      *)
RemoteJobOK ==
    job.from = "remote" =>
        /\ job.at \in {"start", "write", "move", "fill", "stat", "apply", "failed"}
        /\ job.at \in {"start", "write", "move", "fill", "stat"} =>
               /\ job.changes = <<>> /\ Len(job.todo) = 1
               /\ Head(job.todo).ex \in Downloads
        /\ job.at = "apply" => job.changes = <<>> \/ \E c \in Changes :
                                    job.changes = <<c>> /\ KnownParent(c)

-------------------------------------------------------------------------------
LEMMA ParentFailing ==
    ASSUME Inv, RemoteJobOK, NEW error, Fail(error)
    PROVE  RemoteJobOK'
<1>1. job'.at = "failed" /\ job'.from = job.from
    BY DEF Fail, Inv, JobOK, JobIn, IsJob
<1> QED
    BY <1>1 DEF RemoteJobOK

LEMMA ParentGoing ==
    ASSUME Inv, RemoteJobOK, NEW executor, NEW from, At(executor, from),
           from \in {"start", "write", "move", "fill"},
           job'.at \in {"write", "move", "fill", "stat"},
           job'.from = job.from, job'.todo = job.todo, job'.changes = job.changes
    PROVE  RemoteJobOK'
BY DEF RemoteJobOK, At

LEMMA ParentDone ==
    ASSUME Inv, RemoteJobOK, UNCHANGED table, NEW executor, NEW from, At(executor, from),
           from \in {"start", "stat"}, NEW c \in Changes, KnownParent(c), Done(<<c>>)
    PROVE  RemoteJobOK'
<1>1. /\ job'.at = IF Len(job.todo) = 1 THEN "apply" ELSE "start"
      /\ job'.changes = job.changes \o <<c>> /\ job'.from = job.from
    BY DEF Done, Inv, JobOK, JobIn, IsJob
<1>2. SUFFICES ASSUME job.from = "remote"
               PROVE  job'.at = "apply" /\ job'.changes = <<c>> /\ KnownParent(c)'
    BY <1>1 DEF RemoteJobOK
<1>3. job.changes = <<>> /\ Len(job.todo) = 1
    BY <1>2 DEF RemoteJobOK, At
<1>4. <<>> \o <<c>> = <<c>>
    OBVIOUS
<1> QED
    BY <1>1, <1>3, <1>4 DEF KnownParent

(* The parent found when the content was fetched is still known.           *)
LEMMA ParentHeld ==
    ASSUME Inv, NEW executor \in {"PresentOnDisk", "UpdatedOnDisk"}, At(executor, "stat")
    PROVE  /\ Now.id \in Ids /\ Now.id \in DOMAIN remote
           /\ job.got \in Content /\ job.got.name \in Names /\ job.got.rev \in Nat
           /\ job.got.parent \in ParentIds /\ job.got.parent \in DOMAIN table \cup {Root}
           /\ RemotePath(job.got) \in Path
<1>1. Fetched(Now.id) /\ HasRemotePath(job.got.parent)
    BY DEF Inv, Holds, HoldsDownload
<1>2. job.got.parent \in DOMAIN table \cup {Root}
    BY <1>1, HasPathKnown DEF HasRemotePath
<1> QED
    BY <1>1, <1>2, FetchedType, RemotePathType DEF Fetched

LEMMA ParentDownload ==
    ASSUME Inv, RemoteJobOK, DownloadStep
    PROVE  RemoteJobOK' /\ UNCHANGED table
<1>1. UNCHANGED table
    BY DEF DownloadStep, AbsentFromDisk, FetchCreated, WriteCreated, FillCreated, StatCreated,
           FetchUpdated, MoveUpdated, FillUpdated, StatUpdated, Sys, Stat
<1>2. CASE AbsentFromDisk
    <2>1. At("AbsentFromDisk", "start") /\ Now.id \in Ids
        BY <1>2, NowType DEF AbsentFromDisk, Inv, UsersOK, SidesOK, ContentsOK
    <2>2. ForgotChange(Now.id) \in Changes /\ KnownParent(ForgotChange(Now.id))
        BY <2>1 DEF ForgotChange, Changes, KnownParent
    <2>3. Fail("Unexpected") \/ Done(<<ForgotChange(Now.id)>>)
        BY <1>2 DEF AbsentFromDisk
    <2> QED
        BY <1>1, <2>1, <2>2, <2>3, ParentFailing, ParentDone
<1>3. CASE FetchCreated \/ FetchUpdated
    <2>1. \/ \E error : Fail(error)
          \/ /\ \E executor : At(executor, "start")
             /\ \E point \in {"write", "move"} :
                   job' = [job EXCEPT !.at = point, !.got = remote[Now.id]]
        BY <1>3 DEF FetchCreated, FetchUpdated, Fetch, Broken
    <2>2. ASSUME NEW point, job' = [job EXCEPT !.at = point, !.got = remote[Now.id]]
          PROVE  /\ job'.at = point /\ job'.from = job.from
                 /\ job'.todo = job.todo /\ job'.changes = job.changes
        BY <2>2 DEF Inv, JobOK, JobIn, IsJob
    <2> QED
        BY <1>1, <2>1, <2>2, ParentFailing, ParentGoing
<1>4. CASE WriteCreated \/ FillCreated \/ MoveUpdated \/ FillUpdated
    <2>1. \/ \E error : Fail(error)
          \/ /\ \E executor, from : At(executor, from) /\ from \in {"write", "move", "fill"}
             /\ \E point \in {"fill", "stat"} : Goto(point)
        <3>1. CASE WriteCreated
            BY <3>1 DEF WriteCreated, WriteFolder, WriteFile
        <3>2. CASE FillCreated
            BY <3>2 DEF FillCreated, Download, Broken
        <3>3. CASE MoveUpdated
            BY <3>3 DEF MoveUpdated, MoveRefused
        <3>4. CASE FillUpdated
            BY <3>4 DEF FillUpdated, Download, Broken
        <3> QED
            BY <1>4, <3>1, <3>2, <3>3, <3>4
    <2>2. ASSUME NEW point, Goto(point)
          PROVE  /\ job'.at = point /\ job'.from = job.from
                 /\ job'.todo = job.todo /\ job'.changes = job.changes
        BY <2>2 DEF Goto, Inv, JobOK, JobIn, IsJob
    <2> QED
        BY <1>1, <2>1, <2>2, ParentFailing, ParentGoing
<1>5. CASE StatCreated
    <2> DEFINE path == RemotePath(job.got)
               c == AddChange(Now.id, path, job.got.rev, job.got.parent, Stamp(path))
    <2>1. At("PresentOnDisk", "stat") /\ Stat(path, <<c>>)
        BY <1>5 DEF StatCreated
    <2>2. Exists(path) => Stamp(path) \in Nat
        BY StampType
    <2>3. Exists(path) => c \in Changes
        BY <2>1, <2>2, ParentHeld DEF AddChange, AddChanges, Changes
    <2>4. KnownParent(c)
        BY <2>1, ParentHeld DEF AddChange, KnownParent
    <2> HIDE DEF c, path
    <2> QED
        BY <1>1, <2>1, <2>3, <2>4, ParentFailing, ParentDone DEF Stat
<1>6. CASE StatUpdated
    <2> DEFINE path == RemotePath(job.got)
               c == UpdateChange(Now.id, job.got.name, job.got.rev, job.got.parent, Stamp(path))
    <2>1. At("UpdatedOnDisk", "stat") /\ Stat(path, <<c>>)
        BY <1>6 DEF StatUpdated
    <2>2. Exists(path) => Stamp(path) \in Nat
        BY StampType
    <2>3. Exists(path) => c \in Changes
        BY <2>1, <2>2, ParentHeld DEF UpdateChange, UpdateChanges, Changes
    <2>4. KnownParent(c)
        BY <2>1, ParentHeld DEF UpdateChange, KnownParent
    <2> HIDE DEF c, path
    <2> QED
        BY <1>1, <2>1, <2>3, <2>4, ParentFailing, ParentDone DEF Stat
<1> QED
    BY <1>1, <1>2, <1>3, <1>4, <1>5, <1>6 DEF DownloadStep

(* An executor of an upload never works on a remote event.                 *)
LEMMA ParentUpload ==
    ASSUME Inv, RemoteJobOK, UploadStep
    PROVE  RemoteJobOK' /\ UNCHANGED table /\ job.from # "remote" /\ job'.from = job.from
<1>1. UNCHANGED table
    BY DEF UploadStep, FetchAbsent, TrashAbsent, CreateContent, FindExisting, CompareExisting,
           FillContent, GetCreated, GetModified, GetContent, StatContent, UploadModified,
           StatModified, SetLabel, SetParent, SetParentAgain, SetParentAt, FindHomonym,
           TrashHomonym,
           StatNamed, Sys, Stat
<1>2. \A executor, point : At(executor, point) /\ executor \notin Downloads
                           /\ point \notin {"apply", "failed"} => job.from # "remote"
    BY DEF RemoteJobOK, At
<1>3. job.from # "remote"
    <2> DEFINE Uploads == {"AbsentFromRemote", "CreatedOnRemote", "ModifiedOnRemote",
                           "NamedOnRemote"}
    <2>1. \E executor \in Uploads, point \in Points \ {"apply", "failed"} : At(executor, point)
        BY DEF UploadStep, FetchAbsent, TrashAbsent, CreateContent, FindExisting,
               CompareExisting, FillContent, GetCreated, GetModified, GetContent, StatContent,
               UploadModified, StatModified, SetLabel, SetParent, SetParentAgain, SetParentAt,
               FindHomonym, TrashHomonym, StatNamed, Points
    <2> QED
        BY <1>2, <2>1 DEF Downloads
<1>4. job'.from = job.from
    <2>1. IsJob(job)
        BY DEF Inv, JobOK, JobIn
    <2>2. "from" \in DOMAIN job
        BY <2>1 DEF IsJob
    <2> USE DEF Fail, Done, Goto, Timeout, Broken
    <2>3. CASE FetchAbsent \/ TrashAbsent
        BY <2>2, <2>3 DEF FetchAbsent, TrashAbsent
    <2>4. CASE CreateContent
        BY <2>2, <2>4 DEF CreateContent
    <2>5. CASE FindExisting \/ CompareExisting \/ FillContent
        BY <2>2, <2>5 DEF FindExisting, CompareExisting, FillContent
    <2>6. CASE GetCreated \/ GetModified
        BY <2>2, <2>6 DEF GetCreated, GetModified, GetContent, Fetch
    <2>7. CASE StatContent \/ StatModified \/ StatNamed
        BY <2>2, <2>7 DEF StatContent, StatModified, StatNamed, Stat
    <2>8. CASE UploadModified
        BY <2>2, <2>8 DEF UploadModified
    <2>9. CASE SetLabel
        BY <2>2, <2>9 DEF SetLabel
    <2>10. CASE SetParent \/ SetParentAgain
        BY <2>2, <2>10 DEF SetParent, SetParentAgain, SetParentAt
    <2>11. CASE FindHomonym \/ TrashHomonym
        BY <2>2, <2>11 DEF FindHomonym, TrashHomonym
    <2> QED
        BY <2>3, <2>4, <2>5, <2>6, <2>7, <2>8, <2>9, <2>10, <2>11 DEF UploadStep
<1> QED
    BY <1>1, <1>3, <1>4 DEF RemoteJobOK

-------------------------------------------------------------------------------
LEMMA ParentReceiving ==
    ASSUME Inv, RemoteJobOK, NEW event, NEW own, Receive(event, own)
    PROVE  RemoteJobOK' /\ UNCHANGED table
<1>1. UNCHANGED table
    BY DEF Receive
<1>2. \/ UNCHANGED job
      \/ \E error : Fail(error)
      \/ job' = [Idle EXCEPT !.at = "start", !.from = event.src, !.todo = Executors(event)]
    BY DEF Receive
<1>3. CASE UNCHANGED job
    BY <1>1, <1>3 DEF RemoteJobOK, KnownParent
<1>4. CASE \E error : Fail(error)
    BY <1>1, <1>4, ParentFailing
<1>5. CASE job' = [Idle EXCEPT !.at = "start", !.from = event.src, !.todo = Executors(event)]
    <2>1. /\ job'.at = "start" /\ job'.from = event.src /\ job'.todo = Executors(event)
          /\ job'.changes = <<>>
        BY <1>5 DEF Idle
    <2>2. event.src = "remote" => Executors(event) = <<DownloadExecutor(event)>>
        BY DEF Executors
    <2>3. DownloadExecutor(event).ex \in Downloads
        BY DEF DownloadExecutor, OnId, Downloads
    <2> QED
        BY <1>1, <2>1, <2>2, <2>3 DEF RemoteJobOK
<1> QED
    BY <1>1, <1>2, <1>3, <1>4, <1>5

(* The one modification of a remote event is applied: its parent is known, *)
(* and what is forgotten goes with all that is below it.                   *)
LEMMA ParentApply ==
    ASSUME Inv, RemoteJobOK, ApplyChange
    PROVE  /\ RemoteJobOK'
           /\ job.from = "remote" /\ ParentsKnown(table) => ParentsKnown(table')
<1>1. job.at = "apply"
    BY DEF ApplyChange
<1>2. CASE job' = Idle /\ UNCHANGED table
    BY <1>2 DEF Idle, RemoteJobOK
<1>3. CASE Fail("State") /\ UNCHANGED table
    BY <1>3, ParentFailing
<1>4. CASE /\ job.changes # <<>> /\ table' = Changed(table, Head(job.changes))
           /\ job' = [job EXCEPT !.changes = Tail(@)]
    <2>1. job'.from = job.from /\ job'.at = job.at /\ job'.changes = Tail(job.changes)
        BY <1>4 DEF Inv, JobOK, JobIn, IsJob
    <2>2. CASE job.from # "remote"
        BY <2>1, <2>2 DEF RemoteJobOK
    <2>3. CASE job.from = "remote"
        <3>1. PICK c \in Changes : job.changes = <<c>> /\ KnownParent(c)
            BY <1>1, <1>4, <2>3 DEF RemoteJobOK
        <3>2. Head(job.changes) = c /\ Tail(job.changes) = <<>>
            BY <3>1
        <3>3. RemoteJobOK'
            BY <1>1, <2>1, <3>2 DEF RemoteJobOK
        <3>4. ParentsKnown(table) => ParentsKnown(table')
            BY <1>4, <3>1, <3>2, ChangedKeepsParents DEF KnownParent
        <3> QED
            BY <3>3, <3>4
    <2> QED
        BY <2>2, <2>3
<1> QED
    BY <1>2, <1>3, <1>4 DEF ApplyChange

LEMMA ParentStep ==
    ASSUME Inv, RemoteJobOK, [Next]_vars
    PROVE  /\ RemoteJobOK'
           /\ job.from = "remote" /\ ParentsKnown(table) => ParentsKnown(table')
<1>1. CASE ReceiveRemote \/ ReceiveLocal
    BY <1>1, ParentReceiving DEF ReceiveRemote, ReceiveLocal
<1>2. CASE DownloadStep
    BY <1>2, ParentDownload
<1>3. CASE UploadStep
    BY <1>3, ParentUpload
<1>4. CASE ApplyChange
    BY <1>4, ParentApply
<1>5. CASE UserActs \/ WatchLeft \/ UNCHANGED vars
    BY <1>5 DEF UserActs, WatchLeft, vars, store, RemoteJobOK, KnownParent
<1> QED
    BY <1>1, <1>2, <1>3, <1>4, <1>5 DEF Next, OperatorStep

(* PresentOnDisk and UpdatedOnDisk never leave a row whose parent_id is    *)
(* unknown, and AbsentFromDisk forgets no row that others still name as    *)
(* their parent: after a remote event, `path` meets no missing row that it *)
(* did not meet before.                                                    *)
THEOREM ParentsStayKnown == Spec => DownloadsKeepParents
<1>1. Init => RemoteJobOK
    BY DEF Init, Idle, RemoteJobOK
<1>2. Spec => [](Inv /\ RemoteJobOK)
    <2>1. Inv /\ RemoteJobOK /\ [Next]_vars => (Inv /\ RemoteJobOK)'
        BY NextInv, ParentStep
    <2> QED
        BY <1>1, <2>1, InitInv, PTL DEF Spec
<1>3. Inv /\ RemoteJobOK /\ [Next]_vars
        => [job.from = "remote" /\ ParentsKnown(table) => ParentsKnown(table')]_vars
    BY ParentStep
<1> QED
    BY <1>2, <1>3, PTL DEF Spec, DownloadsKeepParents

-------------------------------------------------------------------------------
(***************************************************************************)
(* What a remote event records makes no loop of the parent_id column.  The *)
(* place of a content is settled by the move on disk, which is refused     *)
(* below the content itself; until it is recorded, users may move things   *)
(* on disk again but the table, and so what is above a content in it, is   *)
(* as it was.                                                              *)
(***************************************************************************)

(* The operator as well leaves nothing below what is not a folder.         *)
LEMMA RootedDownload ==
    ASSUME Inv, Rooted(disk), DownloadStep
    PROVE  Rooted(disk')
<1>1. TreeOK(disk)
    BY DEF Inv, UsersOK, SidesOK
<1>2. CASE AbsentFromDisk
    <2>1. \/ UNCHANGED disk
          \/ HasPath(table, Now.id) /\ disk' = Without(Under(PathOf(table, Now.id)))
        BY <1>2 DEF AbsentFromDisk
    <2>2. HasPath(table, Now.id) => PathOf(table, Now.id) \in Path
        BY PathOfType DEF Inv
    <2> QED
        BY <1>1, <2>1, <2>2, RootedWithout
<1>3. ASSUME NEW executor \in {"PresentOnDisk", "UpdatedOnDisk"},
             NEW point \in {"write", "move", "fill", "stat"}, At(executor, point)
      PROVE  RemotePath(job.got) \in Path
    <2>1. Fetched(Now.id) /\ HasRemotePath(job.got.parent)
        BY <1>3 DEF Inv, Holds, HoldsDownload
    <2> QED
        BY <2>1, RemotePathType DEF Fetched
<1>4. ASSUME NEW path \in Path, NEW id, NEW echo, Download(id, path, echo)
      PROVE  Rooted(disk')
    <2>1. \/ UNCHANGED disk
          \/ ~IsDir(path) /\ ParentIsDir(path) /\ \E bytes : disk' = With(path, File(bytes))
        BY <1>4 DEF Download, Overwrite
    <2> QED
        BY <1>1, <2>1, RootedWritten
<1>5. CASE WriteCreated
    <2> DEFINE path == RemotePath(job.got)
    <2>1. path \in Path
        BY <1>3, <1>5 DEF WriteCreated
    <2>2. WriteFolder(path) \/ WriteFile(path)
        BY <1>5 DEF WriteCreated
    <2> HIDE DEF path
    <2>3. CASE WriteFile(path)
        <3>1. \/ UNCHANGED disk
              \/ ~IsDir(path) /\ ParentIsDir(path) /\ disk' = With(path, File(NoBytes))
            BY <2>3 DEF WriteFile
        <3> QED
            BY <1>1, <2>1, <3>1, RootedWritten
    <2>4. CASE WriteFolder(path)
        <3> DEFINE missing == {p \in Ancestors(path) \cup {path} : ~Exists(p)}
        <3>1. \/ UNCHANGED disk
              \/ /\ Exists(path) \/ \A p \in Ancestors(path) : ~IsFile(p)
                 /\ disk' = [p \in DOMAIN disk \cup missing |->
                                IF p \in missing THEN Folder ELSE disk[p]]
            BY <2>4 DEF WriteFolder
        <3> QED
            BY <1>1, <2>1, <3>1, RootedFolders
    <2> QED
        BY <2>2, <2>3, <2>4
<1>6. CASE FillCreated
    BY <1>3, <1>4, <1>6 DEF FillCreated
<1>7. CASE FillUpdated
    BY <1>3, <1>4, <1>7 DEF FillUpdated
<1>8. CASE MoveUpdated
    <2> DEFINE from == PathOf(table, Now.id)
               to   == RemotePath(job.got)
    <2>1. \/ UNCHANGED disk
          \/ CanRename(from, to) /\ disk' = Renamed(from, to)
        BY <1>8 DEF MoveUpdated
    <2>2. to \in Path
        BY <1>3, <1>8 DEF MoveUpdated
    <2>3. CanRename(from, to) => from \in Path
        BY <1>1 DEF CanRename, Exists, TreeOK
    <2> HIDE DEF from, to
    <2> QED
        BY <1>1, <2>1, <2>2, <2>3, RootedRenamed
<1>9. CASE FetchCreated \/ StatCreated \/ FetchUpdated \/ StatUpdated
    BY <1>9 DEF FetchCreated, StatCreated, FetchUpdated, StatUpdated, Stat, Sys, world
<1> QED
    BY <1>2, <1>5, <1>6, <1>7, <1>8, <1>9 DEF DownloadStep

LEMMA RootedStep ==
    ASSUME Inv, Rooted(disk), [Next]_vars
    PROVE  Rooted(disk')
<1>1. CASE UserActs
    BY <1>1, RootedUsers DEF UserActs, Inv, UsersOK, SidesOK
<1>2. CASE DownloadStep
    BY <1>2, RootedDownload
<1>3. CASE UploadStep
    <2>1. UNCHANGED disk
        BY <1>3 DEF UploadStep, FetchAbsent, TrashAbsent, CreateContent, FindExisting,
           CompareExisting, FillContent, GetCreated, GetModified, GetContent, StatContent,
           UploadModified, StatModified, SetLabel, SetParent, SetParentAgain, SetParentAt,
           FindHomonym, TrashHomonym, StatNamed, Sys, Stat, world
    <2> QED
        BY <2>1
<1>4. CASE WatchLeft \/ ReceiveRemote \/ ReceiveLocal \/ ApplyChange \/ UNCHANGED vars
    BY <1>4 DEF WatchLeft, ReceiveRemote, ReceiveLocal, Receive, ApplyChange, world, vars
<1> QED
    BY <1>1, <1>2, <1>3, <1>4 DEF Next, OperatorStep

LEMMA RootedStart == StartEmpty \/ StartNested => Rooted(disk)
<1>1. CASE StartEmpty
    BY <1>1 DEF StartEmpty, Agree, EmptyTable, Rooted
<1>2. CASE StartNested
    <2> DEFINE any == CHOOSE any \in Names : TRUE
    <2>0. any \in Names
        BY OperatorAssumption
    <2>1. PICK name \in Names, entry \in {Folder, File(NoBytes)} :
            disk = [path \in {<<name>>, <<name, name>>} |->
                        IF path = <<name, name>> THEN entry ELSE Folder]
        <3>1. PICK entry \in {Folder, File(NoBytes)} :
                disk = [path \in {<<any>>, <<any, any>>} |->
                            IF path = <<any, any>> THEN entry ELSE Folder]
            BY <1>2, Zenon DEF StartNested, Agree
        <3> HIDE DEF any
        <3> QED
            BY <2>0, <3>1
    <2>2. /\ <<name>> \in Path /\ <<name, name>> \in Path
          /\ Len(<<name>>) = 1 /\ Front(<<name, name>>) = <<name>>
        <3>1. <<name>> \in Seq(Names) /\ <<name, name>> \in Seq(Names)
            OBVIOUS
        <3>2. Len(<<name>>) = 1 /\ Len(<<name, name>>) = 2 /\ Len(<<>>) = 0
            OBVIOUS
        <3>3. Front(<<name, name>>) \in Seq(Names) /\ Len(Front(<<name, name>>)) = 1
              /\ Front(<<name, name>>)[1] = name
            BY <3>1, <3>2 DEF Front
        <3> QED
            BY <3>1, <3>2, <3>3, SeqEqual DEF Path
    <2>3. ASSUME NEW above \in Path, IsPrefix(above, <<name, name>>), above # <<name, name>>
          PROVE  above = <<name>>
        <3>1. IsPrefix(above, <<name>>)
            BY <2>2, <2>3, FrontPrefix
        <3> QED
            BY <2>2, <3>1, FrontPrefix
    <2>4. ASSUME NEW above \in Path, IsPrefix(above, <<name>>)
          PROVE  above = <<name>>
        BY <2>2, <2>4, FrontPrefix
    <2> QED
        BY <2>1, <2>2, <2>3, <2>4 DEF Rooted, Folder
<1> QED
    BY <1>1, <1>2

-------------------------------------------------------------------------------
(* What is on its way to the State takes nothing below itself: the place   *)
(* of an update is settled by the move, which needs it.                    *)
LoopOK ==
    job.from = "remote" =>
        /\ At("UpdatedOnDisk", "move") => HasPath(table, Now.id)
        /\ \A point \in {"fill", "stat"} :
              At("UpdatedOnDisk", point) => Apart(table, Now.id, job.got.parent)
        /\ job.at = "apply" =>
              \A c \in Changes : job.changes = <<c>> /\ c.change = "Update"
                                    => Apart(table, c.id, c.parent)

(* rename(2) moves nothing below itself, and nothing is below a file.      *)
LEMMA MoveApart ==
    ASSUME Inv, Rooted(disk), At("UpdatedOnDisk", "move"), HasPath(table, Now.id),
           \/ PathOf(table, Now.id) = RemotePath(job.got)
           \/ CanRename(PathOf(table, Now.id), RemotePath(job.got))
    PROVE  Apart(table, Now.id, job.got.parent)
<1> DEFINE from  == PathOf(table, Now.id)
           to    == RemotePath(job.got)
           above == PathOf(table, job.got.parent)
           parts == CHOOSE parts \in Parts(table, job.got.parent) : TRUE
<1>1. Fetched(Now.id) /\ HasRemotePath(job.got.parent) /\ IsTable(table) /\ TreeOK(disk)
    BY DEF Inv, Holds, HoldsDownload, UsersOK, SidesOK
<1>2. SUFFICES ASSUME job.got.parent # Root, NEW j \in 1..Len(parts), parts[j] = Now.id
               PROVE  FALSE
    BY <1>1 DEF Apart, HasRemotePath, HasPath
<1>3. HasPath(table, job.got.parent)
    BY <1>1, <1>2 DEF HasRemotePath
<1>4. from \in Path /\ above \in Path /\ to \in Path
    BY <1>1, <1>3, PathOfType, RemotePathType DEF Fetched
<1>5. IsPrefix(from, above)
    BY <1>1, <1>2, <1>3, AboveInTable
<1>6. IsPrefix(above, to) /\ above # to
    <2>1. job.got.name \in Names /\ to = Append(above, job.got.name) /\ above \in Seq(Names)
        BY <1>1, <1>2, <1>4 DEF Fetched, Content, RemotePath, Path
    <2>2. /\ Len(to) = Len(above) + 1 /\ Len(above) \in Nat /\ to \in Seq(Names)
          /\ \A i \in 1..Len(above) : to[i] = above[i]
        BY <2>1
    <2> HIDE DEF above, to
    <2>3. Len(above) <= Len(to) /\ \A i \in 1..Len(above) : above[i] = to[i]
        BY <2>2
    <2>4. IsPrefix(above, to)
        BY <2>1, <2>2, <2>3, PrefixIs
    <2>5. above # to
        BY <2>2
    <2> QED
        BY <2>4, <2>5
<1> HIDE DEF from, to, above, parts
<1>7. IsPrefix(from, to) /\ from # to
    BY <1>4, <1>5, <1>6, PrefixOrder
<1>8. CanRename(from, to) /\ ~IsDir(from)
    BY <1>7 DEF from, to, CanRename
<1>9. Len(to) # 1 /\ IsPrefix(from, Front(to)) /\ Front(to) \in Path /\ IsDir(Front(to))
    BY <1>4, <1>7, <1>8, FrontPrefix DEF CanRename, ParentIsDir
<1>10. IsDir(from)
    BY <1>4, <1>9 DEF Rooted, IsDir, Exists
<1> QED
    BY <1>8, <1>10

LEMMA LoopFailing ==
    ASSUME Inv, NEW error, Fail(error)
    PROVE  LoopOK'
<1>1. job'.at = "failed"
    BY DEF Fail, Inv, JobOK, JobIn, IsJob
<1> QED
    BY <1>1 DEF LoopOK, At

LEMMA LoopGoing ==
    ASSUME Inv, UNCHANGED table, NEW executor, NEW from, At(executor, from),
           job'.at \in {"write", "move", "fill", "stat"}, job'.todo = job.todo,
           executor = "UpdatedOnDisk" /\ job'.at = "move" => HasPath(table, Now.id),
           executor = "UpdatedOnDisk" /\ job'.at \in {"fill", "stat"}
                => Apart(table, Now.id, job'.got.parent)
    PROVE  LoopOK'
<1>1. Now' = Now /\ \A other, point : At(other, point)' => other = executor /\ job'.at = point
    BY DEF At, Now
<1> QED
    BY <1>1 DEF LoopOK, Apart

LEMMA LoopDone ==
    ASSUME Inv, RemoteJobOK, UNCHANGED table, NEW executor, NEW from, At(executor, from),
           from \in {"start", "stat"}, NEW c \in Changes, Done(<<c>>),
           c.change = "Update" => Apart(table, c.id, c.parent)
    PROVE  LoopOK'
<1>1. /\ job'.at = IF Len(job.todo) = 1 THEN "apply" ELSE "start"
      /\ job'.changes = job.changes \o <<c>> /\ job'.from = job.from
    BY DEF Done, Inv, JobOK, JobIn, IsJob
<1>2. SUFFICES ASSUME job.from = "remote"
               PROVE  job'.at = "apply" /\ job'.changes = <<c>>
    BY <1>1 DEF LoopOK, At
<1>3. job.changes = <<>> /\ Len(job.todo) = 1
    BY <1>2 DEF RemoteJobOK, At
<1>4. <<>> \o <<c>> = <<c>>
    OBVIOUS
<1> QED
    BY <1>1, <1>3, <1>4

LEMMA LoopDownload ==
    ASSUME Inv, Rooted(disk), RemoteJobOK, LoopOK, job.from = "remote", DownloadStep
    PROVE  LoopOK'
<1>1. UNCHANGED table
    BY ParentDownload
<1>2. CASE AbsentFromDisk
    <2>1. At("AbsentFromDisk", "start") /\ Now.id \in Ids
        BY <1>2, NowType DEF AbsentFromDisk, Inv, UsersOK, SidesOK, ContentsOK
    <2>2. ForgotChange(Now.id) \in Changes /\ ForgotChange(Now.id).change # "Update"
        BY <2>1 DEF ForgotChange, Changes
    <2>3. Fail("Unexpected") \/ Done(<<ForgotChange(Now.id)>>)
        BY <1>2 DEF AbsentFromDisk
    <2> QED
        BY <1>1, <2>1, <2>2, <2>3, LoopFailing, LoopDone
<1>3. CASE FetchCreated
    <2>1. \/ \E error : Fail(error)
          \/ job' = [job EXCEPT !.at = "write", !.got = remote[Now.id]]
        BY <1>3 DEF FetchCreated, Fetch, Broken
    <2>2. ASSUME job' = [job EXCEPT !.at = "write", !.got = remote[Now.id]]
          PROVE  job'.at = "write" /\ job'.todo = job.todo
        BY <2>2 DEF Inv, JobOK, JobIn, IsJob
    <2>3. At("PresentOnDisk", "start")
        BY <1>3 DEF FetchCreated
    <2> QED
        BY <1>1, <2>1, <2>2, <2>3, LoopFailing, LoopGoing
<1>4. CASE FetchUpdated
    <2>1. \/ \E error : Fail(error)
          \/ HasPath(table, Now.id) /\ job' = [job EXCEPT !.at = "move", !.got = remote[Now.id]]
        BY <1>4 DEF FetchUpdated, Fetch, Broken
    <2>2. ASSUME job' = [job EXCEPT !.at = "move", !.got = remote[Now.id]]
          PROVE  job'.at = "move" /\ job'.todo = job.todo
        BY <2>2 DEF Inv, JobOK, JobIn, IsJob
    <2>3. At("UpdatedOnDisk", "start")
        BY <1>4 DEF FetchUpdated
    <2> QED
        BY <1>1, <2>1, <2>2, <2>3, LoopFailing, LoopGoing
<1>5. ASSUME NEW point, Goto(point)
      PROVE  job'.at = point /\ job'.todo = job.todo /\ job'.got = job.got
    BY <1>5 DEF Goto, Inv, JobOK, JobIn, IsJob
<1>6. CASE WriteCreated \/ FillCreated
    <2>1. \/ \E error : Fail(error)
          \/ /\ \E from : At("PresentOnDisk", from)
             /\ \E point \in {"fill", "stat"} : Goto(point)
        <3>1. CASE WriteCreated
            BY <3>1 DEF WriteCreated, WriteFolder, WriteFile
        <3>2. CASE FillCreated
            BY <3>2 DEF FillCreated, Download, Broken
        <3> QED
            BY <1>6, <3>1, <3>2
    <2>2. CASE \E error : Fail(error)
        BY <2>2, LoopFailing
    <2>3. ASSUME NEW from, At("PresentOnDisk", from), NEW point \in {"fill", "stat"}, Goto(point)
          PROVE  LoopOK'
        BY <1>1, <1>5, <2>3, LoopGoing
    <2> QED
        BY <2>1, <2>2, <2>3
<1>7. CASE MoveUpdated
    <2>1. At("UpdatedOnDisk", "move") /\ HasPath(table, Now.id)
        BY <1>7 DEF MoveUpdated, LoopOK
    <2>2. \/ \E error : Fail(error)
          \/ /\ Goto("fill")
             /\ \/ PathOf(table, Now.id) = RemotePath(job.got)
                \/ CanRename(PathOf(table, Now.id), RemotePath(job.got))
        BY <1>7 DEF MoveUpdated, MoveRefused
    <2>3. ASSUME Goto("fill"),
                 \/ PathOf(table, Now.id) = RemotePath(job.got)
                 \/ CanRename(PathOf(table, Now.id), RemotePath(job.got))
          PROVE  LoopOK'
        <3>1. Apart(table, Now.id, job.got.parent)
            BY <2>1, <2>3, MoveApart
        <3>2. job'.at = "fill" /\ job'.todo = job.todo /\ job'.got = job.got
            BY <1>5, <2>3
        <3> QED
            BY <1>1, <2>1, <3>1, <3>2, LoopGoing
    <2> QED
        BY <2>2, <2>3, LoopFailing
<1>8. CASE FillUpdated
    <2>1. At("UpdatedOnDisk", "fill") /\ Apart(table, Now.id, job.got.parent)
        BY <1>8 DEF FillUpdated, LoopOK
    <2>2. \/ \E error : Fail(error)
          \/ Goto("stat")
        BY <1>8 DEF FillUpdated, Download, Broken
    <2>3. ASSUME Goto("stat")
          PROVE  LoopOK'
        <3>1. job'.at = "stat" /\ job'.todo = job.todo /\ job'.got = job.got
            BY <1>5, <2>3
        <3> QED
            BY <1>1, <2>1, <3>1, LoopGoing
    <2> QED
        BY <2>2, <2>3, LoopFailing
<1>9. CASE StatCreated
    <2> DEFINE path == RemotePath(job.got)
               c == AddChange(Now.id, path, job.got.rev, job.got.parent, Stamp(path))
    <2>1. At("PresentOnDisk", "stat") /\ Stat(path, <<c>>)
        BY <1>9 DEF StatCreated
    <2>2. Exists(path) => Stamp(path) \in Nat
        BY StampType
    <2>3. (Exists(path) => c \in Changes) /\ c.change # "Update"
        BY <2>1, <2>2, ParentHeld DEF AddChange, AddChanges, Changes
    <2> HIDE DEF c, path
    <2> QED
        BY <1>1, <2>1, <2>3, LoopFailing, LoopDone DEF Stat
<1>10. CASE StatUpdated
    <2> DEFINE path == RemotePath(job.got)
               c == UpdateChange(Now.id, job.got.name, job.got.rev, job.got.parent, Stamp(path))
    <2>1. At("UpdatedOnDisk", "stat") /\ Stat(path, <<c>>)
        BY <1>10 DEF StatUpdated
    <2>2. Exists(path) => Stamp(path) \in Nat
        BY StampType
    <2>3. Exists(path) => c \in Changes
        BY <2>1, <2>2, ParentHeld DEF UpdateChange, UpdateChanges, Changes
    <2>4. Apart(table, Now.id, job.got.parent)
        BY <2>1 DEF LoopOK
    <2>5. c.id = Now.id /\ c.parent = job.got.parent
        BY DEF UpdateChange
    <2> HIDE DEF c, path
    <2> QED
        BY <1>1, <2>1, <2>3, <2>4, <2>5, LoopFailing, LoopDone DEF Stat
<1> QED
    BY <1>2, <1>3, <1>4, <1>6, <1>7, <1>8, <1>9, <1>10 DEF DownloadStep

(* The side the event in hand came from stays what it was.                 *)
LEMMA DownloadFrom ==
    ASSUME Inv, DownloadStep
    PROVE  job'.from = job.from
<1>1. "from" \in DOMAIN job
    BY DEF Inv, JobOK, JobIn, IsJob
<1> USE DEF Fail, Done, Goto, Broken
<1>2. CASE AbsentFromDisk
    BY <1>1, <1>2 DEF AbsentFromDisk
<1>3. CASE FetchCreated \/ FetchUpdated
    BY <1>1, <1>3 DEF FetchCreated, FetchUpdated, Fetch
<1>4. CASE WriteCreated \/ FillCreated
    BY <1>1, <1>4 DEF WriteCreated, WriteFolder, WriteFile, FillCreated, Download
<1>5. CASE MoveUpdated \/ FillUpdated
    BY <1>1, <1>5 DEF MoveUpdated, MoveRefused, FillUpdated, Download
<1>6. CASE StatCreated \/ StatUpdated
    BY <1>1, <1>6 DEF StatCreated, StatUpdated, Stat
<1> QED
    BY <1>2, <1>3, <1>4, <1>5, <1>6 DEF DownloadStep

LEMMA LoopReceiving ==
    ASSUME Inv, LoopOK, NEW event, NEW own, Receive(event, own)
    PROVE  LoopOK'
<1>1. UNCHANGED table
    BY DEF Receive
<1>2. \/ UNCHANGED job
      \/ \E error : Fail(error)
      \/ job' = [Idle EXCEPT !.at = "start", !.from = event.src, !.todo = Executors(event)]
    BY DEF Receive
<1>3. CASE UNCHANGED job
    BY <1>1, <1>3 DEF LoopOK, At, Now, Apart
<1>4. CASE job' = [Idle EXCEPT !.at = "start", !.from = event.src, !.todo = Executors(event)]
    <2>1. job'.at = "start"
        BY <1>4 DEF Idle
    <2> QED
        BY <2>1 DEF LoopOK, At
<1> QED
    BY <1>2, <1>3, <1>4, LoopFailing

(* The one modification of a remote event makes no loop.                   *)
LEMMA LoopApply ==
    ASSUME Inv, RemoteJobOK, LoopOK, ApplyChange
    PROVE  /\ LoopOK'
           /\ job.from = "remote" /\ ParentsKnown(table) /\ Acyclic(table) => Acyclic(table')
<1>1. job.at = "apply"
    BY DEF ApplyChange
<1>2. CASE job' = Idle /\ UNCHANGED table
    BY <1>2 DEF Idle, LoopOK
<1>3. CASE Fail("State") /\ UNCHANGED table
    BY <1>3, LoopFailing
<1>4. CASE /\ job.changes # <<>> /\ table' = Changed(table, Head(job.changes))
           /\ Accepted(table, Head(job.changes))
           /\ job' = [job EXCEPT !.changes = Tail(@)]
    <2>1. job'.from = job.from /\ job'.at = job.at /\ job'.changes = Tail(job.changes)
        BY <1>4 DEF Inv, JobOK, JobIn, IsJob
    <2>2. CASE job.from # "remote"
        BY <2>1, <2>2 DEF LoopOK
    <2>3. CASE job.from = "remote"
        <3>1. PICK c \in Changes : job.changes = <<c>> /\ KnownParent(c)
            BY <1>1, <1>4, <2>3 DEF RemoteJobOK
        <3>2. Head(job.changes) = c /\ Tail(job.changes) = <<>>
            BY <3>1
        <3>3. LoopOK'
            <4>1. \A d : <<d>> # <<>>
                OBVIOUS
            <4> QED
                BY <1>1, <2>1, <3>2, <4>1 DEF LoopOK, At
        <3>4. c.change = "Update" => Apart(table, c.id, c.parent)
            BY <1>1, <2>3, <3>1 DEF LoopOK
        <3>5. ParentsKnown(table) /\ Acyclic(table) => Acyclic(table')
            BY <1>4, <3>1, <3>2, <3>4, ChangedAcyclic DEF KnownParent, Inv
        <3> QED
            BY <3>3, <3>5
    <2> QED
        BY <2>2, <2>3
<1> QED
    BY <1>2, <1>3, <1>4 DEF ApplyChange

LEMMA LoopStep ==
    ASSUME Inv, Rooted(disk), RemoteJobOK, LoopOK, [Next]_vars
    PROVE  /\ LoopOK'
           /\ job.from = "remote" /\ ParentsKnown(table) /\ Acyclic(table) => Acyclic(table')
<1>1. CASE ReceiveRemote \/ ReceiveLocal
    BY <1>1, LoopReceiving DEF ReceiveRemote, ReceiveLocal, Receive
<1>2. CASE DownloadStep
    <2>1. UNCHANGED table
        BY <1>2, ParentDownload
    <2>2. CASE job.from = "remote"
        BY <1>2, <2>1, <2>2, LoopDownload
    <2>3. CASE job.from # "remote"
        BY <1>2, <2>1, <2>3, DownloadFrom DEF LoopOK
    <2> QED
        BY <2>2, <2>3
<1>3. CASE UploadStep
    BY <1>3, ParentUpload DEF LoopOK
<1>4. CASE ApplyChange
    BY <1>4, LoopApply
<1>5. CASE UserActs \/ WatchLeft \/ UNCHANGED vars
    BY <1>5 DEF UserActs, WatchLeft, vars, store, LoopOK, At, Now, Apart
<1> QED
    BY <1>1, <1>2, <1>3, <1>4, <1>5 DEF Next, OperatorStep

(* A change of place told by the server never makes the parent_id column   *)
(* loop, although its new parent may have moved below it meanwhile and the *)
(* State still records older places: UpdatedOnDisk records the place only  *)
(* after the disk has taken the move.                                      *)
THEOREM MovesMakeNoLoop == Spec => DownloadsMakeNoLoop
<1>1. Init => Rooted(disk) /\ RemoteJobOK /\ LoopOK
    BY RootedStart DEF Init, Idle, RemoteJobOK, LoopOK
<1>2. Spec => [](Inv /\ Rooted(disk) /\ RemoteJobOK /\ LoopOK)
    <2>1. Inv /\ Rooted(disk) /\ RemoteJobOK /\ LoopOK /\ [Next]_vars
            => (Inv /\ Rooted(disk) /\ RemoteJobOK /\ LoopOK)'
        BY NextInv, RootedStep, ParentStep, LoopStep
    <2> QED
        BY <1>1, <2>1, InitInv, PTL DEF Spec
<1>3. Inv /\ Rooted(disk) /\ RemoteJobOK /\ LoopOK /\ [Next]_vars
        => [job.from = "remote" /\ ParentsKnown(table) /\ Acyclic(table) => Acyclic(table')]_vars
    BY LoopStep
<1> QED
    BY <1>2, <1>3, PTL DEF Spec, DownloadsMakeNoLoop

LEMMA StartHierarchy == StartEmpty \/ StartNested => ParentsKnown(table) /\ Acyclic(table)
<1>1. CASE StartEmpty
    BY <1>1 DEF StartEmpty, Agree, EmptyTable, ParentsKnown, Acyclic
<1>2. CASE StartNested
    <2>1. PICK top \in Ids, below \in Ids :
            /\ top < below /\ DOMAIN table = {top, below}
            /\ table[top].parent = Root /\ table[below].parent = top
        <3> DEFINE name   == CHOOSE name \in Names : TRUE
                   inside == <<name, name>>
        <3>1. PICK top \in Ids, below \in Ids :
                /\ top < below
                /\ table = [id \in {top, below} |->
                    IF id = top
                    THEN [path |-> <<name>>, rev |-> 1, parent |-> Root, stamp |-> NoBytes]
                    ELSE [path |-> inside, rev |-> 1, parent |-> top, stamp |-> NoBytes]]
            BY <1>2, Zenon DEF StartNested, Agree
        <3> HIDE DEF inside, name
        <3>2. top # below
            BY <3>1, SpaceAssumption
        <3> QED
            BY <3>1, <3>2
    <2>2. top # below /\ Root \notin {top, below}
        BY <2>1, RootAssumption, SpaceAssumption
    <2> QED
        BY <2>1, <2>2 DEF ParentsKnown, Acyclic
<1> QED
    BY <1>1, <1>2

(* As long as what is recorded comes from the server, whatever is tried or *)
(* fails besides, the parent_id column never loops: only an upload, which  *)
(* adopts the parent the server answers, could close one.                  *)
THEOREM LoopsComeFromUploads ==
    Spec /\ [](job.at = "apply" => job.from = "remote") => []NoAncestryLoop
<1> DEFINE FromServer == job.at = "apply" => job.from = "remote"
           IInv == /\ Inv /\ Rooted(disk) /\ RemoteJobOK /\ LoopOK
                   /\ ParentsKnown(table) /\ Acyclic(table)
<1>1. Init => IInv
    BY InitInv, RootedStart, StartHierarchy DEF Init, Idle, RemoteJobOK, LoopOK
<1>2. IInv /\ FromServer /\ [Next]_vars => IInv'
    <2> SUFFICES ASSUME IInv, FromServer, [Next]_vars
                 PROVE  IInv'
        OBVIOUS
    <2>1. (Inv /\ Rooted(disk) /\ RemoteJobOK /\ LoopOK)'
        BY NextInv, RootedStep, ParentStep, LoopStep
    <2>2. CASE ApplyChange
        <3>1. job.from = "remote"
            BY <2>2 DEF ApplyChange
        <3> QED
            BY <2>1, <3>1, ParentStep, LoopStep
    <2>3. CASE ~ApplyChange
        <3>1. UNCHANGED table
            BY <2>3, ParentDownload, ParentUpload
            DEF Next, OperatorStep, WatchLeft, ReceiveRemote, ReceiveLocal, Receive, UserActs,
                vars, store
        <3> QED
            BY <2>1, <3>1 DEF ParentsKnown, Acyclic
    <2> QED
        BY <2>2, <2>3
<1>3. IInv => NoAncestryLoop
    BY DEF NoAncestryLoop
<1> HIDE DEF IInv, FromServer
<1>4. Spec /\ []FromServer => []NoAncestryLoop
    BY <1>1, <1>2, <1>3, PTL DEF Spec
<1> QED
    BY <1>4 DEF FromServer

===============================================================================
