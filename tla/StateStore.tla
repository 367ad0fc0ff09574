------------------------------ MODULE StateStore ------------------------------
(***************************************************************************)
(* The state trsync keeps of a synchronized space: the SQLite table `file` *)
(* of DiskState (trsync/src/state/disk.rs) and the modifications the       *)
(* executors ask of it (State::change, trsync/src/state/mod.rs).           *)
(*                                                                         *)
(* A table is a function from the known content ids to their rows.  A path *)
(* is the sequence of its components, so the file name that                *)
(* content_from_raw cuts from relative_path is the last of them.  The      *)
(* stored modification time is abstracted by the version of the bytes that *)
(* were on disk when the time was read: every write changes both.          *)
(***************************************************************************)
EXTENDS Integers, FiniteSets, SequencesExt

CONSTANTS Ids,     \* content ids
          Names,   \* file names
          Root     \* no parent: the top of the space (Option::None)

ASSUME RootAssumption == Root \notin Ids

Path == Seq(Names) \ {<<>>}

Row == [path: Path, rev: Nat, parent: Ids \cup {Root}, stamp: Int]

IsTable(T) == DOMAIN T \subseteq Ids /\ T \in [DOMAIN T -> Row]

EmptyTable == [id \in {} |-> 0]

(* The name of a row is cut from its relative_path column. *)
FileName(T, id) == Last(T[id].path)

-------------------------------------------------------------------------------
(***************************************************************************)
(* Queries.  `path` follows parent_id up to a row without parent, so it    *)
(* succeeds exactly when some sequence of known ids leads from the top of  *)
(* the space to the content; `content_id_for_path` reads the stored        *)
(* relative_path column instead.                                           *)
(***************************************************************************)
IsParts(T, parts, id) ==
    /\ Last(parts) = id
    /\ T[parts[1]].parent = Root
    /\ \A k \in 2..Len(parts) : T[parts[k]].parent = parts[k - 1]

Parts(T, id) ==
    {parts \in UNION {[1..n -> DOMAIN T] : n \in 1..Cardinality(DOMAIN T)} :
        IsParts(T, parts, id)}

HasPath(T, id) == Parts(T, id) # {}

PathOf(T, id) ==
    LET parts == CHOOSE parts \in Parts(T, id) : TRUE
    IN  [k \in 1..Len(parts) |-> FileName(T, parts[k])]

ContentIdForPath(T, path) ==
    IF \E id \in DOMAIN T : T[id].path = path
    THEN CHOOSE id \in DOMAIN T : T[id].path = path
    ELSE Root

DirectChildren(T, id) == {child \in DOMAIN T : T[child].parent = id}

(* What forgot_with_children deletes: the least set of rows that holds the *)
(* content and the direct children of its members.                         *)
Closed(T, S) == \A id \in S : DirectChildren(T, id) \subseteq S

Subtree(T, id) ==
    {known \in DOMAIN T :
        \A S \in SUBSET DOMAIN T : (Closed(T, S) /\ (id \in DOMAIN T => id \in S)
                                       /\ DirectChildren(T, id) \subseteq S)
                                   => known \in S}

-------------------------------------------------------------------------------
(***************************************************************************)
(* Modifications, as the executors build them (state/modification.rs).     *)
(***************************************************************************)
ForgotChange(id) == [change |-> "Forgot", id |-> id]

AddChange(id, path, rev, parent, stamp) ==
    [change |-> "Add", id |-> id, path |-> path, rev |-> rev,
     parent |-> parent, stamp |-> stamp]

UpdateChange(id, name, rev, parent, stamp) ==
    [change |-> "Update", id |-> id, name |-> name, rev |-> rev,
     parent |-> parent, stamp |-> stamp]

ForgotAlone(T, id) == [known \in DOMAIN T \ {id} |-> T[known]]  \* mutant

ForgotWithChildren(T, id) ==
    [known \in DOMAIN T \ Subtree(T, id) |-> T[known]]

(* INSERT fails on the unique indexes of relative_path and content_id. *)
AddAccepted(T, c) ==
    /\ c.id \notin DOMAIN T
    /\ \A id \in DOMAIN T : T[id].path # c.path

Added(T, c) ==
    [id \in DOMAIN T \cup {c.id} |->
        IF id = c.id THEN [path |-> c.path, rev |-> c.rev,
                           parent |-> c.parent, stamp |-> c.stamp]
                     ELSE T[id]]

(* UPDATE recomputes the column of this row only: the rows below it keep   *)
(* theirs.  When the parent has no path the bare file name is stored.      *)
BareName(T, c) == <<c.name>>  \* mutant

UpdatedPath(T, c) ==
    IF c.parent # Root /\ HasPath(T, c.parent)
    THEN Append(PathOf(T, c.parent), c.name)
    ELSE <<c.name>>

UpdateAccepted(T, c) ==
    c.id \in DOMAIN T =>
        \A id \in DOMAIN T \ {c.id} : T[id].path # UpdatedPath(T, c)

Updated(T, c) ==
    [id \in DOMAIN T |->
        IF id = c.id THEN [path |-> UpdatedPath(T, c), rev |-> c.rev,
                           parent |-> c.parent, stamp |-> c.stamp]
                     ELSE T[id]]

Accepted(T, c) == CASE c.change = "Add"    -> AddAccepted(T, c)
                    [] c.change = "Update" -> UpdateAccepted(T, c)
                    [] c.change = "Forgot" -> TRUE

Changed(T, c) == CASE c.change = "Add"    -> Added(T, c)
                   [] c.change = "Update" -> Updated(T, c)
                   [] c.change = "Forgot" -> ForgotWithChildren(T, c.id)

-------------------------------------------------------------------------------
(***************************************************************************)
(* What a table must satisfy for `path` and `content_id_for_path` to be    *)
(* usable.                                                                 *)
(***************************************************************************)

(* Every parent_id is a known content: `path` never meets a missing row. *)
ParentsKnown(T) == \A id \in DOMAIN T : T[id].parent \in DOMAIN T \cup {Root}

(* No set of rows is its own ancestry: the loop of `path` terminates. *)
Acyclic(T) ==
    \A S \in SUBSET DOMAIN T : S # {} => \E id \in S : T[id].parent \notin S

(* Two contents never claim the same local path. *)
PathsDistinct(T) ==
    \A id, other \in DOMAIN T : T[id].path = T[other].path => id = other

Hierarchy(T) == ParentsKnown(T) /\ Acyclic(T) /\ PathsDistinct(T)

===============================================================================
