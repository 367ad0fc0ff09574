------------------------------- MODULE MCStartup -------------------------------
(***************************************************************************)
(* Model checking of Startup: the users of one side work before the first  *)
(* run and wait from then on, while runs start, crash and start again.     *)
(***************************************************************************)
EXTENDS Startup

VARIABLE side  \* where users work: "local" or "remote"

mvars == <<svars, side>>

(* Every content, whatever its status, and every file or folder, by path.  *)
AllContents ==
    [id \in DOMAIN remote |-> [path |-> <<remote[id].name>>, parent |-> remote[id].parent]]

Kinds ==
    {[path |-> PathOf(AllContents, id), type |-> remote[id].type] : id \in DOMAIN remote}
      \cup {[path |-> path, type |-> disk[path].type] : path \in DOMAIN disk}

(* A path is not given to a folder after a file or to a file after a folder. *)
KindsKept == \A one, other \in Kinds : one.path = other.path => one = other

(* Nor are the paths of the State given to other contents: the former one  *)
(* disappears after the new one is added, which the unique index refuses.  *)
NoReuse ==
    \A id \in Listed, known \in DOMAIN table :
        table[known].path = PathOf(RemoteTable, id) => known = id

(* Bound: an id is left for each file and folder that is still to upload.  *)
IdsSuffice ==
    Cardinality({path \in DOMAIN disk : ContentIdForPath(table, path) = Root})
      + Cardinality(DOMAIN remote) <= Cardinality(Ids)

OfflineUsers ==
    /\ runs = 0 /\ UsersAct
    /\ IF side = "local" THEN RemoteUnchanged ELSE DiskUnchanged
    /\ KindsKept' /\ NoReuse' /\ (side = "local" => IdsSuffice')

RecoveryInit == StartupInit /\ side \in {"local", "remote"}

RecoveryNext == (RunStep \/ Crash \/ OfflineUsers) /\ UNCHANGED side

RecoverySpec == RecoveryInit /\ [][RecoveryNext]_mvars /\ WF_mvars(StartupStep /\ UNCHANGED side)

(* Once the changes the first run found in the space are worked on, and    *)
(* whatever failed on the way did not end it, the folder holds the space:  *)
(* nothing the two were told apart by is forgotten, by the comparison, by  *)
(* the passes or by the executors (RemoteSync of sync/remote.rs, then      *)
(* OperateChanges of run2.rs).                                             *)
SpaceFetched == side = "remote" /\ runs = 1 /\ phase = "local" => DiskTree = RemoteTree

(* While users work on the folder only, the runs change nothing in it. *)
FolderKept == [][side = "local" /\ RunStep => UNCHANGED disk]_mvars

(* While users work in the space only, the runs take nothing out of it and *)
(* leave the files what they hold.                                         *)
SpaceKept ==
    [][side = "remote" /\ RunStep =>
           \A id \in Listed : id \in Listed' /\ remote'[id].bytes = remote[id].bytes]_mvars

===============================================================================
