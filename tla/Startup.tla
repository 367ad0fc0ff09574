-------------------------------- MODULE Startup --------------------------------
(***************************************************************************)
(* A run of trsync from its start (Runner::run of trsync/src/run2.rs): the *)
(* watchers are started, what changed on each side since the State was     *)
(* last written is determined (trsync/src/sync/remote.rs and local.rs),    *)
(* conflicts are resolved in favour of the disk (sync/mod.rs), the user    *)
(* confirms, and the changes are worked on in passes by the operator of    *)
(* module Operator, before any live event.                                 *)
(*                                                                         *)
(* A run may be stopped between any two steps, by a crash of the process   *)
(* or by an error; the next one starts from the State.                     *)
(***************************************************************************)
EXTENDS Operator

CONSTANT MaxRuns  \* bound: starts of trsync

ASSUME StartupAssumption == MaxRuns \in Nat /\ IsFiniteSet(Ids)

VARIABLES
    phase,       \* what the run is at
    unresolved,  \* remote changes, not yet compared with the local ones
    todo,        \* changes of the pass, still to be worked on
    current,     \* the change in hand
    left,        \* changes of the pass whose parent was missing
    size,        \* changes the pass started with
    locally,     \* local changes, worked on after the remote ones
    hearing,     \* the sides whose watcher is open
    runs         \* starts so far

plan  == <<unresolved, todo, current, left, size, locally, hearing>>
svars == <<vars, phase, plan, runs>>

-------------------------------------------------------------------------------
(* RemoteSync: the contents of the space that are not deleted, nor below a *)
(* deleted one, compared with the revisions of the State.                  *)
Listed ==
    {id \in Visible :
        /\ HasPath(RemoteTable, id)
        /\ remote[id].type = "file" /\ remote[id].parent # Root
               => remote[remote[id].parent].type = "folder"}

AppearedNew == {id \in Listed : id \notin DOMAIN table}  \* mutant

Appeared == {id \in Listed : id \notin DOMAIN table \/ table[id].rev # remote[id].rev}

Disappeared == DOMAIN table \ Listed

SeenRemotely(id) ==
    IF id \in Listed
    THEN [path  |-> PathOf(RemoteTable, id),
          event |-> RemoteEvent(IF id \in DOMAIN table THEN "Updated" ELSE "Created", id)]
    ELSE [path |-> table[id].path, event |-> RemoteEvent("Deleted", id)]

RemoteChanges == {SeenRemotely(id) : id \in Appeared \cup Disappeared}

(* Folders come first, in the order of a hash map, then files, and at last *)
(* what disappeared.                                                       *)
Rank(change) ==
    IF change.event.kind = "Deleted" THEN 3
    ELSE IF remote[change.event.id].type = "file" THEN 2 ELSE 1

Ordered(changes) ==
    {order \in SetToSeqs(changes) :
        \A i, j \in DOMAIN order : Rank(order[i]) < Rank(order[j]) => i < j}

(* LocalSync: a walk of the disk compared with the paths and modification  *)
(* times of the State, then the paths of the State not met.                *)
StaleUnknown(path) == ContentIdForPath(table, path) = Root  \* mutant

Stale(path) ==
    LET id == ContentIdForPath(table, path) IN
    id = Root \/ (IsFile(path) /\ table[id].stamp # Stamp(path))

SeenLocally(path) ==
    [path  |-> path,
     event |-> LocalEvent(IF ~Exists(path) THEN "Deleted"
                          ELSE IF ContentIdForPath(table, path) = Root
                          THEN "Created" ELSE "Modified", path)]

Walks ==
    {order \in SetToSeqs({path \in DOMAIN disk : Stale(path)}) :
        \A i, j \in DOMAIN order : i < j =>
            /\ ~IsPrefix(order[j], order[i])
            /\ IsPrefix(order[i], order[j]) =>
                   \A between \in i..j : IsPrefix(order[i], order[between])}

Lost == {table[id].path : id \in DOMAIN table} \ DOMAIN disk

LocalChanges ==
    {[k \in DOMAIN order |-> SeenLocally(order[k])] :
        order \in {first \o last : first \in Walks, last \in SetToSeqs(Lost)}}

(* StartupSyncResolver, ForceLocal. *)
InConflict(change, changes) == \E k \in DOMAIN changes : changes[k].path = change.path

AllRemote(changes, local) == changes  \* mutant

KeptRemote(changes, local) == {change \in changes : ~InConflict(change, local)}

-------------------------------------------------------------------------------
(* What was told before the watchers are started reaches nobody, and what  *)
(* the run before missed is seen again.                                    *)
Start ==
    /\ phase = "off" /\ runs < MaxRuns
    /\ phase' = "listing" /\ runs' = runs + 1
    /\ tlm' = <<>> /\ notified' = <<>> /\ missed' = FALSE
    /\ UNCHANGED <<plan, store, job, remote, disk, edits>>

(* The watchers are threads that Runner::watchers only spawns: one opens   *)
(* its stream, or its watch of the folder, at any time after that or never *)
(* (RemoteWatcher::listen, LocalWatcher::listen).  What was told until     *)
(* then reaches nobody.                                                    *)
FromUser(queue) == \E k \in DOMAIN queue : ~queue[k].own

Opens(which, queue) ==
    /\ phase # "off" /\ which \notin hearing
    /\ hearing' = hearing \cup {which}
    /\ missed' = (missed \/ FromUser(queue))
    /\ UNCHANGED <<phase, unresolved, todo, current, left, size, locally, runs,
                   store, job, remote, disk, edits>>

StreamOpens == Opens("remote", tlm) /\ tlm' = <<>> /\ UNCHANGED notified
WatchOpens  == Opens("local", notified) /\ notified' = <<>> /\ UNCHANGED tlm

List ==
    /\ phase = "listing"
    /\ phase' = "scanning"
    /\ unresolved' = RemoteChanges
    /\ UNCHANGED <<vars, todo, current, left, size, locally, hearing, runs>>

Scan ==
    /\ phase = "scanning"
    /\ locally' \in LocalChanges
    /\ todo' \in Ordered(KeptRemote(unresolved, locally'))
    /\ unresolved' = {}
    /\ phase' = IF todo' = <<>> /\ locally' = <<>> THEN "live" ELSE "asking"
    /\ UNCHANGED <<vars, current, left, size, hearing, runs>>

PassUncounted(changes) ==  \* mutant
    todo' = changes /\ size' = size /\ left' = <<>> /\ UNCHANGED unresolved

Pass(changes) ==
    todo' = changes /\ size' = Len(changes) /\ left' = <<>> /\ UNCHANGED unresolved

Confirm ==
    /\ phase = "asking"
    /\ phase' = "remote"
    /\ Pass(todo)
    /\ UNCHANGED <<vars, current, locally, hearing, runs>>

(* The changes are left as they are and live events are worked on. *)
Decline ==
    /\ phase = "asking"
    /\ phase' = "live"
    /\ todo' = <<>> /\ locally' = <<>> /\ missed' = TRUE
    /\ UNCHANGED <<store, job, world, edits, unresolved, current, left, size, hearing, runs>>

-------------------------------------------------------------------------------
(* OperateChanges. *)
Operate ==
    /\ phase \in {"remote", "local"} /\ todo # <<>>
    /\ Receive(Head(todo).event, FALSE)
    /\ current' = Head(todo) /\ todo' = Tail(todo)
    /\ UNCHANGED <<phase, unresolved, left, size, locally, hearing, runs, tlm, notified>>

MissesParent ==
    phase \in {"remote", "local"} /\ job.at = "failed" /\ job.error = "MissingParent"

Postpone ==
    /\ MissesParent
    /\ left' = Append(left, current)
    /\ job' = Idle
    /\ UNCHANGED <<phase, unresolved, todo, current, size, locally, hearing, runs,
                   store, world, edits, missed>>

PassOver == phase \in {"remote", "local"} /\ job.at = "idle" /\ todo = <<>>

NoProgress == FALSE  \* mutant
NeverGivesUp == TRUE  \* mutant
Progress == Len(left) < size

NextPass ==
    /\ PassOver /\ left # <<>> /\ Progress
    /\ Pass(left)
    /\ UNCHANGED <<vars, phase, current, locally, hearing, runs>>

(* Retried but nothing changed: the run ends with an error. *)
GiveUp ==
    /\ PassOver /\ left # <<>> /\ ~Progress
    /\ left' = <<>>
    /\ Fail("MissingParents")
    /\ UNCHANGED <<phase, unresolved, todo, current, size, locally, hearing, runs,
                   store, world, edits, missed>>

TurnLocal ==
    /\ PassOver /\ left = <<>> /\ phase = "remote"
    /\ phase' = "local"
    /\ Pass(locally) /\ locally' = <<>>
    /\ UNCHANGED <<vars, current, hearing, runs>>

GoLive ==
    /\ PassOver /\ left = <<>> /\ phase = "local"
    /\ phase' = "live"
    /\ UNCHANGED <<vars, plan, runs>>

-------------------------------------------------------------------------------
(* The run is over: the queues, what was planned and what was expected are *)
(* lost, the State, both sides and the unread live messages are not.       *)
Over ==
    /\ phase' = "off"
    /\ job' = Idle /\ ignored' = {}
    /\ unresolved' = {} /\ todo' = <<>> /\ left' = <<>> /\ locally' = <<>> /\ hearing' = {}
    /\ UNCHANGED <<current, size, runs, table, world, edits, missed>>

Failed == job.at = "failed" /\ ~MissesParent

EndWithError == Failed /\ Over

Crash == phase # "off" /\ ~Failed /\ runs < MaxRuns /\ Over

Work == (DownloadStep \/ UploadStep \/ ApplyChange) /\ UNCHANGED <<phase, plan, runs>>

LiveStep ==
    \/ "remote" \in hearing /\ (WatchLeft \/ (phase = "live" /\ ReceiveRemote))
    \/ "local" \in hearing /\ phase = "live" /\ ReceiveLocal

StartupStep ==
    \/ List \/ Scan \/ Confirm \/ Operate \/ Postpone \/ NextPass \/ GiveUp \/ TurnLocal \/ GoLive
    \/ Work
    \/ LiveStep /\ UNCHANGED <<phase, plan, runs>>

RunStep == Start \/ StreamOpens \/ WatchOpens \/ StartupStep \/ Decline \/ EndWithError

UsersAct == UserActs /\ UNCHANGED <<phase, plan, runs>>

StartupInit ==
    /\ Init
    /\ phase = "off" /\ runs = 0
    /\ unresolved = {} /\ todo = <<>> /\ left = <<>> /\ locally = <<>> /\ size = 0
    /\ hearing = {}
    /\ current = [path |-> <<>>, event |-> RemoteEvent("None", Root)]

StartupNext == RunStep \/ Crash \/ UsersAct

StartupSpec == StartupInit /\ [][StartupNext]_svars

(* A run is not suspended, and the user answers; a run that ended need not *)
(* be started again.                                                       *)
FairStartupSpec == StartupSpec /\ WF_svars(StartupStep)

-------------------------------------------------------------------------------
(***************************************************************************)
(* Properties.                                                             *)
(***************************************************************************)
Phases == {"off", "listing", "scanning", "asking", "remote", "local", "live"}

(* The type invariant. *)
StartupTypeOK ==
    /\ TypeOK
    /\ phase \in Phases /\ runs \in 0..MaxRuns /\ size \in Nat
    /\ hearing \subseteq {"remote", "local"} /\ (phase = "off" => hearing = {})
    /\ phase # "scanning" => unresolved = {}
    /\ phase \in {"off", "listing", "live"} => todo = <<>> /\ locally = <<>> /\ left = <<>>
    /\ phase \in {"remote", "local"} => Len(todo) + Len(left) <= size
    /\ phase \in {"off", "listing", "scanning", "asking"} => job = Idle /\ ignored = {}

(* Whatever ended the runs before, and whatever was left undone then, one  *)
(* that comes to rest leaves the same files and folders on both sides,     *)
(* deaf or not to one of them while nobody works there.                    *)
AtRest ==
    /\ phase = "live" /\ job.at = "idle"
    /\ "remote" \in hearing => tlm = <<>>
    /\ "local" \in hearing => notified = <<>>

StartupConverged == AtRest /\ ~missed => DiskTree = RemoteTree

(* What is postponed because its parent is missing finds it in a later     *)
(* pass of the first run: its passes do not end on changes of one side.    *)
(* (A run stopped between a folder on disk and its row in the State leaves *)
(* a folder that the next run drops the remote one for.)                   *)
NoOrphans == runs = 1 => job.error # "MissingParents"

(* The passes end, in live work or in an error. *)
PassesEnd == phase \in {"remote", "local"} ~> phase \in {"live", "off"} \/ Failed

===============================================================================
