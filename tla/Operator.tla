------------------------------- MODULE Operator -------------------------------
(***************************************************************************)
(* The operational core of trsync: the thread that takes one event at a    *)
(* time, local (the disk changed) or remote (a Tracim live message), and   *)
(* makes the other side follow (trsync/src/operation/operator.rs and the   *)
(* seven executors under operation/executor).                              *)
(*                                                                         *)
(* Every remote call and every group of file system calls of an executor   *)
(* is a step of its own, so that both users may act between two of them.   *)
(*                                                                         *)
(* Both event sources deliver here in order and one by one, which is what  *)
(* the listeners of run2.rs do when events do not pile up; the reduction   *)
(* of piled up local events is in module Reducer.                          *)
(***************************************************************************)
EXTENDS Space

CONSTANTS RETRY_COUNT_MAX,  \* timeouts that end an event
          Faults            \* how remote calls fail, within {"timeout", "broken", "lost"}

ASSUME OperatorAssumption ==
    /\ RETRY_COUNT_MAX \in Nat \ {0} /\ Faults \subseteq {"timeout", "broken", "lost"}
    /\ Names # {}

VARIABLES
    table,     \* the State the operator changes
    ignored,   \* ignore_events: the echoes of its own operations it expects
    job,       \* the event in hand
    missed     \* history: an event caused by a user was taken for an echo, or dropped

store  == <<table, ignored>>
world  == <<remote, disk, tlm, notified>>
vars   == <<table, ignored, job, remote, disk, tlm, notified, edits, missed>>

-------------------------------------------------------------------------------
(***************************************************************************)
(* The job: the side its event comes from, the executors left, the point   *)
(* the first of them has reached, what it holds, the timeouts met and the  *)
(* state changes of the finished executors, which are applied after the    *)
(* last one.                                                               *)
(***************************************************************************)
Nothing == Root

Idle == [at |-> "idle", from |-> "none", todo |-> <<>>, id |-> Root, got |-> Nothing,
         mods |-> <<>>, changes |-> <<>>, retry |-> 0, error |-> "none"]

At(executor, point) ==
    /\ job.at = point
    /\ job.todo # <<>>
    /\ Head(job.todo).ex = executor

Now == Head(job.todo)

Goto(point) == job' = [job EXCEPT !.at = point]

Fail(error) == job' = [job EXCEPT !.at = "failed", !.error = error]

Done(changes) ==
    job' = [job EXCEPT !.todo = Tail(@), !.changes = @ \o changes,
                       !.mods = <<>>, !.got = Nothing, !.id = Root,
                       !.at = IF Len(job.todo) = 1 THEN "apply" ELSE "start"]

(* A TimeoutError restarts the executor, up to RETRY_COUNT_MAX times for   *)
(* one event; any other error, and any error wrapped by `context`, ends it *)
(* and the run with it.                                                    *)
ExhaustedLate(count) == count > RETRY_COUNT_MAX  \* mutant
Exhausted(count) == count >= RETRY_COUNT_MAX

RetryUncounted == job.retry  \* mutant
RetryCount == job.retry + 1

Timeout ==
    /\ "timeout" \in Faults
    /\ job' = IF Exhausted(RetryCount)
              THEN [job EXCEPT !.at = "failed", !.error = "MaximumRetryCount",
                               !.retry = RetryCount]
              ELSE [job EXCEPT !.at = "start", !.retry = RetryCount, !.mods = <<>>,
                               !.got = Nothing, !.id = Root]

Broken == "broken" \in Faults /\ Fail("Unexpected")

(* A call may fail although the server did the work: its reply is lost.    *)
RepliesLost == "lost" \in Faults

-------------------------------------------------------------------------------
(* Executors of an event (Operator::executors), after Operator::qualify.   *)

OnId(ex, id) == [ex |-> ex, id |-> id]
OnPath(ex, path) == [ex |-> ex, path |-> path]
OnRename(stored, after) == [ex |-> "NamedOnRemote", path |-> stored, after |-> after]

DownloadExecutor(event) ==
    IF event.kind = "Deleted" THEN OnId("AbsentFromDisk", event.id)
    ELSE IF event.kind = "Created" \/ event.id \notin DOMAIN table
    THEN OnId("PresentOnDisk", event.id)
    ELSE OnId("UpdatedOnDisk", event.id)

UploadExecutors(event) ==
    CASE event.kind = "Deleted"  -> <<OnPath("AbsentFromRemote", event.stored)>>
      [] event.kind = "Created"  -> <<OnPath("CreatedOnRemote", event.path)>>
      [] event.kind = "Renamed"  -> <<OnRename(event.stored, event.path)>>
      [] event.kind = "Modified" ->
            <<OnPath("ModifiedOnRemote", event.stored)>>
              \o (IF event.stored # event.path
                  THEN <<OnRename(event.stored, event.path)>> ELSE <<>>)

Executors(event) == IF event.src = "remote" THEN <<DownloadExecutor(event)>>
                                            ELSE UploadExecutors(event)

(* is_attachment: a content below another content that is not a folder.    *)
ParentOf(event) == IF event.kind = "Created" THEN remote[event.id].parent
                   ELSE IF event.id \in DOMAIN table THEN table[event.id].parent
                   ELSE Root

IsAttachment(event) ==
    /\ event.src = "remote"
    /\ ParentOf(event) \in DOMAIN table
    /\ TypeAt(table[ParentOf(event)].path) # "folder"

(* get_content fails on what left the space, before any retry. *)
Unreadable(event) ==
    /\ event.src = "remote" /\ event.kind = "Created"
    /\ event.id \notin DOMAIN remote \/ remote[event.id].status = "gone"

Receive(event, own) ==
    /\ job.at = "idle"
    /\ IF event \in ignored
       THEN /\ ignored' = ignored \ {event}
            /\ missed' = (missed \/ ~own)
            /\ UNCHANGED job
       ELSE /\ UNCHANGED <<ignored, missed>>
            /\ IF Unreadable(event) THEN Fail("Unexpected")
               ELSE IF IsAttachment(event) THEN UNCHANGED job
               ELSE job' = [Idle EXCEPT !.at = "start", !.from = event.src,
                                            !.todo = Executors(event)]
    /\ UNCHANGED <<table, remote, disk, edits>>

(* The remote watcher makes a message of another space a deletion when it  *)
(* finds the content in the database, and nothing otherwise: it looks when *)
(* the message arrives, while older ones may still wait for the operator   *)
(* (proceed_remote_event).                                                 *)
WatchLeft ==
    /\ \E k \in DOMAIN tlm :
        LET event == tlm[k].event IN
        /\ event.kind = "Left"
        /\ \A earlier \in 1..(k - 1) : tlm[earlier].event.kind # "Left"
        /\ IF event.id \in DOMAIN table
           THEN /\ tlm' = [tlm EXCEPT ![k] = [event |-> RemoteEvent("Deleted", event.id),
                                             own |-> tlm[k].own]]
                /\ UNCHANGED missed
           ELSE tlm' = RemoveAt(tlm, k) /\ missed' = TRUE
    /\ UNCHANGED <<store, job, remote, disk, notified, edits>>

ReceiveRemote ==
    /\ tlm # <<>> /\ Head(tlm).event.kind # "Left"
    /\ Receive(Head(tlm).event, Head(tlm).own)
    /\ tlm' = Tail(tlm)
    /\ UNCHANGED notified

ReceiveLocal ==
    /\ notified # <<>>
    /\ Receive(Head(notified).event, Head(notified).own)
    /\ notified' = Tail(notified)
    /\ UNCHANGED tlm

-------------------------------------------------------------------------------
(***************************************************************************)
(* AbsentFromDisk: the file or folder of a content deleted remotely goes   *)
(* away; that it was already absent is not an error.                       *)
(***************************************************************************)
Sys(unchanged) == UNCHANGED <<table, edits, missed>> /\ UNCHANGED unchanged

Expect(events) == ignored' = ignored \cup events

RemovableAs(type, path) == IF type = "folder" THEN IsDir(path) ELSE IsFile(path)

AbsentFromDisk ==
    /\ At("AbsentFromDisk", "start")
    /\ IF ~HasPath(table, Now.id) THEN Fail("Unexpected") /\ UNCHANGED <<ignored, disk, notified>>
       ELSE LET path == PathOf(table, Now.id)
                type == TypeAt(table[Now.id].path)
            IN  /\ Expect(IF Exists(path) THEN {LocalEvent("Deleted", path)} ELSE {})
                /\ IF RemovableAs(type, path)
                   THEN /\ disk' = Without(Under(path))
                        /\ \E order \in Removals(path) : Notify(Own(RemoveEvents(order)))
                   ELSE UNCHANGED <<disk, notified>>
                /\ Done(<<ForgotChange(Now.id)>>)
    /\ Sys(<<remote, tlm>>)

-------------------------------------------------------------------------------
(***************************************************************************)
(* PresentOnDisk: a remote content unknown here is written below its       *)
(* parent, which must be known.  The ancestors of a folder are looked for  *)
(* from the current directory of the process and so are never found: an    *)
(* echo is expected for each of them, the empty path included.             *)
(***************************************************************************)
Fetch(id, next) ==
    \/ remote[id].status # "gone" /\ next
    \/ remote[id].status = "gone" /\ Fail("Unexpected")
    \/ Broken

HasRemotePath(parent) == parent = Root \/ HasPath(table, parent)

RemotePathAtTop(content) == <<content.name>>  \* mutant

RemotePath(content) ==
    IF content.parent = Root THEN <<content.name>>
    ELSE Append(PathOf(table, content.parent), content.name)

FetchCreated ==
    /\ At("PresentOnDisk", "start")
    /\ LET content == remote[Now.id] IN
       Fetch(Now.id,
             IF HasRemotePath(content.parent)
             THEN job' = [job EXCEPT !.at = "write", !.got = content]
             ELSE Fail(IF content.parent \in DOMAIN table THEN "Unexpected" ELSE "MissingParent"))
    /\ Sys(<<ignored, world>>)

WriteFolder(path) ==
    LET missing == {p \in Ancestors(path) \cup {path} : ~Exists(p)}
        parentsFirst == {order \in SetToSeqs(missing) :
                            \A i, j \in DOMAIN order : i < j => Len(order[i]) < Len(order[j])}
    IN  /\ Expect({LocalEvent("Created", p) : p \in Ancestors(path) \cup {<<>>}}
                    \cup (IF Exists(path) THEN {} ELSE {LocalEvent("Created", path)}))
        /\ IF (\E p \in Ancestors(path) : IsFile(p)) /\ ~Exists(path)
           THEN Fail("Unexpected") /\ UNCHANGED <<disk, notified>>
           ELSE /\ disk' = [p \in DOMAIN disk \cup missing |->
                               IF p \in missing THEN Folder ELSE disk[p]]
                /\ \E created \in parentsFirst :
                      Notify(Own([k \in DOMAIN created |-> LocalEvent("Created", created[k])]))
                /\ Goto("stat")

WriteFile(path) ==
    /\ Expect(IF Exists(path) THEN {} ELSE {LocalEvent("Created", path)})
    /\ IF IsDir(path) \/ ~ParentIsDir(path)
       THEN Fail("Unexpected") /\ UNCHANGED <<disk, notified>>
       ELSE /\ disk' = With(path, File(NoBytes))
            /\ Notify(Own(WriteEvents(path)))
            /\ Goto("fill")

WriteCreated ==
    /\ At("PresentOnDisk", "write")
    /\ IF job.got.type = "folder" THEN WriteFolder(RemotePath(job.got))
                                  ELSE WriteFile(RemotePath(job.got))
    /\ Sys(<<remote, tlm>>)

(* The bytes are those of the moment of the download, the revision is the  *)
(* one fetched before.  The status of the answer is not looked at: for a   *)
(* content that left the space an error page is written, which like an     *)
(* empty file holds no version.  A download cut off leaves the file        *)
(* truncated.                                                              *)
Body(id) == IF remote[id].status = "gone" THEN NoBytes ELSE remote[id].bytes

Overwrite(path, bytes) ==
    /\ ~IsDir(path) /\ ParentIsDir(path)
    /\ disk' = With(path, File(bytes))
    /\ Notify(Own(WriteEvents(path)))

Download(id, path, echo) ==
    \/ Overwrite(path, Body(id)) /\ Expect({LocalEvent("Modified", echo)}) /\ Goto("stat")
    \/ /\ IsDir(path) \/ ~ParentIsDir(path)
       /\ Fail("Unexpected") /\ UNCHANGED <<ignored, disk, notified>>
    \/ Broken /\ UNCHANGED <<ignored, disk, notified>>
    \/ Broken /\ Overwrite(path, NoBytes) /\ UNCHANGED ignored

FillCreated ==
    /\ At("PresentOnDisk", "fill")
    /\ Download(Now.id, RemotePath(job.got), RemotePath(job.got))
    /\ Sys(<<remote, tlm>>)

Stamp(path) == disk[path].bytes

Stat(path, changes) ==
    /\ IF Exists(path) THEN Done(changes) ELSE Fail("Unexpected")
    /\ Sys(<<ignored, world>>)

StatCreated ==
    /\ At("PresentOnDisk", "stat")
    /\ LET path == RemotePath(job.got) IN
       Stat(path, <<AddChange(Now.id, path, job.got.rev, job.got.parent, Stamp(path))>>)

-------------------------------------------------------------------------------
(***************************************************************************)
(* UpdatedOnDisk: a known content is moved to its remote place if that     *)
(* changed and downloaded.  The echo of the download is expected under the *)
(* former path.                                                            *)
(***************************************************************************)
FetchUpdated ==
    /\ At("UpdatedOnDisk", "start")
    /\ IF ~HasPath(table, Now.id) THEN Fail("Unexpected")
       ELSE LET content == remote[Now.id] IN
            Fetch(Now.id,
                  IF HasRemotePath(content.parent)
                  THEN job' = [job EXCEPT !.at = "move", !.got = content]
                  ELSE Fail("Unexpected"))
    /\ Sys(<<ignored, world>>)

MoveRefusalLogged ==  \* mutant: a refused move is recorded all the same
    Done(<<UpdateChange(Now.id, job.got.name, job.got.rev, job.got.parent, NoBytes)>>)
MoveRefused == Fail("Unexpected")

MoveUpdated ==
    /\ At("UpdatedOnDisk", "move")
    /\ LET from == PathOf(table, Now.id)
           to   == RemotePath(job.got)
       IN  IF from = to THEN Goto("fill") /\ UNCHANGED <<ignored, disk, notified>>
           ELSE IF CanRename(from, to)
           THEN /\ disk' = Renamed(from, to)
                /\ Notify(Own(RenameEvents(from, to)))
                /\ Expect({RenamedEvent(from, to)})
                /\ Goto("fill")
           ELSE MoveRefused /\ UNCHANGED <<ignored, disk, notified>>
    /\ Sys(<<remote, tlm>>)

FillUpdated ==
    /\ At("UpdatedOnDisk", "fill")
    /\ IF job.got.type = "folder"
       THEN /\ Expect({LocalEvent("Modified", PathOf(table, Now.id))})
            /\ Goto("stat")
            /\ UNCHANGED <<disk, notified>>
       ELSE Download(Now.id, RemotePath(job.got), PathOf(table, Now.id))
    /\ Sys(<<remote, tlm>>)

StatUpdated ==
    /\ At("UpdatedOnDisk", "stat")
    /\ LET path == RemotePath(job.got) IN
       Stat(path, <<UpdateChange(Now.id, job.got.name, job.got.rev, job.got.parent,
                                 Stamp(path))>>)

-------------------------------------------------------------------------------
(***************************************************************************)
(* AbsentFromRemote: the content stored under a deleted path is trashed.   *)
(* Only the first of its two calls lets a timeout through.                 *)
(***************************************************************************)
FetchAbsent ==
    /\ At("AbsentFromRemote", "start")
    /\ LET id == ContentIdForPath(table, Now.path) IN
       IF id = Root THEN Fail("Unexpected")
       ELSE \/ IF remote[id].status = "gone" THEN Done(<<ForgotChange(id)>>)
                           ELSE job' = [job EXCEPT !.at = "trash", !.id = id,
                                                   !.got = remote[id]]
            \/ Timeout
            \/ Broken
    /\ Sys(<<ignored, world>>)

(* The server raises an event for its change only. *)
TrashContent(id) ==
    IF Live(id) THEN remote' = Trashed(id) /\ Tell(Own(<<RemoteEvent("Deleted", id)>>))
                ELSE UNCHANGED <<remote, tlm>>

TrashAbsent ==
    /\ At("AbsentFromRemote", "trash")
    /\ \/ /\ remote[job.id].status # "gone"
          /\ TrashContent(job.id)
          /\ Expect(IF job.got.status = "trashed" THEN {}
                    ELSE {RemoteEvent("Deleted", job.id)})
          /\ Done(<<ForgotChange(job.id)>>)
       \/ /\ remote[job.id].status = "gone"
          /\ Fail("Unexpected") /\ UNCHANGED <<ignored, remote, tlm>>
       \/ /\ RepliesLost /\ remote[job.id].status # "gone" /\ Broken
          /\ TrashContent(job.id) /\ UNCHANGED ignored
       \/ Broken /\ UNCHANGED <<ignored, remote, tlm>>
    /\ Sys(<<disk, notified>>)

-------------------------------------------------------------------------------
(***************************************************************************)
(* CreatedOnRemote: what appeared on disk is created below the content of  *)
(* its parent path, at the top of the space when there is none; a content  *)
(* that already has this name there is adopted.                            *)
(***************************************************************************)
NoParentId(path) == Root  \* mutant
ParentId(path) == IF Len(path) = 1 THEN Root ELSE ContentIdForPath(table, Front(path))

Create(id, name, parent, type, bytes) ==
    /\ remote' = WithContent(id, NewContent(name, parent, type, bytes))
    /\ Tell(Own(<<RemoteEvent("Created", id)>>))

CreateContent ==
    /\ At("CreatedOnRemote", "start")
    /\ LET path == Now.path
           name == Last(path)
           parent == ParentId(path)
           type == TypeAt(path)
           bytes == IF IsFile(path) THEN disk[path].bytes ELSE NoBytes
           asked == Exists(path) /\ LiveParent(parent)
       IN  \/ /\ asked /\ Homonyms(Root, name, parent) = {}
              /\ \E id \in NewIds :
                    /\ Create(id, name, parent, type, bytes)
                    /\ Expect({RemoteEvent("Created", id)})
                    /\ job' = [job EXCEPT !.id = id,
                                          !.at = IF type = "file" THEN "fill" ELSE "get"]
           \/ /\ asked /\ Homonyms(Root, name, parent) # {}
              /\ Goto("find") /\ UNCHANGED <<ignored, remote, tlm>>
           \/ /\ ~asked
              /\ Fail("Unexpected") /\ UNCHANGED <<ignored, remote, tlm>>
           \/ /\ asked /\ Homonyms(Root, name, parent) = {}
              /\ RepliesLost /\ (Timeout \/ Broken)
              /\ \E id \in NewIds : Create(id, name, parent, type, bytes)
              /\ UNCHANGED ignored
           \/ (Timeout \/ Broken) /\ UNCHANGED <<ignored, remote, tlm>>
    /\ Sys(<<disk, notified>>)

FindExisting ==
    /\ At("CreatedOnRemote", "find")
    /\ LET found == Homonyms(Root, Last(Now.path), ParentId(Now.path)) IN
       \/ /\ found # {}
          /\ \E id \in found :
                job' = [job EXCEPT !.id = id,
                                   !.at = IF TypeAt(Now.path) = "file" THEN "compare" ELSE "get"]
       \/ found = {} /\ Fail("Unexpected")
       \/ Broken
    /\ Sys(<<ignored, world>>)

(* Both sides are read; a folder of this name has no bytes to compare.     *)
CompareExisting ==
    /\ At("CreatedOnRemote", "compare")
    /\ \/ IF ~IsFile(Now.path) THEN Fail("Unexpected")
          ELSE Goto(IF remote[job.id].bytes = disk[Now.path].bytes THEN "get" ELSE "fill")
       \/ Timeout
       \/ Broken
    /\ Sys(<<ignored, world>>)

CanFill(id, path) == Live(id) /\ remote[id].type = "file" /\ IsFile(path)

Fill(id, path) ==
    /\ remote' = Filled(id, disk[path].bytes)
    /\ Tell(Own(<<RemoteEvent("Updated", id)>>))

Upload(id, path) == Fill(id, path) /\ Expect({RemoteEvent("Updated", id)})

FillContent ==
    /\ At("CreatedOnRemote", "fill")
    /\ \/ /\ CanFill(job.id, Now.path)
          /\ Upload(job.id, Now.path) /\ Goto("get")
       \/ /\ ~CanFill(job.id, Now.path)
          /\ Fail("Unexpected") /\ UNCHANGED <<ignored, remote, tlm>>
       \/ /\ RepliesLost /\ CanFill(job.id, Now.path) /\ Broken
          /\ Fill(job.id, Now.path) /\ UNCHANGED ignored
       \/ Broken /\ UNCHANGED <<ignored, remote, tlm>>
    /\ Sys(<<disk, notified>>)

GetContent(executor) ==
    /\ At(executor, "get")
    /\ Fetch(job.id, job' = [job EXCEPT !.at = "stat", !.got = remote[job.id]])
    /\ Sys(<<ignored, world>>)

GetCreated == GetContent("CreatedOnRemote")

StatContent ==
    /\ At("CreatedOnRemote", "stat")
    /\ Stat(Now.path, <<AddChange(job.id, Now.path, job.got.rev, job.got.parent,
                                  Stamp(Now.path))>>)

-------------------------------------------------------------------------------
(***************************************************************************)
(* ModifiedOnRemote: the bytes of a known content are uploaded.  Every     *)
(* error of the upload reaches the executor as Unknown, because it went    *)
(* through `context`, so none matches ContentDeletedOrArchived: nothing is *)
(* restored and the executor carries on as if the upload had been made,    *)
(* without expecting the echo of one the server did serve.                 *)
(***************************************************************************)
UploadModified ==
    /\ At("ModifiedOnRemote", "start")
    /\ LET id == ContentIdForPath(table, Now.path)
           path == PathOf(table, id)
           type == TypeAt(table[id].path)
           next == job' = [job EXCEPT !.id = id, !.at = "get"]
       IN  IF id = Root \/ ~HasPath(table, id)
           THEN Fail("Unexpected") /\ UNCHANGED <<ignored, remote, tlm>>
           ELSE \/ /\ type = "file" /\ CanFill(id, path)
                   /\ Upload(id, path) /\ next
                \/ /\ ~(type = "file" /\ CanFill(id, path))
                   /\ next /\ UNCHANGED <<ignored, remote, tlm>>
                \/ type = "file" /\ Faults # {} /\ next /\ UNCHANGED <<ignored, remote, tlm>>
                \/ /\ type = "file" /\ RepliesLost /\ CanFill(id, path)
                   /\ Fill(id, path) /\ next /\ UNCHANGED ignored
    /\ Sys(<<disk, notified>>)

GetModified == GetContent("ModifiedOnRemote")

StatModified ==
    /\ At("ModifiedOnRemote", "stat")
    /\ LET path == PathOf(table, job.id) IN
       Stat(path, <<UpdateChange(job.id, job.got.name, job.got.rev, job.got.parent,
                                 Stamp(path))>>)

-------------------------------------------------------------------------------
(***************************************************************************)
(* NamedOnRemote: a content renamed or moved on disk gets its new label,   *)
(* then its new parent; a content that already has this name there is      *)
(* trashed and forgotten first.  The revision is that of the last call.    *)
(***************************************************************************)
NamedFails(id) ==
    \/ id = Root
    \/ ~HasPath(table, id)
    \/ TypeAt(PathOf(table, id)) # TypeAt(Now.after)

Relabel(id, name) ==
    /\ remote' = Labelled(id, name)
    /\ Tell(Own(<<RemoteEvent("Updated", id)>>))

(* The revision answered to a change of label or parent. *)
NoRevision(id) == 0  \* mutant
LaterRevision(id) == remote[id].rev + 2  \* mutant
AnsweredRevision(id) == remote[id].rev + 1

SetLabel ==
    /\ At("NamedOnRemote", "start")
    /\ LET id == ContentIdForPath(table, Now.path)
           name == Last(Now.after)
           possible == Live(id) /\ Homonyms(id, name, remote[id].parent) = {}
           next(rev) == job' = [job EXCEPT !.at = "move", !.id = id, !.got = rev]
       IN  IF NamedFails(id)
           THEN Fail("Unexpected") /\ UNCHANGED <<ignored, remote, tlm>>
           ELSE IF FileName(table, id) = name
           THEN next(table[id].rev) /\ UNCHANGED <<ignored, remote, tlm>>
           ELSE \/ /\ possible /\ Relabel(id, name)
                   /\ Expect({RemoteEvent("Updated", id)})
                   /\ next(AnsweredRevision(id))
                \/ RepliesLost /\ possible /\ Relabel(id, name) /\ Broken /\ UNCHANGED ignored
                \/ ~possible /\ Fail("Unexpected") /\ UNCHANGED <<ignored, remote, tlm>>
                \/ Broken /\ UNCHANGED <<ignored, remote, tlm>>
    /\ Sys(<<disk, notified>>)

Reparent(id, parent) ==
    /\ remote' = Parented(id, parent)
    /\ Tell(Own(<<RemoteEvent("Updated", id)>>))

(* set_parent, tried before ("move") and after ("again") a replacement.    *)
SetParentAt(point) ==
    /\ At("NamedOnRemote", point)
    /\ LET id == job.id
           parent == ParentId(Now.after)
           conflict == Homonyms(id, remote[id].name, parent) # {}
           possible == Live(id) /\ LiveParent(parent)
           stay == UNCHANGED <<ignored, remote, tlm>>
       IN  IF Front(Now.after) = Front(PathOf(table, id))
           THEN Goto("stat") /\ stay
           ELSE \/ /\ possible /\ ~conflict
                   /\ Reparent(id, parent)
                   /\ Expect({RemoteEvent("Updated", id)})
                   /\ job' = [job EXCEPT !.at = "stat", !.got = AnsweredRevision(id)]
                \/ /\ possible /\ conflict /\ stay
                   /\ IF point = "move" THEN Goto("replace") ELSE Fail("Unexpected")
                \/ ~possible /\ Fail("Unexpected") /\ stay
                \/ /\ RepliesLost /\ possible /\ ~conflict /\ (Timeout \/ Broken)
                   /\ Reparent(id, parent) /\ UNCHANGED ignored
                \/ (Timeout \/ Broken) /\ stay
    /\ Sys(<<disk, notified>>)

SetParent == SetParentAt("move")

(* The content to replace is looked for, then trashed whatever happened to *)
(* it since; the change that forgets it is what the job keeps of it.       *)
FindHomonym ==
    /\ At("NamedOnRemote", "replace")
    /\ LET found == Homonyms(job.id, Last(Now.after), ParentId(Now.after)) IN
       \/ \E other \in found :
             job' = [job EXCEPT !.at = "trash", !.mods = <<ForgotChange(other)>>]
       \/ found = {} /\ Fail("Unexpected")
       \/ Timeout
       \/ Broken
    /\ Sys(<<ignored, world>>)

TrashHomonym ==
    /\ At("NamedOnRemote", "trash")
    /\ LET other == Head(job.mods).id
           stay == UNCHANGED <<ignored, remote, tlm>>
       IN  \/ /\ remote[other].status # "gone"
              /\ TrashContent(other)
              /\ Expect({RemoteEvent("Deleted", other)})
              /\ Goto("again")
           \/ remote[other].status = "gone" /\ Fail("Unexpected") /\ stay
           \/ /\ RepliesLost /\ remote[other].status # "gone" /\ (Timeout \/ Broken)
              /\ TrashContent(other) /\ UNCHANGED ignored
           \/ (Timeout \/ Broken) /\ stay
    /\ Sys(<<disk, notified>>)

SetParentAgain == SetParentAt("again")

StatNamed ==
    /\ At("NamedOnRemote", "stat")
    /\ Stat(Now.after,
            job.mods \o <<UpdateChange(job.id, Last(Now.after), job.got, ParentId(Now.after),
                                       Stamp(Now.after))>>)

-------------------------------------------------------------------------------
(* State::change, one modification after the other. *)
ApplyChange ==
    /\ job.at = "apply"
    /\ IF job.changes = <<>> THEN job' = Idle /\ UNCHANGED table
       ELSE IF Accepted(table, Head(job.changes))
       THEN /\ table' = Changed(table, Head(job.changes))
            /\ job' = [job EXCEPT !.changes = Tail(@)]
       ELSE Fail("State") /\ UNCHANGED table
    /\ UNCHANGED <<ignored, world, edits, missed>>

-------------------------------------------------------------------------------
(* The operator starts once the startup synchronization is over: both sides *)
(* and the State agree, on nothing or on a folder and what it contains.     *)
Agree(contents, tree, rows) == remote = contents /\ disk = tree /\ table = rows

StartEmpty == "empty" \in Seeds /\ Agree(EmptyTable, EmptyTable, EmptyTable)

StartNested ==
    /\ "nested" \in Seeds
    /\ \E top, below \in Ids, entry \in {Folder, File(NoBytes)} :
        LET name   == CHOOSE name \in Names : TRUE
            inside == <<name, name>>
        IN  /\ top < below
            /\ \A id \in Ids \ {top, below} : below < id
            /\ Agree([id \in {top, below} |->
                        IF id = top THEN NewContent(name, Root, "folder", NoBytes)
                                    ELSE NewContent(name, top, entry.type, NoBytes)],
                     [path \in {<<name>>, inside} |-> IF path = inside THEN entry ELSE Folder],
                     [id \in {top, below} |->
                        IF id = top
                        THEN [path |-> <<name>>, rev |-> 1, parent |-> Root, stamp |-> NoBytes]
                        ELSE [path |-> inside, rev |-> 1, parent |-> top, stamp |-> NoBytes]])

Init ==
    /\ StartEmpty \/ StartNested
    /\ ignored = {} /\ job = Idle
    /\ tlm = <<>> /\ notified = <<>>
    /\ edits = 0 /\ missed = FALSE

DownloadStep ==
    \/ AbsentFromDisk
    \/ FetchCreated \/ WriteCreated \/ FillCreated \/ StatCreated
    \/ FetchUpdated \/ MoveUpdated \/ FillUpdated \/ StatUpdated

UploadStep ==
    \/ FetchAbsent \/ TrashAbsent
    \/ CreateContent \/ FindExisting \/ CompareExisting \/ FillContent
    \/ GetCreated \/ StatContent
    \/ UploadModified \/ GetModified \/ StatModified
    \/ SetLabel \/ SetParent \/ FindHomonym \/ TrashHomonym \/ SetParentAgain \/ StatNamed

OperatorStep ==
    WatchLeft \/ ReceiveRemote \/ ReceiveLocal \/ DownloadStep \/ UploadStep \/ ApplyChange

UserActs == UserStep /\ UNCHANGED <<store, job, missed>>

Next == OperatorStep \/ UserActs

Spec == Init /\ [][Next]_vars

(* Neither the operator nor the watcher is suspended while it has something *)
(* to do.                                                                  *)
FairSpec == Spec /\ WF_vars(OperatorStep)

Quiet == job.at = "idle" /\ tlm = <<>> /\ notified = <<>>

-------------------------------------------------------------------------------
(***************************************************************************)
(* Properties.                                                             *)
(***************************************************************************)
Points == {"idle", "start", "write", "move", "fill", "find", "compare", "get", "trash",
           "replace", "again", "stat", "apply", "failed"}

(* The type invariant. *)
TypeOK ==
    /\ IsTable(table)
    /\ DOMAIN remote \subseteq Ids /\ remote \in [DOMAIN remote -> Content]
    /\ job.at \in Points /\ job.from \in {"none", "local", "remote"}
    /\ job.retry \in 0..RETRY_COUNT_MAX
    /\ edits \in 0..MaxEdits /\ missed \in BOOLEAN

(* The State never claims a revision that the server has not issued: the   *)
(* next startup would take the content for unchanged.                      *)
RevisionNotAhead ==
    \A id \in DOMAIN table : id \in DOMAIN remote /\ table[id].rev <= remote[id].rev

(* Nor does it go back to an older revision of a content it still knows,   *)
(* although a revision is read calls before the State is changed.          *)
RevisionsGrow ==
    [][\A id \in DOMAIN table \cap DOMAIN table' : table[id].rev <= table'[id].rev]_vars

(* The parent_id column never loops: `path` would not return.  Contents    *)
(* move on the server while older places of others are still recorded; it  *)
(* is rename(2) that refuses to make a folder its own descendant.          *)
NoAncestryLoop == Acyclic(table)

(* What a remote event records has a parent the State knows, although the  *)
(* parent was looked up before the download and the State is changed after *)
(* it.  (Uploads adopt the parent the server answers, known or not.)       *)
DownloadsKeepParents ==
    [][job.from = "remote" /\ ParentsKnown(table) => ParentsKnown(table')]_vars

(* Nor does a remote event make the parent_id column loop, although the    *)
(* place it records was allowed or refused by the disk as it then was.     *)
DownloadsMakeNoLoop ==
    [][job.from = "remote" /\ ParentsKnown(table) /\ Acyclic(table) => Acyclic(table')]_vars

(* Once the users stop, the operator comes to rest, failed or with nothing *)
(* to do: it neither retries for ever nor answers its own echoes for ever. *)
Settles == <>[](Quiet \/ job.at = "failed")

(* The two sides, as a user compares them.                                 *)
Visible == {id \in DOMAIN remote : Live(id)}

RemoteTable ==
    [id \in Visible |-> [path |-> <<remote[id].name>>, parent |-> remote[id].parent]]

RemoteTree ==
    {[path |-> PathOf(RemoteTable, id), type |-> remote[id].type, bytes |-> remote[id].bytes] :
        id \in {seen \in Visible : HasPath(RemoteTable, seen)}}

DiskTree ==
    {[path |-> path, type |-> disk[path].type, bytes |-> disk[path].bytes] :
        path \in DOMAIN disk}

(* With nothing left to do both sides hold the same files and folders,     *)
(* unless an event of a user was missed.                                   *)
Converged == Quiet /\ ~missed => DiskTree = RemoteTree

(* content_id_for_path finds a content under the path `path` gives it.     *)
ColumnsFresh ==
    \A id \in DOMAIN table :
        HasPath(table, id) => ContentIdForPath(table, PathOf(table, id)) = id

(* It does after every change of calm users who rename files only, unless  *)
(* one was missed: what is created below a folder that was goes to the top *)
(* of the space.                                                           *)
PathsFound == ~missed => ColumnsFresh

(* While nobody works on the disk, nothing is trashed on the server. *)
NothingTrashedUnasked ==
    [][OperatorStep => \A id \in DOMAIN remote :
           Live(id) => remote'[id].status = "live"]_vars

(* While nobody works on the server, nothing is changed on the disk. *)
LocalEditsSurvive == [][OperatorStep => UNCHANGED disk]_vars

===============================================================================
