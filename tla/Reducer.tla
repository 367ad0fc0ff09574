-------------------------------- MODULE Reducer --------------------------------
(***************************************************************************)
(* The local event pipeline: users work on files, the watcher queues an    *)
(* event for each change, the listener thread asks LocalReceiverReducer    *)
(* (trsync/src/local/reducer.rs) for the next event to work on.            *)
(*                                                                         *)
(* What the events are worth is judged on a mirror of the folder, which an *)
(* ideal operator changes as each event says, at once, reading the bytes   *)
(* that are on disk by then.  A file is the version of its bytes.          *)
(***************************************************************************)
EXTENDS Reduction, Integers, FiniteSets

CONSTANTS Paths,   \* paths of files
          MaxEdits \* bound: changes made by the users

ASSUME ReducerAssumption == MaxEdits \in Nat

VARIABLES
    disk,    \* existing path -> version of the bytes
    channel, \* what the watcher sent: local_receiver
    events,  \* what the reducer holds
    blocked, \* the listener waits in local_receiver.recv()
    mirror,  \* what the events delivered so far make of the folder
    file,    \* history: path -> the file last found there
    hasty,   \* history: whether a change of the users came too early
    renamed, \* history: the paths files were renamed to
    edits    \* changes made so far

history == <<file, hasty, renamed, edits>>
vars == <<disk, channel, events, blocked, mirror, history>>

Pending == events \o channel

Put(tree, path, bytes) == [p \in DOMAIN tree \cup {path} |-> IF p = path THEN bytes ELSE tree[p]]
Drop(tree, path)       == [p \in DOMAIN tree \ {path} |-> tree[p]]

-------------------------------------------------------------------------------
(* A change comes too early when it takes a path the operator still has,   *)
(* or has yet to hear of, or when it deletes a file whose creation it has  *)
(* yet to hear of.                                                         *)
Mentions(event) == IF event.kind = "Renamed" THEN {event.before, event.path} ELSE {event.path}
Held(path) == path \in DOMAIN mirror \/ \E k \in DOMAIN Pending : path \in Mentions(Pending[k])
Untold(path) ==
    \E k \in DOMAIN Pending : Pending[k].kind = "Created" /\ file[Pending[k].path] = file[path]

Change(tree, event, early) ==
    /\ edits < MaxEdits /\ edits' = edits + 1
    /\ disk' = tree
    /\ channel' = Append(channel, event)
    /\ hasty' = (hasty \/ early)
    /\ renamed' = IF event.kind = "Renamed" THEN renamed \cup {event.path} ELSE renamed
    /\ UNCHANGED <<events, blocked, mirror>>

UserCreates ==
    \E path \in Paths \ DOMAIN disk :
        /\ Change(Put(disk, path, edits + 1), LocalEvent("Created", path), Held(path))
        /\ file' = [file EXCEPT ![path] = edits + 1]

UserWrites ==
    \E path \in DOMAIN disk :
        /\ Change(Put(disk, path, edits + 1), LocalEvent("Modified", path), FALSE)
        /\ UNCHANGED file

UserRenames ==
    \E from \in DOMAIN disk, to \in Paths :
        /\ from # to
        /\ Change(Put(Drop(disk, from), to, disk[from]), RenamedEvent(from, to), Held(to))
        /\ file' = [file EXCEPT ![to] = file[from]]

UserDeletes ==
    \E path \in DOMAIN disk :
        /\ Change(Drop(disk, path), LocalEvent("Deleted", path), Untold(path))
        /\ UNCHANGED file

-------------------------------------------------------------------------------
(* The ideal operator. *)
Mirrored(event) ==
    CASE event.kind = "Deleted" -> Drop(mirror, event.stored)
      [] event.kind = "Created" /\ event.path \in DOMAIN disk ->
            Put(mirror, event.path, disk[event.path])
      [] event.kind = "Modified" /\ event.path \in DOMAIN disk ->
            Put(Drop(mirror, event.stored), event.path, disk[event.path])
      [] event.kind = "Renamed" /\ event.stored \in DOMAIN mirror ->
            Put(Drop(mirror, event.stored), event.path, mirror[event.stored])
      [] OTHER -> mirror

(* recv: everything the channel holds is taken before next_event; when     *)
(* that returns nothing the thread waits for one more event.               *)
Recv ==
    /\ ~blocked
    /\ LET next == NextEvent(Pending) IN
        /\ events' = next.rest
        /\ IF next.head = NoEvent
           THEN blocked' = TRUE /\ UNCHANGED mirror
           ELSE mirror' = Mirrored(next.head) /\ UNCHANGED blocked
    /\ channel' = <<>>
    /\ UNCHANGED <<disk, history>>

WakeUp ==
    /\ blocked /\ channel # <<>>
    /\ events' = Append(events, Head(channel))
    /\ channel' = Tail(channel)
    /\ blocked' = FALSE
    /\ UNCHANGED <<disk, mirror, history>>

-------------------------------------------------------------------------------
(* A folder already synchronized. *)
Init ==
    /\ \E known \in SUBSET Paths : disk = [path \in known |-> 0]
    /\ mirror = disk /\ file = [path \in Paths |-> 0] /\ hasty = FALSE /\ renamed = {}
    /\ channel = <<>> /\ events = <<>> /\ blocked = FALSE
    /\ edits = 0

UserStep == UserCreates \/ UserWrites \/ UserRenames \/ UserDeletes
Listener == Recv \/ WakeUp

Next == UserStep \/ Listener

Spec == Init /\ [][Next]_vars
FairSpec == Spec /\ WF_vars(Listener)

-------------------------------------------------------------------------------
(***************************************************************************)
(* Properties.                                                             *)
(***************************************************************************)
Kinds == {"Created", "Modified", "Deleted", "Renamed"}

(* The type invariant. *)
TypeOK ==
    /\ DOMAIN disk \subseteq Paths /\ disk \in [DOMAIN disk -> 0..MaxEdits]
    /\ DOMAIN mirror \subseteq Paths /\ mirror \in [DOMAIN mirror -> 0..MaxEdits]
    /\ \A k \in DOMAIN events : events[k].kind \in Kinds /\ events[k].path \in Paths
    /\ \A k \in DOMAIN channel : channel[k].kind \in Kinds /\ channel[k].path \in Paths
    /\ blocked \in BOOLEAN /\ hasty \in BOOLEAN /\ edits \in 0..MaxEdits
    /\ file \in [Paths -> 0..edits]

Drained == channel = <<>> /\ events = <<>> /\ blocked

(* Merged or not, the events delivered tell of every file that came, went  *)
(* or changed its name, unless a change came too early: a creation that is *)
(* cancelled is replaced by an event that others came before, and a path   *)
(* that is taken again is confused with what it was.                       *)
SameFiles == Drained /\ ~hasty => DOMAIN mirror = DOMAIN disk

(* They also tell of the last bytes, except those written to a file after  *)
(* it was renamed: a rename absorbs the modifications that follow it.      *)
SameBytesUnlessRenamed ==
    Drained /\ ~hasty => \A path \in DOMAIN disk \cap DOMAIN mirror :
                            mirror[path] = disk[path] \/ path \in renamed

(* Once the users stop, every event is handed over: none stays behind in   *)
(* the reducer while the listener waits for the channel.                   *)
HandedOver == <>[](channel = <<>> /\ events = <<>>)

===============================================================================
