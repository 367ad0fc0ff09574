------------------------------- MODULE Reduction -------------------------------
(***************************************************************************)
(* LocalReceiverReducer::next_event (trsync/src/local/reducer.rs): the     *)
(* local events that piled up are merged into the oldest of them.          *)
(*                                                                         *)
(* The nested loops visit every event once and carry the oldest event as   *)
(* it is by then (`disk_event`) and the events kept for later              *)
(* (`new_disk_events`).  When a deletion cancels the creation it follows,  *)
(* the next event not yet visited takes its place.                         *)
(***************************************************************************)
EXTENDS Sequences, SequencesExt

(* DiskEventWrap carries the path the content is stored under.             *)
LocalEvent(kind, path) ==
    [src |-> "local", kind |-> kind, stored |-> path, path |-> path]

RenamedEvent(before, after) ==
    [src |-> "local", kind |-> "Renamed", stored |-> before,
     before |-> before, path |-> after]

NoEvent == [kind |-> "None"]

AbsorbsAny(head, event) ==  \* mutant
    head.kind \in {"Created", "Modified", "Renamed"} /\ event.kind = "Modified"

(* The bytes will be read when the earlier event is worked on. *)
Absorbs(head, event) ==
    /\ head.kind \in {"Created", "Modified", "Renamed"}
    /\ event.kind = "Modified" /\ event.path = head.path

Tracks(head, event) ==
    /\ head.kind \in {"Created", "Modified", "Renamed"}
    /\ event.kind = "Renamed" /\ event.before = head.path

TrackedStored(head, event) ==  \* mutant: the stored path follows the renames
    [head EXCEPT !.stored = event.path, !.path = event.path]

Tracked(head, event) ==
    IF head.kind = "Renamed"
    THEN [head EXCEPT !.before = event.before, !.path = event.path]
    ELSE [head EXCEPT !.path = event.path]

Ends(head, event) ==
    /\ head.kind \in {"Created", "Modified", "Renamed"}
    /\ event.kind = "Deleted" /\ event.path = head.path

EndedSilently(head, event) == NoEvent  \* mutant

Ended(head, event) ==
    IF head.kind = "Created" THEN NoEvent
    ELSE [LocalEvent("Deleted", event.path) EXCEPT !.stored = head.stored]

Visit(acc, event) ==
    CASE acc.head = NoEvent       -> [acc EXCEPT !.head = event]
      [] Absorbs(acc.head, event) -> acc
      [] Tracks(acc.head, event)  -> [acc EXCEPT !.head = Tracked(@, event)]
      [] Ends(acc.head, event)    -> [acc EXCEPT !.head = Ended(@, event)]
      [] OTHER                    -> [acc EXCEPT !.rest = Append(@, event)]

NextEventPeeked(events) ==  \* mutant: the event returned is not taken out
    LET next == FoldLeft(Visit, [head |-> NoEvent, rest |-> <<>>], events)
    IN  [head |-> next.head, rest |-> <<next.head>> \o next.rest]

(* [head |-> what next_event returns, rest |-> what it leaves in `events`] *)
NextEvent(events) == FoldLeft(Visit, [head |-> NoEvent, rest |-> <<>>], events)

===============================================================================
