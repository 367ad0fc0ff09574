----------------------------- MODULE StartupProofs -----------------------------
(***************************************************************************)
(* The invariant of the operator survives starts, passes, errors and       *)
(* crashes: whatever stopped the runs before, the State a run starts from  *)
(* is not ahead of the server.                                             *)
(***************************************************************************)
EXTENDS MCStartup, OperatorProofs

Events(contents) == RemoteEvents(DOMAIN contents) \cup PlainEvents

Planned(contents) == [path: Path, event: Events(contents)]

Passing == phase \in {"remote", "local"}

(* The changes of a run name contents of the server and paths.             *)
PlanOK ==
    /\ unresolved \in SUBSET Planned(remote) /\ IsFiniteSet(unresolved)
    /\ todo \in Seq(Planned(remote)) /\ left \in Seq(Planned(remote))
    /\ locally \in Seq(Planned(remote))
    /\ Passing /\ (job.at # "idle" \/ left # <<>>) => current \in Planned(remote)

InHand == IF job.at = "idle" THEN 0 ELSE 1

(* What is left, what is in hand and what is to come are one pass.         *)
PhaseOK ==
    /\ phase \in Phases /\ runs \in 0..MaxRuns /\ size \in Nat
    /\ phase # "scanning" => unresolved = {}
    /\ ~Passing => left = <<>>
    /\ phase \in {"off", "listing", "live"} => todo = <<>> /\ locally = <<>>
    /\ phase = "local" => locally = <<>>
    /\ Passing => Len(todo) + Len(left) + InHand <= size
    /\ phase \in {"off", "listing", "scanning", "asking"} => job = Idle /\ ignored = {}
    /\ hearing \subseteq {"remote", "local"} /\ (phase = "off" => hearing = {})

StartupInv == Inv /\ PlanOK /\ PhaseOK

-------------------------------------------------------------------------------
(* The server never loses a content, whatever the operator does.           *)
KnownGrows == DOMAIN remote \subseteq DOMAIN remote'

LEMMA DownloadsTellNothing ==
    ASSUME DownloadStep
    PROVE  UNCHANGED remote
<1>1. CASE AbsentFromDisk
    BY <1>1 DEF AbsentFromDisk, Sys
<1>2. CASE FetchCreated \/ FetchUpdated
    BY <1>2 DEF FetchCreated, FetchUpdated, FetchDownload, Sys, world
<1>3. CASE WriteCreated
    BY <1>3 DEF WriteCreated, Sys
<1>4. CASE FillCreated
    BY <1>4 DEF FillCreated, Sys
<1>5. CASE FillUpdated
    BY <1>5 DEF FillUpdated, Sys
<1>6. CASE MoveUpdated
    BY <1>6 DEF MoveUpdated, Sys
<1>7. CASE StatCreated \/ StatUpdated
    BY <1>7 DEF StatCreated, StatUpdated, Stat, Sys, world
<1> QED
    BY <1>1, <1>2, <1>3, <1>4, <1>5, <1>6, <1>7 DEF DownloadStep

LEMMA UploadsKeepContents ==
    ASSUME UploadStep
    PROVE  KnownGrows
<1> USE DEF KnownGrows
<1>1. ASSUME NEW id, TrashContent(id) PROVE KnownGrows
    BY <1>1 DEF TrashContent, Trashed, Standing
<1>2. ASSUME NEW id, NEW path, Fill(id, path) PROVE KnownGrows
    BY <1>2 DEF Fill, Filled
<1>3. CASE FetchAbsent
    BY <1>3 DEF FetchAbsent, Sys, world
<1>4. CASE TrashAbsent
    BY <1>1, <1>4 DEF TrashAbsent
<1>5. CASE CreateContent
    BY <1>5 DEF CreateContent, Create, WithContent
<1>6. CASE FindExisting \/ CompareExisting
    BY <1>6 DEF FindExisting, CompareExisting, Sys, world
<1>7. CASE FillContent
    BY <1>2, <1>7 DEF FillContent, Upload
<1>8. CASE GetCreated \/ GetModified
    BY <1>8 DEF GetCreated, GetModified, GetContent, Sys, world
<1>9. CASE StatContent \/ StatModified \/ StatNamed
    BY <1>9 DEF StatContent, StatModified, StatNamed, Stat, Sys, world
<1>10. CASE UploadModified
    BY <1>2, <1>10 DEF UploadModified, Upload
<1>11. CASE SetLabel
    BY <1>11 DEF SetLabel, Relabel, Labelled
<1>12. CASE SetParent \/ SetParentAgain
    <2>1. PICK point : SetParentAt(point)
        BY <1>12 DEF SetParent, SetParentAgain
    <2>2. UNCHANGED remote \/ \E id, parent : Reparent(id, parent)
        BY <2>1 DEF SetParentAt
    <2> QED
        BY <2>2 DEF Reparent, Parented
<1>13. CASE FindHomonym \/ TrashHomonym
    BY <1>1, <1>13 DEF FindHomonym, TrashHomonym, Sys, world
<1> QED
    BY <1>3, <1>4, <1>5, <1>6, <1>7, <1>8, <1>9, <1>10, <1>11, <1>12, <1>13 DEF UploadStep

(* An executor works for an event only.                                    *)
LEMMA WorkInHand ==
    ASSUME DownloadStep \/ UploadStep \/ ApplyChange
    PROVE  job.at # "idle" /\ KnownGrows
<1>1. CASE DownloadStep
    <2>1. job.at # "idle"
        BY <1>1 DEF DownloadStep, AbsentFromDisk, FetchCreated, FetchUpdated, FetchDownload,
                    WriteCreated, FillCreated, StatCreated, MoveUpdated, FillUpdated,
                    StatUpdated, At
    <2> QED
        BY <1>1, <2>1, DownloadsTellNothing DEF KnownGrows
<1>2. CASE UploadStep
    <2>1. job.at # "idle"
        BY <1>2 DEF UploadStep, FetchAbsent, TrashAbsent, CreateContent, FindExisting,
                    CompareExisting, FillContent, GetCreated, GetModified, GetContent,
                    StatContent, StatModified, StatNamed, UploadModified, SetLabel, SetParent,
                    SetParentAgain, SetParentAt, FindHomonym, TrashHomonym, At
    <2> QED
        BY <1>2, <2>1, UploadsKeepContents
<1>3. CASE ApplyChange
    BY <1>3 DEF ApplyChange, world, KnownGrows
<1> QED
    BY <1>1, <1>2, <1>3

-------------------------------------------------------------------------------
(* Plans stay plans while the server grows.                                *)
LEMMA PlansGrow ==
    ASSUME NEW contents, DOMAIN remote \subseteq DOMAIN contents
    PROVE  /\ Planned(remote) \subseteq Planned(contents)
           /\ Seq(Planned(remote)) \subseteq Seq(Planned(contents))
<1>1. Events(remote) \subseteq Events(contents)
    BY DEF Events, RemoteEvents
<1>2. Planned(remote) \subseteq Planned(contents)
    BY <1>1 DEF Planned
<1> QED
    BY <1>2, SeqMonotonic

LEMMA KeepsPlan ==
    ASSUME PlanOK, KnownGrows, UNCHANGED <<phase, plan>>,
           Passing /\ job'.at # "idle" => job.at # "idle"
    PROVE  PlanOK'
<1>1. /\ Planned(remote) \subseteq Planned(remote')
      /\ Seq(Planned(remote)) \subseteq Seq(Planned(remote'))
    BY PlansGrow DEF KnownGrows
<1> QED
    BY <1>1 DEF PlanOK, plan, Passing

(* What RemoteSync and LocalSync find.                                     *)
LEMMA RemoteChangesType ==
    ASSUME Inv
    PROVE  RemoteChanges \in SUBSET Planned(remote) /\ IsFiniteSet(RemoteChanges)
<1> DEFINE ids == Appeared \cup Disappeared
           f   == [id \in ids |-> SeenRemotely(id)]
<1>1. IsTable(table) /\ RevisionNotAhead /\ ContentsOK(remote)
    BY DEF Inv, UsersOK, SidesOK
<1>2. ids \subseteq Ids /\ ids \subseteq DOMAIN remote
      /\ \A id \in ids : id \in Listed \/ id \in DOMAIN table
    BY <1>1 DEF Appeared, Disappeared, Listed, Visible, ContentsOK, RevisionNotAhead
<1>3. IsFiniteSet(ids)
    BY <1>2, StartupAssumption, FS_Subset
<1>4. \A known \in DOMAIN RemoteTable : FileName(RemoteTable, known) \in Names
    <2>1. \A known \in Visible : remote[known].name \in Names
        BY <1>1 DEF Visible, ContentsOK, Content
    <2>2. \A name \in Names : Last(<<name>>) = name
        BY DEF Last
    <2> QED
        BY <2>1, <2>2 DEF RemoteTable, FileName
<1>5. ASSUME NEW id \in ids
      PROVE  SeenRemotely(id) \in Planned(remote)
    <2>1. \A kind \in {"Created", "Updated", "Deleted"} :
                RemoteEvent(kind, id) \in Events(remote)
        BY <1>2 DEF RemoteEvent, Events, RemoteEvents
    <2>2. CASE id \in Listed
        <3>1. PathOf(RemoteTable, id) \in Path
            BY <1>4, <2>2, PathOfNames DEF Listed
        <3> QED
            BY <2>1, <2>2, <3>1 DEF SeenRemotely, Planned
    <2>3. CASE id \notin Listed
        <3>1. table[id].path \in Path
            BY <1>1, <1>2, <2>3 DEF IsTable, Row
        <3> QED
            BY <2>1, <2>3, <3>1 DEF SeenRemotely, Planned
    <2> QED
        BY <2>2, <2>3
<1>6. f \in Surjection(ids, RemoteChanges)
    BY DEF RemoteChanges, Surjection
<1>7. RemoteChanges \in SUBSET Planned(remote)
    BY <1>5 DEF RemoteChanges
<1> QED
    BY <1>3, <1>6, <1>7, FS_Surjection

LEMMA OrderedType ==
    ASSUME NEW S, NEW changes \in SUBSET S, IsFiniteSet(changes), NEW order \in Ordered(changes)
    PROVE  order \in Seq(S)
<1>1. order \in Seq(changes)
    BY OrderType DEF Ordered
<1> QED
    BY <1>1, SeqMonotonic

LEMMA EachSeenType ==
    ASSUME NEW order \in Seq(Path)
    PROVE  [k \in DOMAIN order |-> SeenLocally(order[k])] \in Seq(Planned(remote))
<1>1. /\ DOMAIN order = 1..Len(order) /\ Len(order) \in Nat
      /\ \A k \in 1..Len(order) : order[k] \in Path
    OBVIOUS
<1>2. \A path \in Path : SeenLocally(path) \in Planned(remote)
    BY PlainLocalEvent DEF SeenLocally, Planned, Events
<1> QED
    BY <1>1, <1>2

LEMMA LocalChangesType ==
    ASSUME Inv, NEW changes \in LocalChanges
    PROVE  changes \in Seq(Planned(remote))
<1> DEFINE stale == {path \in DOMAIN disk : Stale(path)}
           paths == {table[id].path : id \in DOMAIN table}
           f     == [id \in DOMAIN table |-> table[id].path]
<1>1. IsTable(table) /\ TreeOK(disk)
    BY DEF Inv, UsersOK, SidesOK
<1>2. IsFiniteSet(stale) /\ stale \subseteq Path
    BY <1>1, FS_Subset DEF TreeOK
<1>3. IsFiniteSet(Lost) /\ Lost \subseteq Path
    <2>1. IsFiniteSet(DOMAIN table)
        BY <1>1, StartupAssumption, FS_Subset DEF IsTable
    <2>2. f \in Surjection(DOMAIN table, paths)
        BY DEF Surjection
    <2>3. IsFiniteSet(paths)
        BY <2>1, <2>2, FS_Surjection
    <2>4. paths \subseteq Path
        BY <1>1 DEF IsTable, Row
    <2> HIDE DEF paths, f
    <2>5. Lost = paths \ DOMAIN disk
        BY DEF Lost, paths
    <2> QED
        BY <2>3, <2>4, <2>5, FS_Subset
<1> HIDE DEF paths, f
<1>4. PICK first \in Walks, last \in SetToSeqs(Lost) :
        changes = [k \in DOMAIN (first \o last) |-> SeenLocally((first \o last)[k])]
    BY DEF LocalChanges
<1>5. first \in Seq(Path) /\ last \in Seq(Path)
    <2>1. first \in Seq(stale) /\ last \in Seq(Lost)
        BY <1>2, <1>3, OrderType DEF Walks
    <2> HIDE DEF stale
    <2> QED
        BY <1>2, <1>3, <2>1, SeqMonotonic
<1>6. first \o last \in Seq(Path)
    BY <1>5, ConcatProperties
<1> QED
    BY <1>4, <1>6, EachSeenType

-------------------------------------------------------------------------------
(* Between two events, or after a stop, the invariant holds of any State   *)
(* and server it held of.                                                  *)
LEMMA IdleInv ==
    ASSUME Inv, job' = Idle, UNCHANGED <<table, remote, disk, edits>>, missed' \in BOOLEAN,
           TlmOK(tlm', remote), NotifiedOK(notified')
    PROVE  Inv'
<1>1. UsersOK' /\ IsTable(table') /\ RevisionNotAhead'
    BY DEF Inv, UsersOK, SidesOK, ContentsOK, TreeOK, TlmOK, NotifiedOK, RevisionNotAhead
<1>2. /\ job'.at = "idle" /\ job'.from = "none" /\ job'.todo = <<>> /\ job'.id = Root
      /\ job'.got = Root /\ job'.mods = <<>> /\ job'.changes = <<>> /\ job'.retry = 0
      /\ IsJob(job')
    BY DEF Idle, IsJob, Nothing
<1>3. 0 \in 0..RETRY_COUNT_MAX /\ 0 < RETRY_COUNT_MAX
    BY OperatorAssumption
<1>4. JobIn(job', remote')
    BY <1>2, <1>3 DEF JobIn, Points
<1> QED
    BY <1>1, <1>2, <1>3, <1>4, Resting

LEMMA SameInv ==
    ASSUME Inv, UNCHANGED vars
    PROVE  Inv'
BY NextInv DEF vars

LEMMA StartStep ==
    ASSUME StartupInv, Start
    PROVE  StartupInv'
<1>1. job = Idle /\ job' = Idle /\ ignored' = {} /\ phase = "off" /\ phase' = "listing"
    BY DEF StartupInv, PhaseOK, Start, store
<1>2. TlmOK(tlm', remote) /\ NotifiedOK(notified')
    BY DEF Start, TlmOK, NotifiedOK
<1>3. Inv'
    BY <1>1, <1>2, IdleInv DEF StartupInv, Start, store
<1>4. PlanOK'
    BY <1>1 DEF StartupInv, PlanOK, Start, Passing, plan
<1>5. PhaseOK'
    BY <1>1, StartupAssumption DEF StartupInv, PhaseOK, Start, Passing, Phases, plan
<1> QED
    BY <1>3, <1>4, <1>5 DEF StartupInv

(* A thread that opens its stream or its watch hears from then on.         *)
LEMMA OpensStep ==
    ASSUME StartupInv, StreamOpens \/ WatchOpens
    PROVE  StartupInv' /\ UNCHANGED <<store, job, remote, disk, edits, phase, unresolved, todo,
                                      current, left, size, locally, runs>>
         /\ (tlm' = tlm \/ tlm' = <<>>) /\ (notified' = notified \/ notified' = <<>>)
<1>0. (tlm' = tlm \/ tlm' = <<>>) /\ (notified' = notified \/ notified' = <<>>)
    BY DEF StreamOpens, WatchOpens, Opens
<1>1. UNCHANGED <<store, job, remote, disk, edits, phase, unresolved, todo, current, left, size,
                  locally, runs>>
    BY DEF StreamOpens, WatchOpens, Opens
<1>2. /\ phase # "off" /\ missed' \in BOOLEAN
      /\ hearing' \in {hearing \cup {"remote"}, hearing \cup {"local"}}
    BY DEF StreamOpens, WatchOpens, Opens, FromUser, StartupInv, Inv
<1>3. TlmOK(tlm', remote) /\ NotifiedOK(notified')
    <2>1. TlmOK(tlm, remote) /\ NotifiedOK(notified)
        BY DEF StartupInv, Inv, UsersOK, SidesOK
    <2>2. TlmOK(<<>>, remote) /\ NotifiedOK(<<>>)
        BY DEF TlmOK, NotifiedOK
    <2> QED
        BY <1>0, <2>1, <2>2
<1>4. Inv'
    <2>1. /\ UsersOK' /\ IsTable(table') /\ RevisionNotAhead' /\ JobIn(job', remote')
        BY <1>1, <1>3
        DEF StartupInv, Inv, UsersOK, SidesOK, ContentsOK, TreeOK, TlmOK, NotifiedOK,
            RevisionNotAhead, JobOK, store
    <2>2. Holds'
        BY <1>1 DEF StartupInv, Inv, Holds, HoldsDownload, HoldsUpload, HoldsName, HoldsTrash,
                    At, Now, Fetched, HasRemotePath, store
    <2> QED
        BY <1>1, <1>2, <2>1, <2>2 DEF StartupInv, Inv, JobOK, store
<1>5. PlanOK' /\ PhaseOK'
    BY <1>1, <1>2 DEF StartupInv, PlanOK, PhaseOK, Passing, InHand, store
<1> QED
    BY <1>0, <1>1, <1>4, <1>5 DEF StartupInv

LEMMA ListStep ==
    ASSUME StartupInv, List
    PROVE  StartupInv'
<1>1. phase = "listing" /\ phase' = "scanning" /\ UNCHANGED vars
    BY DEF List
<1>2. Inv'
    BY <1>1, SameInv DEF StartupInv
<1>3. PlanOK'
    BY <1>1, RemoteChangesType DEF StartupInv, PlanOK, List, Passing, vars
<1>4. PhaseOK'
    BY <1>1 DEF StartupInv, PhaseOK, List, Passing, Phases, vars
<1> QED
    BY <1>2, <1>3, <1>4 DEF StartupInv

LEMMA ScanStep ==
    ASSUME StartupInv, Scan
    PROVE  StartupInv'
<1>1. phase = "scanning" /\ phase' \in {"asking", "live"} /\ UNCHANGED vars
    BY DEF Scan
<1>2. Inv'
    BY <1>1, SameInv DEF StartupInv
<1>3. locally' \in Seq(Planned(remote)) /\ todo' \in Seq(Planned(remote))
    <2>1. locally' \in Seq(Planned(remote))
        BY LocalChangesType DEF StartupInv, Scan
    <2>2. KeptRemote(unresolved, locally') \in SUBSET unresolved
        BY DEF KeptRemote
    <2>3. /\ IsFiniteSet(KeptRemote(unresolved, locally'))
          /\ KeptRemote(unresolved, locally') \in SUBSET Planned(remote)
        BY <2>2, FS_Subset DEF StartupInv, PlanOK
    <2> QED
        BY <2>1, <2>3, OrderedType DEF Scan
<1>4. PlanOK'
    <2>1. IsFiniteSet({})
        BY FS_EmptySet
    <2> QED
        BY <1>1, <1>3, <2>1 DEF StartupInv, PlanOK, Scan, Passing, vars
<1>5. PhaseOK'
    BY <1>1 DEF StartupInv, PhaseOK, Scan, Passing, Phases, vars
<1> QED
    BY <1>2, <1>4, <1>5 DEF StartupInv

(* A pass begins on a plan, with nothing in hand.                          *)
LEMMA PassStep ==
    ASSUME StartupInv, NEW changes \in Seq(Planned(remote)), Pass(changes),
           UNCHANGED <<vars, hearing, runs>>, phase # "scanning", job.at = "idle",
           phase' \in {"remote", "local"}, locally' \in Seq(Planned(remote)),
           phase' = "local" => locally' = <<>>
    PROVE  StartupInv'
<1>1. Inv'
    BY SameInv DEF StartupInv
<1>2. job'.at = "idle" /\ remote' = remote
    BY DEF vars
<1>3. PlanOK'
    BY <1>2 DEF StartupInv, PlanOK, Pass, Passing
<1>4. PhaseOK'
    BY <1>2 DEF StartupInv, PhaseOK, Pass, Passing, InHand, Phases
<1> QED
    BY <1>1, <1>3, <1>4 DEF StartupInv

LEMMA IdleAt ==
    ASSUME StartupInv, phase = "asking" \/ PassOver
    PROVE  job.at = "idle"
BY DEF StartupInv, PhaseOK, PassOver, Idle

LEMMA PassSteps ==
    ASSUME StartupInv, Confirm \/ NextPass \/ TurnLocal
    PROVE  StartupInv'
<1>1. job.at = "idle"
    BY IdleAt DEF Confirm, NextPass, TurnLocal
<1>2. CASE Confirm
    BY <1>1, <1>2, PassStep DEF Confirm, StartupInv, PlanOK
<1>3. CASE NextPass
    BY <1>1, <1>3, PassStep DEF NextPass, PassOver, StartupInv, PlanOK, PhaseOK
<1>4. CASE TurnLocal
    <2>1. <<>> \in Seq(Planned(remote))
        OBVIOUS
    <2> QED
        BY <1>1, <1>4, <2>1, PassStep DEF TurnLocal, StartupInv, PlanOK
<1> QED
    BY <1>2, <1>3, <1>4

LEMMA DeclineStep ==
    ASSUME StartupInv, Decline
    PROVE  StartupInv'
<1>1. phase = "asking" /\ phase' = "live" /\ job = Idle /\ job' = Idle
    BY DEF StartupInv, PhaseOK, Decline
<1>2. TlmOK(tlm', remote) /\ NotifiedOK(notified')
    BY DEF StartupInv, Inv, UsersOK, SidesOK, Decline, world, TlmOK, NotifiedOK
<1>3. Inv'
    BY <1>1, <1>2, IdleInv DEF StartupInv, Decline, store, world
<1>4. PlanOK'
    BY <1>1 DEF StartupInv, PlanOK, Decline, Passing, world
<1>5. PhaseOK'
    BY <1>1 DEF StartupInv, PhaseOK, Decline, Passing, Phases
<1> QED
    BY <1>3, <1>4, <1>5 DEF StartupInv

LEMMA OperateStep ==
    ASSUME StartupInv, Operate
    PROVE  StartupInv'
<1>1. Passing /\ todo # <<>> /\ job.at = "idle"
    BY DEF Operate, Receive, Passing
<1>2. Head(todo) \in Planned(remote) /\ Tail(todo) \in Seq(Planned(remote))
      /\ Len(Tail(todo)) = Len(todo) - 1 /\ Len(todo) \in Nat /\ Len(left) \in Nat
    BY <1>1, HeadTailProperties DEF StartupInv, PlanOK
<1>3. Head(todo).event \in RemoteEvents(DOMAIN remote) \cup LocalEvents
    BY <1>2 DEF Planned, Events, PlainEvents
<1>4. TlmOK(tlm', remote) /\ NotifiedOK(notified')
    BY DEF StartupInv, Inv, UsersOK, SidesOK, Operate, TlmOK, NotifiedOK
<1>5. Inv'
    BY <1>3, <1>4, Receiving DEF StartupInv, Operate
<1>6. PlanOK'
    BY <1>2 DEF StartupInv, PlanOK, Operate, Receive
<1>7. PhaseOK'
    BY <1>1, <1>2 DEF StartupInv, PhaseOK, Operate, Passing, InHand
<1> QED
    BY <1>5, <1>6, <1>7 DEF StartupInv

LEMMA PostponeStep ==
    ASSUME StartupInv, Postpone
    PROVE  StartupInv'
<1>1. Passing /\ job.at = "failed" /\ job' = Idle /\ job'.at = "idle"
    BY DEF Postpone, MissesParent, Passing, Idle
<1>2. TlmOK(tlm', remote) /\ NotifiedOK(notified')
    BY DEF StartupInv, Inv, UsersOK, SidesOK, Postpone, world, TlmOK, NotifiedOK
<1>3. Inv'
    BY <1>1, <1>2, IdleInv DEF StartupInv, Inv, Postpone, store, world
<1>4. /\ current \in Planned(remote) /\ left' \in Seq(Planned(remote))
      /\ Len(left') = Len(left) + 1 /\ Len(left) \in Nat /\ Len(todo) \in Nat
    BY <1>1 DEF StartupInv, PlanOK, Postpone
<1>5. PlanOK'
    BY <1>1, <1>4 DEF StartupInv, PlanOK, Postpone, world
<1>6. PhaseOK'
    BY <1>1, <1>4 DEF StartupInv, PhaseOK, Postpone, Passing, InHand, Phases
<1> QED
    BY <1>3, <1>5, <1>6 DEF StartupInv

LEMMA GiveUpStep ==
    ASSUME StartupInv, GiveUp
    PROVE  StartupInv'
<1>1. /\ Passing /\ job.at = "idle" /\ todo = <<>> /\ left # <<>>
      /\ left' = <<>> /\ Fail("MissingParents") /\ ~Progress
    BY DEF GiveUp, PassOver, Passing
<1>2. job'.at = "failed"
    BY <1>1 DEF Fail, StartupInv, Inv, JobOK, JobIn, IsJob
<1>3. Keeps
    BY DEF StartupInv, GiveUp, world, store, Inv, Keeps, UsersOK, SidesOK, ContentsOK, TreeOK,
           TlmOK, NotifiedOK, Grows, Content
<1>4. Inv'
    BY <1>1, <1>3, Failing DEF StartupInv
<1>5. PlanOK'
    BY <1>1 DEF StartupInv, PlanOK, GiveUp, world
<1>6. PhaseOK'
    BY <1>1, <1>2 DEF StartupInv, PhaseOK, GiveUp, Passing, InHand, Phases, Progress, PlanOK
<1> QED
    BY <1>4, <1>5, <1>6 DEF StartupInv

LEMMA GoLiveStep ==
    ASSUME StartupInv, GoLive
    PROVE  StartupInv'
<1>1. /\ todo = <<>> /\ left = <<>> /\ phase = "local" /\ phase' = "live"
      /\ UNCHANGED vars /\ UNCHANGED plan
    BY DEF GoLive, PassOver
<1>2. Inv'
    BY <1>1, SameInv DEF StartupInv
<1>3. PlanOK'
    BY <1>1 DEF StartupInv, PlanOK, Passing, plan, vars
<1>4. PhaseOK'
    BY <1>1 DEF StartupInv, PhaseOK, Passing, GoLive, Phases, plan
<1> QED
    BY <1>2, <1>3, <1>4 DEF StartupInv

LEMMA OverStep ==
    ASSUME StartupInv, EndWithError \/ Crash
    PROVE  StartupInv'
<1>1. Over /\ phase' = "off" /\ job' = Idle
    BY DEF EndWithError, Crash, Over
<1>2. TlmOK(tlm', remote) /\ NotifiedOK(notified')
    BY <1>1 DEF StartupInv, Inv, UsersOK, SidesOK, Over, world, TlmOK, NotifiedOK
<1>3. Inv'
    BY <1>1, <1>2, IdleInv DEF StartupInv, Inv, Over, world
<1>4. PlanOK'
    <2>1. IsFiniteSet({}) /\ <<>> \in Seq(Planned(remote))
        BY FS_EmptySet
    <2> QED
        BY <1>1, <2>1 DEF PlanOK, Over, Passing, world
<1>5. PhaseOK'
    BY <1>1 DEF StartupInv, PhaseOK, Over, Passing, Phases
<1> QED
    BY <1>3, <1>4, <1>5 DEF StartupInv

(* What the operator does for a change, and for a live event.              *)
LEMMA WorkStep ==
    ASSUME StartupInv, Work
    PROVE  StartupInv'
<1>1. /\ job.at # "idle" /\ KnownGrows /\ UNCHANGED <<phase, plan, runs>>
    BY WorkInHand DEF Work
<1>2. Inv'
    BY DownloadSteps, UploadSteps, ApplyChangeStep DEF Work, StartupInv
<1>3. PlanOK'
    BY <1>1, KeepsPlan DEF StartupInv
<1>4. phase \notin {"off", "listing", "scanning", "asking"}
    BY <1>1 DEF StartupInv, PhaseOK, Idle
<1>5. PhaseOK'
    BY <1>1, <1>4 DEF StartupInv, PhaseOK, PlanOK, Passing, InHand, plan
<1> QED
    BY <1>2, <1>3, <1>5 DEF StartupInv

LEMMA LiveSteps ==
    ASSUME StartupInv, LiveStep, UNCHANGED <<phase, plan, runs>>
    PROVE  StartupInv'
<1>1. Inv' /\ KnownGrows
    <2>1. Inv'
        BY WatchLeftStep, ReceiveRemoteStep, ReceiveLocalStep DEF LiveStep, StartupInv
    <2>2. UNCHANGED remote
        BY DEF LiveStep, WatchLeft, ReceiveRemote, ReceiveLocal, Receive
    <2> QED
        BY <2>1, <2>2 DEF KnownGrows
<1>2. UNCHANGED <<store, job>> \/ phase = "live"
    BY DEF LiveStep, WatchLeft
<1>3. PlanOK'
    BY <1>1, <1>2, KeepsPlan DEF StartupInv, Passing
<1>4. PhaseOK'
    BY <1>2 DEF StartupInv, PhaseOK, Passing, InHand, plan, store
<1> QED
    BY <1>1, <1>3, <1>4 DEF StartupInv

LEMMA UsersSteps ==
    ASSUME StartupInv, UsersAct
    PROVE  StartupInv'
<1>1. /\ UNCHANGED <<store, job>> /\ UNCHANGED <<phase, plan, runs>>
      /\ KnownGrows
    BY UserStepType DEF UsersAct, UserActs, StartupInv, Inv, Grows, KnownGrows
<1>2. Inv'
    BY UserActsStep DEF UsersAct, StartupInv
<1>3. PlanOK'
    BY <1>1, KeepsPlan DEF StartupInv
<1>4. PhaseOK'
    BY <1>1 DEF StartupInv, PhaseOK, Passing, InHand, plan, store
<1> QED
    BY <1>2, <1>3, <1>4 DEF StartupInv

-------------------------------------------------------------------------------
LEMMA StartupInitInv == StartupInit => StartupInv
<1> SUFFICES ASSUME StartupInit PROVE StartupInv
    OBVIOUS
<1>1. Inv
    BY InitInv DEF StartupInit
<1>2. PlanOK
    <2>1. IsFiniteSet({}) /\ <<>> \in Seq(Planned(remote))
        BY FS_EmptySet
    <2> QED
        BY <2>1 DEF StartupInit, PlanOK, Passing
<1>3. PhaseOK
    BY StartupAssumption DEF StartupInit, Init, PhaseOK, Passing, Phases
<1> QED
    BY <1>1, <1>2, <1>3 DEF StartupInv

LEMMA StartupNextInv == StartupInv /\ [StartupNext]_svars => StartupInv'
<1> SUFFICES ASSUME StartupInv, [StartupNext]_svars PROVE StartupInv'
    OBVIOUS
<1>1. CASE RunStep
    BY <1>1, StartStep, OpensStep, ListStep, ScanStep, PassSteps, DeclineStep, OperateStep,
       PostponeStep, GiveUpStep, GoLiveStep, OverStep, WorkStep, LiveSteps DEF RunStep, StartupStep
<1>2. CASE Crash
    BY <1>2, OverStep
<1>3. CASE UsersAct
    BY <1>3, UsersSteps
<1>4. CASE UNCHANGED svars
    <2>1. Inv'
        BY <1>4, SameInv DEF StartupInv, svars
    <2>2. PlanOK'
        BY <1>4, KeepsPlan DEF StartupInv, svars, vars, KnownGrows
    <2>3. PhaseOK'
        BY <1>4 DEF StartupInv, svars, vars, plan, PhaseOK, Passing, InHand
    <2> QED
        BY <2>1, <2>2, <2>3 DEF StartupInv
<1> QED
    BY <1>1, <1>2, <1>3, <1>4 DEF StartupNext

(* Runs start, are killed, fail and start again while users work at any    *)
(* time: the invariant of the operator holds all along.                    *)
THEOREM StartupInvariance == StartupSpec => []StartupInv
<1> QED
    BY StartupInitInv, StartupNextInv, PTL DEF StartupSpec

(* Every variable keeps its type, a pass never holds more changes than it  *)
(* started with, and a run starts with nothing in hand and nothing ignored *)
(* (run2.rs, Runner::run and OperateChanges::operate).                     *)
THEOREM StartupTypeCorrectness == StartupSpec => []StartupTypeOK
<1>1. StartupInv => StartupTypeOK
    <2> SUFFICES ASSUME StartupInv PROVE StartupTypeOK
        OBVIOUS
    <2>1. TypeOK
        BY DEF StartupInv, Inv, UsersOK, SidesOK, ContentsOK, JobOK, JobIn, TypeOK
    <2>2. Len(todo) \in Nat /\ Len(left) \in Nat
        BY DEF StartupInv, PlanOK
    <2> QED
        BY <2>1, <2>2 DEF StartupInv, PhaseOK, StartupTypeOK, Passing, InHand
<1> QED
    BY <1>1, StartupInvariance, PTL

(* Wherever the runs before were stopped, no row of the State a run starts *)
(* from is ahead of the server: what RemoteSync takes for unchanged is     *)
(* what was synchronized.                                                  *)
THEOREM RevisionsIssuedAcrossRuns == StartupSpec => []RevisionNotAhead
<1>1. StartupInv => RevisionNotAhead
    BY DEF StartupInv, Inv
<1> QED
    BY <1>1, StartupInvariance, PTL

-------------------------------------------------------------------------------
(***************************************************************************)
(* What the runs record: the steps of a run that are not steps of the      *)
(* operator leave the table alone, and what they put in hand is an event   *)
(* with one executor, as a live event is.                                  *)
(***************************************************************************)
RecordsOK == RevisionOK /\ NotifiedPlain /\ RemoteJobOK /\ Rooted(disk) /\ LoopOK

(* A step records forward, and under known parents, never in a loop, what  *)
(* comes from the server.                                                  *)
RecordsWell ==
    /\ RecordsOK' /\ Kept
    /\ job.from = "remote" /\ ParentsKnown(table) => ParentsKnown(table')
    /\ job.from = "remote" /\ ParentsKnown(table) /\ Acyclic(table) => Acyclic(table')

LEMMA RestRecords ==
    ASSUME StartupInv, RecordsOK, job' = Idle, UNCHANGED <<table, disk>>, NotifiedPlain'
    PROVE  RecordsWell
<1>1. job'.at = "idle" /\ job'.from = "none" /\ job'.mods = <<>> /\ Forgets(<<>>)
    BY DEF Idle, Forgets
<1>2. RevisionOK' /\ RemoteJobOK' /\ LoopOK'
    BY <1>1 DEF RevisionOK, OneExecutor, HoldsNewer, Working, At, RemoteJobOK, LoopOK
<1> QED
    BY <1>2, KeptAlike DEF StartupInv, RecordsWell, RecordsOK

LEMMA OperatorRecords ==
    ASSUME StartupInv, RecordsOK, [Next]_vars
    PROVE  RecordsWell
BY RevisionStep, ParentStep, RootedStep, LoopStep DEF StartupInv, RecordsOK, RecordsWell

LEMMA OperateRecords ==
    ASSUME StartupInv, RecordsOK, Operate
    PROVE  RecordsWell
<1>1. Passing /\ todo # <<>> /\ Receive(Head(todo).event, FALSE)
    BY DEF Operate, Passing
<1>2. Head(todo) \in Planned(remote)
    BY <1>1, HeadTailProperties DEF StartupInv, PlanOK
<1>3. Head(todo).event \in RemoteEvents(DOMAIN remote) \cup PlainEvents
    BY <1>2 DEF Planned, Events
<1>4. RevisionOK' /\ RemoteJobOK' /\ LoopOK' /\ UNCHANGED <<table, disk>>
    <2>1. UNCHANGED <<table, disk>>
        BY <1>1 DEF Receive
    <2> QED
        BY <1>1, <1>3, <2>1, RevisionReceiving, ParentReceiving, LoopReceiving
        DEF StartupInv, RecordsOK
<1>5. NotifiedPlain'
    BY DEF RecordsOK, NotifiedPlain, Operate
<1> QED
    BY <1>4, <1>5, KeptAlike DEF StartupInv, RecordsOK, RecordsWell

LEMMA GiveUpRecords ==
    ASSUME StartupInv, RecordsOK, GiveUp
    PROVE  RecordsWell
<1>1. Fail("MissingParents") /\ UNCHANGED <<table, disk>> /\ NotifiedPlain'
    BY DEF GiveUp, RecordsOK, NotifiedPlain, store, world
<1>2. RevisionOK' /\ RemoteJobOK' /\ LoopOK'
    BY <1>1, RevisionFailing, ParentFailing, LoopFailing DEF StartupInv, RecordsOK
<1> QED
    BY <1>1, <1>2, KeptAlike DEF StartupInv, RecordsOK, RecordsWell

LEMMA OpensRecords ==
    ASSUME StartupInv, RecordsOK, StreamOpens \/ WatchOpens
    PROVE  RecordsWell
<1>1. UNCHANGED <<table, job, remote, disk>>
    BY OpensStep DEF store
<1>2. NotifiedPlain'
    <2>1. notified' = notified \/ notified' = <<>>
        BY OpensStep
    <2>2. CASE notified' = notified
        BY <2>2 DEF RecordsOK, NotifiedPlain
    <2>3. CASE notified' = <<>>
        BY <2>3 DEF NotifiedPlain
    <2> QED
        BY <2>1, <2>2, <2>3
<1>3. RevisionOK' /\ RemoteJobOK' /\ LoopOK'
    BY <1>1 DEF RecordsOK, RevisionOK, OneExecutor, HoldsNewer, Newer, Forward, At, Now,
                RemoteJobOK, KnownParent, LoopOK, Apart
<1> QED
    BY <1>1, <1>2, <1>3, KeptAlike DEF StartupInv, RecordsOK, RecordsWell

LEMMA StartupRecords ==
    ASSUME StartupInv, RecordsOK, [StartupNext]_svars
    PROVE  RecordsWell
<1>1. CASE List \/ Scan \/ Confirm \/ NextPass \/ TurnLocal \/ GoLive \/ UNCHANGED svars
    <2>1. UNCHANGED vars
        BY <1>1 DEF List, Scan, Confirm, NextPass, TurnLocal, GoLive, svars
    <2> QED
        BY <2>1, OperatorRecords
<1>2. CASE Work \/ LiveStep \/ UsersAct
    <2>1. Next
        BY <1>2 DEF Work, LiveStep, UsersAct, Next, OperatorStep
    <2> QED
        BY <2>1, OperatorRecords
<1>3. CASE Start
    <2>1. job' = Idle /\ UNCHANGED <<table, disk>> /\ NotifiedPlain'
        BY <1>3 DEF StartupInv, PhaseOK, Start, store, NotifiedPlain
    <2> QED
        BY <2>1, RestRecords
<1>4. CASE Decline \/ Postpone \/ EndWithError \/ Crash
    <2>1. job' = Idle /\ UNCHANGED <<table, disk, notified>>
        BY <1>4 DEF StartupInv, PhaseOK, Decline, Postpone, EndWithError, Crash, Over, store, world
    <2>2. NotifiedPlain'
        BY <2>1 DEF RecordsOK, NotifiedPlain
    <2> QED
        BY <2>1, <2>2, RestRecords
<1>5. CASE Operate
    BY <1>5, OperateRecords
<1>6. CASE GiveUp
    BY <1>6, GiveUpRecords
<1>7. CASE StreamOpens \/ WatchOpens
    BY <1>7, OpensRecords
<1> QED
    BY <1>1, <1>2, <1>3, <1>4, <1>5, <1>6, <1>7 DEF StartupNext, RunStep, StartupStep

LEMMA StartupInitRecords == StartupInit => RecordsOK
BY RootedStart DEF StartupInit, Init, Idle, RecordsOK, RevisionOK, OneExecutor, HoldsNewer,
       Forgets, Working, At, NotifiedPlain, RemoteJobOK, LoopOK

LEMMA RecordsInvariance == StartupSpec => [](StartupInv /\ RecordsOK)
<1>1. StartupInit => RecordsOK
    BY StartupInitRecords
<1>2. StartupInv /\ RecordsOK /\ [StartupNext]_svars => (StartupInv /\ RecordsOK)'
    BY StartupNextInv, StartupRecords DEF RecordsWell
<1> QED
    BY <1>1, <1>2, StartupInitInv, PTL DEF StartupSpec

(* No row goes back to an older revision, in whatever order starts, passes *)
(* and live events follow each other and wherever the runs were stopped:   *)
(* a startup may find new what a run had done, never undo it in the State. *)
THEOREM RevisionsOnlyGrowAcrossRuns == StartupSpec => RevisionsGrow
<1>1. StartupInv /\ RecordsOK /\ [StartupNext]_svars
        => [\A id \in DOMAIN table \cap DOMAIN table' : table[id].rev <= table'[id].rev]_vars
    BY StartupRecords DEF RecordsWell, Kept
<1> QED
    BY <1>1, RecordsInvariance, PTL DEF StartupSpec, RevisionsGrow

(* What a startup downloads, in several passes, has a parent that the      *)
(* State knows, as what live messages tell has: the parent was looked up   *)
(* in the same pass, and a pass works on one change at a time.             *)
THEOREM ParentsStayKnownAcrossRuns == StartupSpec => DownloadsKeepParents
<1>1. StartupInv /\ RecordsOK /\ [StartupNext]_svars
        => [job.from = "remote" /\ ParentsKnown(table) => ParentsKnown(table')]_vars
    BY StartupRecords DEF RecordsWell
<1> QED
    BY <1>1, RecordsInvariance, PTL DEF StartupSpec, DownloadsKeepParents

(* Nor does what a startup downloads make the parent_id column loop,       *)
(* although it finds every place that changed while no run was there, in   *)
(* an order of its own.                                                    *)
THEOREM MovesMakeNoLoopAcrossRuns == StartupSpec => DownloadsMakeNoLoop
<1>1. StartupInv /\ RecordsOK /\ [StartupNext]_svars
        => [job.from = "remote" /\ ParentsKnown(table) /\ Acyclic(table)
                => Acyclic(table')]_vars
    BY StartupRecords DEF RecordsWell
<1> QED
    BY <1>1, RecordsInvariance, PTL DEF StartupSpec, DownloadsMakeNoLoop

-------------------------------------------------------------------------------
(***************************************************************************)
(* A first run after users worked in the space only.  The folder holds     *)
(* what the State says, the downloads keep it so from one change to the    *)
(* next, and so no change is taken for an attachment: what is new in the   *)
(* space is added in the order of the parents, in as many passes as that   *)
(* takes.                                                                  *)
(*                                                                         *)
(* Folders are not renamed or moved: the columns below them would not      *)
(* follow.                                                                 *)
(***************************************************************************)

(* Contents of the space are below folders, *)
ParentsHold ==
    \A id \in DOMAIN remote : remote[id].parent # Root =>
        /\ remote[id].parent \in DOMAIN remote
        /\ remote[remote[id].parent].type = "folder"

(* those of the State that are folders are where they were, *)
FoldersStay ==
    \A id \in DOMAIN table : remote[id].type = "folder" =>
        FileName(table, id) = remote[id].name /\ table[id].parent = remote[id].parent

(* and the column of a row is that of its parent and its own name. *)
Below(path, parent) ==
    IF parent = Root THEN Len(path) = 1
    ELSE /\ parent \in DOMAIN table /\ remote[parent].type = "folder"
         /\ Len(path) # 1 /\ Front(path) = table[parent].path

ColumnsNested == \A id \in DOMAIN table : Below(table[id].path, table[id].parent)

IgnoresLocal == \A event \in ignored : event.src = "local"

Tidy == ParentsHold /\ FoldersStay /\ ColumnsNested /\ PathsDistinct(table) /\ IgnoresLocal

(* The folder holds what the State says.                                   *)
Columns == {table[id].path : id \in DOMAIN table}

Typed(ids) == \A id \in ids : disk[table[id].path].type = remote[id].type

Matching == DOMAIN disk = Columns /\ Typed(DOMAIN table)

-------------------------------------------------------------------------------
LEMMA PathExtend ==
    ASSUME NEW path \in Path, NEW other \in Path, Len(path) # 1, Front(path) = other
    PROVE  path = Append(other, Last(path)) /\ Len(path) = Len(other) + 1
<1>1. /\ path \in Seq(Names) /\ Len(path) \in Nat \ {0} /\ Len(path) - 1 \in Nat
      /\ other \in Seq(Names) /\ Len(other) = Len(path) - 1
      /\ Last(path) \in Names
    BY FrontPrefix, PathLast
<1>2. PICK n \in Nat : n = Len(path) - 1
    BY <1>1
<1>3. /\ Len(SubSeq(path, 1, n)) = n /\ \A i \in 1..n : SubSeq(path, 1, n)[i] = path[i]
    BY <1>1, <1>2
<1>4. other = SubSeq(path, 1, n) /\ Last(path) = path[n + 1] /\ Len(path) = n + 1
    BY <1>1, <1>2 DEF Front, Last
<1>5. /\ Append(other, Last(path)) \in Seq(Names)
      /\ Len(Append(other, Last(path))) = n + 1
      /\ Append(other, Last(path))[n + 1] = Last(path)
      /\ \A i \in 1..n : Append(other, Last(path))[i] = other[i]
    BY <1>1, <1>2
<1>6. \A i \in 1..(n + 1) : Append(other, Last(path))[i] = path[i]
    BY <1>3, <1>4, <1>5
<1> HIDE DEF Path
<1> QED
    BY <1>1, <1>2, <1>4, <1>5, <1>6, SeqEqual

(* Along the parents the columns are what `path` gives.                    *)
LEMMA ColumnOfParts ==
    ASSUME IsTable(table), ColumnsNested, NEW id, NEW parts \in Seq(DOMAIN table),
           Len(parts) \in Nat \ {0}, IsParts(table, parts, id)
    PROVE  table[id].path = [k \in 1..Len(parts) |-> FileName(table, parts[k])]
<1>2. /\ parts \in Seq(DOMAIN table) /\ Len(parts) \in Nat \ {0}
      /\ \A k \in 1..Len(parts) : parts[k] \in DOMAIN table
    OBVIOUS
<1>3. IsParts(table, parts, id)
    OBVIOUS
<1> DEFINE names(n) == [k \in 1..n |-> FileName(table, parts[k])]
           S == {n \in Nat : n + 1 \in 1..Len(parts) => table[parts[n + 1]].path = names(n + 1)}
<1>4. ASSUME NEW known \in DOMAIN table
      PROVE  table[known].path \in Path
    BY <1>4 DEF IsTable, Row
<1>5. 0 \in S
    <2>1. SUFFICES table[parts[1]].path = names(1)
        OBVIOUS
    <2>2. parts[1] \in DOMAIN table /\ Len(table[parts[1]].path) = 1
        BY <1>2, <1>3 DEF IsParts, ColumnsNested, Below
    <2>3. PICK path \in Path : path = table[parts[1]].path
        BY <1>4, <2>2
    <2>4. path \in Seq(Names) /\ Len(path) = 1 /\ Last(path) = path[1]
        BY <2>2, <2>3 DEF Path, Last
    <2>5. FileName(table, parts[1]) = path[1]
        BY <2>3, <2>4 DEF FileName
    <2>6. path = [k \in 1..1 |-> path[1]]
        BY <2>4
    <2> QED
        BY <2>3, <2>5, <2>6
<1>6. ASSUME NEW n \in Nat, n \in S
      PROVE  n + 1 \in S
    <2>1. SUFFICES ASSUME n + 2 \in 1..Len(parts)
                   PROVE  table[parts[n + 2]].path = names(n + 2)
        OBVIOUS
    <2>2. n + 1 \in 1..Len(parts) /\ n + 2 \in 2..Len(parts) /\ (n + 2) - 1 = n + 1
        BY <1>2, <2>1
    <2>3. /\ table[parts[n + 2]].parent = parts[n + 1] /\ parts[n + 2] \in DOMAIN table
          /\ parts[n + 1] \in DOMAIN table
        BY <1>2, <1>3, <2>2 DEF IsParts
    <2>4. parts[n + 1] # Root
        BY <2>3, RootAssumption DEF IsTable
    <2>5. /\ Len(table[parts[n + 2]].path) # 1
          /\ Front(table[parts[n + 2]].path) = table[parts[n + 1]].path
        BY <2>3, <2>4 DEF ColumnsNested, Below
    <2>6. PICK path \in Path, above \in Path :
            path = table[parts[n + 2]].path /\ above = table[parts[n + 1]].path
        BY <1>4, <2>3
    <2>7. path = Append(above, Last(path))
        BY <2>5, <2>6, PathExtend
    <2>8. above = names(n + 1)
        BY <1>6, <2>2, <2>6
    <2>9. Last(path) = FileName(table, parts[n + 2])
        BY <2>6 DEF FileName
    <2>10. Append(names(n + 1), FileName(table, parts[n + 2])) = names(n + 2)
        <3>1. DOMAIN names(n + 1) = 1..(n + 1) /\ n + 1 \in Nat
            OBVIOUS
        <3>2. Len(names(n + 1)) = n + 1
            BY <3>1
        <3> QED
            BY <3>1, <3>2
    <2> HIDE DEF names
    <2> QED
        BY <2>6, <2>7, <2>8, <2>9, <2>10
<1>7. Nat \subseteq S
    <2> HIDE DEF S
    <2> QED
        BY <1>5, <1>6, ByInduction
<1>8. Len(parts) - 1 \in S /\ (Len(parts) - 1) + 1 = Len(parts) /\ Len(parts) \in 1..Len(parts)
    <2>1. Len(parts) - 1 \in Nat /\ (Len(parts) - 1) + 1 = Len(parts) /\ Len(parts) \in 1..Len(parts)
        BY <1>2
    <2> HIDE DEF S
    <2> QED
        BY <1>7, <2>1
<1>9. table[parts[Len(parts)]].path = names(Len(parts))
    BY <1>8
<1>10. parts[Len(parts)] = id
    BY <1>2, <1>3 DEF IsParts, Last
<1> QED
    BY <1>9, <1>10

(* `path` then finds what the column says.                                 *)
LEMMA PathIsColumn ==
    ASSUME IsTable(table), ColumnsNested, NEW id, HasPath(table, id)
    PROVE  id \in DOMAIN table /\ PathOf(table, id) = table[id].path
<1> DEFINE parts == CHOOSE parts \in Parts(table, id) : TRUE
<1>1. parts \in Parts(table, id) /\ PathOf(table, id) = [k \in 1..Len(parts) |-> FileName(table, parts[k])]
    BY DEF HasPath, PathOf
<1> HIDE DEF parts
<1>2. parts \in Seq(DOMAIN table) /\ Len(parts) \in Nat \ {0} /\ id \in DOMAIN table
    BY <1>1, PartsShape
<1>3. IsParts(table, parts, id)
    BY <1>1, Zenon DEF Parts
<1> QED
    BY <1>1, <1>2, <1>3, ColumnOfParts

-------------------------------------------------------------------------------
(* Where a content of the space belongs in the folder.                     *)
Place(id) == RemotePath(remote[id])

LEMMA PlaceIs ==
    ASSUME Inv, Tidy, NEW id \in DOMAIN remote, HasRemotePath(remote[id].parent)
    PROVE  /\ Place(id) \in Path /\ Last(Place(id)) = remote[id].name
           /\ Below(Place(id), remote[id].parent)
           /\ remote[id].parent \in DOMAIN table \cup {Root}
<1>1. IsTable(table) /\ remote[id].name \in Names /\ remote[id] \in Content
    BY DEF Inv, UsersOK, SidesOK, ContentsOK, Content
<1>2. Place(id) \in Path
    BY <1>1, RemotePathType DEF Place
<1>3. CASE remote[id].parent = Root
    <2>1. Place(id) = <<remote[id].name>>
        BY <1>3 DEF Place, RemotePath
    <2> QED
        BY <1>2, <1>3, <2>1 DEF Below, Last
<1>4. CASE remote[id].parent # Root
    <2>1. PICK parent \in DOMAIN table, above \in Path :
            /\ parent = remote[id].parent /\ above = table[parent].path
            /\ PathOf(table, parent) = above
        BY <1>1, <1>4, PathIsColumn DEF HasRemotePath, Tidy, IsTable, Row
    <2>2. Place(id) = Append(above, remote[id].name)
        BY <1>4, <2>1 DEF Place, RemotePath
    <2>3. /\ above \in Seq(Names) /\ Len(above) \in Nat \ {0}
          /\ Len(Place(id)) = Len(above) + 1 /\ Last(Place(id)) = remote[id].name
          /\ \A i \in 1..Len(above) : Place(id)[i] = above[i]
        BY <1>1, <2>2, PathLast DEF Last
    <2>4. IsPrefix(above, Place(id)) /\ above # Place(id)
        <3>1. Place(id) \in Seq(Names) /\ Len(above) <= Len(Place(id))
            BY <1>2, <2>3 DEF Path
        <3>2. \A i \in 1..Len(above) : above[i] = Place(id)[i]
            BY <2>3
        <3>3. IsPrefix(above, Place(id))
            BY <2>3, <3>1, <3>2, PrefixIs
        <3> QED
            BY <2>3, <3>3
    <2>5. Len(Place(id)) # 1 /\ Front(Place(id)) = above
        <3>1. Len(Place(id)) # 1 /\ Front(Place(id)) \in Path /\ IsPrefix(above, Front(Place(id)))
              /\ Len(Front(Place(id))) = Len(Place(id)) - 1
            BY <1>2, <2>1, <2>4, FrontPrefix
        <3>2. Len(Front(Place(id))) = Len(above)
            BY <2>3, <3>1
        <3> QED
            BY <2>1, <3>1, <3>2, PrefixOrder
    <2>6. remote[parent].type = "folder"
        BY <1>4, <2>1 DEF Tidy, ParentsHold
    <2> QED
        BY <1>2, <1>4, <2>1, <2>3, <2>5, <2>6 DEF Below
<1> QED
    BY <1>3, <1>4

(* A row under the name and below the parent of its content is in place.   *)
LEMMA SamePlace ==
    ASSUME Inv, Tidy, NEW id \in DOMAIN table, HasRemotePath(remote[id].parent),
           FileName(table, id) = remote[id].name, table[id].parent = remote[id].parent
    PROVE  Place(id) = table[id].path
<1>1. id \in DOMAIN remote /\ table[id].path \in Path
    BY DEF Inv, RevisionNotAhead, IsTable, Row
<1>2. /\ Place(id) \in Path /\ Last(Place(id)) = Last(table[id].path)
      /\ Below(Place(id), remote[id].parent) /\ Below(table[id].path, remote[id].parent)
    BY <1>1, PlaceIs DEF FileName, Tidy, ColumnsNested
<1>3. CASE remote[id].parent = Root
    <2>1. Len(Place(id)) = 1 /\ Len(table[id].path) = 1
        BY <1>2, <1>3 DEF Below
    <2>2. Place(id)[1] = table[id].path[1]
        BY <1>2, <2>1 DEF Last
    <2> QED
        BY <1>1, <1>2, <2>1, <2>2, SeqEqual DEF Path
<1>4. CASE remote[id].parent # Root
    <2>1. PICK above \in Path : above = table[remote[id].parent].path
        BY <1>2, <1>4 DEF Below, Inv, IsTable, Row
    <2>2. /\ Place(id) = Append(above, Last(Place(id)))
          /\ table[id].path = Append(above, Last(table[id].path))
        BY <1>1, <1>2, <1>4, <2>1, PathExtend DEF Below
    <2> QED
        BY <1>2, <2>2
<1> QED
    BY <1>3, <1>4

-------------------------------------------------------------------------------
(* What a change leaves on the disk before the State records it.           *)
Adding(id) ==
    /\ HasRemotePath(remote[id].parent)
    /\ DOMAIN disk = Columns \cup {Place(id)} /\ Typed(DOMAIN table)
    /\ Place(id) \notin Columns => disk[Place(id)].type = remote[id].type

Moving(id) ==
    /\ id \in DOMAIN table /\ HasRemotePath(remote[id].parent)
    /\ DOMAIN disk = (Columns \ {table[id].path}) \cup {Place(id)}
    /\ Typed(DOMAIN table \ {id}) /\ disk[Place(id)].type = remote[id].type
    /\ remote[id].type = "folder" => Place(id) = table[id].path

Removing(id) ==
    /\ id \in DOMAIN table
    /\ DOMAIN disk = {path \in Columns : ~IsPrefix(table[id].path, path)}
    /\ Typed({other \in DOMAIN table : ~IsPrefix(table[id].path, table[other].path)})

LEMMA AddedMatches ==
    ASSUME Inv, Tidy, NEW id \in DOMAIN remote, Adding(id),
           NEW c, c.id = id, c.path = Place(id), c.parent = remote[id].parent,
           AddAccepted(table, c), table' = Added(table, c), UNCHANGED <<remote, disk, ignored>>
    PROVE  Tidy' /\ Matching'
<1>1. /\ id \notin DOMAIN table /\ DOMAIN table' = DOMAIN table \cup {id}
      /\ table'[id].path = Place(id) /\ table'[id].parent = remote[id].parent
      /\ \A known \in DOMAIN table : table'[known] = table[known] /\ table[known].path # Place(id)
    BY DEF AddAccepted, Added
<1>2. /\ Last(Place(id)) = remote[id].name /\ Below(Place(id), remote[id].parent)
    BY PlaceIs DEF Adding
<1>3. FoldersStay'
    BY <1>1, <1>2 DEF Tidy, FoldersStay, FileName
<1>4. ColumnsNested'
    BY <1>1, <1>2 DEF Tidy, ColumnsNested, Below
<1>5. PathsDistinct(table')
    BY <1>1 DEF Tidy, PathsDistinct
<1>6. Tidy'
    BY <1>3, <1>4, <1>5 DEF Tidy, ParentsHold, IgnoresLocal
<1>7. Columns' = Columns \cup {Place(id)} /\ Place(id) \notin Columns
    BY <1>1 DEF Columns
<1>8. Matching'
    BY <1>1, <1>7 DEF Matching, Adding, Typed
<1> QED
    BY <1>6, <1>8

LEMMA UpdatedMatches ==
    ASSUME Inv, Tidy, NEW id \in DOMAIN remote, Moving(id),
           NEW c, c.id = id, c.name = remote[id].name, c.parent = remote[id].parent,
           UpdateAccepted(table, c), table' = Updated(table, c),
           UNCHANGED <<remote, disk, ignored>>
    PROVE  Tidy' /\ Matching'
<1>1. UpdatedPath(table, c) = Place(id)
    BY DEF Moving, HasRemotePath, UpdatedPath, Place, RemotePath
<1>2. /\ id \in DOMAIN table /\ DOMAIN table' = DOMAIN table
      /\ table'[id].path = Place(id) /\ table'[id].parent = remote[id].parent
      /\ \A known \in DOMAIN table \ {id} :
            table'[known] = table[known] /\ table[known].path # Place(id)
    BY <1>1 DEF UpdateAccepted, Updated, Moving
<1>3. /\ Last(Place(id)) = remote[id].name /\ Below(Place(id), remote[id].parent)
    BY PlaceIs DEF Moving
<1>4. remote[id].type = "folder" => Place(id) = table[id].path
    BY DEF Moving
<1>5. FoldersStay'
    BY <1>2, <1>3 DEF Tidy, FoldersStay, FileName
<1>6. ColumnsNested'
    BY <1>2, <1>3, <1>4 DEF Tidy, ColumnsNested, Below
<1>7. PathsDistinct(table')
    BY <1>2 DEF Tidy, PathsDistinct
<1>8. Tidy'
    BY <1>5, <1>6, <1>7 DEF Tidy, ParentsHold, IgnoresLocal
<1>9. Columns' = (Columns \ {table[id].path}) \cup {Place(id)}
    BY <1>2 DEF Columns, Tidy, PathsDistinct
<1>10. Matching'
    BY <1>2, <1>9 DEF Matching, Moving, Typed
<1> QED
    BY <1>8, <1>10

-------------------------------------------------------------------------------
(* The rows forgotten with a content are those of the paths below its own. *)
LEMMA SubtreeIs ==
    ASSUME Inv, ColumnsNested, PathsDistinct(table), NEW id \in DOMAIN table, NEW known \in DOMAIN table
    PROVE  known \in Subtree(table, id) <=> IsPrefix(table[id].path, table[known].path)
<1>1. \A row \in DOMAIN table : table[row].path \in Path /\ Len(table[row].path) \in Nat
    BY PathLast DEF Inv, IsTable, Row
<1>2. \A row \in DOMAIN table : \A child \in DirectChildren(table, row) :
        /\ child \in DOMAIN table /\ Len(table[child].path) # 1
        /\ Front(table[child].path) = table[row].path
    BY RootAssumption DEF Inv, IsTable, DirectChildren, ColumnsNested, Below
<1>3. ASSUME known \in Subtree(table, id)
      PROVE  IsPrefix(table[id].path, table[known].path)
    <2> DEFINE S == {row \in DOMAIN table : IsPrefix(table[id].path, table[row].path)}
    <2>1. \A row \in S : DirectChildren(table, row) \subseteq S
        BY <1>1, <1>2, FrontPrefix, PrefixOrder
    <2>2. id \in S
        BY <1>1, PrefixOrder
    <2>3. known \in S
        <3> HIDE DEF S
        <3>1. S \subseteq DOMAIN table
            BY DEF S
        <3> QED
            BY <1>3, <2>1, <2>2, <3>1 DEF Subtree, Closed
    <2> QED
        BY <2>3
<1>4. ASSUME IsPrefix(table[id].path, table[known].path),
             NEW S \in SUBSET DOMAIN table, Closed(table, S), id \in S
      PROVE  known \in S
    <2> DEFINE out     == {row \in DOMAIN table \ S : IsPrefix(table[id].path, table[row].path)}
               lengths == {Len(table[row].path) : row \in out}
    <2>1. SUFFICES ASSUME out # {} PROVE FALSE
        BY <1>4
    <2>2. lengths \in SUBSET Nat /\ lengths # {}
        BY <1>1, <2>1
    <2>3. PICK n \in lengths : \A m \in lengths : n <= m
        <3> HIDE DEF lengths
        <3> QED
            BY <2>2, LeastNumber
    <2>4. PICK row \in out : n = Len(table[row].path)
        BY <2>3
    <2>5. row \in DOMAIN table /\ row \notin S /\ IsPrefix(table[id].path, table[row].path)
        BY <2>4
    <2>6. table[id].path # table[row].path
        BY <1>4, <2>5 DEF PathsDistinct
    <2>7. /\ Len(table[row].path) # 1 /\ IsPrefix(table[id].path, Front(table[row].path))
          /\ Len(Front(table[row].path)) = Len(table[row].path) - 1
        BY <1>1, <2>5, <2>6, FrontPrefix
    <2>8. /\ table[row].parent \in DOMAIN table
          /\ table[table[row].parent].path = Front(table[row].path)
        BY <2>5, <2>7 DEF ColumnsNested, Below
    <2>9. table[row].parent \in S
        <3>1. Len(table[table[row].parent].path) = n - 1
            BY <2>4, <2>7, <2>8
        <3>2. ~(n <= n - 1)
            BY <2>2, <2>3
        <3>3. table[row].parent \notin out
            BY <2>3, <3>1, <3>2
        <3> QED
            BY <2>7, <2>8, <3>3
    <2>10. row \in S
        BY <1>4, <2>5, <2>8, <2>9 DEF Closed, DirectChildren
    <2> QED
        BY <2>5, <2>10
<1> QED
    BY <1>3, <1>4 DEF Subtree

LEMMA ForgotMatches ==
    ASSUME Inv, Tidy, NEW id, Removing(id), table' = ForgotWithChildren(table, id),
           UNCHANGED <<remote, disk, ignored>>
    PROVE  Tidy' /\ Matching'
<1>1. /\ id \in DOMAIN table
      /\ DOMAIN table' = {row \in DOMAIN table : ~IsPrefix(table[id].path, table[row].path)}
      /\ \A row \in DOMAIN table' : table'[row] = table[row]
    BY SubtreeIs DEF Removing, ForgotWithChildren, Tidy
<1>2. \A row \in DOMAIN table' : table[row].parent \in DOMAIN table
                                    => table[row].parent \in DOMAIN table'
    BY SubtreeClosed DEF ForgotWithChildren, DirectChildren
<1>3. FoldersStay'
    BY <1>1 DEF Tidy, FoldersStay, FileName
<1>4. ColumnsNested'
    <2> SUFFICES ASSUME NEW row \in DOMAIN table'
                 PROVE  Below(table[row].path, table[row].parent)'
        BY DEF ColumnsNested
    <2>1. Below(table[row].path, table[row].parent)
        BY <1>1 DEF Tidy, ColumnsNested
    <2> QED
        BY <1>1, <1>2, <2>1 DEF Below
<1>5. PathsDistinct(table')
    BY <1>1 DEF Tidy, PathsDistinct
<1>6. Tidy'
    BY <1>3, <1>4, <1>5 DEF Tidy, ParentsHold, IgnoresLocal
<1>7. Columns' = {path \in Columns : ~IsPrefix(table[id].path, path)}
    BY <1>1 DEF Columns
<1>8. Matching'
    BY <1>1, <1>7 DEF Matching, Removing, Typed
<1> QED
    BY <1>6, <1>8

(* What is listed is below something listed, and once every row has the    *)
(* parent of its content, nothing listed is forgotten with what is not.    *)
LEMMA PartsRemote ==
    ASSUME Inv, NEW id, NEW parts \in Parts(RemoteTable, id)
    PROVE  \E n \in Nat \ {0} : /\ Len(parts) = n /\ n <= Cardinality(Visible)
                                 /\ parts \in [1..n -> Visible]
                                 /\ IsParts(RemoteTable, parts, id)
<1>1. DOMAIN RemoteTable = Visible
    BY DEF RemoteTable
<1>2. PICK n \in 1..Cardinality(Visible) :
        parts \in [1..n -> Visible] /\ IsParts(RemoteTable, parts, id)
    BY <1>1, Zenon DEF Parts
<1>3. IsFiniteSet(Visible)
    <2>1. Visible \subseteq Ids
        BY DEF Visible, Inv, UsersOK, SidesOK, ContentsOK
    <2> QED
        BY <2>1, StartupAssumption, FS_Subset
<1>4. n \in Nat \ {0} /\ n <= Cardinality(Visible)
    BY <1>2, <1>3, FS_CardinalityType
<1>5. Len(parts) = n
    BY <1>2, <1>4
<1> QED
    BY <1>2, <1>4, <1>5

LEMMA ListedParent ==
    ASSUME Inv, ParentsHold, NEW id \in Listed, remote[id].parent # Root
    PROVE  remote[id].parent \in Listed
<1>1. PICK parts : parts \in Parts(RemoteTable, id)
    BY DEF Listed, HasPath
<1>2. /\ parts \in Seq(Visible) /\ Len(parts) \in Nat \ {0} /\ IsParts(RemoteTable, parts, id)
      /\ Len(parts) <= Cardinality(Visible) /\ Cardinality(Visible) \in Nat
    <2>1. DOMAIN RemoteTable = Visible
        BY DEF RemoteTable
    <2>2. PICK n \in 1..Cardinality(Visible) :
            parts \in [1..n -> Visible] /\ IsParts(RemoteTable, parts, id)
        BY <1>1, <2>1, Zenon DEF Parts
    <2>3. IsFiniteSet(Visible)
        <3>1. Visible \subseteq Ids
            BY DEF Visible, Inv, UsersOK, SidesOK, ContentsOK
        <3> QED
            BY <3>1, StartupAssumption, FS_Subset
    <2>4. Cardinality(Visible) \in Nat
        BY <2>3, FS_CardinalityType
    <2>5. n \in Nat \ {0} /\ n <= Cardinality(Visible)
        BY <2>2, <2>4
    <2>6. parts \in Seq(Visible) /\ Len(parts) = n
        BY <2>2, <2>5
    <2> QED
        BY <2>2, <2>4, <2>5, <2>6
<1>3. \A k \in 1..Len(parts) : parts[k] \in Visible
                                    /\ RemoteTable[parts[k]].parent = remote[parts[k]].parent
    BY <1>2 DEF RemoteTable
<1>4. PICK n \in Nat \ {0} : n = Len(parts)
    BY <1>2
<1>5. parts[n] = id /\ remote[parts[1]].parent = Root
    BY <1>2, <1>3, <1>4 DEF IsParts, Last
<1>6. n # 1
    BY <1>5
<1>7. PICK m \in Nat \ {0} : m + 1 = n /\ m <= Cardinality(Visible)
    <2>1. n - 1 \in Nat \ {0} /\ (n - 1) + 1 = n /\ n - 1 <= Cardinality(Visible)
        BY <1>2, <1>4, <1>6
    <2> QED
        BY <2>1
<1>8. remote[id].parent = parts[m] /\ parts[m] \in Visible
    <2>1. n \in 2..Len(parts) /\ n - 1 = m /\ m \in 1..Len(parts) /\ n \in 1..Len(parts)
        BY <1>4, <1>7
    <2>2. RemoteTable[parts[n]].parent = parts[n - 1]
        BY <1>2, <2>1 DEF IsParts
    <2> QED
        BY <1>3, <1>5, <2>1, <2>2
<1>9. SubSeq(parts, 1, m) \in Parts(RemoteTable, parts[m])
    <2>1. /\ SubSeq(parts, 1, m) \in [1..m -> Visible]
          /\ \A k \in 1..m : SubSeq(parts, 1, m)[k] = parts[k]
        <3>1. \A k \in 1..m : k \in 1..Len(parts)
            BY <1>4, <1>7
        <3>2. SubSeq(parts, 1, m) = [k \in 1..m |-> parts[k]]
            BY <1>2, <1>4, <1>7, <3>1
        <3> QED
            BY <1>3, <3>1, <3>2
    <2>2. SubSeq(parts, 1, m) \in Seq(Visible) /\ Len(SubSeq(parts, 1, m)) = m
        <3>1. \A up \in [1..m -> Visible] : up \in Seq(Visible) /\ Len(up) = m
            OBVIOUS
        <3> QED
            BY <2>1, <3>1, Zenon
    <2>3. IsParts(RemoteTable, SubSeq(parts, 1, m), parts[m])
        <3>1. \A k \in 2..m : k \in 2..Len(parts) /\ k - 1 \in 1..m /\ k \in 1..m
            BY <1>4, <1>7
        <3>2. 1 \in 1..m /\ m \in 1..m
            OBVIOUS
        <3> QED
            BY <1>2, <2>1, <2>2, <3>1, <3>2 DEF IsParts, Last
    <2>4. m \in 1..Cardinality(Visible) /\ DOMAIN RemoteTable = Visible
        BY <1>2, <1>7 DEF RemoteTable
    <2> QED
        BY <2>1, <2>3, <2>4 DEF Parts
<1>10. HasPath(RemoteTable, remote[id].parent) /\ remote[id].parent \in Visible
    BY <1>8, <1>9 DEF HasPath
<1>11. remote[remote[id].parent].type = "folder"
    BY DEF ParentsHold, Listed, Visible
<1> QED
    BY <1>10, <1>11 DEF Listed

LEMMA ForgetsUnlisted ==
    ASSUME Inv, ParentsHold, NEW id \in DOMAIN table \ Listed,
           \A known \in DOMAIN table \cap Listed : table[known].parent = remote[known].parent
    PROVE  Subtree(table, id) \cap Listed = {}
<1> DEFINE S == DOMAIN table \ Listed
<1>1. \A row \in S : DirectChildren(table, row) \subseteq S
    BY ListedParent, RootAssumption DEF DirectChildren, Inv, IsTable
<1>2. id \in S /\ S \in SUBSET DOMAIN table
    OBVIOUS
<1>3. Subtree(table, id) \subseteq S
    <2> HIDE DEF S
    <2> QED
        BY <1>1, <1>2 DEF Subtree, Closed
<1> QED
    BY <1>3

-------------------------------------------------------------------------------
(* The change in hand, from the disk to the State.                         *)
Id == current.event.id

Making(c) ==
    /\ c.id = Id
    /\ c.change = "Add" => Adding(Id) /\ c.path = Place(Id) /\ c.parent = remote[Id].parent
    /\ c.change = "Update" =>
           Moving(Id) /\ c.name = remote[Id].name /\ c.parent = remote[Id].parent
    /\ c.change = "Forgot" => Removing(Id)
    /\ c.change = "Forgot" <=> current.event.kind = "Deleted"

Reaches == {"start", "write", "move", "fill", "stat"}

HandOK ==
    /\ job.at \in Reaches \cup {"idle", "apply", "failed"}
    /\ job.at \in Reaches =>
           job.from = "remote" /\ job.todo = <<DownloadExecutor(current.event)>>
    /\ job.at \in Reaches \ {"start"} => job.got = remote[Id]
    /\ job.at \in {"idle", "start", "write", "move"} => Matching
    /\ \A point \in {"fill", "stat"} : /\ At("PresentOnDisk", point) => Adding(Id)
                                       /\ At("UpdatedOnDisk", point) => Moving(Id)
    /\ job.at = "apply" =>
           /\ job.changes = <<>> => Matching
           /\ job.changes # <<>> => \E c \in Changes : job.changes = <<c>> /\ Making(c)
    /\ job.at = "failed" /\ job.error = "MissingParent" =>
           /\ Matching
           /\ DownloadExecutor(current.event).ex = "PresentOnDisk"
           /\ remote[Id].parent \notin DOMAIN table \cup {Root}

(* The run is about to end with an error.                                  *)
Broke == job.at = "failed" /\ job.error # "MissingParent"

Unfinished == job.at # "idle" /\ ~(job.at = "apply" /\ job.changes = <<>>)

Well == Broke \/ (Tidy /\ HandOK)

LEMMA HandFailing ==
    ASSUME Inv, NEW error, error # "MissingParent", Fail(error)
    PROVE  Well' /\ Unfinished'
BY DEF Fail, Inv, JobOK, JobIn, IsJob, Broke, Well, Unfinished

LEMMA TidyKept ==
    ASSUME Tidy, UNCHANGED <<table, remote>>, IgnoresLocal'
    PROVE  Tidy'
BY DEF Tidy, ParentsHold, FoldersStay, ColumnsNested, Below, FileName, PathsDistinct

LEMMA HandGoing ==
    ASSUME Inv, Tidy, HandOK, UNCHANGED <<table, remote, current>>, IgnoresLocal',
           NEW executor, NEW from \in Reaches, At(executor, from),
           job'.at \in Reaches \ {"start"}, job'.todo = job.todo, job'.from = job.from,
           job'.got = remote[Id],
           job'.at \in {"write", "move"} => Matching',
           executor = "PresentOnDisk" /\ job'.at \in {"fill", "stat"} => Adding(Id)',
           executor = "UpdatedOnDisk" /\ job'.at \in {"fill", "stat"} => Moving(Id)'
    PROVE  Well' /\ Unfinished'
<1>1. Now' = Now /\ \A other, point : At(other, point)' => other = executor /\ job'.at = point
    BY DEF At, Now
<1>2. Tidy'
    BY TidyKept
<1>3. DownloadExecutor(current.event)' = DownloadExecutor(current.event)
    BY DEF DownloadExecutor
<1>4. HandOK'
    BY <1>1, <1>3 DEF HandOK, Reaches, Id, At
<1> QED
    BY <1>2, <1>4 DEF Well, Unfinished, Reaches

LEMMA HandDone ==
    ASSUME Inv, RemoteJobOK, Tidy, HandOK, UNCHANGED <<table, remote, current>>, IgnoresLocal',
           NEW executor, NEW from \in {"start", "stat"}, At(executor, from),
           NEW c \in Changes, Done(<<c>>), Making(c)'
    PROVE  Well' /\ Unfinished'
<1>1. job.changes = <<>> /\ Len(job.todo) = 1
    BY DEF HandOK, Reaches, RemoteJobOK, At
<1>2. job'.at = "apply" /\ job'.changes = <<>> \o <<c>>
    BY <1>1 DEF Done, Inv, JobOK, JobIn, IsJob
<1>3. <<>> \o <<c>> = <<c>> /\ <<c>> # <<>>
    OBVIOUS
<1>4. Tidy'
    BY TidyKept
<1>5. HandOK'
    BY <1>2, <1>3 DEF HandOK, Reaches, At
<1> QED
    BY <1>2, <1>3, <1>4, <1>5 DEF Well, Unfinished

-------------------------------------------------------------------------------
(* What the executor in hand works on is the change in hand.               *)
LEMMA HandNow ==
    ASSUME Inv, HandOK, NEW executor, NEW from \in Reaches, At(executor, from)
    PROVE  /\ Now = DownloadExecutor(current.event) /\ Now.ex = executor /\ Now.id = Id
           /\ executor \in Downloads /\ Id \in DOMAIN remote /\ job.from = "remote"
           /\ executor = "AbsentFromDisk" <=> current.event.kind = "Deleted"
           /\ executor = "UpdatedOnDisk" => Id \in DOMAIN table
<1>1. job.todo = <<DownloadExecutor(current.event)>> /\ job.from = "remote"
    BY DEF HandOK, At
<1>2. Now = DownloadExecutor(current.event) /\ Now.ex = executor
    BY <1>1 DEF Now, At
<1>3. /\ Now.id = Id /\ executor \in Downloads
      /\ executor = "AbsentFromDisk" <=> current.event.kind = "Deleted"
      /\ executor = "UpdatedOnDisk" => Id \in DOMAIN table
    BY <1>2 DEF DownloadExecutor, OnId, Downloads, Id
<1> QED
    BY <1>1, <1>2, <1>3, NowType DEF Downloads

(* Where it works is the place of the content, below what is on the disk.  *)
LEMMA HandPlace ==
    ASSUME Inv, Tidy, HandOK, Rooted(disk), NEW executor \in {"PresentOnDisk", "UpdatedOnDisk"},
           NEW from \in Reaches \ {"start"}, At(executor, from)
    PROVE  /\ job.got = remote[Id] /\ RemotePath(job.got) = Place(Id) /\ Place(Id) \in Path
           /\ HasRemotePath(remote[Id].parent)
           /\ remote[Id].type \in {"file", "folder"}
           /\ Matching => \A above \in Path : IsPrefix(above, Place(Id)) /\ above # Place(Id)
                                                => Exists(above)
<1>1. /\ Now.id = Id /\ Id \in DOMAIN remote /\ job.got = remote[Id]
    <2>1. from \in Reaches
        BY DEF Reaches
    <2> QED
        BY <2>1, HandNow DEF HandOK, At
<1>2. HasRemotePath(remote[Id].parent)
    BY <1>1 DEF Inv, Holds, HoldsDownload, Reaches
<1>3. Place(Id) \in Path /\ Below(Place(Id), remote[Id].parent)
    BY <1>1, <1>2, PlaceIs
<1>4. remote[Id].type \in {"file", "folder"}
    BY <1>1 DEF Inv, UsersOK, SidesOK, ContentsOK, Content
<1>5. ASSUME Matching, NEW above \in Path, IsPrefix(above, Place(Id)), above # Place(Id)
      PROVE  Exists(above)
    <2>1. Len(Place(Id)) # 1 /\ IsPrefix(above, Front(Place(Id)))
        BY <1>3, <1>5, FrontPrefix
    <2>2. Front(Place(Id)) \in DOMAIN disk
        <3>1. remote[Id].parent # Root /\ remote[Id].parent \in DOMAIN table
              /\ Front(Place(Id)) = table[remote[Id].parent].path
            BY <1>3, <2>1 DEF Below
        <3> QED
            BY <1>5, <3>1 DEF Matching, Columns
    <2> QED
        BY <1>5, <2>1, <2>2 DEF Rooted, Exists
<1> QED
    BY <1>1, <1>2, <1>3, <1>4, <1>5 DEF Place

-------------------------------------------------------------------------------
(* The steps of the executors.                                             *)
LEMMA SamePlaces ==
    ASSUME UNCHANGED <<table, remote, current>>
    PROVE  Columns' = Columns /\ Place(Id)' = Place(Id)
BY DEF Columns, Place, RemotePath, Id

LEMMA SameTypes ==
    ASSUME Tidy, UNCHANGED <<table, remote, current>>, DOMAIN disk' = DOMAIN disk,
           \A path \in DOMAIN disk : disk'[path].type = disk[path].type
    PROVE  (Matching => Matching') /\ (Adding(Id) => Adding(Id)') /\ (Moving(Id) => Moving(Id)')
<1>1. Columns' = Columns /\ Place(Id)' = Place(Id) /\ Id' = Id
    BY SamePlaces DEF Id
<1>2. \A id \in DOMAIN table : table[id].path \in Columns
    BY DEF Columns
<1>3. HasRemotePath(remote[Id].parent)' = HasRemotePath(remote[Id].parent)
    BY <1>1 DEF HasRemotePath
<1>4. Matching => Matching'
    BY <1>1, <1>2 DEF Matching, Typed
<1>5. Adding(Id) => Adding(Id)'
    BY <1>1, <1>2, <1>3 DEF Adding, Typed
<1>6. ASSUME Moving(Id)
      PROVE  \A id \in DOMAIN table \ {Id} : table[id].path \in DOMAIN disk
    BY <1>2, <1>6 DEF Moving, Tidy, PathsDistinct
<1>7. Moving(Id) => Moving(Id)'
    BY <1>1, <1>2, <1>3, <1>6 DEF Moving, Typed
<1> QED
    BY <1>4, <1>5, <1>7

LEMMA HandAbsent ==
    ASSUME Inv, RemoteJobOK, Tidy, HandOK, AbsentFromDisk, UNCHANGED current
    PROVE  Well' /\ Unfinished'
<1>1. At("AbsentFromDisk", "start") /\ UNCHANGED <<table, remote, current>>
    BY DEF AbsentFromDisk, Sys
<1>2. /\ Now.id = Id /\ Id \in DOMAIN remote /\ Id \in Ids
      /\ current.event.kind = "Deleted" /\ Matching
    <2>1. "start" \in Reaches
        BY DEF Reaches
    <2> QED
        BY <1>1, <2>1, HandNow DEF HandOK, At, Inv, UsersOK, SidesOK, ContentsOK
<1>3. CASE Fail("Unexpected")
    BY <1>3, HandFailing
<1>4. CASE HasPath(table, Id)
    <2>1. Id \in DOMAIN table /\ PathOf(table, Id) = table[Id].path
        BY <1>4, PathIsColumn DEF Inv, Tidy
    <2>2. PICK path : path = table[Id].path
        OBVIOUS
    <2>3. path \in DOMAIN disk /\ disk[path].type = remote[Id].type
        BY <1>2, <2>1, <2>2 DEF Matching, Columns, Typed
    <2>4. RemovableAs(TypeAt(path), path)
        <3>1. disk[path].type \in {"file", "folder"}
            BY <1>2, <2>3 DEF Inv, UsersOK, SidesOK, ContentsOK, Content
        <3> QED
            BY <2>3, <3>1 DEF RemovableAs, TypeAt, IsDir, IsFile, Exists
    <2>5. /\ disk' = Without(Under(path)) /\ Done(<<ForgotChange(Id)>>)
          /\ Expect(IF Exists(path) THEN {LocalEvent("Deleted", path)} ELSE {})
        BY <1>2, <1>4, <2>1, <2>2, <2>4 DEF AbsentFromDisk
    <2>6. IgnoresLocal'
        BY <2>5 DEF Tidy, IgnoresLocal, Expect, LocalEvent
    <2>7. /\ DOMAIN disk' = {p \in DOMAIN disk : ~IsPrefix(path, p)}
          /\ \A p \in DOMAIN disk' : disk'[p] = disk[p]
        BY <2>5 DEF Without, Under
    <2>8. Removing(Id)'
        <3>1. Columns' = Columns /\ Id' = Id
            BY <1>1, SamePlaces DEF Id
        <3>2. \A other \in DOMAIN table : ~IsPrefix(path, table[other].path)
                                            => table[other].path \in DOMAIN disk'
            BY <1>2, <2>7 DEF Matching, Columns
        <3> QED
            BY <1>1, <1>2, <2>1, <2>2, <2>7, <3>1, <3>2 DEF Removing, Matching, Typed
    <2> PICK c : c = ForgotChange(Id)
        OBVIOUS
    <2>9. c \in Changes /\ Making(c)'
        BY <1>1, <1>2, <2>8 DEF ForgotChange, Changes, Making, Id
    <2> QED
        BY <1>1, <2>5, <2>6, <2>9, HandDone
<1> QED
    BY <1>2, <1>3, <1>4 DEF AbsentFromDisk

LEMMA HandFetch ==
    ASSUME Inv, Tidy, HandOK, FetchCreated \/ FetchUpdated, UNCHANGED current
    PROVE  Well' /\ Unfinished'
<1>1. UNCHANGED <<table, remote, disk, ignored, current>>
    BY DEF FetchCreated, FetchUpdated, Sys, world
<1>2. PICK executor \in {"PresentOnDisk", "UpdatedOnDisk"} :
        /\ At(executor, "start") /\ "start" \in Reaches
        /\ FetchCreated => executor = "PresentOnDisk"
    BY DEF FetchCreated, FetchUpdated, Reaches
<1>3. Now.id = Id /\ Now = DownloadExecutor(current.event) /\ Now.ex = executor /\ Matching
    BY <1>2, HandNow DEF HandOK, At
<1>4. IgnoresLocal' /\ Matching'
    BY <1>1, <1>3 DEF Tidy, IgnoresLocal, Matching, Typed, Columns
<1>5. \/ Fail("Unexpected")
      \/ \E point \in {"write", "move"} : job' = [job EXCEPT !.at = point, !.got = remote[Id]]
      \/ /\ Fail("MissingParent") /\ FetchCreated
         /\ ~HasRemotePath(remote[Id].parent) /\ remote[Id].parent \notin DOMAIN table
    BY <1>3 DEF FetchCreated, FetchUpdated, Fetch, Broken
<1>6. ASSUME NEW point \in {"write", "move"}, job' = [job EXCEPT !.at = point, !.got = remote[Id]]
      PROVE  Well' /\ Unfinished'
    <2>1. /\ job'.at = point /\ job'.got = remote[Id] /\ job'.todo = job.todo
          /\ job'.from = job.from
        BY <1>6 DEF Inv, JobOK, JobIn, IsJob
    <2>2. job'.at \in Reaches \ {"start"} /\ job'.at \notin {"fill", "stat"}
        BY <2>1 DEF Reaches
    <2> QED
        BY <1>1, <1>2, <1>4, <2>1, <2>2, HandGoing
<1>7. ASSUME Fail("MissingParent"), FetchCreated,
             ~HasRemotePath(remote[Id].parent), remote[Id].parent \notin DOMAIN table
      PROVE  Well' /\ Unfinished'
    <2>1. job'.at = "failed" /\ job'.error = "MissingParent"
        BY <1>7 DEF Fail, Inv, JobOK, JobIn, IsJob
    <2>2. DownloadExecutor(current.event).ex = "PresentOnDisk"
        BY <1>2, <1>3, <1>7
    <2>3. DownloadExecutor(current.event)' = DownloadExecutor(current.event)
        BY <1>1 DEF DownloadExecutor
    <2>4. HandOK'
        BY <1>1, <1>4, <1>7, <2>1, <2>2, <2>3 DEF HandOK, Reaches, At, HasRemotePath, Id
    <2> QED
        BY <1>1, <1>4, <2>1, <2>4, TidyKept DEF Well, Unfinished
<1> QED
    BY <1>5, <1>6, <1>7, HandFailing

LEMMA HandGoto ==
    ASSUME Inv, NEW point, Goto(point)
    PROVE  /\ job'.at = point /\ job'.todo = job.todo /\ job'.from = job.from
           /\ job'.got = job.got
BY DEF Goto, Inv, JobOK, JobIn, IsJob

LEMMA ExpectLocal ==
    ASSUME Tidy, NEW events, \A event \in events : event.src = "local", Expect(events)
    PROVE  IgnoresLocal'
BY DEF Tidy, IgnoresLocal, Expect

LEMMA HandWrite ==
    ASSUME Inv, Rooted(disk), Tidy, HandOK, WriteCreated, UNCHANGED current
    PROVE  Well' /\ Unfinished'
<1> DEFINE path == RemotePath(job.got)
<1>1. /\ At("PresentOnDisk", "write") /\ UNCHANGED <<table, remote, current>>
      /\ "write" \in Reaches \ {"start"}
    BY DEF WriteCreated, Sys, Reaches
<1>2. /\ job.got = remote[Id] /\ path = Place(Id) /\ path \in Path
      /\ HasRemotePath(remote[Id].parent) /\ remote[Id].type \in {"file", "folder"}
      /\ Matching
    BY <1>1, HandPlace DEF HandOK, At
<1>3. \A above \in Ancestors(path) : Exists(above)
    BY <1>1, <1>2, HandPlace, AncestorsAre
<1> HIDE DEF path
<1>4. /\ Columns' = Columns /\ Place(Id)' = Place(Id) /\ Id' = Id
      /\ HasRemotePath(remote[Id].parent)'
    BY <1>1, <1>2, SamePlaces DEF HasRemotePath, Id
<1>5. \A id \in DOMAIN table : table[id].path \in DOMAIN disk
    BY <1>2 DEF Matching, Columns
<1>6. ASSUME NEW point \in {"fill", "stat"}, Goto(point), IgnoresLocal', Adding(Id)'
      PROVE  Well' /\ Unfinished'
    <2>1. /\ job'.at = point /\ job'.todo = job.todo /\ job'.from = job.from
          /\ job'.got = remote[Id] /\ job'.at \in Reaches \ {"start"}
          /\ job'.at \notin {"write", "move"}
        BY <1>2, <1>6, HandGoto DEF Reaches
    <2> QED
        BY <1>1, <1>6, <2>1, HandGoing
<1>7. CASE remote[Id].type = "folder"
    <2> DEFINE missing == {p \in Ancestors(path) \cup {path} : ~Exists(p)}
               echoes  == {LocalEvent("Created", p) : p \in Ancestors(path) \cup {<<>>}}
                            \cup (IF Exists(path) THEN {} ELSE {LocalEvent("Created", path)})
    <2>1. WriteFolder(path)
        BY <1>2, <1>7 DEF WriteCreated, path
    <2>2. Expect(echoes) /\ \A event \in echoes : event.src = "local"
        BY <2>1 DEF WriteFolder, LocalEvent
    <2>3. missing = IF Exists(path) THEN {} ELSE {path}
        BY <1>3
    <2>4. \/ Fail("Unexpected")
          \/ /\ Goto("stat")
             /\ disk' = [p \in DOMAIN disk \cup missing |->
                            IF p \in missing THEN Folder ELSE disk[p]]
        BY <2>1 DEF WriteFolder
    <2> HIDE DEF missing, echoes
    <2>5. ASSUME Goto("stat"),
                 disk' = [p \in DOMAIN disk \cup missing |->
                            IF p \in missing THEN Folder ELSE disk[p]]
          PROVE  Well' /\ Unfinished'
        <3>1. /\ DOMAIN disk' = DOMAIN disk \cup {path}
              /\ \A p \in DOMAIN disk : disk'[p] = disk[p]
              /\ path \notin DOMAIN disk => disk'[path].type = "folder"
            BY <2>3, <2>5 DEF Exists, Folder
        <3>2. Adding(Id)'
            BY <1>1, <1>2, <1>4, <1>5, <1>7, <3>1 DEF Adding, Matching, Typed
        <3> QED
            BY <1>6, <2>2, <2>5, <3>2, ExpectLocal
    <2> QED
        BY <2>4, <2>5, HandFailing
<1>8. CASE remote[Id].type = "file"
    <2> DEFINE echoes == IF Exists(path) THEN {} ELSE {LocalEvent("Created", path)}
    <2>1. WriteFile(path)
        BY <1>2, <1>8 DEF WriteCreated, path
    <2>2. Expect(echoes) /\ \A event \in echoes : event.src = "local"
        BY <2>1 DEF WriteFile, LocalEvent
    <2>3. \/ Fail("Unexpected")
          \/ ~IsDir(path) /\ Goto("fill") /\ disk' = With(path, File(NoBytes))
        BY <2>1 DEF WriteFile
    <2> HIDE DEF echoes
    <2>4. ASSUME ~IsDir(path), Goto("fill"), disk' = With(path, File(NoBytes))
          PROVE  Well' /\ Unfinished'
        <3>1. /\ DOMAIN disk' = DOMAIN disk \cup {path}
              /\ \A p \in DOMAIN disk : disk'[p].type = disk[p].type
              /\ disk'[path].type = "file"
            BY <2>4 DEF With, File, IsDir, Exists, Inv, UsersOK, SidesOK, TreeOK, Entry
        <3>2. Adding(Id)'
            BY <1>1, <1>2, <1>4, <1>5, <1>8, <3>1 DEF Adding, Matching, Typed
        <3> QED
            BY <1>6, <2>2, <2>4, <3>2, ExpectLocal
    <2> QED
        BY <2>3, <2>4, HandFailing
<1> QED
    BY <1>2, <1>7, <1>8

(* A download fills a file that is there.                                  *)
LEMMA HandFilling ==
    ASSUME Inv, Rooted(disk), Tidy, HandOK, NEW executor \in {"PresentOnDisk", "UpdatedOnDisk"},
           At(executor, "fill"), UNCHANGED <<table, remote, current>>, NEW id, NEW echo,
           Download(id, RemotePath(job.got), echo)
    PROVE  Well' /\ Unfinished'
<1>1. "fill" \in Reaches \ {"start"} /\ "fill" \in Reaches
    BY DEF Reaches
<1>2. PICK path \in Path : path = RemotePath(job.got) /\ path = Place(Id)
    BY <1>1, HandPlace
<1>3. job.got = remote[Id]
    BY <1>1, HandPlace
<1>4. path \in DOMAIN disk
    BY <1>2 DEF HandOK, Adding, Moving
<1>5. \/ Fail("Unexpected")
      \/ /\ Goto("stat") /\ Expect({LocalEvent("Modified", echo)})
         /\ ~IsDir(path) /\ \E bytes : disk' = With(path, File(bytes))
    BY <1>2 DEF Download, Overwrite, Broken
<1>6. ASSUME Goto("stat"), Expect({LocalEvent("Modified", echo)}),
             ~IsDir(path), NEW bytes, disk' = With(path, File(bytes))
      PROVE  Well' /\ Unfinished'
    <2>1. /\ DOMAIN disk' = DOMAIN disk
          /\ \A p \in DOMAIN disk : disk'[p].type = disk[p].type
        BY <1>4, <1>6 DEF With, File, IsDir, Exists, Inv, UsersOK, SidesOK, TreeOK, Entry
    <2>2. /\ executor = "PresentOnDisk" => Adding(Id)'
          /\ executor = "UpdatedOnDisk" => Moving(Id)'
        BY <2>1, SameTypes DEF HandOK
    <2>3. IgnoresLocal'
        <3>1. \A event \in {LocalEvent("Modified", echo)} : event.src = "local"
            BY DEF LocalEvent
        <3> QED
            BY <1>6, <3>1, ExpectLocal
    <2>4. /\ job'.at = "stat" /\ job'.todo = job.todo /\ job'.from = job.from
          /\ job'.got = remote[Id] /\ job'.at \in Reaches \ {"start"}
          /\ job'.at \notin {"write", "move"}
        BY <1>3, <1>6, HandGoto DEF Reaches
    <2> QED
        BY <1>1, <2>2, <2>3, <2>4, HandGoing
<1> QED
    BY <1>5, <1>6, HandFailing

(* Only a file moves; its new place may be that of another.                *)
LEMMA HandMove ==
    ASSUME Inv, Rooted(disk), Tidy, HandOK, LoopOK, MoveUpdated, UNCHANGED current
    PROVE  Well' /\ Unfinished'
<1>1. /\ At("UpdatedOnDisk", "move") /\ UNCHANGED <<table, remote, current>>
      /\ "move" \in Reaches \ {"start"} /\ "move" \in Reaches
    BY DEF MoveUpdated, Sys, Reaches
<1>2. /\ job.got = remote[Id] /\ RemotePath(job.got) = Place(Id) /\ Place(Id) \in Path
      /\ HasRemotePath(remote[Id].parent) /\ remote[Id].type \in {"file", "folder"}
      /\ Now.id = Id /\ Id \in DOMAIN table /\ Matching /\ job.from = "remote"
    BY <1>1, HandPlace, HandNow DEF HandOK, At
<1>3. HasPath(table, Id) /\ PathOf(table, Id) = table[Id].path
    BY <1>1, <1>2, PathIsColumn DEF LoopOK, Inv, Tidy
<1>4. PICK from \in Path, to \in Path : from = table[Id].path /\ to = Place(Id)
    BY <1>2 DEF Inv, IsTable, Row
<1>5. /\ Columns' = Columns /\ Place(Id)' = Place(Id) /\ Id' = Id
      /\ HasRemotePath(remote[Id].parent)'
    BY <1>1, <1>2, SamePlaces DEF HasRemotePath, Id
<1>6. \A id \in DOMAIN table : table[id].path \in DOMAIN disk
    BY <1>2 DEF Matching, Columns
<1>7. remote[Id].type = "folder" => from = to
    BY <1>2, <1>4, SamePlace DEF Tidy, FoldersStay
<1>8. ASSUME Goto("fill"), IgnoresLocal', Moving(Id)'
      PROVE  Well' /\ Unfinished'
    <2>1. /\ job'.at = "fill" /\ job'.todo = job.todo /\ job'.from = job.from
          /\ job'.got = remote[Id] /\ job'.at \in Reaches \ {"start"}
          /\ job'.at \notin {"write", "move"}
        BY <1>2, <1>8, HandGoto DEF Reaches
    <2> QED
        BY <1>1, <1>8, <2>1, HandGoing
<1>9. CASE from = to
    <2>1. Goto("fill") /\ UNCHANGED <<ignored, disk>>
        BY <1>2, <1>3, <1>4, <1>9 DEF MoveUpdated
    <2>2. Moving(Id)'
        BY <1>1, <1>2, <1>4, <1>5, <1>6, <1>9, <2>1 DEF Moving, Matching, Typed
    <2>3. IgnoresLocal'
        BY <2>1 DEF Tidy, IgnoresLocal
    <2> QED
        BY <1>8, <2>1, <2>2, <2>3
<1>10. CASE from # to
    <2>1. \/ Fail("Unexpected")
          \/ /\ CanRename(from, to) /\ disk' = Renamed(from, to)
             /\ Expect({RenamedEvent(from, to)}) /\ Goto("fill")
        BY <1>2, <1>3, <1>4, <1>10 DEF MoveUpdated, MoveRefused
    <2>2. remote[Id].type = "file" /\ from \in DOMAIN disk /\ disk[from].type = "file"
        BY <1>2, <1>4, <1>6, <1>7, <1>10 DEF Matching, Typed
    <2>3. Under(from) = {from} /\ Moved(from, to, from) = to
        <3>1. \A p \in Under(from) : p = from
            BY <2>2, UnderFile DEF Inv, UsersOK, SidesOK, IsDir
        <3>2. IsPrefix(from, from)
            BY PrefixOrder
        <3>3. Moved(from, to, from) = to
            <4>1. /\ Moved(from, to, from) \in Path
                  /\ Len(Moved(from, to, from)) = Len(to) + (Len(from) - Len(from))
                  /\ \A i \in 1..Len(to) : Moved(from, to, from)[i] = to[i]
                BY <3>2, MovedIs
            <4>2. Len(from) \in Nat /\ Len(to) \in Nat
                BY PathLast
            <4>3. Len(Moved(from, to, from)) = Len(to)
                BY <4>1, <4>2
            <4> QED
                BY <4>1, <4>3, SeqEqual DEF Path
        <3> QED
            BY <2>2, <3>1, <3>2, <3>3 DEF Under
    <2>4. ASSUME CanRename(from, to), disk' = Renamed(from, to),
                 Expect({RenamedEvent(from, to)}), Goto("fill")
          PROVE  Well' /\ Unfinished'
        <3>1. ~IsDir(to)
            BY <2>2, <2>4 DEF CanRename, IsDir
        <3>2. /\ DOMAIN disk' = (DOMAIN disk \ {from}) \cup {to}
              /\ \A p \in DOMAIN disk \ {from, to} : disk'[p] = disk[p]
              /\ disk'[to] = disk[from]
            <4> DEFINE kept  == DOMAIN disk \ (Under(from) \cup {to})
                       moved == {Moved(from, to, p) : p \in Under(from)}
            <4>1. disk' = [p \in kept \cup moved |->
                            IF p \in kept THEN disk[p]
                            ELSE disk[CHOOSE q \in Under(from) : Moved(from, to, q) = p]]
                BY <2>4, Zenon DEF Renamed
            <4>2. moved = {to} /\ kept = DOMAIN disk \ {from, to}
                BY <2>3
            <4>3. (CHOOSE q \in Under(from) : Moved(from, to, q) = to) = from
                BY <2>3
            <4> HIDE DEF kept, moved
            <4> QED
                BY <1>10, <2>2, <4>1, <4>2, <4>3
        <3>3. \A p \in DOMAIN disk \ {from} : disk'[p].type = disk[p].type
            BY <2>2, <3>1, <3>2 DEF IsDir, Exists, Inv, UsersOK, SidesOK, TreeOK, Entry
        <3>4. \A id \in DOMAIN table \ {Id} : table[id].path \in DOMAIN disk \ {from}
            BY <1>2, <1>4, <1>6 DEF Tidy, PathsDistinct
        <3>5. Moving(Id)'
            BY <1>1, <1>2, <1>4, <1>5, <1>7, <1>10, <2>2, <3>2, <3>3, <3>4
            DEF Moving, Matching, Typed
        <3>6. IgnoresLocal'
            <4>1. \A event \in {RenamedEvent(from, to)} : event.src = "local"
                BY DEF RenamedEvent
            <4> QED
                BY <2>4, <4>1, ExpectLocal
        <3> QED
            BY <1>8, <2>4, <3>5, <3>6
    <2> QED
        BY <2>1, <2>4, HandFailing
<1> QED
    BY <1>9, <1>10

LEMMA HandFill ==
    ASSUME Inv, Rooted(disk), Tidy, HandOK, FillCreated \/ FillUpdated, UNCHANGED current
    PROVE  Well' /\ Unfinished'
<1>1. UNCHANGED <<table, remote, current>> /\ "fill" \in Reaches /\ "fill" \in Reaches \ {"start"}
    BY DEF FillCreated, FillUpdated, Sys, Reaches
<1>2. CASE FillCreated
    BY <1>1, <1>2, HandFilling DEF FillCreated
<1>3. CASE FillUpdated /\ job.got.type # "folder"
    BY <1>1, <1>3, HandFilling DEF FillUpdated
<1>4. CASE FillUpdated /\ job.got.type = "folder"
    <2>1. /\ At("UpdatedOnDisk", "fill") /\ Goto("stat") /\ UNCHANGED disk
          /\ Expect({LocalEvent("Modified", PathOf(table, Now.id))})
        BY <1>4 DEF FillUpdated
    <2>2. Moving(Id)'
        BY <1>1, <2>1, SameTypes DEF HandOK
    <2>3. IgnoresLocal'
        <3>1. \A event \in {LocalEvent("Modified", PathOf(table, Now.id))} : event.src = "local"
            BY DEF LocalEvent
        <3> QED
            BY <2>1, <3>1, ExpectLocal
    <2>4. job.got = remote[Id]
        BY <1>1, <2>1, HandPlace
    <2>5. /\ job'.at = "stat" /\ job'.todo = job.todo /\ job'.from = job.from
          /\ job'.got = remote[Id] /\ job'.at \in Reaches \ {"start"}
          /\ job'.at \notin {"write", "move"}
        BY <2>1, <2>4, HandGoto DEF Reaches
    <2> QED
        BY <1>1, <2>1, <2>2, <2>3, <2>5, HandGoing
<1> QED
    BY <1>2, <1>3, <1>4

LEMMA HandStat ==
    ASSUME Inv, Rooted(disk), RemoteJobOK, Tidy, HandOK, StatCreated \/ StatUpdated,
           UNCHANGED current
    PROVE  Well' /\ Unfinished'
<1>1. UNCHANGED <<table, remote, disk, ignored, current>>
      /\ "stat" \in Reaches \ {"start"} /\ "stat" \in Reaches
    BY DEF StatCreated, StatUpdated, Stat, Sys, world, Reaches
<1>2. PICK executor \in {"PresentOnDisk", "UpdatedOnDisk"} : At(executor, "stat")
    BY DEF StatCreated, StatUpdated
<1>3. /\ job.got = remote[Id] /\ RemotePath(job.got) = Place(Id) /\ Now.id = Id
      /\ executor # "AbsentFromDisk" /\ current.event.kind # "Deleted"
    BY <1>1, <1>2, HandPlace, HandNow
<1>4. IgnoresLocal' /\ Id' = Id /\ Place(Id)' = Place(Id)
    BY <1>1, SamePlaces DEF Tidy, IgnoresLocal, Id
<1> PICK path : path = Place(Id)
    OBVIOUS
<1>5. Exists(path) => Stamp(path) \in Nat
    BY StampType
<1>6. CASE StatCreated
    <2> PICK c : c = AddChange(Id, path, job.got.rev, job.got.parent, Stamp(path))
        OBVIOUS
    <2>1. At("PresentOnDisk", "stat") /\ Stat(path, <<c>>)
        BY <1>3, <1>6 DEF StatCreated
    <2>2. Exists(path) => c \in Changes
        BY <1>3, <1>5, <2>1, ParentHeld DEF AddChange, AddChanges, Changes
    <2>3. Making(c)'
        <3>1. Adding(Id)'
            BY <1>1, <2>1, SameTypes DEF HandOK
        <3>2. /\ c.change = "Add" /\ c.id = Id /\ c.path = path
              /\ c.parent = remote[Id].parent
            BY <1>3 DEF AddChange
        <3> QED
            BY <1>1, <1>3, <1>4, <3>1, <3>2 DEF Making, Id
    <2> QED
        BY <1>1, <1>4, <2>1, <2>2, <2>3, HandFailing, HandDone DEF Stat
<1>7. CASE StatUpdated
    <2> PICK c : c = UpdateChange(Id, job.got.name, job.got.rev, job.got.parent, Stamp(path))
        OBVIOUS
    <2>1. At("UpdatedOnDisk", "stat") /\ Stat(path, <<c>>)
        BY <1>3, <1>7 DEF StatUpdated
    <2>2. Exists(path) => c \in Changes
        BY <1>3, <1>5, <2>1, ParentHeld DEF UpdateChange, UpdateChanges, Changes
    <2>3. Making(c)'
        <3>1. Moving(Id)'
            BY <1>1, <2>1, SameTypes DEF HandOK
        <3>2. /\ c.change = "Update" /\ c.id = Id /\ c.name = remote[Id].name
              /\ c.parent = remote[Id].parent
            BY <1>3 DEF UpdateChange
        <3> QED
            BY <1>1, <1>3, <1>4, <3>1, <3>2 DEF Making, Id
    <2> QED
        BY <1>1, <1>4, <2>1, <2>2, <2>3, HandFailing, HandDone DEF Stat
<1> QED
    BY <1>6, <1>7

LEMMA DownloadWell ==
    ASSUME Inv, Rooted(disk), RemoteJobOK, LoopOK, Well, DownloadStep, UNCHANGED current
    PROVE  Well' /\ Unfinished' /\ UNCHANGED <<table, remote>>
<1>1. UNCHANGED <<table, remote>>
    BY DownloadsTellNothing, ParentDownload
<1>2. job.at # "failed"
    BY DEF DownloadStep, AbsentFromDisk, FetchCreated, FetchUpdated, WriteCreated, FillCreated,
           StatCreated, MoveUpdated, FillUpdated, StatUpdated, At
<1>3. Tidy /\ HandOK
    BY <1>2 DEF Well, Broke
<1> QED
    BY <1>1, <1>3, HandAbsent, HandFetch, HandWrite, HandMove, HandFill, HandStat
    DEF DownloadStep

(* The State records what was made, and the folder matches it again.       *)
LEMMA ApplyWell ==
    ASSUME Inv, Well, ApplyChange, UNCHANGED current
    PROVE  \/ Broke' /\ UNCHANGED table
           \/ /\ Tidy /\ Tidy' /\ HandOK' /\ job.at = "apply"
              /\ \/ ~Unfinished /\ job' = Idle /\ UNCHANGED table
                 \/ /\ Unfinished /\ ~Unfinished' /\ job'.at = "apply"
                    /\ \E c \in Changes :
                          /\ job.changes = <<c>> /\ Making(c)
                          /\ Accepted(table, c) /\ table' = Changed(table, c)
<1>1. /\ job.at = "apply" /\ Tidy /\ HandOK
      /\ UNCHANGED <<remote, disk, ignored, current>>
    BY DEF ApplyChange, world, Well, Broke
<1>2. CASE job.changes = <<>>
    <2>1. job' = Idle /\ UNCHANGED table /\ Matching /\ ~Unfinished
        BY <1>1, <1>2 DEF ApplyChange, HandOK, Unfinished
    <2>2. Tidy' /\ Matching'
        BY <1>1, <2>1, TidyKept DEF Tidy, IgnoresLocal, Matching, Typed, Columns
    <2>3. HandOK'
        BY <2>1, <2>2 DEF HandOK, Idle, Reaches, At
    <2> QED
        BY <1>1, <2>1, <2>2, <2>3
<1>3. CASE job.changes # <<>>
    <2>1. PICK c \in Changes : job.changes = <<c>> /\ Making(c)
        BY <1>1, <1>3 DEF HandOK
    <2>2. Head(job.changes) = c /\ Tail(job.changes) = <<>>
        BY <2>1
    <2>3. CASE ~Accepted(table, c)
        <3>1. Fail("State") /\ UNCHANGED table
            BY <1>3, <2>2, <2>3 DEF ApplyChange
        <3> QED
            BY <3>1 DEF Fail, Inv, JobOK, JobIn, IsJob, Broke
    <2>4. CASE Accepted(table, c)
        <3>1. table' = Changed(table, c) /\ job' = [job EXCEPT !.changes = <<>>]
            BY <1>3, <2>2, <2>4 DEF ApplyChange
        <3>2. job'.at = "apply" /\ job'.changes = <<>>
            BY <1>1, <3>1 DEF Inv, JobOK, JobIn, IsJob
        <3>3. CASE c.change = "Add"
            <4>1. /\ c.id = Id /\ Adding(Id) /\ c.path = Place(Id) /\ c.parent = remote[Id].parent
                  /\ AddAccepted(table, c) /\ table' = Added(table, c)
                BY <2>1, <2>4, <3>1, <3>3 DEF Making, Accepted, Changed
            <4>2. Id \in DOMAIN remote
                <5>1. c \in IssuedChanges(remote)
                    BY <2>1 DEF Inv, JobOK, JobIn
                <5> QED
                    BY <3>3, <4>1, <5>1 DEF IssuedChanges, Issued
            <4> QED
                BY <1>1, <1>3, <2>1, <2>4, <3>1, <3>2, <4>1, <4>2, AddedMatches
                DEF HandOK, Reaches, At, Unfinished
        <3>4. CASE c.change = "Update"
            <4>1. /\ c.id = Id /\ Moving(Id) /\ c.name = remote[Id].name
                  /\ c.parent = remote[Id].parent
                  /\ UpdateAccepted(table, c) /\ table' = Updated(table, c)
                BY <2>1, <2>4, <3>1, <3>4 DEF Making, Accepted, Changed
            <4>2. Id \in DOMAIN remote
                BY <4>1 DEF Moving, Inv, RevisionNotAhead
            <4> QED
                BY <1>1, <1>3, <2>1, <2>4, <3>1, <3>2, <4>1, <4>2, UpdatedMatches
                DEF HandOK, Reaches, At, Unfinished
        <3>5. CASE c.change = "Forgot"
            <4>1. Removing(Id) /\ table' = ForgotWithChildren(table, Id)
                BY <2>1, <3>1, <3>5 DEF Making, Changed
            <4> QED
                BY <1>1, <1>3, <2>1, <2>4, <3>1, <3>2, <4>1, ForgotMatches
                DEF HandOK, Reaches, At, Unfinished
        <3> QED
            BY <2>1, <3>3, <3>4, <3>5 DEF Changes, AddChanges, UpdateChanges
    <2> QED
        BY <2>3, <2>4
<1> QED
    BY <1>2, <1>3

(* No upload is in hand.                                                   *)
LEMMA NoUploadWell ==
    ASSUME Inv, RemoteJobOK, Well, UploadStep
    PROVE  FALSE
<1>1. job.at \notin {"idle", "apply", "failed"}
    BY DEF UploadStep, FetchAbsent, TrashAbsent, CreateContent, FindExisting, CompareExisting,
           FillContent, GetCreated, GetModified, GetContent, StatContent, StatModified,
           StatNamed, UploadModified, SetLabel, SetParent, SetParentAgain, SetParentAt,
           FindHomonym, TrashHomonym, At
<1>2. job.from = "remote"
    BY <1>1 DEF Well, Broke, HandOK
<1> QED
    BY <1>2, ParentUpload

-------------------------------------------------------------------------------
(* Only PresentOnDisk misses a parent, and only the end of a pass gives up:*)
(* an executor runs until its end, and fails in other ways.                *)
LEMMA WorkErrors ==
    ASSUME Inv, RevisionOK, DownloadStep \/ UploadStep \/ ApplyChange
    PROVE  /\ job.at # "failed"
           /\ job'.at # "failed" => job'.error \in {job.error, "none"}
           /\ job'.at = "failed" =>
                  \/ job'.error \in {"Unexpected", "MaximumRetryCount", "State"}
                  \/ job'.error = "MissingParent" /\ At("PresentOnDisk", "start")
           /\ job'.at \in Working => job.at \in Working /\ job'.todo = job.todo
<1>1. /\ "error" \in DOMAIN job /\ "at" \in DOMAIN job /\ "todo" \in DOMAIN job
      /\ job = [field \in DOMAIN job |-> job[field]]
    BY DEF Inv, JobOK, JobIn, IsJob
<1>0. job.at \in Working => Len(job.todo) = 1
    BY DEF RevisionOK, OneExecutor
<1>2. CASE ApplyChange
    <2>1. job.at = "apply" /\ "failed" # "apply"
        BY <1>2 DEF ApplyChange
    <2>2. \/ job' = Idle \/ Fail("State")
          \/ job' = [job EXCEPT !.changes = Tail(@)]
        BY <1>2 DEF ApplyChange
    <2>3. job' = Idle => job'.error = "none" /\ job'.at = "idle"
        BY DEF Idle
    <2>4. Fail("State") => job'.error = "State" /\ job'.at = "failed" /\ job'.todo = job.todo
        BY <1>1 DEF Fail
    <2>5. job' = [job EXCEPT !.changes = Tail(@)]
            => job'.error = job.error /\ job'.at = job.at /\ job'.todo = job.todo
        BY <1>1
    <2> QED
        BY <2>1, <2>2, <2>3, <2>4, <2>5 DEF Working
<1> USE DEF Fail, Done, Goto, Timeout, Broken, At, Working
<1>3. CASE AbsentFromDisk
    BY <1>0, <1>1, <1>3 DEF AbsentFromDisk
<1>4. CASE FetchCreated \/ FetchUpdated
    BY <1>0, <1>1, <1>4 DEF FetchCreated, FetchUpdated, Fetch
<1>5. CASE WriteCreated \/ FillCreated
    BY <1>0, <1>1, <1>5 DEF WriteCreated, WriteFolder, WriteFile, FillCreated, Download
<1>6. CASE MoveUpdated \/ FillUpdated
    BY <1>0, <1>1, <1>6 DEF MoveUpdated, MoveRefused, FillUpdated, Download
<1>7. CASE StatCreated \/ StatUpdated
    BY <1>0, <1>1, <1>7 DEF StatCreated, StatUpdated, Stat
<1>8. CASE FetchAbsent \/ TrashAbsent
    BY <1>0, <1>1, <1>8 DEF FetchAbsent, TrashAbsent
<1>9. CASE CreateContent
    BY <1>0, <1>1, <1>9 DEF CreateContent
<1>10. CASE FindExisting \/ CompareExisting \/ FillContent
    BY <1>0, <1>1, <1>10 DEF FindExisting, CompareExisting, FillContent
<1>11. CASE GetCreated \/ GetModified
    BY <1>0, <1>1, <1>11 DEF GetCreated, GetModified, GetContent, Fetch
<1>12. CASE StatContent \/ StatModified \/ StatNamed
    BY <1>0, <1>1, <1>12 DEF StatContent, StatModified, StatNamed, Stat
<1>13. CASE UploadModified
    BY <1>0, <1>1, <1>13 DEF UploadModified
<1>14. CASE SetLabel
    BY <1>0, <1>1, <1>14 DEF SetLabel
<1>15. CASE SetParent \/ SetParentAgain
    BY <1>0, <1>1, <1>15 DEF SetParent, SetParentAgain, SetParentAt
<1>16. CASE FindHomonym \/ TrashHomonym
    BY <1>0, <1>1, <1>16 DEF FindHomonym, TrashHomonym
<1> QED
    BY <1>2, <1>3, <1>4, <1>5, <1>6, <1>7, <1>8, <1>9, <1>10, <1>11, <1>12, <1>13, <1>14,
       <1>15, <1>16 DEF DownloadStep, UploadStep

-------------------------------------------------------------------------------
(***************************************************************************)
(* The plan: every content of the space that the State lacks, or knows     *)
(* below another parent, is in it until it is recorded, and what           *)
(* disappeared comes last.  While a pass has recorded nothing, what it has *)
(* postponed still has no parent.                                          *)
(***************************************************************************)
EventsOf(changes) == {changes[k].event : k \in DOMAIN changes}

Coming    == EventsOf(todo) \cup (IF Unfinished THEN {current.event} ELSE {})
Postponed == EventsOf(left)

InPlan(event) ==
    /\ event.src = "remote" /\ event.kind \in {"Created", "Updated", "Deleted"}
    /\ event.kind = "Deleted" <=> event.id \notin Listed

Covered(coming, postponed) ==
    \A id \in Listed :
        IF id \in DOMAIN table
        THEN table[id].parent = remote[id].parent \/ RemoteEvent("Updated", id) \in coming
        ELSE \E event \in coming \cup postponed : event.id = id

DeletedLast(changes) ==
    \A j, k \in DOMAIN changes :
        j < k /\ changes[j].event.kind = "Deleted" => changes[k].event.kind = "Deleted"

Fruitless == phase = "remote" /\ Len(todo) + Len(left) + InHand = size /\ job.at # "apply"

PlanWell ==
    /\ \A event \in Coming \cup Postponed : InPlan(event)
    /\ \A event \in Postponed : event.kind # "Deleted"
    /\ DeletedLast(todo)
    /\ Unfinished /\ current.event.kind = "Deleted" =>
           \A event \in EventsOf(todo) : event.kind = "Deleted"
    /\ Covered(Coming, Postponed)
    /\ Fruitless => \A event \in Postponed :
                        remote[event.id].parent \notin DOMAIN table \cup {Root}

LEMMA ListedKept ==
    ASSUME UNCHANGED remote
    PROVE  Listed' = Listed
<1>1. RemoteTable' = RemoteTable /\ Visible' = Visible
    BY DEF RemoteTable, Visible, Live
<1>2. \A id : HasPath(RemoteTable, id)' = HasPath(RemoteTable, id)
    BY <1>1
<1> QED
    BY <1>1, <1>2 DEF Listed

(* The steps that change neither the plan nor the State. *)
LEMMA PlanKept ==
    ASSUME PlanWell, UNCHANGED <<remote, table, todo, left, current>>,
           Unfinished' <=> Unfinished, Fruitless' => Fruitless
    PROVE  PlanWell'
<1>1. Listed' = Listed
    BY ListedKept
<1>2. Coming' = Coming /\ Postponed' = Postponed
    BY DEF Coming, Postponed, EventsOf
<1>3. \A event : InPlan(event) => InPlan(event)'
    BY <1>1 DEF InPlan
<1>4. Covered(Coming, Postponed)'
    BY <1>1, <1>2 DEF PlanWell, Covered
<1> QED
    BY <1>1, <1>2, <1>3, <1>4 DEF PlanWell, DeletedLast, EventsOf

(* A change of the space in hand is neither awaited nor an attachment.     *)
LEMMA NoAttachment ==
    ASSUME Inv, Tidy, Matching, NEW event, InPlan(event)
    PROVE  event \notin ignored /\ ~IsAttachment(event)
<1>1. event \notin ignored
    BY DEF InPlan, Tidy, IgnoresLocal
<1>2. ASSUME NEW parent \in DOMAIN table, remote[parent].type = "folder"
      PROVE  TypeAt(table[parent].path) = "folder"
    BY <1>2 DEF Matching, Columns, Typed, TypeAt, IsDir, Exists
<1>3. Root \notin DOMAIN table
    BY RootAssumption DEF Inv, IsTable
<1>4. CASE event.kind = "Created"
    <2>1. event.id \in DOMAIN remote
        BY <1>4 DEF InPlan, Listed, Visible
    <2>2. ParentOf(event) = remote[event.id].parent
        BY <1>4 DEF ParentOf
    <2>3. ParentOf(event) \in DOMAIN table => remote[ParentOf(event)].type = "folder"
        BY <1>3, <2>1, <2>2 DEF Tidy, ParentsHold
    <2> QED
        BY <1>1, <1>2, <2>3 DEF IsAttachment
<1>5. CASE event.kind # "Created"
    <2>1. ParentOf(event) \in DOMAIN table => remote[ParentOf(event)].type = "folder"
        BY <1>3, <1>5 DEF ParentOf, Tidy, ColumnsNested, Below
    <2> QED
        BY <1>1, <1>2, <2>1 DEF IsAttachment
<1> QED
    BY <1>4, <1>5

LEMMA EventsHead ==
    ASSUME NEW S, NEW changes \in Seq(S), changes # <<>>
    PROVE  EventsOf(changes) = EventsOf(Tail(changes)) \cup {Head(changes).event}
<1>1. /\ Head(changes) = changes[1] /\ Len(changes) \in Nat \ {0}
      /\ Len(Tail(changes)) = Len(changes) - 1
      /\ DOMAIN changes = 1..Len(changes) /\ DOMAIN Tail(changes) = 1..(Len(changes) - 1)
      /\ \A k \in 1..(Len(changes) - 1) : Tail(changes)[k] = changes[k + 1]
    BY HeadTailProperties
<1>2. \A k \in DOMAIN changes : k = 1 \/ (k - 1 \in 1..(Len(changes) - 1) /\ (k - 1) + 1 = k)
    BY <1>1
<1>3. \A k \in 1..(Len(changes) - 1) : k + 1 \in DOMAIN changes
    BY <1>1
<1>4. 1 \in DOMAIN changes
    BY <1>1
<1> QED
    BY <1>1, <1>2, <1>3, <1>4 DEF EventsOf

LEMMA OperateWell ==
    ASSUME StartupInv, Tidy, HandOK, PlanWell, Operate
    PROVE  Broke' \/ (Tidy' /\ HandOK' /\ PlanWell')
<1>1. /\ todo # <<>> /\ job.at = "idle" /\ Receive(Head(todo).event, FALSE)
      /\ current' = Head(todo) /\ todo' = Tail(todo)
      /\ UNCHANGED <<phase, left, size, table, remote, disk>>
    BY DEF Operate, Receive
<1>2. /\ Head(todo) = todo[1] /\ Len(todo) \in Nat \ {0} /\ Len(Tail(todo)) = Len(todo) - 1
      /\ DOMAIN todo = 1..Len(todo) /\ DOMAIN Tail(todo) = 1..(Len(todo) - 1)
      /\ \A k \in 1..(Len(todo) - 1) : Tail(todo)[k] = todo[k + 1]
      /\ Len(left) \in Nat
    BY <1>1, HeadTailProperties DEF StartupInv, PlanOK
<1> PICK event : event = Head(todo).event
    OBVIOUS
<1>3. EventsOf(todo) = EventsOf(Tail(todo)) \cup {event}
    BY <1>1, EventsHead DEF StartupInv, PlanOK
<1>4. ~Unfinished /\ Coming = EventsOf(todo) /\ Matching
    BY <1>1 DEF Unfinished, Coming, HandOK
<1>5. InPlan(event) /\ event \notin ignored /\ ~IsAttachment(event)
    BY <1>3, <1>4, NoAttachment DEF StartupInv, PlanWell
<1>6. \/ Fail("Unexpected")
      \/ job' = [Idle EXCEPT !.at = "start", !.from = event.src, !.todo = Executors(event)]
    BY <1>1, <1>5 DEF Receive
<1>7. CASE Fail("Unexpected")
    BY <1>7 DEF Fail, StartupInv, Inv, JobOK, JobIn, IsJob, Broke
<1>8. CASE job' = [Idle EXCEPT !.at = "start", !.from = event.src, !.todo = Executors(event)]
    <2>1. /\ job'.at = "start" /\ job'.from = "remote" /\ Unfinished'
          /\ job'.todo = <<DownloadExecutor(event)>>
        BY <1>5, <1>8 DEF Idle, InPlan, Executors, Unfinished
    <2>2. UNCHANGED ignored
        BY <1>1, <1>5 DEF Receive
    <2>3. Tidy'
        BY <1>1, <2>2, TidyKept DEF Tidy, IgnoresLocal
    <2>4. HandOK'
        <3>1. DownloadExecutor(current.event)' = DownloadExecutor(event)
            BY <1>1 DEF DownloadExecutor
        <3>2. Matching'
            BY <1>1, <1>4 DEF Matching, Columns, Typed
        <3> QED
            BY <2>1, <3>1, <3>2 DEF HandOK, Reaches, At
    <2>5. Listed' = Listed /\ Coming' = Coming /\ Postponed' = Postponed
        BY <1>1, <1>3, <1>4, <2>1, ListedKept DEF Coming, Postponed, EventsOf
    <2>6. \A any : InPlan(any) => InPlan(any)'
        BY <2>5 DEF InPlan
    <2>7. Covered(Coming, Postponed)'
        BY <1>1, <2>5 DEF PlanWell, Covered
    <2>8. DeletedLast(Tail(todo))
        <3>1. \A j, k \in 1..(Len(todo) - 1) :
                /\ j + 1 \in DOMAIN todo /\ k + 1 \in DOMAIN todo
                /\ j < k => j + 1 < k + 1
            BY <1>2
        <3> QED
            BY <1>2, <3>1 DEF PlanWell, DeletedLast
    <2>9. event.kind = "Deleted" => \A other \in EventsOf(Tail(todo)) : other.kind = "Deleted"
        <3>1. \A k \in 1..(Len(todo) - 1) :
                k + 1 \in DOMAIN todo /\ 1 \in DOMAIN todo /\ 1 < k + 1
            BY <1>2
        <3> QED
            BY <1>2, <3>1 DEF PlanWell, DeletedLast, EventsOf
    <2>10. Fruitless' => Fruitless
        BY <1>1, <1>2, <2>1 DEF Fruitless, InHand
    <2>11. PlanWell'
        BY <1>1, <2>1, <2>5, <2>6, <2>7, <2>8, <2>9, <2>10
        DEF PlanWell, DeletedLast, EventsOf
    <2> QED
        BY <2>3, <2>4, <2>11
<1> QED
    BY <1>6, <1>7, <1>8

LEMMA PostponeWell ==
    ASSUME StartupInv, Tidy, HandOK, PlanWell, Postpone
    PROVE  Tidy' /\ HandOK' /\ PlanWell'
<1>1. /\ job.at = "failed" /\ job.error = "MissingParent" /\ job' = Idle
      /\ left' = Append(left, current)
      /\ UNCHANGED <<phase, todo, current, size, table, ignored, remote, disk>>
    BY DEF Postpone, MissesParent, store, world
<1>2. /\ Matching /\ DownloadExecutor(current.event).ex = "PresentOnDisk"
      /\ remote[Id].parent \notin DOMAIN table \cup {Root} /\ Unfinished
    BY <1>1 DEF HandOK, Unfinished
<1>3. current.event.kind # "Deleted"
      /\ ~(current.event = RemoteEvent("Updated", Id) /\ Id \in DOMAIN table)
    BY <1>2 DEF DownloadExecutor, OnId, RemoteEvent, Id
<1>4. job'.at = "idle" /\ ~Unfinished'
    BY <1>1 DEF Idle, Unfinished
<1>5. Tidy' /\ Matching'
    BY <1>1, <1>2, TidyKept DEF Tidy, IgnoresLocal, Matching, Columns, Typed
<1>6. HandOK'
    BY <1>4, <1>5 DEF HandOK, Reaches, At
<1>7. /\ Len(left) \in Nat /\ Len(left') = Len(left) + 1 /\ Len(todo) \in Nat
      /\ DOMAIN left = 1..Len(left) /\ DOMAIN left' = 1..(Len(left) + 1)
      /\ \A k \in 1..Len(left) : left'[k] = left[k]
      /\ left'[Len(left) + 1] = current
    <2>1. left \in Seq(Planned(remote)) /\ current \in Planned(remote) /\ Len(todo) \in Nat
        BY <1>1 DEF StartupInv, PlanOK, Postpone, MissesParent, Passing
    <2> QED
        BY <1>1, <2>1
<1>8. Postponed' = Postponed \cup {current.event}
    BY <1>1, <1>7 DEF Postponed, EventsOf
<1>9. Coming = EventsOf(todo) \cup {current.event} /\ Coming' = EventsOf(todo)
    BY <1>1, <1>2, <1>4 DEF Coming, EventsOf
<1>10. Listed' = Listed /\ \A any : InPlan(any) => InPlan(any)'
    <2>1. Listed' = Listed
        BY <1>1, ListedKept
    <2> QED
        BY <2>1 DEF InPlan
<1>11. Covered(Coming, Postponed)'
    <2> SUFFICES ASSUME NEW id \in Listed
                 PROVE  IF id \in DOMAIN table
                        THEN \/ table[id].parent = remote[id].parent
                             \/ RemoteEvent("Updated", id) \in Coming'
                        ELSE \E event \in Coming' \cup Postponed' : event.id = id
        BY <1>1, <1>10 DEF Covered
    <2>1. RemoteEvent("Updated", id) = current.event => id = Id
        BY DEF RemoteEvent, Id
    <2> QED
        BY <1>3, <1>8, <1>9, <2>1 DEF PlanWell, Covered
<1>12. Fruitless' => \A event \in Postponed' :
                        remote[event.id].parent \notin DOMAIN table \cup {Root}
    <2>1. Fruitless' => Fruitless
        BY <1>1, <1>4, <1>7 DEF Fruitless, InHand
    <2> QED
        BY <1>2, <1>8, <2>1 DEF PlanWell, Id
<1>13. PlanWell'
    BY <1>1, <1>3, <1>4, <1>8, <1>9, <1>10, <1>11, <1>12 DEF PlanWell, DeletedLast
<1> QED
    BY <1>5, <1>6, <1>13

-------------------------------------------------------------------------------
(* The work on a change, and the passes.                                   *)
Good == Tidy /\ HandOK /\ PlanWell

LEMMA DownloadKeepsPlan ==
    ASSUME StartupInv, RecordsOK, Tidy, HandOK, PlanWell, DownloadStep,
           UNCHANGED <<phase, plan>>
    PROVE  Broke' \/ Good'
<1>1. UNCHANGED <<todo, left, current, size>>
    BY DEF plan
<1>2. Well' /\ Unfinished' /\ UNCHANGED <<table, remote>>
    BY <1>1, DownloadWell DEF StartupInv, RecordsOK, Well
<1>3. job.at \notin {"idle", "apply"}
    BY DEF DownloadStep, AbsentFromDisk, FetchCreated, FetchUpdated, WriteCreated, FillCreated,
           StatCreated, MoveUpdated, FillUpdated, StatUpdated, At
<1>4. Unfinished /\ job'.at # "idle"
    BY <1>2, <1>3 DEF Unfinished
<1>5. Fruitless' => Fruitless
    BY <1>1, <1>3, <1>4 DEF Fruitless, InHand
<1>6. PlanWell'
    BY <1>1, <1>2, <1>4, <1>5, PlanKept
<1> QED
    BY <1>2, <1>6 DEF Well, Good

(* What is recorded is no longer to come, and what is forgotten with what  *)
(* disappeared did not come: it had its place by then.                     *)
LEMMA RecordedPlan ==
    ASSUME StartupInv, Tidy, HandOK, PlanWell, UNCHANGED <<todo, left, current, remote>>,
           Unfinished, ~Unfinished', job'.at = "apply",
           NEW c, Making(c), Accepted(table, c), table' = Changed(table, c),
           c.change \in {"Add", "Update", "Forgot"}
    PROVE  PlanWell'
<1>1. /\ Listed' = Listed /\ Postponed' = Postponed
      /\ Coming = EventsOf(todo) \cup {current.event} /\ Coming' = EventsOf(todo)
    BY ListedKept DEF Coming, Postponed, EventsOf
<1>2. \A event : InPlan(event) => InPlan(event)'
    BY <1>1 DEF InPlan
<1>3. \A event \in Coming \cup Postponed : InPlan(event)
    BY DEF PlanWell
<1>4. \A id : RemoteEvent("Updated", id).id = id /\ RemoteEvent("Updated", id).kind = "Updated"
    BY DEF RemoteEvent
<1>5. ASSUME NEW id \in Listed
      PROVE  IF id \in DOMAIN table'
             THEN \/ table'[id].parent = remote[id].parent
                  \/ RemoteEvent("Updated", id) \in EventsOf(todo)
             ELSE \E event \in EventsOf(todo) \cup Postponed : event.id = id
    <2>1. IF id \in DOMAIN table
          THEN table[id].parent = remote[id].parent \/ RemoteEvent("Updated", id) \in Coming
          ELSE \E event \in Coming \cup Postponed : event.id = id
        BY DEF PlanWell, Covered
    <2>2. CASE c.change \in {"Add", "Update"}
        <3>1. /\ DOMAIN table' = DOMAIN table \cup {Id} /\ table'[Id].parent = remote[Id].parent
              /\ \A known \in DOMAIN table \ {Id} : table'[known] = table[known]
            BY <2>2 DEF Making, Changed, Added, Updated, Moving
        <3>2. CASE id = Id
            BY <3>1, <3>2
        <3>3. CASE id # Id
            BY <1>1, <1>4, <2>1, <3>1, <3>3 DEF Id
        <3> QED
            BY <3>2, <3>3
    <2>3. CASE c.change = "Forgot"
        <3>1. /\ current.event.kind = "Deleted" /\ Id \in DOMAIN table
              /\ table' = ForgotWithChildren(table, Id)
            BY <2>3 DEF Making, Changed, Removing
        <3>2. \A event \in Coming : event.kind = "Deleted"
            BY <1>1, <3>1 DEF PlanWell
        <3>3. Id \notin Listed
            BY <1>1, <1>3, <3>1 DEF InPlan, Id
        <3>4. \A known \in DOMAIN table \cap Listed : table[known].parent = remote[known].parent
            BY <1>4, <3>2 DEF PlanWell, Covered
        <3>5. id \notin Subtree(table, Id)
            BY <3>1, <3>3, <3>4, ForgetsUnlisted DEF StartupInv, Tidy
        <3>6. /\ id \in DOMAIN table' <=> id \in DOMAIN table
              /\ id \in DOMAIN table => table'[id] = table[id]
            BY <3>1, <3>5 DEF ForgotWithChildren
        <3>7. CASE id \in DOMAIN table
            BY <3>4, <3>6, <3>7
        <3>8. CASE id \notin DOMAIN table
            BY <1>1, <2>1, <3>3, <3>6, <3>8 DEF Id
        <3> QED
            BY <3>7, <3>8
    <2> QED
        BY <2>2, <2>3
<1>6. Covered(Coming, Postponed)'
    BY <1>1, <1>5 DEF Covered
<1>7. ~Fruitless'
    BY DEF Fruitless
<1>8. \A event \in Postponed' : event.kind # "Deleted"
    BY <1>1 DEF PlanWell
<1>9. DeletedLast(todo)'
    BY DEF PlanWell, DeletedLast
<1>10. \A event \in Coming' \cup Postponed' : InPlan(event)'
    BY <1>1, <1>2, <1>3
<1> QED
    BY <1>6, <1>7, <1>8, <1>9, <1>10 DEF PlanWell

LEMMA ApplyKeepsPlan ==
    ASSUME StartupInv, RecordsOK, Tidy, HandOK, PlanWell, ApplyChange,
           UNCHANGED <<phase, plan>>
    PROVE  Broke' \/ Good'
<1>1. UNCHANGED <<phase, todo, left, current, size, remote>>
    BY DEF plan, ApplyChange, world
<1>2. \/ Broke'
      \/ /\ Tidy' /\ HandOK' /\ job.at = "apply"
         /\ \/ ~Unfinished /\ job' = Idle /\ UNCHANGED table
            \/ /\ Unfinished /\ ~Unfinished' /\ job'.at = "apply"
               /\ \E c \in Changes :
                     Making(c) /\ Accepted(table, c) /\ table' = Changed(table, c)
    BY <1>1, ApplyWell DEF StartupInv, Well
<1>3. CASE job.at = "apply" /\ ~Unfinished /\ job' = Idle /\ UNCHANGED table
    <2>1. ~Unfinished' /\ job'.at = "idle"
        BY <1>3 DEF Unfinished, Idle
    <2>2. Len(todo) \in Nat /\ Len(left) \in Nat /\ size \in Nat
        BY DEF StartupInv, PlanOK, PhaseOK
    <2>3. ~Fruitless'
        BY <1>1, <1>3, <2>1, <2>2 DEF Fruitless, InHand, StartupInv, PhaseOK, Passing
    <2> QED
        BY <1>1, <1>2, <1>3, <2>1, <2>3, PlanKept DEF Good
<1>4. ASSUME Unfinished, ~Unfinished', job'.at = "apply", NEW c \in Changes,
             Making(c), Accepted(table, c), table' = Changed(table, c)
      PROVE  PlanWell'
    <2>1. c.change \in {"Add", "Update", "Forgot"}
        BY DEF Changes, AddChanges, UpdateChanges
    <2> QED
        BY <1>1, <1>4, <2>1, RecordedPlan
<1> QED
    BY <1>2, <1>3, <1>4 DEF Good

(* A pass begins with what the one before has postponed.                   *)
LEMMA PassWell ==
    ASSUME StartupInv, Tidy, HandOK, PlanWell, Confirm \/ NextPass
    PROVE  Good'
<1>1. /\ UNCHANGED <<table, ignored, job, remote, disk, current>> /\ left' = <<>>
      /\ job.at = "idle"
    BY IdleAt DEF Confirm, NextPass, Pass, vars
<1>2. Tidy'
    BY <1>1, TidyKept DEF Tidy, IgnoresLocal
<1>3. HandOK'
    BY <1>1 DEF HandOK, At, Matching, Columns, Typed, Reaches
<1>4. ~Unfinished /\ ~Unfinished' /\ Postponed' = {} /\ Listed' = Listed
    BY <1>1, ListedKept DEF Unfinished, Postponed, EventsOf
<1>5. \A event : InPlan(event) => InPlan(event)'
    BY <1>4 DEF InPlan
<1>6. Coming' \subseteq Coming \cup Postponed /\ Coming \cup Postponed \subseteq Coming' \cup Postponed'
      /\ Coming \subseteq Coming' /\ DeletedLast(todo')
    <2>1. CASE Confirm
        <3>1. UNCHANGED todo /\ left = <<>>
            BY <2>1 DEF Confirm, Pass, StartupInv, PhaseOK, Passing
        <3> QED
            BY <1>4, <3>1 DEF Coming, Postponed, EventsOf, PlanWell, DeletedLast
    <2>2. CASE NextPass
        <3>1. todo = <<>> /\ todo' = left
            BY <2>2 DEF NextPass, PassOver, Pass
        <3> QED
            BY <1>4, <3>1 DEF Coming, Postponed, EventsOf, PlanWell, DeletedLast
    <2> QED
        BY <2>1, <2>2
<1>7. Covered(Coming, Postponed)'
    BY <1>1, <1>4, <1>6 DEF PlanWell, Covered
<1>8. \A event \in Coming' \cup Postponed' : InPlan(event)'
    BY <1>4, <1>5, <1>6 DEF PlanWell
<1>9. PlanWell'
    BY <1>4, <1>6, <1>7, <1>8 DEF PlanWell
<1> QED
    BY <1>2, <1>3, <1>9 DEF Good

(* Among what a pass left, the contents nearest to the top of the space    *)
(* have a parent that is known.                                            *)
LEMMA PassFruitful ==
    ASSUME StartupInv, Tidy, HandOK, PlanWell, phase = "remote"
    PROVE  ~GiveUp
<1> SUFFICES ASSUME GiveUp PROVE FALSE
    OBVIOUS
<1>1. /\ job.at = "idle" /\ todo = <<>> /\ left # <<>> /\ ~(Len(left) < size)
      /\ Len(left) \in Nat
    BY DEF GiveUp, PassOver, Progress, StartupInv, PlanOK
<1>2. Coming = {} /\ ~Unfinished
    BY <1>1 DEF Coming, Unfinished, EventsOf
<1>3. Fruitless
    <2>1. Len(todo) = 0
        BY <1>1
    <2> QED
        BY <1>1, <2>1 DEF Fruitless, InHand, StartupInv, PhaseOK, Passing
<1> DEFINE awaited == {event.id : event \in Postponed}
<1>4. ASSUME NEW id \in awaited
      PROVE  id \in Listed /\ remote[id].parent # Root /\ remote[id].parent \in awaited
    <2>1. PICK event \in Postponed : event.id = id
        BY <1>4
    <2>2. id \in Listed /\ remote[id].parent \notin DOMAIN table \cup {Root}
        BY <1>3, <2>1 DEF PlanWell, InPlan
    <2>3. remote[id].parent \in Listed
        BY <2>2, ListedParent DEF StartupInv, Tidy
    <2> QED
        BY <1>2, <2>2, <2>3 DEF PlanWell, Covered
<1>5. PICK id : id \in awaited
    <2>1. left[1].event \in Postponed
        BY <1>1 DEF Postponed, EventsOf, StartupInv, PlanOK
    <2> QED
        BY <2>1
<1> HIDE DEF awaited
<1>6. PICK parts : parts \in Parts(RemoteTable, id)
    BY <1>4, <1>5 DEF Listed, HasPath
<1>7. PICK n \in Nat \ {0} :
        /\ Len(parts) = n /\ IsParts(RemoteTable, parts, id)
        /\ \A k \in 1..n : parts[k] \in Visible
    <2>1. DOMAIN RemoteTable = Visible
        BY DEF RemoteTable
    <2>2. PICK n \in 1..Cardinality(Visible) :
            parts \in [1..n -> Visible] /\ IsParts(RemoteTable, parts, id)
        BY <1>6, <2>1, Zenon DEF Parts
    <2>3. IsFiniteSet(Visible)
        <3>1. Visible \subseteq Ids
            BY DEF Visible, StartupInv, Inv, UsersOK, SidesOK, ContentsOK
        <3> QED
            BY <3>1, StartupAssumption, FS_Subset
    <2>4. n \in Nat \ {0}
        BY <2>2, <2>3, FS_CardinalityType
    <2>5. Len(parts) = n
        BY <2>2, <2>4
    <2> QED
        BY <2>2, <2>4, <2>5
<1> DEFINE met == {k \in 1..n : parts[k] \in awaited}
<1>8. n \in met
    BY <1>5, <1>7 DEF IsParts, Last
<1>9. PICK k \in met : \A other \in met : k <= other
    <2>1. met \in SUBSET Nat /\ met # {}
        BY <1>7, <1>8
    <2> HIDE DEF met
    <2> QED
        BY <2>1, LeastNumber
<1>10. k \in 1..n /\ parts[k] \in awaited /\ RemoteTable[parts[k]].parent = remote[parts[k]].parent
    BY <1>7, <1>9 DEF RemoteTable
<1>11. k # 1
    BY <1>4, <1>7, <1>10 DEF IsParts
<1>12. k \in 2..n /\ k - 1 \in 1..n /\ ~(k <= k - 1)
    BY <1>7, <1>10, <1>11
<1>13. remote[parts[k]].parent = parts[k - 1]
    BY <1>7, <1>10, <1>12 DEF IsParts
<1>14. k - 1 \in met
    BY <1>4, <1>10, <1>12, <1>13
<1> QED
    BY <1>9, <1>12, <1>14

-------------------------------------------------------------------------------
(***************************************************************************)
(* What such a run brings to the folder: every content of the space is     *)
(* awaited until it is recorded as it is now, with the bytes it has.       *)
(***************************************************************************)
Touched == {"fill", "stat", "apply"}

(* Overwritten by the change in hand, which the State will refuse. *)
Taken(id) ==
    /\ job.at \in Touched /\ Unfinished
    /\ current.event.kind # "Deleted" /\ Place(Id) = table[id].path

SameBytes(id) == remote[id].type = "file" => disk[table[id].path].bytes = remote[id].bytes

Recorded(id) ==
    /\ table[id].rev = remote[id].rev /\ table[id].parent = remote[id].parent
    /\ FileName(table, id) = remote[id].name

Settled(id) == id \in DOMAIN table /\ Recorded(id) /\ (SameBytes(id) \/ Taken(id))

Awaited(id) == \E event \in Coming \cup Postponed : event.id = id

FoldersPlain ==
    /\ \A path \in DOMAIN disk : disk[path].type = "folder" => disk[path].bytes = NoBytes
    /\ \A id \in DOMAIN remote : remote[id].type = "folder" => remote[id].bytes = NoBytes

(* The change in hand records what it brought. *)
Brought == remote[Id].type = "file" => disk[Place(Id)].bytes = remote[Id].bytes

HandBrings ==
    /\ job.at = "stat" => Brought
    /\ job.at = "apply" /\ job.changes # <<>> /\ current.event.kind # "Deleted" =>
           Brought /\ job.changes[1].rev = remote[Id].rev

Complete ==
    /\ \A id \in Listed : Awaited(id) \/ Settled(id)
    /\ \A id \in DOMAIN table \ Listed : Awaited(id)
    /\ FoldersPlain /\ HandBrings

-------------------------------------------------------------------------------
(* What a step of an executor leaves alone. *)
Elsewhere(path) ==
    /\ current.event.kind # "Deleted" => path # Place(Id)
    /\ Id \in DOMAIN table => path # table[Id].path
    /\ Id \in DOMAIN table /\ current.event.kind = "Deleted" => ~IsPrefix(table[Id].path, path)

FolderKeeps ==
    /\ \A path \in DOMAIN disk : Elsewhere(path) => disk'[path] = disk[path]
    /\ job'.at \in Touched \/ UNCHANGED disk
    /\ job.at \in {"fill", "stat"} => job'.at \in {"stat", "apply"}
    /\ FoldersPlain' /\ HandBrings'

LEMMA FailsBroke ==
    ASSUME Inv, NEW error, error # "MissingParent", Fail(error)
    PROVE  Broke'
BY DEF Fail, Inv, JobOK, JobIn, IsJob, Broke

LEMMA RenamesFile ==
    ASSUME Inv, NEW from \in Path, NEW to \in Path, from # to,
           from \in DOMAIN disk, disk[from].type = "file", Rooted(disk), disk' = Renamed(from, to)
    PROVE  /\ DOMAIN disk' = (DOMAIN disk \ {from}) \cup {to}
           /\ \A p \in DOMAIN disk \ {from, to} : disk'[p] = disk[p]
           /\ disk'[to] = disk[from]
<1>1. Under(from) = {from} /\ Moved(from, to, from) = to
    <2>1. \A p \in Under(from) : p = from
        BY UnderFile DEF Inv, UsersOK, SidesOK, IsDir
    <2>2. IsPrefix(from, from)
        BY PrefixOrder
    <2>3. Moved(from, to, from) = to
        <3>1. /\ Moved(from, to, from) \in Path
              /\ Len(Moved(from, to, from)) = Len(to) + (Len(from) - Len(from))
              /\ \A i \in 1..Len(to) : Moved(from, to, from)[i] = to[i]
            BY <2>2, MovedIs
        <3>2. Len(from) \in Nat /\ Len(to) \in Nat
            BY PathLast
        <3>3. Len(Moved(from, to, from)) = Len(to)
            BY <3>1, <3>2
        <3> QED
            BY <3>1, <3>3, SeqEqual DEF Path
    <2> QED
        BY <2>1, <2>2, <2>3 DEF Under
<1> DEFINE kept  == DOMAIN disk \ (Under(from) \cup {to})
           moved == {Moved(from, to, p) : p \in Under(from)}
<1>2. disk' = [p \in kept \cup moved |->
                IF p \in kept THEN disk[p]
                ELSE disk[CHOOSE q \in Under(from) : Moved(from, to, q) = p]]
    BY Zenon DEF Renamed
<1>3. moved = {to} /\ kept = DOMAIN disk \ {from, to}
    BY <1>1
<1>4. (CHOOSE q \in Under(from) : Moved(from, to, q) = to) = from
    BY <1>1
<1> HIDE DEF kept, moved
<1> QED
    BY <1>2, <1>3, <1>4

LEMMA KeepsAbsent ==
    ASSUME Inv, Tidy, HandOK, FoldersPlain, InPlan(current.event), AbsentFromDisk,
           UNCHANGED current
    PROVE  Broke' \/ FolderKeeps
<1>1. At("AbsentFromDisk", "start") /\ UNCHANGED <<table, remote, current>>
    BY DEF AbsentFromDisk, Sys
<1>2. Now.id = Id /\ current.event.kind = "Deleted"
    <2>1. "start" \in Reaches
        BY DEF Reaches
    <2> QED
        BY <1>1, <2>1, HandNow
<1>3. CASE Fail("Unexpected")
    BY <1>3, FailsBroke
<1>4. CASE HasPath(table, Id)
    <2>1. Id \in DOMAIN table /\ PathOf(table, Id) = table[Id].path
        BY <1>4, PathIsColumn DEF Inv, Tidy
    <2>2. disk' = Without(Under(table[Id].path)) \/ UNCHANGED disk
        BY <1>2, <1>4, <2>1 DEF AbsentFromDisk
    <2>3. Done(<<ForgotChange(Id)>>)
        BY <1>2, <1>4 DEF AbsentFromDisk
    <2>4. job'.at \in {"start", "apply"}
        BY <2>3 DEF Done, Inv, JobOK, JobIn, IsJob
    <2>5. job'.at = "apply"
        BY <1>1, <2>3 DEF Done, Inv, JobOK, JobIn, IsJob, HandOK, At, Reaches
    <2>6. \A path \in DOMAIN disk' : path \in DOMAIN disk /\ disk'[path] = disk[path]
        BY <2>2 DEF Without
    <2>7. \A path \in DOMAIN disk : ~IsPrefix(table[Id].path, path) => path \in DOMAIN disk'
        BY <2>2 DEF Without, Under
    <2>8. FoldersPlain'
        BY <1>1, <2>6 DEF FoldersPlain
    <2>9. HandBrings'
        BY <1>1, <1>2, <2>5 DEF HandBrings
    <2> QED
        BY <1>1, <1>2, <2>1, <2>5, <2>6, <2>7, <2>8, <2>9 DEF FolderKeeps, Elsewhere, Touched, At
<1> QED
    BY <1>2, <1>3, <1>4 DEF AbsentFromDisk

LEMMA KeepsFetch ==
    ASSUME Inv, Tidy, HandOK, FoldersPlain, FetchCreated \/ FetchUpdated, UNCHANGED current
    PROVE  Broke' \/ FolderKeeps
<1>1. UNCHANGED <<table, remote, disk, current>> /\ job.at = "start"
    BY DEF FetchCreated, FetchUpdated, Sys, world, At
<1>2. \/ Fail("Unexpected") \/ Fail("MissingParent")
      \/ \E point \in {"write", "move"} : job' = [job EXCEPT !.at = point, !.got = remote[Now.id]]
    BY DEF FetchCreated, FetchUpdated, Fetch, Broken
<1>3. job'.at \in {"failed", "write", "move"}
    BY <1>2 DEF Fail, Inv, JobOK, JobIn, IsJob
<1> QED
    BY <1>1, <1>3 DEF FolderKeeps, FoldersPlain, HandBrings

(* A file is written where the content belongs. *)
LEMMA KeepsFilled ==
    ASSUME Inv, Tidy, HandOK, FoldersPlain, UNCHANGED <<table, remote, current>>,
           NEW bytes, disk' = With(Place(Id), File(bytes)), NEW from \in {"write", "fill"},
           job.at = from, job'.at = IF from = "write" THEN "fill" ELSE "stat",
           from = "fill" => bytes = remote[Id].bytes, current.event.kind # "Deleted"
    PROVE  FolderKeeps
<1>1. /\ \A path \in DOMAIN disk : path # Place(Id) => disk'[path] = disk[path]
      /\ disk'[Place(Id)] = File(bytes) /\ DOMAIN disk' = DOMAIN disk \cup {Place(Id)}
    BY DEF With
<1>2. Place(Id)' = Place(Id) /\ Id' = Id
    BY SamePlaces DEF Id
<1>3. FoldersPlain'
    BY <1>1 DEF FoldersPlain, File
<1>4. HandBrings'
    BY <1>1, <1>2 DEF HandBrings, Brought, File
<1> QED
    BY <1>1, <1>3, <1>4 DEF FolderKeeps, Elsewhere, Touched

LEMMA KeepsWrite ==
    ASSUME Inv, Rooted(disk), Tidy, HandOK, FoldersPlain, WriteCreated, UNCHANGED current
    PROVE  Broke' \/ FolderKeeps
<1>1. /\ At("PresentOnDisk", "write") /\ UNCHANGED <<table, remote, current>>
      /\ "write" \in Reaches \ {"start"} /\ job.at = "write"
    BY DEF WriteCreated, Sys, Reaches, At
<1>2. /\ job.got = remote[Id] /\ RemotePath(job.got) = Place(Id)
      /\ remote[Id].type \in {"file", "folder"} /\ current.event.kind # "Deleted"
    BY <1>1, HandPlace, HandNow
<1>3. CASE remote[Id].type = "folder"
    <2> DEFINE missing == {p \in Ancestors(Place(Id)) \cup {Place(Id)} : ~Exists(p)}
    <2>1. WriteFolder(Place(Id))
        BY <1>2, <1>3 DEF WriteCreated
    <2>2. \/ Fail("Unexpected")
          \/ /\ Goto("stat")
             /\ disk' = [p \in DOMAIN disk \cup missing |->
                            IF p \in missing THEN Folder ELSE disk[p]]
        BY <2>1 DEF WriteFolder
    <2>3. \A p \in missing : p \notin DOMAIN disk
        BY DEF Exists
    <2> HIDE DEF missing
    <2>4. ASSUME Goto("stat"),
                 disk' = [p \in DOMAIN disk \cup missing |->
                            IF p \in missing THEN Folder ELSE disk[p]]
          PROVE  FolderKeeps
        <3>1. \A p \in DOMAIN disk : p \in DOMAIN disk' /\ disk'[p] = disk[p]
            BY <2>3, <2>4
        <3>2. \A p \in DOMAIN disk' \ DOMAIN disk : disk'[p] = Folder
            BY <2>4
        <3>3. FoldersPlain'
            BY <1>1, <3>1, <3>2 DEF FoldersPlain, Folder
        <3>4. job'.at = "stat"
            BY <2>4, HandGoto
        <3>5. HandBrings'
            BY <1>1, <1>3, <3>4 DEF HandBrings, Brought, Id
        <3> QED
            BY <1>1, <3>1, <3>3, <3>4, <3>5 DEF FolderKeeps, Touched
    <2> QED
        BY <2>2, <2>4, FailsBroke
<1>4. CASE remote[Id].type = "file"
    <2>1. WriteFile(Place(Id))
        BY <1>2, <1>4 DEF WriteCreated
    <2>2. \/ Fail("Unexpected")
          \/ Goto("fill") /\ disk' = With(Place(Id), File(NoBytes))
        BY <2>1 DEF WriteFile
    <2>3. Goto("fill") => job'.at = "fill"
        BY HandGoto
    <2> QED
        BY <1>1, <1>2, <2>2, <2>3, FailsBroke, KeepsFilled
<1> QED
    BY <1>2, <1>3, <1>4

(* What is downloaded is what the content holds, for it is in the space.   *)
LEMMA KeepsFill ==
    ASSUME Inv, Rooted(disk), Tidy, HandOK, FoldersPlain, InPlan(current.event),
           FillCreated \/ FillUpdated, UNCHANGED current
    PROVE  Broke' \/ FolderKeeps
<1>1. /\ UNCHANGED <<table, remote, current>> /\ "fill" \in Reaches /\ "fill" \in Reaches \ {"start"}
      /\ job.at = "fill"
    BY DEF FillCreated, FillUpdated, Sys, Reaches, At
<1>2. PICK executor \in {"PresentOnDisk", "UpdatedOnDisk"} : At(executor, "fill")
    BY DEF FillCreated, FillUpdated
<1>3. job.got = remote[Id] /\ RemotePath(job.got) = Place(Id)
    BY <1>1, <1>2, HandPlace
<1>4. Now.id = Id /\ current.event.kind # "Deleted"
    BY <1>1, <1>2, HandNow
<1>5. Body(Id) = remote[Id].bytes
    BY <1>4 DEF InPlan, Id, Listed, Visible, Live, Body
<1>6. ASSUME NEW echo, Download(Id, Place(Id), echo)
      PROVE  Broke' \/ FolderKeeps
    <2>1. \/ Fail("Unexpected")
          \/ Goto("stat") /\ disk' = With(Place(Id), File(remote[Id].bytes))
        BY <1>5, <1>6 DEF Download, Overwrite, Broken
    <2>2. Goto("stat") => job'.at = "stat"
        BY HandGoto
    <2> QED
        BY <1>1, <1>4, <2>1, <2>2, FailsBroke, KeepsFilled
<1>7. CASE FillCreated \/ (FillUpdated /\ job.got.type # "folder")
    BY <1>3, <1>4, <1>6, <1>7 DEF FillCreated, FillUpdated
<1>8. CASE FillUpdated /\ job.got.type = "folder"
    <2>1. Goto("stat") /\ UNCHANGED disk
        BY <1>8 DEF FillUpdated
    <2>2. job'.at = "stat"
        BY <2>1, HandGoto
    <2>3. HandBrings'
        BY <1>1, <1>3, <1>8, <2>2 DEF HandBrings, Brought, Id
    <2> QED
        BY <1>1, <2>1, <2>2, <2>3 DEF FolderKeeps, Touched, FoldersPlain
<1> QED
    BY <1>7, <1>8

LEMMA KeepsMove ==
    ASSUME Inv, Rooted(disk), Tidy, HandOK, LoopOK, FoldersPlain, MoveUpdated, UNCHANGED current
    PROVE  Broke' \/ FolderKeeps
<1>1. /\ At("UpdatedOnDisk", "move") /\ UNCHANGED <<table, remote, current>>
      /\ "move" \in Reaches \ {"start"} /\ "move" \in Reaches /\ job.at = "move"
    BY DEF MoveUpdated, Sys, Reaches, At
<1>2. /\ RemotePath(job.got) = Place(Id) /\ Place(Id) \in Path
      /\ HasRemotePath(remote[Id].parent) /\ remote[Id].type \in {"file", "folder"}
      /\ Now.id = Id /\ Id \in DOMAIN table /\ Matching /\ job.from = "remote"
      /\ current.event.kind # "Deleted"
    BY <1>1, HandPlace, HandNow DEF HandOK, At
<1>3. HasPath(table, Id) /\ PathOf(table, Id) = table[Id].path
    BY <1>1, <1>2, PathIsColumn DEF LoopOK, Inv, Tidy
<1>4. PICK from \in Path, to \in Path : from = table[Id].path /\ to = Place(Id)
    BY <1>2 DEF Inv, IsTable, Row
<1>5. Goto("fill") => job'.at = "fill"
    BY HandGoto
<1>6. \/ Fail("Unexpected")
      \/ Goto("fill") /\ UNCHANGED disk
      \/ Goto("fill") /\ from # to /\ disk' = Renamed(from, to)
    BY <1>2, <1>3, <1>4 DEF MoveUpdated, MoveRefused
<1>7. CASE Goto("fill") /\ UNCHANGED disk
    BY <1>1, <1>5, <1>7 DEF FolderKeeps, FoldersPlain, HandBrings, Touched
<1>8. CASE Goto("fill") /\ from # to /\ disk' = Renamed(from, to)
    <2>1. remote[Id].type = "folder" => from = to
        BY <1>2, <1>4, SamePlace DEF Tidy, FoldersStay
    <2>2. remote[Id].type = "file" /\ from \in DOMAIN disk /\ disk[from].type = "file"
        BY <1>2, <1>4, <1>8, <2>1 DEF Matching, Columns, Typed
    <2>3. /\ DOMAIN disk' = (DOMAIN disk \ {from}) \cup {to}
          /\ \A p \in DOMAIN disk \ {from, to} : disk'[p] = disk[p]
          /\ disk'[to] = disk[from]
        BY <1>8, <2>2, RenamesFile
    <2>4. FoldersPlain'
        <3>1. \A p \in DOMAIN disk' : p = to \/ p \in DOMAIN disk \ {from, to}
            BY <2>3
        <3> QED
            BY <1>1, <2>2, <2>3, <3>1 DEF FoldersPlain
    <2>5. job'.at = "fill" /\ HandBrings'
        BY <1>5, <1>8 DEF HandBrings
    <2>6. \A path \in DOMAIN disk : Elsewhere(path) => disk'[path] = disk[path]
        BY <1>2, <1>4, <2>3 DEF Elsewhere
    <2> QED
        BY <1>1, <2>4, <2>5, <2>6 DEF FolderKeeps, Touched
<1> QED
    BY <1>6, <1>7, <1>8, FailsBroke

LEMMA KeepsStat ==
    ASSUME Inv, Rooted(disk), RemoteJobOK, Tidy, HandOK, FoldersPlain, HandBrings,
           StatCreated \/ StatUpdated, UNCHANGED current
    PROVE  Broke' \/ FolderKeeps
<1>1. UNCHANGED <<table, remote, disk, current>>
      /\ "stat" \in Reaches \ {"start"} /\ job.at = "stat"
    BY DEF StatCreated, StatUpdated, Stat, Sys, world, Reaches, At
<1>2. PICK executor \in {"PresentOnDisk", "UpdatedOnDisk"} : At(executor, "stat")
    BY DEF StatCreated, StatUpdated
<1>3. job.got = remote[Id] /\ job.changes = <<>> /\ Len(job.todo) = 1
    <2>1. job.got = remote[Id]
        BY <1>1, <1>2, HandPlace
    <2>2. job.from = "remote"
        BY <1>1 DEF HandOK, Reaches
    <2> QED
        BY <1>1, <2>1, <2>2 DEF RemoteJobOK
<1>4. \/ Fail("Unexpected")
      \/ \E c : Done(<<c>>) /\ c.rev = job.got.rev
    BY DEF StatCreated, StatUpdated, Stat, AddChange, UpdateChange
<1>5. ASSUME NEW c, Done(<<c>>), c.rev = job.got.rev
      PROVE  FolderKeeps
    <2>1. job'.at = "apply" /\ job'.changes = <<>> \o <<c>>
        BY <1>3, <1>5 DEF Done, Inv, JobOK, JobIn, IsJob
    <2>2. (<<>> \o <<c>>)[1] = c
        OBVIOUS
    <2>3. Brought'
        BY <1>1, SamePlaces DEF HandBrings, Brought, Id
    <2>4. HandBrings'
        BY <1>1, <1>3, <1>5, <2>1, <2>2, <2>3 DEF HandBrings, Id
    <2> QED
        BY <1>1, <2>1, <2>4 DEF FolderKeeps, Touched, FoldersPlain
<1> QED
    BY <1>4, <1>5, FailsBroke

LEMMA DownloadKeeps ==
    ASSUME Inv, Rooted(disk), RemoteJobOK, LoopOK, Tidy, HandOK, FoldersPlain, HandBrings,
           InPlan(current.event), DownloadStep, UNCHANGED current
    PROVE  Broke' \/ FolderKeeps
BY KeepsAbsent, KeepsFetch, KeepsWrite, KeepsFill, KeepsMove, KeepsStat DEF DownloadStep

-------------------------------------------------------------------------------
(* What is still in the space is not below what disappeared. *)
LEMMA ListedApart ==
    ASSUME StartupInv, Tidy, PlanWell, Unfinished, current.event.kind = "Deleted",
           Id \in DOMAIN table, NEW id \in DOMAIN table, id \in Listed
    PROVE  id \notin Subtree(table, Id) /\ ~IsPrefix(table[Id].path, table[id].path)
<1>1. current.event \in Coming /\ \A event \in Coming : event.kind = "Deleted"
    BY DEF Coming, PlanWell
<1>2. Id \notin Listed
    BY <1>1 DEF PlanWell, InPlan, Id
<1>3. \A known \in DOMAIN table \cap Listed : table[known].parent = remote[known].parent
    <2>1. \A known : RemoteEvent("Updated", known).kind = "Updated"
        BY DEF RemoteEvent
    <2> QED
        BY <1>1, <2>1 DEF PlanWell, Covered
<1>4. id \notin Subtree(table, Id)
    BY <1>2, <1>3, ForgetsUnlisted DEF StartupInv, Tidy
<1> QED
    BY <1>4, SubtreeIs DEF StartupInv, Tidy

LEMMA ColumnsThere ==
    ASSUME Inv, Tidy, HandOK, DownloadStep, NEW id \in DOMAIN table, id # Id
    PROVE  table[id].path \in DOMAIN disk
<1>1. \/ job.at \in {"start", "write", "move"}
      \/ \E point \in {"fill", "stat"} : At("PresentOnDisk", point) \/ At("UpdatedOnDisk", point)
    BY DEF DownloadStep, AbsentFromDisk, FetchCreated, FetchUpdated, WriteCreated, FillCreated,
           StatCreated, MoveUpdated, FillUpdated, StatUpdated, At
<1>2. Matching \/ Adding(Id) \/ Moving(Id)
    BY <1>1 DEF HandOK
<1> QED
    BY <1>2 DEF Matching, Adding, Moving, Columns, Tidy, PathsDistinct

LEMMA SettledKept ==
    ASSUME StartupInv, Good, DownloadStep, FolderKeeps, UNCHANGED <<table, remote, current>>,
           Unfinished, Unfinished', NEW id \in Listed, id # Id, Settled(id)
    PROVE  Settled(id)'
<1>1. id \in DOMAIN table /\ Recorded(id) /\ Recorded(id)' /\ Tidy /\ HandOK /\ PlanWell
    BY DEF Settled, Recorded, FileName, Good
<1>2. table[id].path \in DOMAIN disk
    BY <1>1, ColumnsThere DEF StartupInv
<1>3. job.at # "apply"
    BY DEF DownloadStep, AbsentFromDisk, FetchCreated, FetchUpdated, WriteCreated, FillCreated,
           StatCreated, MoveUpdated, FillUpdated, StatUpdated, At
<1>4. Place(Id)' = Place(Id) /\ Id' = Id
    BY SamePlaces DEF Id
<1>5. CASE current.event.kind # "Deleted" /\ Place(Id) = table[id].path
    <2>1. CASE job'.at \in Touched
        BY <1>1, <1>4, <1>5, <2>1 DEF Settled, Taken
    <2>2. CASE job'.at \notin Touched
        BY <1>1, <1>3, <2>2 DEF Settled, Taken, SameBytes, FolderKeeps, Touched
    <2> QED
        BY <2>1, <2>2
<1>6. CASE ~(current.event.kind # "Deleted" /\ Place(Id) = table[id].path)
    <2>1. SameBytes(id)
        BY <1>6 DEF Settled, Taken
    <2>2. Id \in DOMAIN table => table[id].path # table[Id].path
        BY <1>1 DEF Tidy, PathsDistinct
    <2>3. Id \in DOMAIN table /\ current.event.kind = "Deleted"
            => ~IsPrefix(table[Id].path, table[id].path)
        BY <1>1, ListedApart
    <2>4. disk'[table[id].path] = disk[table[id].path]
        BY <1>2, <1>6, <2>2, <2>3 DEF FolderKeeps, Elsewhere
    <2> QED
        BY <1>1, <2>1, <2>4 DEF Settled, SameBytes
<1> QED
    BY <1>5, <1>6

LEMMA AwaitedKept ==
    ASSUME UNCHANGED <<todo, left, current>>, Unfinished' <=> Unfinished
    PROVE  \A id : Awaited(id)' <=> Awaited(id)
BY DEF Awaited, Coming, Postponed, EventsOf

LEMMA DownloadKeepsComplete ==
    ASSUME StartupInv, RecordsOK, Good, Complete, DownloadStep, UNCHANGED <<phase, plan>>
    PROVE  Broke' \/ Complete'
<1>1. UNCHANGED <<todo, left, current, size>>
    BY DEF plan
<1>2. Well' /\ Unfinished' /\ UNCHANGED <<table, remote>>
    BY <1>1, DownloadWell DEF StartupInv, RecordsOK, Well, Good
<1>3. Unfinished
    BY DEF DownloadStep, AbsentFromDisk, FetchCreated, FetchUpdated, WriteCreated, FillCreated,
           StatCreated, MoveUpdated, FillUpdated, StatUpdated, At, Unfinished
<1>4. Awaited(Id) /\ InPlan(current.event)
    BY <1>3 DEF Awaited, Coming, Id, Good, PlanWell
<1>5. Broke' \/ FolderKeeps
    BY <1>1, <1>4, DownloadKeeps DEF StartupInv, RecordsOK, Good, Complete
<1>6. Listed' = Listed /\ \A id : Awaited(id)' <=> Awaited(id)
    BY <1>1, <1>2, <1>3, ListedKept, AwaitedKept
<1>7. ASSUME FolderKeeps, NEW id \in Listed
      PROVE  (Awaited(id) \/ Settled(id))'
    BY <1>1, <1>2, <1>3, <1>4, <1>6, <1>7, SettledKept DEF Complete
<1> QED
    BY <1>2, <1>5, <1>6, <1>7 DEF Complete, FolderKeeps

(* What is recorded is as it is now. *)
LEMMA RecordedComplete ==
    ASSUME StartupInv, Good, Complete, UNCHANGED <<todo, left, current, remote, disk>>,
           Unfinished, ~Unfinished', job.at = "apply", job'.at = "apply",
           NEW c, job.changes = <<c>>, Making(c), Accepted(table, c), table' = Changed(table, c),
           c.change \in {"Add", "Update", "Forgot"}, job'.changes = <<>>
    PROVE  Complete'
<1>1. /\ Listed' = Listed /\ Postponed' = Postponed
      /\ Coming = EventsOf(todo) \cup {current.event} /\ Coming' = EventsOf(todo)
    BY ListedKept DEF Coming, Postponed, EventsOf
<1>2. \A id : id # Id /\ Awaited(id) => Awaited(id)'
    BY <1>1 DEF Awaited, Id
<1>3. InPlan(current.event) /\ Tidy /\ PlanWell
    BY <1>1 DEF Good, PlanWell
<1>4. (Id \in Listed <=> current.event.kind # "Deleted") /\ Id' = Id
    BY <1>3 DEF InPlan, Id
<1>5. FoldersPlain' /\ HandBrings'
    BY DEF Complete, FoldersPlain, HandBrings
<1>6. CASE c.change \in {"Add", "Update"}
    <2>1. current.event.kind # "Deleted" /\ Id \in DOMAIN remote /\ HasRemotePath(remote[Id].parent)
        <3>1. current.event.kind # "Deleted"
            BY <1>6 DEF Making
        <3> QED
            BY <1>4, <1>6, <3>1 DEF Listed, Visible, Making, Adding, Moving
    <2>2. Brought /\ c.rev = remote[Id].rev
        <3>1. <<c>>[1] = c /\ <<c>> # <<>>
            OBVIOUS
        <3> QED
            BY <2>1, <3>1 DEF Complete, HandBrings
    <2>3. /\ DOMAIN table' = DOMAIN table \cup {Id}
          /\ table'[Id].path = Place(Id) /\ table'[Id].parent = remote[Id].parent
          /\ table'[Id].rev = c.rev
          /\ \A known \in DOMAIN table \ {Id} :
                table'[known] = table[known] /\ table[known].path # Place(Id)
        <3>1. CASE c.change = "Add"
            BY <3>1 DEF Making, Accepted, AddAccepted, Changed, Added
        <3>2. CASE c.change = "Update"
            <4>1. UpdatedPath(table, c) = Place(Id) /\ Id \in DOMAIN table /\ c.id = Id
                BY <2>1, <3>2 DEF Making, Moving, HasRemotePath, UpdatedPath, Place, RemotePath
            <4> QED
                BY <3>2, <4>1 DEF Making, Accepted, UpdateAccepted, Changed, Updated
        <3> QED
            BY <1>6, <3>1, <3>2
    <2>4. Last(Place(Id)) = remote[Id].name
        BY <1>3, <2>1, PlaceIs DEF StartupInv
    <2>5. Settled(Id)'
        BY <1>4, <2>2, <2>3, <2>4 DEF Settled, Recorded, FileName, SameBytes, Brought
    <2>6. ASSUME NEW id \in DOMAIN table \ {Id}, Settled(id)
          PROVE  Settled(id)'
        <3>1. SameBytes(id) /\ Recorded(id)
            BY <2>3, <2>6 DEF Settled, Taken
        <3> QED
            BY <2>3, <3>1 DEF Settled, Recorded, FileName, SameBytes
    <2>7. \A id \in Listed : (Awaited(id) \/ Settled(id))'
        <3>1. ASSUME NEW id, id = Id PROVE Settled(id)'
            BY <1>4, <2>5, <3>1 DEF Settled, Recorded, FileName, SameBytes, Taken
        <3>2. \A id \in Listed : Awaited(id) \/ (id \in DOMAIN table /\ Settled(id))
            BY DEF Complete, Settled
        <3> QED
            BY <1>2, <2>6, <3>1, <3>2
    <2>8. \A id \in DOMAIN table' \ Listed : Awaited(id)'
        BY <1>2, <1>4, <2>1, <2>3 DEF Complete
    <2> QED
        BY <1>1, <1>5, <2>7, <2>8 DEF Complete
<1>7. CASE c.change = "Forgot"
    <2>1. /\ current.event.kind = "Deleted" /\ Id \in DOMAIN table /\ Id \notin Listed
          /\ table' = ForgotWithChildren(table, Id)
        BY <1>4, <1>7 DEF Making, Changed, Removing
    <2>2. Id \in Subtree(table, Id)
        <3>1. table[Id].path \in Path
            BY <2>1 DEF StartupInv, Inv, IsTable, Row
        <3> QED
            BY <1>3, <2>1, <3>1, SubtreeIs, PrefixOrder DEF StartupInv, Good, Tidy
    <2>3. /\ DOMAIN table' = DOMAIN table \ Subtree(table, Id)
          /\ \A id \in DOMAIN table' : table'[id] = table[id]
        BY <2>1 DEF ForgotWithChildren
    <2>4. ASSUME NEW id \in Listed, Settled(id)
          PROVE  Settled(id)'
        <3>1. SameBytes(id) /\ Recorded(id) /\ id \in DOMAIN table
            BY <2>1, <2>4 DEF Settled, Taken
        <3>2. id \in DOMAIN table' /\ table'[id] = table[id]
            BY <1>3, <2>1, <2>3, <3>1, ListedApart
        <3> QED
            BY <3>1, <3>2 DEF Settled, Recorded, FileName, SameBytes
    <2>5. \A id \in Listed : (Awaited(id) \/ Settled(id))'
        BY <1>2, <2>1, <2>4 DEF Complete
    <2>6. \A id \in DOMAIN table' \ Listed : Awaited(id)'
        BY <1>2, <2>2, <2>3 DEF Complete
    <2> QED
        BY <1>1, <1>5, <2>5, <2>6 DEF Complete
<1> QED
    BY <1>6, <1>7

(* What changes neither the State, the folder, nor what is awaited. *)
LEMMA CompleteKept ==
    ASSUME Complete, UNCHANGED <<table, remote, disk>>, job'.at \notin Touched,
           \A id : Awaited(id) => Awaited(id)',
           Unfinished => job.at \notin Touched
    PROVE  Complete'
<1>1. Listed' = Listed
    BY ListedKept
<1>2. \A id : Settled(id) => Settled(id)'
    BY DEF Settled, Recorded, FileName, SameBytes, Taken
<1> QED
    BY <1>1, <1>2 DEF Complete, FoldersPlain, HandBrings, Touched

LEMMA ApplyKeepsComplete ==
    ASSUME StartupInv, RecordsOK, Good, Complete, ApplyChange, UNCHANGED <<phase, plan>>
    PROVE  Broke' \/ Complete'
<1>1. UNCHANGED <<todo, left, current, size, remote, disk>> /\ job.at = "apply"
    BY DEF plan, ApplyChange, world
<1>2. \/ Broke'
      \/ ~Unfinished /\ job' = Idle /\ UNCHANGED table
      \/ /\ Unfinished /\ ~Unfinished' /\ job'.at = "apply"
         /\ \E c \in Changes : /\ job.changes = <<c>> /\ Making(c)
                               /\ Accepted(table, c) /\ table' = Changed(table, c)
    BY <1>1, ApplyWell DEF StartupInv, Well, Good
<1>3. CASE ~Unfinished /\ job' = Idle /\ UNCHANGED table
    <2>1. job'.at = "idle" /\ ~Unfinished'
        BY <1>3 DEF Idle, Unfinished
    <2>2. \A id : Awaited(id) => Awaited(id)'
        BY <1>1, <1>3, <2>1, AwaitedKept
    <2> QED
        BY <1>1, <1>3, <2>1, <2>2, CompleteKept DEF Touched
<1>4. ASSUME Unfinished, ~Unfinished', job'.at = "apply", NEW c \in Changes,
             job.changes = <<c>>, Making(c), Accepted(table, c), table' = Changed(table, c)
      PROVE  Complete'
    <2>1. c.change \in {"Add", "Update", "Forgot"}
        BY DEF Changes, AddChanges, UpdateChanges
    <2>2. job'.changes = <<>>
        BY <1>4 DEF Unfinished
    <2> QED
        BY <1>1, <1>4, <2>1, <2>2, RecordedComplete
<1> QED
    BY <1>2, <1>3, <1>4

-------------------------------------------------------------------------------
(* From one change and from one pass to the next.                          *)
LEMMA PassComplete ==
    ASSUME StartupInv, Good, Complete, Operate \/ Postpone \/ Confirm \/ NextPass
    PROVE  Broke' \/ Complete'
<1>1. CASE Operate
    <2>1. /\ todo # <<>> /\ job.at = "idle" /\ Receive(Head(todo).event, FALSE)
          /\ current' = Head(todo) /\ todo' = Tail(todo)
          /\ UNCHANGED <<left, table, remote, disk>>
        BY <1>1 DEF Operate, Receive
    <2>2. EventsOf(todo) = EventsOf(Tail(todo)) \cup {Head(todo).event}
        BY <2>1, EventsHead DEF StartupInv, PlanOK
    <2>3. ~Unfinished /\ Coming = EventsOf(todo) /\ Matching
        BY <2>1 DEF Unfinished, Coming, Good, HandOK
    <2>4. InPlan(Head(todo).event)
        BY <2>2, <2>3 DEF Good, PlanWell
    <2>5. Head(todo).event \notin ignored /\ ~IsAttachment(Head(todo).event)
        BY <2>3, <2>4, NoAttachment DEF StartupInv, Good
    <2>6. \/ Fail("Unexpected")
          \/ job' = [Idle EXCEPT !.at = "start", !.from = Head(todo).event.src,
                                   !.todo = Executors(Head(todo).event)]
        BY <2>1, <2>5 DEF Receive
    <2>7. CASE job'.at = "start"
        <3>1. Unfinished' /\ Coming' = Coming /\ Postponed' = Postponed
            BY <2>1, <2>2, <2>3, <2>7 DEF Unfinished, Coming, Postponed, EventsOf
        <3> QED
            BY <2>1, <2>7, <3>1, CompleteKept DEF Touched, Awaited
    <2> QED
        BY <2>6, <2>7, FailsBroke DEF Idle, StartupInv
<1>2. CASE Postpone
    <2>1. /\ job.at = "failed" /\ job'.at = "idle" /\ left' = Append(left, current)
          /\ UNCHANGED <<todo, current, table, remote, disk>>
        BY <1>2 DEF Postpone, MissesParent, store, world, Idle
    <2>2. left \in Seq(Planned(remote)) /\ current \in Planned(remote)
        BY <1>2, <2>1 DEF StartupInv, PlanOK, Postpone, MissesParent, Passing
    <2>3. Postponed' = Postponed \cup {current.event}
        <3>1. /\ Len(left) \in Nat /\ DOMAIN left = 1..Len(left)
              /\ DOMAIN left' = 1..(Len(left) + 1) /\ left'[Len(left) + 1] = current
              /\ \A k \in 1..Len(left) : left'[k] = left[k]
            BY <2>1, <2>2
        <3> QED
            BY <2>1, <3>1 DEF Postponed, EventsOf
    <2>4. Coming = Coming' \cup {current.event}
        BY <2>1 DEF Coming, Unfinished, EventsOf
    <2>5. \A id : Awaited(id) => Awaited(id)'
        BY <2>3, <2>4 DEF Awaited
    <2> QED
        BY <2>1, <2>5, CompleteKept DEF Touched
<1>3. CASE Confirm \/ NextPass
    <2>1. UNCHANGED <<table, job, remote, disk, current>> /\ left' = <<>> /\ job.at = "idle"
        BY <1>3, IdleAt DEF Confirm, NextPass, Pass, vars
    <2>2. ~Unfinished /\ ~Unfinished' /\ Postponed' = {}
        BY <2>1 DEF Unfinished, Postponed, EventsOf
    <2>3. \/ UNCHANGED todo /\ left = <<>>
          \/ todo = <<>> /\ todo' = left
        BY <1>3 DEF Confirm, NextPass, PassOver, Pass, StartupInv, PhaseOK, Passing
    <2>4. Coming' = Coming \cup Postponed
        BY <2>2, <2>3 DEF Coming, Postponed, EventsOf
    <2> QED
        BY <2>1, <2>2, <2>4, CompleteKept DEF Touched, Awaited
<1> QED
    BY <1>1, <1>2, <1>3

-------------------------------------------------------------------------------
(***************************************************************************)
(* The local pass of a first run: what the walk of the disk found is       *)
(* uploaded, which misses no parent, so that nothing is postponed.         *)
(***************************************************************************)
ErrorFresh == job.at # "failed" => job.error = "none"

FromDisk(changes) == \A event \in EventsOf(changes) : event.src = "local"

LocalPassOK ==
    /\ ErrorFresh
    /\ runs <= 1 => job.error # "MissingParents" /\ FromDisk(locally)
    /\ runs <= 1 /\ phase = "local" =>
           /\ FromDisk(todo) /\ left = <<>> /\ job.error # "MissingParent"
           /\ job.at \in Working => Head(job.todo).ex \notin Downloads

LEMMA ReceiveErrors ==
    ASSUME Inv, NEW event, NEW own, Receive(event, own)
    PROVE  \/ UNCHANGED job
           \/ job'.at = "failed" /\ job'.error = "Unexpected"
           \/ /\ job'.at = "start" /\ job'.error = "none" /\ job'.todo = Executors(event)
<1>1. /\ "error" \in DOMAIN job /\ "at" \in DOMAIN job
    BY DEF Inv, JobOK, JobIn, IsJob
<1> QED
    BY <1>1 DEF Receive, Fail, Idle

LEMMA ErrorStep ==
    ASSUME StartupInv, RecordsOK, ErrorFresh, [StartupNext]_svars
    PROVE  /\ ErrorFresh'
           /\ job'.error = "MissingParents" => job.error = "MissingParents" \/ GiveUp
<1>1. CASE UNCHANGED job
    BY <1>1 DEF ErrorFresh
<1>2. CASE job' = Idle
    BY <1>2 DEF ErrorFresh, Idle
<1>3. CASE Work
    BY <1>3, WorkErrors DEF Work, StartupInv, RecordsOK, ErrorFresh
<1>4. CASE \E event, own : Receive(event, own)
    BY <1>4, ReceiveErrors DEF StartupInv, ErrorFresh
<1>5. CASE GiveUp
    <2>1. job'.at = "failed"
        BY <1>5 DEF GiveUp, Fail, StartupInv, Inv, JobOK, JobIn, IsJob
    <2> QED
        BY <1>5, <2>1 DEF ErrorFresh
<1>6. CASE List \/ Scan \/ Confirm \/ NextPass \/ TurnLocal \/ GoLive \/ Start \/ Decline
           \/ UsersAct \/ StreamOpens \/ WatchOpens \/ UNCHANGED svars
    BY <1>1, <1>6 DEF List, StreamOpens, WatchOpens, Opens, Scan, Confirm, NextPass, TurnLocal,
                      GoLive, Start, Decline, UsersAct, UserActs, svars, vars
<1>7. CASE Postpone \/ EndWithError \/ Crash
    BY <1>2, <1>7 DEF Postpone, EndWithError, Crash, Over
<1>8. CASE Operate
    BY <1>4, <1>8 DEF Operate
<1>9. CASE LiveStep
    BY <1>1, <1>4, <1>9 DEF LiveStep, WatchLeft, ReceiveRemote, ReceiveLocal
<1> QED
    BY <1>3, <1>5, <1>6, <1>7, <1>8, <1>9 DEF StartupNext, RunStep, StartupStep

(* What the walk of the disk found is of the disk. *)
LEMMA ScanLocal ==
    ASSUME StartupInv, NEW changes \in LocalChanges
    PROVE  FromDisk(changes)
<1>1. PICK first \in Walks, last \in SetToSeqs(Lost) :
        changes = [k \in DOMAIN (first \o last) |-> SeenLocally((first \o last)[k])]
    BY DEF LocalChanges
<1>2. \A path : SeenLocally(path).event.src = "local"
    BY DEF SeenLocally, LocalEvent
<1> QED
    BY <1>1, <1>2 DEF FromDisk, EventsOf

LEMMA UploadsDownloadNothing ==
    ASSUME NEW event \in PlainEvents
    PROVE  Head(Executors(event)).ex \notin Downloads
<1>1. event.src = "local" /\ event.kind \in {"Deleted", "Created", "Renamed", "Modified"}
    BY DEF PlainEvents, LocalEvents
<1>2. /\ \A ex, path : Head(<<OnPath(ex, path)>>) = OnPath(ex, path)
      /\ \A ex, path, others : Head(<<OnPath(ex, path)>> \o <<others>>) = OnPath(ex, path)
      /\ \A stored, after : Head(<<OnRename(stored, after)>>) = OnRename(stored, after)
      /\ \A ex, path : Head(<<OnPath(ex, path)>> \o <<>>) = OnPath(ex, path)
    OBVIOUS
<1>3. Executors(event) = UploadExecutors(event)
    BY <1>1 DEF Executors
<1> QED
    BY <1>1, <1>2, <1>3 DEF UploadExecutors, OnPath, OnRename, Downloads

LEMMA LocalPassStep ==
    ASSUME StartupInv, RecordsOK, LocalPassOK, [StartupNext]_svars,
           runs <= 1 /\ phase = "remote" => ~GiveUp
    PROVE  LocalPassOK'
<1>1. runs \in Nat /\ (runs' <= 1 => runs <= 1)
    <2>1. runs \in Nat
        BY StartupAssumption DEF StartupInv, PhaseOK
    <2>2. runs' = runs \/ runs' = runs + 1
        BY DEF StartupNext, RunStep, StartupStep, Start, StreamOpens, WatchOpens,
           Opens, List, Scan, Confirm, Decline, Operate, Postpone,
               NextPass, GiveUp, TurnLocal, GoLive, EndWithError, Crash, Over, Work, UsersAct, svars
    <2> QED
        BY <2>1, <2>2
<1>2. runs <= 1 => ~GiveUp
    BY DEF LocalPassOK, GiveUp, PassOver
<1>3. ErrorFresh' /\ (runs' <= 1 => job'.error # "MissingParents")
    BY <1>1, <1>2, ErrorStep DEF LocalPassOK
<1> SUFFICES ASSUME runs <= 1, runs' <= 1
             PROVE  /\ FromDisk(locally')
                    /\ phase' = "local" =>
                           /\ FromDisk(todo') /\ left' = <<>> /\ job'.error # "MissingParent"
                           /\ job'.at \in Working => Head(job'.todo).ex \notin Downloads
    BY <1>1, <1>3 DEF LocalPassOK, FromDisk, EventsOf
<1>4. FromDisk(<<>>) /\ FromDisk(locally)
    BY DEF FromDisk, EventsOf, LocalPassOK
<1>5. CASE List \/ Scan \/ Confirm \/ Start \/ Decline \/ EndWithError \/ Crash \/ GoLive
    BY <1>4, <1>5, ScanLocal
    DEF List, Scan, Confirm, Start, Decline, EndWithError, Crash, Over, GoLive, plan, Pass
<1>6. CASE TurnLocal
    <2>1. job.at = "idle" /\ UNCHANGED job
        BY <1>6 DEF TurnLocal, PassOver, vars
    <2> QED
        BY <1>4, <1>6, <2>1 DEF TurnLocal, Pass, LocalPassOK, ErrorFresh, Working
<1>7. CASE (LiveStep /\ UNCHANGED <<phase, plan, runs>>) \/ UsersAct \/ StreamOpens
           \/ WatchOpens \/ UNCHANGED svars
    <2>1. UNCHANGED <<phase, todo, left, locally>> /\ (phase = "local" => UNCHANGED job)
        BY <1>7 DEF LiveStep, WatchLeft, UsersAct, UserActs, StreamOpens, WatchOpens, Opens,
                    plan, svars, vars
    <2> QED
        BY <1>4, <2>1 DEF LocalPassOK
<1>8. CASE Work
    <2>1. UNCHANGED <<phase, plan>>
        BY <1>8 DEF Work
    <2>2. SUFFICES ASSUME phase = "local"
                   PROVE  /\ job'.error # "MissingParent"
                          /\ job'.at \in Working => Head(job'.todo).ex \notin Downloads
        BY <1>4, <2>1 DEF plan, LocalPassOK
    <2>3. ~At("PresentOnDisk", "start")
        BY <2>2 DEF LocalPassOK, At, Working, Downloads
    <2> QED
        BY <1>8, <2>2, <2>3, WorkErrors DEF Work, StartupInv, RecordsOK, LocalPassOK
<1>9. CASE Operate
    <2>1. /\ UNCHANGED <<phase, left, locally>> /\ todo' = Tail(todo) /\ todo # <<>>
          /\ Receive(Head(todo).event, FALSE) /\ job.at = "idle"
        BY <1>9 DEF Operate, Receive
    <2>2. SUFFICES ASSUME phase = "local"
                   PROVE  /\ FromDisk(todo') /\ job'.error # "MissingParent"
                          /\ job'.at \in Working => Head(job'.todo).ex \notin Downloads
        BY <1>4, <2>1 DEF LocalPassOK
    <2>3. Head(todo) \in Planned(remote) /\ Head(todo) = todo[1] /\ 1 \in DOMAIN todo
          /\ Len(Tail(todo)) = Len(todo) - 1 /\ Len(todo) \in Nat \ {0}
          /\ DOMAIN todo = 1..Len(todo) /\ DOMAIN Tail(todo) = 1..(Len(todo) - 1)
          /\ \A k \in 1..(Len(todo) - 1) : Tail(todo)[k] = todo[k + 1]
        BY <2>1, HeadTailProperties DEF StartupInv, PlanOK
    <2>4. FromDisk(todo')
        <3>1. \A k \in 1..(Len(todo) - 1) : k + 1 \in DOMAIN todo
            BY <2>3
        <3> QED
            BY <2>1, <2>2, <2>3, <3>1 DEF FromDisk, EventsOf, LocalPassOK
    <2>5. Head(todo).event \in PlainEvents
        <3>1. Head(todo).event.src = "local"
            BY <2>2, <2>3 DEF FromDisk, EventsOf, LocalPassOK
        <3> QED
            BY <2>3, <3>1 DEF Planned, Events, RemoteEvents
    <2>6. Head(Executors(Head(todo).event)).ex \notin Downloads
        BY <2>5, UploadsDownloadNothing
    <2>7. job.error = "none"
        BY <2>1 DEF LocalPassOK, ErrorFresh
    <2>8. "failed" \notin Working /\ "idle" \notin Working
        BY DEF Working
    <2> QED
        BY <2>1, <2>4, <2>6, <2>7, <2>8, ReceiveErrors DEF StartupInv
<1>10. CASE Postpone
    <2>1. phase # "local"
        BY <1>10 DEF Postpone, MissesParent, LocalPassOK
    <2> QED
        BY <1>4, <1>10, <2>1 DEF Postpone
<1>11. CASE NextPass
    <2>1. phase # "local"
        BY <1>11 DEF NextPass, LocalPassOK
    <2> QED
        BY <1>4, <1>11, <2>1 DEF NextPass
<1> QED
    BY <1>2, <1>5, <1>6, <1>7, <1>8, <1>9, <1>10, <1>11 DEF StartupNext, RunStep, StartupStep

-------------------------------------------------------------------------------
(***************************************************************************)
(* The start of a first run after users worked in the space only: the walk *)
(* of the disk finds nothing, and all of the remote changes are planned.   *)
(***************************************************************************)

(* Files are what they were when their rows were written, *)
Stamped ==
    \A id \in DOMAIN table : remote[id].type = "file" => table[id].stamp = Stamp(table[id].path)

(* and a content whose revision the State has is what the State says. *)
AsItWas ==
    \A id \in DOMAIN table : table[id].rev = remote[id].rev => Recorded(id) /\ SameBytes(id)

(* The State, the folder and the space before the first run.               *)
Synchronized == Tidy /\ Matching /\ Stamped /\ AsItWas /\ FoldersPlain

Found == {change.event : change \in unresolved}

Seen(id) == \E event \in Found : event.id = id

FoundWell ==
    /\ (\A event \in Found : InPlan(event)) /\ Covered(Found, {})
    /\ \A id \in Listed : Seen(id) \/ (id \in DOMAIN table /\ table[id].rev = remote[id].rev)
    /\ \A id \in DOMAIN table \ Listed : Seen(id)

LEMMA NothingLocal ==
    ASSUME Inv, Tidy, Matching, Stamped, NEW changes \in LocalChanges
    PROVE  changes = <<>>
<1> DEFINE stale == {path \in DOMAIN disk : Stale(path)}
<1>1. stale = {}
    <2> SUFFICES ASSUME NEW path \in DOMAIN disk PROVE ~Stale(path)
        OBVIOUS
    <2>1. PICK id : id = ContentIdForPath(table, path)
        OBVIOUS
    <2>2. id \in DOMAIN table /\ table[id].path = path
        BY <2>1 DEF ContentIdForPath, Matching, Columns
    <2>3. id # Root
        BY <2>2, RootAssumption DEF Inv, IsTable
    <2> QED
        BY <2>1, <2>2, <2>3 DEF Stale, IsFile, Matching, Typed, Stamped
<1>2. Lost = {}
    BY DEF Lost, Matching, Columns
<1> HIDE DEF stale
<1>3. PICK first \in Walks, last \in SetToSeqs(Lost) :
        changes = [k \in DOMAIN (first \o last) |-> SeenLocally((first \o last)[k])]
    BY DEF LocalChanges
<1>4. IsFiniteSet({}) /\ Cardinality({}) = 0
    BY FS_EmptySet
<1>5. DOMAIN first = 1..0 /\ first \in Seq({}) /\ DOMAIN last = 1..0 /\ last \in Seq({})
    <2>1. first \in SetToSeqs({})
        BY <1>1 DEF Walks, stale
    <2> QED
        BY <1>2, <1>4, <2>1, OrderType
<1>6. first = <<>> /\ last = <<>>
    BY <1>5
<1>7. DOMAIN (first \o last) = {}
    BY <1>6
<1>8. changes \in Seq(Planned(remote)) /\ DOMAIN changes = {}
    BY <1>3, <1>7, LocalChangesType
<1> QED
    BY <1>8

LEMMA OrderAll ==
    ASSUME NEW S, IsFiniteSet(S), NEW order \in SetToSeqs(S), NEW x \in S
    PROVE  \E k \in DOMAIN order : order[k] = x
<1> PICK n \in Nat : n = Cardinality(S)
    BY FS_CardinalityType
<1>1. order \in [1..n -> S] /\ \A i, j \in 1..n : i # j => order[i] # order[j]
    BY DEF SetToSeqs
<1> SUFFICES ASSUME \A k \in 1..n : order[k] # x PROVE FALSE
    BY <1>1
<1>2. order \in [1..n -> S \ {x}]
    BY <1>1
<1>3. IsFiniteSet(S \ {x}) /\ Cardinality(S \ {x}) = n - 1
    BY FS_RemoveElement
<1>4. IsFiniteSet(1..n) /\ Cardinality(1..n) = n
    BY FS_Interval
<1>5. n - 1 < n
    OBVIOUS
<1> QED
    BY <1>1, <1>2, <1>3, <1>4, <1>5, FS_PigeonHole

LEMMA ListWell ==
    ASSUME StartupInv, AsItWas, List
    PROVE  FoundWell'
<1>1. /\ UNCHANGED <<table, remote, disk>> /\ unresolved' = RemoteChanges
    BY DEF List, vars
<1>2. Listed' = Listed
    BY <1>1, ListedKept
<1>3. ASSUME NEW id
      PROVE  /\ SeenRemotely(id).event.id = id /\ SeenRemotely(id).event.src = "remote"
             /\ SeenRemotely(id).event.kind \in {"Created", "Updated", "Deleted"}
             /\ SeenRemotely(id).event.kind = "Deleted" <=> id \notin Listed
             /\ id \in Listed \cap DOMAIN table
                    => SeenRemotely(id).event = RemoteEvent("Updated", id)
    BY DEF SeenRemotely, RemoteEvent
<1>4. Found' = {SeenRemotely(id).event : id \in Appeared \cup Disappeared}
    BY <1>1 DEF Found, RemoteChanges
<1>5. \A event \in Found' : InPlan(event)'
    BY <1>2, <1>3, <1>4 DEF InPlan
<1>6. Covered(Found, {})'
    BY <1>1, <1>2, <1>3, <1>4 DEF Covered, Appeared, AsItWas, Recorded
<1>7. /\ \A id \in Listed : Seen(id)' \/ (id \in DOMAIN table /\ table[id].rev = remote[id].rev)
      /\ \A id \in DOMAIN table \ Listed : Seen(id)'
    BY <1>3, <1>4 DEF Seen, Appeared, Disappeared
<1> QED
    BY <1>1, <1>2, <1>5, <1>6, <1>7 DEF FoundWell

LEMMA ScanWell ==
    ASSUME StartupInv, Synchronized, FoundWell, Scan
    PROVE  locally' = <<>> /\ Good' /\ Complete'
<1>1. /\ UNCHANGED <<table, ignored, job, remote, disk, left, current>>
      /\ locally' \in LocalChanges /\ todo' \in Ordered(KeptRemote(unresolved, locally'))
      /\ left = <<>> /\ job = Idle /\ job.at = "idle"
    BY DEF Scan, vars, StartupInv, PhaseOK, Passing, Idle
<1>2. locally' = <<>>
    BY <1>1, NothingLocal DEF StartupInv, Synchronized
<1>3. KeptRemote(unresolved, <<>>) = unresolved
    BY DEF KeptRemote, InConflict
<1>4. IsFiniteSet(unresolved)
    BY DEF StartupInv, PlanOK
<1>5. /\ todo' \in SetToSeqs(unresolved)
      /\ \A i, j \in DOMAIN todo' : Rank(todo'[i]) < Rank(todo'[j]) => i < j
    BY <1>1, <1>2, <1>3 DEF Ordered
<1>6. todo' \in Seq(unresolved) /\ DOMAIN todo' = 1..Cardinality(unresolved)
      /\ Cardinality(unresolved) \in Nat /\ \A k \in DOMAIN todo' : todo'[k] \in unresolved
    BY <1>4, <1>5, OrderType
<1>7. \A change \in unresolved : \E k \in DOMAIN todo' : todo'[k] = change
    BY <1>4, <1>5, OrderAll
<1>8. EventsOf(todo') = Found
    BY <1>6, <1>7 DEF EventsOf, Found
<1>9. ~Unfinished' /\ Coming' = Found /\ Postponed' = {} /\ Listed' = Listed
    BY <1>1, <1>8, ListedKept DEF Unfinished, Coming, Postponed, EventsOf
<1>10. DeletedLast(todo')
    <2>1. \A change : /\ change.event.kind = "Deleted" => Rank(change) = 3
                      /\ change.event.kind # "Deleted" => Rank(change) \in {1, 2}
        BY DEF Rank
    <2>2. \A j, k \in DOMAIN todo' : j < k => ~(k < j)
        BY <1>6
    <2>3. \A j, k \in DOMAIN todo' : todo'[j].event.kind = "Deleted" /\ todo'[k].event.kind # "Deleted"
            => Rank(todo'[k]) < Rank(todo'[j])
        BY <2>1
    <2> QED
        BY <1>5, <2>2, <2>3 DEF DeletedLast
<1>11. PlanWell'
    <2>1. Covered(Coming, Postponed)'
        BY <1>1, <1>9 DEF FoundWell, Covered
    <2>2. \A event \in Coming' \cup Postponed' : InPlan(event)'
        BY <1>9 DEF FoundWell, InPlan
    <2> QED
        BY <1>9, <1>10, <2>1, <2>2 DEF PlanWell, DeletedLast
<1>12. Tidy'
    BY <1>1, TidyKept DEF Synchronized, Tidy, IgnoresLocal
<1>13. HandOK'
    BY <1>1 DEF HandOK, At, Synchronized, Matching, Columns, Typed, Reaches
<1>14. Complete'
    <2>1. \A id : Seen(id) => Awaited(id)'
        BY <1>9 DEF Seen, Awaited
    <2>2. \A id \in DOMAIN table : table[id].rev = remote[id].rev => Settled(id)'
        BY <1>1 DEF Synchronized, AsItWas, Settled, Recorded, FileName, SameBytes
    <2>3. FoldersPlain' /\ HandBrings'
        BY <1>1 DEF Synchronized, FoldersPlain, HandBrings
    <2> QED
        BY <1>1, <1>9, <2>1, <2>2, <2>3 DEF FoundWell, Complete
<1> QED
    BY <1>2, <1>11, <1>12, <1>13, <1>14 DEF Good

(* What leaves the folder, the State and the plan alone. *)
LEMMA GoodKept ==
    ASSUME Good, Complete,
           UNCHANGED <<table, ignored, job, remote, disk, phase, todo, left, size, current>>
    PROVE  Good' /\ Complete'
<1>1. Tidy'
    BY TidyKept DEF Good, Tidy, IgnoresLocal
<1>2. Matching' = Matching /\ Place(Id)' = Place(Id) /\ Columns' = Columns
    BY DEF Matching, Columns, Typed, Place, RemotePath, Id
<1>3. HandOK'
    <2>1. (Adding(Id) => Adding(Id)') /\ (Moving(Id) => Moving(Id)')
        BY <1>2 DEF Adding, Moving, Typed, HasRemotePath, Id
    <2>2. Removing(Id) => Removing(Id)'
        BY <1>2 DEF Removing, Typed, Id
    <2>3. \A c : Making(c) => Making(c)'
        BY <1>2, <2>1, <2>2 DEF Making, Id
    <2>4. DownloadExecutor(current.event)' = DownloadExecutor(current.event) /\ Id' = Id
        BY DEF DownloadExecutor, Id
    <2>5. \A executor, point : At(executor, point)' => At(executor, point)
        BY DEF At
    <2> QED
        BY <1>2, <2>1, <2>3, <2>4, <2>5 DEF Good, HandOK
<1>4. PlanWell'
    BY PlanKept DEF Good, Unfinished, Fruitless, InHand
<1>5. Complete'
    <2>1. Listed' = Listed /\ \A id : Awaited(id) => Awaited(id)'
        BY ListedKept, AwaitedKept DEF Unfinished
    <2>2. \A id : Settled(id) => Settled(id)'
        BY <1>2 DEF Settled, Recorded, FileName, SameBytes, Taken, Unfinished
    <2>3. FoldersPlain' /\ HandBrings'
        BY <1>2 DEF Complete, FoldersPlain, HandBrings, Brought, Id
    <2> QED
        BY <2>1, <2>2, <2>3 DEF Complete
<1> QED
    BY <1>1, <1>3, <1>4, <1>5 DEF Good

-------------------------------------------------------------------------------
(* What users do in the space before the first run.                        *)
SpaceEdited ==
    /\ DOMAIN remote \subseteq DOMAIN remote'
    /\ \A id \in DOMAIN remote :
          \/ remote'[id] = remote[id]
          \/ /\ remote'[id].type = remote[id].type /\ remote'[id].rev = remote[id].rev + 1
             /\ remote[id].type = "folder" =>
                    remote'[id].name = remote[id].name /\ remote'[id].parent = remote[id].parent
    /\ \A id \in DOMAIN remote' : remote'[id].parent # Root =>
          /\ remote'[id].parent \in DOMAIN remote
          /\ remote[remote'[id].parent].type = "folder"

LEMMA EditsOne ==
    ASSUME ContentsOK(remote), ParentsHold, NEW id \in DOMAIN remote, NEW content \in Content,
           content.type = remote[id].type, content.rev = remote[id].rev + 1,
           content.name = remote[id].name \/ remote[id].type # "folder",
           \/ content.parent = remote[id].parent
           \/ /\ remote[id].type # "folder"
              /\ content.parent = Root \/ (/\ content.parent \in DOMAIN remote
                                           /\ remote[content.parent].type = "folder"),
           remote' = [remote EXCEPT ![id] = content]
    PROVE  SpaceEdited
BY DEF SpaceEdited, ParentsHold, ContentsOK

LEMMA SpaceEdits ==
    ASSUME ContentsOK(remote), ParentsHold, Renaming \subseteq {"file"}, UserStep,
           edits \in 0..MaxEdits
    PROVE  SpaceEdited
<1> USE SpaceAssumption DEF RemoteChange
<1>1. CASE UserCreatesRemote
    <2>1. PICK id \in NewIds, name \in Names, parent \in DOMAIN remote \cup {Root},
               type \in {"file", "folder"}, bytes \in {edits + 1, NoBytes} :
            /\ parent # Root => remote[parent].type = "folder"
            /\ remote' = WithContent(id, NewContent(name, parent, type, bytes))
        BY <1>1, Zenon DEF UserCreatesRemote
    <2>2. id \notin DOMAIN remote
        BY DEF NewIds
    <2>3. NewContent(name, parent, type, bytes).parent = parent
        BY DEF NewContent
    <2>4. /\ DOMAIN remote' = DOMAIN remote \cup {id} /\ remote'[id].parent = parent
          /\ \A other \in DOMAIN remote : remote'[other] = remote[other]
        BY <2>1, <2>2, <2>3 DEF WithContent
    <2> QED
        BY <2>1, <2>2, <2>4 DEF SpaceEdited, ParentsHold
<1>2. CASE UserFillsRemote
    <2>1. PICK id \in DOMAIN remote : remote' = Filled(id, edits + 1)
        BY <1>2 DEF UserFillsRemote
    <2>2. PICK old \in Content : old = remote[id]
        BY DEF ContentsOK
    <2>3. PICK rev \in Nat : rev = old.rev + 1
        BY DEF Content
    <2>4. PICK content : content = [old EXCEPT !.bytes = edits + 1, !.rev = rev]
        OBVIOUS
    <2>5. /\ content \in Content /\ content.type = old.type /\ content.rev = old.rev + 1
          /\ content.name = old.name /\ content.parent = old.parent
        <3>0. edits + 1 \in Nat
            OBVIOUS
        <3>1. content \in Content
            BY <2>1, <2>3, <2>4, <3>0, EditedContent DEF ParentIds, ContentsOK
        <3> QED
            BY <2>3, <2>4, <3>1 DEF Content
    <2>6. remote' = [remote EXCEPT ![id] = content]
        BY <2>1, <2>2, <2>3, <2>4 DEF Filled, Content
    <2> QED
        BY <2>2, <2>5, <2>6, EditsOne
<1>3. CASE UserLabelsRemote
    <2>1. PICK id \in DOMAIN remote, name \in Names :
            remote' = Labelled(id, name) /\ remote[id].type # "folder"
        BY <1>3 DEF UserLabelsRemote
    <2>2. PICK old \in Content : old = remote[id]
        BY DEF ContentsOK
    <2>3. PICK rev \in Nat : rev = old.rev + 1
        BY DEF Content
    <2>4. PICK content : content = [old EXCEPT !.name = name, !.rev = rev]
        OBVIOUS
    <2>5. /\ content \in Content /\ content.type = old.type /\ content.rev = old.rev + 1
          /\ content.parent = old.parent
        <3>1. content \in Content
            BY <2>1, <2>3, <2>4, EditedContent DEF ParentIds, ContentsOK
        <3> QED
            BY <2>3, <2>4, <3>1 DEF Content
    <2>6. remote' = [remote EXCEPT ![id] = content]
        BY <2>1, <2>2, <2>3, <2>4 DEF Labelled, Content
    <2> QED
        BY <2>1, <2>2, <2>5, <2>6, EditsOne
<1>4. CASE UserMovesRemote
    <2>1. PICK id \in DOMAIN remote, parent \in DOMAIN remote \cup {Root} :
            /\ remote' = Parented(id, parent) /\ remote[id].type # "folder"
            /\ parent # Root => remote[parent].type = "folder"
        BY <1>4 DEF UserMovesRemote
    <2>2. PICK old \in Content : old = remote[id]
        BY DEF ContentsOK
    <2>3. PICK rev \in Nat : rev = old.rev + 1
        BY DEF Content
    <2>4. PICK content : content = [old EXCEPT !.parent = parent, !.rev = rev]
        OBVIOUS
    <2>5. /\ content \in Content /\ content.type = old.type /\ content.rev = old.rev + 1
          /\ content.parent = parent
        <3>1. content \in Content
            BY <2>1, <2>3, <2>4, EditedContent DEF ParentIds, ContentsOK
        <3> QED
            BY <2>3, <2>4, <3>1 DEF Content
    <2>6. remote' = [remote EXCEPT ![id] = content]
        BY <2>1, <2>2, <2>3, <2>4 DEF Parented, Content
    <2> QED
        BY <2>1, <2>2, <2>5, <2>6, EditsOne
<1>5. CASE UserTrashesRemote \/ UserRestoresRemote \/ UserSendsRemoteAway
    <2>1. PICK id \in DOMAIN remote, status \in {"live", "trashed", "gone"} :
            remote' = Standing(id, status)
        BY <1>5 DEF UserTrashesRemote, UserRestoresRemote, UserSendsRemoteAway, Trashed,
                    Restored, Gone
    <2>2. PICK old \in Content : old = remote[id]
        BY DEF ContentsOK
    <2>3. PICK rev \in Nat : rev = old.rev + 1
        BY DEF Content
    <2>4. PICK content : content = [old EXCEPT !.status = status, !.rev = rev]
        OBVIOUS
    <2>5. /\ content \in Content /\ content.type = old.type /\ content.rev = old.rev + 1
          /\ content.name = old.name /\ content.parent = old.parent
        <3>1. content \in Content
            BY <2>1, <2>3, <2>4, EditedContent DEF ParentIds, ContentsOK
        <3> QED
            BY <2>3, <2>4, <3>1 DEF Content
    <2>6. remote' = [remote EXCEPT ![id] = content]
        BY <2>1, <2>2, <2>3, <2>4 DEF Standing, Content
    <2> QED
        BY <2>2, <2>5, <2>6, EditsOne
<1>6. CASE UNCHANGED remote
    BY <1>6 DEF SpaceEdited, ParentsHold
<1>7. UserCreatesLocal \/ UserWritesLocal \/ UserRenamesLocal \/ UserDeletesLocal
        => UNCHANGED remote
    BY DEF UserCreatesLocal, UserWritesLocal, UserRenamesLocal, UserDeletesLocal, LocalChange,
           RemoteUnchanged
<1> QED
    BY <1>1, <1>2, <1>3, <1>4, <1>5, <1>6, <1>7 DEF UserStep

LEMMA UsersPlain ==
    ASSUME FoldersPlain, UserStep, UNCHANGED disk
    PROVE  FoldersPlain'
<1> SUFFICES \A id \in DOMAIN remote' :
                remote'[id].type = "folder" => remote'[id].bytes = NoBytes
    BY DEF FoldersPlain
<1> USE DEF FoldersPlain
<1>1. CASE UserCreatesRemote
    <2>1. PICK id \in NewIds, name \in Names, parent \in DOMAIN remote \cup {Root},
               type \in {"file", "folder"} :
            remote' = WithContent(id, NewContent(name, parent, type,
                                      IF type = "file" THEN edits + 1 ELSE NoBytes))
        BY <1>1, Zenon DEF UserCreatesRemote, RemoteChange
    <2> QED
        BY <2>1 DEF WithContent, NewContent
<1>2. CASE UserFillsRemote
    BY <1>2 DEF UserFillsRemote, RemoteChange, Filled
<1>3. CASE UserLabelsRemote
    BY <1>3 DEF UserLabelsRemote, RemoteChange, Labelled
<1>4. CASE UserMovesRemote
    BY <1>4 DEF UserMovesRemote, RemoteChange, Parented
<1>5. CASE UserTrashesRemote \/ UserRestoresRemote \/ UserSendsRemoteAway
    <2>1. PICK id \in DOMAIN remote, status \in {"live", "trashed", "gone"} : remote' = Standing(id, status)
        BY <1>5 DEF UserTrashesRemote, UserRestoresRemote, UserSendsRemoteAway, RemoteChange,
           Trashed, Restored, Gone
    <2> QED
        BY <2>1 DEF Standing
<1>6. CASE UNCHANGED remote
    BY <1>6
<1>7. UserCreatesLocal \/ UserWritesLocal \/ UserRenamesLocal \/ UserDeletesLocal
        => UNCHANGED remote
    BY DEF UserCreatesLocal, UserWritesLocal, UserRenamesLocal, UserDeletesLocal, LocalChange,
           RemoteUnchanged
<1> QED
    BY <1>1, <1>2, <1>3, <1>4, <1>5, <1>6, <1>7 DEF UserStep

LEMMA UsersSynchronized ==
    ASSUME StartupInv, Synchronized, Renaming \subseteq {"file"}, UsersAct, UNCHANGED disk
    PROVE  Synchronized'
<1>1. UNCHANGED <<table, ignored, disk>> /\ UserStep
    BY DEF UsersAct, UserActs, store
<1>2. /\ ContentsOK(remote) /\ IsTable(table) /\ edits \in 0..MaxEdits
      /\ \A id \in DOMAIN table : id \in DOMAIN remote /\ table[id].rev <= remote[id].rev
                                    /\ table[id].rev \in Nat /\ remote[id].rev \in Nat
    BY DEF StartupInv, Inv, UsersOK, SidesOK, RevisionNotAhead, IsTable, Row, ContentsOK, Content
<1>3. SpaceEdited
    BY <1>1, <1>2, SpaceEdits DEF Synchronized, Tidy
<1>4. \A id \in DOMAIN remote : remote'[id].type = remote[id].type
    BY <1>3 DEF SpaceEdited
<1>5. ParentsHold'
    BY <1>3, <1>4 DEF SpaceEdited, ParentsHold
<1>6. FoldersStay'
    BY <1>1, <1>2, <1>3 DEF SpaceEdited, Synchronized, Tidy, FoldersStay, FileName
<1>7. ColumnsNested'
    BY <1>1, <1>2, <1>4 DEF Synchronized, Tidy, ColumnsNested, Below
<1>8. Tidy'
    BY <1>1, <1>5, <1>6, <1>7 DEF Synchronized, Tidy, PathsDistinct, IgnoresLocal
<1>9. Matching' /\ Stamped'
    BY <1>1, <1>2, <1>4 DEF Synchronized, Matching, Columns, Typed, Stamped, Stamp
<1>10. AsItWas'
    <2> SUFFICES ASSUME NEW id \in DOMAIN table, table[id].rev = remote'[id].rev
                 PROVE  (Recorded(id) /\ SameBytes(id))'
        BY <1>1 DEF AsItWas
    <2>1. remote'[id].rev # remote[id].rev + 1
        BY <1>2
    <2>2. remote'[id] = remote[id]
        BY <1>2, <1>3, <2>1 DEF SpaceEdited
    <2> QED
        BY <1>1, <2>2 DEF Synchronized, AsItWas, Recorded, FileName, SameBytes
<1>11. FoldersPlain'
    BY <1>1, UsersPlain DEF Synchronized
<1> QED
    BY <1>8, <1>9, <1>10, <1>11 DEF Synchronized

(* Before the first run the State knows the whole space.                   *)
Alike == DOMAIN table = Listed /\ \A id \in Listed : table[id].rev = remote[id].rev

LEMMA NothingRemote ==
    ASSUME Alike
    PROVE  RemoteChanges = {}
BY DEF Alike, RemoteChanges, Appeared, Disappeared

LEMMA StartSynchronized ==
    ASSUME Init
    PROVE  Synchronized /\ Alike
<1>0. IgnoresLocal
    BY DEF Init, IgnoresLocal
<1>1. CASE StartEmpty
    <2>1. DOMAIN remote = {} /\ DOMAIN disk = {} /\ DOMAIN table = {}
        BY <1>1 DEF StartEmpty, Agree, EmptyTable
    <2>2. Listed = {}
        BY <2>1 DEF Listed, Visible
    <2> QED
        BY <1>0, <2>1, <2>2 DEF Synchronized, Alike, Tidy, ParentsHold, FoldersStay, ColumnsNested,
           PathsDistinct, Matching, Columns, Typed, Stamped, AsItWas, FoldersPlain
<1>2. CASE StartNested
    <2> DEFINE any == CHOOSE any \in Names : TRUE
    <2>0. PICK name \in Names, top \in Ids, below \in Ids, entry \in {Folder, File(NoBytes)} :
            /\ top < below
            /\ remote = [id \in {top, below} |->
                            IF id = top THEN NewContent(name, Root, "folder", NoBytes)
                                        ELSE NewContent(name, top, entry.type, NoBytes)]
            /\ disk = [path \in {<<name>>, <<name, name>>} |->
                            IF path = <<name, name>> THEN entry ELSE Folder]
            /\ table = [id \in {top, below} |->
                    IF id = top
                    THEN [path |-> <<name>>, rev |-> 1, parent |-> Root, stamp |-> NoBytes]
                    ELSE [path |-> <<name, name>>, rev |-> 1, parent |-> top, stamp |-> NoBytes]]
        <3>1. any \in Names
            BY OperatorAssumption
        <3>2. \E top \in Ids, below \in Ids, entry \in {Folder, File(NoBytes)} :
                /\ top < below
                /\ remote = [id \in {top, below} |->
                            IF id = top THEN NewContent(any, Root, "folder", NoBytes)
                                        ELSE NewContent(any, top, entry.type, NoBytes)]
                /\ disk = [path \in {<<any>>, <<any, any>>} |->
                            IF path = <<any, any>> THEN entry ELSE Folder]
                /\ table = [id \in {top, below} |->
                    IF id = top
                    THEN [path |-> <<any>>, rev |-> 1, parent |-> Root, stamp |-> NoBytes]
                    ELSE [path |-> <<any, any>>, rev |-> 1, parent |-> top, stamp |-> NoBytes]]
            BY <1>2, Zenon DEF StartNested, Agree
        <3> HIDE DEF any
        <3> QED
            BY <3>1, <3>2
    <2>1. PICK inside : inside = <<name, name>>
        OBVIOUS
    <2>2. /\ <<name>> # inside /\ Len(<<name>>) = 1 /\ Len(inside) = 2 /\ Front(inside) = <<name>>
          /\ Last(inside) = name /\ Last(<<name>>) = name
        <3>1. inside \in Seq(Names) /\ <<name>> \in Seq(Names)
            BY <2>1
        <3>2. Len(<<name>>) = 1 /\ Len(inside) = 2
            BY <2>1
        <3>3. Front(inside) \in Seq(Names) /\ Len(Front(inside)) = 1 /\ Front(inside)[1] = name
            BY <2>1, <3>1, <3>2 DEF Front
        <3>4. Front(inside) = <<name>>
            BY <3>1, <3>2, <3>3, SeqEqual
        <3> QED
            BY <2>1, <3>1, <3>2, <3>4 DEF Last
    <2>3. top # below /\ Root \notin {top, below}
        BY <2>0, RootAssumption, SpaceAssumption
    <2>4. /\ DOMAIN remote = {top, below} /\ DOMAIN table = {top, below}
          /\ DOMAIN disk = {<<name>>, inside}
        BY <2>0, <2>1
    <2>5. /\ table[top].path = <<name>> /\ table[top].parent = Root /\ table[top].rev = 1
          /\ table[top].stamp = NoBytes
          /\ table[below].path = inside /\ table[below].parent = top /\ table[below].rev = 1
          /\ table[below].stamp = NoBytes
        BY <2>0, <2>1, <2>3
    <2>6. /\ remote[top].name = name /\ remote[top].parent = Root /\ remote[top].type = "folder"
          /\ remote[top].rev = 1 /\ remote[top].status = "live"
          /\ remote[top].bytes = NoBytes /\ remote[below].bytes = NoBytes
          /\ remote[below].name = name /\ remote[below].parent = top
          /\ remote[below].type = entry.type
          /\ remote[below].rev = 1 /\ remote[below].status = "live"
        BY <2>0, <2>1, <2>3 DEF NewContent
    <2>7. /\ disk[<<name>>].type = "folder" /\ disk[inside].type = entry.type
          /\ disk[<<name>>].bytes = NoBytes /\ disk[inside].bytes = NoBytes
        BY <2>0, <2>1, <2>2 DEF Folder, File
    <2> HIDE DEF any
    <2>8. Tidy
        BY <1>0, <2>2, <2>3, <2>4, <2>5, <2>6 DEF Tidy, ParentsHold, FoldersStay, ColumnsNested,
           Below, PathsDistinct, FileName
    <2>9. Matching /\ Stamped /\ AsItWas /\ FoldersPlain
        BY <2>2, <2>4, <2>5, <2>6, <2>7
        DEF Matching, Columns, Typed, Stamped, Stamp, AsItWas, Recorded, FileName, SameBytes,
            FoldersPlain
    <2>10. Visible = {top, below} /\ DOMAIN RemoteTable = {top, below}
           /\ RemoteTable[top].parent = Root /\ RemoteTable[below].parent = top
        BY <2>4, <2>6 DEF Visible, Live, RemoteTable
    <2>11. 1 \in 1..Cardinality({top, below}) /\ 2 \in 1..Cardinality({top, below})
        <3>1. IsFiniteSet({top}) /\ Cardinality({top}) = 1 /\ below \notin {top}
            BY <2>3, FS_Singleton
        <3>2. Cardinality({top} \cup {below}) = Cardinality({top}) + 1
            BY <3>1, FS_AddElement
        <3>3. {top} \cup {below} = {top, below}
            OBVIOUS
        <3> QED
            BY <3>1, <3>2, <3>3
    <2>12. HasPath(RemoteTable, top)
        <3>1. <<top>> \in [1..1 -> {top, below}] /\ Len(<<top>>) = 1 /\ <<top>>[1] = top
            OBVIOUS
        <3>2. IsParts(RemoteTable, <<top>>, top)
            BY <2>10, <3>1 DEF IsParts, Last
        <3>3. <<top>> \in Parts(RemoteTable, top)
            BY <2>10, <2>11, <3>1, <3>2 DEF Parts
        <3> QED
            BY <3>3 DEF HasPath
    <2>13. HasPath(RemoteTable, below)
        <3>1. /\ <<top, below>> \in [1..2 -> {top, below}] /\ Len(<<top, below>>) = 2
              /\ <<top, below>>[1] = top /\ <<top, below>>[2] = below
            OBVIOUS
        <3>2. IsParts(RemoteTable, <<top, below>>, below)
            BY <2>10, <3>1 DEF IsParts, Last
        <3>3. <<top, below>> \in Parts(RemoteTable, below)
            BY <2>10, <2>11, <3>1, <3>2 DEF Parts
        <3> QED
            BY <3>3 DEF HasPath
    <2>14. Alike
        BY <2>3, <2>4, <2>5, <2>6, <2>10, <2>12, <2>13 DEF Alike, Listed
    <2> QED
        BY <2>8, <2>9, <2>14 DEF Synchronized
<1> QED
    BY <1>1, <1>2 DEF Init

-------------------------------------------------------------------------------
(* With nothing left to bring, the folder is the space.                    *)
LEMMA FolderIsSpace ==
    ASSUME StartupInv, Good, Complete, job.at = "idle", todo = <<>>, left = <<>>
    PROVE  DiskTree = RemoteTree
<1>1. ~Unfinished /\ Coming = {} /\ Postponed = {}
    BY DEF Unfinished, Coming, Postponed, EventsOf
<1>2. /\ DOMAIN table = Listed /\ \A id \in Listed : Recorded(id) /\ SameBytes(id)
    BY <1>1 DEF Complete, Awaited, Settled, Taken
<1>3. /\ Matching /\ ColumnsNested /\ ParentsHold /\ IsTable(table)
      /\ \A id \in DOMAIN remote : remote[id].type \in {"file", "folder"}
    BY DEF Good, HandOK, Tidy, StartupInv, Inv, UsersOK, SidesOK, ContentsOK, Content
<1>4. \A id : id \in Listed <=> id \in Visible /\ HasPath(RemoteTable, id)
    BY <1>3, RootAssumption DEF Listed, ParentsHold, Visible
<1>5. ASSUME NEW id \in Listed
      PROVE  PathOf(RemoteTable, id) = table[id].path
    <2> DEFINE parts == CHOOSE parts \in Parts(RemoteTable, id) : TRUE
    <2>1. /\ parts \in Parts(RemoteTable, id)
          /\ PathOf(RemoteTable, id) = [k \in 1..Len(parts) |-> FileName(RemoteTable, parts[k])]
        BY <1>5 DEF Listed, HasPath, PathOf
    <2> HIDE DEF parts
    <2>2. PICK n \in Nat \ {0} :
            /\ Len(parts) = n /\ parts \in [1..n -> Visible] /\ IsParts(RemoteTable, parts, id)
        BY <2>1, PartsRemote DEF StartupInv
    <2>3. \A k \in 1..n : RemoteTable[parts[k]].parent = remote[parts[k]].parent
                         /\ FileName(RemoteTable, parts[k]) = remote[parts[k]].name
        BY <2>2 DEF RemoteTable, FileName, Last
    <2> DEFINE S == {m \in Nat : m < n => parts[n - m] \in Listed}
    <2>4. 0 \in S
        BY <1>5, <2>2 DEF IsParts, Last
    <2>5. ASSUME NEW m \in Nat, m \in S PROVE m + 1 \in S
        <3>1. SUFFICES ASSUME m + 1 < n PROVE parts[n - (m + 1)] \in Listed
            OBVIOUS
        <3>2. n - m \in 2..n /\ (n - m) - 1 = n - (m + 1) /\ n - (m + 1) \in 1..n /\ m < n
            BY <3>1
        <3>3. parts[n - m] \in Listed
            BY <2>5, <3>2
        <3>4. remote[parts[n - m]].parent = parts[n - (m + 1)] /\ parts[n - (m + 1)] \in Visible
            BY <2>2, <2>3, <3>2 DEF IsParts
        <3>5. parts[n - (m + 1)] # Root
            BY <3>4, RootAssumption DEF Visible, StartupInv, Inv, UsersOK, SidesOK, ContentsOK
        <3> QED
            BY <1>3, <3>3, <3>4, <3>5, ListedParent DEF StartupInv
    <2>6. Nat \subseteq S
        <3> HIDE DEF S
        <3> QED
            BY <2>4, <2>5, ByInduction
    <2>7. \A k \in 1..n : parts[k] \in Listed
        <3>1. \A k \in 1..n : n - k \in Nat /\ n - k < n /\ n - (n - k) = k
            OBVIOUS
        <3> QED
            BY <2>6, <3>1
    <2>8. parts \in Seq(DOMAIN table)
        BY <1>2, <2>2, <2>7
    <2>9. IsParts(table, parts, id)
        <3>1. \A k \in 1..n : table[parts[k]].parent = RemoteTable[parts[k]].parent
            BY <1>2, <2>3, <2>7 DEF Recorded
        <3>2. Last(parts) = id /\ 1 \in 1..n /\ RemoteTable[parts[1]].parent = Root
            BY <2>2 DEF IsParts
        <3>3. \A k \in 2..Len(parts) : k \in 1..n /\ RemoteTable[parts[k]].parent = parts[k - 1]
            BY <2>2 DEF IsParts
        <3> QED
            BY <3>1, <3>2, <3>3 DEF IsParts
    <2>10. table[id].path = [k \in 1..n |-> FileName(table, parts[k])]
        BY <1>3, <2>2, <2>8, <2>9, ColumnOfParts
    <2>11. \A k \in 1..n : FileName(table, parts[k]) = FileName(RemoteTable, parts[k])
        BY <1>2, <2>3, <2>7 DEF Recorded
    <2> QED
        BY <2>1, <2>2, <2>10, <2>11
<1>6. ASSUME NEW id \in Listed
      PROVE  /\ table[id].path \in DOMAIN disk
             /\ disk[table[id].path].type = remote[id].type
             /\ disk[table[id].path].bytes = remote[id].bytes
    <2>1. table[id].path \in DOMAIN disk /\ disk[table[id].path].type = remote[id].type
        BY <1>2, <1>3 DEF Matching, Columns, Typed
    <2>2. id \in DOMAIN remote
        BY DEF Listed, Visible
    <2> QED
        BY <1>2, <1>3, <2>1, <2>2 DEF SameBytes, Complete, FoldersPlain
<1>7. \A path \in DOMAIN disk : \E id \in Listed : path = table[id].path
    BY <1>2, <1>3 DEF Matching, Columns
<1>8. RemoteTree = {[path |-> table[id].path, type |-> remote[id].type,
                     bytes |-> remote[id].bytes] : id \in Listed}
    BY <1>4, <1>5 DEF RemoteTree
<1> QED
    BY <1>6, <1>7, <1>8 DEF DiskTree

-------------------------------------------------------------------------------
(* The first run, after users worked on one side.                          *)
FetchedAll ==
    DiskTree = RemoteTree /\ Tidy /\ todo = <<>> /\ left = <<>> /\ job.at = "idle"

SpaceOnly ==
    side = "remote" =>
        /\ runs = 0 \/ (runs = 1 /\ phase = "listing") => Synchronized
        /\ runs = 1 /\ phase = "scanning" => Synchronized /\ FoundWell
        /\ runs = 1 /\ phase \in {"asking", "remote"} =>
               locally = <<>> /\ (Broke \/ (Good /\ Complete))
        /\ runs = 1 /\ phase = "local" => FetchedAll

FolderOnly ==
    side = "local" =>
        /\ runs = 0 \/ (runs = 1 /\ phase = "listing") => Alike
        /\ runs = 1 /\ phase \in {"scanning", "asking", "remote"} =>
               unresolved = {} /\ todo = <<>> /\ left = <<>> /\ job.at = "idle"

OneSide == side \in {"local", "remote"} /\ (runs = 0 => phase = "off")

FirstRun == OneSide /\ LocalPassOK /\ SpaceOnly /\ FolderOnly

LEMMA SynchronizedKept ==
    ASSUME Synchronized, UNCHANGED <<table, ignored, remote, disk>>
    PROVE  Synchronized'
<1>1. Tidy'
    BY TidyKept DEF Synchronized, Tidy, IgnoresLocal
<1> QED
    BY <1>1 DEF Synchronized, Matching, Columns, Typed, Stamped, Stamp, AsItWas, Recorded,
       FileName, SameBytes, FoldersPlain

LEMMA FoundKept ==
    ASSUME FoundWell, UNCHANGED <<table, remote, unresolved>>
    PROVE  FoundWell'
<1>1. Listed' = Listed /\ Found' = Found
    BY ListedKept DEF Found
<1> QED
    BY <1>1 DEF FoundWell, InPlan, Covered, Seen

LEMMA FetchedKept ==
    ASSUME FetchedAll, UNCHANGED <<table, ignored, todo, left, job, remote, disk>>
    PROVE  FetchedAll'
<1>1. RemoteTable' = RemoteTable /\ Visible' = Visible /\ DiskTree' = DiskTree
    BY DEF RemoteTable, Visible, Live, DiskTree
<1>2. \A id : /\ HasPath(RemoteTable, id)' = HasPath(RemoteTable, id)
              /\ PathOf(RemoteTable, id)' = PathOf(RemoteTable, id)
    BY <1>1
<1>3. RemoteTree' = RemoteTree
    BY <1>1, <1>2 DEF RemoteTree
<1>4. Tidy'
    BY TidyKept DEF FetchedAll, Tidy, IgnoresLocal
<1> QED
    BY <1>1, <1>3, <1>4 DEF FetchedAll

(* Nothing but a start happens before a run. *)
LEMMA BeforeRuns ==
    ASSUME StartupInv, OneSide, runs = 0, [RecoveryNext]_mvars
    PROVE  Start \/ OfflineUsers \/ UNCHANGED mvars
<1>1. phase = "off" /\ job.at = "idle" /\ hearing = {}
    BY DEF OneSide, StartupInv, PhaseOK, Idle
<1>2. ~Work
    BY <1>1, WorkInHand DEF Work
<1>3. ~StreamOpens /\ ~WatchOpens
    BY <1>1 DEF StreamOpens, WatchOpens, Opens
<1> QED
    BY <1>1, <1>2, <1>3
    DEF RecoveryNext, RunStep, StartupStep, List, Scan, Confirm, Operate, Postpone,
       MissesParent, NextPass, GiveUp, PassOver, TurnLocal, GoLive, LiveStep, Decline,
       EndWithError, Failed, Crash

(* The passes on what the space told never give up. *)
LEMMA NeverGiveUp ==
    ASSUME StartupInv, FirstRun, runs <= 1, phase = "remote"
    PROVE  ~GiveUp
<1>1. runs = 1
    BY StartupAssumption DEF FirstRun, OneSide, StartupInv, PhaseOK
<1>2. CASE side = "remote"
    <2>1. Broke \/ Good
        BY <1>1, <1>2 DEF FirstRun, SpaceOnly
    <2>2. Broke => ~GiveUp
        BY DEF Broke, GiveUp, PassOver
    <2>3. Good => ~GiveUp
        BY PassFruitful DEF Good
    <2> QED
        BY <2>1, <2>2, <2>3
<1>3. CASE side = "local"
    BY <1>1, <1>3 DEF FirstRun, FolderOnly, GiveUp
<1> QED
    BY <1>2, <1>3 DEF FirstRun, OneSide

(* A step of the first run, on what users did in the space. *)
LEMMA SpaceRunStep ==
    ASSUME StartupInv, RecordsOK, FirstRun, runs = 1, RunStep \/ Crash, UNCHANGED side
    PROVE  SpaceOnly'
<1> SUFFICES ASSUME side = "remote"
             PROVE  /\ runs' # 0
                    /\ runs' = 1 /\ phase' = "listing" => Synchronized'
                    /\ runs' = 1 /\ phase' = "scanning" => Synchronized' /\ FoundWell'
                    /\ runs' = 1 /\ phase' \in {"asking", "remote"} =>
                           locally' = <<>> /\ (Broke' \/ (Good' /\ Complete'))
                    /\ runs' = 1 /\ phase' = "local" => FetchedAll'
    BY DEF SpaceOnly
<1>1. CASE Start
    BY <1>1 DEF Start
<1>2. CASE Scan
    <2>1. phase = "scanning" /\ phase' \in {"live", "asking"} /\ runs' = 1
        BY <1>2 DEF Scan
    <2>2. Synchronized /\ FoundWell
        BY <2>1 DEF FirstRun, SpaceOnly
    <2> QED
        BY <1>2, <2>1, <2>2, ScanWell
<1>3. CASE Decline \/ EndWithError \/ Crash \/ GoLive
    BY <1>3 DEF Decline, EndWithError, Crash, Over, GoLive
<1>4. CASE TurnLocal
    <2>1. /\ phase = "remote" /\ phase' = "local" /\ UNCHANGED <<vars, runs>>
          /\ todo = <<>> /\ left = <<>> /\ job.at = "idle" /\ Pass(locally)
        BY <1>4 DEF TurnLocal, PassOver
    <2>2. locally = <<>> /\ Good /\ Complete
        BY <2>1 DEF FirstRun, SpaceOnly, Broke
    <2>3. UNCHANGED <<table, ignored, job, remote, disk, todo, left>>
        BY <2>1, <2>2 DEF Pass, vars
    <2>4. FetchedAll
        BY <2>1, <2>2, FolderIsSpace DEF FetchedAll, Good
    <2> QED
        BY <2>1, <2>3, <2>4, FetchedKept
<1>5. CASE phase \in {"asking", "remote"} /\ (Confirm \/ Operate \/ Postpone \/ NextPass \/ GiveUp \/ Work)
    <2>1. runs' = 1 /\ phase' \in {"asking", "remote"} /\ locally' = locally
        BY <1>5 DEF Confirm, Operate, Postpone, NextPass, GiveUp, Work, plan
    <2>2. locally = <<>> /\ (Broke \/ (Good /\ Complete))
        BY <1>5 DEF FirstRun, SpaceOnly
    <2>3. (Good /\ Complete) \/ (Broke /\ job.at = "failed" /\ ~MissesParent)
        BY <2>2 DEF Broke, MissesParent
    <2>4. ASSUME Good, Complete, Confirm \/ Operate \/ Postpone \/ NextPass
          PROVE  Broke' \/ (Good' /\ Complete')
        <3>1. Broke' \/ Good'
            BY <2>4, PassWell, OperateWell, PostponeWell DEF Good
        <3> QED
            BY <2>4, <3>1, PassComplete
    <2>5. CASE Confirm \/ Operate \/ Postpone \/ NextPass
        <3>1. job.at = "idle" \/ MissesParent
            BY <2>5, IdleAt DEF Confirm, NextPass, Operate, Receive, Postpone
        <3> QED
            BY <2>1, <2>2, <2>3, <2>4, <2>5, <3>1
    <2>6. CASE GiveUp
        <3>1. phase = "remote"
            BY <1>5, <2>6 DEF GiveUp, PassOver
        <3> QED
            BY <2>6, <3>1, NeverGiveUp
    <2>7. CASE Work
        <3>1. job.at # "failed"
            BY <2>7, WorkErrors DEF Work, StartupInv, RecordsOK
        <3>2. Good /\ Complete /\ Well
            BY <2>3, <3>1 DEF Good, Well
        <3>3. ~UploadStep
            BY <3>2, NoUploadWell DEF StartupInv, RecordsOK
        <3>4. UNCHANGED <<phase, plan>> /\ (DownloadStep \/ ApplyChange)
            BY <2>7, <3>3 DEF Work
        <3>5. Broke' \/ Good'
            BY <3>2, <3>4, DownloadKeepsPlan, ApplyKeepsPlan DEF Good
        <3>6. Broke' \/ Complete'
            BY <3>2, <3>4, DownloadKeepsComplete, ApplyKeepsComplete
        <3> QED
            BY <2>1, <2>2, <3>5, <3>6
    <2> QED
        BY <1>5, <2>5, <2>6, <2>7
<1>6. CASE phase \notin {"asking", "remote"} /\ (Confirm \/ Operate \/ Postpone \/ NextPass \/ GiveUp \/ Work)
    <2>1. Work => phase \notin {"listing", "scanning"} /\ job.at # "idle"
        BY WorkInHand DEF Work, StartupInv, PhaseOK, Idle
    <2>2. runs' = 1 /\ phase' = phase /\ phase \notin {"listing", "scanning"}
        BY <1>6, <2>1 DEF Confirm, Operate, Postpone, MissesParent, NextPass, GiveUp, PassOver, Work
    <2>3. phase # "local"
        <3>1. phase = "local" => todo = <<>> /\ left = <<>> /\ job.at = "idle"
            BY DEF FirstRun, SpaceOnly, FetchedAll
        <3> QED
            BY <1>6, <2>1, <3>1 DEF Confirm, Operate, Postpone, MissesParent, NextPass, GiveUp
    <2> QED
        BY <1>6, <2>2, <2>3
<1>7. CASE (LiveStep /\ UNCHANGED <<phase, plan, runs>>) \/ StreamOpens \/ WatchOpens
    <2>1. CASE phase = "live"
        BY <1>7, <2>1 DEF StreamOpens, WatchOpens, Opens
    <2>2. CASE WatchLeft \/ StreamOpens \/ WatchOpens
        <3>1. UNCHANGED <<table, ignored, job, remote, disk>>
            BY <2>2 DEF WatchLeft, StreamOpens, WatchOpens, Opens, store
        <3>2. UNCHANGED <<phase, runs, unresolved, todo, current, left, size, locally>>
            BY <1>7 DEF StreamOpens, WatchOpens, Opens, plan
        <3>3. Broke => Broke'
            BY <3>1 DEF Broke
        <3>4. Synchronized => Synchronized'
            BY <3>1, SynchronizedKept
        <3>5. FoundWell => FoundWell'
            BY <3>1, <3>2, FoundKept
        <3>6. Good /\ Complete => Good' /\ Complete'
            BY <3>1, <3>2, GoodKept
        <3>7. FetchedAll => FetchedAll'
            BY <3>1, <3>2, FetchedKept
        <3> QED
            BY <3>2, <3>3, <3>4, <3>5, <3>6, <3>7 DEF FirstRun, SpaceOnly
    <2> QED
        BY <1>7, <2>1, <2>2 DEF LiveStep
<1>8. CASE List
    <2>1. /\ phase = "listing" /\ phase' = "scanning" /\ runs' = 1
          /\ UNCHANGED <<table, ignored, remote, disk>>
        BY <1>8 DEF List, vars
    <2>2. Synchronized
        BY <2>1 DEF FirstRun, SpaceOnly
    <2> QED
        BY <1>8, <2>1, <2>2, SynchronizedKept, ListWell DEF Synchronized
<1> QED
    BY <1>1, <1>2, <1>3, <1>4, <1>5, <1>6, <1>7, <1>8 DEF RunStep, StartupStep

(* A step of the first run, on what users did in the folder. *)
LEMMA FolderRunStep ==
    ASSUME StartupInv, RecordsOK, FolderOnly, runs = 1, RunStep \/ Crash, UNCHANGED side
    PROVE  FolderOnly'
<1> SUFFICES ASSUME side = "local"
             PROVE  /\ runs' # 0
                    /\ runs' = 1 /\ phase' = "listing" => Alike'
                    /\ runs' = 1 /\ phase' \in {"scanning", "asking", "remote"} =>
                          unresolved' = {} /\ todo' = <<>> /\ left' = <<>> /\ job'.at = "idle"
    BY DEF FolderOnly
<1>1. CASE Start
    BY <1>1 DEF Start
<1>2. CASE Scan
    <2>1. /\ phase = "scanning" /\ unresolved = {} /\ left = <<>> /\ job.at = "idle"
          /\ runs' = runs /\ unresolved' = {} /\ UNCHANGED <<left, job>>
          /\ todo' \in Ordered(KeptRemote(unresolved, locally'))
        BY <1>2 DEF Scan, vars, FolderOnly
    <2>2. todo' \in SetToSeqs({})
        BY <2>1 DEF Ordered, KeptRemote
    <2>3. IsFiniteSet({}) /\ Cardinality({}) = 0
        BY FS_EmptySet
    <2>4. todo' \in Seq({}) /\ DOMAIN todo' = 1..0
        BY <2>2, <2>3, OrderType
    <2>5. todo' = <<>> /\ phase' # "listing" /\ runs' # 0
        BY <1>2, <2>1, <2>4 DEF Scan
    <2> QED
        BY <2>1, <2>5
<1>3. CASE Decline \/ EndWithError \/ Crash \/ GoLive \/ TurnLocal
    BY <1>3 DEF Decline, EndWithError, Crash, Over, GoLive, TurnLocal
<1>4. CASE Confirm
    BY <1>4 DEF Confirm, Pass, vars, FolderOnly
<1>5. CASE Operate \/ Postpone \/ NextPass \/ GiveUp \/ Work
    <2>1. phase' = phase /\ runs' = runs
        BY <1>5 DEF Operate, Postpone, NextPass, GiveUp, Work
    <2>2. phase \notin {"scanning", "asking", "remote"}
        BY <1>5, WorkInHand DEF Operate, Postpone, MissesParent, NextPass, GiveUp, Work,
           FolderOnly
    <2>3. phase # "listing"
        <3>1. Work => job.at # "idle"
            BY WorkInHand DEF Work
        <3>2. phase = "listing" => job.at = "idle"
            BY DEF StartupInv, PhaseOK, Idle
        <3> QED
            BY <1>5, <3>1, <3>2 DEF Operate, Postpone, MissesParent, NextPass, GiveUp, PassOver
    <2> QED
        BY <2>1, <2>2, <2>3
<1>6. CASE (LiveStep /\ UNCHANGED <<phase, plan, runs>>) \/ StreamOpens \/ WatchOpens
    <2>1. phase = "live" \/ UNCHANGED <<table, job, remote>>
        BY <1>6 DEF LiveStep, WatchLeft, StreamOpens, WatchOpens, Opens, store
    <2>2. UNCHANGED <<phase, runs, unresolved, todo, left>>
        BY <1>6 DEF StreamOpens, WatchOpens, Opens, plan
    <2> QED
        BY <2>1, <2>2, ListedKept DEF FolderOnly, Alike
<1>7. CASE List
    <2>1. /\ phase = "listing" /\ phase' = "scanning" /\ runs' = runs
          /\ UNCHANGED <<job, todo, left>> /\ unresolved' = RemoteChanges
        BY <1>7 DEF List, vars
    <2>2. Alike /\ job.at = "idle" /\ todo = <<>> /\ left = <<>>
        BY <2>1 DEF FolderOnly, StartupInv, PhaseOK, Passing, Idle
    <2> QED
        BY <2>1, <2>2, NothingRemote
<1> QED
    BY <1>1, <1>2, <1>3, <1>4, <1>5, <1>6, <1>7 DEF RunStep, StartupStep

LEMMA FolderOnlyStep ==
    ASSUME StartupInv, RecordsOK, OneSide, FolderOnly, [RecoveryNext]_mvars
    PROVE  OneSide' /\ FolderOnly'
<1>1. side' = side
    BY DEF RecoveryNext, mvars
<1>2. runs \in Nat
    BY StartupAssumption DEF StartupInv, PhaseOK
<1>3. CASE UNCHANGED mvars
    <2>1. UNCHANGED <<table, remote, job, phase, runs, unresolved, todo, left>>
        BY <1>3 DEF mvars, svars, vars, plan
    <2>2. Alike => Alike'
        BY <2>1, ListedKept DEF Alike
    <2> QED
        BY <1>1, <2>1, <2>2 DEF OneSide, FolderOnly
<1>4. CASE runs = 0 /\ Start
    <2>1. UNCHANGED <<table, remote>> /\ runs' = 1 /\ phase' = "listing"
        BY <1>4 DEF Start, store
    <2> QED
        BY <1>1, <1>4, <2>1, ListedKept DEF OneSide, FolderOnly, Alike
<1>5. CASE OfflineUsers
    <2>1. UNCHANGED <<phase, runs, table>> /\ runs = 0
        BY <1>5 DEF OfflineUsers, UsersAct, UserActs, store
    <2>2. side = "local" => UNCHANGED remote
        BY <1>5 DEF OfflineUsers, RemoteUnchanged
    <2> QED
        BY <1>1, <2>1, <2>2, ListedKept DEF OneSide, FolderOnly, Alike
<1>6. CASE runs # 0 /\ (RunStep \/ Crash)
    <2>1. runs' = runs \/ runs' = runs + 1
        BY <1>6 DEF RunStep, StartupStep, Start, StreamOpens, WatchOpens,
           Opens, List, Scan, Confirm, Decline, Operate, Postpone,
           NextPass, GiveUp, TurnLocal, GoLive, EndWithError, Crash, Over, Work
    <2>2. CASE runs = 1
        BY <1>1, <1>2, <1>6, <2>1, <2>2, FolderRunStep DEF OneSide
    <2>3. CASE runs # 1
        BY <1>1, <1>2, <1>6, <2>1, <2>3 DEF OneSide, FolderOnly
    <2> QED
        BY <2>2, <2>3
<1>7. runs = 0 => Start \/ OfflineUsers \/ UNCHANGED mvars
    BY BeforeRuns
<1> QED
    BY <1>3, <1>4, <1>5, <1>6, <1>7 DEF RecoveryNext

LEMMA FirstRunStep ==
    ASSUME StartupInv, RecordsOK, FirstRun, Renaming \subseteq {"file"}, [RecoveryNext]_mvars
    PROVE  FirstRun'
<1>1. [StartupNext]_svars /\ side' = side
    BY DEF RecoveryNext, OfflineUsers, StartupNext, mvars
<1>2. runs \in Nat
    BY StartupAssumption DEF StartupInv, PhaseOK
<1>3. LocalPassOK'
    BY <1>1, LocalPassStep, NeverGiveUp DEF FirstRun
<1>4. OneSide' /\ FolderOnly'
    BY FolderOnlyStep DEF FirstRun
<1>5. SpaceOnly'
    <2>1. CASE UNCHANGED mvars
        <3>1. UNCHANGED <<table, ignored, job, remote, disk>>
              /\ UNCHANGED <<phase, runs, side, unresolved, todo, current, left, size, locally>>
            BY <2>1 DEF mvars, svars, vars, plan
        <3>2. Broke => Broke'
            BY <3>1 DEF Broke
        <3>3. (Synchronized => Synchronized') /\ (FoundWell => FoundWell')
            BY <3>1, SynchronizedKept, FoundKept
        <3>4. (Good /\ Complete => Good' /\ Complete') /\ (FetchedAll => FetchedAll')
            BY <3>1, GoodKept, FetchedKept
        <3> QED
            BY <3>1, <3>2, <3>3, <3>4 DEF FirstRun, SpaceOnly
    <2>2. CASE runs = 0 /\ Start
        <3>1. UNCHANGED <<table, ignored, remote, disk>> /\ runs' = 1 /\ phase' = "listing"
            BY <2>2 DEF Start, store
        <3> QED
            BY <1>1, <2>2, <3>1, SynchronizedKept DEF FirstRun, SpaceOnly
    <2>3. CASE OfflineUsers
        <3>1. UsersAct /\ UNCHANGED <<phase, runs, table>> /\ runs = 0
            BY <2>3 DEF OfflineUsers, UsersAct, UserActs, store
        <3>2. side = "remote" => UNCHANGED disk
            BY <2>3 DEF OfflineUsers, DiskUnchanged
        <3> QED
            BY <1>1, <3>1, <3>2, UsersSynchronized DEF FirstRun, SpaceOnly
    <2>4. CASE runs # 0 /\ (RunStep \/ Crash)
        <3>1. runs' = runs \/ runs' = runs + 1
            BY <2>4 DEF RunStep, StartupStep, Start, StreamOpens, WatchOpens,
           Opens, List, Scan, Confirm, Decline, Operate, Postpone,
               NextPass, GiveUp, TurnLocal, GoLive, EndWithError, Crash, Over, Work
        <3>2. CASE runs = 1
            BY <1>1, <2>4, <3>2, SpaceRunStep
        <3>3. CASE runs # 1
            BY <1>1, <1>2, <2>4, <3>1, <3>3 DEF SpaceOnly
        <3> QED
            BY <3>2, <3>3
    <2>5. runs = 0 => Start \/ OfflineUsers \/ UNCHANGED mvars
        BY BeforeRuns DEF FirstRun
    <2> QED
        BY <2>1, <2>2, <2>3, <2>4, <2>5 DEF RecoveryNext
<1> QED
    BY <1>3, <1>4, <1>5 DEF FirstRun

LEMMA FirstRunStart ==
    ASSUME RecoveryInit
    PROVE  FirstRun
<1>1. Synchronized /\ Alike
    BY StartSynchronized DEF RecoveryInit, StartupInit
<1>2. LocalPassOK
    BY DEF RecoveryInit, StartupInit, Init, Idle, LocalPassOK, ErrorFresh, FromDisk, EventsOf
<1> QED
    BY <1>1, <1>2 DEF RecoveryInit, StartupInit, FirstRun, OneSide, SpaceOnly, FolderOnly

LEMMA RecoveryInvariance ==
    ASSUME Renaming \subseteq {"file"}
    PROVE  RecoverySpec => [](StartupInv /\ FirstRun)
<1>1. RecoveryInit => StartupInv /\ RecordsOK /\ FirstRun
    BY StartupInitInv, StartupInitRecords, FirstRunStart DEF RecoveryInit
<1>2. StartupInv /\ RecordsOK /\ FirstRun /\ [RecoveryNext]_mvars
        => (StartupInv /\ RecordsOK /\ FirstRun)'
    <2>1. [RecoveryNext]_mvars => [StartupNext]_svars
        BY DEF RecoveryNext, OfflineUsers, StartupNext, mvars
    <2> QED
        BY <2>1, StartupNextInv, StartupRecords, FirstRunStep DEF RecordsWell
<1> QED
    BY <1>1, <1>2, PTL DEF RecoverySpec

(* What the space told is added in as many passes as the parents take, in  *)
(* whatever order the hash map gives it: a pass that postpones something   *)
(* has recorded a folder, for nothing is taken for an attachment, nothing  *)
(* forgotten takes along what is still in the space, and an event whose    *)
(* parent is unknown has that parent in the same plan.  So the run does    *)
(* not end with MissingParents (OperateChanges::operate of run2.rs), as    *)
(* long as users rename and move files only, on one side.                  *)
THEOREM NoOrphansInFirstRun ==
    ASSUME Renaming \subseteq {"file"}
    PROVE  RecoverySpec => []NoOrphans
<1>1. StartupInv /\ FirstRun => NoOrphans
    BY StartupAssumption DEF StartupInv, PhaseOK, FirstRun, LocalPassOK, NoOrphans
<1> QED
    BY <1>1, RecoveryInvariance, PTL

(* When the changes of the space are worked on and none of them ended the  *)
(* first run, the folder holds what the space does (RemoteSync::changes of *)
(* sync/remote.rs, OperateChanges::operate of run2.rs and the executors):  *)
(* each content of the space is in the plan still, or recorded as it is    *)
(* now and its bytes on disk, whatever order the passes take.              *)
THEOREM SpaceFetchedInFirstRun ==
    ASSUME Renaming \subseteq {"file"}
    PROVE  RecoverySpec => []SpaceFetched
<1>1. StartupInv /\ FirstRun => SpaceFetched
    BY DEF FirstRun, SpaceOnly, FetchedAll, SpaceFetched
<1> QED
    BY <1>1, RecoveryInvariance, PTL

(* Meanwhile each content of the State is found under the path that the    *)
(* chain of its parents gives it (get_relative_path and update of          *)
(* state/disk.rs), whose column no rename of a folder has left behind.     *)
THEOREM ColumnsFreshInFirstRun ==
    ASSUME Renaming \subseteq {"file"}
    PROVE  RecoverySpec =>
             [](side = "remote" /\ runs <= 1 /\ phase \notin {"off", "live"} /\ ~Failed
                    => ColumnsFresh)
<1>1. ASSUME StartupInv, Tidy
      PROVE  ColumnsFresh
    <2>1. IsTable(table) /\ ColumnsNested /\ PathsDistinct(table)
        BY <1>1 DEF StartupInv, Inv, Tidy
    <2>2. ASSUME NEW id \in DOMAIN table, HasPath(table, id)
          PROVE  ContentIdForPath(table, PathOf(table, id)) = id
        <3>1. PathOf(table, id) = table[id].path
            BY <2>1, <2>2, PathIsColumn
        <3>2. \A other \in DOMAIN table : table[other].path = table[id].path => other = id
            BY <2>1 DEF PathsDistinct
        <3> QED
            BY <3>1, <3>2 DEF ContentIdForPath
    <2> QED
        BY <2>2 DEF ColumnsFresh
<1>2. ASSUME StartupInv, FirstRun, side = "remote", runs <= 1, phase \notin {"off", "live"},
             ~Failed
      PROVE  Tidy
    <2>1. runs = 1 /\ phase \in {"listing", "scanning", "asking", "remote", "local"}
        BY <1>2, StartupAssumption DEF StartupInv, PhaseOK, FirstRun, OneSide, Phases
    <2>2. phase \in {"asking", "remote"} => ~Broke
        BY <1>2 DEF Failed, MissesParent, Broke
    <2> QED
        BY <1>2, <2>1, <2>2 DEF FirstRun, SpaceOnly, FetchedAll, Synchronized, Good
<1> QED
    BY <1>1, <1>2, RecoveryInvariance, PTL

(* The first run, after whatever users did in the folder. *)
FolderRun == OneSide /\ FolderOnly /\ (side = "local" => LocalPassOK)

LEMMA FolderRunInvariance == RecoverySpec => [](StartupInv /\ FolderRun)
<1>1. RecoveryInit => StartupInv /\ RecordsOK /\ FolderRun
    BY StartupInitInv, StartupInitRecords, FirstRunStart DEF RecoveryInit, FirstRun, FolderRun
<1>2. StartupInv /\ RecordsOK /\ FolderRun /\ [RecoveryNext]_mvars
        => (StartupInv /\ RecordsOK /\ FolderRun)'
    <2> SUFFICES ASSUME StartupInv, RecordsOK, FolderRun, [RecoveryNext]_mvars
                 PROVE  (StartupInv /\ RecordsOK /\ FolderRun)'
        OBVIOUS
    <2>1. [StartupNext]_svars /\ side' = side
        BY DEF RecoveryNext, OfflineUsers, StartupNext, mvars
    <2>2. StartupInv' /\ RecordsOK'
        BY <2>1, StartupNextInv, StartupRecords DEF RecordsWell
    <2>3. OneSide' /\ FolderOnly'
        BY FolderOnlyStep DEF FolderRun
    <2>4. ASSUME side = "local"
          PROVE  LocalPassOK'
        <3>1. runs <= 1 /\ phase = "remote" => ~GiveUp
            BY <2>4, StartupAssumption DEF FolderRun, FolderOnly, OneSide, StartupInv, PhaseOK, GiveUp
        <3> QED
            BY <2>1, <2>4, <3>1, LocalPassStep DEF FolderRun
    <2> QED
        BY <2>1, <2>2, <2>3, <2>4 DEF FolderRun
<1> QED
    BY <1>1, <1>2, PTL DEF RecoverySpec

(* Whatever users renamed, moved, wrote or removed in the folder, and      *)
(* whatever call fails on the way, the first run writes nothing there      *)
(* until it turns to live events: nothing comes from the space, and no     *)
(* executor of an upload touches the disk (OperateChanges of run2.rs).     *)
THEOREM FolderKeptInFirstRun ==
    RecoverySpec =>
        [][side = "local" /\ runs <= 1 /\ phase # "live" /\ RunStep => UNCHANGED disk]_mvars
<1>1. StartupInv /\ FolderRun =>
        [side = "local" /\ runs <= 1 /\ phase # "live" /\ RunStep => UNCHANGED disk]_mvars
    <2> SUFFICES ASSUME StartupInv, FolderRun, side = "local", runs <= 1, phase # "live", RunStep
                 PROVE  UNCHANGED disk
        OBVIOUS
    <2>1. CASE List \/ Scan \/ Confirm \/ NextPass \/ TurnLocal \/ GoLive
        BY <2>1 DEF List, Scan, Confirm, NextPass, TurnLocal, GoLive, vars
    <2>2. CASE Start \/ StreamOpens \/ WatchOpens \/ Decline \/ Postpone \/ GiveUp \/ EndWithError
        BY <2>2 DEF Start, StreamOpens, WatchOpens, Opens, Decline, Postpone, GiveUp,
                    EndWithError, Over, world
    <2>3. CASE Operate
        BY <2>3 DEF Operate, Receive
    <2>4. CASE LiveStep
        BY <2>4 DEF LiveStep, WatchLeft
    <2>5. CASE UploadStep
        BY <2>5 DEF UploadStep, FetchAbsent, TrashAbsent, CreateContent, FindExisting,
           CompareExisting, FillContent, GetCreated, GetModified, GetContent, StatContent,
           UploadModified, StatModified, SetLabel, SetParent, SetParentAgain, SetParentAt,
           FindHomonym, TrashHomonym, StatNamed, Sys, Stat, world
    <2>6. CASE ApplyChange
        BY <2>6 DEF ApplyChange, world
    <2>7. ~DownloadStep
        <3> SUFFICES ASSUME DownloadStep PROVE FALSE
            OBVIOUS
        <3>1. job.at # "idle"
            BY WorkInHand
        <3>2. job.at \in Working /\ Head(job.todo).ex \in Downloads
            BY DEF DownloadStep, AbsentFromDisk, FetchCreated, FetchUpdated, WriteCreated,
               FillCreated, StatCreated, MoveUpdated, FillUpdated, StatUpdated, At, Working,
               Downloads
        <3>3. phase \notin {"off", "listing", "scanning", "asking"}
            BY <3>1 DEF StartupInv, PhaseOK, Idle
        <3>4. runs = 1 /\ phase = "local"
            BY <3>1, <3>3, StartupAssumption
            DEF FolderRun, FolderOnly, OneSide, StartupInv, PhaseOK, Phases
        <3> QED
            BY <3>2, <3>4 DEF FolderRun, LocalPassOK
    <2> QED
        BY <2>1, <2>2, <2>3, <2>4, <2>5, <2>6, <2>7 DEF RunStep, StartupStep, Work
<1> QED
    BY <1>1, FolderRunInvariance, PTL

===============================================================================
