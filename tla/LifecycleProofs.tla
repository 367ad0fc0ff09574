--------------------------- MODULE LifecycleProofs ---------------------------
(***************************************************************************)
(* The exchanges of a run with its user and its daemon, for any number of  *)
(* contents, changes and troubles: what is asked is shown and answered     *)
(* once, what is ignored stays ignored, what is told is true, and the whole *)
(* implements the safety parts of Question and SpaceRun.                   *)
(***************************************************************************)
EXTENDS Lifecycle, TLAPS

(* A question is in one place: shown to the user, or answered in the       *)
(* channel while the run waits; the lock covers what is in between.        *)
DialogOK ==
    /\ decisions # <<>> => pc = "decide"
    /\ cell # "none" /\ ~locked => pc = "decide" /\ decisions = <<>>
    /\ pc = "decide" /\ decisions = <<>> => cell # "none" /\ ~locked
    /\ confirms # <<>> => pc = "confirm"
    /\ changes <=> pc = "confirm" /\ confirms = <<>>

(* An error waits for the lock of the cell, or there is none; an event may *)
(* fail on its content.                                                    *)
ErrorOK ==
    /\ pc = "working" => hand \in Changes
    /\ pc # "failing" => error = "none"
    /\ pc = "failing" => error \in {"other"} \cup Contents

LifeInv == TypeOK /\ DialogOK /\ ErrorOK /\ Told

LEMMA LifeInvInit == Init => LifeInv
<1> SUFFICES ASSUME Init PROVE LifeInv
    OBVIOUS
<1>1. NoRunner \in Runner
    BY DEF NoRunner, Runner, Ears, Eyes
<1>2. stale \subseteq Changes /\ edits \in 0..MaxEdits
    BY LifecycleAssumption DEF Init, Changes
<1>3. mode \in Modes /\ troubles \in 0..MaxTroubles
    BY LifecycleAssumption DEF Init, Modes
<1>4. runners \in [{"now", "former"} -> Runner]
    BY <1>1 DEF Init
<1>5. decisions \in Seq(Decisions) /\ confirms \in Seq({"accept", "refuse"})
    BY DEF Init
<1>6. Len(decisions) <= 1 /\ Len(confirms) <= 1
    BY DEF Init
<1>7. TypeOK
    BY <1>2, <1>3, <1>4, <1>5, <1>6 DEF Init, TypeOK, Points
<1> QED
    BY <1>7 DEF Init, LifeInv, DialogOK, ErrorOK, Told

-------------------------------------------------------------------------------
(* What the parts of the invariant look at.                                *)
LEMMA DialogsKept ==
    ASSUME DialogOK, UNCHANGED <<pc, dialog>>
    PROVE  DialogOK'
BY DEF DialogOK, dialog

LEMMA ErrorKept ==
    ASSUME ErrorOK, UNCHANGED <<pc, error, hand>>
    PROVE  ErrorOK'
BY DEF ErrorOK

LEMMA ToldKept ==
    ASSUME Told, UNCHANGED <<mode, pc, activity>>
    PROVE  Told'
BY DEF Told, Dialogs

(* Away from the questions the dialogs rest.                               *)
Elsewhere == Points \ {"decide", "confirm"}

LEMMA DialogsRest ==
    ASSUME DialogOK, UNCHANGED dialog, pc \in Elsewhere, pc' \in Elsewhere
    PROVE  DialogOK'
BY DEF DialogOK, dialog, Elsewhere

-------------------------------------------------------------------------------
(* Errors. *)
LEMMA TroublesCounted ==
    ASSUME TypeOK, Trouble \/ UNCHANGED troubles
    PROVE  troubles' \in 0..MaxTroubles
BY LifecycleAssumption DEF Trouble, MayFail, TypeOK

LEMMA RaiseKeeps ==
    ASSUME LifeInv, NEW kind \in {"connection", "other"} \cup Contents, Raise(kind),
           pc \in Elsewhere, UNCHANGED <<mode, dialog>>
    PROVE  /\ DialogOK' /\ ErrorOK' /\ Told'
           /\ pc' \in Points /\ error' \in {"none", "other"} \cup Contents
           /\ stale' \subseteq Changes /\ found' \subseteq Changes
           /\ hand' \in Changes \cup {None}
<1> USE DEF LifeInv
<1>1. /\ pc' \in {"sleep", "failing", "over"}
      /\ pc' = "failing" => error' = kind /\ kind # "connection"
      /\ pc' # "failing" => error' = "none"
    BY DEF Raise, TurnGivenUp, Dialogs
<1>2. DialogOK'
    BY <1>1, DialogsRest DEF Elsewhere, Points
<1>3. ErrorOK'
    BY <1>1 DEF ErrorOK
<1>4. Told'
    BY <1>1 DEF Told
<1>5. error' \in {"none", "other"} \cup Contents
    BY <1>1
<1>6. /\ stale' \subseteq Changes /\ found' \subseteq Changes
      /\ hand' \in Changes \cup {None}
    BY DEF Raise, TypeOK
<1> QED
    BY <1>1, <1>2, <1>3, <1>4, <1>5, <1>6 DEF Points

-------------------------------------------------------------------------------
(* The thread of run(). *)
LEMMA BeginKeeps ==
    ASSUME LifeInv, ReadFails \/ Begin
    PROVE  LifeInv'
<1> USE DEF LifeInv
<1>1. CASE ReadFails
    <2>1. TypeOK'
        BY <1>1, TroublesCounted DEF ReadFails, TypeOK, Points, work, dialog, lists
    <2> QED
        BY <1>1, <2>1, DialogsRest DEF ReadFails, ErrorOK, Told, Elsewhere, Points
<1>2. CASE Begin
    <2>1. PICK runner \in {Fresh, NoRunner} : Turn(ignoreFile, runner)
        BY <1>2 DEF Begin
    <2>2. runners' \in [{"now", "former"} -> Runner]
        <3>1. Fresh \in Runner /\ NoRunner \in Runner
            BY DEF Fresh, NoRunner, Runner, Ears, Eyes
        <3>2. Left(now) \in Runner
            BY DEF TypeOK, now, Left, Runner, Eyes
        <3> QED
            BY <2>1, <3>1, <3>2 DEF Turn
    <2>3. /\ pc = "begin" /\ pc \in Elsewhere
          /\ ignoring' = ignoreFile /\ UNCHANGED <<ignoreFile, noted, chosen>>
        BY <1>2, <2>1 DEF Turn, Begin, Elsewhere, Points
    <2>4. CASE Trouble /\ activity' = activity
               /\ \E kind \in {"connection", "other"} : Raise(kind)
        <3>1. PICK kind \in {"connection", "other"} : Raise(kind)
            BY <2>4
        <3>2. /\ DialogOK' /\ ErrorOK' /\ Told'
              /\ pc' \in Points /\ error' \in {"none", "other"} \cup Contents
              /\ stale' \subseteq Changes /\ found' \subseteq Changes
              /\ hand' \in Changes \cup {None}
            BY <1>2, <2>3, <3>1, RaiseKeeps DEF Begin
        <3>3. troubles' \in 0..MaxTroubles
            BY <2>4, TroublesCounted
        <3> QED
            BY <1>2, <2>2, <2>3, <2>4, <3>2, <3>3 DEF Begin, TypeOK, dialog
    <2>5. CASE pc' = "sync" /\ Tell("sync") /\ UNCHANGED <<work, error, troubles>>
        <3>1. TypeOK'
            BY <1>2, <2>2, <2>3, <2>5 DEF Begin, TypeOK, Points, Tell, work, dialog
        <3> QED
            BY <1>2, <2>3, <2>5, <3>1, DialogsRest DEF Begin, ErrorOK, Told, Elsewhere, Points
    <2> QED
        BY <1>2, <2>4, <2>5 DEF Begin
<1> QED
    BY <1>1, <1>2

LEMMA CompareKeeps ==
    ASSUME LifeInv, Compare
    PROVE  LifeInv'
<1> USE DEF LifeInv
<1>1. /\ pc = "sync" /\ pc' \in {"live", "confirm", "apply"}
      /\ UNCHANGED <<mode, cell, locked, decisions, confirms, lists, error>>
      /\ changes' = (IF pc' = "confirm" THEN TRUE ELSE changes)
    BY DEF Compare
<1>2. TypeOK'
    BY <1>1 DEF Compare, TypeOK, Points, Tell, lists, bounds
<1>3. DialogOK'
    BY <1>1 DEF DialogOK
<1>4. ErrorOK'
    BY <1>1 DEF ErrorOK
<1>5. Told'
    BY <1>1 DEF Told, Compare, Tell, Dialogs
<1> QED
    BY <1>2, <1>3, <1>4, <1>5

LEMMA FailuresKeep ==
    ASSUME LifeInv, SyncFails \/ OperateFails
    PROVE  LifeInv'
<1> USE DEF LifeInv
<1>1. PICK kind \in {"connection", "other"} \cup Contents : Fails(kind)
    <2>1. CASE SyncFails
        BY <2>1 DEF SyncFails, Errors, TypeOK, Changes
    <2>2. CASE OperateFails
        BY <2>2 DEF OperateFails, Errors, Changes, ErrorOK
    <2> QED
        BY <2>1, <2>2
<1>2. /\ pc \in Elsewhere
      /\ UNCHANGED <<mode, stop, runners, dialog, lists, declined, online, edits>>
      /\ activity' \in {activity, "idle"}
    BY DEF SyncFails, OperateFails, Elsewhere, Points, Tell
<1>3. /\ DialogOK' /\ ErrorOK' /\ Told'
      /\ pc' \in Points /\ error' \in {"none", "other"} \cup Contents
      /\ stale' \subseteq Changes /\ found' \subseteq Changes
      /\ hand' \in Changes \cup {None}
    BY <1>1, <1>2, RaiseKeeps DEF Fails
<1>4. troubles' \in 0..MaxTroubles
    BY <1>1, TroublesCounted DEF Fails
<1>5. TypeOK'
    BY <1>2, <1>3, <1>4 DEF TypeOK, dialog, lists
<1> QED
    BY <1>3, <1>5

LEMMA TakeConfirmKeeps ==
    ASSUME LifeInv, TakeConfirm
    PROVE  LifeInv'
<1> USE DEF LifeInv
<1>1. confirms' = <<>> /\ pc = "confirm" /\ pc' \in {"apply", "live"} /\ ~changes
    BY DEF TakeConfirm, TypeOK, DialogOK
<1>2. TypeOK'
    BY <1>1 DEF TakeConfirm, TypeOK, Points, Tell, RefusalTold, lists, bounds
<1>3. DialogOK' /\ ErrorOK' /\ Told'
    BY <1>1 DEF TakeConfirm, DialogOK, ErrorOK, Told, Tell, RefusalTold, Dialogs,
                lists
<1> QED
    BY <1>2, <1>3

LEMMA WorkKeeps ==
    ASSUME LifeInv, Apply \/ TakeEvent \/ Operate
    PROVE  LifeInv'
<1> USE DEF LifeInv
<1>1. /\ pc \in Elsewhere \ {"failing"} /\ pc' \in {"live", "working"}
      /\ UNCHANGED <<mode, error, dialog, lists, stop, declined, online, bounds>>
    BY DEF Apply, TakeEvent, Operate, Elsewhere, Points
<1>2. TypeOK'
    <2>1. CASE Apply \/ Operate
        BY <1>1, <2>1 DEF Apply, Operate, TypeOK, Points, Tell, dialog, lists, bounds
    <2>2. CASE TakeEvent
        <3>1. now \in Runner
            BY DEF TypeOK, now
        <3>2. runners' \in [{"now", "former"} -> Runner] /\ hand' \in Changes
            BY <2>2, <3>1 DEF TakeEvent, TypeOK, Runner, now
        <3> QED
            BY <1>1, <2>2, <3>2 DEF TakeEvent, TypeOK, Points, Tell, dialog, lists, bounds
    <2> QED
        BY <2>1, <2>2
<1>3. DialogOK'
    BY <1>1, DialogsRest DEF Elsewhere, Points
<1>4. ErrorOK'
    <2>1. pc' = "working" => hand' \in Changes
        BY DEF Apply, Operate, TakeEvent, TypeOK, Runner, now
    <2> QED
        BY <1>1, <2>1 DEF ErrorOK
<1>5. Told'
    BY <1>1 DEF Told, Apply, TakeEvent, Operate, Tell, Dialogs
<1> QED
    BY <1>2, <1>3, <1>4, <1>5

LEMMA TurnsKeep ==
    ASSUME LifeInv, LeaveLive \/ Wake \/ Check
    PROVE  LifeInv'
<1> USE DEF LifeInv
<1>1. /\ pc \in Elsewhere \ {"failing"} /\ pc' \in {"check", "begin", "over"}
      /\ pc' = "check" => pc = "live"
      /\ UNCHANGED <<mode, runners, work, error, dialog, lists, activity, declined, online,
                     bounds>>
      /\ stop' \in {stop, "cleared"}
    BY DEF LeaveLive, Wake, Check, Elsewhere, Points, OnlyRead
<1>2. TypeOK'
    BY <1>1 DEF TypeOK, Points, work, dialog, lists, bounds
<1>3. DialogOK'
    BY <1>1, DialogsRest DEF Elsewhere, Points
<1>4. ErrorOK' /\ Told'
    BY <1>1 DEF ErrorOK, lists, Told, Dialogs
<1> QED
    BY <1>2, <1>3, <1>4

LEMMA ShowErrorKeeps ==
    ASSUME LifeInv, ShowError
    PROVE  LifeInv'
<1> USE DEF LifeInv
<1>1. error \in {"other"} \cup Contents /\ error # "none" /\ pc = "failing"
    BY LifecycleAssumption DEF ShowError, ErrorOK
<1>2. TypeOK'
    BY <1>1 DEF ShowError, TypeOK, Points, Tell, work, lists, bounds
<1>3. DialogOK'
    BY <1>1 DEF ShowError, LockFree, DialogOK
<1>4. ErrorOK' /\ Told'
    BY DEF ShowError, ErrorOK, lists, Told, Tell, Dialogs
<1> QED
    BY <1>2, <1>3, <1>4

(* What a decision makes of the list and of the file.                      *)
LEMMA Listed ==
    ASSUME LifeInv, TakeDecision
    PROVE  /\ Head(decisions) \in Decisions /\ (noted => noted')
           /\ \/ UNCHANGED <<lists, troubles>>
              \/ IgnoreContent /\ Head(decisions) \in Contents
<1>1. Head(decisions) \in Decisions
    BY DEF TakeDecision, LifeInv, TypeOK
<1> QED
    BY <1>1 DEF TakeDecision, Decisions, lists, IgnoreContent

LEMMA TakeDecisionKeeps ==
    ASSUME LifeInv, TakeDecision
    PROVE  LifeInv'
<1> USE DEF LifeInv
<1>1. decisions' = <<>> /\ pc = "decide" /\ pc' = "check"
    BY DEF TakeDecision, TypeOK
<1>2. /\ ignoring' \subseteq Contents /\ ignoreFile' \subseteq Contents
      /\ chosen' \subseteq Contents /\ noted' \in BOOLEAN
    BY Listed DEF lists, IgnoreContent, Pushed, Glued, Written, TypeOK
<1>3. troubles' \in 0..MaxTroubles
    BY Listed, TroublesCounted DEF IgnoreContent
<1>4. TypeOK'
    BY <1>1, <1>2, <1>3 DEF TakeDecision, TypeOK, Points, Tell, work
<1>5. DialogOK'
    BY <1>1 DEF TakeDecision, DialogOK
<1>6. ErrorOK' /\ Told'
    BY <1>1 DEF TakeDecision, ErrorOK, Told, Tell, Dialogs
<1> QED
    BY <1>4, <1>5, <1>6

LEMMA RunStepKeeps ==
    ASSUME LifeInv, RunStep
    PROVE  LifeInv'
BY BeginKeeps, CompareKeeps, FailuresKeep, TakeConfirmKeeps, WorkKeeps, TurnsKeep,
   ShowErrorKeeps, TakeDecisionKeeps DEF RunStep

-------------------------------------------------------------------------------
(* The watcher threads, the window and the rest of the world.              *)
LEMMA ThreadsKeep ==
    ASSUME LifeInv, NEW kept \in {"now", "former"}, ThreadStep(kept)
    PROVE  LifeInv'
<1> USE DEF LifeInv
<1>1. ThreadOnly
    BY DEF ThreadStep, EarStep, EyeStep
<1>2. runners' \in [{"now", "former"} -> Runner]
    BY DEF ThreadStep, EarStep, EyeStep, EarConnects, EarFallsSilent, EarStops, EyeOpens,
           EyeCloses, Begins, BeginFails, TypeOK, Runner, Ears, Eyes
<1>3. troubles' \in 0..MaxTroubles
    BY TroublesCounted DEF ThreadStep, EarStep, EyeStep, EarConnects, EarFallsSilent, EarStops,
                           EyeOpens, EyeCloses, Begins, BeginFails
<1>4. TypeOK'
    BY <1>1, <1>2, <1>3 DEF ThreadOnly, TypeOK, work, dialog, lists
<1> QED
    BY <1>1, <1>4, DialogsKept, ErrorKept, ToldKept DEF ThreadOnly, work

LEMMA WindowKeeps ==
    ASSUME LifeInv, Window
    PROVE  LifeInv'
<1> USE DEF LifeInv
<1>1. UNCHANGED <<mode, pc, stop, runners, work, error, lists, activity, declined, online,
                  bounds>>
    BY DEF Window, Decide, EmptyCell, Confirm
<1>2. ErrorOK' /\ Told'
    BY <1>1, ErrorKept, ToldKept DEF work
<1>3. CASE Decide
    <2>1. PICK decision \in Offered : decisions' = Append(decisions, decision)
        BY <1>3 DEF Decide
    <2>2. decisions = <<>> /\ pc = "decide" /\ cell' # "none" /\ locked' = TRUE
        BY <1>3 DEF Decide, DialogOK
    <2>3. decisions' = <<decision>> /\ decision \in Decisions
        BY <2>1, <2>2 DEF Offered, Decisions
    <2>4. TypeOK'
        BY <1>1, <1>3, <2>2, <2>3 DEF Decide, TypeOK, work, lists, bounds
    <2>5. DialogOK'
        BY <1>1, <1>3, <2>2, <2>3 DEF Decide, DialogOK
    <2> QED
        BY <1>2, <2>4, <2>5
<1>4. CASE EmptyCell
    <2>1. TypeOK'
        BY <1>1, <1>4 DEF EmptyCell, TypeOK, work, lists, bounds
    <2>2. DialogOK'
        BY <1>1, <1>4 DEF EmptyCell, DialogOK
    <2> QED
        BY <1>2, <2>1, <2>2
<1>5. CASE Confirm
    <2>1. PICK answer \in {"accept", "refuse"} : confirms' = Append(confirms, answer)
        BY <1>5 DEF Confirm
    <2>2. confirms = <<>> /\ pc = "confirm"
        BY <1>5 DEF Confirm, DialogOK
    <2>3. confirms' \in Seq({"accept", "refuse"}) /\ Len(confirms') = 1
        BY <2>1, <2>2 DEF TypeOK
    <2>4. TypeOK'
        <3>1. changes' = FALSE /\ UNCHANGED <<cell, locked, decisions>>
            BY <1>5 DEF Confirm, AskedNoMore
        <3>2. confirms' \in Seq({"accept", "refuse"}) /\ Len(confirms') <= 1
            BY <2>3
        <3>3. decisions' \in Seq(Decisions) /\ Len(decisions') <= 1
            BY <3>1 DEF TypeOK
        <3>4. changes' \in BOOLEAN
            BY <3>1
        <3> QED
            BY <1>1, <3>1, <3>2, <3>3, <3>4 DEF TypeOK, work, lists, bounds
    <2>5. DialogOK'
        BY <1>1, <1>5, <2>2, <2>3 DEF Confirm, AskedNoMore, DialogOK
    <2> QED
        BY <1>2, <2>4, <2>5
<1> QED
    BY <1>3, <1>4, <1>5 DEF Window

LEMMA WorldKeeps ==
    ASSUME LifeInv, Signal \/ Outage \/ Recovery \/ Edit
    PROVE  LifeInv'
<1> USE DEF LifeInv
<1>1. UNCHANGED <<mode, pc, error, dialog, lists, activity, found, hand, declined>>
    BY DEF Signal, Outage, Recovery, Edit, work
<1>2. DialogOK' /\ ErrorOK' /\ Told'
    BY <1>1, DialogsKept, ErrorKept, ToldKept
<1>3. CASE Signal \/ Recovery
    BY <1>2, <1>3 DEF Signal, Recovery, TypeOK, work, dialog, lists, bounds
<1>4. CASE Outage
    <2>1. runners' \in [{"now", "former"} -> Runner]
        BY <1>4 DEF Outage, TypeOK, Runner, Ears
    <2>2. troubles' \in 0..MaxTroubles
        BY <1>4, TroublesCounted DEF Outage
    <2> QED
        BY <1>1, <1>2, <1>4, <2>1, <2>2 DEF Outage, TypeOK, work, dialog, lists
<1>5. CASE Edit
    <2>1. PICK change \in Sides \X Contents \X {edits'} :
             /\ stale' = stale \cup {change}
             /\ runners' = [runners EXCEPT !.now.queue =
                               IF Heard(change) THEN @ \cup {change} ELSE @]
        BY <1>5 DEF Edit
    <2>2. edits' \in 0..MaxEdits /\ change \in Changes
        BY <1>5, LifecycleAssumption DEF Edit, TypeOK, Changes
    <2>3. runners' \in [{"now", "former"} -> Runner]
        BY <2>1, <2>2 DEF TypeOK, Runner
    <2>4. stale' \subseteq Changes
        BY <2>1, <2>2 DEF TypeOK
    <2> QED
        BY <1>1, <1>2, <1>5, <2>2, <2>3, <2>4 DEF Edit, TypeOK, dialog, lists
<1> QED
    BY <1>3, <1>4, <1>5

LEMMA StutterKeeps ==
    ASSUME LifeInv, UNCHANGED vars
    PROVE  LifeInv'
<1>1. TypeOK'
    BY DEF LifeInv, TypeOK, vars, work, dialog, lists, bounds
<1> QED
    BY <1>1, DialogsKept, ErrorKept, ToldKept DEF LifeInv, vars, work

LEMMA LifeInvNext == LifeInv /\ [Next]_vars => LifeInv'
<1> SUFFICES ASSUME LifeInv, [Next]_vars PROVE LifeInv'
    OBVIOUS
<1> QED
    BY RunStepKeeps, ThreadsKeep, WindowKeeps, WorldKeeps, StutterKeeps DEF Next

(* The strengthening: types, the activity told, one question at a time in  *)
(* one place (run2.rs:477-498).                                            *)
THEOREM LifeInvariance == Spec => []LifeInv
<1> QED
    BY LifeInvInit, LifeInvNext, PTL DEF Spec

-------------------------------------------------------------------------------
(* The variables keep their types and no channel ever holds two answers.   *)
THEOREM LifecycleTypeCorrectness == Spec => []TypeOK
<1>1. LifeInv => TypeOK
    BY DEF LifeInv
<1> QED
    BY <1>1, LifeInvariance, PTL

(* The last activity sent is that of the place where a run rests or waits  *)
(* (run2.rs:134-164, 477, 498).                                            *)
THEOREM ToldTruly == Spec => []Told
<1>1. LifeInv => Told
    BY DEF LifeInv
<1> QED
    BY <1>1, LifeInvariance, PTL

-------------------------------------------------------------------------------
(* The steps of run() that have nothing to ask.                            *)
SilentStep ==
    ReadFails \/ Begin \/ SyncFails \/ Apply \/ LeaveLive \/ TakeEvent \/ Operate
    \/ OperateFails \/ Wake \/ Check

LEMMA SilentSteps ==
    ASSUME LifeInv, SilentStep
    PROVE  /\ pc \in Elsewhere \ {"over"} /\ pc' \in Elsewhere /\ UNCHANGED dialog
           /\ stop' = stop \/ (pc' = "over" /\ stop = "set" /\ stop' = "cleared")
<1> USE DEF Elsewhere, Points
<1>1. ASSUME NEW kind, Raise(kind) PROVE pc' \in {"sleep", "failing", "over"}
    BY <1>1 DEF Raise, TurnGivenUp
<1>2. CASE ReadFails
    BY <1>2 DEF ReadFails
<1>3. CASE Begin
    BY <1>1, <1>3 DEF Begin
<1>4. CASE SyncFails \/ OperateFails
    BY <1>1, <1>4 DEF SyncFails, OperateFails, Fails
<1>5. CASE Apply \/ TakeEvent \/ Operate
    BY <1>5 DEF Apply, TakeEvent, Operate
<1>6. CASE LeaveLive \/ Wake
    BY <1>6 DEF LeaveLive, Wake, OnlyRead
<1>7. CASE Check
    BY <1>7 DEF Check, StopRequested
<1> QED
    BY <1>2, <1>3, <1>4, <1>5, <1>6, <1>7 DEF SilentStep

LEMMA RunStepSplit ==
    ASSUME RunStep
    PROVE  SilentStep \/ Compare \/ TakeConfirm \/ ShowError \/ TakeDecision
BY DEF RunStep, SilentStep

(* What asks nothing, answers nothing and takes no answer.                 *)
LEMMA WorldIsSilent ==
    ASSUME Signal \/ Outage \/ Recovery \/ Edit
           \/ (\E kept \in {"now", "former"} : ThreadStep(kept)) \/ UNCHANGED vars
    PROVE  UNCHANGED <<pc, dialog>>
BY DEF Signal, Outage, Recovery, Edit, ThreadStep, EarStep, EyeStep, ThreadOnly, vars

-------------------------------------------------------------------------------
(* What the user chose to ignore is in the file, where every turn of the   *)
(* loop finds it, as long as trsync alone writes there: the list that is   *)
(* written is that of the turn, which holds what the file held (run2.rs:463,*)
(* 484; ignore.rs:79).                                                     *)
IgnoredInv == ~noted => chosen \subseteq ignoreFile /\ chosen \subseteq ignoring

LEMMA ListsKept ==
    ASSUME [Next]_vars, ~Begin, ~TakeDecision
    PROVE  UNCHANGED lists
<1>1. CASE RunStep
    BY <1>1 DEF RunStep, ReadFails, Compare, SyncFails, TakeConfirm, Apply, LeaveLive, TakeEvent,
                Operate, OperateFails, Wake, ShowError, Check
<1>2. CASE Window
    BY <1>2 DEF Window, Decide, EmptyCell, Confirm
<1>3. CASE Signal \/ Edit \/ Outage \/ Recovery
    BY <1>3 DEF Signal, Edit, Outage, Recovery
<1>4. CASE \E kept \in {"now", "former"} : ThreadStep(kept)
    BY <1>4 DEF ThreadStep, EarStep, EyeStep, ThreadOnly
<1>5. CASE UNCHANGED vars
    BY <1>5 DEF vars
<1> QED
    BY <1>1, <1>2, <1>3, <1>4, <1>5 DEF Next

(* Whatever fails in between, the content of a decision that was written   *)
(* is ignored by every later turn of run(), unless somebody else writes    *)
(* to .trsyncignore (run2.rs:463, 482-484).                                *)
THEOREM IgnoredStays == Spec => []IgnoredForGood
<1>1. Init => IgnoredInv
    BY DEF Init, IgnoredInv
<1>2. ASSUME LifeInv, IgnoredInv, [Next]_vars PROVE IgnoredInv'
    <2>1. CASE Begin
        <3>1. ignoring' = ignoreFile /\ UNCHANGED <<ignoreFile, noted, chosen>>
            BY <2>1 DEF Begin, Turn
        <3> QED
            BY <1>2, <3>1 DEF IgnoredInv
    <2>2. CASE TakeDecision
        <3>1. noted => noted'
            BY <1>2, <2>2, Listed
        <3>2. CASE UNCHANGED <<lists, troubles>>
            BY <1>2, <3>2 DEF IgnoredInv, lists
        <3>3. CASE IgnoreContent
            BY <1>2, <3>1, <3>3 DEF IgnoreContent, IgnoredInv, Pushed, Written, Glued
        <3> QED
            BY <1>2, <2>2, <3>2, <3>3, Listed
    <2>3. CASE UNCHANGED lists
        BY <1>2, <2>3 DEF IgnoredInv, lists
    <2> QED
        BY <1>2, <2>1, <2>2, <2>3, ListsKept
<1>3. IgnoredInv => IgnoredForGood
    BY DEF IgnoredInv, IgnoredForGood, IgnoredInFuture
<1>4. LifeInv /\ IgnoredInv /\ [Next]_vars => IgnoredInv'
    BY <1>2
<1> QED
    BY <1>1, <1>3, <1>4, LifeInvariance, PTL DEF Spec

-------------------------------------------------------------------------------
(* The decision about an error and the confirmation of a startup are       *)
(* exchanges of Question: asked, answered once, taken.                     *)
LEMMA ErrorExchangeSteps ==
    LifeInv /\ [Next]_vars => [AboutError!Next]_ErrorExchange
<1> SUFFICES ASSUME LifeInv, [Next]_vars PROVE [AboutError!Next]_ErrorExchange
    OBVIOUS
<1> USE DEF LifeInv
<1>1. CASE SilentStep
    BY <1>1, SilentSteps DEF ErrorExchange, DialogOK, dialog, Elsewhere
<1>2. CASE Compare \/ TakeConfirm
    BY <1>2 DEF Compare, TakeConfirm, ErrorExchange
<1>3. CASE ShowError
    <2>1. decisions = <<>> /\ decisions' = <<>> /\ pc # "decide" /\ pc' = "decide"
        BY <1>3 DEF ShowError, DialogOK
    <2> QED
        BY <2>1 DEF ErrorExchange, AboutError!Next, AboutError!Ask
<1>4. CASE TakeDecision
    <2>1. decisions # <<>> /\ Head(decisions) \in Decisions /\ decisions' = <<>>
          /\ pc' # "decide"
        BY <1>4 DEF TakeDecision, TypeOK
    <2> QED
        BY <2>1 DEF ErrorExchange, AboutError!Next, AboutError!Take
<1>5. CASE Decide
    <2>1. PICK decision \in Offered : decisions' = Append(decisions, decision)
        BY <1>5 DEF Decide
    <2>2. decisions = <<>> /\ pc = "decide" /\ decision \in Decisions
        BY <1>5 DEF Decide, DialogOK, Offered, Decisions
    <2>3. decisions' # <<>> /\ Head(decisions') = decision
        BY <2>1, <2>2
    <2> QED
        BY <2>2, <2>3 DEF ErrorExchange, AboutError!Next, AboutError!Answer
<1>6. CASE EmptyCell \/ Confirm
    BY <1>6 DEF EmptyCell, Confirm, ErrorExchange
<1>7. CASE UNCHANGED <<pc, dialog>>
    BY <1>7 DEF ErrorExchange, dialog
<1> QED
    BY <1>1, <1>2, <1>3, <1>4, <1>5, <1>6, <1>7, RunStepSplit, WorldIsSilent DEF Next, Window

(* The cell of the error, its lock and the channel of decisions: an error  *)
(* is shown, answered once, and the answer taken before the next is shown  *)
(* (run2.rs:477-498, monitor/app.rs:377-432).                              *)
THEOREM ErrorsAnsweredOnce == Spec => AboutError!SafeSpec
<1>1. Init => AboutError!Init
    BY DEF Init, AboutError!Init, ErrorExchange
<1> QED
    BY <1>1, ErrorExchangeSteps, LifeInvariance, PTL DEF Spec, AboutError!SafeSpec

LEMMA ConfirmExchangeSteps ==
    LifeInv /\ [Next]_vars => [AboutStartup!Next]_ConfirmExchange
<1> SUFFICES ASSUME LifeInv, [Next]_vars PROVE [AboutStartup!Next]_ConfirmExchange
    OBVIOUS
<1> USE DEF LifeInv
<1>1. CASE SilentStep
    BY <1>1, SilentSteps DEF ConfirmExchange, DialogOK, dialog, Elsewhere
<1>2. CASE ShowError \/ TakeDecision
    BY <1>2 DEF ShowError, TakeDecision, ConfirmExchange, DialogOK
<1>3. CASE Compare
    <2>1. confirms = <<>> /\ confirms' = <<>> /\ pc # "confirm"
        BY <1>3 DEF Compare, DialogOK
    <2> QED
        BY <2>1 DEF ConfirmExchange, AboutStartup!Next, AboutStartup!Ask
<1>4. CASE TakeConfirm
    <2>1. confirms # <<>> /\ Head(confirms) \in {"accept", "refuse"} /\ confirms' = <<>>
          /\ pc' # "confirm"
        BY <1>4 DEF TakeConfirm, TypeOK
    <2> QED
        BY <2>1 DEF ConfirmExchange, AboutStartup!Next, AboutStartup!Take
<1>5. CASE Confirm
    <2>1. PICK answer \in {"accept", "refuse"} : confirms' = Append(confirms, answer)
        BY <1>5 DEF Confirm
    <2>2. confirms = <<>> /\ pc = "confirm"
        BY <1>5 DEF Confirm, DialogOK
    <2>3. confirms' # <<>> /\ Head(confirms') = answer
        BY <2>1, <2>2
    <2> QED
        BY <2>2, <2>3 DEF ConfirmExchange, AboutStartup!Next, AboutStartup!Answer
<1>6. CASE Decide \/ EmptyCell
    BY <1>6 DEF Decide, EmptyCell, ConfirmExchange
<1>7. CASE UNCHANGED <<pc, dialog>>
    BY <1>7 DEF ConfirmExchange, dialog
<1> QED
    BY <1>1, <1>2, <1>3, <1>4, <1>5, <1>6, <1>7, RunStepSplit, WorldIsSilent DEF Next, Window

(* So do the changes shown and the channel of confirmations (run2.rs:      *)
(* 173-182, monitor/app.rs:281-347).                                       *)
THEOREM StartupsAnsweredOnce == Spec => AboutStartup!SafeSpec
<1>1. Init => AboutStartup!Init
    BY DEF Init, AboutStartup!Init, ConfirmExchange
<1> QED
    BY <1>1, ConfirmExchangeSteps, LifeInvariance, PTL DEF Spec, AboutStartup!SafeSpec

-------------------------------------------------------------------------------
(* A run is a SpaceRun.                                                    *)
LEMMA ContractSteps ==
    LifeInv /\ [Next]_vars => [Contract!Next]_(Contract!vars)
<1> SUFFICES ASSUME LifeInv, [Next]_vars PROVE [Contract!Next]_(Contract!vars)
    OBVIOUS
<1> USE DEF LifeInv, Outside, Contract!Next, Contract!vars
<1>1. CASE SilentStep
    <2>1. Outside = "busy" /\ Outside' = (IF pc' = "over" THEN "over" ELSE "busy")
        BY <1>1, SilentSteps DEF Elsewhere
    <2> QED
        BY <1>1, <2>1, SilentSteps DEF Contract!End
<1>2. CASE Compare
    <2>1. pc = "sync" /\ stop' = stop /\ confirms = <<>> /\ confirms' = <<>>
          /\ pc' \in {"live", "confirm", "apply"}
        BY <1>2 DEF Compare, DialogOK
    <2> QED
        BY <2>1 DEF Contract!Ask
<1>3. CASE TakeConfirm
    BY <1>3 DEF TakeConfirm
<1>4. CASE ShowError
    <2>1. pc = "failing" /\ stop' = stop /\ decisions' = <<>> /\ pc' = "decide"
        BY <1>4 DEF ShowError, DialogOK
    <2> QED
        BY <2>1 DEF Contract!Ask
<1>5. CASE TakeDecision
    BY <1>5 DEF TakeDecision
<1>6. CASE Decide
    <2>1. PICK decision \in Offered : decisions' = Append(decisions, decision)
        BY <1>6 DEF Decide
    <2>2. decisions = <<>> /\ pc = "decide" /\ pc' = pc /\ stop' = stop
        BY <1>6 DEF Decide, DialogOK
    <2>3. decisions' # <<>>
        BY <2>1, <2>2
    <2> QED
        BY <2>2, <2>3 DEF Contract!Resume
<1>7. CASE EmptyCell
    BY <1>7 DEF EmptyCell
<1>8. CASE Confirm
    <2>1. PICK answer \in {"accept", "refuse"} : confirms' = Append(confirms, answer)
        BY <1>8 DEF Confirm
    <2>2. confirms = <<>> /\ pc = "confirm" /\ pc' = pc /\ stop' = stop
        BY <1>8 DEF Confirm, DialogOK
    <2>3. confirms' # <<>>
        BY <2>1, <2>2
    <2> QED
        BY <2>2, <2>3 DEF Contract!Resume
<1>9. CASE Signal
    BY <1>9 DEF Signal, dialog, Contract!Signal
<1>10. CASE UNCHANGED <<pc, dialog, stop>>
    BY <1>10 DEF dialog
<1>11. ASSUME Outage \/ Recovery \/ Edit
              \/ (\E kept \in {"now", "former"} : ThreadStep(kept)) \/ UNCHANGED vars
       PROVE  UNCHANGED <<pc, dialog, stop>>
    BY <1>11 DEF Outage, Recovery, Edit, ThreadStep, EarStep, EyeStep, ThreadOnly, vars
<1> QED
    BY <1>1, <1>2, <1>3, <1>4, <1>5, <1>6, <1>7, <1>8, <1>9, <1>10, <1>11, RunStepSplit
    DEF Next, Window

(* The loop of run() works, waits for its user or is over, once for all,   *)
(* and takes the stop signal back only as it ends (run2.rs:504-505).       *)
THEOREM RunIsSpaceRun == Spec => Contract!SafeSpec
<1>1. Init => Contract!Init
    BY DEF Init, Contract!Init, Outside
<1> QED
    BY <1>1, ContractSteps, LifeInvariance, PTL DEF Spec, Contract!SafeSpec

===============================================================================
